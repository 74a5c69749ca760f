------------------------- MODULE DeviceMonitorProofs -------------------------
(***************************************************************************)
(* Proofs about the device monitor, for any number of subscribers,         *)
(* configurations, monitor objects and updates.                            *)
(*                                                                         *)
(* OnePoller and NoStrandedSubscriber are not inductive: a monitor taken   *)
(* for an update must still be the object it was when the update cancels   *)
(* it, and whoever joins the monitor of the map must find one that is      *)
(* neither cancelled nor past closing its channels.  IInv adds this.       *)
(***************************************************************************)
EXTENDS DeviceMonitor, TLAPS

(* Every goroutine that means to go on is in the map or being cancelled.   *)
Polls ==
  \A r \in Runtimes :
    runtime[r].phase = "running" /\ ~runtime[r].cancelled =>
      r = monitors \/ r = editor.victim

(* A channel in a monitor belongs to a subscriber that holds the monitor.  *)
Joined ==
  \A r \in Runtimes, n \in Clients :
    n \in runtime[r].subs => client[n].pc = "open" /\ client[n].rt = r

(* The monitor a subscriber holds is an object in use; what it read before *)
(* joining one was enabled.                                                *)
Held ==
  \A n \in Clients :
    /\ client[n].pc \in {"open", "closed"} =>
         /\ client[n].rt \in Runtimes
         /\ runtime[client[n].rt].phase # "unused"
    /\ client[n].pc = "found" => client[n].cfg # Off

(* The monitor of the map has not been cancelled and can still be joined.  *)
Current ==
  monitors # 0 =>
    /\ runtime[monitors].phase \in {"running", "returned"}
    /\ ~runtime[monitors].cancelled

(* The monitor an update has taken is another one, and still an object.    *)
Taken ==
  editor.victim # 0 =>
    /\ editor.pc = "cancel"
    /\ editor.victim # monitors
    /\ runtime[editor.victim].phase # "unused"

IInv == TypeOK /\ Polls /\ NoStrandedSubscriber /\ Joined /\ Held /\ Current /\ Taken

(* What Collected leaves: the object as it was, or none in place of one    *)
(* that has ended and that neither a subscriber nor an update holds.       *)
LEMMA CollectedShape ==
  ASSUME NEW rts \in [Runtimes -> Monitor], NEW cls, NEW victim
  PROVE  /\ Collected(rts, cls, victim) \in [Runtimes -> Monitor]
         /\ \A r \in Runtimes :
              \/ Collected(rts, cls, victim)[r] = rts[r]
              \/ /\ Collected(rts, cls, victim)[r] = Unused
                 /\ rts[r].phase = "ended" /\ r # victim
                 /\ \A n \in Clients : cls[n].rt # r
BY DEF Collected, Monitor, Unused

LEMMA InitIInv == Init => IInv
BY MonitorAssumption DEF Init, IInv, TypeOK, Polls, NoStrandedSubscriber, Joined, Held,
   Current, Taken, Unused, Idle, NoEdit, Runtimes, Monitor, Subscriber, Update


(* Subscribers.                                                            *)
LEMMA FindDatasourceStep ==
  ASSUME IInv, NEW n \in Clients, FindDatasource(n)
  PROVE  IInv'
<1>1. /\ client[n] = Idle /\ db # Off /\ UNCHANGED <<db, monitors, runtime, editor, edits>>
      /\ client' = [client EXCEPT ![n] = [pc |-> "found", cfg |-> db, rt |-> 0]]
  BY DEF FindDatasource
<1>2. client \in [Clients -> Subscriber] /\ db \in Configs \cup {Off}
  BY DEF IInv, TypeOK
<1>3. /\ client' \in [Clients -> Subscriber]
      /\ \A m \in Clients :
           client'[m] = IF m = n THEN [pc |-> "found", cfg |-> db, rt |-> 0] ELSE client[m]
  BY <1>1, <1>2 DEF Subscriber
<1>4. TypeOK'
  BY <1>1, <1>3 DEF IInv, TypeOK
<1>5. Polls' /\ Current' /\ Taken'
  BY <1>1 DEF IInv, Polls, Current, Taken
<1>6. NoStrandedSubscriber' /\ Joined' /\ Held'
  BY <1>1, <1>3 DEF IInv, NoStrandedSubscriber, Joined, Held, Idle
<1> QED BY <1>4, <1>5, <1>6 DEF IInv

LEMMA StartMonitorStep ==
  ASSUME IInv, NEW n \in Clients, Subscribe(n), monitors = 0
  PROVE  IInv'
<1> DEFINE r == CHOOSE s \in Runtimes : runtime[s] = Unused
           c == [pc |-> "open", cfg |-> Off, rt |-> r]
<1>1. /\ r \in Runtimes /\ runtime[r] = Unused /\ monitors' = r
      /\ runtime' = [runtime EXCEPT ![r] = Fresh(client[n].cfg, n)]
      /\ client' = [client EXCEPT ![n] = c]
      /\ client[n].pc = "found"
      /\ UNCHANGED <<db, editor, edits>>
  BY DEF Subscribe
<1> HIDE DEF r
<1>2. runtime \in [Runtimes -> Monitor] /\ client \in [Clients -> Subscriber]
  BY DEF IInv, TypeOK
<1>3. client[n].cfg # Off /\ client[n].cfg \in Configs \cup {Off}
  BY <1>1, <1>2 DEF IInv, Held, Subscriber
<1>4. /\ runtime' \in [Runtimes -> Monitor]
      /\ \A s \in Runtimes :
           runtime'[s] = IF s = r THEN Fresh(client[n].cfg, n) ELSE runtime[s]
  BY <1>1, <1>2, <1>3 DEF Monitor, Fresh
<1>5. /\ client' \in [Clients -> Subscriber]
      /\ \A m \in Clients : client'[m] = IF m = n THEN c ELSE client[m]
  BY <1>1, <1>2 DEF Subscriber
<1>6. r # 0 /\ r # editor.victim
  BY <1>1 DEF IInv, Runtimes, Taken, Unused
<1>7. \A m \in Clients : m # n /\ client[m].pc \in {"open", "closed"} => client[m].rt # r
  BY <1>1 DEF IInv, Held, Unused
<1>8. TypeOK'
  BY <1>1, <1>3, <1>4, <1>5 DEF IInv, TypeOK, Fresh
<1>9. /\ \A s \in Runtimes : s # r => runtime'[s] = runtime[s]
      /\ runtime'[r].phase = "running" /\ ~runtime'[r].cancelled
      /\ runtime'[r].subs = {n}
  BY <1>1, <1>4 DEF Fresh
<1>10. Polls' /\ Current'
  BY <1>1, <1>9 DEF IInv, Runtimes, Polls, Current
<1>13. Taken'
  BY <1>1, <1>6, <1>9 DEF IInv, TypeOK, Update, Taken
<1>14. NoStrandedSubscriber'
  BY <1>1, <1>5, <1>7, <1>9 DEF IInv, Runtimes, NoStrandedSubscriber, Held
<1>11. Joined'
  BY <1>1, <1>4, <1>5, <1>6, <1>7 DEF IInv, Joined, Fresh
<1>12. Held'
  BY <1>1, <1>4, <1>5, <1>7 DEF IInv, Held, Fresh
<1> QED BY <1>8, <1>10, <1>11, <1>12, <1>13, <1>14 DEF IInv

LEMMA JoinMonitorStep ==
  ASSUME IInv, NEW n \in Clients, Subscribe(n), monitors # 0
  PROVE  IInv'
<1> DEFINE o == [runtime[monitors] EXCEPT !.subs = @ \cup {n}, !.timer = "nil"]
           c == [pc |-> "open", cfg |-> Off, rt |-> monitors]
<1>1. /\ runtime' = [runtime EXCEPT ![monitors] = o]
      /\ client' = [client EXCEPT ![n] = c]
      /\ client[n].pc = "found"
      /\ UNCHANGED <<db, monitors, editor, edits>>
  BY DEF Subscribe
<1>2. /\ runtime \in [Runtimes -> Monitor] /\ client \in [Clients -> Subscriber]
      /\ monitors \in Runtimes
  BY DEF IInv, TypeOK
<1>3. /\ o \in Monitor /\ o.phase = runtime[monitors].phase /\ o.cfg = runtime[monitors].cfg
      /\ o.cancelled = runtime[monitors].cancelled
      /\ o.subs = runtime[monitors].subs \cup {n}
  BY <1>2 DEF Monitor
<1> HIDE DEF o
<1>4. /\ runtime' \in [Runtimes -> Monitor]
      /\ \A s \in Runtimes : runtime'[s] = IF s = monitors THEN o ELSE runtime[s]
  BY <1>1, <1>2, <1>3
<1>5. /\ client' \in [Clients -> Subscriber]
      /\ \A m \in Clients : client'[m] = IF m = n THEN c ELSE client[m]
  BY <1>1, <1>2 DEF Subscriber
<1>6. TypeOK'
  BY <1>1, <1>3, <1>4, <1>5 DEF IInv, TypeOK
<1>7. Polls' /\ Current' /\ Taken'
  BY <1>1, <1>2, <1>3, <1>4 DEF IInv, TypeOK, Update, Polls, Current, Taken
<1>8. NoStrandedSubscriber'
  BY <1>1, <1>2, <1>3, <1>4, <1>5 DEF IInv, NoStrandedSubscriber, Held, Current
<1>9. Joined'
  BY <1>1, <1>3, <1>4, <1>5 DEF IInv, Joined
<1>10. Held'
  BY <1>1, <1>2, <1>3, <1>4, <1>5 DEF IInv, Held, Current
<1> QED BY <1>6, <1>7, <1>8, <1>9, <1>10 DEF IInv

LEMMA UnsubscribeStep ==
  ASSUME IInv, NEW n \in Clients, Unsubscribe(n)
  PROVE  IInv'
<1> DEFINE r == client[n].rt
           o == [runtime[r] EXCEPT !.subs = runtime[r].subs \ {n},
                   !.timer = IF runtime[r].subs \ {n} = {} /\ @ = "nil"
                               THEN "armed" ELSE @]
           rts == [runtime EXCEPT ![r] = o]
<1>1. /\ client[n].pc \in {"open", "closed"}
      /\ client' = [client EXCEPT ![n] = Idle]
      /\ UNCHANGED <<db, monitors, editor, edits>>
  BY DEF Unsubscribe
<1>0. runtime' = Collected(rts, client', editor.victim)
  BY DEF Unsubscribe
<1>2. /\ runtime \in [Runtimes -> Monitor] /\ client \in [Clients -> Subscriber]
      /\ r \in Runtimes /\ runtime[r].phase # "unused"
  BY <1>1 DEF IInv, TypeOK, Held
<1>3. /\ o \in Monitor /\ o.phase = runtime[r].phase /\ o.cfg = runtime[r].cfg
      /\ o.cancelled = runtime[r].cancelled /\ o.subs = runtime[r].subs \ {n}
  BY ZenonT(40), <1>2 DEF Monitor
<1> HIDE DEF o
<1>4. /\ rts \in [Runtimes -> Monitor]
      /\ \A s \in Runtimes :
           /\ rts[s].phase = runtime[s].phase /\ rts[s].cfg = runtime[s].cfg
           /\ rts[s].cancelled = runtime[s].cancelled
           /\ rts[s].subs = runtime[s].subs \ {n}
  BY <1>2, <1>3 DEF IInv, Joined
<1> HIDE DEF rts
<1>5. /\ runtime' \in [Runtimes -> Monitor]
      /\ \A s \in Runtimes :
           \/ runtime'[s] = rts[s]
           \/ /\ runtime'[s] = Unused /\ runtime[s].phase = "ended"
              /\ s # editor.victim /\ \A m \in Clients : client'[m].rt # s
  <2> DEFINE C == Collected(rts, client', editor.victim)
  <2>1. /\ C \in [Runtimes -> Monitor]
        /\ \A s \in Runtimes :
              \/ C[s] = rts[s]
              \/ /\ C[s] = Unused /\ rts[s].phase = "ended" /\ s # editor.victim
                 /\ \A m \in Clients : client'[m].rt # s
    BY <1>4, CollectedShape
  <2>2. runtime' = C
    BY <1>0
  <2> HIDE DEF C
  <2> QED BY <1>4, <2>1, <2>2
<1>6. /\ client' \in [Clients -> Subscriber]
      /\ \A m \in Clients : client'[m] = IF m = n THEN Idle ELSE client[m]
  BY <1>1, <1>2 DEF Subscriber, Idle
<1>7. TypeOK'
  BY <1>1, <1>4, <1>5, <1>6 DEF IInv, TypeOK, Unused
<1>8. Polls' /\ Current' /\ Taken'
  BY <1>1, <1>4, <1>5 DEF IInv, TypeOK, Update, Unused, Polls, Current, Taken
<1>9. NoStrandedSubscriber'
  BY <1>1, <1>4, <1>5, <1>6 DEF IInv, Idle, NoStrandedSubscriber, Held
<1>10. Joined'
  BY <1>1, <1>4, <1>5, <1>6 DEF IInv, Idle, Unused, Joined
<1>11. Held'
  BY <1>1, <1>4, <1>5, <1>6 DEF IInv, Idle, Unused, Held
<1> QED BY <1>7, <1>8, <1>9, <1>10, <1>11 DEF IInv

(* The monitors, their goroutines and timers.                              *)

(* The object s is gone, or it is as before except that its goroutine may  *)
(* have returned from the driver and its timer may have moved.             *)
Kept(s) ==
  \/ /\ runtime'[s] = Unused /\ runtime[s].phase = "ended"
     /\ s # editor.victim /\ \A m \in Clients : client[m].rt # s
  \/ /\ runtime'[s].cfg = runtime[s].cfg /\ runtime'[s].subs = runtime[s].subs
     /\ runtime'[s].cancelled = runtime[s].cancelled
     /\ \/ runtime'[s].phase = runtime[s].phase
        \/ runtime[s].phase = "running" /\ runtime'[s].phase = "returned"

(* Steps of that kind preserve the invariant.                              *)
LEMMA KeptSteps ==
  ASSUME IInv, runtime' \in [Runtimes -> Monitor], \A s \in Runtimes : Kept(s),
         UNCHANGED <<db, monitors, client, editor, edits>>
  PROVE  IInv'
<1>1. TypeOK'
  BY DEF IInv, TypeOK, Kept, Unused
<1>2. Polls' /\ Current' /\ Taken'
  BY DEF IInv, TypeOK, Update, Kept, Unused, Polls, Current, Taken
<1>3. NoStrandedSubscriber'
  BY DEF IInv, Kept, NoStrandedSubscriber, Held
<1>4. Joined' /\ Held'
  BY DEF IInv, Kept, Unused, Joined, Held
<1> QED BY <1>1, <1>2, <1>3, <1>4 DEF IInv

LEMMA GoroutineSteps ==
  ASSUME IInv, NEW r \in Runtimes,
         TimerFires(r) \/ Emit(r) \/ MonitorCancelled(r) \/ MonitorFails(r)
  PROVE  IInv'
<1>1. runtime \in [Runtimes -> Monitor]
  BY DEF IInv, TypeOK
<1>2. CASE TimerFires(r)
  BY ZenonT(40), <1>1, <1>2, KeptSteps DEF TimerFires, Kept, Monitor
<1>3. CASE Emit(r)
  BY ZenonT(40), <1>1, <1>3, KeptSteps DEF Emit, Kept, Monitor
<1>4. CASE MonitorCancelled(r)
  BY <1>1, <1>4, KeptSteps DEF MonitorCancelled, Kept, Monitor
<1>5. CASE MonitorFails(r)
  BY <1>1, <1>5, KeptSteps DEF MonitorFails, Kept, Monitor
<1> QED BY <1>2, <1>3, <1>4, <1>5

LEMMA TimerChecksStep ==
  ASSUME IInv, NEW r \in Runtimes, TimerChecks(r)
  PROVE  IInv'
<1> DEFINE rts == [runtime EXCEPT ![r].callback =
                     IF runtime[r].subs = {} THEN "stop" ELSE "none"]
           C   == Collected(rts, client, editor.victim)
<1>1. runtime' = C /\ UNCHANGED <<db, monitors, client, editor, edits>>
  BY DEF TimerChecks
<1>2. /\ rts \in [Runtimes -> Monitor]
      /\ \A s \in Runtimes :
           /\ rts[s].phase = runtime[s].phase /\ rts[s].cfg = runtime[s].cfg
           /\ rts[s].cancelled = runtime[s].cancelled
           /\ rts[s].subs = runtime[s].subs
  BY DEF IInv, TypeOK, Monitor
<1> HIDE DEF rts
<1>3. /\ C \in [Runtimes -> Monitor]
      /\ \A s \in Runtimes :
           \/ C[s] = rts[s]
           \/ /\ C[s] = Unused /\ rts[s].phase = "ended" /\ s # editor.victim
              /\ \A m \in Clients : client[m].rt # s
  BY <1>2, CollectedShape
<1> HIDE DEF C
<1>4. \A s \in Runtimes : Kept(s)
  BY <1>1, <1>2, <1>3 DEF Kept
<1> QED BY <1>1, <1>3, <1>4, KeptSteps

LEMMA TimerStopsStep ==
  ASSUME IInv, NEW r \in Runtimes, TimerStops(r)
  PROVE  IInv'
<1> DEFINE o   == [runtime[r] EXCEPT !.callback = "none",
                                     !.cancelled = @ \/ monitors = r]
           rts == [runtime EXCEPT ![r] = o]
           C   == Collected(rts, client, editor.victim)
<1>1. /\ runtime' = C /\ monitors' = IF monitors = r THEN 0 ELSE monitors
      /\ UNCHANGED <<db, client, editor, edits>>
  BY DEF TimerStops
<1>2. runtime \in [Runtimes -> Monitor]
  BY DEF IInv, TypeOK
<1>3. /\ o \in Monitor /\ o.phase = runtime[r].phase /\ o.cfg = runtime[r].cfg
      /\ o.cancelled <=> runtime[r].cancelled \/ monitors = r
      /\ o.subs = runtime[r].subs
  BY ZenonT(40), <1>2 DEF Monitor
<1> HIDE DEF o
<1>4. /\ rts \in [Runtimes -> Monitor]
      /\ \A s \in Runtimes :
           /\ rts[s].phase = runtime[s].phase /\ rts[s].cfg = runtime[s].cfg
           /\ rts[s].cancelled <=> runtime[s].cancelled \/ (s = r /\ monitors = r)
           /\ rts[s].subs = runtime[s].subs
  BY <1>2, <1>3
<1> HIDE DEF rts
<1>5. /\ C \in [Runtimes -> Monitor]
      /\ \A s \in Runtimes :
           \/ C[s] = rts[s]
           \/ /\ C[s] = Unused /\ rts[s].phase = "ended" /\ s # editor.victim
              /\ \A m \in Clients : client[m].rt # s
  BY <1>4, CollectedShape
<1> HIDE DEF C
<1>6. TypeOK'
  BY <1>1, <1>4, <1>5 DEF IInv, TypeOK, Unused
<1>7. Polls' /\ Current' /\ Taken'
  BY <1>1, <1>4, <1>5 DEF IInv, TypeOK, Update, Unused, Polls, Current, Taken
<1>8. NoStrandedSubscriber'
  BY <1>1, <1>4, <1>5 DEF IInv, NoStrandedSubscriber, Held
<1>9. Joined' /\ Held'
  BY <1>1, <1>4, <1>5 DEF IInv, Unused, Joined, Held
<1> QED BY <1>6, <1>7, <1>8, <1>9 DEF IInv

LEMMA RemoveMonitorStep ==
  ASSUME IInv, NEW r \in Runtimes, RemoveMonitor(r)
  PROVE  IInv'
<1>1. /\ runtime[r].phase = "returned"
      /\ monitors' = IF monitors = r THEN 0 ELSE monitors
      /\ UNCHANGED <<db, client, editor, edits>>
  BY DEF RemoveMonitor
<1>2. /\ runtime' \in [Runtimes -> Monitor]
      /\ \A s \in Runtimes :
           /\ runtime'[s].cfg = runtime[s].cfg /\ runtime'[s].subs = runtime[s].subs
           /\ runtime'[s].cancelled = runtime[s].cancelled
           /\ runtime'[s].phase = IF s = r THEN "removed" ELSE runtime[s].phase
  BY DEF RemoveMonitor, IInv, TypeOK, Monitor
<1>3. TypeOK'
  BY <1>1, <1>2 DEF IInv, TypeOK
<1>4. Polls' /\ Current' /\ Taken'
  BY <1>1, <1>2 DEF IInv, TypeOK, Update, Polls, Current, Taken
<1>5. NoStrandedSubscriber' /\ Joined' /\ Held'
  BY <1>1, <1>2 DEF IInv, NoStrandedSubscriber, Joined, Held
<1> QED BY <1>3, <1>4, <1>5 DEF IInv

LEMMA CloseSubscribersStep ==
  ASSUME IInv, NEW r \in Runtimes, CloseSubscribers(r)
  PROVE  IInv'
<1> DEFINE o   == [runtime[r] EXCEPT !.phase = "ended", !.subs = {}]
           rts == [runtime EXCEPT ![r] = o]
           C   == Collected(rts, client', editor.victim)
<1>1. /\ runtime[r].phase = "removed"
      /\ client' = [n \in Clients |->
           IF n \in runtime[r].subs THEN [client[n] EXCEPT !.pc = "closed"]
                                    ELSE client[n]]
      /\ UNCHANGED <<db, monitors, editor, edits>>
  BY DEF CloseSubscribers
<1>2. runtime' = C
  BY DEF CloseSubscribers
<1>3. runtime \in [Runtimes -> Monitor] /\ client \in [Clients -> Subscriber]
  BY DEF IInv, TypeOK
<1>4. /\ o \in Monitor /\ o.phase = "ended" /\ o.cfg = runtime[r].cfg
      /\ o.cancelled = runtime[r].cancelled /\ o.subs = {}
  BY <1>3 DEF Monitor
<1> HIDE DEF o
<1>5. /\ rts \in [Runtimes -> Monitor]
      /\ \A s \in Runtimes :
           /\ rts[s].phase = IF s = r THEN "ended" ELSE runtime[s].phase
           /\ rts[s].cancelled = runtime[s].cancelled /\ rts[s].cfg = runtime[s].cfg
           /\ rts[s].subs = IF s = r THEN {} ELSE runtime[s].subs
  BY <1>3, <1>4
<1> HIDE DEF rts
<1>6. /\ C \in [Runtimes -> Monitor]
      /\ \A s \in Runtimes :
           \/ C[s] = rts[s]
           \/ /\ C[s] = Unused /\ rts[s].phase = "ended" /\ s # editor.victim
              /\ \A m \in Clients : client'[m].rt # s
  BY <1>5, CollectedShape
<1> HIDE DEF C
<1>7. /\ client' \in [Clients -> Subscriber]
      /\ \A m \in Clients :
           /\ client'[m].rt = client[m].rt /\ client'[m].cfg = client[m].cfg
           /\ client'[m].pc = IF m \in runtime[r].subs THEN "closed" ELSE client[m].pc
  BY <1>1, <1>3 DEF Subscriber
<1>8. r # monitors
  BY <1>1 DEF IInv, TypeOK, Current, Runtimes
<1> DEFINE gone(s) == /\ runtime'[s] = Unused /\ rts[s].phase = "ended"
                      /\ s # editor.victim /\ \A m \in Clients : client'[m].rt # s
<1>9. \A s \in Runtimes : runtime'[s] = rts[s] \/ gone(s)
  BY <1>2, <1>6
<1>10. runtime' \in [Runtimes -> Monitor]
  BY <1>2, <1>6
<1>11. TypeOK'
  BY <1>1, <1>5, <1>7, <1>9, <1>10 DEF IInv, TypeOK, Unused
<1>12. Polls' /\ Taken'
  BY <1>1, <1>5, <1>9 DEF IInv, TypeOK, Update, Unused, Polls, Taken
<1>13. Current'
  BY <1>1, <1>5, <1>8, <1>9 DEF IInv, TypeOK, Current
<1>14. NoStrandedSubscriber'
  BY <1>1, <1>5, <1>7, <1>9 DEF IInv, NoStrandedSubscriber, Held
<1>15. Joined' /\ Held'
  BY <1>1, <1>5, <1>7, <1>9 DEF IInv, Unused, Joined, Held
<1> QED BY <1>11, <1>12, <1>13, <1>14, <1>15 DEF IInv

(* Updates.                                                                *)
LEMMA UpdateSteps ==
  ASSUME IInv,
         \/ \E kind \in {"datasource", "device", "gateway"},
               c \in Configs \cup {Off} : BeginUpdate(kind, c)
         \/ TakeMonitor \/ \E ok \in BOOLEAN : WriteUpdate(ok)
  PROVE  IInv'
<1>1. ASSUME NEW kind \in {"datasource", "device", "gateway"},
             NEW c \in Configs \cup {Off}, BeginUpdate(kind, c)
      PROVE  IInv'
  <2>1. /\ UNCHANGED <<db, monitors, runtime, client>>
        /\ edits \in 0..MaxEdits /\ edits > 0 /\ edits' = edits - 1
        /\ editor.victim = 0 /\ editor' \in Update /\ editor'.victim = 0
    BY <1>1 DEF IInv, TypeOK, BeginUpdate, NoEdit, Update
  <2>2. edits' \in 0..MaxEdits
    BY <2>1, MonitorAssumption DEF MonitorAssumption
  <2> QED BY <2>1, <2>2 DEF IInv, TypeOK, Polls, NoStrandedSubscriber, Joined,
             Held, Current, Taken
<1>2. ASSUME TakeMonitor PROVE IInv'
  <2>1. /\ UNCHANGED <<db, runtime, client, edits>> /\ monitors' = 0
        /\ editor.victim = 0
        /\ editor' \in Update /\ editor'.victim = monitors /\ editor'.pc = "cancel"
    BY <1>2 DEF IInv, TypeOK, TakeMonitor, Taken, Update
  <2> QED BY <2>1 DEF IInv, TypeOK, Polls, NoStrandedSubscriber, Joined, Held,
             Current, Taken, Runtimes
<1>3. ASSUME NEW ok \in BOOLEAN, WriteUpdate(ok) PROVE IInv'
  <2>1. /\ UNCHANGED <<monitors, runtime, client, edits>>
        /\ db' \in Configs \cup {Off}
        /\ editor.victim = 0 /\ editor' \in Update /\ editor'.victim = 0
    BY <1>3 DEF IInv, TypeOK, WriteUpdate, NoEdit, Taken, Update
  <2> QED BY <2>1 DEF IInv, TypeOK, Polls, NoStrandedSubscriber, Joined, Held,
             Current, Taken
<1> QED BY <1>1, <1>2, <1>3

LEMMA CancelMonitorStep ==
  ASSUME IInv, CancelMonitor
  PROVE  IInv'
<1> DEFINE v   == editor.victim
           rts == [s \in Runtimes |-> IF s = v
                                        THEN [runtime[s] EXCEPT !.cancelled = TRUE]
                                        ELSE runtime[s]]
           C   == Collected(rts, client, 0)
<1>1. /\ runtime' = C /\ UNCHANGED <<db, monitors, client, edits>>
      /\ editor' \in Update /\ editor'.victim = 0
  BY DEF CancelMonitor, NoEdit, IInv, TypeOK, Update
<1>2. /\ rts \in [Runtimes -> Monitor]
      /\ \A s \in Runtimes :
           /\ rts[s].phase = runtime[s].phase /\ rts[s].cfg = runtime[s].cfg
           /\ rts[s].cancelled <=> runtime[s].cancelled \/ s = v
           /\ rts[s].subs = runtime[s].subs
  <2>1. \A s \in Runtimes :
          LET o == [runtime[s] EXCEPT !.cancelled = TRUE]
          IN  /\ runtime[s] \in Monitor /\ o \in Monitor
              /\ runtime[s].cancelled \in BOOLEAN /\ o.cancelled = TRUE
              /\ o.phase = runtime[s].phase
              /\ o.cfg = runtime[s].cfg /\ o.subs = runtime[s].subs
    BY ZenonT(40) DEF IInv, TypeOK, Monitor
  <2> HIDE DEF v
  <2> QED BY <2>1
<1> HIDE DEF rts
<1>3. /\ C \in [Runtimes -> Monitor]
      /\ \A s \in Runtimes :
           \/ C[s] = rts[s]
           \/ /\ C[s] = Unused /\ rts[s].phase = "ended"
              /\ \A m \in Clients : client[m].rt # s
  BY <1>2, CollectedShape
<1> HIDE DEF C
<1>4. TypeOK'
  BY <1>1, <1>2, <1>3 DEF IInv, TypeOK, Unused
<1>5. Polls' /\ Current' /\ Taken'
  BY <1>1, <1>2, <1>3 DEF IInv, TypeOK, Unused, Polls, Current, Taken
<1>6. NoStrandedSubscriber'
  BY <1>1, <1>2, <1>3 DEF IInv, NoStrandedSubscriber, Held
<1>7. Joined' /\ Held'
  BY <1>1, <1>2, <1>3 DEF IInv, Unused, Joined, Held
<1> QED BY <1>4, <1>5, <1>6, <1>7 DEF IInv

LEMMA StepIInv == IInv /\ [Next]_vars => IInv'
<1> SUFFICES ASSUME IInv, [Next]_vars PROVE IInv'
  OBVIOUS
<1>1. ASSUME NEW n \in Clients, Subscribe(n) PROVE IInv'
  BY <1>1, StartMonitorStep, JoinMonitorStep
<1>2. ASSUME UNCHANGED vars PROVE IInv'
  BY <1>2 DEF vars, IInv, TypeOK, Polls, NoStrandedSubscriber, Joined, Held,
     Current, Taken
<1> QED
  BY <1>1, <1>2, FindDatasourceStep, UnsubscribeStep, GoroutineSteps,
     TimerChecksStep, TimerStopsStep, RemoveMonitorStep, CloseSubscribersStep,
     UpdateSteps, CancelMonitorStep DEF Next

LEMMA Inductive == Spec => []IInv
BY InitIInv, StepIInv, PTL DEF Spec

----------------------------------------------------------------------------
(* However subscriptions, leaving, the grace timer, failing drivers and    *)
(* updates interleave, one goroutine at most polls the datasource and      *)
(* means to go on (device/monitor.go), and the state is well typed.        *)
THEOREM OnlyOnePoller == Spec => []OnePoller
<1>1. IInv => OnePoller
  BY DEF IInv, Polls, OnePoller
<1> QED BY <1>1, Inductive, PTL

(* A subscriber whose channel is open is known to a monitor that polls, or *)
(* that will close the channel: no subscriber is left behind by an update, *)
(* a timer or a driver that fails.                                         *)
THEOREM NobodyIsStranded == Spec => []NoStrandedSubscriber
<1>1. IInv => NoStrandedSubscriber
  BY DEF IInv
<1> QED BY <1>1, Inductive, PTL

(* A monitor that is in the map, where Subscribe finds it, has not been    *)
(* cancelled: who joins one gets a monitor that means to go on or that     *)
(* failed by itself.                                                       *)
THEOREM MapHoldsLiveMonitors == Spec => []Current
<1>1. IInv => Current
  BY DEF IInv
<1> QED BY <1>1, Inductive, PTL

=============================================================================
