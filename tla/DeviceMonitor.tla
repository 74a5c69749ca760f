---------------------------- MODULE DeviceMonitor ----------------------------
(***************************************************************************)
(* The monitors of device/monitor.go, for one datasource: a goroutine polls*)
(* it while somebody subscribes, and goes on for a grace period after the  *)
(* last subscriber has left.  Updates of the datasource or of its device   *)
(* (device/service.go) stop the monitor so that the next subscriber starts *)
(* one with the new configuration; updates of its gateway                  *)
(* (vgateway/crud.go) do not.                                              *)
(*                                                                         *)
(* Each step is a section under monitorMu or runtime.mu, a step of the     *)
(* driver, or a call of the repository.  What the channels hold, the       *)
(* samples map and the gate that serialises requests on a gateway are left *)
(* out.                                                                    *)
(***************************************************************************)
EXTENDS Integers, FiniteSets

CONSTANTS
  Clients,     \* subscribers: the acquisition runtime, open streams
  Configs,     \* what the datasource may be configured to
  Off,         \* the datasource or its device or gateway is disabled
  MaxRuntimes, \* bound: monitorRuntime objects in use at one time
  MaxEdits     \* bound: updates

ASSUME MonitorAssumption ==
  /\ Off \notin Configs
  /\ MaxRuntimes \in Nat /\ MaxEdits \in Nat

VARIABLES
  db,       \* the stored configuration
  monitors, \* the entry of Service.monitors, 0 for none
  runtime,  \* the monitorRuntime objects, their goroutine and timer
  client,   \* the subscribers
  editor,   \* the update in progress
  edits     \* updates left

vars == <<db, monitors, runtime, client, editor, edits>>

Runtimes == 1..MaxRuntimes
Fresh(c, n) == [cfg |-> c, phase |-> "running", cancelled |-> FALSE,
                subs |-> {n}, read |-> FALSE, timer |-> "nil",
                callback |-> "none"]
Unused == [cfg |-> Off, phase |-> "unused", cancelled |-> FALSE, subs |-> {},
           read |-> FALSE, timer |-> "nil", callback |-> "none"]
Idle == [pc |-> "idle", cfg |-> Off, rt |-> 0]
NoEdit == [pc |-> "idle", kind |-> "datasource", to |-> Off, victim |-> 0]

Init ==
  /\ db \in Configs \cup {Off}
  /\ monitors = 0
  /\ runtime = [r \in Runtimes |-> Unused]
  /\ client = [n \in Clients |-> Idle]
  /\ editor = NoEdit
  /\ edits = MaxEdits

(* An object that has ended and that no subscriber, timer or update refers *)
(* to is gone.                                                             *)
Collected(rts, cls, victim) ==
  [r \in Runtimes |->
     IF /\ rts[r].phase = "ended" /\ rts[r].timer # "armed"
        /\ rts[r].callback = "none"
        /\ \A n \in Clients : cls[n].rt # r
        /\ r # victim
       THEN Unused ELSE rts[r]]

----------------------------------------------------------------------------
(* Subscribers.                                                            *)

(* Subscribe, before the locks: FindDatasource, refused when disabled.     *)
FindDatasource(n) ==
  /\ client[n] = Idle
  /\ db # Off
  /\ client' = [client EXCEPT ![n] = [pc |-> "found", cfg |-> db, rt |-> 0]]
  /\ UNCHANGED <<db, monitors, runtime, editor, edits>>

(* Subscribe, under both locks: join the monitor or start one with the     *)
(* entity that was read; disarm the timer.                                 *)
Subscribe(n) ==
  /\ client[n].pc = "found"
  /\ IF monitors = 0
       THEN /\ \E r \in Runtimes : runtime[r] = Unused
            /\ monitors' = CHOOSE r \in Runtimes : runtime[r] = Unused
            /\ runtime' = [runtime EXCEPT ![monitors'] = Fresh(client[n].cfg, n)]
       ELSE /\ runtime' = [runtime EXCEPT ![monitors] =
                 [runtime[monitors] EXCEPT !.subs = @ \cup {n}, !.timer = "nil"]]
            /\ UNCHANGED monitors
  /\ client' = [client EXCEPT ![n] =
       [pc |-> "open", cfg |-> Off, rt |-> monitors']]
  /\ UNCHANGED <<db, editor, edits>>

(* unsubscribe: close the channel unless the monitor did; the last one     *)
(* arms the timer, on a monitor that has ended too.                        *)
Unsubscribe(n) ==
  /\ client[n].pc \in {"open", "closed"}
  /\ LET r == client[n].rt
         left == runtime[r].subs \ {n}
     IN /\ client' = [client EXCEPT ![n] = Idle]
        /\ runtime' = Collected(
             [runtime EXCEPT ![r] = [runtime[r] EXCEPT !.subs = left,
                !.timer = IF left = {} /\ @ = "nil" THEN "armed" ELSE @]],
             client', editor.victim)
  /\ UNCHANGED <<db, monitors, editor, edits>>

----------------------------------------------------------------------------
(* The grace timer.                                                        *)

(* The grace period ends and the callback is about to lock runtime.mu.     *)
TimerFires(r) ==
  /\ runtime[r].timer = "armed" /\ runtime[r].callback = "none"
  /\ runtime' = [runtime EXCEPT ![r] =
       [runtime[r] EXCEPT !.timer = "fired", !.callback = "check"]]
  /\ UNCHANGED <<db, monitors, client, editor, edits>>

TimerChecks(r) ==
  /\ runtime[r].callback = "check"
  /\ runtime' = Collected(
       [runtime EXCEPT ![r].callback =
          IF runtime[r].subs = {} THEN "stop" ELSE "none"],
       client, editor.victim)
  /\ UNCHANGED <<db, monitors, client, editor, edits>>

(* stopMonitorIfCurrent.                                                   *)
TimerStops(r) ==
  /\ runtime[r].callback = "stop"
  /\ monitors' = IF monitors = r THEN 0 ELSE monitors
  /\ runtime' = Collected(
       [runtime EXCEPT ![r] = [runtime[r] EXCEPT !.callback = "none",
          !.cancelled = @ \/ monitors = r]], client, editor.victim)
  /\ UNCHANGED <<db, client, editor, edits>>

----------------------------------------------------------------------------
(* The monitor's goroutine.                                                *)

(* The first read of driver.Monitor has ended, well or badly: there is a    *)
(* latest sample.                                                          *)
Emit(r) ==
  /\ runtime[r].phase = "running" /\ ~runtime[r].read
  /\ runtime' = [runtime EXCEPT ![r].read = TRUE]
  /\ UNCHANGED <<db, monitors, client, editor, edits>>

(* driver.Monitor returns because it was cancelled.                        *)
MonitorCancelled(r) ==
  /\ runtime[r].phase = "running" /\ runtime[r].cancelled
  /\ runtime' = [runtime EXCEPT ![r].phase = "returned"]
  /\ UNCHANGED <<db, monitors, client, editor, edits>>

(* Before its first read driver.Monitor returns an error: the stored       *)
(* configuration cannot be used.                                           *)
MonitorFails(r) ==
  /\ runtime[r].phase = "running" /\ ~runtime[r].read
  /\ runtime' = [runtime EXCEPT ![r].phase = "returned"]
  /\ UNCHANGED <<db, monitors, client, editor, edits>>

(* Faulty variant: it removes whatever monitor is there.                   *)
RemoveAnyMonitor(r) ==
  /\ runtime[r].phase = "returned"
  /\ monitors' = 0
  /\ runtime' = [runtime EXCEPT ![r].phase = "removed"]
  /\ UNCHANGED <<db, client, editor, edits>>
(* Under monitorMu: remove itself from the map if it is still there.       *)
RemoveMonitor(r) ==
  /\ runtime[r].phase = "returned"
  /\ monitors' = IF monitors = r THEN 0 ELSE monitors
  /\ runtime' = [runtime EXCEPT ![r].phase = "removed"]
  /\ UNCHANGED <<db, client, editor, edits>>

(* Faulty variant: the goroutine ends without closing the channels.        *)
ForgetSubscribers(r) ==
  /\ runtime[r].phase = "removed"
  /\ runtime' = Collected([runtime EXCEPT ![r].phase = "ended"], client,
                        editor.victim)
  /\ UNCHANGED <<db, monitors, client, editor, edits>>
(* Under runtime.mu: close the channels of all subscribers.                *)
CloseSubscribers(r) ==
  /\ runtime[r].phase = "removed"
  /\ client' = [n \in Clients |->
       IF n \in runtime[r].subs THEN [client[n] EXCEPT !.pc = "closed"]
                                ELSE client[n]]
  /\ runtime' = Collected(
       [runtime EXCEPT ![r] = [runtime[r] EXCEPT !.phase = "ended", !.subs = {}]],
       client', editor.victim)
  /\ UNCHANGED <<db, monitors, editor, edits>>

----------------------------------------------------------------------------
(* Updates.  One at a time.                                                *)

(* UpdateDatasource (and DeleteDatasource) begin with stopMonitor,         *)
(* UpdateDevice with the repository; vgateway Update stops no monitor.     *)
BeginUpdate(kind, c) ==
  /\ editor = NoEdit /\ edits > 0 /\ c # db
  /\ edits' = edits - 1
  /\ editor' = [pc |-> IF kind = "datasource" THEN "take" ELSE "write",
                kind |-> kind, to |-> c, victim |-> 0]
  /\ UNCHANGED <<db, monitors, runtime, client>>

(* stopMonitor, under monitorMu: take the monitor out of the map.          *)
TakeMonitor ==
  /\ editor.pc = "take"
  /\ editor' = [editor EXCEPT !.pc = "cancel", !.victim = monitors]
  /\ monitors' = 0
  /\ UNCHANGED <<db, runtime, client, edits>>

(* Faulty variant: the monitor is forgotten, never cancelled.              *)
ForgetMonitor ==
  /\ editor.pc = "cancel"
  /\ editor' = IF editor.kind = "device" THEN NoEdit
               ELSE [editor EXCEPT !.pc = "write", !.victim = 0]
  /\ UNCHANGED <<db, monitors, runtime, client, edits>>
(* stopMonitor, after the lock: cancel it, if there was one.               *)
CancelMonitor ==
  /\ editor.pc = "cancel"
  /\ runtime' = Collected(
       [r \in Runtimes |-> IF r = editor.victim
                            THEN [runtime[r] EXCEPT !.cancelled = TRUE]
                            ELSE runtime[r]], client, 0)
  /\ editor' = IF editor.kind = "device" THEN NoEdit
               ELSE [editor EXCEPT !.pc = "write", !.victim = 0]
  /\ UNCHANGED <<db, monitors, client, edits>>

(* The repository stores the update, or refuses it.                        *)
WriteUpdate(ok) ==
  /\ editor.pc = "write"
  /\ db' = IF ok THEN editor.to ELSE db
  /\ editor' = IF ok /\ editor.kind = "device"
                 THEN [editor EXCEPT !.pc = "take"] ELSE NoEdit
  /\ UNCHANGED <<monitors, runtime, client, edits>>

Next ==
  \/ \E n \in Clients : FindDatasource(n)
  \/ \E n \in Clients : Subscribe(n)
  \/ \E n \in Clients : Unsubscribe(n)
  \/ \E r \in Runtimes : TimerFires(r)
  \/ \E r \in Runtimes : TimerChecks(r)
  \/ \E r \in Runtimes : TimerStops(r)
  \/ \E r \in Runtimes : Emit(r)
  \/ \E r \in Runtimes : MonitorCancelled(r)
  \/ \E r \in Runtimes : MonitorFails(r)
  \/ \E r \in Runtimes : RemoveMonitor(r)
  \/ \E r \in Runtimes : CloseSubscribers(r)
  \/ \E kind \in {"datasource", "device", "gateway"}, c \in Configs \cup {Off} :
       BeginUpdate(kind, c)
  \/ TakeMonitor \/ CancelMonitor
  \/ \E ok \in BOOLEAN : WriteUpdate(ok)

(* Goroutines and timers run on; a cancelled driver returns.  Nothing      *)
(* makes a subscriber subscribe or leave, nor the driver fail.             *)
Fairness ==
  /\ \A r \in Runtimes :
       /\ WF_vars(TimerFires(r) \/ TimerChecks(r) \/ TimerStops(r))
       /\ WF_vars(MonitorCancelled(r) \/ RemoveMonitor(r) \/ CloseSubscribers(r))
  /\ WF_vars(TakeMonitor \/ CancelMonitor)

Spec == Init /\ [][Next]_vars
LiveSpec == Spec /\ Fairness

----------------------------------------------------------------------------
(* Properties.                                                             *)

Monitor ==
  [cfg : Configs \cup {Off},
   phase : {"unused", "running", "returned", "removed", "ended"},
   cancelled : BOOLEAN, subs : SUBSET Clients, read : BOOLEAN,
   timer : {"nil", "armed", "fired"}, callback : {"none", "check", "stop"}]
Subscriber ==
  [pc : {"idle", "found", "open", "closed"}, cfg : Configs \cup {Off},
   rt : Runtimes \cup {0}]
Update ==
  [pc : {"idle", "take", "cancel", "write"},
   kind : {"datasource", "device", "gateway"}, to : Configs \cup {Off},
   victim : Runtimes \cup {0}]

(* Every variable has its type.                                            *)
TypeOK ==
  /\ db \in Configs \cup {Off}
  /\ monitors \in Runtimes \cup {0}
  /\ runtime \in [Runtimes -> Monitor]
  /\ \A r \in Runtimes : runtime[r].phase # "unused" => runtime[r].cfg # Off
  /\ client \in [Clients -> Subscriber]
  /\ editor \in Update
  /\ edits \in 0..MaxEdits

(* One goroutine at most polls the datasource and means to go on: every    *)
(* other one is cancelled, or is just being cancelled by an update; and    *)
(* the variables keep their types.                                         *)
OnePoller ==
  /\ TypeOK
  /\ \A r \in Runtimes :
       runtime[r].phase = "running" /\ ~runtime[r].cancelled =>
         r = monitors \/ r = editor.victim

(* No subscriber waits on a channel nobody will ever send on or close: its *)
(* monitor is in the map, or on its way to close it.                       *)
NoStrandedSubscriber ==
  \A n \in Clients :
    client[n].pc = "open" =>
      LET r == client[n].rt IN
      /\ n \in runtime[r].subs /\ runtime[r].phase # "ended"
      /\ \/ r = monitors \/ r = editor.victim \/ runtime[r].cancelled
         \/ runtime[r].phase \in {"returned", "removed"}

(* Once no subscriber comes, polling ends.                                 *)
PollingEnds ==
  <>[](\A n \in Clients : client[n].pc = "idle")
    => <>[](monitors = 0 /\ \A r \in Runtimes : runtime[r].phase # "running")

(* A disabled datasource, whose status is reported as "paused", is not     *)
(* polled once the update is over.                                         *)
PausedIsNotPolled ==
  (db = Off /\ editor = NoEdit /\ monitors # 0) =>
    \/ runtime[monitors].phase # "running" \/ runtime[monitors].cancelled
    \/ runtime[monitors].subs = {}

=============================================================================
