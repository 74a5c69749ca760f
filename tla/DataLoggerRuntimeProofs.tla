----------------------- MODULE DataLoggerRuntimeProofs -----------------------
(***************************************************************************)
(* Proofs about the data logger runtime, for any loggers, configurations   *)
(* and number of job slots.                                                *)
(*                                                                         *)
(* OneJobPerLogger is not inductive: nothing in it stops a Reconcile from  *)
(* starting a job while another of that logger still runs.  IInv adds that *)
(* a running job is in the map or waited for, that a logger about to be    *)
(* started is not in the map, and that nothing starts after Stop.          *)
(***************************************************************************)
EXTENDS DataLoggerRuntime, TLAPS

(* A running job is the one in the map, or the Reconcile waits for it.     *)
Known ==
  \A l \in Loggers, s \in Slots :
    Live(l, s) => jobs[l] = s \/ (op.pc = "start" /\ <<l, s>> \in op.wait)

(* A Reconcile waits only for jobs that are out of the map, one of each    *)
(* logger.                                                                 *)
Waiting ==
  op.pc = "start" =>
    /\ \A w \in op.wait : jobs[w[1]] = NoSlot
    /\ \A v, w \in op.wait : v[1] = w[1] => v = w

(* The loggers to start are enabled and have no job in the map.            *)
Missing ==
  op.pc = "start" =>
    \A l \in op.todo : jobs[l] = NoSlot /\ op.cfgs[l] # Disabled

(* A job in the map occupies its slot.                                     *)
Mapped ==
  \A l \in Loggers : jobs[l] # NoSlot => job[l][jobs[l]].phase # "free"

(* When Stop has returned, nothing runs and nothing will start.            *)
Quiet ==
  /\ stop # "idle" => stopped
  /\ stop # "idle" => started \in {"failed", "yes"}
  /\ stop = "done" => ~reconciler
  /\ stop = "done" => \A l \in Loggers, s \in Slots : ~Live(l, s)

IInv == TypeOK /\ Known /\ Waiting /\ Missing /\ Mapped /\ Quiet

(* Facts about the shape of the state that several steps use.              *)
LEMMA JobShape ==
  ASSUME TypeOK, NEW l \in Loggers, NEW s \in Slots
  PROVE  /\ job[l][s] \in JobObject \cup {Free}
         /\ job[l][s].phase # "free" => job[l][s] \in JobObject
         /\ ~Live(l, s) /\ job[l][s].phase # "free" => job[l][s].phase = "done"
BY DEF TypeOK, JobObject, Free, Live

(* The objects Cancelling leaves: type, phase and fingerprint are kept.    *)
LEMMA CancellingShape ==
  ASSUME TypeOK, Mapped, RuntimeAssumption, NEW L \in SUBSET Loggers
  PROVE  /\ Cancelling(L) \in [Loggers -> [Slots -> JobObject \cup {Free}]]
         /\ \A l \in Loggers, s \in Slots :
              Cancelling(L)[l][s].phase = job[l][s].phase
<1>1. ASSUME NEW l \in Loggers, NEW s \in Slots
      PROVE  /\ Cancelling(L)[l][s] \in JobObject \cup {Free}
             /\ Cancelling(L)[l][s].phase = job[l][s].phase
  <2>1. CASE l \in L /\ s = jobs[l]
    <3>1. jobs[l] # NoSlot
      BY <2>1 DEF RuntimeAssumption
    <3>2. job[l][s] \in JobObject
      BY <2>1, <3>1, JobShape DEF Mapped
    <3>3. Cancelling(L)[l][s] = [job[l][s] EXCEPT !.cancelled = TRUE]
      BY <2>1 DEF Cancelling
    <3> QED BY <3>2, <3>3 DEF JobObject
  <2>2. CASE ~(l \in L /\ s = jobs[l])
    <3>1. Cancelling(L)[l][s] = job[l][s]
      BY <2>2 DEF Cancelling
    <3> QED BY <3>1, JobShape
  <2> QED BY <2>1, <2>2
<1> QED BY <1>1 DEF Cancelling

(* At most one job of a logger runs, by the invariant.                     *)
LEMMA OneJob ==
  ASSUME IInv, RuntimeAssumption PROVE OneJobPerLogger
<1> SUFFICES ASSUME NEW l \in Loggers, NEW s \in Slots, NEW t \in Slots,
                    Live(l, s), Live(l, t)
             PROVE  s = t
  BY DEF OneJobPerLogger
<1>1. jobs[l] = s \/ (op.pc = "start" /\ <<l, s>> \in op.wait)
  BY DEF IInv, Known
<1>2. jobs[l] = t \/ (op.pc = "start" /\ <<l, t>> \in op.wait)
  BY DEF IInv, Known
<1>3. op.pc = "start" /\ <<l, s>> \in op.wait => jobs[l] = NoSlot
  BY DEF IInv, Waiting
<1>4. op.pc = "start" /\ <<l, t>> \in op.wait => jobs[l] = NoSlot
  BY DEF IInv, Waiting
<1>5. op.pc = "start" /\ <<l, s>> \in op.wait /\ <<l, t>> \in op.wait => s = t
  BY DEF IInv, Waiting
<1> QED BY <1>1, <1>2, <1>3, <1>4, <1>5 DEF RuntimeAssumption

(* The invariant holds initially.                                          *)
LEMMA InitInv == ASSUME Init, RuntimeAssumption PROVE IInv
<1>1. TypeOK
  <2>1. op \in [pc : {"idle", "list", "swap", "start"},
                cfgs : [Loggers -> Stored],
                wait : SUBSET (Loggers \X Slots), todo : SUBSET Loggers]
    BY DEF Init, NoOp, Stored
  <2>2. job \in [Loggers -> [Slots -> JobObject \cup {Free}]]
    BY DEF Init
  <2>3. parentDone \in BOOLEAN /\ stopped \in BOOLEAN /\ reconciler \in BOOLEAN
    BY Zenon DEF Init
  <2>4. jobs \in [Loggers -> Slots \cup {NoSlot}] /\ edits \in 0..MaxEdits
    BY DEF Init, RuntimeAssumption
  <2>5. db \in [Loggers -> Stored] /\ stop \in {"idle", "wait", "done"}
          /\ started \in {"new", "reconciling", "yes", "failed"}
    BY DEF Init
  <2> QED BY <2>1, <2>2, <2>3, <2>4, <2>5 DEF TypeOK
<1>2. Known /\ Waiting /\ Missing /\ Mapped /\ Quiet
  BY DEF Init, Known, Waiting, Missing, Mapped, Quiet, Live, NoOp, Free
<1> QED BY <1>1, <1>2 DEF IInv

(* The reconcile's steps keep the invariant: the jobs a Swap takes out are *)
(* those it waits for, and the loggers it starts have none in the map.     *)
LEMMA SwapInv == ASSUME IInv, Swap, RuntimeAssumption PROVE IInv'
<1> USE DEF IInv, Swap
<1>0. Outdated \subseteq Loggers /\ Mapped /\ TypeOK
  BY DEF Outdated
<1>1. job' = Cancelling(Outdated)
  OBVIOUS
<1>2. /\ job' \in [Loggers -> [Slots -> JobObject \cup {Free}]]
      /\ \A l \in Loggers, s \in Slots : job'[l][s].phase = job[l][s].phase
  BY <1>0, <1>1, CancellingShape
<1>3. /\ op' = [op EXCEPT !.pc = "start",
                !.wait = {<<l, jobs[l]>> : l \in Outdated},
                !.todo = {l \in Loggers : /\ op.cfgs[l] # Disabled
                                          /\ jobs[l] = NoSlot \/ l \in Outdated}]
      /\ op \in [pc : {"idle", "list", "swap", "start"},
                 cfgs : [Loggers -> Stored],
                 wait : SUBSET (Loggers \X Slots), todo : SUBSET Loggers]
  BY DEF TypeOK
<1>4. \A l \in Outdated : l \in Loggers /\ jobs[l] \in Slots
  BY DEF Outdated, TypeOK
<1>5. /\ op'.pc = "start" /\ op'.cfgs = op.cfgs
      /\ op'.wait = {<<l, jobs[l]>> : l \in Outdated}
      /\ op'.todo = {l \in Loggers : /\ op.cfgs[l] # Disabled
                                     /\ jobs[l] = NoSlot \/ l \in Outdated}
  BY <1>3
<1>6. jobs' \in [Loggers -> Slots \cup {NoSlot}]
  BY DEF TypeOK
<1>7. TypeOK'
  <2>1. op' \in [pc : {"idle", "list", "swap", "start"},
                 cfgs : [Loggers -> Stored],
                 wait : SUBSET (Loggers \X Slots), todo : SUBSET Loggers]
    <3>1. {<<l, jobs[l]>> : l \in Outdated} \in SUBSET (Loggers \X Slots)
      BY <1>4
    <3>2. {l \in Loggers : /\ op.cfgs[l] # Disabled
                           /\ jobs[l] = NoSlot \/ l \in Outdated}
            \in SUBSET Loggers
      OBVIOUS
    <3> HIDE DEF IInv, Swap
    <3> QED BY ONLY <1>3, <3>1, <3>2
  <2> QED BY <2>1, <1>2, <1>6 DEF TypeOK
<1>8. Known'
  <2> SUFFICES ASSUME NEW l \in Loggers, NEW s \in Slots, Live(l, s)'
               PROVE  (jobs[l] = s \/ (op.pc = "start" /\ <<l, s>> \in op.wait))'
    BY DEF Known
  <2>1. Live(l, s)
    BY <1>2 DEF Live
  <2>2. jobs[l] = s
    BY <2>1 DEF Known
  <2>3. CASE l \in Outdated
    BY <2>2, <2>3, <1>5
  <2>4. CASE l \notin Outdated
    BY <2>2, <2>4
  <2> QED BY <2>3, <2>4
<1>9. Waiting'
  BY <1>4, <1>5 DEF Waiting
<1>10. Missing'
  BY <1>5 DEF Missing
<1>11. Mapped'
  <2> SUFFICES ASSUME NEW l \in Loggers, jobs'[l] # NoSlot
               PROVE  job'[l][jobs'[l]].phase # "free"
    BY DEF Mapped
  <2>1. jobs'[l] = jobs[l] /\ jobs[l] \in Slots
    BY DEF TypeOK
  <2> QED BY <2>1, <1>2 DEF Mapped
<1>12. Quiet'
  BY <1>2 DEF Quiet, Live
<1> QED BY <1>7, <1>8, <1>9, <1>10, <1>11, <1>12

(* A job that was waited for has ended, and gives its slot back.           *)
LEMMA WaitedInv ==
  ASSUME IInv, RuntimeAssumption, NEW l \in Loggers, NEW s \in Slots,
         Waited(l, s)
  PROVE  IInv'
<1> USE DEF IInv, Waited
<1>1. /\ job' \in [Loggers -> [Slots -> JobObject \cup {Free}]]
      /\ \A m \in Loggers, t \in Slots :
           job'[m][t] = IF m = l /\ t = s THEN Free ELSE job[m][t]
  BY DEF TypeOK
<1>2. /\ op' \in [pc : {"idle", "list", "swap", "start"},
                  cfgs : [Loggers -> Stored],
                  wait : SUBSET (Loggers \X Slots), todo : SUBSET Loggers]
      /\ op'.pc = "start" /\ op'.wait = op.wait \ {<<l, s>>}
      /\ op'.todo = op.todo /\ op'.cfgs = op.cfgs
  BY DEF TypeOK
<1>3. jobs[l] = NoSlot
  BY DEF Waiting
<1>4. TypeOK'
  BY <1>1, <1>2 DEF TypeOK
<1>5. \A m \in Loggers, t \in Slots : Live(m, t)' => Live(m, t) /\ <<m, t>> # <<l, s>>
  BY <1>1 DEF Live, Free
<1>6. Known'
  BY <1>2, <1>5 DEF Known
<1>7. Waiting' /\ Missing'
  BY <1>2 DEF Waiting, Missing
<1>8. Mapped'
  <2> SUFFICES ASSUME NEW m \in Loggers, jobs[m] # NoSlot
               PROVE  job'[m][jobs[m]].phase # "free"
    BY DEF Mapped
  <2>1. m # l /\ jobs[m] \in Slots
    BY <1>3 DEF TypeOK
  <2> QED BY <2>1, <1>1 DEF Mapped
<1>9. Quiet'
  BY <1>5 DEF Quiet
<1> QED BY <1>4, <1>6, <1>7, <1>8, <1>9

(* Jobs start when nothing is waited for any more: a running job of the    *)
(* same logger would be in the map, and then the logger is not started.    *)
LEMMA StartJobsInv == ASSUME IInv, StartJobs, RuntimeAssumption PROVE IInv'
<1> USE DEF IInv
<1>1. PICK pick \in [op.todo -> Slots] : StartIn(pick)
  BY DEF StartJobs
<1>2. op.pc = "start" /\ op.wait = {} /\ ~stopped /\ op' = NoOp
  BY DEF StartJobs, Return
<1>3. \A l \in op.todo : l \in Loggers /\ op.cfgs[l] \in Configs
  BY <1>2 DEF TypeOK, Missing, Stored
<1>4. \A l \in Loggers, s \in Slots :
        job'[l][s] = IF l \in op.todo /\ s = pick[l]
                       THEN [phase |-> "running", fp |-> op.cfgs[l],
                             cancelled |-> FALSE]
                       ELSE job[l][s]
  BY <1>1 DEF StartIn
<1>5. job' \in [Loggers -> [Slots -> JobObject \cup {Free}]]
  <2>1. ASSUME NEW l \in Loggers, NEW s \in Slots
        PROVE  job'[l][s] \in JobObject \cup {Free}
    <3>1. CASE l \in op.todo /\ s = pick[l]
      <4>1. job'[l][s] = [phase |-> "running", fp |-> op.cfgs[l],
                          cancelled |-> FALSE]
        BY <3>1, <1>4
      <4>2. op.cfgs[l] \in Configs
        BY <3>1, <1>3
      <4> HIDE DEF IInv
      <4> QED BY ONLY <4>1, <4>2 DEF JobObject
    <3>2. CASE ~(l \in op.todo /\ s = pick[l])
      <4>1. job'[l][s] = job[l][s]
        BY <3>2, <1>4
      <4> QED BY <4>1, JobShape
    <3> QED BY <3>1, <3>2
  <2> QED BY <1>1, <2>1 DEF StartIn
<1>6. /\ jobs' = [l \in Loggers |-> IF l \in op.todo THEN pick[l] ELSE jobs[l]]
      /\ jobs' \in [Loggers -> Slots \cup {NoSlot}]
  BY <1>1 DEF StartIn, TypeOK
<1>7. TypeOK'
  <2>1. started' \in {"new", "reconciling", "yes", "failed"}
    BY DEF StartJobs, Return, TypeOK
  <2>2. reconciler' \in BOOLEAN
    BY <1>2, Zenon DEF StartJobs, Return, TypeOK
  <2>3. op' \in [pc : {"idle", "list", "swap", "start"},
                 cfgs : [Loggers -> Stored],
                 wait : SUBSET (Loggers \X Slots), todo : SUBSET Loggers]
    BY <1>2 DEF NoOp, Stored
  <2>4. UNCHANGED <<db, parentDone, stopped, stop, edits>>
    BY DEF StartJobs
  <2> QED BY <1>5, <1>6, <2>1, <2>2, <2>3, <2>4 DEF TypeOK
<1>8. Known'
  <2> SUFFICES ASSUME NEW l \in Loggers, NEW s \in Slots, Live(l, s)'
               PROVE  jobs'[l] = s
    BY DEF Known
  <2>1. CASE l \in op.todo /\ s = pick[l]
    BY <2>1, <1>6
  <2>2. CASE ~(l \in op.todo /\ s = pick[l])
    <3>1. Live(l, s)
      BY <2>2, <1>4 DEF Live
    <3>2. jobs[l] = s
      BY <3>1, <1>2 DEF Known
    <3>3. l \notin op.todo
      BY <3>2, <1>2 DEF Missing, RuntimeAssumption
    <3> QED BY <3>2, <3>3, <1>6
  <2> QED BY <2>1, <2>2
<1>9. Waiting' /\ Missing'
  BY <1>2 DEF Waiting, Missing, NoOp
<1>10. Mapped'
  <2> SUFFICES ASSUME NEW l \in Loggers, jobs'[l] # NoSlot
               PROVE  job'[l][jobs'[l]].phase # "free"
    BY DEF Mapped
  <2>1. CASE l \in op.todo
    <3>1. jobs'[l] = pick[l] /\ pick[l] \in Slots
      BY <2>1, <1>6
    <3>2. job'[l][pick[l]] = [phase |-> "running", fp |-> op.cfgs[l],
                              cancelled |-> FALSE]
      BY <2>1, <3>1, <1>4
    <3>3. job'[l][pick[l]].phase = "running"
      BY ONLY <3>2
    <3> QED BY <3>1, <3>3
  <2>2. CASE l \notin op.todo
    <3>1. jobs'[l] = jobs[l] /\ jobs[l] \in Slots
      BY <2>2, <1>6 DEF TypeOK
    <3>2. job'[l][jobs[l]] = job[l][jobs[l]]
      BY <2>2, <3>1, <1>4
    <3>3. job[l][jobs[l]].phase # "free"
      BY <3>1 DEF Mapped
    <3> QED BY <3>1, <3>2, <3>3
  <2> QED BY <2>1, <2>2
<1>11. Quiet'
  BY <1>2 DEF Quiet, StartJobs
<1> QED BY <1>7, <1>8, <1>9, <1>10, <1>11

(* A Reconcile that returns without starting anything.                     *)
LEMMA ReturnInv ==
  ASSUME IInv, RuntimeAssumption, Return(FALSE), op.pc = "list" \/ op.wait = {},
         UNCHANGED <<db, parentDone, stopped, jobs, job, stop, edits>>
  PROVE  IInv'
<1> USE DEF IInv
<1>1. op' = NoOp
  BY DEF Return
<1>2. op' \in [pc : {"idle", "list", "swap", "start"},
               cfgs : [Loggers -> Stored],
               wait : SUBSET (Loggers \X Slots), todo : SUBSET Loggers]
  BY <1>1 DEF NoOp, Stored
<1>3. started' \in {"new", "reconciling", "yes", "failed"}
  BY DEF Return, TypeOK
<1>4. reconciler' \in BOOLEAN /\ (reconciler' => reconciler)
  BY Zenon DEF Return, TypeOK
<1>5. TypeOK'
  BY <1>2, <1>3, <1>4 DEF TypeOK
<1>6. Known'
  BY DEF Known, Live
<1>7. Waiting' /\ Missing'
  BY <1>1 DEF Waiting, Missing, NoOp
<1>8. Mapped'
  BY DEF Mapped
<1>9. Quiet'
  <2>1. stop' # "idle" => started' \in {"failed", "yes"}
    BY DEF Quiet, Return
  <2> QED BY <1>4, <2>1 DEF Quiet, Live
<1> QED BY <1>5, <1>6, <1>7, <1>8, <1>9

(* A scheduler that returns makes its job done.                            *)
LEMMA JobEndsInv ==
  ASSUME IInv, RuntimeAssumption, NEW l \in Loggers, NEW s \in Slots,
         JobEnds(l, s)
  PROVE  IInv'
<1> USE DEF IInv, JobEnds
<1>1. job[l][s] \in JobObject
  BY JobShape DEF Live
<1>2. \A m \in Loggers, t \in Slots :
        job'[m][t] = IF m = l /\ t = s THEN [job[l][s] EXCEPT !.phase = "done"]
                                      ELSE job[m][t]
  BY DEF TypeOK
<1>3. [job[l][s] EXCEPT !.phase = "done"] \in JobObject
  BY <1>1 DEF JobObject
<1>4. TypeOK'
  BY <1>3 DEF TypeOK
<1>5. \A m \in Loggers, t \in Slots :
        /\ Live(m, t)' => Live(m, t)
        /\ job'[m][t].phase = "free" => job[m][t].phase = "free"
  BY <1>1, <1>2 DEF Live, JobObject
<1>6. Known' /\ Waiting' /\ Missing' /\ Quiet'
  BY <1>5 DEF Known, Waiting, Missing, Quiet
<1>7. Mapped'
  BY <1>5 DEF Mapped, TypeOK
<1> QED BY <1>4, <1>6, <1>7

(* Stop cancels the jobs in the map and, once nothing runs, empties it.    *)
LEMMA StopInv == ASSUME IInv, Stop, RuntimeAssumption PROVE IInv'
<1> USE DEF IInv, Stop
<1>1. /\ job' \in [Loggers -> [Slots -> JobObject \cup {Free}]]
      /\ \A l \in Loggers, s \in Slots : job'[l][s].phase = job[l][s].phase
  BY CancellingShape
<1>2. TypeOK'
  BY <1>1 DEF TypeOK
<1>3. Known' /\ Waiting' /\ Missing'
  BY <1>1 DEF Known, Waiting, Missing, Live
<1>4. Mapped'
  BY <1>1 DEF Mapped, TypeOK
<1>5. Quiet'
  BY DEF Quiet
<1> QED BY <1>2, <1>3, <1>4, <1>5

LEMMA StopReturnsInv == ASSUME IInv, StopReturns, RuntimeAssumption PROVE IInv'
<1> USE DEF IInv, StopReturns
<1>1. TypeOK'
  BY DEF TypeOK
<1>2. Known' /\ Mapped' /\ Quiet'
  BY DEF Known, Mapped, Quiet, Live
<1>3. Waiting' /\ Missing'
  BY DEF Waiting, Missing, TypeOK
<1> QED BY <1>1, <1>2, <1>3

(* Every step keeps the invariant.                                         *)
LEMMA NextInv == ASSUME IInv, [Next]_vars, RuntimeAssumption PROVE IInv'
<1>1. CASE Start
  BY <1>1 DEF IInv, Start, TypeOK, Known, Waiting, Missing, Mapped, Quiet, Live
<1>2. CASE BeginReconcile
  <2>1. /\ op.pc = "idle" /\ op'.pc = "list"
        /\ op' \in [pc : {"idle", "list", "swap", "start"},
                    cfgs : [Loggers -> Stored],
                    wait : SUBSET (Loggers \X Slots), todo : SUBSET Loggers]
    BY <1>2 DEF BeginReconcile, NoOp, Stored
  <2> QED BY <1>2, <2>1 DEF IInv, BeginReconcile, TypeOK, Known, Waiting,
                            Missing, Mapped, Quiet, Live
<1>3. CASE List
  <2>1. /\ op.pc = "list" /\ op'.pc = "swap"
        /\ op' \in [pc : {"idle", "list", "swap", "start"},
                    cfgs : [Loggers -> Stored],
                    wait : SUBSET (Loggers \X Slots), todo : SUBSET Loggers]
    BY <1>3 DEF List, IInv, TypeOK
  <2> QED BY <1>3, <2>1 DEF IInv, List, TypeOK, Known, Waiting, Missing,
                            Mapped, Quiet, Live
<1>4. CASE ListFails
  BY <1>4, ReturnInv DEF ListFails
<1>5. CASE Swap
  BY <1>5, SwapInv
<1>6. CASE \E l \in Loggers, s \in Slots : Waited(l, s)
  BY <1>6, WaitedInv
<1>7. CASE StartJobs
  BY <1>7, StartJobsInv
<1>8. CASE StartRefused
  BY <1>8, ReturnInv DEF StartRefused
<1>9. CASE \E l \in Loggers, s \in Slots : JobEnds(l, s)
  BY <1>9, JobEndsInv
<1>10. CASE ReconcilerExits
  BY <1>10 DEF IInv, ReconcilerExits, TypeOK, Known, Waiting, Missing, Mapped,
               Quiet, Live
<1>11. CASE Stop
  BY <1>11, StopInv
<1>12. CASE StopReturns
  BY <1>12, StopReturnsInv
<1>13. CASE ShutDown
  BY <1>13 DEF IInv, ShutDown, TypeOK, Known, Waiting, Missing, Mapped, Quiet,
               Live
<1>14. CASE \E l \in Loggers, c \in Stored : Edit(l, c)
  BY <1>14, RuntimeAssumption DEF IInv, Edit, TypeOK, Known, Waiting, Missing,
               Mapped, Quiet, Live, RuntimeAssumption
<1>15. CASE Rest \/ UNCHANGED vars
  BY <1>15 DEF IInv, Rest, vars, TypeOK, Known, Waiting, Missing, Mapped,
               Quiet, Live
<1> QED BY <1>1, <1>2, <1>3, <1>4, <1>5, <1>6, <1>7, <1>8, <1>9, <1>10,
           <1>11, <1>12, <1>13, <1>14, <1>15 DEF Next

(* The invariant holds in every reachable state.                           *)
LEMMA Invariance == Spec => []IInv
<1> USE RuntimeAssumption
<1>1. Init => IInv
  BY InitInv
<1>2. IInv /\ [Next]_vars => IInv'
  BY NextInv
<1> QED BY <1>1, <1>2, PTL DEF Spec

(* Type correctness.                                                       *)
THEOREM TypeCorrect == Spec => []TypeOK
<1>1. IInv => TypeOK
  BY DEF IInv
<1> QED BY <1>1, Invariance, PTL

(* No interleaving of Reconcile, Stop and finishing schedulers ever runs   *)
(* two goroutines for one logger.                                          *)
THEOREM NeverTwoJobs == Spec => []OneJobPerLogger
<1>1. IInv => OneJobPerLogger
  BY OneJob, RuntimeAssumption
<1> QED BY <1>1, Invariance, PTL

(* When Stop has returned, nothing of the runtime runs, for ever.          *)
THEOREM StopIsFinal == Spec => []StoppedForGood
<1>1. IInv => StoppedForGood
  BY DEF IInv, Quiet, StoppedForGood
<1> QED BY <1>1, Invariance, PTL

=============================================================================
