------------------------- MODULE DataLoggerRuntime -------------------------
(***************************************************************************)
(* The data logger runtime (datalogger/runtime.go): one goroutine per      *)
(* enabled logger, reconciled with the database by Start and then by       *)
(* runReconciler.  Unlike the publisher manager, Stop does not take        *)
(* reconcileMu, so it runs in the middle of a Reconcile; and Reconcile     *)
(* waits for the jobs it replaces without looking at any context.          *)
(*                                                                         *)
(* A job is a runtimeJob object and its goroutine.  Each logger has slots  *)
(* for its jobs, so that two at a time can be told apart; a slot is free   *)
(* when its goroutine has ended and neither the map nor a Reconcile refers *)
(* to it.                                                                  *)
(***************************************************************************)
EXTENDS Integers, FiniteSets

CONSTANTS
  Loggers,   \* logger ids
  Configs,   \* what loggerRuntimeFingerprint tells apart
  Disabled,  \* the logger is absent or not enabled
  Slots,     \* places for the jobs of one logger
  NoSlot,    \* the logger has no job
  MaxEdits   \* bound: edits of the database

ASSUME RuntimeAssumption ==
  /\ Disabled \notin Configs
  /\ NoSlot \notin Slots
  /\ MaxEdits \in Nat

VARIABLES
  db,         \* the stored configuration of each logger
  parentDone, \* the context given to Start is cancelled
  started,    \* how far Start is
  stopped,    \* Stop has been entered
  reconciler, \* runReconciler runs
  op,         \* the Reconcile in progress
  jobs,       \* Runtime.jobs
  job,        \* the job objects of each logger
  stop,       \* how far Stop is
  edits       \* edits left

vars == <<db, parentDone, started, stopped, reconciler, op, jobs, job, stop,
          edits>>

Stored == Configs \cup {Disabled}
Free   == [phase |-> "free", fp |-> Disabled, cancelled |-> FALSE]
JobObject == [phase : {"running", "done"}, fp : Configs, cancelled : BOOLEAN]
NoOp   == [pc |-> "idle", cfgs |-> [l \in Loggers |-> Disabled],
           wait |-> {}, todo |-> {}]

Live(l, s) == job[l][s].phase = "running"

(* runtime.ctx is done.                                                    *)
RuntimeDone == parentDone \/ stopped

Init ==
  /\ db \in [Loggers -> Stored]
  /\ parentDone = FALSE
  /\ started = "new"
  /\ stopped = FALSE
  /\ reconciler = FALSE
  /\ op = NoOp
  /\ jobs = [l \in Loggers |-> NoSlot]
  /\ job = [l \in Loggers |-> [s \in Slots |-> Free]]
  /\ stop = "idle"
  /\ edits = MaxEdits

----------------------------------------------------------------------------
(* Start and Reconcile.                                                    *)

Start ==
  /\ started = "new"
  /\ started' = "reconciling"
  /\ UNCHANGED <<db, parentDone, stopped, reconciler, op, jobs, job, stop,
                 edits>>

(* Start, or a tick of runReconciler, enters Reconcile.                    *)
BeginReconcile ==
  /\ op.pc = "idle" /\ ~stopped
  /\ started = "reconciling" \/ reconciler
  /\ op' = [NoOp EXCEPT !.pc = "list"]
  /\ UNCHANGED <<db, parentDone, started, stopped, reconciler, jobs, job, stop,
                 edits>>

(* Reconcile returns: Start goes on to start runReconciler, or to Stop.    *)
Return(ok) ==
  /\ op' = NoOp
  /\ IF started = "reconciling"
       THEN /\ started' = IF ok THEN "yes" ELSE "failed"
            /\ reconciler' = (ok /\ ~stopped)
       ELSE UNCHANGED <<started, reconciler>>

List ==
  /\ op.pc = "list"
  /\ op' = [op EXCEPT !.pc = "swap", !.cfgs = db]
  /\ UNCHANGED <<db, parentDone, started, stopped, reconciler, jobs, job, stop,
                 edits>>

ListFails ==
  /\ op.pc = "list"
  /\ Return(FALSE)
  /\ UNCHANGED <<db, parentDone, stopped, jobs, job, stop, edits>>

(* The loggers in the map whose job has another fingerprint than listed.   *)
Outdated ==
  {l \in Loggers : jobs[l] # NoSlot /\ job[l][jobs[l]].fp # op.cfgs[l]}

(* Cancel the jobs of the loggers L that are in the map.                   *)
Cancelling(L) ==
  [l \in Loggers |->
     [s \in Slots |-> IF l \in L /\ s = jobs[l]
                        THEN [job[l][s] EXCEPT !.cancelled = TRUE]
                        ELSE job[l][s]]]

(* Faulty variant: the jobs taken out of the map are not waited for.       *)
SwapWithoutWait ==
  /\ op.pc = "swap"
  /\ job' = Cancelling(Outdated)
  /\ jobs' = [l \in Loggers |-> IF l \in Outdated THEN NoSlot ELSE jobs[l]]
  /\ op' = [op EXCEPT !.pc = "start",
              !.todo = {l \in Loggers : /\ op.cfgs[l] # Disabled
                                        /\ jobs[l] = NoSlot \/ l \in Outdated}]
  /\ UNCHANGED <<db, parentDone, started, stopped, reconciler, stop, edits>>
(* Under mu: outdated jobs leave the map and are cancelled.                *)
Swap ==
  /\ op.pc = "swap"
  /\ job' = Cancelling(Outdated)
  /\ jobs' = [l \in Loggers |-> IF l \in Outdated THEN NoSlot ELSE jobs[l]]
  /\ op' = [op EXCEPT !.pc = "start",
              !.wait = {<<l, jobs[l]>> : l \in Outdated},
              !.todo = {l \in Loggers : /\ op.cfgs[l] # Disabled
                                        /\ jobs[l] = NoSlot \/ l \in Outdated}]
  /\ UNCHANGED <<db, parentDone, started, stopped, reconciler, stop, edits>>

(* <-job.done for a job that was taken out.                                *)
Waited(l, s) ==
  /\ op.pc = "start" /\ <<l, s>> \in op.wait
  /\ job[l][s].phase = "done"
  /\ op' = [op EXCEPT !.wait = @ \ {<<l, s>>}]
  /\ job' = [job EXCEPT ![l][s] = Free]
  /\ UNCHANGED <<db, parentDone, started, stopped, reconciler, jobs, stop,
                 edits>>

(* Put a running job for each logger of op.todo in the slot pick gives.    *)
StartIn(pick) ==
  /\ \A l \in op.todo : job[l][pick[l]].phase = "free"
  /\ jobs' = [l \in Loggers |-> IF l \in op.todo THEN pick[l] ELSE jobs[l]]
  /\ job' = [l \in Loggers |->
               [s \in Slots |->
                  IF l \in op.todo /\ s = pick[l]
                    THEN [phase |-> "running", fp |-> op.cfgs[l],
                          cancelled |-> FALSE]
                    ELSE job[l][s]]]

(* Under mu, when every old job has ended: all missing jobs start, unless  *)
(* Stop came first.                                                        *)
StartJobs ==
  /\ op.pc = "start" /\ op.wait = {} /\ ~stopped
  /\ \E pick \in [op.todo -> Slots] : StartIn(pick)
  /\ Return(TRUE)
  /\ UNCHANGED <<db, parentDone, stopped, stop, edits>>

StartRefused ==
  /\ op.pc = "start" /\ op.wait = {} /\ stopped
  /\ Return(FALSE)
  /\ UNCHANGED <<db, parentDone, stopped, jobs, job, stop, edits>>

----------------------------------------------------------------------------
(* The goroutines, Stop and the environment.                               *)

(* The scheduler returns: its context is done, the logger has reached its  *)
(* end, or it failed; job.done is closed and the wait group counts down.   *)
JobEnds(l, s) ==
  /\ Live(l, s)
  /\ job' = [job EXCEPT ![l][s].phase = "done"]
  /\ UNCHANGED <<db, parentDone, started, stopped, reconciler, op, jobs, stop,
                 edits>>

(* runReconciler sees runtime.ctx done, between two reconciles.            *)
ReconcilerExits ==
  /\ reconciler /\ RuntimeDone /\ op.pc = "idle"
  /\ reconciler' = FALSE
  /\ UNCHANGED <<db, parentDone, started, stopped, op, jobs, job, stop, edits>>

(* Stop, first part, under mu: from a Start that failed or from main.      *)
Stop ==
  /\ started \in {"failed", "yes"} /\ ~stopped
  /\ stopped' = TRUE
  /\ stop' = "wait"
  /\ job' = Cancelling(Loggers)
  /\ UNCHANGED <<db, parentDone, started, reconciler, op, jobs, edits>>

(* Stop, second part: the jobs it saw and the wait group are done.         *)
StopReturns ==
  /\ stop = "wait" /\ ~reconciler
  /\ \A l \in Loggers, s \in Slots : ~Live(l, s)
  /\ jobs' = [l \in Loggers |-> NoSlot]
  /\ stop' = "done"
  /\ UNCHANGED <<db, parentDone, started, stopped, reconciler, op, job, edits>>

(* The process is told to stop.                                            *)
ShutDown ==
  /\ ~parentDone /\ started # "new"
  /\ parentDone' = TRUE
  /\ UNCHANGED <<db, started, stopped, reconciler, op, jobs, job, stop, edits>>

Edit(l, c) ==
  /\ edits > 0 /\ c # db[l]
  /\ edits' = edits - 1
  /\ db' = [db EXCEPT ![l] = c]
  /\ UNCHANGED <<parentDone, started, stopped, reconciler, op, jobs, job, stop>>

(* Everything has stopped.                                                 *)
Rest == stop = "done" /\ UNCHANGED vars

Next ==
  \/ Start \/ BeginReconcile \/ List \/ ListFails \/ Swap
  \/ \E l \in Loggers, s \in Slots : Waited(l, s)
  \/ StartJobs \/ StartRefused
  \/ \E l \in Loggers, s \in Slots : JobEnds(l, s)
  \/ ReconcilerExits \/ Stop \/ StopReturns \/ ShutDown
  \/ \E l \in Loggers, c \in Stored : Edit(l, c)
  \/ Rest

(* The goroutines run on, the ticker ticks, a cancelled scheduler returns, *)
(* the database answers again and again, and a process told to stop calls  *)
(* Stop.                                                                   *)
Fairness ==
  /\ WF_vars(Start) /\ WF_vars(BeginReconcile) /\ SF_vars(List)
  /\ WF_vars(Swap) /\ WF_vars(StartJobs) /\ WF_vars(StartRefused)
  /\ \A l \in Loggers, s \in Slots :
       /\ WF_vars(Waited(l, s))
       /\ WF_vars((job[l][s].cancelled \/ RuntimeDone) /\ JobEnds(l, s))
  /\ SF_vars(ReconcilerExits)
  /\ WF_vars(Stop /\ (parentDone \/ started = "failed"))
  /\ WF_vars(StopReturns)

Spec == Init /\ [][Next]_vars
LiveSpec == Spec /\ Fairness

----------------------------------------------------------------------------
(* Properties.                                                             *)

(* Every variable has its type.                                            *)
TypeOK ==
  /\ db \in [Loggers -> Stored]
  /\ parentDone \in BOOLEAN /\ stopped \in BOOLEAN /\ reconciler \in BOOLEAN
  /\ started \in {"new", "reconciling", "yes", "failed"}
  /\ op \in [pc : {"idle", "list", "swap", "start"},
             cfgs : [Loggers -> Stored],
             wait : SUBSET (Loggers \X Slots), todo : SUBSET Loggers]
  /\ jobs \in [Loggers -> Slots \cup {NoSlot}]
  /\ job \in [Loggers -> [Slots -> JobObject \cup {Free}]]
  /\ stop \in {"idle", "wait", "done"}
  /\ edits \in 0..MaxEdits

(* No logger is ever captured by two goroutines: a Reconcile that replaces *)
(* a job has seen the old one end, whatever Stop does meanwhile.           *)
OneJobPerLogger ==
  \A l \in Loggers : \A s, t \in Slots : Live(l, s) /\ Live(l, t) => s = t

(* Once Stop has returned, no job and no reconciler runs, also when Stop   *)
(* came in the middle of a Reconcile.                                      *)
StoppedForGood ==
  stop = "done" =>
    /\ ~reconciler
    /\ \A l \in Loggers, s \in Slots : ~Live(l, s)

(* With the database at rest the jobs are again and again those it asks    *)
(* for, as long as nobody stops the runtime.                               *)
Converged ==
  \A l \in Loggers :
    IF db[l] = Disabled THEN jobs[l] = NoSlot
    ELSE jobs[l] # NoSlot /\ job[l][jobs[l]].fp = db[l]
Converges == []<>(Converged \/ parentDone \/ stopped)

(* Stop returns once called.                                               *)
StopEnds == stop = "wait" ~> stop = "done"

=============================================================================
