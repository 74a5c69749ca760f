-------------------------- MODULE PublisherManager --------------------------
(***************************************************************************)
(* The publisher manager (publisher/manager.go): one goroutine per enabled *)
(* publisher, reconciled with the database by the ticker, the API, a       *)
(* secret rotation and Start.  reconcileMu makes Reconcile and Restart     *)
(* exclusive, so one variable, op, holds the call in progress; everything  *)
(* it does between two sections under mu interleaves with the jobs.        *)
(*                                                                         *)
(* A job is a publisherJob object and its goroutine.  Objects live in      *)
(* numbered slots; a slot is free again when its object is done and no map *)
(* or waiting call refers to it.                                           *)
(***************************************************************************)
EXTENDS Integers, FiniteSets, FiniteSetsExt

CONSTANTS
  Pubs,          \* publisher ids, numbers in the order of their strings
  Configs,       \* what a publisher may be configured to
  Conflicts,     \* pairs of configurations whose listener claims conflict
  Disabled,      \* the publisher is absent or not enabled
  MaxJobs,       \* bound: job objects referred to at one time
  MaxEdits,      \* bound: edits of the database
  MaxRestarts,   \* bound: calls of Restart
  MayShutDown    \* whether the process may be told to stop

ASSUME ManagerAssumption ==
  /\ Pubs \subseteq Nat \ {0}
  /\ IsFiniteSet(Pubs)
  /\ Disabled \notin Configs
  /\ Conflicts \subseteq Configs \X Configs
  /\ \A c, d \in Configs : <<c, d>> \in Conflicts <=> <<d, c>> \in Conflicts
  /\ MaxJobs \in Nat /\ MaxEdits \in Nat /\ MaxRestarts \in Nat
  /\ MayShutDown \in BOOLEAN

VARIABLES
  db,         \* the stored configuration of each publisher
  parentDone, \* the context given to Start is cancelled
  started,    \* how far Start is
  stopped,    \* Stop has been entered
  workers,    \* the goroutines runReconciler and runSecretRotations
  op,         \* the call that holds reconcileMu
  jobs,       \* Manager.jobs, 0 for no job
  job,        \* the job objects
  status,     \* the state in Manager.statuses
  stop,       \* the call of Stop, once it has released its locks
  abandoned,  \* history: live jobs whose waiter gave up
  budget      \* edits and restarts left

vars == <<db, parentDone, started, stopped, workers, op, jobs, job, status,
          stop, abandoned, budget>>

Slots   == 1..MaxJobs
NoJob   == 0
Workers == {"ticker", "rotation"}
Reconcilers == Workers \cup {"start", "api"}

(* A fingerprint: of the stored text when prepare failed ("raw", which     *)
(* differs from the normalised text the same entity has otherwise), with   *)
(* the owner of a conflicting listener appended.                           *)
Fingerprints == {"raw", "norm"} \X Configs \X (Pubs \cup {0})
NoFingerprint == <<"none">>

NoObject == [pub |-> 0, fp |-> NoFingerprint, cancelled |-> FALSE,
             phase |-> "free"]
Phases == {"free", "running", "closing", "exitStopped", "exitError",
           "ended", "done"}

(* The goroutine of a live job has not closed job.done.                    *)
Live(j) == job[j].phase \notin {"free", "done"}

NoOp == [pc |-> "free", caller |-> "api", cfgs |-> [p \in Pubs |-> Disabled],
         errs |-> {}, wait |-> {}, todo |-> {}]

(* Faulty variant: Stop does not cancel the manager's context.             *)
ManagerDoneByParent == parentDone
(* The manager's context: Start derives it from its own, Stop cancels it.  *)
ManagerDone == parentDone \/ stopped

(* A job's context derives from the manager's.                             *)
Cancelled(j) == job[j].cancelled \/ ManagerDone

(* The context of the call in progress: handlers pass one that never ends. *)
ContextDone ==
  \/ op.caller = "start" /\ parentDone
  \/ op.caller \in Workers /\ ManagerDone

Init ==
  /\ db \in [Pubs -> Configs \cup {Disabled}]
  /\ parentDone = FALSE
  /\ started = "new"
  /\ stopped = FALSE
  /\ workers = {}
  /\ op = NoOp
  /\ jobs = [p \in Pubs |-> NoJob]
  /\ job = [j \in Slots |-> NoObject]
  /\ status = [p \in Pubs |-> "absent"]
  /\ stop = [pc |-> "idle", by |-> "main", jobs |-> {}, pubs |-> {}]
  /\ abandoned = {}
  /\ budget = [edits |-> MaxEdits, restarts |-> MaxRestarts]

----------------------------------------------------------------------------
(* Preparing.                                                              *)

(* assignListenerClaims: in the order of the ids, a publisher prepared     *)
(* without an error owns its listener unless an earlier owner's claim      *)
(* conflicts; then it maps to that owner.                                  *)
Good(cfgs, errs, p) == cfgs[p] # Disabled /\ p \notin errs
Before(cfgs, errs, owner, p) ==
  {q \in Pubs : /\ q < p /\ Good(cfgs, errs, p) /\ Good(cfgs, errs, q)
                /\ <<cfgs[q], cfgs[p]>> \in Conflicts
                /\ owner[q] = 0}
OwnerOf(cfgs, errs, owner, p) ==
  LET before == Before(cfgs, errs, owner, p)
  IN IF before = {} THEN 0 ELSE Min(before)
Owners(cfgs, errs) ==
  LET owner[p \in Pubs] == OwnerOf(cfgs, errs, owner, p) IN owner

(* The fingerprint after prepare and assignListenerClaims.                 *)
Fingerprint(cfgs, errs, p) ==
  IF p \in errs THEN <<"raw", cfgs[p], 0>>
  ELSE <<"norm", cfgs[p], Owners(cfgs, errs)[p]>>

(* prepare or assignListenerClaims left an error in the specification.     *)
Refused(p) == Fingerprint(op.cfgs, op.errs, p)
                # <<"norm", op.cfgs[p], 0>>

----------------------------------------------------------------------------
(* Start, Reconcile and Restart.                                           *)

Start ==
  /\ started = "new" /\ ~stopped
  /\ started' = "starting"
  /\ workers' = Workers
  /\ UNCHANGED <<db, parentDone, stopped, op, jobs, job, status, stop, budget,
                 abandoned>>

(* The callers that may enter: Start once, a goroutine of the manager      *)
(* while it runs, a handler once Start has returned.                       *)
MayCall(c) ==
  CASE c = "start"   -> started = "starting"
    [] c \in Workers -> c \in workers
    [] c = "api"     -> started = "yes"

(* Lock reconcileMu and find the manager started and not stopped.          *)
BeginReconcile(c) ==
  /\ c # "rotation" /\ MayCall(c)
  /\ op = NoOp /\ ~stopped
  /\ op' = [NoOp EXCEPT !.pc = "list", !.caller = c]
  /\ UNCHANGED <<db, parentDone, started, stopped, workers, jobs, job, status,
                 stop, budget, abandoned>>

(* Cancel the contexts of the jobs in J.                                   *)
Cancelling(J) ==
  [j \in Slots |-> IF j \in J THEN [job[j] EXCEPT !.cancelled = TRUE]
                              ELSE job[j]]

(* Set the state of the publishers P.                                      *)
SetState(P, s) == [p \in Pubs |-> IF p \in P THEN s ELSE status[p]]

BeginRestart(c, p) ==
  /\ c \in {"api", "rotation"} /\ MayCall(c)
  /\ op = NoOp /\ ~stopped
  /\ budget.restarts > 0
  /\ budget' = [budget EXCEPT !.restarts = @ - 1]
  /\ IF jobs[p] = NoJob
       THEN /\ op' = [NoOp EXCEPT !.pc = "list", !.caller = c]
            /\ UNCHANGED <<jobs, job, status, abandoned>>
       ELSE /\ op' = [NoOp EXCEPT !.pc = "await", !.caller = c,
                                  !.wait = {jobs[p]}]
            /\ job' = Cancelling({jobs[p]})
            /\ jobs' = [jobs EXCEPT ![p] = NoJob]
            /\ status' = SetState({p}, "stopping")
  /\ UNCHANGED <<db, parentDone, started, stopped, workers, stop, abandoned>>

(* Nothing refers to the objects J any more: those that are done are gone. *)
Released(J) ==
  [j \in Slots |-> IF j \in J /\ job[j].phase = "done" THEN NoObject
                                                      ELSE job[j]]

(* The call returns an error; Start then calls Stop.                       *)
ReturnError ==
  /\ op' = NoOp
  /\ started' = IF op.caller = "start" THEN "failed" ELSE started

(* ListEnabled, then prepare for each publisher: its sources may fail to   *)
(* resolve.                                                                *)
List(errs) ==
  /\ op.pc = "list"
  /\ \A p \in errs : db[p] # Disabled
  /\ op' = [op EXCEPT !.pc = "swap", !.cfgs = db, !.errs = errs]
  /\ UNCHANGED <<db, parentDone, started, stopped, workers, jobs, job, status,
                 stop, budget, abandoned>>

ListFails ==
  /\ op.pc = "list"
  /\ ReturnError
  /\ UNCHANGED <<db, parentDone, stopped, workers, jobs, job, status, stop,
                 budget, abandoned>>

(* Faulty variant: the wait for the jobs taken out is forgotten.           *)
SwapWithoutWait ==
  /\ op.pc = "swap"
  /\ LET wanted == {p \in Pubs : op.cfgs[p] # Disabled}
         kept   == {p \in wanted : /\ jobs[p] # NoJob
                                   /\ job[jobs[p]].fp = Fingerprint(op.cfgs, op.errs, p)}
         gone   == {p \in Pubs \ kept : jobs[p] # NoJob}
     IN /\ job' = Cancelling({jobs[p] : p \in gone})
        /\ jobs' = [p \in Pubs |-> IF p \in gone THEN NoJob ELSE jobs[p]]
        /\ status' = SetState(gone, "stopping")
        /\ op' = [op EXCEPT !.pc = "start", !.todo = wanted \ kept]
  /\ UNCHANGED <<db, parentDone, started, stopped, workers, stop, budget,
                 abandoned>>
(* Under mu: a job with the wanted fingerprint is kept, every other is     *)
(* taken out of the map and cancelled.                                     *)
Swap ==
  /\ op.pc = "swap"
  /\ LET wanted == {p \in Pubs : op.cfgs[p] # Disabled}
         kept   == {p \in wanted : /\ jobs[p] # NoJob
                                   /\ job[jobs[p]].fp = Fingerprint(op.cfgs, op.errs, p)}
         gone   == {p \in Pubs \ kept : jobs[p] # NoJob}
     IN /\ job' = Cancelling({jobs[p] : p \in gone})
        /\ jobs' = [p \in Pubs |-> IF p \in gone THEN NoJob ELSE jobs[p]]
        /\ status' = SetState(gone, "stopping")
        /\ op' = [op EXCEPT !.pc = IF gone = {} THEN "start" ELSE "wait",
                            !.wait = {jobs[p] : p \in gone},
                            !.todo = wanted \ kept]
  /\ UNCHANGED <<db, parentDone, started, stopped, workers, stop, budget,
                 abandoned>>

(* waitForPublisherRuntime returns nil for a job that was taken out.       *)
Waited(j) ==
  /\ op.pc \in {"await", "wait"} /\ j \in op.wait
  /\ job[j].phase = "done"
  /\ status' = SetState({job[j].pub}, "stopped")
  /\ job' = [job EXCEPT ![j] = NoObject]
  /\ op' = [op EXCEPT !.wait = @ \ {j},
                      !.pc = IF op.wait # {j} THEN @
                             ELSE IF @ = "await" THEN "list" ELSE "start"]
  /\ UNCHANGED <<db, parentDone, started, stopped, workers, jobs, stop,
                 budget, abandoned>>

(* waitForPublisherRuntime returns the error of the caller's context: the  *)
(* jobs taken out are nobody's from here on.                               *)
WaitAborted ==
  /\ op.pc \in {"await", "wait"} /\ ContextDone
  /\ ReturnError
  /\ job' = Released(op.wait)
  /\ abandoned' = abandoned \cup {j \in op.wait : Live(j)}
  /\ UNCHANGED <<db, parentDone, stopped, workers, jobs, status, stop, budget>>

(* startJob, first section under mu.                                       *)
StartJob ==
  /\ op.pc = "start" /\ op.todo # {}
  /\ op' = [op EXCEPT !.pc = "build"]
  /\ status' = SetState({Min(op.todo)}, "starting")
  /\ UNCHANGED <<db, parentDone, started, stopped, workers, jobs, job, stop,
                 budget, abandoned>>

Available(j) == job[j].phase = "free"

(* Store a job object for p: live when failed is FALSE, else done.         *)
Store(p, failed) ==
  /\ \E j \in Slots : Available(j)
  /\ LET j == CHOOSE k \in Slots : Available(k)
     IN /\ jobs' = [jobs EXCEPT ![p] = j]
        /\ job' = [job EXCEPT ![j] =
                     [pub |-> p, fp |-> Fingerprint(op.cfgs, op.errs, p),
                      cancelled |-> FALSE,
                      phase |-> IF failed THEN "done" ELSE "running"]]
        /\ status' = SetState({p}, IF failed THEN "error" ELSE "running")
        /\ op' = [op EXCEPT !.pc = "start", !.todo = @ \ {p}]

(* startJob, second section: the job runs, or the specification's error    *)
(* or the transport's is stored as a job that has ended.                   *)
BuildJob(failed) ==
  /\ op.pc = "build"
  /\ Refused(Min(op.todo)) => failed
  /\ Store(Min(op.todo), failed)
  /\ UNCHANGED <<db, parentDone, started, stopped, workers, stop, budget,
                 abandoned>>

EndReconcile ==
  /\ op.pc = "start" /\ op.todo = {}
  /\ op' = NoOp
  /\ started' = IF op.caller = "start" THEN "yes" ELSE started
  /\ UNCHANGED <<db, parentDone, stopped, workers, jobs, job, status, stop,
                 budget, abandoned>>

----------------------------------------------------------------------------
(* The jobs.                                                               *)

(* The loop of runPublisher returns: its context is done, or it failed.    *)
JobReturns(j) ==
  /\ job[j].phase = "running"
  /\ job' = [job EXCEPT ![j].phase = "closing"]
  /\ UNCHANGED <<db, parentDone, started, stopped, workers, op, jobs, status,
                 stop, budget, abandoned>>

(* The transport is closed, and runJob looks at its context.               *)
JobChecks(j) ==
  /\ job[j].phase = "closing"
  /\ job' = [job EXCEPT ![j].phase =
               IF Cancelled(j) THEN "exitStopped" ELSE "exitError"]
  /\ UNCHANGED <<db, parentDone, started, stopped, workers, op, jobs, status,
                 stop, budget, abandoned>>

(* It writes the status of its publisher.                                  *)
JobReports(j) ==
  /\ job[j].phase \in {"exitStopped", "exitError"}
  /\ job' = [job EXCEPT ![j].phase = "ended"]
  /\ status' = SetState({job[j].pub}, IF job[j].phase = "exitStopped"
                                        THEN "stopped" ELSE "error")
  /\ UNCHANGED <<db, parentDone, started, stopped, workers, op, jobs, stop,
                 budget, abandoned>>

(* close(job.done); an object nobody refers to is gone.                    *)
JobCloses(j) ==
  /\ job[j].phase = "ended"
  /\ LET referred == \/ \E p \in Pubs : jobs[p] = j
                     \/ j \in op.wait \cup stop.jobs
     IN job' = [job EXCEPT ![j] = IF referred THEN [@ EXCEPT !.phase = "done"]
                                              ELSE NoObject]
  /\ abandoned' = abandoned \ {j}
  /\ UNCHANGED <<db, parentDone, started, stopped, workers, op, jobs, status,
                 stop, budget>>

----------------------------------------------------------------------------
(* Stop, shutdown and the environment.                                     *)

(* Stop's first part, under both locks: called by Start when its Reconcile *)
(* failed, by main at shutdown.                                            *)
Stop(by) ==
  /\ \/ by = "start" /\ started = "failed"
     \/ by = "main" /\ started = "yes" /\ parentDone
  /\ op = NoOp /\ stop.pc = "idle"
  /\ stopped' = TRUE
  /\ LET pubs == {p \in Pubs : jobs[p] # NoJob}
         all  == {jobs[p] : p \in pubs}
     IN /\ job' = Cancelling(all)
        /\ status' = SetState(pubs, "stopping")
        /\ stop' = [pc |-> "wait", by |-> by, jobs |-> all, pubs |-> pubs]
  /\ UNCHANGED <<db, parentDone, started, workers, op, jobs, budget,
                 abandoned>>

(* Faulty variant: Stop does not wait for the jobs.                        *)
StopReturnsEarly ==
  /\ stop.pc = "wait" /\ workers = {}
  /\ status' = SetState(stop.pubs, "stopped")
  /\ jobs' = [p \in Pubs |-> NoJob]
  /\ job' = Released(stop.jobs)
  /\ stop' = [stop EXCEPT !.pc = "ok", !.jobs = {}, !.pubs = {}]
  /\ UNCHANGED <<db, parentDone, started, stopped, workers, op, budget,
                 abandoned>>
(* Every job and goroutine Stop waits for has ended.                       *)
StopReturns ==
  /\ stop.pc = "wait" /\ workers = {}
  /\ \A j \in stop.jobs : job[j].phase = "done"
  /\ status' = SetState(stop.pubs, "stopped")
  /\ jobs' = [p \in Pubs |-> NoJob]
  /\ job' = Released(stop.jobs)
  /\ stop' = [stop EXCEPT !.pc = "ok", !.jobs = {}, !.pubs = {}]
  /\ UNCHANGED <<db, parentDone, started, stopped, workers, op, budget,
                 abandoned>>

(* main's context of five seconds ends first.                              *)
StopTimesOut ==
  /\ stop.pc = "wait" /\ stop.by = "main"
  /\ stop' = [stop EXCEPT !.pc = "timeout", !.jobs = {}, !.pubs = {}]
  /\ UNCHANGED <<db, parentDone, started, stopped, workers, op, jobs, job,
                 status, budget, abandoned>>

(* runReconciler or runSecretRotations sees the context done.              *)
WorkerExits(w) ==
  /\ w \in workers /\ ManagerDone
  /\ op = NoOp \/ op.caller # w
  /\ workers' = workers \ {w}
  /\ UNCHANGED <<db, parentDone, started, stopped, op, jobs, job, status,
                 stop, budget, abandoned>>

(* The process is told to stop: Start's context is cancelled.              *)
ShutDown ==
  /\ MayShutDown /\ ~parentDone /\ started # "new"
  /\ parentDone' = TRUE
  /\ UNCHANGED <<db, started, stopped, workers, op, jobs, job, status, stop,
                 budget, abandoned>>

(* A handler or another process edits a publisher; the handler's Reconcile *)
(* follows as a call of its own.                                           *)
Edit(p, c) ==
  /\ budget.edits > 0 /\ c # db[p]
  /\ db' = [db EXCEPT ![p] = c]
  /\ budget' = [budget EXCEPT !.edits = @ - 1]
  /\ UNCHANGED <<parentDone, started, stopped, workers, op, jobs, job, status,
                 stop, abandoned>>

(* The whole system is at rest after Stop.                                 *)
Rest ==
  /\ stop.pc \in {"ok", "timeout"} /\ workers = {}
  /\ \A j \in Slots : ~Live(j)
  /\ UNCHANGED vars

Next ==
  \/ Start
  \/ \E c \in Reconcilers : BeginReconcile(c)
  \/ \E c \in Reconcilers, p \in Pubs : BeginRestart(c, p)
  \/ \E errs \in SUBSET Pubs : List(errs)
  \/ ListFails
  \/ Swap
  \/ \E j \in Slots : Waited(j)
  \/ WaitAborted
  \/ StartJob
  \/ \E failed \in BOOLEAN : BuildJob(failed)
  \/ EndReconcile
  \/ \E j \in Slots : JobReturns(j)
  \/ \E j \in Slots : JobChecks(j)
  \/ \E j \in Slots : JobReports(j)
  \/ \E j \in Slots : JobCloses(j)
  \/ \E by \in {"start", "main"} : Stop(by)
  \/ StopReturns
  \/ StopTimesOut
  \/ \E w \in Workers : WorkerExits(w)
  \/ ShutDown
  \/ \E p \in Pubs, c \in Configs \cup {Disabled} : Edit(p, c)
  \/ Rest

(* The steps of the call that holds reconcileMu, of a job's goroutine that *)
(* has a reason to go on, and of the goroutines when they are to end.      *)
CallSteps ==
  \/ \E errs \in SUBSET Pubs : List(errs)
  \/ Swap \/ (\E j \in Slots : Waited(j))
  \/ StartJob \/ (\E failed \in BOOLEAN : BuildJob(failed)) \/ EndReconcile
JobSteps(j) ==
  \/ Cancelled(j) /\ JobReturns(j)
  \/ JobChecks(j) \/ JobReports(j) \/ JobCloses(j)

(* Every goroutine of the manager keeps running, the ticker ticks, a       *)
(* cancelled job returns, reconcileMu is not withheld from anybody for     *)
(* ever, and the database and the sources answer again and again.          *)
Fairness ==
  /\ WF_vars(Start)
  /\ SF_vars(BeginReconcile("start")) /\ SF_vars(BeginReconcile("ticker"))
  /\ SF_vars(List({}))
  /\ WF_vars(CallSteps)
  /\ \A j \in Slots : WF_vars(JobSteps(j))
  /\ SF_vars(\E by \in {"start", "main"} : Stop(by))
  /\ WF_vars(StopReturns)
  /\ WF_vars(\E w \in Workers : WorkerExits(w))

Spec == Init /\ [][Next]_vars
LiveSpec == Spec /\ Fairness

----------------------------------------------------------------------------
(* Properties.                                                             *)

Call ==
  [pc : {"free", "list", "await", "swap", "wait", "start", "build"},
   caller : Reconcilers, cfgs : [Pubs -> Configs \cup {Disabled}],
   errs : SUBSET Pubs, wait : SUBSET Slots, todo : SUBSET Pubs]
JobObject ==
  [pub : Pubs \cup {0}, fp : Fingerprints \cup {NoFingerprint},
   cancelled : BOOLEAN, phase : Phases]
States == {"absent", "starting", "running", "stopping", "stopped", "error"}
StopCall ==
  [pc : {"idle", "wait", "ok", "timeout"}, by : {"start", "main"},
   jobs : SUBSET Slots, pubs : SUBSET Pubs]

(* Every variable has its type.                                            *)
TypeOK ==
  /\ db \in [Pubs -> Configs \cup {Disabled}]
  /\ parentDone \in BOOLEAN /\ stopped \in BOOLEAN
  /\ started \in {"new", "starting", "yes", "failed"}
  /\ workers \subseteq Workers
  /\ op \in Call
  /\ jobs \in [Pubs -> Slots \cup {NoJob}]
  /\ job \in [Slots -> JobObject]
  /\ status \in [Pubs -> States]
  /\ stop \in StopCall
  /\ abandoned \in SUBSET Slots
  /\ budget \in [edits : 0..MaxEdits, restarts : 0..MaxRestarts]

(* A publisher has one goroutine at most: reconcileLocked and Restart wait *)
(* for the old one before startJob.  Only a job whose waiter was cut off   *)
(* by the shutdown may overlap with a new one.                             *)
OneJobPerPublisher ==
  \A j, k \in {l \in Slots : Live(l)} \ abandoned :
    job[j].pub = job[k].pub => j = k

(* Two publishers never hold conflicting listeners, whatever publisher     *)
(* owned the address before, even when the owner cannot be prepared in the *)
(* round that admits another: its fingerprint changes, so it ends first.   *)
ListenersExclusive ==
  \A j, k \in {l \in Slots : Live(l)} \ abandoned :
    j # k => <<job[j].fp[2], job[k].fp[2]>> \notin Conflicts

(* Between two reconciles the status tells the truth about the job: absent *)
(* or stopped without one, running while its loop runs, error once it has  *)
(* ended by itself.                                                        *)
StatusMatchesJob ==
  (op = NoOp /\ ~ManagerDone) =>
    \A p \in Pubs :
      status[p] \in IF jobs[p] = NoJob THEN {"absent", "stopped"}
                    ELSE IF job[jobs[p]].phase \in {"ended", "done"} THEN {"error"}
                    ELSE {"running"}

(* The manager and its jobs at any moment, under whatever edits, restarts   *)
(* and reconciles that meet.                                               *)
PublishersManaged ==
  TypeOK /\ OneJobPerPublisher /\ ListenersExclusive /\ StatusMatchesJob

(* When Stop has returned without an error, the goroutines of the manager  *)
(* and every job have ended and no status says that one runs; the          *)
(* exception is a job that a reconcile took out of the map and then did    *)
(* not wait for, because the shutdown had cancelled its context: Stop      *)
(* cannot see it.                                                          *)
StopLeavesNothingRunning ==
  stop.pc = "ok" =>
    /\ workers = {} /\ op = NoOp
    /\ \A j \in Slots : Live(j) => j \in abandoned
    /\ \A p \in Pubs : status[p] \notin {"starting", "running"}

(* With the database at rest, the jobs are again and again those it asks   *)
(* for: one per enabled publisher, of its stored configuration, with the   *)
(* listener given to the first that claims it.                             *)
Converged ==
  \A p \in Pubs :
    IF db[p] = Disabled THEN jobs[p] = NoJob
    ELSE jobs[p] # NoJob /\ job[jobs[p]].fp = Fingerprint(db, {}, p)
Converges == []<>(Converged \/ stopped)

(* A Stop that Start or main calls returns.                                *)
StopEnds ==
  [](started = "failed" \/ (started = "yes" /\ parentDone)
       => <>(stop.pc \in {"ok", "timeout"}))

(* Reconciles reach what the database asks for, and the shutdown ends them *)
(* although Stop waits for the lock that a reconcile holds while it waits  *)
(* for a job.                                                              *)
Settles == Converges /\ StopEnds

=============================================================================
