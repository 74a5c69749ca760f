---------------------------- MODULE PluginManager ----------------------------
(***************************************************************************)
(* The instances of a plugin type and the manager that runs them.          *)
(*                                                                         *)
(* plugin/manager.go, plugin/service.go, plugin/http/handler.go and        *)
(* plugin/postgres/repository.go.                                          *)
(*                                                                         *)
(* A request of the API saves a row and then has the manager reconcile;    *)
(* the manager also reconciles when it starts and at every tick.  Only the *)
(* holder of reconcileMu removes and starts jobs, and it keeps the lock    *)
(* while it waits for the jobs it cancelled.  A configuration is a number; *)
(* 0 is one that an older version of the implementation stored.            *)
(***************************************************************************)
EXTENDS Integers, FiniteSets

CONSTANTS
    Instances,    \* the ids of instances, all of one type
    Operators,      \* API requests that may run at the same time
    NoInstance,        \* an instance that is not in the database
    NoPluginJob,        \* an instance the manager has no job for
    MaxConfigs,  \* bound of the configurations
    MaxCalls   \* bound of all requests

ASSUME PluginAssumption ==
    /\ MaxConfigs \in Nat \ {0} /\ MaxCalls \in Nat
    /\ "main" \notin Operators /\ "ticker" \notin Operators
    /\ IsFiniteSet(Instances)
    /\ NoInstance \notin [enabled : BOOLEAN, config : 0 .. MaxConfigs]
    /\ NoPluginJob \notin [config : 0 .. MaxConfigs,
                           state : {"live", "cancelled", "done"}]

VARIABLES
    rows,      \* the table plugin_instances
    manager,   \* started, stopped, and whether manager.ctx is cancelled
    holder,    \* who holds reconcileMu: at most one
    creating,  \* who holds createMu: at most one
    pluginJobs,      \* manager.jobs
    stopping,  \* instances whose cancelled job the holder waits for
    orphans,   \* instances with a cancelled job that nobody waits for
    statuses,  \* manager.statuses
    procs,     \* what main, the ticker and the callers are doing
    calls   \* requests made so far

pluginVars == <<rows, manager, holder, creating, pluginJobs, stopping, orphans,
                statuses, procs, calls>>
instanceTable == <<rows, creating, calls>>
runtime == <<pluginJobs, stopping, orphans, statuses>>

Procs == Operators \cup {"main", "ticker"}
InstanceRow == [enabled : BOOLEAN, config : 0 .. MaxConfigs]
Job == [config : 0 .. MaxConfigs, state : {"live", "cancelled", "done"}]
Resting == [at |-> "idle", target |-> {}, todo |-> << >>]

PluginTypeOK ==
    /\ rows \in [Instances -> InstanceRow \cup {NoInstance}]
    /\ manager \in [started : BOOLEAN, stopped : BOOLEAN, ctxDone : BOOLEAN]
    /\ holder \subseteq Procs /\ Cardinality(holder) <= 1
    /\ pluginJobs \in [Instances -> Job \cup {NoPluginJob}]
    /\ stopping \cup orphans \subseteq Instances
    /\ statuses \in [Instances -> {"stopped", "starting", "running",
                                   "stopping", "error"}]

\* A type that allows one instance has at most one row.
PluginInit ==
    /\ rows \in [Instances -> InstanceRow \cup {NoInstance}]
    /\ Cardinality({i \in Instances : rows[i] # NoInstance}) <= 1
    /\ \A i \in Instances : rows[i] # NoInstance => rows[i].config \in {0, 1}
    /\ manager = [started |-> FALSE, stopped |-> FALSE, ctxDone |-> FALSE]
    /\ holder = {} /\ creating = {}
    /\ pluginJobs = [i \in Instances |-> NoPluginJob]
    /\ stopping = {} /\ orphans = {}
    /\ statuses = [i \in Instances |-> "stopped"]
    /\ procs = [p \in Procs |-> Resting]
    /\ calls = 0

Goto(p, at) == procs' = [procs EXCEPT ![p].at = at]

----------------------------------------------------------------------------
(* Reconcile, run by main in Start, by the ticker and by every request. *)

\* Faulty variant: the manager is not asked whether it runs.
LockUnchecked(p) ==
    /\ procs[p].at = "reconcile" /\ holder = {}
    /\ holder' = {p} /\ Goto(p, "list")
    /\ UNCHANGED <<instanceTable, manager, runtime>>

\* reconcileMu is taken, and a manager that does not run refuses.
Lock(p) ==
    /\ procs[p].at = "reconcile" /\ holder = {}
    /\ IF manager.started /\ ~manager.stopped
       THEN holder' = {p} /\ Goto(p, "list")
       ELSE holder' = {} /\ Goto(p, "failed")
    /\ UNCHANGED <<instanceTable, manager, runtime>>

Desired == [i \in {j \in Instances : rows[j] # NoInstance /\ rows[j].enabled} |->
               rows[i].config]
Kept(desired) == {i \in DOMAIN desired :
                    pluginJobs[i] # NoPluginJob /\ pluginJobs[i].config = desired[i]}
Removed(desired) == {i \in Instances : pluginJobs[i] # NoPluginJob} \ Kept(desired)

\* Faulty variant: a job of the instance is enough, whatever its configuration.
SweepByName(p) ==
    LET desired == Desired
        removed == {i \in Instances : pluginJobs[i] # NoPluginJob} \ DOMAIN desired
    IN  /\ procs[p].at = "list" /\ holder = {p}
        /\ pluginJobs' = [i \in Instances |-> IF i \in removed THEN NoPluginJob ELSE pluginJobs[i]]
        /\ stopping' = {i \in removed : pluginJobs[i].state # "done"}
        /\ statuses' = [i \in Instances |->
                           IF i \in removed THEN "stopping" ELSE statuses[i]]
        /\ procs' = [procs EXCEPT ![p] =
              [at |-> "wait", target |-> removed,
               todo |-> [i \in {j \in DOMAIN desired : pluginJobs[j] = NoPluginJob} |->
                           desired[i]]]]
        /\ UNCHANGED <<instanceTable, manager, holder, orphans>>

\* ListEnabled and the removal of the jobs that are not wanted as they are.  A
\* job that failed keeps its fingerprint, so it is kept as well.
Sweep(p) ==
    LET desired == Desired
        removed == Removed(desired)
    IN  /\ procs[p].at = "list" /\ holder = {p}
        /\ pluginJobs' = [i \in Instances |-> IF i \in removed THEN NoPluginJob ELSE pluginJobs[i]]
        /\ stopping' = {i \in removed : pluginJobs[i].state # "done"}
        /\ statuses' = [i \in Instances |->
                           IF i \in removed THEN "stopping" ELSE statuses[i]]
        /\ procs' = [procs EXCEPT ![p] =
              [at |-> "wait", target |-> removed,
               todo |-> [i \in DOMAIN desired \ Kept(desired) |-> desired[i]]]]
        /\ UNCHANGED <<instanceTable, manager, holder, orphans>>

\* The query fails; it does when the context of the caller is cancelled.
ListEnabledFails(p) ==
    /\ procs[p].at = "list" /\ holder = {p}
    /\ holder' = {} /\ Goto(p, "failed")
    /\ UNCHANGED <<instanceTable, manager, runtime>>

\* Every cancelled job has ended.  A Restart goes on with the reconciliation.
waitForRuntime(p, next) ==
    /\ procs[p].at \in {"wait", "restartwait"} /\ holder = {p}
    /\ next = IF procs[p].at = "wait" THEN "start" ELSE "list"
    /\ stopping = {}
    /\ statuses' = [i \in Instances |-> IF i \in procs[p].target
                                        THEN "stopped" ELSE statuses[i]]
    /\ Goto(p, next)
    /\ UNCHANGED <<instanceTable, manager, holder, pluginJobs, stopping, orphans>>

\* waitForRuntime gives up with the context of the caller.  That of a request is
\* never cancelled; main and the ticker use one that the shutdown cancels.  The
\* job is no longer in the map: nobody waits for it any more.
WaitAbandoned(p) ==
    /\ procs[p].at = "wait" /\ holder = {p}
    /\ p \in {"main", "ticker"} /\ manager.ctxDone
    /\ orphans' = orphans \cup stopping
    /\ stopping' = {}
    /\ holder' = {} /\ Goto(p, "failed")
    /\ UNCHANGED <<instanceTable, manager, pluginJobs, statuses>>

\* startJob: the runtime is built and runs, or the job is stored as failed.
startJob(p, i) ==
    /\ procs[p].at = "start" /\ holder = {p} /\ i \in DOMAIN procs[p].todo
    /\ LET config == procs[p].todo[i]
       IN  \/ /\ config # 0
              /\ pluginJobs' = [pluginJobs EXCEPT ![i] = [config |-> config, state |->
                             IF manager.ctxDone THEN "cancelled" ELSE "live"]]
              /\ statuses' = [statuses EXCEPT ![i] = "running"]
           \/ /\ pluginJobs' = [pluginJobs EXCEPT ![i] = [config |-> config, state |-> "done"]]
              /\ statuses' = [statuses EXCEPT ![i] = "error"]
    /\ procs' = [procs EXCEPT ![p].todo =
                    [j \in DOMAIN procs[p].todo \ {i} |-> procs[p].todo[j]]]
    /\ UNCHANGED <<instanceTable, manager, holder, stopping, orphans>>

Reconciled(p) ==
    /\ procs[p].at = "start" /\ holder = {p} /\ DOMAIN procs[p].todo = {}
    /\ holder' = {} /\ Goto(p, "reconciled")
    /\ UNCHANGED <<instanceTable, manager, runtime>>

Proceed(p) ==
    \/ Lock(p) \/ Sweep(p) \/ WaitAbandoned(p) \/ Reconciled(p)
    \/ \E next \in {"start", "list"} : waitForRuntime(p, next)
    \/ \E i \in Instances : startJob(p, i)

ReconcileStep(p) == Proceed(p) \/ ListEnabledFails(p)

----------------------------------------------------------------------------
(* Jobs *)

\* The runtime returns or panics although it was not cancelled.
JobFails(i) ==
    /\ pluginJobs[i] # NoPluginJob /\ pluginJobs[i].state = "live" /\ ~manager.ctxDone
    /\ pluginJobs' = [pluginJobs EXCEPT ![i].state = "done"]
    /\ statuses' = [statuses EXCEPT ![i] = "error"]
    /\ UNCHANGED <<instanceTable, manager, holder, stopping, orphans, procs>>

\* A cancelled job ends, and writes the status of its instance.
JobStops(i) ==
    /\ \/ /\ i \in stopping /\ stopping' = stopping \ {i}
          /\ UNCHANGED <<pluginJobs, orphans>>
       \/ /\ i \in orphans /\ orphans' = orphans \ {i}
          /\ UNCHANGED <<pluginJobs, stopping>>
       \/ /\ pluginJobs[i] # NoPluginJob /\ pluginJobs[i].state = "cancelled"
          /\ pluginJobs' = [pluginJobs EXCEPT ![i].state = "done"]
          /\ UNCHANGED <<stopping, orphans>>
    /\ statuses' = [statuses EXCEPT ![i] = "stopped"]
    /\ UNCHANGED <<instanceTable, manager, holder, procs>>

----------------------------------------------------------------------------
(* Start, Stop and the ticker *)

StartManager ==
    /\ ~manager.started
    /\ manager' = [manager EXCEPT !.started = TRUE]
    /\ Goto("main", "reconcile")
    /\ UNCHANGED <<instanceTable, holder, runtime>>

\* A Start that cannot reconcile stops the manager again.
Started ==
    /\ procs["main"].at \in {"reconciled", "failed"}
    /\ Goto("main", IF procs["main"].at = "failed" THEN "stop" ELSE "serving")
    /\ UNCHANGED <<instanceTable, manager, holder, runtime>>

\* The signal cancels the context of the process, and with it manager.ctx and
\* the context of every job.
Shutdown ==
    /\ procs["main"].at = "serving"
    /\ manager' = [manager EXCEPT !.ctxDone = TRUE]
    /\ pluginJobs' = [i \in Instances |->
                  IF pluginJobs[i] # NoPluginJob /\ pluginJobs[i].state = "live"
                  THEN [pluginJobs[i] EXCEPT !.state = "cancelled"] ELSE pluginJobs[i]]
    /\ Goto("main", "stop")
    /\ UNCHANGED <<instanceTable, holder, stopping, orphans, statuses>>

StopManager ==
    /\ procs["main"].at = "stop" /\ holder = {}
    /\ manager' = [manager EXCEPT !.stopped = TRUE, !.ctxDone = TRUE]
    /\ pluginJobs' = [i \in Instances |->
                  IF pluginJobs[i] # NoPluginJob /\ pluginJobs[i].state = "live"
                  THEN [pluginJobs[i] EXCEPT !.state = "cancelled"] ELSE pluginJobs[i]]
    /\ statuses' = [i \in Instances |->
                      IF pluginJobs[i] # NoPluginJob THEN "stopping" ELSE statuses[i]]
    /\ Goto("main", "stopwait")
    /\ UNCHANGED <<instanceTable, holder, stopping, orphans>>

StopManagerReturns ==
    /\ procs["main"].at = "stopwait"
    /\ \/ /\ \A i \in Instances : pluginJobs[i] # NoPluginJob => pluginJobs[i].state = "done"
          /\ procs["ticker"].at = "ended"
          /\ statuses' = [i \in Instances |->
                            IF pluginJobs[i] # NoPluginJob THEN "stopped" ELSE statuses[i]]
          /\ pluginJobs' = [i \in Instances |-> NoPluginJob]
          /\ Goto("main", "stopped")
       \/ /\ Goto("main", "timedout")     \* the context of Stop has expired
          /\ UNCHANGED <<pluginJobs, statuses>>
    /\ UNCHANGED <<instanceTable, manager, holder, stopping, orphans>>

runReconciler ==
    /\ manager.started
    /\ \/ /\ procs["ticker"].at = "idle" /\ ~manager.ctxDone
          /\ Goto("ticker", "reconcile")
       \/ /\ procs["ticker"].at = "idle" /\ manager.ctxDone
          /\ Goto("ticker", "ended")
       \/ /\ procs["ticker"].at \in {"reconciled", "failed"}
          /\ procs' = [procs EXCEPT !["ticker"] = Resting]
    /\ UNCHANGED <<instanceTable, manager, holder, runtime>>

----------------------------------------------------------------------------
(* Requests *)

\* The server listens once Start has returned.
BeginCall(c) ==
    /\ procs[c].at = "idle" /\ calls < MaxCalls
    /\ procs["main"].at \in {"serving", "stop", "stopwait", "stopped"}
    /\ calls' = calls + 1

\* Create of a type with one instance: under createMu the rows are counted ...
CreateCheck(c) ==
    /\ BeginCall(c) /\ creating = {}
    /\ IF \E i \in Instances : rows[i] # NoInstance
       THEN UNCHANGED <<creating, procs>>     \* 409
       ELSE creating' = {c} /\ Goto(c, "insert")
    /\ UNCHANGED <<rows, manager, holder, runtime>>

\* ... and the row is inserted; the index on the name may refuse it.
CreateInsert(c) ==
    /\ procs[c].at = "insert"
    /\ creating' = {}
    /\ \/ /\ \E i \in Instances, enabled \in BOOLEAN :
                /\ rows[i] = NoInstance
                /\ rows' = [rows EXCEPT ![i] = [enabled |-> enabled, config |-> 1]]
          /\ Goto(c, "reconcile")
       \/ UNCHANGED rows /\ procs' = [procs EXCEPT ![c] = Resting]
    /\ UNCHANGED <<calls, manager, holder, runtime>>

\* Update, Enable and Disable: the row is read and checked ...  An instance whose
\* stored configuration is of another version is only enabled together with a new
\* configuration.
UpdateRead(c, i) ==
    /\ BeginCall(c) /\ rows[i] # NoInstance
    /\ \E enabled \in BOOLEAN, config \in {rows[i].config} \cup 1 .. MaxConfigs :
          /\ enabled /\ ~rows[i].enabled => config # 0
          /\ procs' = [procs EXCEPT ![c] = [at |-> "update", target |-> {i},
                todo |-> [enabled |-> enabled, config |-> config]]]
    /\ UNCHANGED <<rows, creating, manager, holder, runtime>>

\* ... and written whole, if it is still there.
UpdateWrite(c) ==
    /\ procs[c].at = "update"
    /\ \A i \in procs[c].target :
          IF rows[i] = NoInstance
          THEN UNCHANGED rows /\ procs' = [procs EXCEPT ![c] = Resting]
          ELSE /\ rows' = [rows EXCEPT ![i] = procs[c].todo]
               /\ procs' = [procs EXCEPT ![c] = [Resting EXCEPT !.at = "reconcile"]]
    /\ UNCHANGED <<calls, creating, manager, holder, runtime>>

DeleteInstance(c, i) ==
    /\ BeginCall(c) /\ rows[i] # NoInstance
    /\ rows' = [rows EXCEPT ![i] = NoInstance]
    /\ Goto(c, "reconcile")
    /\ UNCHANGED <<creating, manager, holder, runtime>>

\* Restart: the handler asks for an enabled row, then the manager removes the
\* job, waits for it, and reconciles.
RestartRequest(c, i) ==
    /\ BeginCall(c) /\ rows[i] # NoInstance /\ rows[i].enabled
    /\ procs' = [procs EXCEPT ![c] = [Resting EXCEPT !.at = "restart", !.target = {i}]]
    /\ UNCHANGED <<rows, creating, manager, holder, runtime>>

RestartInstance(c) ==
    LET target == {i \in procs[c].target : pluginJobs[i] # NoPluginJob}
    IN  /\ procs[c].at = "restart" /\ holder = {}
        /\ IF manager.started /\ ~manager.stopped
           THEN /\ holder' = {c}
                /\ pluginJobs' = [i \in Instances |->
                              IF i \in target THEN NoPluginJob ELSE pluginJobs[i]]
                /\ stopping' = {i \in target : pluginJobs[i].state # "done"}
                /\ statuses' = [i \in Instances |->
                              IF i \in target THEN "stopping" ELSE statuses[i]]
                /\ procs' = [procs EXCEPT ![c].at = "restartwait",
                                          ![c].target = target]
           ELSE /\ Goto(c, "failed")
                /\ UNCHANGED <<holder, pluginJobs, stopping, statuses>>
        /\ UNCHANGED <<instanceTable, manager, orphans>>

\* 200, or 503: the row was saved, but reconciliation is pending.
Reply(c) ==
    /\ procs[c].at \in {"reconciled", "failed"}
    /\ procs' = [procs EXCEPT ![c] = Resting]
    /\ UNCHANGED <<instanceTable, manager, holder, runtime>>

RequestStep(c) == CreateInsert(c) \/ UpdateWrite(c) \/ RestartInstance(c) \/ Reply(c)

PluginNext ==
    \/ StartManager \/ Started \/ Shutdown \/ StopManager \/ StopManagerReturns \/ runReconciler
    \/ \E p \in Procs : ReconcileStep(p)
    \/ \E i \in Instances : JobFails(i) \/ JobStops(i)
    \/ \E c \in Operators :
          \/ CreateCheck(c) \/ RequestStep(c)
          \/ \E i \in Instances : UpdateRead(c, i) \/ DeleteInstance(c, i) \/ RestartRequest(c, i)

\* Goroutines go on and cancelled runtimes return; a mutex is granted to who waits
\* for it, and a query that is tried again and again succeeds.
PluginFairness ==
    /\ WF_pluginVars(StartManager \/ Started) /\ WF_pluginVars(runReconciler)
    /\ WF_pluginVars(\E p \in Procs : Proceed(p))
    /\ WF_pluginVars(\E i \in Instances : JobStops(i))
    /\ SF_pluginVars(Lock("ticker")) /\ SF_pluginVars(Sweep("ticker"))

PluginSpec == PluginInit /\ [][PluginNext]_pluginVars /\ PluginFairness

----------------------------------------------------------------------------
(* Properties *)

Runs(i) == pluginJobs[i] # NoPluginJob /\ pluginJobs[i].state # "done"

\* Until the shutdown cancels their context, two runtimes of one instance never
\* run at once, and a type with one instance never has two rows.
OneRuntime ==
    /\ ~manager.ctxDone => \A i \in Instances :
                               Runs(i) => i \notin stopping \cup orphans
    /\ Cardinality({i \in Instances : rows[i] # NoInstance}) <= 1

\* While nobody reconciles, what the API shows as running runs, what it shows as
\* failed does not, and after Stop no job is ever in the map again.
ShownAsItIs ==
    /\ holder = {} /\ ~manager.ctxDone => \A i \in Instances :
          /\ statuses[i] = "running" <=> Runs(i)
          /\ statuses[i] = "error" => pluginJobs[i] # NoPluginJob
          /\ statuses[i] \notin {"starting", "stopping"}
    /\ procs["main"].at = "stopped" => \A i \in Instances : pluginJobs[i] = NoPluginJob

\* plugin/manager.go, plugin/service.go and plugin/http/handler.go: an instance
\* never has two jobs, and what it is shown as is what its job does.
PluginsManaged == PluginTypeOK /\ OneRuntime /\ ShownAsItIs

\* The manager has a job of the stored configuration for every enabled instance,
\* running or failed, and none for another.
Matches == \A i \in Instances :
    IF rows[i] # NoInstance /\ rows[i].enabled
    THEN pluginJobs[i] # NoPluginJob /\ pluginJobs[i].config = rows[i].config
    ELSE pluginJobs[i] = NoPluginJob

\* "Plugin configuration was saved, but runtime reconciliation is pending": the
\* ticker makes up for a reconciliation that failed.
Settling == calls = MaxCalls /\ manager.started
Settled  == Matches \/ manager.ctxDone
PluginsConverge == Settling ~> Settled
=============================================================================
