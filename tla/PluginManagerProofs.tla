------------------------- MODULE PluginManagerProofs -------------------------
(***************************************************************************)
(* The manager of plugin instances, for every set of instances and of      *)
(* requests: an instance never has two runtimes, and what the API shows of *)
(* an instance is what its job does.                                       *)
(***************************************************************************)
EXTENDS PluginManager, FiniteSetTheorems, TLAPS

Busy  == {"list", "wait", "start", "restartwait"}   \* who holds reconcileMu
Waits == {"wait", "restartwait"}                    \* ... and waits for jobs

\* What a process is doing is a record.
Shape ==
    /\ procs = [p \in Procs |-> procs[p]]
    /\ \A p \in Procs : DOMAIN procs[p] = {"at", "target", "todo"}

\* reconcileMu has one holder, and who reconciles is its holder.
Lease ==
    /\ holder = {} \/ \E p \in Procs : holder = {p}
    /\ \A p \in Procs : procs[p].at \in Busy <=> holder = {p}

\* What is started, and what is written, is of the types of the table.
Plans == \A p \in Procs :
    /\ procs[p].target \subseteq Instances
    /\ procs[p].at \in {"wait", "start"} =>
          /\ DOMAIN procs[p].todo \subseteq Instances
          /\ \A i \in DOMAIN procs[p].todo : procs[p].todo[i] \in 0 .. MaxConfigs
    /\ procs[p].at = "update" =>
          /\ procs[p].todo \in InstanceRow
          /\ \E i \in Instances : procs[p].target = {i}

\* Who is about to insert holds createMu, and the table is still empty.
Inserts ==
    /\ creating = {} \/ \E p \in Procs : creating = {p}
    /\ \A p \in Procs : procs[p].at = "insert" <=> creating = {p}
    /\ creating # {} => \A i \in Instances : rows[i] = NoInstance
    /\ \A i, j \in Instances : rows[i] # NoInstance /\ rows[j] # NoInstance => i = j

\* Jobs that are waited for are no longer in the map.
Waiting ==
    /\ stopping # {} => \E p \in Procs : /\ procs[p].at \in Waits
                                         /\ stopping \subseteq procs[p].target
    /\ \A p \in Procs : procs[p].at \in Waits =>
          \A i \in procs[p].target : pluginJobs[i] = NoPluginJob

\* Until the shutdown, the status of an instance follows from its job, except
\* that it is "stopping" while the job that was removed is waited for.
Shown == ~manager.ctxDone =>
    /\ orphans = {}
    /\ \A i \in Instances :
          /\ pluginJobs[i] # NoPluginJob =>
                \/ pluginJobs[i].state = "live" /\ statuses[i] = "running"
                \/ pluginJobs[i].state = "done" /\ statuses[i] = "error"
          /\ pluginJobs[i] = NoPluginJob =>
                \/ statuses[i] = "stopped"
                \/ /\ statuses[i] = "stopping"
                   /\ \E p \in Procs : procs[p].at \in Waits /\ i \in procs[p].target

\* A manager that has stopped, or has not started, is not reconciled.
Life ==
    /\ procs["main"].at \in {"stopwait", "stopped", "timedout"} => manager.stopped
    /\ manager.stopped => holder = {} /\ manager.ctxDone
    /\ ~manager.started => procs["main"].at = "idle" /\ holder = {}
    /\ procs["main"].at = "stopped" => \A i \in Instances : pluginJobs[i] = NoPluginJob

IInv == PluginTypeOK /\ Shape /\ Lease /\ Plans /\ Inserts /\ Waiting /\ Shown /\ Life

(* One process goes on, the others stay where they are.                     *)
LEMMA Moved ==
  ASSUME Shape, NEW p \in Procs, NEW r, DOMAIN r = {"at", "target", "todo"},
         procs' = [procs EXCEPT ![p] = r]
  PROVE  /\ Shape' /\ procs'[p] = r
         /\ \A q \in Procs : q # p => procs'[q] = procs[q]
BY DEF Shape

LEMMA Gone ==
  ASSUME Shape, NEW p \in Procs, NEW at, Goto(p, at)
  PROVE  /\ Shape' /\ procs'[p].at = at
         /\ procs'[p].target = procs[p].target /\ procs'[p].todo = procs[p].todo
         /\ \A q \in Procs : q # p => procs'[q] = procs[q]
<1> DEFINE r == [procs[p] EXCEPT !.at = at]
<1>1. /\ DOMAIN r = {"at", "target", "todo"} /\ r.at = at
      /\ r.target = procs[p].target /\ r.todo = procs[p].todo
  BY DEF Shape
<1>2. procs' = [procs EXCEPT ![p] = r]
  BY DEF Goto
<1> HIDE DEF r
<1> QED BY <1>1, <1>2, Moved

LEMMA OneHolder ==
  /\ Cardinality({}) <= 1
  /\ \A p \in Procs : {p} \subseteq Procs /\ Cardinality({p}) <= 1
<1>1. Cardinality({}) = 0
  BY FS_EmptySet
<1>2. \A p \in Procs : Cardinality({p}) = 1
  BY FS_Singleton
<1> QED BY <1>1, <1>2

LEMMA Names == "main" \in Procs /\ "ticker" \in Procs
BY DEF Procs

(* A process that neither holds nor takes a lock goes on.                  *)
LEMMA Quiet ==
  ASSUME IInv, NEW p \in Procs, Shape', Life',
         \A q \in Procs : q # p => procs'[q] = procs[q],
         procs[p].at \notin Busy \cup {"insert"},
         procs'[p].at \notin Busy \cup {"insert", "update"},
         procs'[p].target \subseteq Instances,
         manager' \in [started : BOOLEAN, stopped : BOOLEAN, ctxDone : BOOLEAN],
         manager'.ctxDone = manager.ctxDone,
         UNCHANGED <<rows, creating, holder, runtime>>
  PROVE  IInv'
<1> USE DEF IInv, runtime
<1>1. PluginTypeOK'
  BY DEF PluginTypeOK
<1>2. Lease'
  BY DEF Lease
<1>3. Plans'
  BY DEF Plans, Busy
<1>4. Inserts'
  BY DEF Inserts
<1>5. Waiting'
  BY DEF Waiting, Waits, Busy
<1>6. Shown'
  BY DEF Shown, Waits, Busy
<1> QED BY <1>1, <1>2, <1>3, <1>4, <1>5, <1>6

LEMMA LockStep ==
  ASSUME IInv, NEW p \in Procs, Lock(p) PROVE IInv'
<1> USE DEF Lock, instanceTable, runtime
<1>1. CASE manager.started /\ ~manager.stopped
  <2>1. /\ Shape' /\ procs'[p].at = "list" /\ procs'[p].target = procs[p].target
        /\ \A q \in Procs : q # p => procs'[q] = procs[q]
    BY <1>1, Gone DEF IInv
  <2>2. /\ holder = {} /\ holder' = {p} /\ procs[p].at = "reconcile"
        /\ \A q \in Procs : procs[q].at \notin Busy
    BY <1>1 DEF IInv, Lease
  <2>3. Lease'
    BY <2>1, <2>2 DEF Lease, Busy
  <2>4. PluginTypeOK'
    BY <2>2, OneHolder DEF IInv, PluginTypeOK
  <2>5. Plans'
    BY <2>1 DEF IInv, Plans
  <2>6. Inserts'
    BY <2>1, <2>2 DEF IInv, Inserts
  <2>7. Waiting'
    BY <2>1, <2>2 DEF IInv, Waiting, Waits, Busy
  <2>8. Shown'
    BY <2>1, <2>2 DEF IInv, Shown, Waits, Busy
  <2>9. Life'
    BY <1>1, <2>1, <2>2, Names DEF IInv, Life
  <2> QED BY <2>1, <2>3, <2>4, <2>5, <2>6, <2>7, <2>8, <2>9 DEF IInv
<1>2. CASE ~(manager.started /\ ~manager.stopped)
  <2>1. /\ Shape' /\ procs'[p].at = "failed" /\ procs'[p].target = procs[p].target
        /\ \A q \in Procs : q # p => procs'[q] = procs[q]
    BY <1>2, Gone DEF IInv
  <2>2. Life'
    BY <1>2, <2>1, Names DEF IInv, Life
  <2> QED BY <1>2, <2>1, <2>2, Quiet DEF IInv, Plans, Busy, PluginTypeOK
<1> QED BY <1>1, <1>2

LEMMA SweepStep ==
  ASSUME IInv, NEW p \in Procs, Sweep(p) PROVE IInv'
<1> DEFINE desired == Desired
           removed == Removed(desired)
           todo == [i \in DOMAIN desired \ Kept(desired) |-> desired[i]]
           r == [at |-> "wait", target |-> removed, todo |-> todo]
<1>1. /\ procs[p].at = "list" /\ holder = {p} /\ procs' = [procs EXCEPT ![p] = r]
      /\ pluginJobs' = [i \in Instances |-> IF i \in removed THEN NoPluginJob
                                            ELSE pluginJobs[i]]
      /\ stopping' = {i \in removed : pluginJobs[i].state # "done"}
      /\ statuses' = [i \in Instances |-> IF i \in removed THEN "stopping"
                                          ELSE statuses[i]]
      /\ UNCHANGED <<instanceTable, manager, holder, orphans>>
  BY DEF Sweep
<1>2. /\ removed \subseteq Instances /\ \A i \in removed : pluginJobs[i] # NoPluginJob
      /\ DOMAIN todo \subseteq Instances
      /\ \A i \in DOMAIN todo : todo[i] \in 0 .. MaxConfigs
  BY DEF Removed, Desired, IInv, PluginTypeOK, InstanceRow
<1>3. Shape' /\ procs'[p] = r /\ \A q \in Procs : q # p => procs'[q] = procs[q]
  BY <1>1, Moved DEF IInv
<1>4. r.at = "wait" /\ r.target = removed /\ r.todo = todo
  OBVIOUS
<1> HIDE DEF removed, todo, r
<1>5. \A q \in Procs : procs[q].at \notin Waits
  BY <1>1 DEF IInv, Lease, Busy, Waits
<1> USE DEF instanceTable
<1>6. Lease'
  BY <1>1, <1>3, <1>4 DEF IInv, Lease, Busy
<1>7. PluginTypeOK'
  BY <1>1, <1>2 DEF IInv, PluginTypeOK
<1>8. Plans'
  BY <1>2, <1>3, <1>4 DEF IInv, Plans
<1>9. Inserts'
  BY <1>1, <1>3, <1>4 DEF IInv, Inserts
<1>10. Waiting'
  BY <1>1, <1>2, <1>3, <1>4, <1>5 DEF Waiting, Waits
<1>11. Shown'
  BY <1>1, <1>2, <1>3, <1>4, <1>5 DEF IInv, Shown, Waits
<1>12. Life'
  BY <1>1, <1>3, <1>4 DEF IInv, Life
<1> QED BY <1>3, <1>6, <1>7, <1>8, <1>9, <1>10, <1>11, <1>12 DEF IInv

(* The holder has nothing to wait for and gives reconcileMu back.           *)
LEMMA Released ==
  ASSUME IInv, NEW p \in Procs, NEW at \in {"reconciled", "failed"}, Goto(p, at),
         procs[p].at \in {"list", "start"}, holder = {p}, holder' = {},
         UNCHANGED <<instanceTable, manager, runtime>>
  PROVE  IInv'
<1>1. /\ Shape' /\ procs'[p].at = at /\ procs'[p].target = procs[p].target
      /\ \A q \in Procs : q # p => procs'[q] = procs[q]
  BY Gone DEF IInv
<1>2. \A q \in Procs : procs[q].at \notin Waits /\ procs'[q].at \notin Waits
  BY <1>1 DEF IInv, Lease, Busy, Waits
<1> USE DEF instanceTable, runtime
<1>3. Lease'
  BY <1>1 DEF IInv, Lease, Busy
<1>4. PluginTypeOK'
  BY OneHolder DEF IInv, PluginTypeOK
<1>5. Plans'
  BY <1>1 DEF IInv, Plans
<1>6. Inserts'
  BY <1>1 DEF IInv, Inserts
<1>7. Waiting'
  BY <1>2 DEF IInv, Waiting
<1>8. Shown'
  BY <1>2 DEF IInv, Shown
<1>9. Life'
  BY <1>1, Names DEF IInv, Life
<1> QED BY <1>1, <1>3, <1>4, <1>5, <1>6, <1>7, <1>8, <1>9 DEF IInv

LEMMA WaitStep ==
  ASSUME IInv, NEW p \in Procs, NEW next, waitForRuntime(p, next) PROVE IInv'
<1>1. /\ procs[p].at \in Waits /\ holder = {p} /\ stopping = {}
      /\ next = IF procs[p].at = "wait" THEN "start" ELSE "list"
      /\ statuses' = [i \in Instances |-> IF i \in procs[p].target
                                          THEN "stopped" ELSE statuses[i]]
      /\ UNCHANGED <<instanceTable, manager, holder, pluginJobs, stopping, orphans>>
  BY DEF waitForRuntime, Waits
<1>2. /\ Shape' /\ procs'[p].at = next /\ procs'[p].target = procs[p].target
      /\ procs'[p].todo = procs[p].todo
      /\ \A q \in Procs : q # p => procs'[q] = procs[q]
  BY Gone DEF IInv, waitForRuntime
<1>3. /\ \A q \in Procs : procs[q].at \in Waits => q = p
      /\ \A q \in Procs : procs'[q].at \notin Waits
      /\ \A i \in procs[p].target : pluginJobs[i] = NoPluginJob
  BY <1>1, <1>2 DEF IInv, Lease, Waiting, Busy, Waits
<1> USE DEF instanceTable, runtime
<1>4. Lease'
  BY <1>1, <1>2 DEF IInv, Lease, Busy, Waits
<1>5. PluginTypeOK'
  BY <1>1 DEF IInv, PluginTypeOK
<1>6. Plans'
  BY <1>1, <1>2 DEF IInv, Plans, Waits
<1>7. Inserts'
  BY <1>1, <1>2 DEF IInv, Inserts, Waits
<1>8. Waiting'
  BY <1>1, <1>3 DEF IInv, Waiting
<1>9. Shown'
  BY <1>1, <1>3 DEF IInv, Shown
<1>10. Life'
  BY <1>1, <1>2, Names DEF IInv, Life
<1> QED BY <1>2, <1>4, <1>5, <1>6, <1>7, <1>8, <1>9, <1>10 DEF IInv

LEMMA WaitAbandonedStep ==
  ASSUME IInv, NEW p \in Procs, WaitAbandoned(p) PROVE IInv'
<1>1. /\ procs[p].at = "wait" /\ holder = {p} /\ manager.ctxDone
      /\ orphans' = orphans \cup stopping /\ stopping' = {} /\ holder' = {}
      /\ UNCHANGED <<instanceTable, manager, pluginJobs, statuses>>
  BY DEF WaitAbandoned
<1>2. /\ Shape' /\ procs'[p].at = "failed" /\ procs'[p].target = procs[p].target
      /\ \A q \in Procs : q # p => procs'[q] = procs[q]
  BY Gone DEF IInv, WaitAbandoned
<1>3. \A q \in Procs : procs'[q].at \notin Waits
  BY <1>1, <1>2 DEF IInv, Lease, Busy, Waits
<1> USE DEF instanceTable, runtime
<1>4. Lease'
  BY <1>1, <1>2 DEF IInv, Lease, Busy
<1>5. PluginTypeOK'
  BY <1>1, OneHolder DEF IInv, PluginTypeOK
<1>6. Plans'
  BY <1>2 DEF IInv, Plans
<1>7. Inserts'
  BY <1>1, <1>2 DEF IInv, Inserts
<1>8. Waiting'
  BY <1>1, <1>3 DEF Waiting
<1>9. Shown'
  BY <1>1 DEF Shown
<1>10. Life'
  BY <1>1, <1>2, Names DEF IInv, Life
<1> QED BY <1>2, <1>4, <1>5, <1>6, <1>7, <1>8, <1>9, <1>10 DEF IInv

LEMMA StartJobStep ==
  ASSUME IInv, NEW p \in Procs, NEW i \in Instances, startJob(p, i) PROVE IInv'
<1> DEFINE todo == [j \in DOMAIN procs[p].todo \ {i} |-> procs[p].todo[j]]
           r == [procs[p] EXCEPT !.todo = todo]
<1>1. /\ procs[p].at = "start" /\ holder = {p} /\ i \in DOMAIN procs[p].todo
      /\ procs' = [procs EXCEPT ![p] = r]
      /\ UNCHANGED <<instanceTable, manager, holder, stopping, orphans>>
  BY DEF startJob
<1>2. \E job : /\ pluginJobs' = [pluginJobs EXCEPT ![i] = job]
               /\ job \in Job
               /\ \/ /\ statuses' = [statuses EXCEPT ![i] = "running"]
                     /\ manager.ctxDone \/ job.state = "live"
                  \/ /\ statuses' = [statuses EXCEPT ![i] = "error"]
                     /\ job.state = "done"
  <2> DEFINE config == procs[p].todo[i]
             started == [config |-> config, state |->
                            IF manager.ctxDone THEN "cancelled" ELSE "live"]
             refused == [config |-> config, state |-> "done"]
  <2>1. config \in 0 .. MaxConfigs
    BY <1>1 DEF IInv, Plans
  <2>2. /\ started \in Job /\ refused \in Job /\ refused.state = "done"
        /\ manager.ctxDone \/ started.state = "live"
    BY <2>1 DEF Job
  <2>3. \/ /\ pluginJobs' = [pluginJobs EXCEPT ![i] = started]
           /\ statuses' = [statuses EXCEPT ![i] = "running"]
        \/ /\ pluginJobs' = [pluginJobs EXCEPT ![i] = refused]
           /\ statuses' = [statuses EXCEPT ![i] = "error"]
    BY DEF startJob
  <2> HIDE DEF started, refused
  <2> QED BY <2>2, <2>3
<1>3. PICK job : <1>2!(job)
  BY <1>2
<1>4. job # NoPluginJob
  BY <1>3, PluginAssumption DEF Job
<1>5. /\ DOMAIN r = {"at", "target", "todo"} /\ r.at = "start"
      /\ r.target = procs[p].target /\ r.todo = todo
  BY <1>1 DEF IInv, Shape
<1> HIDE DEF r
<1>6. Shape' /\ procs'[p] = r /\ \A q \in Procs : q # p => procs'[q] = procs[q]
  BY <1>1, <1>5, Moved DEF IInv
<1>7. \A q \in Procs : procs[q].at \notin Waits /\ procs'[q].at \notin Waits
  BY <1>1, <1>5, <1>6 DEF IInv, Lease, Busy, Waits
<1>8. pluginJobs \in [Instances -> Job \cup {NoPluginJob}] /\ DOMAIN statuses = Instances
  BY DEF IInv, PluginTypeOK
<1> USE DEF instanceTable
<1>9. Lease'
  BY <1>1, <1>5, <1>6 DEF IInv, Lease
<1>10. PluginTypeOK'
  BY <1>1, <1>3 DEF IInv, PluginTypeOK
<1>11. Plans'
  BY <1>1, <1>5, <1>6 DEF IInv, Plans
<1>12. Inserts'
  BY <1>1, <1>5, <1>6 DEF IInv, Inserts
<1>13. Waiting'
  BY <1>1, <1>7 DEF IInv, Waiting
<1>14. Shown'
  BY <1>1, <1>3, <1>4, <1>7, <1>8 DEF IInv, Shown
<1>15. Life'
  BY <1>1, <1>3, <1>5, <1>6, Names DEF IInv, Life
<1> QED BY <1>6, <1>9, <1>10, <1>11, <1>12, <1>13, <1>14, <1>15 DEF IInv

LEMMA ReconcileStepKeeps ==
  ASSUME IInv, NEW p \in Procs, ReconcileStep(p) PROVE IInv'
<1>1. CASE Lock(p)
  BY <1>1, LockStep
<1>2. CASE Sweep(p)
  BY <1>2, SweepStep
<1>3. CASE WaitAbandoned(p)
  BY <1>3, WaitAbandonedStep
<1>4. CASE Reconciled(p)
  BY <1>4, Released DEF Reconciled
<1>5. ASSUME NEW next \in {"start", "list"}, waitForRuntime(p, next) PROVE IInv'
  BY <1>5, WaitStep
<1>6. ASSUME NEW i \in Instances, startJob(p, i) PROVE IInv'
  BY <1>6, StartJobStep
<1>7. CASE ListEnabledFails(p)
  BY <1>7, Released DEF ListEnabledFails
<1> QED BY <1>1, <1>2, <1>3, <1>4, <1>5, <1>6, <1>7 DEF ReconcileStep, Proceed

LEMMA JobFailsStep ==
  ASSUME IInv, NEW i \in Instances, JobFails(i) PROVE IInv'
<1> DEFINE job == [pluginJobs[i] EXCEPT !.state = "done"]
<1>1. /\ pluginJobs[i] # NoPluginJob /\ ~manager.ctxDone
      /\ pluginJobs' = [pluginJobs EXCEPT ![i] = job]
      /\ statuses' = [statuses EXCEPT ![i] = "error"]
      /\ UNCHANGED <<instanceTable, manager, holder, stopping, orphans, procs>>
  BY DEF JobFails
<1>2. pluginJobs \in [Instances -> Job \cup {NoPluginJob}] /\ DOMAIN statuses = Instances
  BY DEF IInv, PluginTypeOK
<1>3. job \in Job /\ job.state = "done" /\ job # NoPluginJob
  BY <1>1, <1>2, PluginAssumption DEF Job
<1> HIDE DEF job
<1> USE DEF instanceTable
<1>4. PluginTypeOK'
  BY <1>1, <1>2, <1>3 DEF IInv, PluginTypeOK
<1>5. Shown'
  BY <1>1, <1>2, <1>3 DEF IInv, Shown
<1>6. Waiting' /\ Life'
  BY <1>1, <1>2, Names DEF IInv, Waiting, Life
<1> QED BY <1>1, <1>4, <1>5, <1>6 DEF IInv, Shape, Lease, Plans, Inserts

LEMMA JobStopsStep ==
  ASSUME IInv, NEW i \in Instances, JobStops(i) PROVE IInv'
<1> DEFINE job == [pluginJobs[i] EXCEPT !.state = "done"]
<1>1. /\ statuses' = [statuses EXCEPT ![i] = "stopped"]
      /\ UNCHANGED <<instanceTable, manager, holder, procs>>
      /\ stopping' \subseteq stopping /\ orphans' \subseteq orphans
  BY DEF JobStops
<1>2. pluginJobs \in [Instances -> Job \cup {NoPluginJob}] /\ DOMAIN statuses = Instances
  BY DEF IInv, PluginTypeOK
<1>3. \/ UNCHANGED pluginJobs /\ i \in stopping \cup orphans
      \/ /\ pluginJobs[i] # NoPluginJob /\ pluginJobs[i].state = "cancelled"
         /\ pluginJobs' = [pluginJobs EXCEPT ![i] = job]
  BY DEF JobStops
<1>4. pluginJobs[i] # NoPluginJob => job \in Job
  BY <1>2 DEF Job
<1> HIDE DEF job
<1> USE DEF instanceTable
<1>5. PluginTypeOK'
  BY <1>1, <1>2, <1>3, <1>4 DEF IInv, PluginTypeOK
<1>6. ASSUME ~manager.ctxDone
      PROVE  UNCHANGED pluginJobs /\ pluginJobs[i] = NoPluginJob
  BY <1>3, <1>6 DEF IInv, Shown, Waiting
<1>7. Shown'
  BY <1>1, <1>2, <1>6 DEF IInv, Shown
<1>8. \A j \in Instances : pluginJobs[j] = NoPluginJob => pluginJobs'[j] = NoPluginJob
  BY <1>2, <1>3
<1>9. Waiting' /\ Life'
  BY <1>1, <1>8 DEF IInv, Waiting, Life, Plans
<1> QED BY <1>1, <1>5, <1>7, <1>9 DEF IInv, Shape, Lease, Plans, Inserts

LEMMA StartSteps ==
  ASSUME IInv, StartManager \/ Started PROVE IInv'
<1>1. /\ UNCHANGED <<rows, creating, holder, runtime>>
      /\ manager' \in [started : BOOLEAN, stopped : BOOLEAN, ctxDone : BOOLEAN]
      /\ manager'.ctxDone = manager.ctxDone /\ manager'.stopped = manager.stopped
      /\ manager'.started
      /\ procs["main"].at \in {"idle", "reconciled", "failed"}
      /\ \E to \in {"reconcile", "stop", "serving"} : Goto("main", to)
  BY DEF StartManager, Started, instanceTable, IInv, Life, PluginTypeOK
<1>2. PICK to \in {"reconcile", "stop", "serving"} : Goto("main", to)
  BY <1>1
<1>3. /\ Shape' /\ procs'["main"].at = to /\ procs'["main"].target = procs["main"].target
      /\ \A q \in Procs : q # "main" => procs'[q] = procs[q]
  BY <1>2, Gone, Names DEF IInv
<1>4. Life'
  BY <1>1, <1>3 DEF IInv, Life
<1> QED BY <1>1, <1>3, <1>4, Quiet, Names DEF IInv, Plans, Busy

LEMMA TickerSteps ==
  ASSUME IInv, runReconciler PROVE IInv'
<1>1. /\ UNCHANGED <<rows, creating, holder, runtime, manager>>
      /\ procs["ticker"].at \in {"idle", "reconciled", "failed"}
      /\ \/ \E to \in {"reconcile", "ended"} : Goto("ticker", to)
         \/ procs' = [procs EXCEPT !["ticker"] = Resting]
  BY DEF runReconciler, instanceTable
<1>2. /\ Shape' /\ procs'["ticker"].at \in {"reconcile", "ended", "idle"}
      /\ procs'["ticker"].target \subseteq Instances
      /\ \A q \in Procs : q # "ticker" => procs'[q] = procs[q]
  <2>1. CASE procs' = [procs EXCEPT !["ticker"] = Resting]
    <3>1. /\ DOMAIN Resting = {"at", "target", "todo"} /\ Resting.at = "idle"
          /\ Resting.target = {}
      BY DEF Resting
    <3> QED BY <2>1, <3>1, Moved, Names DEF IInv
  <2>2. ASSUME NEW to \in {"reconcile", "ended"}, Goto("ticker", to)
        PROVE  <1>2
    BY <2>2, Gone, Names DEF IInv, Plans
  <2> QED BY <1>1, <2>1, <2>2
<1>3. Life'
  BY <1>1, <1>2, Names DEF IInv, Life, runtime
<1> QED BY <1>1, <1>2, <1>3, Quiet, Names DEF IInv, Busy, PluginTypeOK

(* The end of the process cancels every job that runs.                     *)
LEMMA Cancelled ==
  ASSUME IInv,
         pluginJobs' = [i \in Instances |->
            IF pluginJobs[i] # NoPluginJob /\ pluginJobs[i].state = "live"
            THEN [pluginJobs[i] EXCEPT !.state = "cancelled"] ELSE pluginJobs[i]]
  PROVE  /\ pluginJobs' \in [Instances -> Job \cup {NoPluginJob}]
         /\ \A i \in Instances : pluginJobs[i] = NoPluginJob => pluginJobs'[i] = NoPluginJob
<1>1. \A i \in Instances : pluginJobs[i] # NoPluginJob =>
         [pluginJobs[i] EXCEPT !.state = "cancelled"] \in Job
  BY DEF IInv, PluginTypeOK, Job
<1>2. \A i \in Instances : pluginJobs[i] \in Job \cup {NoPluginJob}
  BY DEF IInv, PluginTypeOK
<1> QED BY <1>1, <1>2

LEMMA ShutdownSteps ==
  ASSUME IInv, Shutdown \/ StopManager PROVE IInv'
<1>1. /\ pluginJobs' \in [Instances -> Job \cup {NoPluginJob}]
      /\ \A i \in Instances : pluginJobs[i] = NoPluginJob => pluginJobs'[i] = NoPluginJob
  BY Cancelled DEF Shutdown, StopManager
<1>2. /\ UNCHANGED <<instanceTable, holder, stopping, orphans>>
      /\ manager' \in [started : BOOLEAN, stopped : BOOLEAN, ctxDone : BOOLEAN]
      /\ manager'.ctxDone /\ manager'.started = manager.started
      /\ \/ UNCHANGED manager.stopped /\ Goto("main", "stop")
         \/ holder = {} /\ manager'.stopped /\ Goto("main", "stopwait")
      /\ statuses' \in [Instances -> {"stopped", "starting", "running",
                                      "stopping", "error"}]
      /\ procs["main"].at \in {"serving", "stop"}
  <2>1. CASE Shutdown
    BY <2>1 DEF Shutdown, runtime, IInv, PluginTypeOK
  <2>2. CASE StopManager
    BY <2>2 DEF StopManager, IInv, PluginTypeOK
  <2> QED BY <2>1, <2>2
<1>3. /\ Shape' /\ procs'["main"].at \in {"stop", "stopwait"}
      /\ procs'["main"].at = "stopwait" => manager'.stopped
      /\ procs'["main"].target = procs["main"].target
      /\ \A q \in Procs : q # "main" => procs'[q] = procs[q]
  BY <1>2, Gone, Names DEF IInv
<1>4. Shown'
  BY <1>2 DEF Shown
<1> USE DEF instanceTable
<1>5. Lease' /\ Plans' /\ Inserts'
  BY <1>2, <1>3, Names DEF IInv, Lease, Plans, Inserts, Busy
<1>6. PluginTypeOK'
  BY <1>1, <1>2 DEF IInv, PluginTypeOK
<1>7. Waiting'
  BY <1>1, <1>2, <1>3 DEF IInv, Waiting, Waits, Plans
<1>8. Life'
  BY <1>2, <1>3 DEF IInv, Life
<1> QED BY <1>3, <1>4, <1>5, <1>6, <1>7, <1>8 DEF IInv

LEMMA StopReturnsStep ==
  ASSUME IInv, StopManagerReturns PROVE IInv'
<1>1. /\ UNCHANGED <<instanceTable, manager, holder, stopping, orphans>>
      /\ procs["main"].at = "stopwait"
      /\ \/ /\ pluginJobs' = [i \in Instances |-> NoPluginJob]
            /\ statuses' = [i \in Instances |-> IF pluginJobs[i] # NoPluginJob
                                                THEN "stopped" ELSE statuses[i]]
            /\ Goto("main", "stopped")
         \/ UNCHANGED <<pluginJobs, statuses>> /\ Goto("main", "timedout")
  BY DEF StopManagerReturns
<1>2. /\ Shape' /\ procs'["main"].at \in {"stopped", "timedout"}
      /\ procs'["main"].at = "stopped" =>
            \A i \in Instances : pluginJobs'[i] = NoPluginJob
      /\ procs'["main"].target = procs["main"].target
      /\ \A q \in Procs : q # "main" => procs'[q] = procs[q]
  BY <1>1, Gone, Names DEF IInv
<1>3. manager.stopped /\ manager.ctxDone
  BY <1>1 DEF IInv, Life
<1>4. \A i \in Instances : pluginJobs[i] = NoPluginJob => pluginJobs'[i] = NoPluginJob
  BY <1>1
<1> USE DEF instanceTable
<1>5. Lease' /\ Plans' /\ Inserts'
  BY <1>1, <1>2, Names DEF IInv, Lease, Plans, Inserts, Busy
<1>6. PluginTypeOK'
  BY <1>1 DEF IInv, PluginTypeOK
<1>7. Waiting'
  BY <1>1, <1>2, <1>4 DEF IInv, Waiting, Waits, Plans
<1>8. Shown' /\ Life'
  BY <1>1, <1>2, <1>3 DEF IInv, Life, Shown
<1> QED BY <1>2, <1>5, <1>6, <1>7, <1>8 DEF IInv

(* Requests *)

LEMMA CreateCheckStep ==
  ASSUME IInv, NEW c \in Operators, CreateCheck(c) PROVE IInv'
<1>1. procs[c].at = "idle" /\ creating = {} /\ UNCHANGED <<rows, manager, holder, runtime>>
  BY DEF CreateCheck, BeginCall
<1> c \in Procs
  BY DEF Procs
<1>2. CASE \E i \in Instances : rows[i] # NoInstance
  BY <1>1, <1>2 DEF CreateCheck, IInv, PluginTypeOK, Shape, Lease, Plans, Inserts,
                    Waiting, Shown, Life, runtime
<1>3. CASE ~ \E i \in Instances : rows[i] # NoInstance
  <2>1. creating' = {c} /\ Goto(c, "insert")
    BY <1>3 DEF CreateCheck
  <2>2. /\ Shape' /\ procs'[c].at = "insert" /\ procs'[c].target = procs[c].target
        /\ \A q \in Procs : q # c => procs'[q] = procs[q]
    BY <2>1, Gone DEF IInv
  <2> USE DEF runtime
  <2>3. PluginTypeOK'
    BY <1>1 DEF IInv, PluginTypeOK
  <2>4. Lease' /\ Plans'
    BY <1>1, <2>2 DEF IInv, Lease, Plans, Busy
  <2>5. Inserts'
    BY <1>1, <1>3, <2>1, <2>2 DEF IInv, Inserts
  <2>6. Waiting' /\ Shown'
    BY <1>1, <2>2 DEF IInv, Waiting, Shown, Waits
  <2>7. Life'
    BY <1>1, <2>2, Names, PluginAssumption DEF IInv, Life
  <2> QED BY <2>2, <2>3, <2>4, <2>5, <2>6, <2>7 DEF IInv
<1> QED BY <1>2, <1>3

(* A request changes at most one row.                                      *)
LEMMA Wrote ==
  ASSUME IInv, NEW c \in Operators, Shape',
         \A q \in Procs : q # c => procs'[q] = procs[q],
         procs[c].at \notin Busy, procs'[c].at \in {"idle", "reconcile"},
         procs'[c].target \subseteq Instances,
         rows' \in [Instances -> InstanceRow \cup {NoInstance}],
         Inserts', UNCHANGED <<manager, holder, runtime>>
  PROVE  IInv'
<1> c \in Procs
  BY DEF Procs
<1> USE DEF runtime
<1>1. PluginTypeOK'
  BY DEF IInv, PluginTypeOK
<1>2. Lease' /\ Plans'
  BY DEF IInv, Lease, Plans, Busy
<1>3. Waiting' /\ Shown'
  BY DEF IInv, Waiting, Shown, Waits, Busy
<1>4. Life'
  BY Names, PluginAssumption DEF IInv, Life
<1> QED BY <1>1, <1>2, <1>3, <1>4 DEF IInv

LEMMA Rests ==
  /\ DOMAIN Resting = {"at", "target", "todo"} /\ Resting.at = "idle"
  /\ Resting.target = {} /\ Resting.todo = << >>
BY DEF Resting

LEMMA CreateInsertStep ==
  ASSUME IInv, NEW c \in Operators, CreateInsert(c) PROVE IInv'
<1> c \in Procs
  BY DEF Procs
<1>1. /\ procs[c].at = "insert" /\ creating = {c} /\ creating' = {}
      /\ UNCHANGED <<manager, holder, runtime>>
      /\ \A i \in Instances : rows[i] = NoInstance
      /\ \A q \in Procs : procs[q].at = "insert" => q = c
  BY DEF CreateInsert, IInv, Inserts
<1>2. \/ /\ \E i \in Instances, enabled \in BOOLEAN :
               rows' = [rows EXCEPT ![i] = [enabled |-> enabled, config |-> 1]]
         /\ Goto(c, "reconcile")
      \/ UNCHANGED rows /\ procs' = [procs EXCEPT ![c] = Resting]
  BY DEF CreateInsert
<1>3. /\ Shape' /\ procs'[c].at \in {"idle", "reconcile"}
      /\ procs'[c].target \subseteq Instances
      /\ \A q \in Procs : q # c => procs'[q] = procs[q]
  <2>1. CASE Goto(c, "reconcile")
    BY <2>1, Gone DEF IInv, Plans
  <2>2. CASE procs' = [procs EXCEPT ![c] = Resting]
    BY <2>2, Moved, Rests DEF IInv
  <2> QED BY <1>2, <2>1, <2>2
<1>4. /\ rows' \in [Instances -> InstanceRow \cup {NoInstance}]
      /\ \A i, j \in Instances : rows'[i] # NoInstance /\ rows'[j] # NoInstance => i = j
  <2>1. rows \in [Instances -> InstanceRow \cup {NoInstance}]
    BY DEF IInv, PluginTypeOK
  <2>2. \A enabled \in BOOLEAN : [enabled |-> enabled, config |-> 1] \in InstanceRow
    BY PluginAssumption DEF InstanceRow
  <2> QED BY <1>1, <1>2, <2>1, <2>2
<1>5. Inserts'
  BY <1>1, <1>3, <1>4 DEF Inserts
<1> QED BY <1>1, <1>3, <1>4, <1>5, Wrote DEF Busy

LEMMA UpdateReadStep ==
  ASSUME IInv, NEW c \in Operators, NEW i \in Instances, UpdateRead(c, i) PROVE IInv'
<1> c \in Procs
  BY DEF Procs
<1>1. /\ procs[c].at = "idle" /\ rows[i] \in InstanceRow
      /\ UNCHANGED <<rows, creating, manager, holder, runtime>>
  BY DEF UpdateRead, BeginCall, IInv, PluginTypeOK
<1>2. PICK enabled \in BOOLEAN, config \in {rows[i].config} \cup 1 .. MaxConfigs :
         procs' = [procs EXCEPT ![c] = [at |-> "update", target |-> {i},
                                todo |-> [enabled |-> enabled, config |-> config]]]
  BY DEF UpdateRead
<1> DEFINE new == [enabled |-> enabled, config |-> config]
           r == [at |-> "update", target |-> {i}, todo |-> new]
<1>3. new \in InstanceRow
  BY <1>1, <1>2, PluginAssumption DEF InstanceRow
<1> HIDE DEF new
<1>4. /\ DOMAIN r = {"at", "target", "todo"} /\ r.at = "update"
      /\ r.target = {i} /\ r.todo = new /\ procs' = [procs EXCEPT ![c] = r]
  BY <1>2 DEF new
<1> HIDE DEF r
<1>5. Shape' /\ procs'[c] = r /\ \A q \in Procs : q # c => procs'[q] = procs[q]
  BY <1>4, Moved DEF IInv
<1> USE DEF runtime
<1>6. PluginTypeOK'
  BY <1>1 DEF IInv, PluginTypeOK
<1>7. Lease' /\ Inserts'
  BY <1>1, <1>4, <1>5 DEF IInv, Lease, Inserts, Busy
<1>8. Plans'
  BY <1>3, <1>4, <1>5 DEF IInv, Plans
<1>9. Waiting' /\ Shown'
  BY <1>1, <1>4, <1>5 DEF IInv, Waiting, Shown, Waits
<1>10. Life'
  BY <1>1, <1>5, Names, PluginAssumption DEF IInv, Life
<1> QED BY <1>5, <1>6, <1>7, <1>8, <1>9, <1>10 DEF IInv

LEMMA UpdateWriteStep ==
  ASSUME IInv, NEW c \in Operators, UpdateWrite(c) PROVE IInv'
<1> c \in Procs
  BY DEF Procs
<1>1. /\ procs[c].at = "update" /\ procs[c].todo \in InstanceRow
      /\ UNCHANGED <<creating, manager, holder, runtime>>
  BY DEF UpdateWrite, IInv, Plans
<1>2. PICK i \in Instances : procs[c].target = {i}
  BY <1>1 DEF IInv, Plans
<1> DEFINE r == [Resting EXCEPT !.at = "reconcile"]
<1>3. \/ UNCHANGED rows /\ procs' = [procs EXCEPT ![c] = Resting]
      \/ /\ rows[i] # NoInstance /\ rows' = [rows EXCEPT ![i] = procs[c].todo]
         /\ procs' = [procs EXCEPT ![c] = r]
  BY <1>2 DEF UpdateWrite
<1>4. DOMAIN r = {"at", "target", "todo"} /\ r.at = "reconcile" /\ r.target = {}
  BY Rests
<1> HIDE DEF r
<1>5. /\ Shape' /\ procs'[c].at \in {"idle", "reconcile"}
      /\ procs'[c].target \subseteq Instances
      /\ \A q \in Procs : q # c => procs'[q] = procs[q]
  BY <1>3, <1>4, Moved, Rests DEF IInv
<1>6. rows \in [Instances -> InstanceRow \cup {NoInstance}]
  BY DEF IInv, PluginTypeOK
<1>7. /\ rows' \in [Instances -> InstanceRow \cup {NoInstance}]
      /\ \A j \in Instances : rows'[j] # NoInstance => rows[j] # NoInstance
  BY <1>1, <1>3, <1>6
<1>8. Inserts'
  BY <1>1, <1>5, <1>7 DEF IInv, Inserts
<1> QED BY <1>1, <1>5, <1>7, <1>8, Wrote DEF Busy

LEMMA DeleteStep ==
  ASSUME IInv, NEW c \in Operators, NEW i \in Instances, DeleteInstance(c, i) PROVE IInv'
<1> c \in Procs
  BY DEF Procs
<1>1. /\ procs[c].at = "idle" /\ rows' = [rows EXCEPT ![i] = NoInstance]
      /\ Goto(c, "reconcile") /\ UNCHANGED <<creating, manager, holder, runtime>>
  BY DEF DeleteInstance, BeginCall
<1>2. /\ Shape' /\ procs'[c].at = "reconcile" /\ procs'[c].target \subseteq Instances
      /\ \A q \in Procs : q # c => procs'[q] = procs[q]
  BY <1>1, Gone DEF IInv, Plans
<1>3. /\ rows' \in [Instances -> InstanceRow \cup {NoInstance}]
      /\ \A j \in Instances : rows'[j] # NoInstance => rows[j] # NoInstance
  BY <1>1 DEF IInv, PluginTypeOK
<1>4. Inserts'
  BY <1>1, <1>2, <1>3 DEF IInv, Inserts
<1> QED BY <1>1, <1>2, <1>3, <1>4, Wrote DEF Busy

LEMMA RestartRequestStep ==
  ASSUME IInv, NEW c \in Operators, NEW i \in Instances, RestartRequest(c, i) PROVE IInv'
<1> DEFINE r == [Resting EXCEPT !.at = "restart", !.target = {i}]
<1> c \in Procs
  BY DEF Procs
<1>1. /\ procs[c].at = "idle" /\ procs' = [procs EXCEPT ![c] = r]
      /\ UNCHANGED <<rows, creating, manager, holder, runtime>>
  BY DEF RestartRequest, BeginCall
<1>2. DOMAIN r = {"at", "target", "todo"} /\ r.at = "restart" /\ r.target = {i}
  BY Rests
<1> HIDE DEF r
<1>3. Shape' /\ procs'[c] = r /\ \A q \in Procs : q # c => procs'[q] = procs[q]
  BY <1>1, <1>2, Moved DEF IInv
<1>4. Life'
  BY <1>1, <1>3, Names, PluginAssumption DEF IInv, Life, runtime
<1> QED BY <1>1, <1>2, <1>3, <1>4, Quiet DEF IInv, Busy, PluginTypeOK

LEMMA RestartStep ==
  ASSUME IInv, NEW c \in Operators, RestartInstance(c) PROVE IInv'
<1> DEFINE target == {i \in procs[c].target : pluginJobs[i] # NoPluginJob}
           r == [procs[c] EXCEPT !.at = "restartwait", !.target = target]
<1> c \in Procs
  BY DEF Procs
<1>1. /\ procs[c].at = "restart" /\ holder = {} /\ UNCHANGED <<instanceTable, manager, orphans>>
      /\ \A q \in Procs : procs[q].at \notin Busy
  BY DEF RestartInstance, IInv, Lease
<1>2. CASE ~(manager.started /\ ~manager.stopped)
  <2>1. Goto(c, "failed") /\ UNCHANGED <<holder, pluginJobs, stopping, statuses>>
    BY <1>2 DEF RestartInstance
  <2>2. /\ Shape' /\ procs'[c].at = "failed" /\ procs'[c].target = procs[c].target
        /\ \A q \in Procs : q # c => procs'[q] = procs[q]
    BY <2>1, Gone DEF IInv
  <2>3. Life'
    BY <1>1, <2>1, <2>2, Names, PluginAssumption DEF IInv, Life
  <2> QED BY <1>1, <2>1, <2>2, <2>3, Quiet DEF IInv, Busy, PluginTypeOK, Plans,
                                              instanceTable, runtime
<1>3. CASE manager.started /\ ~manager.stopped
  <2>1. /\ holder' = {c} /\ procs' = [procs EXCEPT ![c] = r]
        /\ pluginJobs' = [i \in Instances |-> IF i \in target THEN NoPluginJob
                                              ELSE pluginJobs[i]]
        /\ stopping' = {i \in target : pluginJobs[i].state # "done"}
        /\ statuses' = [i \in Instances |-> IF i \in target THEN "stopping"
                                            ELSE statuses[i]]
    BY <1>3 DEF RestartInstance
  <2>2. target \subseteq Instances /\ \A i \in target : pluginJobs[i] # NoPluginJob
    BY DEF IInv, Plans
  <2>3. /\ DOMAIN r = {"at", "target", "todo"} /\ r.at = "restartwait"
        /\ r.target = target
    BY DEF IInv, Shape
  <2> HIDE DEF target, r
  <2>4. Shape' /\ procs'[c] = r /\ \A q \in Procs : q # c => procs'[q] = procs[q]
    BY <2>1, <2>3, Moved DEF IInv
  <2>5. \A q \in Procs : procs[q].at \notin Waits
    BY <1>1 DEF Busy, Waits
  <2> USE DEF instanceTable
  <2>6. Lease'
    BY <1>1, <2>1, <2>3, <2>4 DEF IInv, Lease, Busy
  <2>7. PluginTypeOK'
    BY <1>1, <2>1, <2>2, OneHolder DEF IInv, PluginTypeOK
  <2>8. Plans' /\ Inserts'
    BY <1>1, <2>2, <2>3, <2>4 DEF IInv, Plans, Inserts
  <2>9. Waiting'
    BY <2>1, <2>2, <2>3, <2>4, <2>5 DEF Waiting, Waits
  <2>10. Shown'
    BY <1>1, <2>1, <2>2, <2>3, <2>4, <2>5 DEF IInv, Shown, Waits
  <2>11. Life'
    BY <1>1, <1>3, <2>1, <2>4, Names, PluginAssumption DEF IInv, Life
  <2> QED BY <2>4, <2>6, <2>7, <2>8, <2>9, <2>10, <2>11 DEF IInv
<1> QED BY <1>2, <1>3

LEMMA ReplyStep ==
  ASSUME IInv, NEW c \in Operators, Reply(c) PROVE IInv'
<1> c \in Procs
  BY DEF Procs
<1>1. /\ procs[c].at \in {"reconciled", "failed"} /\ procs' = [procs EXCEPT ![c] = Resting]
      /\ UNCHANGED <<instanceTable, manager, holder, runtime>>
  BY DEF Reply
<1>2. Shape' /\ procs'[c] = Resting /\ \A q \in Procs : q # c => procs'[q] = procs[q]
  BY <1>1, Moved, Rests DEF IInv
<1>3. Life'
  BY <1>1, <1>2, Names, PluginAssumption DEF IInv, Life, runtime
<1> QED BY <1>1, <1>2, <1>3, Rests, Quiet DEF IInv, Busy, PluginTypeOK, instanceTable

-----------------------------------------------------------------------------

LEMMA InitiallyManaged == PluginInit => IInv
<1> SUFFICES ASSUME PluginInit PROVE IInv
  OBVIOUS
<1> USE DEF PluginInit
<1>1. /\ procs = [p \in Procs |-> procs[p]]
      /\ \A p \in Procs : procs[p] = Resting
  OBVIOUS
<1>2. \A i, j \in Instances : rows[i] # NoInstance /\ rows[j] # NoInstance => i = j
  <2> DEFINE S == {i \in Instances : rows[i] # NoInstance}
  <2>1. SUFFICES ASSUME NEW i \in S, NEW j \in S, i # j PROVE FALSE
    OBVIOUS
  <2>2. IsFiniteSet(S) /\ Cardinality(S) <= 1
    BY FS_Subset, PluginAssumption
  <2> HIDE DEF S
  <2>3. Cardinality({i}) = 1 /\ IsFiniteSet({i})
    BY FS_Singleton
  <2>4. Cardinality({i} \cup {j}) = 2
    <3>1. j \notin {i}
      BY <2>1
    <3>2. Cardinality({i} \cup {j}) = Cardinality({i}) + 1
      BY ONLY <2>3, <3>1, FS_AddElement
    <3> QED BY <2>3, <3>2
  <2>5. {i} \cup {j} \subseteq S
    OBVIOUS
  <2>6. Cardinality({i} \cup {j}) <= Cardinality(S) /\ Cardinality(S) \in Nat
    BY ONLY <2>2, <2>5, FS_Subset, FS_CardinalityType
  <2> QED BY <2>2, <2>4, <2>6
<1>3. PluginTypeOK
  BY OneHolder DEF PluginTypeOK
<1>4. Shape /\ Lease /\ Plans /\ Inserts
  BY <1>1, <1>2, Rests DEF Shape, Lease, Plans, Inserts, Busy
<1>5. Waiting /\ Shown /\ Life
  BY <1>1, Rests, Names DEF Waiting, Shown, Life, Waits
<1> QED BY <1>3, <1>4, <1>5 DEF IInv

LEMMA StepsManaged == IInv /\ [PluginNext]_pluginVars => IInv'
<1> SUFFICES ASSUME IInv, [PluginNext]_pluginVars PROVE IInv'
  OBVIOUS
<1>1. CASE UNCHANGED pluginVars
  BY <1>1 DEF pluginVars, IInv, PluginTypeOK, Shape, Lease, Plans, Inserts, Waiting,
              Shown, Life
<1>2. CASE StartManager \/ Started
  BY <1>2, StartSteps
<1>3. CASE Shutdown \/ StopManager
  BY <1>3, ShutdownSteps
<1>4. CASE StopManagerReturns
  BY <1>4, StopReturnsStep
<1>5. CASE runReconciler
  BY <1>5, TickerSteps
<1>6. ASSUME NEW p \in Procs, ReconcileStep(p) PROVE IInv'
  BY <1>6, ReconcileStepKeeps
<1>7. ASSUME NEW i \in Instances, JobFails(i) \/ JobStops(i) PROVE IInv'
  BY <1>7, JobFailsStep, JobStopsStep
<1>8. ASSUME NEW c \in Operators, CreateCheck(c) \/ RequestStep(c) PROVE IInv'
  BY <1>8, CreateCheckStep, CreateInsertStep, UpdateWriteStep, RestartStep, ReplyStep
     DEF RequestStep
<1>9. ASSUME NEW c \in Operators, NEW i \in Instances,
             UpdateRead(c, i) \/ DeleteInstance(c, i) \/ RestartRequest(c, i)
      PROVE  IInv'
  BY <1>9, UpdateReadStep, DeleteStep, RestartRequestStep
<1> QED BY <1>1, <1>2, <1>3, <1>4, <1>5, <1>6, <1>7, <1>8, <1>9 DEF PluginNext

LEMMA Managed == IInv => PluginsManaged
<1> SUFFICES ASSUME IInv PROVE OneRuntime /\ ShownAsItIs
  BY DEF PluginsManaged, IInv
<1>1. ASSUME ~manager.ctxDone, NEW i \in Instances, Runs(i)
      PROVE  i \notin stopping \cup orphans
  BY <1>1 DEF IInv, Shown, Waiting, Runs
<1>2. Cardinality({i \in Instances : rows[i] # NoInstance}) <= 1
  <2> DEFINE S == {i \in Instances : rows[i] # NoInstance}
  <2>1. CASE S = {}
    BY <2>1, OneHolder
  <2>2. ASSUME NEW i \in S PROVE Cardinality(S) <= 1
    <3>1. S = {i}
      BY <2>2 DEF IInv, Inserts
    <3>2. Cardinality({i}) = 1
      BY FS_Singleton
    <3> QED BY <3>1, <3>2
  <2> QED BY <2>1, <2>2
<1>3. ASSUME holder = {}, ~manager.ctxDone, NEW i \in Instances
      PROVE  /\ statuses[i] = "running" <=> Runs(i)
             /\ statuses[i] = "error" => pluginJobs[i] # NoPluginJob
             /\ statuses[i] \notin {"starting", "stopping"}
  BY <1>3 DEF IInv, Shown, Lease, Busy, Waits, Runs
<1>4. procs["main"].at = "stopped" => \A i \in Instances : pluginJobs[i] = NoPluginJob
  BY DEF IInv, Life
<1> QED BY <1>1, <1>2, <1>3, <1>4 DEF OneRuntime, ShownAsItIs

(* plugin/manager.go, plugin/service.go and plugin/http/handler.go: whatever *)
(* the number of instances and of requests, and wherever a request, the      *)
(* ticker, a failing job and the shutdown meet, an instance never has two    *)
(* runtimes, a type with one instance has one row, and what is shown as      *)
(* running, failed or stopped is.                                            *)
THEOREM PluginsAreManaged == PluginSpec => []PluginsManaged
<1>1. PluginSpec => []IInv
  BY InitiallyManaged, StepsManaged, PTL DEF PluginSpec
<1> QED BY <1>1, Managed, PTL

=============================================================================
