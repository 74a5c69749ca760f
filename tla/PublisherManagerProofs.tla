----------------------- MODULE PublisherManagerProofs -----------------------
(***************************************************************************)
(* Proofs about the publisher manager: one goroutine per publisher,        *)
(* exclusive listeners, a truthful status and a complete Stop.             *)
(*                                                                         *)
(* None of these is inductive by itself.  Each says something of the job   *)
(* objects alone, of which a step knows little: that startJob may store a  *)
(* new one follows from where the others are.  Core therefore says for     *)
(* every live object who knows of it (the map, the call that waits, or     *)
(* nobody after an aborted wait), and what the call in progress may rely   *)
(* on at each of its points.  That two listeners do not conflict rests on  *)
(* the owners computed by assignListenerClaims, a recursive function over  *)
(* the ids; that such a function exists is proved by induction, with sets  *)
(* in place of predicates.                                                 *)
(***************************************************************************)
EXTENDS PublisherManager, FiniteSetTheorems, TLAPS

----------------------------------------------------------------------------
(* Least elements and induction over the natural numbers, as facts about   *)
(* sets: the subsets 0..n of Nat are finite, and strict inclusion is       *)
(* well-founded on finite sets.                                            *)

LEMMA LeastOf ==
  ASSUME NEW S \in SUBSET Nat, S # {}
  PROVE  Min(S) \in S /\ \A n \in S : Min(S) <= n
<1> DEFINE T == {0..n : n \in S}
<1>1. T \subseteq FiniteSubsetsOf(Nat) /\ T # {}
  <2>1. \A n \in S : 0..n \in SUBSET Nat /\ IsFiniteSet(0..n)
    BY FS_Interval
  <2> QED BY <2>1 DEF FiniteSubsetsOf
<1>2. \E X \in T : \A Y \in T : <<Y, X>> \notin StrictSubsetOrdering(Nat)
  BY <1>1, FS_StrictSubsetOrderingWellFounded, WFMin
<1>3. PICK m \in S : \A n \in S : <<0..n, 0..m>> \notin StrictSubsetOrdering(Nat)
  BY <1>2
<1>4. ASSUME NEW n \in S PROVE m <= n
  <2>1. SUFFICES ASSUME n < m PROVE FALSE
    OBVIOUS
  <2>2. 0..n \subseteq 0..m /\ 0..n # 0..m /\ 0..n \in SUBSET Nat /\ 0..m \in SUBSET Nat
    BY <2>1
  <2> QED BY <2>2, <1>3 DEF StrictSubsetOrdering
<1> QED BY <1>4 DEF Min

LEMMA InductionOn ==
  ASSUME NEW S \in SUBSET Nat, 0 \in S, \A n \in S : n + 1 \in S
  PROVE  S = Nat
<1> SUFFICES ASSUME Nat \ S # {} PROVE FALSE
  OBVIOUS
<1> DEFINE m == Min(Nat \ S)
<1>1. m \in Nat \ S /\ \A n \in Nat \ S : m <= n
  BY LeastOf
<1> HIDE DEF m
<1>2. m - 1 \in S
  BY <1>1
<1> QED BY <1>1, <1>2

(* A finite set of natural numbers has an upper bound.                     *)
LEMMA BoundOf ==
  ASSUME NEW S \in SUBSET Nat, IsFiniteSet(S)
  PROVE  \E b \in Nat : \A n \in S : n <= b
<1> DEFINE T == {A \in SUBSET S : ~ \E b \in Nat : \A n \in A : n <= b}
<1> SUFFICES ASSUME T # {} PROVE FALSE
  OBVIOUS
<1>1. T \subseteq FiniteSubsetsOf(S)
  BY FS_FiniteSubsetsOfFinite
<1>2. PICK A \in T : \A B \in T : <<B, A>> \notin StrictSubsetOrdering(S)
  BY <1>1, FS_StrictSubsetOrderingWellFounded, WFMin
<1>3. A # {}
  <2>1. \A n \in {} : n <= 0
    OBVIOUS
  <2> QED BY <2>1
<1>4. PICK x \in A : TRUE
  BY <1>3
<1>5. A \ {x} \notin T
  BY <1>2, <1>4 DEF StrictSubsetOrdering
<1>6. PICK b \in Nat : \A n \in A \ {x} : n <= b
  BY <1>5
<1>7. \A n \in A : n <= b + x
  BY <1>6
<1> QED BY <1>7

----------------------------------------------------------------------------
(* The owners of the listeners.                                            *)

LEMMA OwnerType ==
  ASSUME NEW cfgs, NEW errs, NEW f, NEW p \in Pubs
  PROVE  OwnerOf(cfgs, errs, f, p) \in Before(cfgs, errs, f, p) \cup {0}
<1>1. Before(cfgs, errs, f, p) \in SUBSET Nat
  BY ManagerAssumption DEF Before, ManagerAssumption
<1> QED BY <1>1, LeastOf DEF OwnerOf

(* The recursion of Owners goes down in the ids, so there is a function    *)
(* that satisfies it, and Owners is one.                                   *)
LEMMA OwnersExist ==
  ASSUME NEW cfgs, NEW errs
  PROVE  \E f : f = [p \in Pubs |-> OwnerOf(cfgs, errs, f, p)]
<1> DEFINE Own(f, p) == OwnerOf(cfgs, errs, f, p)
           G == {n \in Nat : \E f \in [Pubs -> Pubs \cup {0}] :
                                \A p \in Pubs : p <= n => f[p] = Own(f, p)}
<1>1. Pubs \subseteq Nat \ {0} /\ IsFiniteSet(Pubs)
  BY ManagerAssumption DEF ManagerAssumption
<1>2. \A f, p : p \in Pubs => Own(f, p) \in Pubs \cup {0}
  BY OwnerType DEF Before
<1>3. 0 \in G
  <2>1. [p \in Pubs |-> 0] \in [Pubs -> Pubs \cup {0}]
    OBVIOUS
  <2>2. \A p \in Pubs : ~ (p <= 0)
    BY <1>1
  <2> HIDE DEF Own
  <2> QED BY <2>1, <2>2
<1>4. ASSUME NEW n \in G PROVE n + 1 \in G
  <2>1. PICK f \in [Pubs -> Pubs \cup {0}] :
          \A p \in Pubs : p <= n => f[p] = Own(f, p)
    OBVIOUS
  <2> DEFINE g == [p \in Pubs |-> IF p = n + 1 THEN Own(f, p) ELSE f[p]]
  <2>2. g \in [Pubs -> Pubs \cup {0}]
    BY <1>2
  <2>3. ASSUME NEW p \in Pubs, p <= n + 1 PROVE Own(g, p) = Own(f, p)
    <3>1. \A q \in Pubs : q < p => g[q] = f[q]
      BY <1>1, <2>3
    <3>2. Before(cfgs, errs, g, p) = Before(cfgs, errs, f, p)
      BY <3>1 DEF Before
    <3> QED BY <3>2 DEF OwnerOf
  <2>4. ASSUME NEW p \in Pubs, p <= n + 1 PROVE g[p] = Own(g, p)
    <3>1. p = n + 1 \/ p <= n
      BY <1>1, <2>4
    <3>2. g[p] = Own(f, p)
      BY <2>1, <3>1
    <3> QED BY <2>3, <2>4, <3>2
  <2> HIDE DEF Own, g
  <2> QED BY <2>2, <2>4
<1>5. G = Nat
  BY <1>3, <1>4, InductionOn
<1>6. PICK b \in Nat : \A p \in Pubs : p <= b
  BY <1>1, BoundOf
<1>7. PICK f \in [Pubs -> Pubs \cup {0}] :
        \A p \in Pubs : p <= b => f[p] = Own(f, p)
  BY <1>5, <1>6
<1>8. f = [p \in Pubs |-> Own(f, p)]
  BY <1>6, <1>7
<1> QED BY <1>8

LEMMA OwnersSatisfy ==
  ASSUME NEW cfgs, NEW errs
  PROVE  Owners(cfgs, errs) =
           [p \in Pubs |-> OwnerOf(cfgs, errs, Owners(cfgs, errs), p)]
BY OwnersExist, Zenon DEF Owners

(* Two publishers that both hold their listener do not conflict.           *)
LEMMA OwnersExclude ==
  ASSUME NEW cfgs \in [Pubs -> Configs \cup {Disabled}], NEW errs,
         NEW p \in Pubs, NEW q \in Pubs, p # q,
         cfgs[p] # Disabled, cfgs[q] # Disabled,
         Fingerprint(cfgs, errs, p) = <<"norm", cfgs[p], 0>>,
         Fingerprint(cfgs, errs, q) = <<"norm", cfgs[q], 0>>
  PROVE  <<cfgs[p], cfgs[q]>> \notin Conflicts
<1> DEFINE own == Owners(cfgs, errs)
<1>1. Pubs \subseteq Nat \ {0}
  BY ManagerAssumption DEF ManagerAssumption
<1>2. p \notin errs /\ q \notin errs /\ own[p] = 0 /\ own[q] = 0
  BY DEF Fingerprint
<1>3. own[p] = OwnerOf(cfgs, errs, own, p) /\ own[q] = OwnerOf(cfgs, errs, own, q)
  BY OwnersSatisfy
<1> HIDE DEF own
<1>4. ASSUME NEW a \in Pubs, NEW b \in Pubs, a < b, {a, b} = {p, q}
      PROVE  <<cfgs[a], cfgs[b]>> \notin Conflicts
  <2>1. /\ cfgs[a] # Disabled /\ cfgs[b] # Disabled
        /\ a \notin errs /\ b \notin errs /\ own[a] = 0
        /\ OwnerOf(cfgs, errs, own, b) = 0
    BY <1>2, <1>3, <1>4
  <2>2. Before(cfgs, errs, own, b) \in SUBSET (Nat \ {0})
    BY <1>1 DEF Before
  <2>3. Before(cfgs, errs, own, b) = {}
    <3>1. SUFFICES ASSUME Before(cfgs, errs, own, b) # {} PROVE FALSE
      OBVIOUS
    <3>2. Min(Before(cfgs, errs, own, b)) # 0
      BY <2>2, <3>1, LeastOf
    <3> QED BY <2>1, <3>1, <3>2 DEF OwnerOf
  <2>4. a \notin Before(cfgs, errs, own, b)
    BY <2>3
  <2> QED BY <1>4, <2>1, <2>4 DEF Before, Good
<1>5. <<cfgs[p], cfgs[q]>> \in Conflicts <=> <<cfgs[q], cfgs[p]>> \in Conflicts
  BY ManagerAssumption DEF ManagerAssumption
<1>6. p < q \/ q < p
  BY <1>1
<1>7. CASE p < q
  BY <1>4, <1>7
<1>8. CASE q < p
  <2>1. {q, p} = {p, q}
    OBVIOUS
  <2> QED BY <1>4, <1>5, <1>8, <2>1
<1> QED BY <1>6, <1>7, <1>8

LEMMA FingerprintType ==
  ASSUME NEW cfgs \in [Pubs -> Configs \cup {Disabled}], NEW errs, NEW p \in Pubs,
         cfgs[p] # Disabled
  PROVE  /\ Fingerprint(cfgs, errs, p) \in Fingerprints
         /\ Fingerprint(cfgs, errs, p)[2] = cfgs[p]
<1>1. Owners(cfgs, errs)[p] \in Pubs \cup {0}
  <2> DEFINE own == Owners(cfgs, errs)
  <2>1. own[p] = OwnerOf(cfgs, errs, own, p)
    BY OwnersSatisfy
  <2>2. Before(cfgs, errs, own, p) \subseteq Pubs
    BY DEF Before
  <2> QED BY <2>1, <2>2, OwnerType
<1> QED BY <1>1 DEF Fingerprint, Fingerprints

----------------------------------------------------------------------------
(* The invariant.                                                          *)

(* A job in the map is an object of its publisher; an object has one.      *)
Mapped ==
  /\ \A p \in Pubs : jobs[p] # NoJob =>
       job[jobs[p]].phase # "free" /\ job[jobs[p]].pub = p
  /\ \A j \in Slots : job[j].phase # "free" => job[j].pub \in Pubs

(* A live job is the one in the map, or the call in progress waits for it, *)
(* or a wait for it was given up.                                          *)
Known ==
  \A j \in Slots :
    Live(j) => j \in abandoned \/ jobs[job[j].pub] = j \/ j \in op.wait

(* A call waits for jobs that it cancelled and took out of the map, one of *)
(* each publisher.                                                         *)
Waiting ==
  /\ op.pc \notin {"await", "wait"} => op.wait = {}
  /\ \A j \in op.wait : /\ job[j].phase # "free" /\ job[j].cancelled
                        /\ jobs[job[j].pub] = NoJob
  /\ \A j, k \in op.wait : job[j].pub = job[k].pub => j = k

(* The publishers to start have no job in the map, and are enabled.        *)
Missing ==
  /\ op.pc \in {"wait", "start", "build"} =>
       \A p \in op.todo : jobs[p] = NoJob /\ op.cfgs[p] # Disabled
  /\ op.pc = "build" => op.todo # {}

(* A job nobody waits for any longer still runs.                           *)
GivenUp == \A j \in abandoned : Live(j)

(* Stop begins when no call is in progress, and none begins after it.  It  *)
(* knows every job of the map.                                             *)
Stopping ==
  /\ stop.pc # "idle" => stopped /\ op = NoOp
  /\ stop.pc = "wait" => \A p \in Pubs : jobs[p] # NoJob => jobs[p] \in stop.jobs
  /\ stop.pc = "ok" => workers = {} /\ \A p \in Pubs : jobs[p] = NoJob
  /\ stop.pc # "idle" => \A p \in Pubs : status[p] \notin {"starting", "running"}

(* Only a publisher with a job is shown as running, and as starting only   *)
(* while its job is built.                                                 *)
Shown ==
  \A p \in Pubs :
    /\ status[p] = "running" => jobs[p] # NoJob
    /\ status[p] = "starting" => op.pc = "build" /\ p = Min(op.todo)

(* A publisher whose listener belongs to another, or that could not be     *)
(* prepared, has no job that runs.                                         *)
Claimed ==
  \A j \in Slots : Live(j) =>
    job[j].fp[2] \in Configs /\ job[j].fp = <<"norm", job[j].fp[2], 0>>

(* Once the jobs are exchanged, those in the map are the ones asked for.   *)
Agreed ==
  op.pc \in {"wait", "start", "build"} =>
    \A p \in Pubs : jobs[p] # NoJob =>
      op.cfgs[p] # Disabled /\ job[jobs[p]].fp = Fingerprint(op.cfgs, op.errs, p)

(* Until the shutdown no wait is given up, only a job taken out of the map *)
(* is cancelled, and the status of a publisher follows its job, or is left *)
(* to the call that waits for the job taken out or starts the next one.    *)
Truthful ==
  ~ManagerDone =>
    /\ abandoned = {}
    /\ \A j \in Slots : job[j].phase = "exitStopped" => job[j].cancelled
    /\ \A p \in Pubs : jobs[p] # NoJob =>
         /\ ~job[jobs[p]].cancelled
         /\ status[p] = IF job[jobs[p]].phase \in {"ended", "done"}
                          THEN "error" ELSE "running"
    /\ \A p \in Pubs : jobs[p] = NoJob =>
         \/ status[p] \in {"absent", "stopped"}
         \/ \E j \in op.wait : job[j].pub = p
         \/ op.pc = "build" /\ p = Min(op.todo)

Core ==
  /\ Mapped /\ Known /\ Waiting /\ Missing /\ GivenUp /\ Stopping /\ Shown
  /\ Claimed /\ Agreed /\ Truthful /\ ListenersExclusive

----------------------------------------------------------------------------
(* The operators the actions are built from.                               *)

LEMMA CancellingShape ==
  ASSUME TypeOK, NEW J \in SUBSET Slots
  PROVE  /\ Cancelling(J) \in [Slots -> JobObject]
         /\ \A j \in Slots :
              /\ Cancelling(J)[j].pub = job[j].pub
              /\ Cancelling(J)[j].fp = job[j].fp
              /\ Cancelling(J)[j].phase = job[j].phase
              /\ Cancelling(J)[j].cancelled <=> job[j].cancelled \/ j \in J
<1>1. \A j \in Slots :
        LET o == [job[j] EXCEPT !.cancelled = TRUE]
        IN  /\ job[j] \in JobObject /\ o \in JobObject /\ o.cancelled = TRUE
            /\ job[j].cancelled \in BOOLEAN
            /\ o.pub = job[j].pub /\ o.fp = job[j].fp /\ o.phase = job[j].phase
  BY DEF TypeOK, JobObject
<1> QED BY <1>1 DEF Cancelling

LEMMA NoObjectType == NoObject \in JobObject
BY DEF NoObject, JobObject, Phases

LEMMA ReleasedShape ==
  ASSUME TypeOK, NEW J
  PROVE  /\ Released(J) \in [Slots -> JobObject]
         /\ \A j \in Slots :
              Released(J)[j] = IF j \in J /\ job[j].phase = "done" THEN NoObject
                                                                  ELSE job[j]
BY NoObjectType DEF TypeOK, Released

LEMMA SetStateShape ==
  ASSUME TypeOK, NEW P, NEW s \in States
  PROVE  /\ SetState(P, s) \in [Pubs -> States]
         /\ \A p \in Pubs : SetState(P, s)[p] = IF p \in P THEN s ELSE status[p]
BY DEF TypeOK, SetState

LEMMA CallTypes ==
  /\ NoOp \in Call
  /\ \A x \in Reconcilers : [NoOp EXCEPT !.pc = "list", !.caller = x] \in Call
BY DEF NoOp, Call, Reconcilers, Workers

(* The least publisher to start is one of them.                            *)
LEMMA LeastTodo ==
  ASSUME TypeOK, op.todo # {}
  PROVE  Min(op.todo) \in op.todo /\ Min(op.todo) \in Pubs
BY LeastOf, ManagerAssumption DEF TypeOK, Call, ManagerAssumption

----------------------------------------------------------------------------
(* Type correctness.                                                       *)

LEMMA InitTypeOK == Init => TypeOK
<1> SUFFICES ASSUME Init PROVE TypeOK
  OBVIOUS
<1>1. op \in Call /\ job \in [Slots -> JobObject] /\ stop \in StopCall
  BY CallTypes, NoObjectType DEF Init, StopCall
<1>2. budget \in [edits : 0..MaxEdits, restarts : 0..MaxRestarts]
  BY ManagerAssumption DEF Init, ManagerAssumption
<1> QED BY <1>1, <1>2 DEF Init, TypeOK, States

LEMMA TypeStep == TypeOK /\ Missing /\ [Next]_vars => TypeOK'
<1> SUFFICES ASSUME TypeOK, Missing, [Next]_vars PROVE TypeOK'
  OBVIOUS
<1>0. /\ op \in Call /\ job \in [Slots -> JobObject] /\ jobs \in [Pubs -> Slots \cup {NoJob}]
      /\ stop \in StopCall /\ status \in [Pubs -> States]
      /\ db \in [Pubs -> Configs \cup {Disabled}]
      /\ budget \in [edits : 0..MaxEdits, restarts : 0..MaxRestarts]
  BY DEF TypeOK
<1>1. CASE Start
  BY <1>1 DEF Start, TypeOK
<1>2. ASSUME NEW c \in Reconcilers, BeginReconcile(c) PROVE TypeOK'
  BY <1>2, CallTypes DEF BeginReconcile, TypeOK
<1>3. ASSUME NEW c \in Reconcilers, NEW p \in Pubs, BeginRestart(c, p) PROVE TypeOK'
  <2>1. budget' \in [edits : 0..MaxEdits, restarts : 0..MaxRestarts]
    BY <1>0, <1>3, ManagerAssumption DEF BeginRestart, ManagerAssumption
  <2>2. CASE jobs[p] = NoJob
    BY <1>3, <2>1, <2>2, CallTypes DEF BeginRestart, TypeOK
  <2>3. CASE jobs[p] # NoJob
    <3>1. jobs[p] \in Slots
      BY <1>0, <2>3
    <3>2. op' \in Call
      <4>1. \A o \in Call, W \in SUBSET Slots :
              [o EXCEPT !.pc = "await", !.caller = c, !.wait = W] \in Call
        BY <1>3 DEF Call
      <4> QED BY ZenonT(40), <1>3, <2>3, <3>1, <4>1, CallTypes DEF BeginRestart
    <3>3. job' \in [Slots -> JobObject] /\ status' \in [Pubs -> States]
      BY <1>3, <2>3, <3>1, CancellingShape, SetStateShape DEF BeginRestart, States
    <3>4. jobs' \in [Pubs -> Slots \cup {NoJob}]
      BY <1>0, <1>3, <2>3 DEF BeginRestart
    <3> QED BY <1>3, <2>1, <3>2, <3>3, <3>4 DEF BeginRestart, TypeOK
  <2> QED BY <2>2, <2>3
<1>4. ASSUME NEW errs \in SUBSET Pubs, List(errs) PROVE TypeOK'
  <2>1. op' \in Call
    BY <1>0, <1>4 DEF List, Call
  <2> QED BY <1>4, <2>1 DEF List, TypeOK
<1>5. CASE ListFails
  BY <1>5, CallTypes DEF ListFails, ReturnError, TypeOK
<1>6. CASE Swap
  <2> DEFINE wanted == {p \in Pubs : op.cfgs[p] # Disabled}
             kept   == {p \in wanted : /\ jobs[p] # NoJob
                                       /\ job[jobs[p]].fp = Fingerprint(op.cfgs, op.errs, p)}
             gone   == {p \in Pubs \ kept : jobs[p] # NoJob}
  <2>1. {jobs[p] : p \in gone} \in SUBSET Slots
    BY <1>0
  <2>2. job' \in [Slots -> JobObject] /\ status' \in [Pubs -> States]
    BY <1>6, <2>1, CancellingShape, SetStateShape DEF Swap, States
  <2>3. jobs' \in [Pubs -> Slots \cup {NoJob}]
    BY <1>0, <1>6 DEF Swap
  <2>4. op' \in Call
    BY <1>0, <1>6, <2>1 DEF Swap, Call
  <2> QED BY <1>6, <2>2, <2>3, <2>4 DEF Swap, TypeOK
<1>7. ASSUME NEW j \in Slots, Waited(j) PROVE TypeOK'
  <2>1. job' \in [Slots -> JobObject] /\ status' \in [Pubs -> States]
    BY <1>0, <1>7, NoObjectType, SetStateShape DEF Waited, States
  <2>2. op' \in Call
    BY <1>0, <1>7 DEF Waited, Call
  <2> QED BY <1>7, <2>1, <2>2 DEF Waited, TypeOK
<1>8. CASE WaitAborted
  <2>1. op.wait \in SUBSET Slots
    BY <1>0 DEF Call
  <2>2. job' \in [Slots -> JobObject]
    BY <1>8, ReleasedShape DEF WaitAborted
  <2>3. abandoned' \in SUBSET Slots
    BY <1>8, <2>1 DEF WaitAborted, TypeOK
  <2> QED BY <1>8, <2>2, <2>3, CallTypes DEF WaitAborted, ReturnError, TypeOK
<1>9. CASE StartJob
  <2>1. op' \in Call
    BY <1>0, <1>9 DEF StartJob, Call
  <2>2. status' \in [Pubs -> States]
    BY <1>9, SetStateShape DEF StartJob, States
  <2> QED BY <1>9, <2>1, <2>2 DEF StartJob, TypeOK
<1>10. ASSUME NEW failed \in BOOLEAN, BuildJob(failed) PROVE TypeOK'
  <2> DEFINE p == Min(op.todo)
             j == CHOOSE k \in Slots : Available(k)
             o == [pub |-> p, fp |-> Fingerprint(op.cfgs, op.errs, p),
                   cancelled |-> FALSE, phase |-> IF failed THEN "done" ELSE "running"]
  <2>0. op.pc = "build" /\ op.todo # {}
    BY <1>10 DEF BuildJob, Missing
  <2>1. /\ p \in Pubs /\ j \in Slots /\ op.cfgs \in [Pubs -> Configs \cup {Disabled}]
        /\ op.cfgs[p] # Disabled
    BY <1>0, <1>10, <2>0, LeastTodo DEF BuildJob, Store, Call, Missing
  <2>2. o \in JobObject
    BY <1>10, <2>1, FingerprintType DEF JobObject, Phases
  <2>3. /\ jobs' = [jobs EXCEPT ![p] = j] /\ job' = [job EXCEPT ![j] = o]
        /\ status' = SetState({p}, IF failed THEN "error" ELSE "running")
        /\ op' = [op EXCEPT !.pc = "start", !.todo = @ \ {p}]
        /\ UNCHANGED <<db, parentDone, started, stopped, workers, stop, budget,
                       abandoned>>
    BY <1>10 DEF BuildJob, Store
  <2> HIDE DEF p, j, o
  <2>4. op' \in Call
    BY <1>0, <2>3 DEF Call
  <2>5. status' \in [Pubs -> States]
    BY <2>3, SetStateShape DEF States
  <2>6. jobs' \in [Pubs -> Slots \cup {NoJob}] /\ job' \in [Slots -> JobObject]
    BY <1>0, <2>1, <2>2, <2>3
  <2> QED BY <2>3, <2>4, <2>5, <2>6 DEF TypeOK
<1>11. CASE EndReconcile
  BY <1>11, CallTypes DEF EndReconcile, TypeOK
<1>12. ASSUME NEW j \in Slots, JobReturns(j) PROVE TypeOK'
  <2>1. job' \in [Slots -> JobObject]
    BY <1>0, <1>12 DEF JobReturns, JobObject, Phases
  <2> QED BY <1>12, <2>1 DEF JobReturns, TypeOK
<1>13. ASSUME NEW j \in Slots, JobChecks(j) PROVE TypeOK'
  <2>1. job' \in [Slots -> JobObject]
    BY <1>0, <1>13 DEF JobChecks, JobObject, Phases
  <2> QED BY <1>13, <2>1 DEF JobChecks, TypeOK
<1>14. ASSUME NEW j \in Slots, JobReports(j) PROVE TypeOK'
  <2>1. job' \in [Slots -> JobObject]
    BY <1>0, <1>14 DEF JobReports, JobObject, Phases
  <2>2. status' \in [Pubs -> States]
    BY <1>14, SetStateShape DEF JobReports, States
  <2> QED BY <1>14, <2>1, <2>2 DEF JobReports, TypeOK
<1>15. ASSUME NEW j \in Slots, JobCloses(j) PROVE TypeOK'
  <2>1. [job[j] EXCEPT !.phase = "done"] \in JobObject
    BY <1>0 DEF JobObject, Phases
  <2>2. job' \in [Slots -> JobObject]
    BY <1>0, <1>15, <2>1, NoObjectType DEF JobCloses
  <2> QED BY <1>15, <2>2 DEF JobCloses, TypeOK
<1>16. ASSUME NEW by \in {"start", "main"}, Stop(by) PROVE TypeOK'
  <2> DEFINE pubs == {p \in Pubs : jobs[p] # NoJob}
             all  == {jobs[p] : p \in pubs}
  <2>1. all \in SUBSET Slots /\ pubs \in SUBSET Pubs
    BY <1>0
  <2>2. job' \in [Slots -> JobObject] /\ status' \in [Pubs -> States]
    BY <1>16, <2>1, CancellingShape, SetStateShape DEF Stop, States
  <2>3. stop' \in StopCall
    BY <1>16, <2>1 DEF Stop, StopCall
  <2> QED BY <1>16, <2>2, <2>3 DEF Stop, TypeOK
<1>17. CASE StopReturns
  <2>1. job' \in [Slots -> JobObject] /\ status' \in [Pubs -> States]
    BY <1>17, ReleasedShape, SetStateShape DEF StopReturns, States
  <2>2. stop' \in StopCall
    BY <1>0, <1>17 DEF StopReturns, StopCall
  <2> QED BY <1>17, <2>1, <2>2 DEF StopReturns, TypeOK
<1>18. CASE StopTimesOut
  <2>1. stop' \in StopCall
    BY <1>0, <1>18 DEF StopTimesOut, StopCall
  <2> QED BY <1>18, <2>1 DEF StopTimesOut, TypeOK
<1>19. ASSUME NEW w \in Workers, WorkerExits(w) PROVE TypeOK'
  BY <1>19 DEF WorkerExits, TypeOK
<1>20. CASE ShutDown
  BY <1>20 DEF ShutDown, TypeOK
<1>21. ASSUME NEW p \in Pubs, NEW c \in Configs \cup {Disabled}, Edit(p, c)
       PROVE TypeOK'
  <2>1. budget' \in [edits : 0..MaxEdits, restarts : 0..MaxRestarts]
    BY <1>0, <1>21, ManagerAssumption DEF Edit, ManagerAssumption
  <2>2. db' \in [Pubs -> Configs \cup {Disabled}]
    BY <1>0, <1>21 DEF Edit
  <2> QED BY <1>21, <2>1, <2>2 DEF Edit, TypeOK
<1>22. CASE UNCHANGED vars \/ Rest
  BY <1>22 DEF vars, Rest, TypeOK
<1> QED
  BY <1>1, <1>2, <1>3, <1>4, <1>5, <1>6, <1>7, <1>8, <1>9, <1>10, <1>11, <1>12,
     <1>13, <1>14, <1>15, <1>16, <1>17, <1>18, <1>19, <1>20, <1>21, <1>22 DEF Next

----------------------------------------------------------------------------
(* The invariant holds at first, and no action breaks it.                  *)

LEMMA InitCore == Init => Core
<1> SUFFICES ASSUME Init PROVE Core
  OBVIOUS
<1>1. /\ jobs = [p \in Pubs |-> NoJob] /\ job = [j \in Slots |-> NoObject]
      /\ status = [p \in Pubs |-> "absent"] /\ abandoned = {}
      /\ op.pc = "free" /\ op.wait = {} /\ stop.pc = "idle"
  BY DEF Init, NoOp
<1>2. \A j \in Slots : job[j].phase = "free"
  BY <1>1 DEF NoObject
<1> QED
  BY <1>1, <1>2
     DEF Core, Mapped, Known, Waiting, Missing, GivenUp, Stopping, Shown, Claimed,
         Agreed, Truthful, ListenersExclusive, Live, NoJob

(* Steps that touch neither the jobs nor the call in progress.             *)
LEMMA QuietStep ==
  ASSUME Core, UNCHANGED <<op, jobs, job, status, abandoned>>,
         ManagerDone => ManagerDone', Stopping'
  PROVE  Core'
<1>1. /\ op' = op /\ jobs' = jobs /\ job' = job /\ status' = status
      /\ abandoned' = abandoned
  OBVIOUS
<1>2. (Mapped /\ Known /\ Waiting /\ Missing)'
  BY <1>1 DEF Core, Mapped, Known, Waiting, Missing, Live
<1>3. (GivenUp /\ Shown /\ Claimed)'
  BY <1>1 DEF Core, GivenUp, Shown, Claimed, Live
<1>4. (Agreed /\ ListenersExclusive)'
  BY <1>1 DEF Core, Agreed, ListenersExclusive, Live
<1>5. Truthful'
  BY <1>1 DEF Core, Truthful
<1> QED BY <1>2, <1>3, <1>4, <1>5 DEF Core

(* Steps of the call that only move it on, outside the part that waits and *)
(* starts jobs.                                                            *)
LEMMA CallStep ==
  ASSUME Core, UNCHANGED <<jobs, job, status, abandoned, stop, stopped, workers>>,
         op.pc \notin {"await", "wait", "build"}, op'.pc \in {"free", "list", "swap"},
         op'.wait = {}, stop.pc # "idle" => op' = NoOp,
         ManagerDone' <=> ManagerDone
  PROVE  Core'
<1>1. /\ jobs' = jobs /\ job' = job /\ status' = status
      /\ abandoned' = abandoned /\ stop' = stop /\ stopped' = stopped
      /\ workers' = workers
  OBVIOUS
<1>2. op.wait = {}
  BY DEF Core, Waiting
<1>3. (Mapped /\ Known /\ Waiting /\ Missing)'
  BY <1>1, <1>2 DEF Core, Mapped, Known, Waiting, Missing, Live
<1>4. (GivenUp /\ Stopping /\ Shown /\ Claimed)'
  BY <1>1 DEF Core, GivenUp, Stopping, Shown, Claimed, Live
<1>5. (Agreed /\ ListenersExclusive)'
  BY <1>1 DEF Core, Agreed, ListenersExclusive, Live
<1>6. Truthful'
  BY <1>1, <1>2 DEF Core, Truthful
<1> QED BY <1>3, <1>4, <1>5, <1>6 DEF Core

(* A live job goes on to another phase and stays live.                     *)
LEMMA PhaseStep ==
  ASSUME TypeOK, Core, NEW j \in Slots, Live(j), Live(j)',
         UNCHANGED <<jobs, op, abandoned, stop, stopped, workers>>,
         \A i \in Slots : /\ job'[i].pub = job[i].pub /\ job'[i].fp = job[i].fp
                          /\ job'[i].cancelled <=> job[i].cancelled
                          /\ i # j => job'[i].phase = job[i].phase,
         \A p \in Pubs : \/ status'[p] = status[p]
                         \/ status'[p] \in {"stopped", "error"},
         Truthful'
  PROVE  Core'
<1>1. /\ jobs' = jobs /\ op' = op /\ abandoned' = abandoned /\ stop' = stop
      /\ stopped' = stopped /\ workers' = workers
  OBVIOUS
<1>2. \A i \in Slots : /\ job'[i].phase \notin {"free", "done"}
                           <=> job[i].phase \notin {"free", "done"}
                       /\ job'[i].phase # "free" <=> job[i].phase # "free"
  BY DEF Live
<1>3. jobs \in [Pubs -> Slots \cup {NoJob}] /\ op.wait \subseteq Slots
      /\ abandoned \subseteq Slots
  BY DEF TypeOK, Call
<1>4. (Mapped /\ Known /\ Waiting /\ Missing)'
  <2>1. Mapped' /\ Known'
    BY <1>1, <1>2, <1>3 DEF Core, Mapped, Known, Live, NoJob
  <2>2. Waiting'
    BY <1>1, <1>2, <1>3 DEF Core, Waiting
  <2>3. Missing'
    BY <1>1 DEF Core, Missing
  <2> QED BY <2>1, <2>2, <2>3
<1>5. (GivenUp /\ Stopping /\ Shown /\ Claimed)'
  <2>1. GivenUp' /\ Claimed'
    BY <1>1, <1>2, <1>3 DEF Core, GivenUp, Claimed, Live
  <2>2. Stopping' /\ Shown'
    BY <1>1, <1>3 DEF Core, Stopping, Shown
  <2> QED BY <2>1, <2>2
<1>6. (Agreed /\ ListenersExclusive)'
  <2>1. Agreed'
    BY <1>1, <1>3 DEF Core, Agreed, NoJob
  <2>2. ListenersExclusive'
    BY <1>1, <1>2 DEF Core, ListenersExclusive, Live
  <2> QED BY <2>1, <2>2
<1> QED BY <1>4, <1>5, <1>6 DEF Core

LEMMA ReturnsStep ==
  ASSUME TypeOK, Core, NEW j \in Slots, JobReturns(j) PROVE Core'
<1>1. /\ \A i \in Slots : /\ job'[i].pub = job[i].pub /\ job'[i].fp = job[i].fp
                          /\ job'[i].cancelled <=> job[i].cancelled
                          /\ i # j => job'[i].phase = job[i].phase
      /\ job[j].phase = "running" /\ job'[j].phase = "closing"
  BY DEF TypeOK, JobReturns, JobObject
<1>2. /\ jobs' = jobs /\ op' = op /\ abandoned' = abandoned /\ status' = status
      /\ (ManagerDone' <=> ManagerDone)
      /\ UNCHANGED <<jobs, op, abandoned, stop, stopped, workers>>
  BY DEF JobReturns, ManagerDone
<1>3. jobs \in [Pubs -> Slots \cup {NoJob}] /\ op.wait \subseteq Slots
  BY DEF TypeOK, Call
<1>4. Truthful'
  <2>1. SUFFICES ASSUME ~ManagerDone PROVE Truthful'
    BY <1>2 DEF Truthful
  <2>2. /\ abandoned' = {}
        /\ \A i \in Slots : job'[i].phase = "exitStopped" => job'[i].cancelled
        /\ \A p \in Pubs : jobs'[p] # NoJob =>
             /\ ~job'[jobs'[p]].cancelled
             /\ status'[p] = IF job'[jobs'[p]].phase \in {"ended", "done"}
                               THEN "error" ELSE "running"
    BY <2>1, <1>1, <1>2, <1>3 DEF Core, Truthful, NoJob
  <2>3. \A p \in Pubs : jobs'[p] = NoJob =>
         \/ status'[p] \in {"absent", "stopped"}
         \/ \E i \in op'.wait : job'[i].pub = p
         \/ op'.pc = "build" /\ p = Min(op'.todo)
    BY <2>1, <1>1, <1>2, <1>3 DEF Core, Truthful
  <2> QED BY <2>2, <2>3 DEF Truthful
<1> QED BY <1>1, <1>2, <1>4, PhaseStep DEF Live

LEMMA ChecksStep ==
  ASSUME TypeOK, Core, NEW j \in Slots, JobChecks(j) PROVE Core'
<1>1. /\ \A i \in Slots : /\ job'[i].pub = job[i].pub /\ job'[i].fp = job[i].fp
                          /\ job'[i].cancelled <=> job[i].cancelled
                          /\ i # j => job'[i].phase = job[i].phase
      /\ job[j].phase = "closing"
      /\ job'[j].phase \in {"exitStopped", "exitError"}
      /\ job'[j].phase = "exitStopped" /\ ~ManagerDone => job[j].cancelled
  BY DEF TypeOK, JobChecks, JobObject, Cancelled
<1>2. /\ jobs' = jobs /\ op' = op /\ abandoned' = abandoned /\ status' = status
      /\ (ManagerDone' <=> ManagerDone)
      /\ UNCHANGED <<jobs, op, abandoned, stop, stopped, workers>>
  BY DEF JobChecks, ManagerDone
<1>3. jobs \in [Pubs -> Slots \cup {NoJob}] /\ op.wait \subseteq Slots
  BY DEF TypeOK, Call
<1>4. Truthful'
  <2>1. SUFFICES ASSUME ~ManagerDone PROVE Truthful'
    BY <1>2 DEF Truthful
  <2>2. /\ abandoned' = {}
        /\ \A i \in Slots : job'[i].phase = "exitStopped" => job'[i].cancelled
        /\ \A p \in Pubs : jobs'[p] # NoJob =>
             /\ ~job'[jobs'[p]].cancelled
             /\ status'[p] = IF job'[jobs'[p]].phase \in {"ended", "done"}
                               THEN "error" ELSE "running"
    BY <2>1, <1>1, <1>2, <1>3 DEF Core, Truthful, NoJob
  <2>3. \A p \in Pubs : jobs'[p] = NoJob =>
         \/ status'[p] \in {"absent", "stopped"}
         \/ \E i \in op'.wait : job'[i].pub = p
         \/ op'.pc = "build" /\ p = Min(op'.todo)
    BY <2>1, <1>1, <1>2, <1>3 DEF Core, Truthful
  <2> QED BY <2>2, <2>3 DEF Truthful
<1> QED BY <1>1, <1>2, <1>4, PhaseStep DEF Live

(* A job that writes a status is the publisher's only one, unless it was   *)
(* given up.                                                               *)
LEMMA ReportsStep ==
  ASSUME TypeOK, Core, NEW j \in Slots, JobReports(j) PROVE Core'
<1>1. /\ \A i \in Slots : /\ job'[i].pub = job[i].pub /\ job'[i].fp = job[i].fp
                          /\ job'[i].cancelled <=> job[i].cancelled
                          /\ i # j => job'[i].phase = job[i].phase
      /\ job[j].phase \in {"exitStopped", "exitError"} /\ job'[j].phase = "ended"
  BY DEF TypeOK, JobReports, JobObject
<1>2. /\ jobs' = jobs /\ op' = op /\ abandoned' = abandoned
      /\ (ManagerDone' <=> ManagerDone)
      /\ UNCHANGED <<jobs, op, abandoned, stop, stopped, workers>>
  BY DEF JobReports, ManagerDone
<1>3. jobs \in [Pubs -> Slots \cup {NoJob}] /\ op.wait \subseteq Slots
  BY DEF TypeOK, Call
<1>4. \A p \in Pubs :
        status'[p] = IF p # job[j].pub THEN status[p]
                     ELSE IF job[j].phase = "exitStopped" THEN "stopped" ELSE "error"
  BY SetStateShape DEF JobReports, States
<1>5. job[j].pub \in Pubs
  BY <1>1 DEF Core, Mapped
<1>6. Truthful'
  <2>1. SUFFICES ASSUME ~ManagerDone PROVE Truthful'
    BY <1>2 DEF Truthful
  <2>2. \/ jobs[job[j].pub] = j /\ job[j].phase # "exitStopped"
        \/ jobs[job[j].pub] = NoJob /\ j \in op.wait
    BY <2>1, <1>1, <1>5 DEF Core, Truthful, Known, Waiting, Live, NoJob, Slots
  <2>3. /\ abandoned' = {}
        /\ \A i \in Slots : job'[i].phase = "exitStopped" => job'[i].cancelled
    BY <2>1, <1>1, <1>2 DEF Core, Truthful
  <2>4. \A p \in Pubs : jobs'[p] # NoJob =>
          /\ ~job'[jobs'[p]].cancelled
          /\ status'[p] = IF job'[jobs'[p]].phase \in {"ended", "done"}
                            THEN "error" ELSE "running"
    BY <2>1, <2>2, <1>1, <1>2, <1>3, <1>4, <1>5 DEF Core, Truthful, Mapped, NoJob
  <2>5. \A p \in Pubs : jobs'[p] = NoJob =>
         \/ status'[p] \in {"absent", "stopped"}
         \/ \E i \in op'.wait : job'[i].pub = p
         \/ op'.pc = "build" /\ p = Min(op'.todo)
    BY <2>1, <2>2, <1>1, <1>2, <1>3, <1>4 DEF Core, Truthful, NoJob, Slots
  <2> QED BY <2>3, <2>4, <2>5 DEF Truthful
<1>7. Live(j) /\ Live(j)'
  BY <1>1 DEF Live
<1>8. \A p \in Pubs : \/ status'[p] = status[p]
                      \/ status'[p] \in {"stopped", "error"}
  BY <1>4
<1> QED BY <1>1, <1>2, <1>6, <1>7, <1>8, PhaseStep

LEMMA ClosesStep ==
  ASSUME TypeOK, Core, NEW j \in Slots, JobCloses(j) PROVE Core'
<1> DEFINE referred == (\E p \in Pubs : jobs[p] = j) \/ j \in op.wait \cup stop.jobs
<1>1. /\ \A i \in Slots : i # j => job'[i] = job[i]
      /\ referred => /\ job'[j].pub = job[j].pub /\ job'[j].fp = job[j].fp
                     /\ job'[j].cancelled <=> job[j].cancelled
                     /\ job'[j].phase = "done"
      /\ ~referred => job'[j].phase = "free"
      /\ job[j].phase = "ended" /\ abandoned' = abandoned \ {j}
  BY DEF TypeOK, JobCloses, JobObject, NoObject
<1>2. /\ jobs' = jobs /\ op' = op /\ stop' = stop /\ status' = status
      /\ stopped' = stopped /\ workers' = workers /\ (ManagerDone' <=> ManagerDone)
  BY DEF JobCloses, ManagerDone
<1>3. /\ jobs \in [Pubs -> Slots \cup {NoJob}] /\ op.wait \subseteq Slots
      /\ abandoned \subseteq Slots /\ 0 \notin Slots
  BY DEF TypeOK, Call, Slots
<1>4. /\ \A p \in Pubs : jobs[p] = j => referred
      /\ j \in op.wait => referred
  OBVIOUS
<1> HIDE DEF referred
<1>5. \A i \in Slots : Live(i)' => Live(i) /\ i # j /\ job'[i] = job[i]
  BY <1>1 DEF Live
<1>6. \A i \in Slots : i # j => (Live(i)' <=> Live(i))
  BY <1>1 DEF Live
<1>7. Mapped'
  BY <1>1, <1>2, <1>3, <1>4 DEF Core, Mapped, NoJob
<1>8. Known'
  <2>1. ASSUME NEW i \in Slots, Live(i)'
        PROVE  (i \in abandoned \/ jobs[job[i].pub] = i \/ i \in op.wait) /\ i # j
    BY <1>5, <2>1 DEF Core, Known
  <2> QED BY <1>1, <1>2, <1>5, <2>1 DEF Known
<1>9. Waiting'
  BY <1>1, <1>2, <1>3, <1>4 DEF Core, Waiting
<1>10. Missing' /\ Stopping' /\ Shown'
  BY <1>2 DEF Core, Missing, Stopping, Shown
<1>11. GivenUp'
  BY <1>1, <1>3, <1>6 DEF Core, GivenUp
<1>12. Claimed'
  BY <1>5 DEF Core, Claimed
<1>13. ListenersExclusive'
  BY <1>1, <1>5 DEF Core, ListenersExclusive
<1>14. Agreed'
  BY <1>1, <1>2, <1>3, <1>4 DEF Core, Agreed, NoJob
<1>15. Truthful'
  <2>1. SUFFICES ASSUME ~ManagerDone PROVE Truthful'
    BY <1>2 DEF Truthful
  <2>2. /\ abandoned' = {}
        /\ \A i \in Slots : job'[i].phase = "exitStopped" => job'[i].cancelled
    BY <2>1, <1>1 DEF Core, Truthful
  <2>3. \A p \in Pubs : jobs'[p] # NoJob =>
          /\ ~job'[jobs'[p]].cancelled
          /\ status'[p] = IF job'[jobs'[p]].phase \in {"ended", "done"}
                            THEN "error" ELSE "running"
    BY <2>1, <1>1, <1>2, <1>3, <1>4 DEF Core, Truthful, NoJob
  <2>4. \A p \in Pubs : jobs'[p] = NoJob =>
         \/ status'[p] \in {"absent", "stopped"}
         \/ \E i \in op'.wait : job'[i].pub = p
         \/ op'.pc = "build" /\ p = Min(op'.todo)
    <3>1. \A i \in op.wait : job'[i].pub = job[i].pub
      BY <1>1, <1>3, <1>4
    <3> QED BY <2>1, <1>2, <3>1 DEF Core, Truthful
  <2> QED BY <2>2, <2>3, <2>4 DEF Truthful
<1> QED
  BY <1>7, <1>8, <1>9, <1>10, <1>11, <1>12, <1>13, <1>14, <1>15 DEF Core

(* A job that a call waits for is in no map.                               *)
LEMMA WaitedIsUnmapped ==
  ASSUME TypeOK, Core
  PROVE  \A j \in op.wait : /\ \A p \in Pubs : jobs[p] # j
                            /\ j \in Slots /\ job[j].pub \in Pubs
                            /\ jobs[job[j].pub] = NoJob /\ op # NoOp
<1>1. op.wait \subseteq Slots /\ 0 \notin Slots
  BY DEF TypeOK, Call, Slots
<1> QED BY <1>1 DEF Core, Mapped, Waiting, NoJob, NoOp

LEMMA WaitedStep ==
  ASSUME TypeOK, Core, NEW j \in Slots, Waited(j) PROVE Core'
<1>1. /\ j \in op.wait /\ op.pc \in {"await", "wait"} /\ job[j].phase = "done"
      /\ \A i \in Slots : i # j => job'[i] = job[i]
      /\ job'[j].phase = "free"
  BY DEF TypeOK, Waited, NoObject
<1>2. /\ jobs' = jobs /\ stop' = stop /\ abandoned' = abandoned
      /\ (ManagerDone' <=> ManagerDone)
      /\ status' = SetState({job[j].pub}, "stopped")
  BY DEF Waited, ManagerDone
<1>3. /\ op'.wait = op.wait \ {j} /\ op'.todo = op.todo /\ op'.cfgs = op.cfgs
      /\ op'.errs = op.errs
      /\ op.wait # {j} => op'.pc = op.pc
      /\ op.wait = {j} => op'.pc = IF op.pc = "await" THEN "list" ELSE "start"
  <2> DEFINE next == IF op.wait # {j} THEN op.pc
                     ELSE IF op.pc = "await" THEN "list" ELSE "start"
  <2>1. op' = [op EXCEPT !.wait = op.wait \ {j}, !.pc = next]
    BY DEF Waited
  <2>2. /\ op.wait # {j} => next = op.pc
        /\ op.wait = {j} => next = IF op.pc = "await" THEN "list" ELSE "start"
    OBVIOUS
  <2> HIDE DEF next
  <2>3. /\ op'.wait = op.wait \ {j} /\ op'.todo = op.todo /\ op'.cfgs = op.cfgs
        /\ op'.errs = op.errs /\ op'.pc = next
    BY <2>1 DEF TypeOK, Call
  <2> QED BY <2>2, <2>3
<1>4. \A p \in Pubs : status'[p] = IF p = job[j].pub THEN "stopped" ELSE status[p]
  BY <1>2, SetStateShape DEF States
<1>5. /\ jobs \in [Pubs -> Slots \cup {NoJob}] /\ op.wait \subseteq Slots
      /\ abandoned \subseteq Slots /\ 0 \notin Slots
  BY DEF TypeOK, Call, Slots
<1>6. /\ \A p \in Pubs : jobs[p] # j
      /\ job[j].pub \in Pubs /\ jobs[job[j].pub] = NoJob
      /\ stop.pc = "idle"
  BY <1>1, WaitedIsUnmapped DEF Core, Stopping
<1>7. \A i \in Slots :
        /\ job'[i].phase \notin {"free", "done"} <=> job[i].phase \notin {"free", "done"}
        /\ job[i].phase \notin {"free", "done"} => i # j /\ job'[i] = job[i]
  BY <1>1
<1>8. Mapped'
  BY <1>1, <1>2, <1>5, <1>6 DEF Core, Mapped, NoJob
<1>9. Known'
  <2>1. ASSUME NEW i \in Slots, Live(i)
        PROVE  i \in abandoned \/ jobs[job[i].pub] = i \/ i \in op.wait
    BY <2>1 DEF Core, Known
  <2> QED BY <1>2, <1>3, <1>7, <2>1 DEF Known, Live
<1>10. Waiting'
  BY <1>1, <1>2, <1>3, <1>5 DEF Core, Waiting
<1>11. Missing'
  BY <1>1, <1>2, <1>3 DEF Core, Missing
<1>12. GivenUp'
  BY <1>2, <1>5, <1>7 DEF Core, GivenUp, Live
<1>13. Stopping'
  BY <1>2, <1>6 DEF Stopping
<1>14. Shown'
  BY <1>1, <1>2, <1>4, <1>6 DEF Core, Shown
<1>15. Claimed'
  BY <1>7 DEF Core, Claimed, Live
<1>16. ListenersExclusive'
  BY <1>2, <1>7 DEF Core, ListenersExclusive, Live
<1>17. Agreed'
  BY <1>1, <1>2, <1>3, <1>5, <1>6 DEF Core, Agreed, NoJob
<1>18. Truthful'
  <2>1. SUFFICES ASSUME ~ManagerDone PROVE Truthful'
    BY <1>2 DEF Truthful
  <2>2. /\ abandoned' = {}
        /\ \A i \in Slots : job'[i].phase = "exitStopped" => job'[i].cancelled
    BY <2>1, <1>1, <1>2 DEF Core, Truthful
  <2>3. \A p \in Pubs : jobs'[p] # NoJob =>
          /\ ~job'[jobs'[p]].cancelled
          /\ status'[p] = IF job'[jobs'[p]].phase \in {"ended", "done"}
                            THEN "error" ELSE "running"
    <3>1. \A p \in Pubs : jobs[p] # NoJob => /\ job'[jobs[p]] = job[jobs[p]]
                                             /\ status'[p] = status[p]
      BY <1>1, <1>4, <1>5, <1>6
    <3> QED BY <2>1, <3>1, <1>2 DEF Core, Truthful
  <2>4. ASSUME NEW p \in Pubs, jobs[p] = NoJob, status'[p] \notin {"absent", "stopped"}
        PROVE  \E i \in op'.wait : job'[i].pub = p
    <3>1. p # job[j].pub
      BY <1>4, <2>4
    <3>2. PICK i \in op.wait : job[i].pub = p
      BY <1>1, <1>4, <2>1, <2>4, <3>1 DEF Core, Truthful
    <3>3. i # j
      BY <3>1, <3>2
    <3> QED BY <1>1, <1>3, <1>5, <3>2, <3>3
  <2> QED BY <1>2, <2>2, <2>3, <2>4 DEF Truthful
<1> QED
  BY <1>8, <1>9, <1>10, <1>11, <1>12, <1>13, <1>14, <1>15, <1>16, <1>17, <1>18
     DEF Core

(* A wait is given up only when the manager's context is done.             *)
LEMMA AbortedStep ==
  ASSUME TypeOK, Core, WaitAborted PROVE Core'
<1>1. /\ op.pc \in {"await", "wait"} /\ op' = NoOp
      /\ jobs' = jobs /\ stop' = stop /\ status' = status
      /\ abandoned' = abandoned \cup {j \in op.wait : Live(j)}
      /\ ManagerDone'
  BY DEF WaitAborted, ReturnError, ContextDone, ManagerDone
<1>2. \A j \in Slots : \/ job'[j] = job[j]
                       \/ /\ j \in op.wait /\ job[j].phase = "done"
                         /\ job'[j].phase = "free"
  BY ReleasedShape DEF WaitAborted, NoObject
<1>3. /\ jobs \in [Pubs -> Slots \cup {NoJob}] /\ op.wait \subseteq Slots
      /\ abandoned \subseteq Slots /\ 0 \notin Slots
  BY DEF TypeOK, Call, Slots
<1>4. \A p \in Pubs : jobs[p] # NoJob => job'[jobs[p]] = job[jobs[p]]
  BY <1>2, <1>3, WaitedIsUnmapped
<1>5. stop.pc = "idle" /\ NoOp.pc = "free" /\ NoOp.wait = {}
  BY <1>1 DEF Core, Stopping, NoOp
<1>6. \A i \in Slots :
        /\ job'[i].phase \notin {"free", "done"} <=> job[i].phase \notin {"free", "done"}
        /\ job[i].phase \notin {"free", "done"} => job'[i] = job[i]
  BY <1>2
<1>7. Mapped'
  BY <1>1, <1>2, <1>3, <1>4 DEF Core, Mapped, NoJob
<1>8. Known'
  <2>1. ASSUME NEW i \in Slots, Live(i)
        PROVE  i \in abandoned \/ jobs[job[i].pub] = i \/ i \in op.wait
    BY <2>1 DEF Core, Known
  <2> QED BY <1>1, <1>6, <2>1 DEF Known, Live
<1>9. Waiting' /\ Missing' /\ Stopping' /\ Agreed'
  BY <1>1, <1>5 DEF Waiting, Missing, Stopping, Agreed
<1>10. GivenUp'
  BY <1>1, <1>3, <1>6 DEF Core, GivenUp, Live
<1>11. Shown'
  BY <1>1 DEF Core, Shown
<1>12. Claimed'
  BY <1>6 DEF Core, Claimed, Live
<1>13. ListenersExclusive'
  BY <1>1, <1>6 DEF Core, ListenersExclusive, Live
<1>14. Truthful'
  BY <1>1 DEF Truthful
<1> QED
  BY <1>7, <1>8, <1>9, <1>10, <1>11, <1>12, <1>13, <1>14 DEF Core

LEMMA StartJobStep ==
  ASSUME TypeOK, Core, StartJob PROVE Core'
<1> DEFINE p == Min(op.todo)
<1>1. /\ op.pc = "start" /\ op'.pc = "build" /\ op'.todo = op.todo
      /\ op'.wait = op.wait /\ op'.cfgs = op.cfgs /\ op'.errs = op.errs
      /\ jobs' = jobs /\ stop' = stop /\ abandoned' = abandoned /\ job' = job
      /\ (ManagerDone' <=> ManagerDone) /\ op.todo # {}
  BY DEF TypeOK, Call, StartJob, ManagerDone
<1>2. \A q \in Pubs : status'[q] = IF q = p THEN "starting" ELSE status[q]
  BY SetStateShape DEF StartJob, States
<1>3. p \in Pubs /\ jobs[p] = NoJob /\ Min(op'.todo) = p
  BY <1>1, LeastTodo DEF Core, Missing
<1> HIDE DEF p
<1>4. stop.pc = "idle" /\ op.wait = {}
  BY <1>1 DEF Core, Stopping, NoOp, Waiting
<1>5. Mapped' /\ Waiting' /\ Missing' /\ Stopping' /\ Agreed'
  BY <1>1, <1>4 DEF Core, Mapped, Waiting, Missing, Stopping, Agreed
<1>6. Known' /\ GivenUp' /\ Claimed' /\ ListenersExclusive'
  BY <1>1 DEF Core, Known, GivenUp, Claimed, ListenersExclusive, Live
<1>7. Shown'
  BY <1>1, <1>2, <1>3 DEF Core, Shown
<1>8. Truthful'
  BY <1>1, <1>2, <1>3, <1>4 DEF Core, Truthful
<1> QED BY <1>5, <1>6, <1>7, <1>8 DEF Core

(* Every job that runs when one is started has the fingerprint that the    *)
(* call asks for, so the new listener conflicts with none of theirs.       *)
LEMMA BuildStep ==
  ASSUME TypeOK, Core, NEW failed \in BOOLEAN, BuildJob(failed) PROVE Core'
<1> DEFINE p == Min(op.todo)
           k == CHOOSE j \in Slots : Available(j)
           fp == Fingerprint(op.cfgs, op.errs, p)
           o == [pub |-> p, fp |-> fp, cancelled |-> FALSE,
                 phase |-> IF failed THEN "done" ELSE "running"]
<1>1. /\ op.pc = "build" /\ op.todo # {} /\ op.wait = {} /\ stop.pc = "idle"
  BY DEF Core, BuildJob, Missing, Waiting, Stopping, NoOp
<1>2. /\ p \in Pubs /\ jobs[p] = NoJob /\ op.cfgs[p] # Disabled
      /\ op.cfgs \in [Pubs -> Configs \cup {Disabled}]
  BY <1>1, LeastTodo DEF Core, Missing, TypeOK, Call
<1>3. k \in Slots /\ job[k].phase = "free"
  BY DEF BuildJob, Store, Available
<1>4. /\ jobs' = [jobs EXCEPT ![p] = k] /\ job' = [job EXCEPT ![k] = o]
      /\ status' = SetState({p}, IF failed THEN "error" ELSE "running")
      /\ op' = [op EXCEPT !.pc = "start", !.todo = op.todo \ {p}]
      /\ stop' = stop /\ abandoned' = abandoned /\ (ManagerDone' <=> ManagerDone)
      /\ ~failed => fp = <<"norm", op.cfgs[p], 0>>
  BY DEF BuildJob, Store, ManagerDone, Refused
<1>5. fp = Fingerprint(op.cfgs, op.errs, p) /\ p = Min(op.todo)
  OBVIOUS
<1>6. /\ o.pub = p /\ o.fp = fp /\ o.cancelled = FALSE
      /\ o.phase = IF failed THEN "done" ELSE "running"
  OBVIOUS
<1> HIDE DEF p, k, fp, o
<1>7. /\ op'.pc = "start" /\ op'.todo = op.todo \ {p} /\ op'.wait = {}
      /\ op'.cfgs = op.cfgs /\ op'.errs = op.errs
  BY <1>1, <1>4 DEF TypeOK, Call
<1>8. /\ jobs'[p] = k /\ \A q \in Pubs : q # p => jobs'[q] = jobs[q]
      /\ job'[k] = o /\ \A i \in Slots : i # k => job'[i] = job[i]
  BY <1>2, <1>3, <1>4 DEF TypeOK
<1>9. \A q \in Pubs :
        status'[q] = IF q = p THEN IF failed THEN "error" ELSE "running" ELSE status[q]
  BY <1>4, SetStateShape DEF States
<1>10. /\ jobs \in [Pubs -> Slots \cup {NoJob}] /\ abandoned \subseteq Slots
       /\ NoJob \notin Slots
       /\ \A q \in Pubs : jobs[q] # k
  BY <1>3 DEF TypeOK, Slots, NoJob, Core, Mapped
<1>11. Mapped'
  BY <1>2, <1>3, <1>6, <1>8, <1>10 DEF Core, Mapped
<1>12. Known'
  <2>1. ASSUME NEW i \in Slots, Live(i)', i # k
        PROVE  i \in abandoned \/ jobs'[job'[i].pub] = i
    <3>1. Live(i) /\ job'[i] = job[i] /\ job[i].pub \in Pubs
      BY <1>8, <2>1 DEF Live, Core, Mapped
    <3>2. i \in abandoned \/ jobs[job[i].pub] = i
      BY <1>1, <3>1 DEF Core, Known
    <3> QED BY <1>2, <1>8, <1>10, <3>1, <3>2
  <2>2. jobs'[job'[k].pub] = k
    BY <1>6, <1>8
  <2> QED BY <1>4, <2>1, <2>2 DEF Known
<1>13. Waiting' /\ Stopping'
  BY <1>1, <1>4, <1>7 DEF Waiting, Stopping
<1>14. Missing'
  <2>1. op.todo \subseteq Pubs
    BY DEF TypeOK, Call
  <2> QED BY <1>1, <1>7, <1>8, <2>1 DEF Core, Missing
<1>15. GivenUp'
  BY <1>3, <1>4, <1>8, <1>10 DEF Core, GivenUp, Live
<1>16. Shown'
  BY <1>1, <1>5, <1>3, <1>8, <1>9, <1>10 DEF Core, Shown
<1>17. Claimed'
  <2>1. ~failed => fp[2] \in Configs /\ fp = <<"norm", fp[2], 0>>
    BY <1>2, <1>4
  <2> QED BY <1>6, <1>8, <2>1 DEF Core, Claimed, Live
<1>18. Agreed'
  <2>1. \A q \in Pubs : jobs'[q] # NoJob =>
          op.cfgs[q] # Disabled
          /\ job'[jobs'[q]].fp = Fingerprint(op.cfgs, op.errs, q)
    BY <1>1, <1>2, <1>5, <1>6, <1>8, <1>10 DEF Core, Agreed
  <2> QED BY <1>7, <2>1 DEF Agreed
<1>19. Truthful'
  <2>1. SUFFICES ASSUME ~ManagerDone PROVE Truthful'
    BY <1>4 DEF Truthful
  <2>2. /\ abandoned' = {}
        /\ \A i \in Slots : job'[i].phase = "exitStopped" => job'[i].cancelled
    BY <2>1, <1>4, <1>6, <1>8 DEF Core, Truthful
  <2>3. \A q \in Pubs : jobs'[q] # NoJob =>
          /\ ~job'[jobs'[q]].cancelled
          /\ status'[q] = IF job'[jobs'[q]].phase \in {"ended", "done"}
                            THEN "error" ELSE "running"
    <3>1. ~job'[k].cancelled /\ job'[k].phase = IF failed THEN "done" ELSE "running"
      BY <1>6, <1>8
    <3>2. \A q \in Pubs : jobs[q] # NoJob =>
            jobs'[q] = jobs[q] /\ job'[jobs[q]] = job[jobs[q]] /\ status'[q] = status[q]
      BY <1>2, <1>8, <1>9, <1>10
    <3>3. jobs'[p] = k /\ status'[p] = IF failed THEN "error" ELSE "running"
      BY <1>2, <1>8, <1>9
    <3>4. \A q \in Pubs : jobs'[q] # NoJob => q = p \/ jobs[q] # NoJob
      BY <1>8
    <3> QED BY <2>1, <3>1, <3>2, <3>3, <3>4 DEF Core, Truthful
  <2>4. \A q \in Pubs : jobs'[q] = NoJob => status'[q] \in {"absent", "stopped"}
    BY <2>1, <1>1, <1>3, <1>5, <1>8, <1>9, <1>10 DEF Core, Truthful
  <2> QED BY <2>2, <2>3, <2>4 DEF Truthful
<1>20. ListenersExclusive'
  <2>1. SUFFICES ASSUME NEW a \in {l \in Slots : Live(l)'} \ abandoned',
                        NEW b \in {l \in Slots : Live(l)'} \ abandoned', a # b
                 PROVE  <<job'[a].fp[2], job'[b].fp[2]>> \notin Conflicts
    BY DEF ListenersExclusive
  <2>2. ASSUME NEW i \in {l \in Slots : Live(l)'} \ abandoned'
        PROVE  \E q \in Pubs : /\ jobs'[q] = i /\ op.cfgs[q] # Disabled
                               /\ job'[i].fp[2] = op.cfgs[q]
                               /\ Fingerprint(op.cfgs, op.errs, q) = <<"norm", op.cfgs[q], 0>>
    <3> DEFINE q == job'[i].pub
    <3>1. q \in Pubs /\ jobs'[q] = i /\ i # NoJob
      BY <1>7, <1>10, <1>11, <1>12, <2>2 DEF Known, Mapped, Live
    <3>2. op.cfgs[q] # Disabled /\ job'[i].fp = Fingerprint(op.cfgs, op.errs, q)
      BY <1>7, <1>18, <3>1 DEF Agreed
    <3>3. job'[i].fp = <<"norm", job'[i].fp[2], 0>>
      BY <1>17, <2>2 DEF Claimed
    <3>4. job'[i].fp[2] = op.cfgs[q]
      BY <1>2, <3>1, <3>2, FingerprintType
    <3> HIDE DEF q
    <3> QED BY <3>1, <3>2, <3>3, <3>4
  <2>3. PICK q \in Pubs : /\ jobs'[q] = a /\ op.cfgs[q] # Disabled
                          /\ job'[a].fp[2] = op.cfgs[q]
                          /\ Fingerprint(op.cfgs, op.errs, q) = <<"norm", op.cfgs[q], 0>>
    BY <2>2
  <2>4. PICK r \in Pubs : /\ jobs'[r] = b /\ op.cfgs[r] # Disabled
                          /\ job'[b].fp[2] = op.cfgs[r]
                          /\ Fingerprint(op.cfgs, op.errs, r) = <<"norm", op.cfgs[r], 0>>
    BY <2>2
  <2>5. q # r
    BY <2>1, <2>3, <2>4
  <2>6. <<op.cfgs[q], op.cfgs[r]>> \notin Conflicts
    BY <1>2, <2>3, <2>4, <2>5, OwnersExclude
  <2> QED BY <2>3, <2>4, <2>6
<1> QED
  BY <1>11, <1>12, <1>13, <1>14, <1>15, <1>16, <1>17, <1>18, <1>19, <1>20 DEF Core

(* A call takes the jobs of the publishers gone out of the map, cancels    *)
(* them (J) and is to wait for them.                                       *)
TakesOut(gone, J) ==
  /\ \A p \in gone : jobs[p] # NoJob
  /\ \A p \in gone : jobs[p] \in J
  /\ \A j \in J : \E p \in gone : jobs[p] = j
  /\ \A i \in Slots :
       /\ job'[i].pub = job[i].pub /\ job'[i].fp = job[i].fp
       /\ job'[i].phase = job[i].phase
       /\ job'[i].cancelled <=> job[i].cancelled \/ i \in J
  /\ \A p \in Pubs :
       /\ jobs'[p] = IF p \in gone THEN NoJob ELSE jobs[p]
       /\ status'[p] = IF p \in gone THEN "stopping" ELSE status[p]
  /\ op.wait = {} /\ op'.wait = J
  /\ op.pc # "build" /\ op'.pc # "build"
  /\ gone # {} => op'.pc \in {"await", "wait"}
  /\ UNCHANGED <<abandoned, stop>>

LEMMA TakeOutStep ==
  ASSUME TypeOK, Core, NEW gone \in SUBSET Pubs, NEW J, TakesOut(gone, J),
         stop.pc = "idle", ManagerDone => ManagerDone', Missing', Agreed'
  PROVE  Core'
<1> USE DEF TakesOut
<1>1. /\ jobs \in [Pubs -> Slots \cup {NoJob}] /\ abandoned \subseteq Slots
      /\ NoJob \notin Slots /\ J \in SUBSET Slots
  BY DEF TypeOK, Slots, NoJob
<1>2. \A i \in Slots : /\ job'[i].pub = job[i].pub /\ job'[i].fp = job[i].fp
                       /\ job'[i].phase = job[i].phase
                       /\ job'[i].cancelled <=> job[i].cancelled \/ i \in J
  OBVIOUS
<1>3. /\ \A p \in Pubs : jobs'[p] = IF p \in gone THEN NoJob ELSE jobs[p]
      /\ op'.wait = J /\ abandoned' = abandoned /\ stop' = stop
      /\ gone # {} => op'.pc \in {"await", "wait"}
  OBVIOUS
<1>4. \A p \in Pubs : status'[p] = IF p \in gone THEN "stopping" ELSE status[p]
  OBVIOUS
<1>5. \A p \in gone : /\ p \in Pubs /\ jobs[p] \in J /\ jobs[p] \in Slots
                      /\ job[jobs[p]].phase # "free" /\ job[jobs[p]].pub = p
  BY <1>1 DEF Core, Mapped
<1>6. \A j \in J : /\ j \in Slots /\ job[j].pub \in gone
                   /\ jobs[job[j].pub] = j /\ job[j].phase # "free"
  BY <1>5
<1>7. Mapped'
  BY <1>1, <1>2, <1>3 DEF Core, Mapped
<1>8. Known'
  <2>1. ASSUME NEW i \in Slots, Live(i)
        PROVE  i \in abandoned \/ jobs[job[i].pub] = i
    BY <2>1 DEF Core, Known
  <2>2. ASSUME NEW i \in Slots, Live(i), jobs[job[i].pub] = i
        PROVE  jobs'[job[i].pub] = i \/ i \in J
    <3>1. job[i].pub \in Pubs
      BY <2>2 DEF Core, Mapped, Live
    <3> QED BY <1>3, <1>5, <2>2, <3>1
  <2> QED BY <1>2, <1>3, <2>1, <2>2 DEF Known, Live
<1>9. Waiting'
  <2>1. op'.pc \notin {"await", "wait"} => op'.wait = {}
    OBVIOUS
  <2>2. \A j \in op'.wait : /\ job'[j].phase # "free" /\ job'[j].cancelled
                            /\ jobs'[job'[j].pub] = NoJob
    BY <1>2, <1>3, <1>6
  <2>3. \A j, k \in op'.wait : job'[j].pub = job'[k].pub => j = k
    BY <1>2, <1>3, <1>6
  <2> QED BY <2>1, <2>2, <2>3 DEF Waiting
<1>10. GivenUp' /\ Claimed' /\ ListenersExclusive'
  BY <1>1, <1>2, <1>3 DEF Core, GivenUp, Claimed, ListenersExclusive, Live
<1>11. Stopping'
  BY <1>3 DEF Stopping
<1>12. Shown'
  BY <1>3, <1>4 DEF Core, Shown
<1>13. Truthful'
  <2>1. SUFFICES ASSUME ~ManagerDone PROVE Truthful'
    BY DEF Truthful
  <2>2. /\ abandoned' = {}
        /\ \A i \in Slots : job'[i].phase = "exitStopped" => job'[i].cancelled
    BY <2>1, <1>2, <1>3 DEF Core, Truthful
  <2>3. \A p \in Pubs : jobs'[p] # NoJob =>
          /\ ~job'[jobs'[p]].cancelled
          /\ status'[p] = IF job'[jobs'[p]].phase \in {"ended", "done"}
                            THEN "error" ELSE "running"
    <3>1. ASSUME NEW p \in Pubs, jobs'[p] # NoJob
          PROVE  /\ jobs'[p] = jobs[p] /\ jobs[p] \in Slots /\ jobs[p] \notin J
                 /\ status'[p] = status[p]
      <4>1. p \notin gone /\ jobs[p] # NoJob
        BY <1>3, <3>1
      <4>2. job[jobs[p]].pub = p
        BY <4>1 DEF Core, Mapped
      <4> QED BY <1>1, <1>3, <1>4, <1>6, <4>1, <4>2
    <3> QED BY <2>1, <3>1, <1>2 DEF Core, Truthful
  <2>4. ASSUME NEW p \in Pubs, status'[p] \notin {"absent", "stopped"}, jobs'[p] = NoJob
        PROVE  \E i \in op'.wait : job'[i].pub = p
    <3>1. CASE p \in gone
      BY <1>2, <1>3, <1>5, <3>1
    <3>2. CASE p \notin gone
      BY <1>3, <1>4, <2>1, <2>4, <3>2 DEF Core, Truthful
    <3> QED BY <3>1, <3>2
  <2> QED BY <2>2, <2>3, <2>4 DEF Truthful
<1> QED
  BY <1>7, <1>8, <1>9, <1>10, <1>11, <1>12, <1>13 DEF Core

LEMMA RestartStep ==
  ASSUME TypeOK, Core, NEW c \in Reconcilers, NEW r \in Pubs, BeginRestart(c, r)
  PROVE  Core'
<1>1. /\ op = NoOp /\ ~stopped /\ abandoned' = abandoned /\ stop' = stop
      /\ stopped' = stopped /\ workers' = workers /\ (ManagerDone' <=> ManagerDone)
      /\ NoOp.pc = "free" /\ NoOp.wait = {}
  BY DEF BeginRestart, ManagerDone, NoOp
<1>2. stop.pc = "idle"
  BY <1>1 DEF Core, Stopping
<1>3. CASE jobs[r] = NoJob
  <2>1. /\ UNCHANGED <<jobs, job, status, abandoned, stop, stopped, workers>>
        /\ op'.pc = "list" /\ op'.wait = {}
    BY <1>1, <1>3 DEF BeginRestart, NoOp
  <2> QED BY <1>1, <1>2, <2>1, CallStep
<1>4. CASE jobs[r] # NoJob
  <2>1. /\ op'.pc = "await" /\ op'.wait = {jobs[r]}
        /\ job' = Cancelling({jobs[r]}) /\ jobs' = [jobs EXCEPT ![r] = NoJob]
        /\ status' = SetState({r}, "stopping")
    BY <1>4 DEF BeginRestart, NoOp
  <2>2. /\ \A p \in Pubs : jobs'[p] = IF p \in {r} THEN NoJob ELSE jobs[p]
        /\ {jobs[p] : p \in {r}} = {jobs[r]}
    BY <2>1 DEF TypeOK
  <2>3. Missing' /\ Agreed'
    BY <2>1 DEF Missing, Agreed
  <2>4. {jobs[r]} \in SUBSET Slots
    BY <1>4 DEF TypeOK
  <2>5. \A i \in Slots : /\ job'[i].pub = job[i].pub /\ job'[i].fp = job[i].fp
                         /\ job'[i].phase = job[i].phase
                         /\ job'[i].cancelled <=> job[i].cancelled \/ i \in {jobs[r]}
    BY <2>1, <2>4, CancellingShape
  <2>6. \A p \in Pubs : status'[p] = IF p \in {r} THEN "stopping" ELSE status[p]
    BY <2>1, SetStateShape DEF States
  <2>7. UNCHANGED <<abandoned, stop>> /\ op'.pc # "build" /\ op.pc # "build" /\ op.wait = {}
    BY <1>1, <2>1
  <2> DEFINE gone == {r}
  <2>8. /\ gone \in SUBSET Pubs /\ \A p \in gone : jobs[p] # NoJob
        /\ {jobs[p] : p \in gone} = {jobs[r]}
    BY <1>4
  <2>9. op'.wait = {jobs[r]} /\ op'.pc \in {"await", "wait"}
    BY <2>1
  <2>10. ManagerDone => ManagerDone'
    BY <1>1
  <2>11. \A p \in Pubs :
           /\ jobs'[p] = IF p \in gone THEN NoJob ELSE jobs[p]
           /\ status'[p] = IF p \in gone THEN "stopping" ELSE status[p]
    BY <2>2, <2>6
  <2> DEFINE J == {jobs[r]}
  <2>12. J = {jobs[p] : p \in gone} /\ op'.wait = J
    BY <2>8, <2>9
  <2>13. \A i \in Slots : /\ job'[i].pub = job[i].pub /\ job'[i].fp = job[i].fp
                          /\ job'[i].phase = job[i].phase
                          /\ job'[i].cancelled <=> job[i].cancelled \/ i \in J
    BY <2>5
  <2>14. /\ gone \in SUBSET Pubs /\ \A p \in gone : jobs[p] # NoJob
         /\ gone # {} => op'.pc \in {"await", "wait"}
    BY <2>8, <2>9
  <2> HIDE DEF gone, J
  <2>15. TakesOut(gone, J)
    <3>1. op.wait = {} /\ op'.wait = J /\ op.pc # "build" /\ op'.pc # "build" /\ UNCHANGED <<abandoned, stop>>
      BY <2>7, <2>12
    <3>2. (\A p \in gone : jobs[p] # NoJob) /\ (gone # {} => op'.pc \in {"await", "wait"})
      BY <2>14
    <3>3. (\A p \in gone : jobs[p] \in J) /\ (\A j \in J : \E p \in gone : jobs[p] = j)
      BY <2>12
    <3> QED BY <3>1, <3>2, <3>3, <2>11, <2>13 DEF TakesOut
  <2> QED BY <1>2, <2>3, <2>10, <2>14, <2>15, TakeOutStep
<1> QED BY <1>3, <1>4

LEMMA SwapStep ==
  ASSUME TypeOK, Core, Swap PROVE Core'
<1> DEFINE wanted == {p \in Pubs : op.cfgs[p] # Disabled}
           kept   == {p \in wanted : /\ jobs[p] # NoJob
                                     /\ job[jobs[p]].fp = Fingerprint(op.cfgs, op.errs, p)}
           gone   == {p \in Pubs \ kept : jobs[p] # NoJob}
<1>1. /\ op.pc = "swap" /\ job' = Cancelling({jobs[p] : p \in gone})
      /\ jobs' = [p \in Pubs |-> IF p \in gone THEN NoJob ELSE jobs[p]]
      /\ status' = SetState(gone, "stopping")
      /\ UNCHANGED <<abandoned, stop>> /\ (ManagerDone' <=> ManagerDone)
  BY DEF Swap, ManagerDone
<1>2. /\ op'.pc = IF gone = {} THEN "start" ELSE "wait"
      /\ op'.wait = {jobs[p] : p \in gone} /\ op'.todo = wanted \ kept
      /\ op'.cfgs = op.cfgs /\ op'.errs = op.errs
  BY DEF Swap, TypeOK, Call
<1>3. stop.pc = "idle" /\ op.wait = {}
  BY <1>1 DEF Core, Stopping, Waiting, NoOp
<1>4. Missing'
  <2>1. \A p \in wanted \ kept : jobs'[p] = NoJob /\ op.cfgs[p] # Disabled
    BY <1>1
  <2> QED BY <1>2, <2>1 DEF Missing
<1>5. Agreed'
  <2>1. \A p \in Pubs : jobs'[p] # NoJob => p \in kept /\ jobs'[p] = jobs[p]
    BY <1>1
  <2>2. \A p \in kept : /\ op.cfgs[p] # Disabled /\ jobs[p] # NoJob
                        /\ job[jobs[p]].fp = Fingerprint(op.cfgs, op.errs, p)
    OBVIOUS
  <2>3. {jobs[p] : p \in gone} \in SUBSET Slots /\ jobs \in [Pubs -> Slots \cup {NoJob}]
    BY DEF TypeOK
  <2>4. \A j \in Slots : job'[j].fp = job[j].fp
    BY <1>1, <2>3, CancellingShape
  <2> HIDE DEF kept, gone
  <2>5. \A p \in Pubs : jobs'[p] # NoJob =>
          op.cfgs[p] # Disabled /\ job'[jobs'[p]].fp = Fingerprint(op.cfgs, op.errs, p)
    BY <2>1, <2>2, <2>3, <2>4
  <2> QED BY <1>2, <2>5 DEF Agreed
<1>6. gone \in SUBSET Pubs /\ \A p \in gone : jobs[p] # NoJob
  OBVIOUS
<1>7. \A p \in Pubs : jobs'[p] = IF p \in gone THEN NoJob ELSE jobs[p]
  BY <1>1
<1>8. {jobs[p] : p \in gone} \in SUBSET Slots
  BY DEF TypeOK
<1> DEFINE J == {jobs[p] : p \in gone}
<1> HIDE DEF gone
<1>9. \A i \in Slots :
        /\ job'[i].pub = job[i].pub /\ job'[i].fp = job[i].fp
        /\ job'[i].phase = job[i].phase
        /\ job'[i].cancelled <=> job[i].cancelled \/ i \in J
  BY <1>1, <1>8, CancellingShape
<1>10. \A p \in Pubs :
         /\ jobs'[p] = IF p \in gone THEN NoJob ELSE jobs[p]
         /\ status'[p] = IF p \in gone THEN "stopping" ELSE status[p]
  BY <1>1, <1>7, SetStateShape DEF States
<1>11. /\ op'.wait = J
       /\ gone # {} => op'.pc \in {"await", "wait"}
       /\ ManagerDone => ManagerDone'
       /\ UNCHANGED <<abandoned, stop>> /\ op'.pc # "build" /\ op.pc # "build"
  BY <1>1, <1>2
<1>12. (\A p \in gone : jobs[p] \in J) /\ (\A j \in J : \E p \in gone : jobs[p] = j)
  OBVIOUS
<1> HIDE DEF J
<1>13. TakesOut(gone, J)
  BY <1>3, <1>6, <1>9, <1>10, <1>11, <1>12 DEF TakesOut
<1> QED BY <1>1, <1>3, <1>4, <1>5, <1>6, <1>13, TakeOutStep

(* Stop cancels every job of the map; no call is in progress.              *)
LEMMA StopStep ==
  ASSUME TypeOK, Core, NEW by \in {"start", "main"}, Stop(by) PROVE Core'
<1> DEFINE pubs == {p \in Pubs : jobs[p] # NoJob}
           all  == {jobs[p] : p \in pubs}
<1>1. /\ op = NoOp /\ op' = op /\ jobs' = jobs /\ abandoned' = abandoned
      /\ stopped' = TRUE /\ ManagerDone' /\ job' = Cancelling(all)
      /\ status' = SetState(pubs, "stopping")
      /\ stop' = [pc |-> "wait", by |-> by, jobs |-> all, pubs |-> pubs]
      /\ NoOp.pc = "free" /\ NoOp.wait = {}
  BY DEF Stop, ManagerDone, NoOp
<1>2. /\ jobs \in [Pubs -> Slots \cup {NoJob}] /\ abandoned \subseteq Slots
      /\ all \in SUBSET Slots
  BY DEF TypeOK
<1>3. \A i \in Slots : /\ job'[i].pub = job[i].pub /\ job'[i].fp = job[i].fp
                       /\ job'[i].phase = job[i].phase
  BY <1>1, <1>2, CancellingShape
<1>4. \A p \in Pubs : status'[p] = IF jobs[p] # NoJob THEN "stopping" ELSE status[p]
  BY <1>1, SetStateShape DEF States
<1>5. \A p \in Pubs : jobs[p] # NoJob => jobs[p] \in all
  OBVIOUS
<1> HIDE DEF all, pubs
<1>6. Mapped' /\ Known'
  BY <1>1, <1>2, <1>3 DEF Core, Mapped, Known, Live, NoJob
<1>7. GivenUp' /\ Claimed' /\ ListenersExclusive'
  BY <1>1, <1>2, <1>3 DEF Core, GivenUp, Claimed, ListenersExclusive, Live
<1>8. Waiting' /\ Missing' /\ Agreed' /\ Truthful'
  BY <1>1 DEF Waiting, Missing, Agreed, Truthful
<1>9. Shown'
  BY <1>1, <1>4 DEF Core, Shown
<1>10. Stopping'
  BY <1>1, <1>4, <1>5 DEF Core, Shown, Stopping
<1> QED BY <1>6, <1>7, <1>8, <1>9, <1>10 DEF Core

LEMMA StopReturnsStep ==
  ASSUME TypeOK, Core, StopReturns PROVE Core'
<1>1. /\ op = NoOp /\ op' = op /\ abandoned' = abandoned /\ stopped /\ stopped'
      /\ ManagerDone' /\ workers' = {} /\ stop'.pc = "ok"
      /\ jobs' = [p \in Pubs |-> NoJob]
      /\ NoOp.pc = "free" /\ NoOp.wait = {}
  BY DEF StopReturns, ManagerDone, NoOp, Core, Stopping, TypeOK, StopCall
<1>2. \A i \in Slots :
        job'[i] = job[i] \/ (job[i].phase = "done" /\ job'[i].phase = "free")
  BY ReleasedShape DEF StopReturns, NoObject
<1>3. \A p \in Pubs : status'[p] \in {"stopped", status[p]}
  BY SetStateShape DEF StopReturns, States
<1>4. \A i \in Slots :
        /\ job'[i].phase \notin {"free", "done"} <=> job[i].phase \notin {"free", "done"}
        /\ job[i].phase \notin {"free", "done"} => job'[i] = job[i]
  BY <1>2
<1>5. Mapped'
  BY <1>1, <1>2 DEF Core, Mapped
<1>6. Known'
  <2>1. ASSUME NEW i \in Slots, Live(i) PROVE i \in abandoned
    <3>1. job[i].phase # "done" /\ job[i].pub \in Pubs
      BY <2>1 DEF Live, Core, Mapped
    <3>2. i \notin stop.jobs /\ stop.pc = "wait"
      BY <3>1 DEF StopReturns
    <3>3. jobs[job[i].pub] # i
      BY <3>1, <3>2 DEF Core, Stopping, NoJob, Slots
    <3> QED BY <1>1, <2>1, <3>3 DEF Core, Known
  <2> QED BY <1>1, <1>4, <2>1 DEF Known, Live
<1>7. GivenUp'
  <2>1. abandoned \subseteq Slots
    BY DEF TypeOK
  <2> QED BY <1>1, <1>4, <2>1 DEF Core, GivenUp, Live
<1>8. Claimed' /\ ListenersExclusive'
  BY <1>1, <1>4 DEF Core, Claimed, ListenersExclusive, Live
<1>9. Waiting' /\ Missing' /\ Agreed' /\ Truthful'
  BY <1>1 DEF Waiting, Missing, Agreed, Truthful
<1>10. \A p \in Pubs : status'[p] \notin {"starting", "running"}
  BY <1>3 DEF StopReturns, Core, Stopping
<1>11. Shown' /\ Stopping'
  BY <1>1, <1>10 DEF Shown, Stopping
<1> QED BY <1>5, <1>6, <1>7, <1>8, <1>9, <1>11 DEF Core

LEMMA CoreStep == TypeOK /\ Core /\ [Next]_vars => Core'
<1> SUFFICES ASSUME TypeOK, Core, [Next]_vars PROVE Core'
  OBVIOUS
<1>1. CASE Start
  <2>1. /\ UNCHANGED <<op, jobs, job, status, abandoned>> /\ stop' = stop
        /\ stopped' = stopped /\ ~stopped
    BY <1>1 DEF Start
  <2>2. Stopping'
    BY <2>1 DEF Core, Stopping
  <2>3. ManagerDone => ManagerDone'
    BY <1>1 DEF Start, ManagerDone
  <2> QED BY <2>1, <2>2, <2>3, QuietStep
<1>2. ASSUME NEW c \in Reconcilers, BeginReconcile(c) PROVE Core'
  <2>1. /\ UNCHANGED <<jobs, job, status, abandoned, stop, stopped, workers>>
        /\ op.pc = "free" /\ op'.pc = "list" /\ op'.wait = {} /\ ~stopped
        /\ (ManagerDone' <=> ManagerDone)
    BY <1>2 DEF BeginReconcile, NoOp, ManagerDone
  <2>2. stop.pc = "idle"
    BY <2>1 DEF Core, Stopping
  <2> QED BY <2>1, <2>2, CallStep
<1>3. ASSUME NEW c \in Reconcilers, NEW p \in Pubs, BeginRestart(c, p) PROVE Core'
  BY <1>3, RestartStep
<1>4. ASSUME NEW errs \in SUBSET Pubs, List(errs) PROVE Core'
  <2>1. /\ UNCHANGED <<jobs, job, status, abandoned, stop, stopped, workers>>
        /\ op.pc = "list" /\ op'.pc = "swap" /\ op'.wait = op.wait
        /\ (ManagerDone' <=> ManagerDone)
    BY <1>4 DEF List, ManagerDone, TypeOK, Call
  <2>2. stop.pc = "idle" /\ op.wait = {}
    BY <2>1 DEF Core, Stopping, Waiting, NoOp
  <2> QED BY <2>1, <2>2, CallStep
<1>5. CASE ListFails \/ EndReconcile
  <2>1. /\ UNCHANGED <<jobs, job, status, abandoned, stop, stopped, workers>>
        /\ op.pc \in {"list", "start"} /\ op' = NoOp /\ op'.pc = "free" /\ op'.wait = {}
        /\ (ManagerDone' <=> ManagerDone)
    BY <1>5 DEF ListFails, EndReconcile, ReturnError, NoOp, ManagerDone
  <2> QED BY <2>1, CallStep
<1>6. CASE Swap
  BY <1>6, SwapStep
<1>7. ASSUME NEW j \in Slots, Waited(j) PROVE Core'
  BY <1>7, WaitedStep
<1>8. CASE WaitAborted
  BY <1>8, AbortedStep
<1>9. CASE StartJob
  BY <1>9, StartJobStep
<1>10. ASSUME NEW failed \in BOOLEAN, BuildJob(failed) PROVE Core'
  BY <1>10, BuildStep
<1>11. ASSUME NEW j \in Slots, JobReturns(j) PROVE Core'
  BY <1>11, ReturnsStep
<1>12. ASSUME NEW j \in Slots, JobChecks(j) PROVE Core'
  BY <1>12, ChecksStep
<1>13. ASSUME NEW j \in Slots, JobReports(j) PROVE Core'
  BY <1>13, ReportsStep
<1>14. ASSUME NEW j \in Slots, JobCloses(j) PROVE Core'
  BY <1>14, ClosesStep
<1>15. ASSUME NEW by \in {"start", "main"}, Stop(by) PROVE Core'
  BY <1>15, StopStep
<1>16. CASE StopReturns
  BY <1>16, StopReturnsStep
<1>17. CASE StopTimesOut
  <2>1. /\ UNCHANGED <<op, jobs, job, status, abandoned>> /\ stop'.pc = "timeout"
        /\ stop.pc = "wait" /\ stopped' = stopped
    BY <1>17 DEF StopTimesOut, TypeOK, StopCall
  <2>2. Stopping'
    BY <2>1 DEF Core, Stopping
  <2>3. ManagerDone => ManagerDone'
    BY <1>17 DEF StopTimesOut, ManagerDone
  <2> QED BY <2>1, <2>2, <2>3, QuietStep
<1>18. ASSUME NEW w \in Workers, WorkerExits(w) PROVE Core'
  <2>1. /\ UNCHANGED <<op, jobs, job, status, abandoned>> /\ stop' = stop
        /\ stopped' = stopped /\ workers' = workers \ {w}
    BY <1>18 DEF WorkerExits
  <2>2. Stopping'
    <3>1. workers = {} => workers' = {}
      BY <2>1
    <3> QED BY <2>1, <3>1 DEF Core, Stopping
  <2>3. ManagerDone => ManagerDone'
    BY <1>18 DEF WorkerExits, ManagerDone
  <2> QED BY <2>1, <2>2, <2>3, QuietStep
<1>19. CASE ShutDown
  <2>1. UNCHANGED <<op, jobs, job, status, abandoned, stop, stopped, workers>>
    BY <1>19 DEF ShutDown
  <2>2. Stopping'
    BY <2>1 DEF Core, Stopping
  <2>3. ManagerDone => ManagerDone'
    BY <1>19 DEF ShutDown, ManagerDone
  <2> QED BY <2>1, <2>2, <2>3, QuietStep
<1>20. CASE UNCHANGED vars \/ Rest \/ \E p \in Pubs, c \in Configs \cup {Disabled} : Edit(p, c)
  <2>1. /\ UNCHANGED <<op, jobs, job, status, abandoned, stop, stopped, workers>>
        /\ parentDone' = parentDone
    BY <1>20 DEF vars, Rest, Edit
  <2>2. Stopping'
    BY <2>1 DEF Core, Stopping
  <2>3. ManagerDone => ManagerDone'
    BY <2>1 DEF ManagerDone
  <2> QED BY <2>1, <2>2, <2>3, QuietStep
<1> QED
  BY <1>1, <1>2, <1>3, <1>4, <1>5, <1>6, <1>7, <1>8, <1>9, <1>10, <1>11, <1>12,
     <1>13, <1>14, <1>15, <1>16, <1>17, <1>18, <1>19, <1>20 DEF Next

LEMMA Invariant == Spec => [](TypeOK /\ Core)
<1>1. Init => TypeOK /\ Core
  BY InitTypeOK, InitCore
<1>2. TypeOK /\ Core /\ [Next]_vars => (TypeOK /\ Core)'
  BY TypeStep, CoreStep DEF Core
<1> QED BY <1>1, <1>2, PTL DEF Spec

----------------------------------------------------------------------------
(* The theorems.                                                           *)

(* Every variable keeps its type.                                          *)
THEOREM TypeCorrect == Spec => []TypeOK
BY Invariant, PTL

(* A publisher has one goroutine at most: reconcileLocked and Restart wait *)
(* for the job they took out before startJob stores the next one, whatever *)
(* the ticker, the API, a rotation and the shutdown do in between.         *)
THEOREM OneJob == Spec => []OneJobPerPublisher
<1>1. TypeOK /\ Core => OneJobPerPublisher
  <2> SUFFICES ASSUME TypeOK, Core,
                      NEW j \in {l \in Slots : Live(l)} \ abandoned,
                      NEW k \in {l \in Slots : Live(l)} \ abandoned,
                      job[j].pub = job[k].pub
               PROVE  j = k
    BY DEF OneJobPerPublisher
  <2>1. /\ jobs[job[j].pub] = j \/ j \in op.wait
        /\ jobs[job[k].pub] = k \/ k \in op.wait
    BY DEF Core, Known
  <2>2. j # NoJob /\ k # NoJob
    BY DEF Slots, NoJob
  <2> QED BY <2>1, <2>2 DEF Core, Waiting
<1> QED BY <1>1, Invariant, PTL

(* Two publishers never hold conflicting listeners: assignListenerClaims   *)
(* gives an address to the first of the ids that asks for it, and a job    *)
(* that holds it against the new assignment ends before the next starts.   *)
THEOREM ExclusiveListeners == Spec => []ListenersExclusive
<1>1. TypeOK /\ Core => ListenersExclusive
  BY DEF Core
<1> QED BY <1>1, Invariant, PTL

(* Between two reconciles the status of a publisher is that of its job.    *)
THEOREM TruthfulStatus == Spec => []StatusMatchesJob
<1>1. TypeOK /\ Core => StatusMatchesJob
  <2> SUFFICES ASSUME TypeOK, Core, op = NoOp, ~ManagerDone, NEW p \in Pubs
               PROVE  status[p] \in
                        IF jobs[p] = NoJob THEN {"absent", "stopped"}
                        ELSE IF job[jobs[p]].phase \in {"ended", "done"} THEN {"error"}
                        ELSE {"running"}
    BY DEF StatusMatchesJob
  <2>1. op.wait = {} /\ op.pc = "free"
    BY DEF NoOp
  <2> QED BY <2>1 DEF Core, Truthful
<1> QED BY <1>1, Invariant, PTL

(* The four together, for any number of publishers and any conflicts.      *)
THEOREM PublishersAreManaged == Spec => []PublishersManaged
BY TypeCorrect, OneJob, ExclusiveListeners, TruthfulStatus, PTL DEF PublishersManaged

(* When Stop returns without an error, the goroutines of the manager and   *)
(* all jobs but those it could not know of have ended, and no status says  *)
(* that one runs.                                                          *)
THEOREM StopIsComplete == Spec => []StopLeavesNothingRunning
<1>1. TypeOK /\ Core => StopLeavesNothingRunning
  <2> SUFFICES ASSUME TypeOK, Core, stop.pc = "ok"
               PROVE  /\ workers = {} /\ op = NoOp
                      /\ \A j \in Slots : Live(j) => j \in abandoned
                      /\ \A p \in Pubs : status[p] \notin {"starting", "running"}
    BY DEF StopLeavesNothingRunning
  <2>1. /\ workers = {} /\ op = NoOp
        /\ \A p \in Pubs : jobs[p] = NoJob /\ status[p] \notin {"starting", "running"}
    BY DEF Core, Stopping
  <2>2. ASSUME NEW j \in Slots, Live(j) PROVE j \in abandoned
    <3>1. job[j].pub \in Pubs
      BY <2>2 DEF Core, Mapped, Live
    <3>2. jobs[job[j].pub] # j /\ op.wait = {}
      BY <2>1, <3>1 DEF NoJob, Slots, NoOp
    <3> QED BY <2>2, <3>2 DEF Core, Known
  <2> QED BY <2>1, <2>2
<1> QED BY <1>1, Invariant, PTL

=============================================================================
