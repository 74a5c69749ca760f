------------------------ MODULE PersistentValueStore ------------------------
(***************************************************************************)
(* The write-behind store of latest tag values: MemoryValueStore holds the *)
(* latest value of every tag, PersistentValueStore queues it for its one   *)
(* persistence goroutine, and that goroutine upserts it into the table     *)
(* tag_values_latest.  A process restart reloads the table.                *)
(*                                                                         *)
(* A tag value is abstracted to its sequence number and its data type; the *)
(* sequence number 0, which the code never assigns and rejects on restore  *)
(* and on upsert, stands for "no value".                                   *)
(***************************************************************************)
EXTENDS Naturals

CONSTANTS Tags,         \* tag identifiers
          DataTypes,    \* the data types a tag may have
          FirstTypes,   \* those the tags have at first (bound)
          MaxSequence,  \* bound: values put over the whole behaviour
          MaxFailures,  \* bound: upserts that fail for transient reasons
          MaxRestarts,  \* bound: process exits (crashes included)
          MaxRetypes    \* bound: data type changes through the tag API

ASSUME BoundsAssumption ==
  /\ MaxSequence \in Nat
  /\ MaxFailures \in Nat
  /\ MaxRestarts \in Nat
  /\ MaxRetypes \in Nat

ASSUME DataTypesAssumption == DataTypes # {} /\ FirstTypes \subseteq DataTypes

VARIABLES
  \* one process
  started, stopped,   \* PersistentValueStore.started, .stopped
  cancelled,          \* the context given to Start is done
  stopRequested,      \* the stop channel is closed
  worker,             \* where the persistence goroutine is
  wake,               \* the wake channel (capacity 1) holds a token
  timedOut,           \* finish's stopTimeout has passed
  sequence, latest,   \* MemoryValueStore.sequence, .latest
  pending,            \* PersistentValueStore.pending
  batch,              \* values taken by flush and not yet upserted
  loadable,           \* data types the AcquisitionRuntime may have loaded
  \* the database
  row,                \* tag_values_latest
  tagType,            \* tags.data_type
  tagRows,            \* the tags that have a row in tags
  \* bounds
  failures, restarts, retypes

procVars == <<started, stopped, cancelled, stopRequested, worker, wake, timedOut>>
memVars  == <<sequence, latest, pending, batch, loadable>>
dbVars   == <<row, tagType, tagRows>>
vars     == <<procVars, memVars, dbVars, failures, restarts, retypes>>

Value  == [seq : Nat, type : DataTypes]

\* The absent value. Its type is irrelevant.
None   == [seq |-> 0, type |-> CHOOSE d \in DataTypes : TRUE]
Empty  == [t \in Tags |-> None]

\* No process has read the tags.
NothingLoadable == [t \in Tags |-> {}]

Workers == {"none", "idle", "flush", "finish", "finishFlush", "done"}

TypeOK ==
  /\ started \in BOOLEAN /\ stopped \in BOOLEAN /\ cancelled \in BOOLEAN
  /\ stopRequested \in BOOLEAN /\ wake \in BOOLEAN /\ timedOut \in BOOLEAN
  /\ worker \in Workers
  /\ sequence \in Nat
  /\ latest \in [Tags -> Value]
  /\ pending \in [Tags -> Value]
  /\ batch \in [Tags -> Value]
  /\ loadable \in [Tags -> SUBSET DataTypes]
  /\ row \in [Tags -> Value]
  /\ tagType \in [Tags -> DataTypes]
  /\ tagRows \subseteq Tags
  /\ failures \in Nat /\ restarts \in Nat /\ retypes \in Nat

-----------------------------------------------------------------------------
(* MemoryValueStore and the latest value repository *)

\* Faulty variant: the join does not compare the data types.
ListEveryRow ==
  [t \in Tags |-> IF row[t].seq # 0 /\ t \in tagRows THEN row[t] ELSE None]

\* ListLatest joins tags on the data type: a row whose tag was given another
\* type since is not returned. The rows of deleted tags went with the tag.
ListLatest ==
  [t \in Tags |-> IF row[t].seq # 0 /\ t \in tagRows /\ tagType[t] = row[t].type
                  THEN row[t] ELSE None]

\* Faulty variant: the sequence starts again from zero.
RestoreFromZero(values) == latest' = values /\ sequence' = 0

\* RestoreLatest continues from the largest sequence number it is given.
RestoreLatest(values) ==
  /\ latest' = values
  /\ \E n \in {0} \cup {values[t].seq : t \in Tags} :
       /\ \A t \in Tags : values[t].seq <= n
       /\ sequence' = n

\* Faulty variant: the WHERE clause of the upsert is missing.
UpsertedAlways(t, v) == [row EXCEPT ![t] = v]

\* The upsert statement: INSERT, or UPDATE only where the stored sequence
\* number is smaller.
Upserted(t, v) ==
  IF row[t].seq < v.seq THEN [row EXCEPT ![t] = v] ELSE row

\* Constraints of tag_values_latest that refuse the statement: the foreign key
\* to tags, and UNIQUE (sequence) when another tag's row has the number. A
\* statement that updates nothing because of its WHERE meets neither.
UniqueClash(t, v) == \E u \in Tags \ {t} : row[u].seq = v.seq

Refused(t, v) ==
  \/ t \notin tagRows
  \/ row[t].seq < v.seq /\ UniqueClash(t, v)

-----------------------------------------------------------------------------
(* PersistentValueStore *)

Init ==
  /\ started = FALSE /\ stopped = FALSE /\ cancelled = FALSE
  /\ stopRequested = FALSE /\ wake = FALSE /\ timedOut = FALSE
  /\ worker = "none"
  /\ sequence = 0 /\ latest = Empty /\ pending = Empty /\ batch = Empty
  /\ loadable = NothingLoadable
  /\ row = Empty
  /\ tagType \in [Tags -> FirstTypes]
  /\ tagRows = Tags
  /\ failures = 0 /\ restarts = 0 /\ retypes = 0

\* Start that succeeds. A failing ListLatest leaves everything as it is. The
\* AcquisitionRuntime reads the tags from here on.
Start ==
  /\ ~started /\ ~stopped
  /\ RestoreLatest(ListLatest)
  /\ loadable' = [t \in Tags |-> IF t \in tagRows THEN {tagType[t]} ELSE {}]
  /\ started' = TRUE
  /\ worker' = "idle"
  /\ UNCHANGED <<stopped, cancelled, stopRequested, wake, timedOut, pending,
                 batch, dbVars, failures, restarts, retypes>>

\* Put: memory.Put assigns the next sequence number, then the value replaces
\* the tag's pending one and the worker is woken. Its data type is
\* the one with which the caller, a consumer or the cascade of
\* AcquisitionRuntime, was given the tag at some Reconcile: a tag deleted or
\* retyped since may still be put with it.
Put(t, d) ==
  /\ started /\ ~stopped
  /\ d \in loadable[t]
  /\ sequence < MaxSequence
  /\ LET v == [seq |-> sequence + 1, type |-> d] IN
       /\ latest' = [latest EXCEPT ![t] = v]
       /\ pending' = [pending EXCEPT ![t] = v]
  /\ sequence' = sequence + 1
  /\ wake' = TRUE
  /\ UNCHANGED <<started, stopped, cancelled, stopRequested, worker, timedOut,
                 batch, loadable, dbVars, failures, restarts, retypes>>

\* Stop, up to its wait for done.
Stop ==
  /\ started /\ ~stopped
  /\ stopped' = TRUE
  /\ stopRequested' = TRUE
  /\ UNCHANGED <<started, cancelled, worker, wake, timedOut, memVars, dbVars,
                 failures, restarts, retypes>>

\* The signal context of the server is done.
Cancel ==
  /\ started /\ ~cancelled
  /\ cancelled' = TRUE
  /\ UNCHANGED <<started, stopped, stopRequested, worker, wake, timedOut,
                 memVars, dbVars, failures, restarts, retypes>>

\* takePending: empties the map into the batch, in one critical section.
TakePending ==
  /\ batch' = pending
  /\ pending' = Empty

\* run: a wake token or the ticker starts a flush.
Wake ==
  /\ worker = "idle" /\ wake
  /\ wake' = FALSE
  /\ TakePending
  /\ worker' = "flush"
  /\ UNCHANGED <<started, stopped, cancelled, stopRequested, timedOut,
                 sequence, latest, loadable, dbVars, failures, restarts, retypes>>

Tick ==
  /\ worker = "idle"
  /\ TakePending
  /\ worker' = "flush"
  /\ UNCHANGED <<started, stopped, cancelled, stopRequested, wake, timedOut,
                 sequence, latest, loadable, dbVars, failures, restarts, retypes>>

Flushing == worker \in {"flush", "finishFlush"}

\* flush upserts in the order of the sequence numbers.
NextInBatch(t) ==
  /\ batch[t].seq # 0
  /\ \A u \in Tags : batch[u].seq = 0 \/ batch[t].seq <= batch[u].seq

UpsertLatest(t) ==
  /\ Flushing /\ NextInBatch(t)
  /\ ~Refused(t, batch[t])
  /\ row' = Upserted(t, batch[t])
  /\ batch' = [batch EXCEPT ![t] = None]
  /\ UNCHANGED <<procVars, sequence, latest, pending, loadable, tagType, tagRows,
                 failures, restarts, retypes>>

\* Faulty variant: the failed value replaces a newer one.
RequeueReplaces(t) == pending' = [pending EXCEPT ![t] = batch[t]]

\* requeue keeps the newer of the failed value and the pending one.
Requeue(t) ==
  pending' = [pending EXCEPT ![t] = IF @.seq < batch[t].seq THEN batch[t] ELSE @]

\* An upsert that reports an error for a reason that may go away: the database
\* is unreachable, or the context is done. The statement may have committed
\* before its answer was lost.
UpsertFails(t) ==
  /\ Flushing /\ NextInBatch(t)
  /\ \/ failures < MaxFailures /\ failures' = failures + 1
     \/ /\ IF worker = "flush" THEN cancelled ELSE timedOut
        /\ UNCHANGED failures
  /\ \/ UNCHANGED row
     \/ ~Refused(t, batch[t]) /\ row' = Upserted(t, batch[t])
  /\ Requeue(t)
  /\ batch' = [batch EXCEPT ![t] = None]
  /\ UNCHANGED <<procVars, sequence, latest, loadable, tagType, tagRows, restarts,
                 retypes>>

\* An upsert the constraints refuse: it fails again on every retry.
UpsertRefused(t) ==
  /\ Flushing /\ NextInBatch(t)
  /\ Refused(t, batch[t])
  /\ Requeue(t)
  /\ batch' = [batch EXCEPT ![t] = None]
  /\ UNCHANGED <<procVars, sequence, latest, loadable, dbVars, failures, restarts, retypes>>

FlushDone ==
  /\ Flushing /\ batch = Empty
  /\ worker' = IF worker = "flush" THEN "idle" ELSE "finish"
  /\ UNCHANGED <<started, stopped, cancelled, stopRequested, wake, timedOut,
                 memVars, dbVars, failures, restarts, retypes>>

\* Faulty variant: the stop branch is missing, only ctx.Done ends run.
BeginFinishOnCancel ==
  /\ worker = "idle" /\ cancelled
  /\ stopped' = TRUE
  /\ worker' = "finish"
  /\ UNCHANGED <<started, cancelled, stopRequested, wake, timedOut, memVars,
                 dbVars, failures, restarts, retypes>>

\* Faulty variant: finish does not close the store before it drains it.
BeginFinishOpen ==
  /\ worker = "idle" /\ (cancelled \/ stopRequested)
  /\ worker' = "finish"
  /\ UNCHANGED <<started, stopped, cancelled, stopRequested, wake, timedOut,
                 memVars, dbVars, failures, restarts, retypes>>

\* run takes its ctx.Done or stop branch and enters finish.
BeginFinish ==
  /\ worker = "idle" /\ (cancelled \/ stopRequested)
  /\ stopped' = TRUE
  /\ worker' = "finish"
  /\ UNCHANGED <<started, cancelled, stopRequested, wake, timedOut, memVars,
                 dbVars, failures, restarts, retypes>>

\* finish: another round while values are pending and time is left.
FinishRound ==
  /\ worker = "finish" /\ pending # Empty /\ ~timedOut
  /\ TakePending
  /\ worker' = "finishFlush"
  /\ UNCHANGED <<started, stopped, cancelled, stopRequested, wake, timedOut,
                 sequence, latest, loadable, dbVars, failures, restarts, retypes>>

FinishDeadline ==
  /\ worker \in {"finish", "finishFlush"} /\ ~timedOut
  /\ timedOut' = TRUE
  /\ UNCHANGED <<started, stopped, cancelled, stopRequested, worker, wake,
                 memVars, dbVars, failures, restarts, retypes>>

\* finish returns, run closes done, and Stop returns.
FinishDone ==
  /\ worker = "finish" /\ (pending = Empty \/ timedOut)
  /\ worker' = "done"
  /\ UNCHANGED <<started, stopped, cancelled, stopRequested, wake, timedOut,
                 memVars, dbVars, failures, restarts, retypes>>

-----------------------------------------------------------------------------
(* The environment: process exit, and the tag API working on the database *)

\* The process exits, in good order or not; all of its memory goes.
Restart ==
  /\ started /\ restarts < MaxRestarts
  /\ restarts' = restarts + 1
  /\ started' = FALSE /\ stopped' = FALSE /\ cancelled' = FALSE
  /\ stopRequested' = FALSE /\ wake' = FALSE /\ timedOut' = FALSE
  /\ worker' = "none"
  /\ sequence' = 0 /\ latest' = Empty /\ pending' = Empty /\ batch' = Empty
  /\ loadable' = NothingLoadable
  /\ UNCHANGED <<dbVars, failures, retypes>>

\* tag repository Delete; ON DELETE CASCADE removes the latest value row. The
\* memory store is not told.
DeleteTag(t) ==
  /\ t \in tagRows
  /\ tagRows' = tagRows \ {t}
  /\ row' = [row EXCEPT ![t] = None]
  /\ UNCHANGED <<procVars, memVars, tagType, failures, restarts, retypes>>

\* tag repository Update of data_type; the latest value row is left alone, and
\* neither the store nor the acquisition runtime is told: the next Reconcile
\* may load the new type, and until then, or for values already being worked
\* on, the old one is put.
UpdateDataType(t, d) ==
  /\ t \in tagRows /\ d # tagType[t] /\ retypes < MaxRetypes
  /\ retypes' = retypes + 1
  /\ tagType' = [tagType EXCEPT ![t] = d]
  /\ loadable' = [loadable EXCEPT ![t] = IF started THEN @ \cup {d} ELSE @]
  /\ UNCHANGED <<procVars, sequence, latest, pending, batch, row, tagRows,
                 failures, restarts>>

Upsert == \E t \in Tags : UpsertLatest(t) \/ UpsertFails(t) \/ UpsertRefused(t)

Next ==
  \/ Start
  \/ \E t \in Tags, d \in DataTypes : Put(t, d)
  \/ Stop \/ Cancel
  \/ Wake \/ Tick
  \/ \E t \in Tags : UpsertLatest(t)
  \/ \E t \in Tags : UpsertFails(t)
  \/ \E t \in Tags : UpsertRefused(t)
  \/ FlushDone \/ BeginFinish \/ FinishRound \/ FinishDeadline \/ FinishDone
  \/ Restart
  \/ \E t \in Tags : DeleteTag(t)
  \/ \E t \in Tags, d \in DataTypes : UpdateDataType(t, d)

Spec == Init /\ [][Next]_vars

(***************************************************************************)
(* The goroutine runs whenever it can; its ticker fires again and again;   *)
(* select picks among ready branches at random, so a stop request is not   *)
(* ignored for ever; the stop timeout passes.                              *)
(***************************************************************************)
Work == Tick \/ Upsert \/ FlushDone \/ FinishRound \/ FinishDone
Fairness == WF_vars(Work) /\ SF_vars(BeginFinish) /\ WF_vars(FinishDeadline)

FairSpec == Spec /\ Fairness

-----------------------------------------------------------------------------
(* Properties *)

\* While the store is open, the latest value of every tag that still exists
\* is in the table, waiting in pending, or in the hands of flush.
LatestIsKept ==
  started => \A t \in Tags : t \in tagRows =>
    latest[t] \in {row[t], pending[t], batch[t]}

\* No tag has changed its data type.
Unretyped == retypes = 0

\* As long as no tag changes its data type, coalescing, failed upserts and the
\* requeue race against Put lose no latest value.
NothingLost == Unretyped => LatestIsKept

\* The constraint UNIQUE (sequence) of tag_values_latest never refuses a value
\* of an existing tag: over all restarts no number is given out while another
\* tag's row holds it (as long as no tag changes its data type).
UpsertNeverRefused == Unretyped =>
  \A t \in Tags : batch[t].seq # 0 /\ t \in tagRows => ~Refused(t, batch[t])

\* Once Stop has returned without running into its timeout, the table holds
\* the latest value of every tag, also those put while the store was closing
\* (as long as no tag changes its data type).
StopFlushes ==
  Unretyped /\ worker = "done" /\ ~timedOut =>
    \A t \in Tags : t \in tagRows => row[t] = latest[t]

\* A row of tag_values_latest never goes back to an older value, over
\* restarts, retries of upserts whose answer was lost, and type changes; only
\* the deletion of its tag removes it.
RowMonotone ==
  [][\A t \in Tags : t \in tagRows' => row[t].seq <= row'[t].seq]_vars

\* The goroutine is serving tag t, and no stale row is in its way.
Serving(t) == Unretyped /\ worker \in {"idle", "flush"} /\ t \in tagRows

\* Every value the store accepts is persisted, or a newer one of its tag is,
\* unless the store is stopped or the tag deleted first: whenever puts pause
\* (here their number is bounded), the table catches up with all the tags at
\* once. Failed upserts are retried, and one failing tag does not hold up the
\* others.
EventuallyPersisted ==
  []<>(\A t \in Tags : Serving(t) => row[t].seq = latest[t].seq)

\* A stop request or the end of the context ends the goroutine, so Stop
\* returns, also when an upsert fails on every retry.
StopCompletes ==
  (stopRequested \/ cancelled) ~> worker \in {"done", "none"}

\* Both promises about the goroutine's progress: it catches up while it
\* serves, and it ends when it is told to.
Progress == EventuallyPersisted /\ StopCompletes

\* How the store looks to its clients and to a restart.
Phase ==
  CASE worker = "none" -> "down"
    [] worker = "done" -> IF pending = Empty THEN "drained" ELSE "abandoned"
    [] OTHER -> "up"

Promise == INSTANCE DurableLatest
             WITH phase <- Phase, existing <- tagRows, types <- tagType,
                  current <- latest, durable <- row

\* Queue, batches, retries, lost answers and restarts implement the promise:
\* numbers only grow over all tags, what is durable only moves forward and is
\* never newer than what was read, a restart resumes from exactly the rows of
\* the tag's type, and a store that has drained has nothing left to write -
\* also when a tag changes its type and values of its old type still arrive.
KeepsPromise == Promise!Spec

=============================================================================
