--------------------- MODULE PersistentValueStoreProofs ---------------------
(***************************************************************************)
(* Theorems about PersistentValueStore, for every set of tags, every value *)
(* of the bounds, and whatever types the tags change to; the second part   *)
(* shows that it implements DurableLatest.                                 *)
(***************************************************************************)
EXTENDS PersistentValueStore, TLAPS

\* The flags of the process; proved apart, for the sake of the provers.
FlagsOK ==
  /\ started \in BOOLEAN /\ stopped \in BOOLEAN /\ cancelled \in BOOLEAN
  /\ stopRequested \in BOOLEAN /\ wake \in BOOLEAN /\ timedOut \in BOOLEAN

\* The rest of TypeOK.
MapsOK ==
  /\ worker \in Workers
  /\ sequence \in Nat
  /\ latest \in [Tags -> Value]
  /\ pending \in [Tags -> Value]
  /\ batch \in [Tags -> Value]
  /\ loadable \in [Tags -> SUBSET DataTypes]
  /\ row \in [Tags -> Value]
  /\ tagType \in [Tags -> DataTypes]
  /\ tagRows \subseteq Tags
  /\ failures \in Nat /\ restarts \in Nat /\ retypes \in Nat

LEMMA TypeParts == TypeOK <=> FlagsOK /\ MapsOK
  BY DEF TypeOK, FlagsOK, MapsOK

LEMMA NoneIsValue ==
  /\ None \in Value /\ None.seq = 0 /\ Empty \in [Tags -> Value]
  /\ \A t \in Tags : Empty[t] = None
  BY DataTypesAssumption DEF None, Value, Empty

LEMMA InitTypeOK == Init => TypeOK
<1>1. Init => FlagsOK
  BY Zenon DEF Init, FlagsOK
<1>2. Init => MapsOK
  BY NoneIsValue, DataTypesAssumption DEF Init, MapsOK, Workers, NothingLoadable
<1> QED
  BY <1>1, <1>2, TypeParts

LEMMA TypeStep == TypeOK /\ [Next]_vars => TypeOK'
<1> SUFFICES ASSUME TypeOK, [Next]_vars PROVE TypeOK'
  OBVIOUS
<1> USE NoneIsValue DEF TypeOK, Workers
<1>1. CASE Start
  <2>1. ListLatest \in [Tags -> Value]
    BY DEF ListLatest
  <2>2. latest' \in [Tags -> Value] /\ sequence' \in Nat
    BY <1>1, <2>1 DEF Start, RestoreLatest, Value
  <2>3. loadable' \in [Tags -> SUBSET DataTypes]
    BY <1>1 DEF Start
  <2> QED
    BY <1>1, <2>2, <2>3 DEF Start, dbVars
<1>2. ASSUME NEW t \in Tags, NEW d \in DataTypes, Put(t, d) PROVE TypeOK'
  <2>1. [seq |-> sequence + 1, type |-> d] \in Value
    BY DEF Value
  <2> QED
    BY <1>2, <2>1 DEF Put, dbVars
<1>3. CASE Stop
  BY <1>3 DEF Stop, memVars, dbVars
<1>4. CASE Cancel
  BY <1>4 DEF Cancel, memVars, dbVars
<1>5. CASE Wake \/ Tick
  BY <1>5 DEF Wake, Tick, TakePending, dbVars
<1>6. ASSUME NEW t \in Tags, UpsertLatest(t) PROVE TypeOK'
  BY <1>6 DEF UpsertLatest, Upserted, procVars
<1>7. ASSUME NEW t \in Tags, UpsertFails(t) PROVE TypeOK'
  BY <1>7 DEF UpsertFails, Upserted, Requeue, procVars
<1>8. ASSUME NEW t \in Tags, UpsertRefused(t) PROVE TypeOK'
  BY <1>8 DEF UpsertRefused, Requeue, procVars, dbVars
<1>9. CASE FlushDone
  BY <1>9 DEF FlushDone, memVars, dbVars
<1>10. CASE BeginFinish
  BY <1>10 DEF BeginFinish, memVars, dbVars
<1>11. CASE FinishRound
  BY <1>11 DEF FinishRound, TakePending, dbVars
<1>12. CASE FinishDeadline \/ FinishDone
  BY <1>12 DEF FinishDeadline, FinishDone, memVars, dbVars
<1>13. CASE Restart
  <2>1. FlagsOK'
    BY <1>13, Zenon DEF Restart, FlagsOK
  <2>2. MapsOK'
    BY <1>13 DEF Restart, MapsOK, dbVars, NothingLoadable
  <2>3. TypeOK' <=> FlagsOK' /\ MapsOK'
    BY DEF FlagsOK, MapsOK
  <2> QED
    BY <2>1, <2>2, <2>3
<1>14. ASSUME NEW t \in Tags, DeleteTag(t) PROVE TypeOK'
  BY <1>14 DEF DeleteTag, procVars, memVars
<1>15. ASSUME NEW t \in Tags, NEW d \in DataTypes, UpdateDataType(t, d) PROVE TypeOK'
  BY <1>15 DEF UpdateDataType, procVars, memVars
<1>16. CASE UNCHANGED vars
  BY <1>16 DEF vars, procVars, memVars, dbVars
<1> QED
  BY <1>1, <1>2, <1>3, <1>4, <1>5, <1>6, <1>7, <1>8, <1>9, <1>10, <1>11,
     <1>12, <1>13, <1>14, <1>15, <1>16 DEF Next

\* Every reachable state is well typed: Put, the flush loop, the restart and
\* the tag API keep every map within its domain and range.
THEOREM TypeCorrect == Spec => []TypeOK
<1>1. Init => TypeOK
  BY InitTypeOK
<1>2. TypeOK /\ [Next]_vars => TypeOK'
  BY TypeStep
<1> QED
  BY <1>1, <1>2, PTL DEF Spec

-----------------------------------------------------------------------------
(***************************************************************************)
(* The inductive invariant behind NothingLost, UpsertNeverRefused and      *)
(* StopFlushes as long as no tag has changed its data type.                *)
(***************************************************************************)

\* The places where a value of tag t can be.
Copies(t) == {latest[t], pending[t], batch[t], row[t]}

\* A copy is absent, or has the tag's type and a number already given out.
WellFormed(t) == \A v \in Copies(t) :
  /\ v.seq = 0 => v = None
  /\ v.seq # 0 => v.type = tagType[t]
  /\ started => v.seq <= sequence

\* The copies of a tag agree on which one is the newest.
Coherent(t) ==
  /\ started => row[t].seq <= latest[t].seq /\ batch[t].seq <= latest[t].seq
  /\ pending[t] \in {None, latest[t]}
  /\ batch[t] # None /\ batch[t] # latest[t] => pending[t] = latest[t]
  /\ t \notin tagRows => row[t] = None
  /\ started /\ t \in tagRows => latest[t] \in {row[t], pending[t], batch[t]}

\* No two tags share a sequence number.
Apart(t, u) == \A v \in Copies(t), w \in Copies(u) : v.seq = w.seq => v.seq = 0

\* Where the goroutine stands.
Control ==
  /\ ~started => latest = Empty /\ pending = Empty /\ batch = Empty
  /\ started <=> worker # "none"
  /\ ~Flushing => batch = Empty
  /\ worker \in {"finish", "finishFlush", "done"} => stopped
  /\ worker = "done" /\ ~timedOut => pending = Empty

LEMMA InitControl == Init => Control
  BY DEF Init, Control, Flushing

\* Every step keeps Control, type changes included.
LEMMA ControlStep ==
  ASSUME TypeOK, Control, [Next]_vars PROVE Control'
<1> USE DEF Control, Flushing
<1>1. CASE Start
  BY <1>1 DEF Start
<1>2. ASSUME NEW t \in Tags, NEW d \in DataTypes, Put(t, d) PROVE Control'
  BY <1>2 DEF Put
<1>3. CASE Stop \/ Cancel \/ FlushDone \/ BeginFinish \/ FinishDeadline \/ FinishDone
  BY <1>3 DEF Stop, Cancel, FlushDone, BeginFinish, FinishDeadline, FinishDone, memVars
<1>4. CASE Wake \/ Tick \/ FinishRound
  BY <1>4 DEF Wake, Tick, FinishRound, TakePending
<1>5. ASSUME NEW t \in Tags, UpsertLatest(t) \/ UpsertFails(t) \/ UpsertRefused(t)
      PROVE  Control'
  BY <1>5 DEF UpsertLatest, UpsertFails, UpsertRefused, procVars
<1>6. CASE Restart
  BY <1>6 DEF Restart
<1>7. ASSUME NEW t \in Tags, DeleteTag(t) PROVE Control'
  BY <1>7 DEF DeleteTag, procVars, memVars
<1>8. ASSUME NEW t \in Tags, NEW d \in DataTypes, UpdateDataType(t, d) PROVE Control'
  BY <1>8 DEF UpdateDataType, procVars, memVars
<1>9. CASE UNCHANGED vars
  BY <1>9 DEF vars, procVars, memVars
<1> QED
  BY <1>1, <1>2, <1>3, <1>4, <1>5, <1>6, <1>7, <1>8, <1>9 DEF Next

\* Values arrive with the tag's own type.
CurrentTypes == \A t \in Tags : loadable[t] \subseteq {tagType[t]}

LEMMA CurrentTypesStep ==
  ASSUME TypeOK, CurrentTypes, Unretyped', [Next]_vars PROVE CurrentTypes'
<1>1. CASE Start
  BY <1>1 DEF CurrentTypes, Start, dbVars
<1>2. CASE Restart
  BY <1>2 DEF CurrentTypes, Restart, NothingLoadable
<1>3. ASSUME NEW t \in Tags, NEW d \in DataTypes, UpdateDataType(t, d) PROVE FALSE
  BY <1>3 DEF UpdateDataType, Unretyped, TypeOK
<1>4. CASE UNCHANGED <<loadable, tagType>>
  BY <1>4 DEF CurrentTypes
<1> QED
  BY <1>1, <1>2, <1>3, <1>4 DEF Next, vars, memVars, dbVars, Put, Stop, Cancel, Wake,
     Tick, UpsertLatest, UpsertFails, UpsertRefused, FlushDone, BeginFinish,
     FinishRound, FinishDeadline, FinishDone, DeleteTag

IInv ==
  /\ TypeOK
  /\ Control
  /\ CurrentTypes
  /\ \A t \in Tags : WellFormed(t)
  /\ \A t \in Tags : Coherent(t)
  /\ \A t, u \in Tags : t # u => Apart(t, u)

\* The part of IInv that speaks of the values only.
DataInv ==
  /\ \A t \in Tags : WellFormed(t)
  /\ \A t \in Tags : Coherent(t)
  /\ \A t, u \in Tags : t # u => Apart(t, u)

LEMMA DataFrame ==
  ASSUME DataInv, UNCHANGED <<started, memVars, dbVars>>
  PROVE  DataInv'
  BY DEF DataInv, WellFormed, Coherent, Apart, Copies, memVars, dbVars

LEMMA InitIInv == Init => IInv
<1> SUFFICES ASSUME Init PROVE IInv
  OBVIOUS
<1>1. TypeOK
  BY InitTypeOK
<1>2. Control
  BY InitControl
<1>3. \A t \in Tags : WellFormed(t) /\ Coherent(t)
  BY NoneIsValue DEF Init, WellFormed, Coherent, Copies
<1>4. \A t, u \in Tags : Apart(t, u)
  BY DEF Init, Apart, Copies, Empty, None
<1>5. CurrentTypes
  BY DEF Init, CurrentTypes, NothingLoadable
<1> QED
  BY <1>1, <1>2, <1>3, <1>4, <1>5 DEF IInv

\* Start restores every row while no type has changed.
LEMMA StartStep ==
  ASSUME IInv, Start PROVE DataInv'
<1>1. ListLatest = row
  <2>1. \A t \in Tags : ListLatest[t] = row[t]
    BY DEF IInv, TypeOK, WellFormed, Coherent, Copies, ListLatest
  <2> QED
    BY <2>1 DEF ListLatest, IInv, TypeOK
<1>2. /\ latest' = row /\ row' = row /\ pending' = Empty /\ batch' = Empty
      /\ tagType' = tagType /\ tagRows' = tagRows
  BY <1>1 DEF Start, RestoreLatest, IInv, Control, dbVars
<1>3. sequence' \in Nat /\ \A t \in Tags : row[t].seq <= sequence'
  BY <1>1 DEF Start, RestoreLatest, IInv, TypeOK, Value
<1>4. \A t \in Tags : row[t] \in Value
  BY DEF IInv, TypeOK
<1>5. \A t \in Tags : WellFormed(t)'
  BY <1>2, <1>3, <1>4, NoneIsValue DEF WellFormed, Copies, IInv, Value
<1>6. \A t \in Tags : Coherent(t)'
  BY <1>2, <1>4 DEF WellFormed, Coherent, Copies, IInv, Empty, None, Value
<1>7. \A t, u \in Tags : t # u => Apart(t, u)'
  BY <1>2, <1>4 DEF Apart, Copies, IInv, Empty, None, Value
<1> QED
  BY <1>5, <1>6, <1>7 DEF DataInv

\* Put gives out a number larger than all numbers in use.
LEMMA PutStep ==
  ASSUME IInv, NEW t \in Tags, NEW d \in DataTypes, Put(t, d) PROVE DataInv'
<1> DEFINE v == [seq |-> sequence + 1, type |-> d]
<1>1. /\ latest' = [latest EXCEPT ![t] = v] /\ pending' = [pending EXCEPT ![t] = v]
      /\ row' = row /\ batch' = batch /\ tagType' = tagType /\ tagRows' = tagRows
      /\ sequence' = sequence + 1 /\ started /\ started'
  BY DEF Put, dbVars
<1>2. /\ v.seq = sequence + 1 /\ v.type = tagType[t] /\ sequence \in Nat
      /\ \A x \in Tags : latest[x] \in Value /\ pending[x] \in Value
                        /\ batch[x] \in Value /\ row[x] \in Value
  <2>1. d = tagType[t]
    BY DEF Put, IInv, CurrentTypes
  <2> QED
    BY <2>1 DEF IInv, TypeOK
<1> HIDE DEF v
<1>3. ASSUME NEW x \in Tags PROVE WellFormed(x)'
  BY <1>1, <1>2 DEF WellFormed, Copies, IInv, TypeOK, Value
<1>4. ASSUME NEW x \in Tags PROVE Coherent(x)'
  BY <1>1, <1>2 DEF WellFormed, Coherent, Copies, IInv, TypeOK, Value, None
<1>5. ASSUME NEW x \in Tags, NEW y \in Tags, x # y PROVE Apart(x, y)'
  BY <1>1, <1>2, <1>5 DEF Apart, WellFormed, Copies, IInv, TypeOK, Value
<1> QED
  BY <1>3, <1>4, <1>5 DEF DataInv

\* takePending moves every pending value into the empty batch.
LEMMA TakeStep ==
  ASSUME IInv, ~Flushing, TakePending, UNCHANGED <<started, sequence, latest, dbVars>>
  PROVE  DataInv'
<1>1. /\ batch = Empty /\ batch' = pending /\ pending' = Empty
      /\ row' = row /\ latest' = latest /\ tagType' = tagType /\ tagRows' = tagRows
      /\ started' = started /\ sequence' = sequence
  BY DEF IInv, Control, TakePending, dbVars
<1>2. /\ sequence \in Nat
      /\ \A x \in Tags : /\ latest[x] \in Value /\ pending[x] \in Value
                        /\ row[x] \in Value /\ Empty[x] = None /\ None.seq = 0
  BY DEF IInv, TypeOK, Empty, None
<1>3. ASSUME NEW x \in Tags PROVE WellFormed(x)'
  BY <1>1, <1>2 DEF WellFormed, Copies, IInv
<1>4. ASSUME NEW x \in Tags PROVE Coherent(x)'
  BY <1>1, <1>2 DEF WellFormed, Coherent, Copies, IInv, Value
<1>5. ASSUME NEW x \in Tags, NEW y \in Tags, x # y PROVE Apart(x, y)'
  BY <1>1, <1>2, <1>5 DEF Apart, Copies, IInv
<1> QED
  BY <1>3, <1>4, <1>5 DEF DataInv

\* A value leaves the batch: it is in the table, superseded, or requeued.
LEMMA UpsertStep ==
  ASSUME IInv, NEW t \in Tags, batch[t].seq # 0,
         UNCHANGED <<started, sequence, latest, tagType, tagRows>>,
         batch' = [batch EXCEPT ![t] = None],
         \/ /\ pending' = pending
            /\ row' = Upserted(t, batch[t])
            /\ t \in tagRows
         \/ /\ Requeue(t)
            /\ \/ row' = row
               \/ t \in tagRows /\ row' = Upserted(t, batch[t])
  PROVE  DataInv'
<1>1. /\ latest' = latest /\ tagType' = tagType /\ tagRows' = tagRows
      /\ started' = started /\ sequence' = sequence
  OBVIOUS
<1>2. /\ sequence \in Nat /\ None.seq = 0 /\ None \in Value
      /\ \A x \in Tags : latest[x] \in Value /\ pending[x] \in Value
                        /\ batch[x] \in Value /\ row[x] \in Value
  BY NoneIsValue DEF IInv, TypeOK, None
<1>3. /\ batch'[t] = None
      /\ \A x \in Tags \ {t} : batch'[x] = batch[x] /\ row'[x] = row[x] /\ pending'[x] = pending[x]
  BY DEF IInv, TypeOK, Upserted, Requeue
<1>4. /\ row'[t] \in {row[t], batch[t]}
      /\ row'[t] # row[t] => t \in tagRows
  BY DEF IInv, TypeOK, Upserted
<1>5. pending'[t] \in {pending[t], batch[t]}
  BY DEF IInv, TypeOK, Requeue
<1>6. started
  BY DEF IInv, Control, Empty, None
<1>7. ASSUME NEW x \in Tags PROVE WellFormed(x)'
  BY <1>1, <1>2, <1>3, <1>4, <1>5 DEF WellFormed, Copies, IInv
<1>8. ASSUME NEW x \in Tags PROVE Coherent(x)'
  <2>1. CASE x # t
    BY <2>1, <1>1, <1>3 DEF Coherent, IInv
  <2>2. CASE x = t
    <3>1. latest[t].seq = batch[t].seq => latest[t] = batch[t]
      BY <1>2 DEF WellFormed, Copies, IInv, Value
    <3>2. row[t].seq = batch[t].seq => row[t] = batch[t]
      BY <1>2 DEF WellFormed, Copies, IInv, Value
    <3>3. pending'[t] \in {None, latest[t]}
      BY <1>2, <1>6, <3>1 DEF Coherent, Requeue, IInv, TypeOK, Value
    <3>4. t \in tagRows => latest[t] \in {row'[t], pending'[t]}
      <4>1. CASE batch[t] = latest[t]
        <5>1. CASE pending' = pending /\ row' = Upserted(t, batch[t])
          <6>1. row'[t] = batch[t]
            <7>1. row[t].seq <= batch[t].seq
              BY <4>1, <1>6 DEF Coherent, IInv
            <7>2. CASE row[t].seq < batch[t].seq
              BY <7>2, <5>1 DEF Upserted, IInv, TypeOK
            <7>3. CASE ~(row[t].seq < batch[t].seq)
              <8>1. row[t].seq = batch[t].seq
                BY <7>1, <7>3, <1>2 DEF Value
              <8> QED
                BY <8>1, <7>3, <5>1, <3>2 DEF Upserted
            <7> QED
              BY <7>2, <7>3
          <6> QED
            BY <6>1, <4>1
        <5>2. CASE Requeue(t)
          <6>1. pending'[t] = IF pending[t].seq < batch[t].seq THEN batch[t] ELSE pending[t]
            BY <5>2 DEF Requeue, IInv, TypeOK
          <6>2. pending[t] = None \/ pending[t] = batch[t]
            BY <4>1 DEF Coherent, IInv
          <6>3. 0 < batch[t].seq
            BY <1>2 DEF Value
          <6> QED
            BY <6>1, <6>2, <6>3, <4>1, <1>2
        <5> QED
          BY <5>1, <5>2
      <4>2. CASE batch[t] # latest[t]
        <5>1. pending[t] = latest[t]
          BY <4>2, <1>2 DEF Coherent, IInv
        <5>2. pending'[t] = pending[t]
          BY <5>1, <1>2, <1>6 DEF Coherent, Requeue, IInv, TypeOK, Value
        <5> QED
          BY <5>1, <5>2
      <4> QED
        BY <4>1, <4>2
    <3>5. row'[t].seq <= latest[t].seq
      BY <1>4, <1>6 DEF Coherent, IInv
    <3>6. t \notin tagRows => row'[t] = None
      BY <1>4 DEF Coherent, IInv
    <3> QED
      BY <2>2, <1>1, <1>2, <1>3, <1>6, <3>3, <3>4, <3>5, <3>6 DEF Coherent, Value
  <2> QED
    BY <2>1, <2>2
<1>9. ASSUME NEW x \in Tags, NEW y \in Tags, x # y PROVE Apart(x, y)'
  <2>1. \A z \in Tags : \A w \in Copies(z)' : w = None \/ w \in Copies(z)
    BY <1>1, <1>3, <1>4, <1>5 DEF Copies
  <2>2. \A w \in Copies(x), z \in Copies(y) : w.seq = z.seq => w.seq = 0
    BY <1>9 DEF IInv, Apart
  <2> QED
    BY <2>1, <2>2, <1>2 DEF Apart
<1> QED
  BY <1>7, <1>8, <1>9 DEF DataInv

LEMMA IInvStep ==
  ASSUME Unretyped', IInv, [Next]_vars PROVE IInv'
<1>1. TypeOK' /\ Control' /\ CurrentTypes'
  BY TypeStep, ControlStep, CurrentTypesStep DEF IInv
<1>2. DataInv
  BY DEF IInv, DataInv
<1>3. IInv' <=> TypeOK' /\ Control' /\ CurrentTypes' /\ DataInv'
  BY DEF IInv, DataInv
<1>4. CASE Start
  BY <1>1, <1>3, <1>4, StartStep
<1>5. ASSUME NEW t \in Tags, NEW d \in DataTypes, Put(t, d) PROVE IInv'
  BY <1>1, <1>3, <1>5, PutStep
<1>6. CASE Stop \/ Cancel \/ FlushDone \/ BeginFinish \/ FinishDeadline \/ FinishDone
  <2>1. UNCHANGED <<started, memVars, dbVars>>
    BY <1>6 DEF Stop, Cancel, FlushDone, BeginFinish, FinishDeadline, FinishDone
  <2> QED
    BY <1>1, <1>2, <1>3, <2>1, DataFrame
<1>7. CASE Wake \/ Tick \/ FinishRound
  <2>1. ~Flushing /\ TakePending /\ UNCHANGED <<started, sequence, latest, dbVars>>
    BY <1>7 DEF Wake, Tick, FinishRound, Flushing
  <2> QED
    BY <1>1, <1>3, <2>1, TakeStep
<1>8. ASSUME NEW t \in Tags, UpsertLatest(t) \/ UpsertFails(t) \/ UpsertRefused(t) PROVE IInv'
  <2>1. /\ batch[t].seq # 0
        /\ UNCHANGED <<started, sequence, latest, tagType, tagRows>>
        /\ batch' = [batch EXCEPT ![t] = None]
    BY <1>8 DEF UpsertLatest, UpsertFails, UpsertRefused, NextInBatch, procVars, dbVars
  <2>2. \/ pending' = pending /\ row' = Upserted(t, batch[t]) /\ t \in tagRows
        \/ /\ Requeue(t)
           /\ \/ row' = row
              \/ t \in tagRows /\ row' = Upserted(t, batch[t])
    BY <1>8 DEF UpsertLatest, UpsertFails, UpsertRefused, Refused, dbVars
  <2> QED
    BY <1>1, <1>3, <2>1, <2>2, UpsertStep
<1>9. CASE Restart
  <2>1. /\ latest' = Empty /\ pending' = Empty /\ batch' = Empty /\ row' = row
        /\ tagType' = tagType /\ tagRows' = tagRows /\ ~started'
    BY <1>9 DEF Restart, dbVars
  <2>2. \A t \in Tags : WellFormed(t)' /\ Coherent(t)'
    BY <2>1, NoneIsValue DEF IInv, WellFormed, Coherent, Copies
  <2>3. \A t, u \in Tags : t # u => Apart(t, u)'
    BY <2>1, NoneIsValue DEF IInv, Apart, Copies
  <2> QED
    BY <1>1, <1>3, <2>2, <2>3 DEF DataInv
<1>10. ASSUME NEW t \in Tags, DeleteTag(t) PROVE IInv'
  <2>1. /\ latest' = latest /\ pending' = pending /\ batch' = batch
        /\ row' = [row EXCEPT ![t] = None] /\ tagRows' = tagRows \ {t}
        /\ tagType' = tagType /\ started' = started /\ sequence' = sequence
        /\ row \in [Tags -> Value] /\ sequence \in Nat
    BY <1>10 DEF DeleteTag, procVars, memVars, IInv, TypeOK
  <2>2. \A x \in Tags : WellFormed(x)'
    BY <2>1, NoneIsValue DEF IInv, WellFormed, Copies
  <2>3. \A x \in Tags : Coherent(x)'
    BY <2>1, NoneIsValue DEF IInv, Coherent, TypeOK, Value
  <2>4. \A x, y \in Tags : x # y => Apart(x, y)'
    BY <2>1, NoneIsValue DEF IInv, Apart, Copies
  <2> QED
    BY <1>1, <1>3, <2>2, <2>3, <2>4 DEF DataInv
<1>11. ASSUME NEW t \in Tags, NEW d \in DataTypes, UpdateDataType(t, d) PROVE FALSE
  BY <1>11 DEF UpdateDataType, Unretyped, IInv, TypeOK
<1>12. CASE UNCHANGED vars
  <2>1. UNCHANGED <<started, memVars, dbVars>>
    BY <1>12 DEF vars, procVars
  <2> QED
    BY <1>1, <1>2, <1>3, <2>1, DataFrame
<1> QED
  BY <1>4, <1>5, <1>6, <1>7, <1>8, <1>9, <1>10, <1>11, <1>12 DEF Next

LEMMA NoRetypeBefore ==
  ASSUME TypeOK, [Next]_vars, Unretyped' PROVE Unretyped
<1>1. CASE \E t \in Tags, d \in DataTypes : UpdateDataType(t, d)
  BY <1>1 DEF UpdateDataType, Unretyped, TypeOK
<1>2. CASE ~\E t \in Tags, d \in DataTypes : UpdateDataType(t, d)
  BY <1>2 DEF Next, vars, Unretyped, Start, Put, Stop, Cancel, Wake, Tick,
     UpsertLatest, UpsertFails, UpsertRefused, FlushDone, BeginFinish,
     FinishRound, FinishDeadline, FinishDone, Restart, DeleteTag
<1> QED
  BY <1>1, <1>2

LEMMA IInvHolds == Spec => [](Unretyped => IInv)
<1> DEFINE Inv == TypeOK /\ (Unretyped => IInv)
<1>1. Init => Inv
  BY InitTypeOK, InitIInv
<1>2. Inv /\ [Next]_vars => Inv'
  BY TypeStep, IInvStep, NoRetypeBefore
<1>3. Inv => (Unretyped => IInv)
  OBVIOUS
<1> HIDE DEF Inv
<1> QED
  BY <1>1, <1>2, <1>3, PTL DEF Spec

\* As long as no tag changes its data type, the latest value of every existing
\* tag is in the table, pending or in flight, whatever Put, flush, failed
\* upserts, stop and restarts interleave.
THEOREM NothingIsLost == Spec => []NothingLost
<1>1. (Unretyped => IInv) => NothingLost
  BY DEF IInv, Coherent, NothingLost, LatestIsKept
<1> QED
  BY IInvHolds, <1>1, PTL

\* Under the same assumption no upsert of an existing tag's value violates
\* UNIQUE (sequence), over any number of restarts.
THEOREM NoUpsertIsRefused == Spec => []UpsertNeverRefused
<1>1. (Unretyped => IInv) => UpsertNeverRefused
  BY DEF IInv, Apart, Copies, UpsertNeverRefused, Refused, UniqueClash
<1> QED
  BY IInvHolds, <1>1, PTL

\* Under the same assumption a Stop that ends before its timeout leaves the
\* latest value of every existing tag in the table.
THEOREM StopHasFlushed == Spec => []StopFlushes
<1>1. (Unretyped => IInv) => StopFlushes
  <2> SUFFICES ASSUME IInv, worker = "done", ~timedOut,
                      NEW t \in Tags, t \in tagRows
               PROVE  row[t] = latest[t]
    BY DEF StopFlushes
  <2>1. started /\ pending = Empty /\ batch = Empty
    BY DEF IInv, Control, Flushing
  <2>2. latest[t] = row[t] \/ latest[t] = None
    BY <2>1, NoneIsValue DEF IInv, Coherent
  <2>3. latest[t] = None => row[t] = None
    BY <2>1, NoneIsValue DEF IInv, Coherent, WellFormed, Copies, TypeOK, Value
  <2> QED
    BY <2>2, <2>3
<1> QED
  BY IInvHolds, <1>1, PTL

\* With or without type changes a row never goes back to an older value.
THEOREM RowsAreMonotone == Spec => RowMonotone
<1>1. TypeOK /\ [Next]_vars => [\A t \in Tags : t \in tagRows' => row[t].seq <= row'[t].seq]_vars
  <2> SUFFICES ASSUME TypeOK, Next, NEW t \in Tags, t \in tagRows'
               PROVE  row[t].seq <= row'[t].seq
    OBVIOUS
  <2>1. row[t].seq \in Nat
    BY DEF TypeOK, Value
  <2>2. CASE row' = row
    BY <2>1, <2>2
  <2>3. ASSUME NEW u \in Tags, row' = Upserted(u, batch[u]) PROVE row[t].seq <= row'[t].seq
    BY <2>1, <2>3 DEF Upserted, TypeOK, Value
  <2>4. ASSUME NEW u \in Tags, DeleteTag(u) PROVE row[t].seq <= row'[t].seq
    BY <2>1, <2>4 DEF DeleteTag, TypeOK
  <2> QED
    BY <2>2, <2>3, <2>4 DEF Next, Start, Put, Stop, Cancel, Wake, Tick, UpsertLatest,
       UpsertFails, UpsertRefused, FlushDone, BeginFinish, FinishRound, FinishDeadline,
       FinishDone, Restart, UpdateDataType, dbVars
<1> QED
  BY TypeCorrect, <1>1, PTL DEF Spec, RowMonotone

----------------------------------------------------------------------------
(* The store implements DurableLatest.                                     *)

\* Absent values are equal, and nothing in memory is numbered past sequence.
Numbered(t) ==
  /\ \A v \in {latest[t], pending[t], batch[t], row[t]} : v.seq = 0 => v = None
  /\ started => latest[t].seq <= sequence

\* What is queued or in flight is the latest value, or has been replaced by
\* it; a latest value that is in neither place has been written, or a newer
\* row of the tag is in its way.
Queued(t) ==
  /\ pending[t] \in {None, latest[t]}
  /\ batch[t] = latest[t] \/ batch[t].seq < latest[t].seq \/ batch[t] = None
  /\ batch[t] # None /\ batch[t] # latest[t] => pending[t] = latest[t]
  /\ t \in tagRows => \/ latest[t].seq <= row[t].seq
                      \/ latest[t] \in {pending[t], batch[t]}

RInv ==
  /\ TypeOK
  /\ Control
  /\ \A t \in Tags : Numbered(t)
  /\ \A t \in Tags : Queued(t)

QueueInv == \A t \in Tags : Numbered(t) /\ Queued(t)

LEMMA ValuesTyped ==
  ASSUME TypeOK
  PROVE  /\ sequence \in Nat /\ None.seq = 0 /\ None \in Value
         /\ \A t \in Tags : /\ latest[t] \in Value /\ pending[t] \in Value
                            /\ batch[t] \in Value /\ row[t] \in Value
                            /\ Empty[t] = None
  BY NoneIsValue DEF TypeOK

LEMMA InitRInv == Init => RInv
<1> SUFFICES ASSUME Init PROVE RInv
  OBVIOUS
<1>1. TypeOK /\ Control
  BY InitTypeOK, InitControl
<1>2. QueueInv
  BY NoneIsValue DEF Init, QueueInv, Numbered, Queued
<1> QED
  BY <1>1, <1>2 DEF RInv, QueueInv

LEMMA StartQueues == ASSUME RInv, Start PROVE QueueInv'
<1>1. /\ latest' = ListLatest /\ pending' = Empty /\ batch' = Empty
      /\ row' = row /\ tagRows' = tagRows
  BY DEF Start, RestoreLatest, dbVars, RInv, Control
<1>2. /\ \A t \in Tags : ListLatest[t] \in {None, row[t]}
      /\ \A t \in Tags : ListLatest[t].seq <= sequence'
  BY ValuesTyped DEF Start, RestoreLatest, ListLatest, RInv
<1>3. \A t \in Tags : row[t].seq = 0 => row[t] = None
  BY DEF RInv, Numbered
<1> QED
  BY <1>1, <1>2, <1>3, ValuesTyped DEF QueueInv, Numbered, Queued, RInv, Value

LEMMA PutQueues ==
  ASSUME RInv, NEW t \in Tags, NEW d \in DataTypes, Put(t, d) PROVE QueueInv'
<1> DEFINE v == [seq |-> sequence + 1, type |-> d]
<1>1. /\ latest' = [latest EXCEPT ![t] = v] /\ pending' = [pending EXCEPT ![t] = v]
      /\ row' = row /\ batch' = batch /\ tagRows' = tagRows
      /\ sequence' = sequence + 1 /\ started
  BY DEF Put, dbVars
<1>2. v.seq = sequence + 1
  OBVIOUS
<1> HIDE DEF v
<1>3. ASSUME NEW x \in Tags PROVE Numbered(x)' /\ Queued(x)'
  BY <1>1, <1>2, ValuesTyped DEF Numbered, Queued, RInv, TypeOK, Value
<1> QED
  BY <1>3 DEF QueueInv

LEMMA TakeQueues ==
  ASSUME RInv, ~Flushing, TakePending, UNCHANGED <<started, sequence, latest, dbVars>>
  PROVE  QueueInv'
<1>1. /\ batch = Empty /\ batch' = pending /\ pending' = Empty
      /\ row' = row /\ latest' = latest /\ tagRows' = tagRows
      /\ started' = started /\ sequence' = sequence
  BY DEF RInv, Control, TakePending, dbVars
<1> QED
  BY <1>1, ValuesTyped DEF QueueInv, Numbered, Queued, RInv, Value

LEMMA UpsertQueues ==
  ASSUME RInv, NEW t \in Tags, batch[t].seq # 0,
         UNCHANGED <<started, sequence, latest, tagRows>>,
         batch' = [batch EXCEPT ![t] = None],
         \/ pending' = pending /\ row' = Upserted(t, batch[t])
         \/ Requeue(t) /\ (row' = row \/ row' = Upserted(t, batch[t]))
  PROVE  QueueInv'
<1>1. /\ latest' = latest /\ tagRows' = tagRows /\ started' = started
      /\ sequence' = sequence
  OBVIOUS
<1>2. \A x \in Tags \ {t} : /\ batch'[x] = batch[x] /\ row'[x] = row[x]
                            /\ pending'[x] = pending[x]
  BY DEF RInv, TypeOK, Upserted, Requeue
<1>3. batch'[t] = None
  BY DEF RInv, TypeOK
<1>4. /\ row'[t] \in {row[t], batch[t]} /\ row[t].seq <= row'[t].seq
      /\ row' = Upserted(t, batch[t]) => batch[t].seq <= row'[t].seq
  BY ValuesTyped DEF RInv, TypeOK, Upserted, Value
<1>5. /\ pending'[t] \in {pending[t], batch[t]}
      /\ Requeue(t) => batch[t].seq <= pending'[t].seq
      /\ pending[t].seq <= pending'[t].seq
  BY ValuesTyped DEF RInv, TypeOK, Requeue, Value
<1>6. ASSUME NEW x \in Tags, x # t PROVE Numbered(x)' /\ Queued(x)'
  BY <1>1, <1>2, <1>6 DEF Numbered, Queued, RInv
<1>7. Numbered(t)'
  BY <1>1, <1>3, <1>4, <1>5 DEF Numbered, RInv
<1>8. Queued(t)'
  <2>1. Numbered(t) /\ Queued(t)
    BY DEF RInv
  <2>2. pending'[t] \in {None, latest[t]}
    <3>1. CASE batch[t] = latest[t]
      BY <3>1, <2>1, <1>5 DEF Queued
    <3>2. CASE batch[t] # latest[t]
      <4>1. pending[t] = latest[t] /\ batch[t].seq < latest[t].seq
        BY <3>2, <2>1, ValuesTyped DEF Queued, RInv
      <4>2. pending'[t] # batch[t]
        BY <4>1, <1>5, ValuesTyped DEF RInv, Value
      <4> QED
        BY <4>1, <4>2, <1>5
    <3> QED
      BY <3>1, <3>2
  <2>3. t \in tagRows => latest[t].seq <= row'[t].seq \/ latest[t] = pending'[t]
    <3> SUFFICES ASSUME t \in tagRows
                 PROVE  latest[t].seq <= row'[t].seq \/ latest[t] = pending'[t]
      OBVIOUS
    <3>1. CASE latest[t].seq <= row[t].seq
      BY <3>1, <1>4, ValuesTyped DEF RInv, Value
    <3>2. CASE latest[t] = pending[t]
      <4>1. pending'[t] = None => latest[t].seq = 0
        BY <3>2, <1>5, ValuesTyped DEF RInv, Value
      <4> QED
        BY <4>1, <2>2, <1>4, ValuesTyped DEF RInv, Value
    <3>3. CASE latest[t] = batch[t]
      BY <3>3, <2>2, <1>4, <1>5, ValuesTyped DEF RInv, Value
    <3> QED
      BY <3>1, <3>2, <3>3, <2>1 DEF Queued
  <2> QED
    BY <2>2, <2>3, <1>1, <1>3 DEF Queued
<1> QED
  BY <1>6, <1>7, <1>8 DEF QueueInv

LEMMA RInvStep == ASSUME RInv, [Next]_vars PROVE RInv'
<1>1. TypeOK' /\ Control'
  BY TypeStep, ControlStep DEF RInv
<1>2. QueueInv /\ (RInv' <=> TypeOK' /\ Control' /\ QueueInv')
  BY DEF RInv, QueueInv
<1>3. CASE Start
  BY <1>1, <1>2, <1>3, StartQueues
<1>4. ASSUME NEW t \in Tags, NEW d \in DataTypes, Put(t, d) PROVE RInv'
  BY <1>1, <1>2, <1>4, PutQueues
<1>5. CASE \/ Stop \/ Cancel \/ FlushDone \/ BeginFinish \/ FinishDeadline \/ FinishDone
           \/ UNCHANGED vars
  <2>1. UNCHANGED <<started, memVars, row, tagRows>>
    BY <1>5 DEF Stop, Cancel, FlushDone, BeginFinish, FinishDeadline, FinishDone,
       dbVars, procVars, vars
  <2>2. QueueInv'
    BY <2>1, <1>2 DEF QueueInv, Numbered, Queued, memVars
  <2> QED
    BY <1>1, <1>2, <2>2
<1>6. CASE Wake \/ Tick \/ FinishRound
  <2>1. ~Flushing /\ TakePending /\ UNCHANGED <<started, sequence, latest, dbVars>>
    BY <1>6 DEF Wake, Tick, FinishRound, Flushing
  <2> QED
    BY <1>1, <1>2, <2>1, TakeQueues
<1>7. ASSUME NEW t \in Tags, UpsertLatest(t) \/ UpsertFails(t) \/ UpsertRefused(t) PROVE RInv'
  <2>1. /\ batch[t].seq # 0
        /\ UNCHANGED <<started, sequence, latest, tagRows>>
        /\ batch' = [batch EXCEPT ![t] = None]
    BY <1>7 DEF UpsertLatest, UpsertFails, UpsertRefused, NextInBatch, procVars, dbVars
  <2>2. \/ pending' = pending /\ row' = Upserted(t, batch[t])
        \/ Requeue(t) /\ (row' = row \/ row' = Upserted(t, batch[t]))
    BY <1>7 DEF UpsertLatest, UpsertFails, UpsertRefused, dbVars
  <2> QED
    BY <1>1, <1>2, <2>1, <2>2, UpsertQueues
<1>8. CASE Restart
  <2>1. /\ latest' = Empty /\ pending' = Empty /\ batch' = Empty /\ row' = row
        /\ ~started'
    BY <1>8 DEF Restart, dbVars
  <2>2. QueueInv'
    BY <2>1, NoneIsValue DEF QueueInv, Numbered, Queued, RInv
  <2> QED
    BY <1>1, <1>2, <2>2
<1>9. ASSUME NEW t \in Tags, DeleteTag(t) PROVE RInv'
  <2>1. /\ UNCHANGED <<started, sequence, latest, pending, batch>>
        /\ row' = [row EXCEPT ![t] = None] /\ tagRows' = tagRows \ {t}
        /\ row \in [Tags -> Value]
    BY <1>9 DEF DeleteTag, procVars, memVars, RInv, TypeOK
  <2>2. QueueInv'
    BY <2>1, <1>2, NoneIsValue DEF QueueInv, Numbered, Queued
  <2> QED
    BY <1>1, <1>2, <2>2
<1>10. ASSUME NEW t \in Tags, NEW d \in DataTypes, UpdateDataType(t, d) PROVE RInv'
  <2>1. UNCHANGED <<started, sequence, latest, pending, batch, row, tagRows>>
    BY <1>10 DEF UpdateDataType, procVars
  <2>2. QueueInv'
    BY <2>1, <1>2 DEF QueueInv, Numbered, Queued
  <2> QED
    BY <1>1, <1>2, <2>2
<1> QED
  BY <1>3, <1>4, <1>5, <1>6, <1>7, <1>8, <1>9, <1>10 DEF Next

-----------------------------------------------------------------------------
(* The refinement: initial states, and steps *)

LEMMA InitImplements == Init => Promise!Init
  BY DataTypesAssumption DEF Init, Promise!Init, Promise!Empty, Promise!None, Empty, None, Phase

\* Where the goroutine stands decides the phase.
LEMMA PhaseUp == worker \notin {"none", "done"} => Phase = "up"
  BY DEF Phase

LEMMA PhaseDone ==
  /\ worker = "none" => Phase = "down"
  /\ worker = "done" => Phase = IF pending = Empty THEN "drained" ELSE "abandoned"
  BY DEF Phase

LEMMA StepImplements ==
  ASSUME RInv, [Next]_vars PROVE [Promise!Next]_Promise!vars
<1> USE DEF Promise!Empty, Promise!None
<1>1. CASE Start
  <2>1. /\ Phase = "down" /\ Phase' = "up"
    BY <1>1, PhaseDone, PhaseUp DEF Start, RInv, Control, Phase
  <2>2. latest' = [t \in Tags |-> IF t \in tagRows /\ row[t].type = tagType[t]
                                  THEN row[t] ELSE None]
    BY <1>1 DEF Start, RestoreLatest, ListLatest, RInv, Numbered
  <2> QED
    BY <1>1, <2>1, <2>2 DEF Start, dbVars, Promise!Next, Promise!Open, None
<1>2. ASSUME NEW t \in Tags, NEW d \in DataTypes, Put(t, d) PROVE Promise!Next
  <2>1. Phase = "up" /\ Phase' = "up"
    BY <1>2 DEF Put, RInv, Control, Phase
  <2>2. /\ latest' = [latest EXCEPT ![t] = latest'[t]]
        /\ latest'[t].type = d /\ latest'[t].seq = sequence + 1
    BY <1>2 DEF Put, RInv, TypeOK
  <2>3. \A u \in Tags : latest[u].seq < latest'[t].seq
    BY <1>2, <2>2, ValuesTyped DEF Put, RInv, Numbered, Value
  <2> QED
    BY <1>2, <2>1, <2>2, <2>3 DEF Put, dbVars, Promise!Next, Promise!Put
<1>3. CASE Stop \/ Cancel \/ FlushDone \/ BeginFinish \/ FinishDeadline
  <2>1. Phase' = Phase
    BY <1>3 DEF Stop, Cancel, FlushDone, BeginFinish, FinishDeadline, Flushing,
       memVars, Phase
  <2> QED
    BY <1>3, <2>1 DEF Stop, Cancel, FlushDone, BeginFinish, FinishDeadline,
       memVars, dbVars, Promise!vars
<1>4. CASE Wake \/ Tick \/ FinishRound
  <2>1. Phase' = Phase
    BY <1>4 DEF Wake, Tick, FinishRound, Phase
  <2> QED
    BY <1>4, <2>1 DEF Wake, Tick, FinishRound, dbVars, Promise!vars
<1>5. ASSUME NEW t \in Tags, UpsertLatest(t) \/ UpsertFails(t) \/ UpsertRefused(t)
      PROVE  [Promise!Next]_Promise!vars
  <2>1. Phase = "up" /\ Phase' = "up"
    BY <1>5 DEF UpsertLatest, UpsertFails, UpsertRefused, procVars, Flushing, Phase
  <2>2. UNCHANGED <<latest, tagType, tagRows>>
    BY <1>5 DEF UpsertLatest, UpsertFails, UpsertRefused, dbVars
  <2>3. CASE row' = row
    BY <2>1, <2>2, <2>3 DEF Promise!vars
  <2>4. CASE row' # row
    <3>1. t \in tagRows /\ row' = Upserted(t, batch[t])
      BY <1>5, <2>4 DEF UpsertLatest, UpsertFails, UpsertRefused, Refused, dbVars
    <3>2. row[t].seq < batch[t].seq /\ row' = [row EXCEPT ![t] = batch[t]]
      BY <3>1, <2>4 DEF Upserted
    <3>3. row'[t] = batch[t] /\ row' = [row EXCEPT ![t] = row'[t]]
      BY <3>2 DEF RInv, TypeOK
    <3>4. batch[t] = latest[t] \/ batch[t].seq < latest[t].seq
      BY <3>2, ValuesTyped DEF RInv, Queued, Value
    <3> QED
      BY <2>1, <2>2, <3>1, <3>2, <3>3, <3>4 DEF Promise!Next, Promise!Persist
  <2> QED
    BY <2>3, <2>4
<1>6. CASE FinishDone
  <2>1. /\ Phase = "up" /\ worker' = "done" /\ ~Flushing
        /\ UNCHANGED <<latest, pending, batch, row, tagType, tagRows>>
    BY <1>6 DEF FinishDone, Flushing, Phase, memVars, dbVars
  <2>2. CASE pending = Empty
    <3>1. Phase' = "drained"
      BY <2>1, <2>2 DEF Phase
    <3>2. \A t \in tagRows : latest[t].seq <= row[t].seq
      <4> SUFFICES ASSUME NEW t \in tagRows PROVE latest[t].seq <= row[t].seq
        OBVIOUS
      <4>1. t \in Tags /\ pending[t] = None /\ batch[t] = None
        BY <2>1, <2>2, NoneIsValue DEF RInv, Control, TypeOK
      <4> QED
        BY <4>1, ValuesTyped DEF RInv, Queued, Value
    <3> QED
      BY <2>1, <3>1, <3>2 DEF Promise!Next, Promise!Drain
  <2>3. CASE pending # Empty
    <3>1. Phase' = "abandoned"
      BY <2>1, <2>3 DEF Phase
    <3> QED
      BY <2>1, <3>1 DEF Promise!Next, Promise!Abandon
  <2> QED
    BY <2>2, <2>3
<1>7. CASE Restart
  <2>1. Phase # "down" /\ Phase' = "down"
    BY <1>7 DEF Restart, RInv, Control, Phase
  <2> QED
    BY <1>7, <2>1 DEF Restart, dbVars, Empty, None, Promise!Next, Promise!Crash
<1>8. ASSUME NEW t \in Tags, DeleteTag(t) PROVE Promise!Next
  <2>1. Phase' = Phase
    BY <1>8 DEF DeleteTag, procVars, memVars, Phase
  <2> QED
    BY <1>8, <2>1 DEF DeleteTag, memVars, None, Promise!Next, Promise!Delete
<1>9. ASSUME NEW t \in Tags, NEW d \in DataTypes, UpdateDataType(t, d) PROVE Promise!Next
  <2>1. Phase' = Phase
    BY <1>9 DEF UpdateDataType, procVars, memVars, Phase
  <2> QED
    BY <1>9, <2>1 DEF UpdateDataType, memVars, Promise!Next, Promise!Retype
<1>10. CASE UNCHANGED vars
  BY <1>10 DEF vars, procVars, memVars, dbVars, Phase, Promise!vars
<1> QED
  BY <1>1, <1>2, <1>3, <1>4, <1>5, <1>6, <1>7, <1>8, <1>9, <1>10 DEF Next

\* The write-behind store implements the durable register: what clients read
\* and what a restart finds behave as if there were no queue, no goroutine and
\* no failing upsert, also when tags change their types.
THEOREM StoreKeepsItsPromise == Spec => KeepsPromise
<1>1. Init => RInv
  BY InitRInv
<1>2. RInv /\ [Next]_vars => RInv'
  BY RInvStep
<1>3. RInv /\ [Next]_vars => [Promise!Next]_Promise!vars
  BY StepImplements
<1> QED
  BY <1>1, <1>2, <1>3, InitImplements, PTL DEF Spec, KeepsPromise, Promise!Spec

=============================================================================
