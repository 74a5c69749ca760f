---------------------- MODULE AcquisitionRuntimeProofs ----------------------
(***************************************************************************)
(* Proofs about the acquisition runtime, for any tags, datasources,        *)
(* triggers, dependencies (cycles included), capacity of the channel and   *)
(* limit of a cascade.                                                     *)
(*                                                                         *)
(* The invariant has two parts.  Core is about who runs: the types, who    *)
(* holds an event, how the reconciler and Stop follow Start, and which     *)
(* subscriptions the map has while Reconcile is at work; OneConsumer and   *)
(* StoppedForGood follow from it.  Flow is about the values, and holds     *)
(* until the context is done.  It says of a calculated tag that waits for  *)
(* nothing that it agrees with its trigger; FollowsTrigger and             *)
(* NoMixedSamples follow.  A cascade that meets its limit takes every tag  *)
(* that it no longer gets to out of fresh.                                 *)
(***************************************************************************)
EXTENDS AcquisitionRuntime, FiniteSetTheorems, TLAPS

----------------------------------------------------------------------------
(* The invariant.                                                          *)

(* An event is held exactly by those who wait to send it.                  *)
Sending ==
  /\ rec.ev # NoEvent <=> rec.pc = "queue"
  /\ \A d \in Datasources, s \in Slots :
       consumer[d][s].ev # NoEvent <=> consumer[d][s].pc = "queue"

(* The reconciler, the cascade and Stop follow Start.                      *)
Life ==
  /\ started = "new" => cascade.pc = "off"
  /\ rec.pc # "idle" => started = "reconciling" \/ reconciler
  /\ reconciler => started = "yes"
  /\ stop # "idle" => stopped /\ started \in {"failed", "yes"}
  /\ StoppedForGood

(* The map has the subscriptions that are not told to end, and none for    *)
(* the datasources that Reconcile is about to subscribe.                   *)
Subscribed ==
  /\ \A d \in Datasources, s \in Slots :
       /\ consumer[d][s].pc # "free" /\ ~Cancelled(d, s)
       /\ <<d, s>> \notin rec.removed
       => subs[d] = s
  /\ \A d \in rec.todo : subs[d] = NoSlot
  /\ rec.pc \in {"idle", "list"} => rec.removed = {}

(* Constants are computed from no sample, a reading from one at most.      *)
Base ==
  /\ fresh \subseteq installed
  /\ \A k \in ConstantTags : value[k].used = {}
  /\ \A r \in Readings : \A m, n \in value[r].used : m = n

TagsOf(q) == {q[i].tag : i \in DOMAIN q}

(* Each tag once, and a tag that OneTrigger describes after the others     *)
(* that it depends on.                                                     *)
InOrder(q) ==
  \A i, j \in DOMAIN q :
    /\ i # j => q[i] # q[j]
    /\ i < j /\ OneTrigger(q[i]) => q[j] \notin Depends[q[i]]

(* What runValueEvents is to evaluate for the trigger at hand.             *)
ToDo == Range(cascade.list)

Shape ==
  /\ cascade.pc # "run" => cascade.list = <<>> /\ cascade.queue = <<>>
  /\ \A c \in ToDo : Trigger[c] = cascade.trig.tag
  /\ InOrder(cascade.list)

(* The tags whose newest value is on its way.                              *)
Sent ==
  {rec.ev.tag} \cup {consumer[d][s].ev.tag : d \in Datasources, s \in Slots}
    \cup TagsOf(events)
Moving == Sent \cup TagsOf(cascade.queue)

(* A calculated tag that waits for nothing follows its trigger.            *)
Followed ==
  \A c \in installed \cap fresh :
    Trigger[c] \notin Moving /\ c \notin ToDo => Follows(c)

(* What has been evaluated does not depend on what is still to be.         *)
Later ==
  \A c \in installed \cap fresh :
    OneTrigger(c) /\ Trigger[c] = cascade.trig.tag /\ c \notin ToDo
    => ToDo \cap Depends[c] = {}

(* With one trigger, no sample but that of the trigger's value was used.   *)
Single ==
  \A c \in installed \cap fresh :
    /\ OneTrigger(c) /\ Trigger[c] \notin Moving /\ c \notin ToDo
    /\ Depends[c] \cap Calculated \subseteq (installed \cap fresh) \ ToDo
    /\ value[c].good
    => value[c].used \subseteq value[Trigger[c]].used

Flow == ~CtxDone => Shape /\ Followed /\ Later /\ Single

----------------------------------------------------------------------------
(* Sequences as queues.                                                    *)

LEMMA TailOf ==
  ASSUME NEW S, NEW q \in Seq(S), q # <<>>
  PROVE  /\ Head(q) \in S /\ Tail(q) \in Seq(S) /\ Len(Tail(q)) = Len(q) - 1
         /\ Head(q) = q[1] /\ 1 \in DOMAIN q
         /\ \A i \in DOMAIN Tail(q) : i + 1 \in DOMAIN q /\ Tail(q)[i] = q[i + 1]
         /\ \A i \in DOMAIN q : i = 1 \/ (i - 1 \in DOMAIN Tail(q) /\ Tail(q)[i - 1] = q[i])
OBVIOUS

LEMMA AppendOf ==
  ASSUME NEW S, NEW q \in Seq(S), NEW e \in S
  PROVE  /\ Append(q, e) \in Seq(S) /\ Len(Append(q, e)) = Len(q) + 1
         /\ Append(q, e) # <<>>
         /\ \A i \in DOMAIN q : i \in DOMAIN Append(q, e) /\ Append(q, e)[i] = q[i]
         /\ \A i \in DOMAIN Append(q, e) :
              i \in DOMAIN q \/ (i = Len(q) + 1 /\ Append(q, e)[i] = e)
         /\ Len(q) + 1 \in DOMAIN Append(q, e) /\ Append(q, e)[Len(q) + 1] = e
<1>1. /\ Append(q, e) \in Seq(S) /\ Len(Append(q, e)) = Len(q) + 1
      /\ DOMAIN q = 1..Len(q) /\ DOMAIN Append(q, e) = 1..(Len(q) + 1)
      /\ Len(q) \in Nat
  OBVIOUS
<1>2. Append(q, e) # <<>>
  BY <1>1
<1>3. ASSUME NEW i \in 1..Len(q) PROVE Append(q, e)[i] = q[i]
  OBVIOUS
<1>4. Append(q, e)[Len(q) + 1] = e
  OBVIOUS
<1>5. \A i \in 1..(Len(q) + 1) : i \in 1..Len(q) \/ i = Len(q) + 1
  BY <1>1
<1>6. Len(q) + 1 \in 1..(Len(q) + 1) /\ 1..Len(q) \subseteq 1..(Len(q) + 1)
  BY <1>1
<1> QED BY <1>1, <1>2, <1>3, <1>4, <1>5, <1>6

LEMMA ListTail ==
  ASSUME NEW S, NEW q \in Seq(S), q # <<>>
  PROVE  /\ Range(q) = {Head(q)} \cup Range(Tail(q))
         /\ InOrder(q) => /\ InOrder(Tail(q)) /\ Head(q) \notin Range(Tail(q))
                          /\ OneTrigger(Head(q)) => Range(Tail(q)) \cap Depends[Head(q)] = {}
<1> DEFINE t == Tail(q)
<1>1. /\ q[1] = Head(q) /\ 1 \in DOMAIN q
      /\ \A i \in DOMAIN t : i + 1 \in DOMAIN q /\ t[i] = q[i + 1] /\ i \in Nat \ {0}
      /\ \A i \in DOMAIN q : i = 1 \/ (i - 1 \in DOMAIN t /\ t[i - 1] = q[i])
  <2>1. \A i \in DOMAIN t : i \in Nat \ {0}
    BY TailOf
  <2> QED BY <2>1, TailOf
<1> HIDE DEF t
<1>2. Range(q) = {Head(q)} \cup Range(t)
  BY <1>1 DEF Range
<1>3. ASSUME InOrder(q)
      PROVE  /\ InOrder(t) /\ Head(q) \notin Range(t)
             /\ OneTrigger(Head(q)) => Range(t) \cap Depends[Head(q)] = {}
  <2>1. InOrder(t)
    <3>1. ASSUME NEW i \in DOMAIN t, NEW j \in DOMAIN t
          PROVE  /\ i # j => t[i] # t[j]
                 /\ i < j /\ OneTrigger(t[i]) => t[j] \notin Depends[t[i]]
      <4>1. i # j => i + 1 # j + 1
        BY <1>1
      <4>2. i < j => i + 1 < j + 1
        BY <1>1
      <4> QED BY <1>1, <1>3, <4>1, <4>2 DEF InOrder
    <3> QED BY <3>1 DEF InOrder
  <2>2. ASSUME NEW i \in DOMAIN t PROVE t[i] # q[1] /\ (OneTrigger(q[1]) => t[i] \notin Depends[q[1]])
    <3>1. 1 < i + 1 /\ 1 # i + 1
      BY <1>1
    <3> QED BY <1>1, <1>3, <3>1 DEF InOrder
  <2> QED BY <1>1, <2>1, <2>2 DEF Range
<1> QED BY <1>2, <1>3 DEF t

LEMMA QueueTail ==
  ASSUME NEW S, NEW q \in Seq(S), q # <<>>
  PROVE  TagsOf(q) = {Head(q).tag} \cup TagsOf(Tail(q))
<1> DEFINE t == Tail(q)
<1>1. /\ q[1] = Head(q) /\ 1 \in DOMAIN q
      /\ \A i \in DOMAIN t : i + 1 \in DOMAIN q /\ t[i] = q[i + 1]
      /\ \A i \in DOMAIN q : i = 1 \/ (i - 1 \in DOMAIN t /\ t[i - 1] = q[i])
  BY TailOf
<1> HIDE DEF t
<1>2. TagsOf(q) = {Head(q).tag} \cup TagsOf(t)
  BY <1>1 DEF TagsOf
<1> QED BY <1>2 DEF t

LEMMA QueueAppend ==
  ASSUME NEW S, NEW q \in Seq(S), NEW e \in S
  PROVE  TagsOf(Append(q, e)) = TagsOf(q) \cup {e.tag}
<1> DEFINE a == Append(q, e)
<1>1. /\ \A i \in DOMAIN q : i \in DOMAIN a /\ a[i] = q[i]
      /\ \A i \in DOMAIN a : i \in DOMAIN q \/ (i = Len(q) + 1 /\ a[i] = e)
      /\ Len(q) + 1 \in DOMAIN a /\ a[Len(q) + 1] = e
  BY AppendOf
<1> HIDE DEF a
<1>2. TagsOf(a) = TagsOf(q) \cup {e.tag}
  BY <1>1 DEF TagsOf
<1> QED BY <1>2 DEF a

LEMMA NoElements == Range(<<>>) = {} /\ TagsOf(<<>>) = {}
BY DEF Range, TagsOf

(* orderCalculatedTags returns all of the tags, each once, and a tag that  *)
(* OneTrigger describes is in no cycle, nor behind one: those that it      *)
(* depends on are before it.                                               *)
LEMMA OrdersAll ==
  ASSUME NEW t, NEW S, S \subseteq Calculated, IsFiniteSet(S),
         \A c \in S : Trigger[c] = t, NEW q \in Orders(S)
  PROVE  q \in Seq(S) /\ Range(q) = S /\ InOrder(q)
<1> DEFINE n == Cardinality(S)
           Ahead(i) == Depends[q[i]] \cap From(q, i) = {}
           Stuck(k) == \A c \in From(q, k) : Depends[c] \cap From(q, k) # {}
<1>1. n \in Nat
  BY FS_CardinalityType
<1>2. /\ q \in [1..n -> S]
      /\ \A i, j \in 1..n : i # j => q[i] # q[j]
      /\ \A i \in DOMAIN q : Ahead(i) \/ \E k \in 1..i : Stuck(k)
  BY DEF Orders, SetToSeqs
<1> HIDE DEF n
<1>3. q \in Injection(1..n, S)
  BY <1>2 DEF Injection, IsInjective
<1>4. q \in Surjection(1..n, S)
  <2>1. Cardinality(1..n) = n
    BY <1>1, FS_Interval
  <2> QED BY <1>3, <2>1, FS_Injection DEF n
<1>5. Range(q) = S
  BY <1>2, <1>4 DEF Surjection, Range
<1>6. q \in Seq(S) /\ Len(q) = n
  BY <1>1, <1>2
<1>7. ASSUME NEW i \in 1..n, NEW j \in 1..n, i < j, OneTrigger(q[i])
      PROVE  q[j] \notin Depends[q[i]]
  <2>1. \A k \in 1..i : q[i] \in From(q, k) /\ q[j] \in From(q, k)
    BY <1>1, <1>6, <1>7 DEF From
  <2>2. \A k \in 1..i : From(q, k) \subseteq S
    BY <1>1, <1>2, <1>6 DEF From
  <2>3. ASSUME NEW k \in 1..i, Stuck(k) PROVE FALSE
    <3>1. q[i] \in S /\ Trigger[q[i]] = t /\ t \in Readings
      BY <1>2, <1>7 DEF OneTrigger
    <3>2. PICK d \in Depends[q[i]] : d \in From(q, k)
      BY <2>1, <2>3
    <3>3. d \in S /\ d \notin ConstantTags /\ d \notin Readings
      BY <2>2, <3>2, AcquisitionAssumption DEF AcquisitionAssumption
    <3>4. Direct(d) /\ Trigger[d] = t
      BY <1>7, <3>1, <3>2, <3>3 DEF OneTrigger
    <3>5. PICK x \in Depends[d] : x \in From(q, k)
      BY <2>3, <3>2
    <3>6. x \notin ConstantTags /\ x \notin Readings
      BY <2>2, <3>5, AcquisitionAssumption DEF AcquisitionAssumption
    <3> QED BY <3>1, <3>4, <3>5, <3>6 DEF Direct
  <2>4. Ahead(i)
    BY <1>2, <2>3
  <2>5. i \in 1..i
    OBVIOUS
  <2> QED BY <2>1, <2>4, <2>5
<1>8. InOrder(q)
  BY <1>2, <1>7 DEF InOrder
<1> QED BY <1>5, <1>6, <1>8

----------------------------------------------------------------------------
(* Types, and who runs when.                                               *)

Core == TypeOK /\ Sending /\ Life /\ Subscribed /\ Base

Recs == [pc : {"idle", "list", "put", "queue", "stop", "subscribe"},
         tags : SUBSET Tags, hand : SUBSET (Readings \cup ConstantTags),
         removed : SUBSET (Datasources \X Slots),
         todo : SUBSET Datasources,
         ev : Event \cup {NoEvent}]

(* The names are distinct.                                                 *)
LEMMA Names ==
  /\ \A k \in ConstantTags : k \notin Readings /\ k \notin Calculated
  /\ \A r \in Readings : r \notin Calculated
  /\ \A s \in Slots : s # NoSlot
  /\ NoEvent \notin Event /\ NoSlot \notin Tags /\ NoEvent.tag = NoSlot
  /\ \A t \in Tags, good \in BOOLEAN :
       EventOf(t, good) \in Event /\ EventOf(t, good).tag = t
         /\ EventOf(t, good).good = good
  /\ \A c \in Calculated : /\ Depends[c] \subseteq Tags
                           /\ Trigger[c] \in Readings \cup Calculated
  /\ Initial \subseteq SUBSET Tags /\ Edited \subseteq Tags
  /\ QueueSize \in Nat \ {0} /\ CascadeLimit \in Nat \ {0}
  /\ MaxSamples \in Nat /\ MaxEvents \in Nat
BY AcquisitionAssumption
   DEF AcquisitionAssumption, TriggersAllowed, NoEvent, Event, EventOf, Tags

LEMMA InitCore == Init => Core
<1> SUFFICES ASSUME Init PROVE Core
  OBVIOUS
<1>1. TypeOK
  <2>1. NoRec \in Recs /\ Free \in Consumer
    BY DEF NoRec, Recs, Free, Consumer
  <2>2. <<>> \in Seq(Event) /\ <<>> \in Seq(Calculated) /\ Len(<<>>) = 0
    OBVIOUS
  <2>3. cascade \in [pc : {"off", "select", "run"}, queue : Seq(Event),
                     list : Seq(Calculated), trig : Event \cup {NoEvent},
                     n : 0..(CascadeLimit - 1)]
    <3>1. cascade = [pc |-> "off", queue |-> <<>>, list |-> <<>>, trig |-> NoEvent, n |-> 0]
      BY DEF Init, Resting
    <3>2. 0 \in 0..(CascadeLimit - 1)
      BY Names
    <3> QED BY <2>2, <3>1, <3>2
  <2>4. /\ db \subseteq Tags /\ config \in [ConstantTags -> Nat]
        /\ constants \in [ConstantTags -> Nat \cup {NoConfig}]
        /\ subs \in [Datasources -> Slots \cup {NoSlot}]
        /\ consumer \in [Datasources -> [Slots -> Consumer]]
        /\ value \in [Tags -> [good : BOOLEAN, used : SUBSET Samples]]
        /\ left \in [samples : 0..MaxSamples, outside : 0..MaxEvents]
        /\ events \in Seq(Event) /\ Len(events) <= QueueSize
    BY <2>1, <2>2, Names DEF Init
  <2> QED BY <2>1, <2>3, <2>4 DEF Init, TypeOK, Recs
<1>2. Sending /\ Life /\ Subscribed
  BY DEF Init, Sending, Life, Subscribed, StoppedForGood, NoRec, Free
<1>3. Base
  BY DEF Init, Base, Tags
<1> QED BY <1>1, <1>2, <1>3 DEF Core

(* Where Reconcile goes on, or returns.                                    *)
LEMMA AdvanceStep ==
  ASSUME TypeOK, Life, rec.pc # "idle", NEW r \in Recs, r.ev = NoEvent, Advance(r)
  PROVE  /\ rec' \in Recs /\ rec'.ev = NoEvent /\ rec'.pc \notin {"queue", "list"}
         /\ rec'.removed = r.removed /\ rec'.todo = r.todo
         /\ rec'.pc = "idle" => r.removed = {}
         /\ started' \in {"new", "reconciling", "yes", "failed"}
         /\ reconciler' \in BOOLEAN /\ Life'
         /\ UNCHANGED <<parentDone, stopped, stop>>
<1>1. CASE r.hand = {} /\ r.removed = {} /\ r.todo = {}
  <2>1. Return(TRUE)
    BY <1>1 DEF Advance
  <2>2. rec' = NoRec /\ NoRec \in Recs /\ NoRec.pc = "idle" /\ NoRec.ev = NoEvent
        /\ NoRec.removed = {} /\ NoRec.todo = {}
    BY <2>1 DEF Return, NoRec, Recs
  <2> QED BY <1>1, <2>1, <2>2 DEF Return, Life, StoppedForGood, TypeOK
<1>2. CASE ~(r.hand = {} /\ r.removed = {} /\ r.todo = {})
  <2>1. UNCHANGED life_vars
    BY <1>2 DEF Advance
  <2>2. /\ rec' \in Recs /\ rec'.ev = NoEvent /\ rec'.removed = r.removed
        /\ rec'.todo = r.todo /\ rec'.pc \in {"put", "stop", "subscribe"}
    BY <1>2 DEF Advance, Recs
  <2> QED BY <2>1, <2>2 DEF life_vars, Life, StoppedForGood, TypeOK
<1> QED BY <1>1, <1>2

LEMMA OutsideStep == TypeOK /\ Outside => left' \in [samples : 0..MaxSamples, outside : 0..MaxEvents]
<1> SUFFICES ASSUME TypeOK, Outside
             PROVE  left' \in [samples : 0..MaxSamples, outside : 0..MaxEvents]
  OBVIOUS
<1>1. /\ left \in [samples : 0..MaxSamples, outside : 0..MaxEvents] /\ MaxEvents \in Nat
      /\ left.outside > 0 /\ left' = [left EXCEPT !.outside = @ - 1]
  BY Names DEF TypeOK, Outside
<1>2. left.outside - 1 \in 0..MaxEvents
  BY <1>1
<1> QED BY <1>1, <1>2

LEMMA FailsStep == TypeOK /\ Fails => left' \in [samples : 0..MaxSamples, outside : 0..MaxEvents]
BY OutsideStep DEF TypeOK, Fails

LEMMA SendStep ==
  ASSUME TypeOK, NEW e \in Event, Send(e)
  PROVE  events' \in Seq(Event) /\ Len(events') <= QueueSize
<1>1. CASE Len(events) < QueueSize /\ events' = Append(events, e)
  <2>1. Len(events') = Len(events) + 1 /\ events' \in Seq(Event)
    BY <1>1, AppendOf DEF TypeOK
  <2>2. Len(events) \in Nat
    BY DEF TypeOK
  <2> QED BY <1>1, <2>1, <2>2, Names
<1>2. CASE UNCHANGED events
  BY <1>2 DEF TypeOK
<1> QED BY <1>1, <1>2 DEF Send

(* Put keeps what is said of constants and readings.                       *)
LEMMA PutStep ==
  ASSUME TypeOK, Base, NEW t \in Tags, NEW good \in BOOLEAN, NEW used \in SUBSET Samples,
         good /\ t \in ConstantTags => used = {},
         good /\ t \in Readings => \A m, n \in used : m = n,
         Put(t, good, used)
  PROVE  /\ value' \in [Tags -> [good : BOOLEAN, used : SUBSET Samples]]
         /\ \A k \in ConstantTags : value'[k].used = {}
         /\ \A r \in Readings : \A m, n \in value'[r].used : m = n
         /\ \A x \in Tags : x # t => value'[x] = value[x]
         /\ value'[t].good = good /\ (good => value'[t].used = used)
<1>1. /\ \A x \in Tags : x # t => value'[x] = value[x]
      /\ value'[t].good = good /\ (good => value'[t].used = used)
      /\ ~good => value'[t].used = {}
      /\ value' \in [Tags -> [good : BOOLEAN, used : SUBSET Samples]]
  BY DEF Put, TypeOK
<1>2. ConstantTags \subseteq Tags /\ Readings \subseteq Tags
  BY DEF Tags
<1> QED BY <1>1, <1>2 DEF Base

LEMMA ReconcileCore == Core /\ ReconcileSteps => Core'
<1> SUFFICES ASSUME Core, ReconcileSteps PROVE Core'
  OBVIOUS
<1> USE DEF Core
<1>1. CASE BeginReconcile
  <2>1. rec' \in Recs /\ rec'.pc = "list" /\ rec'.removed = {} /\ rec'.todo = {} /\ rec'.ev = NoEvent
    BY <1>1 DEF BeginReconcile, NoRec, Recs
  <2>2. TypeOK'
    BY <1>1, <2>1 DEF BeginReconcile, TypeOK, Recs, db_vars, life_vars, table_vars, stream_vars, value_vars
  <2>3. Sending' /\ Life' /\ Subscribed' /\ Base'
    BY <1>1, <2>1 DEF BeginReconcile, Sending, Life, StoppedForGood, Subscribed, Base, Cancelled, CtxDone,
       db_vars, life_vars, table_vars, stream_vars, value_vars
  <2> QED BY <2>2, <2>3
<1>2. CASE ListFails
  <2>1. /\ rec' = NoRec /\ NoRec \in Recs /\ NoRec.pc = "idle" /\ NoRec.removed = {} /\ NoRec.todo = {}
        /\ NoRec.ev = NoEvent
    BY <1>2 DEF ListFails, Return, NoRec, Recs
  <2>2. TypeOK'
    BY ZenonT(40), <1>2, <2>1, FailsStep
       DEF ListFails, Return, TypeOK, Recs, db_vars, table_vars, stream_vars, value_vars
  <2>3. Life'
    BY <1>2, <2>1 DEF ListFails, Return, Life, StoppedForGood, TypeOK
  <2>4. UNCHANGED <<parentDone, stopped, consumer, subs, fresh, installed, value>> /\ rec.removed = {}
    BY <1>2 DEF ListFails, Return, stream_vars, value_vars, table_vars, Subscribed
  <2>5. Sending' /\ Subscribed' /\ Base'
    BY <2>1, <2>4 DEF Sending, Subscribed, Base, Cancelled, CtxDone
  <2> QED BY <2>2, <2>3, <2>5
<1>3. CASE Apply
  <2> DEFINE r == [rec EXCEPT
                     !.tags = db,
                     !.hand = {k \in ConstantTags \cap db : constants[k] # config[k]},
                     !.removed = {<<d, subs[d]>> : d \in Unwanted},
                     !.todo = {d \in Datasources : /\ Wanted(d, db) # {}
                                                   /\ subs[d] = NoSlot}]
  <2>1. /\ r \in Recs /\ r.ev = NoEvent /\ Advance(r)
        /\ r.removed = {<<d, subs[d]>> : d \in Unwanted}
        /\ \A d \in r.todo : subs[d] = NoSlot
    <3>1. r.ev = NoEvent
      BY <1>3 DEF Apply, Sending
    <3>2. \A d \in Unwanted : d \in Datasources /\ subs[d] \in Slots
      BY DEF Unwanted, TypeOK
    <3>3. r \in Recs
      <4> DEFINE hand == {k \in ConstantTags \cap db : constants[k] # config[k]}
                 removed == {<<d, subs[d]>> : d \in Unwanted}
                 todo == {d \in Datasources : Wanted(d, db) # {} /\ subs[d] = NoSlot}
      <4>1. hand \in SUBSET (Readings \cup ConstantTags) /\ todo \in SUBSET Datasources /\ db \in SUBSET Tags
        BY DEF TypeOK
      <4>2. removed \in SUBSET (Datasources \X Slots)
        BY <3>2
      <4>3. r = [rec EXCEPT !.tags = db, !.hand = hand, !.removed = removed, !.todo = todo]
        OBVIOUS
      <4>4. rec \in Recs
        BY DEF TypeOK, Recs
      <4> HIDE DEF r, hand, removed, todo
      <4> QED BY <4>1, <4>2, <4>3, <4>4 DEF Recs
    <3> QED BY <1>3, <3>1, <3>3 DEF Apply
  <2> HIDE DEF r
  <2>2. rec.pc # "idle"
    BY <1>3 DEF Apply
  <2>3. /\ rec' \in Recs /\ rec'.ev = NoEvent /\ rec'.pc \notin {"queue", "list"}
        /\ rec'.removed = r.removed /\ rec'.todo = r.todo
        /\ rec'.pc = "idle" => r.removed = {}
        /\ started' \in {"new", "reconciling", "yes", "failed"}
        /\ reconciler' \in BOOLEAN /\ Life'
        /\ UNCHANGED <<parentDone, stopped, stop>>
    BY <2>1, <2>2, AdvanceStep
  <2>4. /\ \A d \in Datasources : subs'[d] = IF d \in Unwanted THEN NoSlot ELSE subs[d]
        /\ subs' \in [Datasources -> Slots \cup {NoSlot}]
        /\ \A d \in Datasources, s \in Slots :
             /\ consumer'[d][s].pc = consumer[d][s].pc
             /\ consumer'[d][s].ev = consumer[d][s].ev
             /\ consumer'[d][s].cancelled = consumer[d][s].cancelled
        /\ consumer' \in [Datasources -> [Slots -> Consumer]]
        /\ rec.removed = {}
    <3>1. \A d \in Datasources : Wanted(d, db) \in SUBSET Readings
      BY DEF Wanted
    <3>2. ASSUME NEW d \in Datasources, NEW s \in Slots
          PROVE  /\ consumer'[d][s].pc = consumer[d][s].pc
                 /\ consumer'[d][s].ev = consumer[d][s].ev
                 /\ consumer'[d][s].cancelled = consumer[d][s].cancelled
                 /\ consumer'[d][s] \in Consumer
      <4>1. consumer[d][s] \in Consumer
        BY DEF TypeOK
      <4>2. consumer'[d][s] = IF s = subs[d] /\ d \notin Unwanted
                                THEN [consumer[d][s] EXCEPT !.tags = Wanted(d, db)]
                                ELSE consumer[d][s]
        BY <1>3 DEF Apply
      <4> QED BY <3>1, <4>1, <4>2 DEF Consumer
    <3>3. consumer' \in [Datasources -> [Slots -> Consumer]]
      <4>1. /\ DOMAIN consumer' = Datasources
            /\ consumer' = [d \in Datasources |-> consumer'[d]]
            /\ \A d \in Datasources : consumer'[d] = [s \in Slots |-> consumer'[d][s]]
        BY <1>3 DEF Apply
      <4> QED BY <3>2, <4>1
    <3>4. rec.removed = {}
      BY <1>3 DEF Apply, Subscribed
    <3> QED BY <1>3, <3>2, <3>3, <3>4, Names DEF Apply, TypeOK
  <2>5. TypeOK'
    BY <1>3, <2>3, <2>4 DEF Apply, TypeOK, Recs, db_vars, NoConfig
  <2>6. Sending'
    BY <2>3, <2>4 DEF Sending
  <2>7. Subscribed'
    <3>1. \A d \in Unwanted : <<d, subs[d]>> \in r.removed
      BY <2>1
    <3>2. \A d \in Datasources, s \in Slots : Cancelled(d, s)' <=> Cancelled(d, s)
      BY <2>3, <2>4 DEF Cancelled, CtxDone
    <3>3. \A d \in r.todo : d \in Datasources
      BY <2>1 DEF Recs
    <3> QED BY <2>1, <2>3, <2>4, <3>1, <3>2, <3>3 DEF Subscribed
  <2>8. Base'
    BY <1>3 DEF Apply, Base, TypeOK
  <2> QED BY <2>3, <2>5, <2>6, <2>7, <2>8
<1>4. ASSUME NEW t \in Tags, Publish(t) PROVE Core'
  <2> DEFINE good == t \in ConstantTags
  <2>1. Put(t, good, {}) /\ good \in BOOLEAN
    BY <1>4 DEF Publish
  <2>2. rec' = [rec EXCEPT !.pc = "queue", !.ev = EventOf(t, good), !.hand = @ \ {t}]
    BY <1>4 DEF Publish
  <2>3. /\ rec' \in Recs /\ rec'.pc = "queue" /\ rec'.ev # NoEvent
        /\ rec'.removed = rec.removed /\ rec'.todo = rec.todo
    <3> DEFINE e == EventOf(t, good)
    <3> HIDE DEF good
    <3>1. e \in Event /\ e # NoEvent
      BY <2>1, Names
    <3>2. rec' = [rec EXCEPT !.pc = "queue", !.ev = e, !.hand = @ \ {t}]
      BY <2>2
    <3>3. rec \in Recs
      BY DEF TypeOK, Recs
    <3> HIDE DEF e
    <3> QED BY <3>1, <3>2, <3>3 DEF Recs
  <2>4. /\ value' \in [Tags -> [good : BOOLEAN, used : SUBSET Samples]]
        /\ \A k \in ConstantTags : value'[k].used = {}
        /\ \A r \in Readings : \A m, n \in value'[r].used : m = n
    BY <2>1, PutStep
  <2> HIDE DEF good
  <2>5. /\ UNCHANGED <<db_vars, life_vars, table_vars, stream_vars, events, cascade, fresh, left>>
        /\ rec.pc = "put"
    BY <1>4 DEF Publish
  <2>6. TypeOK'
    BY <2>3, <2>4, <2>5 DEF TypeOK, Recs, db_vars, life_vars, table_vars, stream_vars
  <2>7. Sending' /\ Life' /\ Subscribed'
    BY <2>3, <2>5 DEF Sending, Life, StoppedForGood, Subscribed, Cancelled, CtxDone, life_vars, stream_vars
  <2>8. Base'
    BY <2>4, <2>5 DEF Base, table_vars
  <2> QED BY <2>6, <2>7, <2>8
<1>5. ASSUME NEW t \in Tags, PublishRefused(t) PROVE Core'
  <2> DEFINE r == [rec EXCEPT !.hand = @ \ {t}]
  <2>1. r \in Recs /\ r.ev = NoEvent /\ r.removed = rec.removed /\ r.todo = rec.todo
    BY <1>5 DEF PublishRefused, Sending, TypeOK, Recs
  <2>2. Advance(r) /\ rec.pc # "idle"
    BY <1>5 DEF PublishRefused
  <2> HIDE DEF r
  <2>3. /\ rec' \in Recs /\ rec'.ev = NoEvent /\ rec'.pc \notin {"queue", "list"}
        /\ rec'.removed = r.removed /\ rec'.todo = r.todo
        /\ rec'.pc = "idle" => r.removed = {}
        /\ started' \in {"new", "reconciling", "yes", "failed"}
        /\ reconciler' \in BOOLEAN /\ Life'
        /\ UNCHANGED <<parentDone, stopped, stop>>
    BY <2>1, <2>2, AdvanceStep
  <2>4. UNCHANGED <<db_vars, table_vars, stream_vars, events, cascade, value_vars, left>>
    BY <1>5 DEF PublishRefused
  <2>5. TypeOK'
    BY <2>3, <2>4 DEF TypeOK, Recs, db_vars, table_vars, stream_vars, value_vars
  <2>6. Sending' /\ Subscribed' /\ Base'
    BY <2>1, <2>3, <2>4
       DEF Sending, Subscribed, Base, Cancelled, CtxDone, stream_vars, table_vars, value_vars
  <2> QED BY <2>3, <2>5, <2>6
<1>6. CASE QueuePublished
  <2> DEFINE r == [rec EXCEPT !.ev = NoEvent]
  <2>1. r \in Recs /\ r.ev = NoEvent /\ r.removed = rec.removed /\ r.todo = rec.todo
    BY DEF TypeOK, Recs
  <2>2. Advance(r) /\ rec.pc # "idle"
    BY <1>6 DEF QueuePublished
  <2> HIDE DEF r
  <2>3. /\ rec' \in Recs /\ rec'.ev = NoEvent /\ rec'.pc \notin {"queue", "list"}
        /\ rec'.removed = r.removed /\ rec'.todo = r.todo
        /\ rec'.pc = "idle" => r.removed = {}
        /\ started' \in {"new", "reconciling", "yes", "failed"}
        /\ reconciler' \in BOOLEAN /\ Life'
        /\ UNCHANGED <<parentDone, stopped, stop>>
    BY <2>1, <2>2, AdvanceStep
  <2>4. UNCHANGED <<db_vars, table_vars, stream_vars, cascade, value_vars, left>>
    BY <1>6 DEF QueuePublished
  <2>5. events' \in Seq(Event) /\ Len(events') <= QueueSize
    <3>1. rec.ev \in Event
      BY <1>6 DEF QueuePublished, Sending, TypeOK
    <3>2. Send(rec.ev)
      BY <1>6 DEF QueuePublished
    <3> QED BY <3>1, <3>2, SendStep
  <2>6. TypeOK'
    BY <2>3, <2>4, <2>5 DEF TypeOK, Recs, db_vars, table_vars, stream_vars, value_vars
  <2>7. Sending' /\ Subscribed' /\ Base'
    BY <2>1, <2>3, <2>4
       DEF Sending, Subscribed, Base, Cancelled, CtxDone, stream_vars, table_vars, value_vars
  <2> QED BY <2>3, <2>6, <2>7
<1>7. CASE StopRemoved
  <2> DEFINE r == [rec EXCEPT !.removed = {}]
  <2>1. r \in Recs /\ r.ev = NoEvent /\ r.removed = {} /\ r.todo = rec.todo
    BY <1>7 DEF StopRemoved, Sending, TypeOK, Recs
  <2>2. Advance(r) /\ rec.pc # "idle"
    BY <1>7 DEF StopRemoved
  <2> HIDE DEF r
  <2>3. /\ rec' \in Recs /\ rec'.ev = NoEvent /\ rec'.pc \notin {"queue", "list"}
        /\ rec'.removed = r.removed /\ rec'.todo = r.todo
        /\ rec'.pc = "idle" => r.removed = {}
        /\ started' \in {"new", "reconciling", "yes", "failed"}
        /\ reconciler' \in BOOLEAN /\ Life'
        /\ UNCHANGED <<parentDone, stopped, stop>>
    BY <2>1, <2>2, AdvanceStep
  <2>4. UNCHANGED <<db_vars, table_vars, subs, events, cascade, value_vars, left>>
    BY <1>7 DEF StopRemoved
  <2>5. /\ \A d \in Datasources, s \in Slots :
             /\ consumer'[d][s].pc = consumer[d][s].pc
             /\ consumer'[d][s].ev = consumer[d][s].ev
             /\ consumer'[d][s].cancelled <=> (consumer[d][s].cancelled \/ <<d, s>> \in rec.removed)
        /\ consumer' \in [Datasources -> [Slots -> Consumer]]
    <3>1. ASSUME NEW d \in Datasources, NEW s \in Slots
          PROVE  /\ consumer'[d][s].pc = consumer[d][s].pc
                 /\ consumer'[d][s].ev = consumer[d][s].ev
                 /\ consumer'[d][s].cancelled <=> (consumer[d][s].cancelled \/ <<d, s>> \in rec.removed)
                 /\ consumer'[d][s] \in Consumer
      <4>1. consumer[d][s] \in Consumer
        BY DEF TypeOK
      <4>2. consumer'[d][s] = [consumer[d][s] EXCEPT !.cancelled = @ \/ <<d, s>> \in rec.removed]
        BY <1>7 DEF StopRemoved
      <4> DEFINE b == consumer[d][s].cancelled \/ <<d, s>> \in rec.removed
      <4>3. b \in BOOLEAN /\ consumer'[d][s] = [consumer[d][s] EXCEPT !.cancelled = b]
        BY <4>2
      <4>4. consumer'[d][s].cancelled = b
        <5> HIDE DEF b
        <5> QED BY <4>1, <4>3 DEF Consumer
      <4>5. /\ consumer'[d][s].pc = consumer[d][s].pc /\ consumer'[d][s].ev = consumer[d][s].ev
            /\ consumer'[d][s] \in Consumer
        <5> HIDE DEF b
        <5> QED BY <4>1, <4>3 DEF Consumer
      <4> QED BY <4>4, <4>5
    <3>2. consumer' \in [Datasources -> [Slots -> Consumer]]
      <4>1. \A d \in Datasources, s \in Slots : consumer'[d][s] \in Consumer
        BY <3>1
      <4>2. /\ DOMAIN consumer' = Datasources
            /\ consumer' = [d \in Datasources |-> consumer'[d]]
            /\ \A d \in Datasources : consumer'[d] = [s \in Slots |-> consumer'[d][s]]
        BY <1>7 DEF StopRemoved
      <4> QED BY <4>2, <4>1
    <3> QED BY <3>1, <3>2
  <2>6. TypeOK'
    BY <2>3, <2>4, <2>5 DEF TypeOK, Recs, db_vars, table_vars, value_vars
  <2>7. Sending'
    <3>1. \A d \in Datasources, s \in Slots :
            consumer'[d][s].pc = consumer[d][s].pc /\ consumer'[d][s].ev = consumer[d][s].ev
      BY <2>5
    <3> QED BY <2>3, <3>1 DEF Sending
  <2>8. Subscribed'
    BY <2>1, <2>3, <2>4, <2>5 DEF Subscribed, Cancelled, CtxDone
  <2>9. Base'
    BY <2>4 DEF Base, table_vars, value_vars
  <2> QED BY <2>3, <2>6, <2>7, <2>8, <2>9
<1>8. ASSUME NEW d \in Datasources, Subscribe(d) PROVE Core'
  <2> DEFINE r == [rec EXCEPT !.todo = @ \ {d}]
  <2>1. r \in Recs /\ r.ev = NoEvent /\ r.removed = rec.removed /\ r.todo = rec.todo \ {d}
    BY <1>8 DEF Subscribe, Sending, TypeOK, Recs
  <2>2. Advance(r) /\ rec.pc # "idle" /\ d \in rec.todo
    BY <1>8 DEF Subscribe
  <2> HIDE DEF r
  <2>3. /\ rec' \in Recs /\ rec'.ev = NoEvent /\ rec'.pc \notin {"queue", "list"}
        /\ rec'.removed = r.removed /\ rec'.todo = r.todo
        /\ rec'.pc = "idle" => r.removed = {}
        /\ started' \in {"new", "reconciling", "yes", "failed"}
        /\ reconciler' \in BOOLEAN /\ Life'
        /\ UNCHANGED <<parentDone, stopped, stop>>
    BY <2>1, <2>2, AdvanceStep
  <2>4. UNCHANGED <<db_vars, table_vars, events, cascade, value_vars, left>>
    BY <1>8 DEF Subscribe
  <2>5. Base'
    BY <2>4 DEF Base, table_vars, value_vars
  <2>6. CASE UNCHANGED stream_vars
    <3>1. TypeOK'
      BY <2>3, <2>4, <2>6 DEF TypeOK, Recs, db_vars, table_vars, stream_vars, value_vars
    <3>2. Sending' /\ Subscribed'
      BY <2>1, <2>3, <2>6 DEF Sending, Subscribed, Cancelled, CtxDone, stream_vars
    <3> QED BY <2>3, <2>5, <3>1, <3>2
  <2>7. CASE ~UNCHANGED stream_vars
    <3>1. PICK s \in Slots :
            /\ consumer[d][s].pc = "free"
            /\ subs' = [subs EXCEPT ![d] = s]
            /\ consumer' = [consumer EXCEPT ![d][s] =
                              [Free EXCEPT !.pc = "select", !.tags = Wanted(d, rec.tags)]]
      <4>1. \E s \in Slots : consumer[d][s].pc = "free"
        BY <1>8, <2>7 DEF Subscribe
      <4> DEFINE s0 == CHOOSE s \in Slots : consumer[d][s].pc = "free"
      <4>2. s0 \in Slots /\ consumer[d][s0].pc = "free"
        BY <4>1
      <4>3. /\ subs' = [subs EXCEPT ![d] = s0]
            /\ consumer' = [consumer EXCEPT ![d][s0] =
                              [Free EXCEPT !.pc = "select", !.tags = Wanted(d, rec.tags)]]
        BY <1>8, <2>7 DEF Subscribe
      <4> HIDE DEF s0
      <4> QED BY <4>2, <4>3
    <3> DEFINE new == [Free EXCEPT !.pc = "select", !.tags = Wanted(d, rec.tags)]
    <3>2. new \in Consumer /\ new.ev = NoEvent /\ new.pc = "select"
      BY DEF Free, Consumer, Wanted
    <3>3. /\ consumer' \in [Datasources -> [Slots -> Consumer]]
          /\ subs' \in [Datasources -> Slots \cup {NoSlot}]
          /\ subs'[d] = s /\ consumer'[d][s] = new
          /\ \A e \in Datasources : e # d => subs'[e] = subs[e]
          /\ \A e \in Datasources, x \in Slots :
               e # d \/ x # s => consumer'[e][x] = consumer[e][x]
      <4> HIDE DEF new
      <4>1. consumer' = [consumer EXCEPT ![d][s] = new]
        BY <3>1 DEF new
      <4> QED BY <3>1, <3>2, <4>1 DEF TypeOK
    <3> HIDE DEF new
    <3>4. TypeOK'
      BY <2>3, <2>4, <3>3 DEF TypeOK, Recs, db_vars, table_vars, value_vars
    <3>5. Sending'
      BY <2>3, <3>2, <3>3 DEF Sending
    <3>6. Subscribed'
      <4>1. subs[d] = NoSlot
        BY <2>2 DEF Subscribed
      <4>2. ASSUME NEW e \in Datasources, NEW x \in Slots, consumer'[e][x].pc # "free",
                   ~Cancelled(e, x)', <<e, x>> \notin rec'.removed
            PROVE  subs'[e] = x
        <5>1. CASE e = d /\ x = s
          BY <3>3, <5>1
        <5>2. CASE e # d \/ x # s
          <6>1. ~Cancelled(e, x) /\ consumer[e][x].pc # "free" /\ <<e, x>> \notin rec.removed
            BY <2>1, <2>3, <3>3, <4>2, <5>2 DEF Cancelled, CtxDone
          <6>2. subs[e] = x
            BY <6>1 DEF Subscribed
          <6>3. e # d
            BY <4>1, <6>2, Names
          <6> QED BY <3>3, <6>2, <6>3
        <5> QED BY <5>1, <5>2
      <4>3. \A e \in rec'.todo : subs'[e] = NoSlot
        BY <2>1, <2>3, <3>3 DEF Subscribed, TypeOK, Recs
      <4> QED BY <2>1, <2>3, <4>2, <4>3 DEF Subscribed
    <3> QED BY <2>3, <2>5, <3>4, <3>5, <3>6
  <2> QED BY <2>6, <2>7
<1>9. ASSUME NEW d \in Datasources, SubscribeFails(d) PROVE Core'
  <2> DEFINE r == [rec EXCEPT !.hand = Wanted(d, rec.tags), !.todo = @ \ {d}]
  <2>1. r \in Recs /\ r.ev = NoEvent /\ r.removed = rec.removed /\ r.todo \subseteq rec.todo
    BY <1>9 DEF SubscribeFails, Sending, TypeOK, Recs, Wanted, Tags
  <2>2. Advance(r) /\ rec.pc # "idle"
    BY <1>9 DEF SubscribeFails
  <2> HIDE DEF r
  <2>3. /\ rec' \in Recs /\ rec'.ev = NoEvent /\ rec'.pc \notin {"queue", "list"}
        /\ rec'.removed = r.removed /\ rec'.todo = r.todo
        /\ rec'.pc = "idle" => r.removed = {}
        /\ started' \in {"new", "reconciling", "yes", "failed"}
        /\ reconciler' \in BOOLEAN /\ Life'
        /\ UNCHANGED <<parentDone, stopped, stop>>
    BY <2>1, <2>2, AdvanceStep
  <2>4. /\ UNCHANGED <<db_vars, table_vars, stream_vars, events, cascade, value_vars>>
        /\ left' \in [samples : 0..MaxSamples, outside : 0..MaxEvents]
    BY <1>9, FailsStep DEF SubscribeFails
  <2>5. TypeOK'
    BY <2>3, <2>4 DEF TypeOK, Recs, db_vars, table_vars, stream_vars, value_vars
  <2>6. Sending' /\ Subscribed' /\ Base'
    BY <2>1, <2>3, <2>4
       DEF Sending, Subscribed, Base, Cancelled, CtxDone, stream_vars, table_vars, value_vars
  <2> QED BY <2>3, <2>5, <2>6
<1> QED BY <1>1, <1>2, <1>3, <1>4, <1>5, <1>6, <1>7, <1>8, <1>9 DEF ReconcileSteps

LEMMA BecomeStep ==
  ASSUME TypeOK, NEW d \in Datasources, NEW s \in Slots, NEW state \in Consumer,
         Become(d, s, state)
  PROVE  /\ consumer' \in [Datasources -> [Slots -> Consumer]]
         /\ consumer'[d][s] = state
         /\ \A e \in Datasources, x \in Slots :
              e # d \/ x # s => consumer'[e][x] = consumer[e][x]
BY DEF Become, TypeOK

LEMMA LeftStep ==
  ASSUME TypeOK, NEW d \in Datasources, NEW s \in Slots, NEW hand \in SUBSET Readings
  PROVE  /\ Left(d, s, hand) \in Consumer
         /\ Left(d, s, hand).pc \notin {"queue", "free"} /\ Left(d, s, hand).ev = NoEvent
         /\ Left(d, s, hand).cancelled <=> consumer[d][s].cancelled
<1>1. consumer[d][s] \in Consumer
  BY DEF TypeOK
<1> DEFINE pc == IF hand # {} THEN "put"
                 ELSE IF consumer[d][s].sample = 0 THEN "remove" ELSE "select"
           sample == IF hand = {} THEN 0 ELSE consumer[d][s].sample
<1>2. /\ pc \in {"put", "remove", "select"} /\ sample \in Samples \cup {0}
      /\ Left(d, s, hand) = [consumer[d][s] EXCEPT !.pc = pc, !.hand = hand,
                                                   !.ev = NoEvent, !.sample = sample]
  BY <1>1 DEF Left, Consumer
<1> HIDE DEF pc, sample
<1> QED BY <1>1, <1>2 DEF Consumer

(* A step of one consumer that leaves it running, or takes it out of the   *)
(* map as it ends.                                                         *)
LEMMA OneConsumerSteps ==
  ASSUME Core, NEW d \in Datasources, NEW s \in Slots, NEW state \in Consumer,
         Become(d, s, state), UNCHANGED <<reconcile_vars, cascade>>,
         state.ev # NoEvent <=> state.pc = "queue",
         \/ /\ UNCHANGED subs /\ consumer[d][s].pc # "free" /\ state.pc # "free"
            /\ state.cancelled <=> consumer[d][s].cancelled
         \/ /\ subs' = [subs EXCEPT ![d] = IF @ = s THEN NoSlot ELSE @]
            /\ state.pc = "free" /\ ~state.cancelled /\ consumer[d][s].pc # "free"
  PROVE  /\ Sending' /\ Life' /\ Subscribed'
         /\ consumer' \in [Datasources -> [Slots -> Consumer]]
         /\ subs' \in [Datasources -> Slots \cup {NoSlot}]
<1> USE DEF Core
<1>1. /\ consumer' \in [Datasources -> [Slots -> Consumer]]
      /\ consumer'[d][s] = state
      /\ \A e \in Datasources, x \in Slots :
           e # d \/ x # s => consumer'[e][x] = consumer[e][x]
  BY BecomeStep
<1>2. UNCHANGED <<rec, parentDone, started, stopped, stop, reconciler>>
  BY DEF reconcile_vars, life_vars
<1>3. Sending'
  BY <1>1, <1>2 DEF Sending
<1>4. subs' \in [Datasources -> Slots \cup {NoSlot}]
  BY ZenonT(40) DEF TypeOK
<1>5. \A e \in Datasources : subs'[e] = subs[e] \/ (e = d /\ subs[e] = s /\ state.pc = "free" /\ subs'[e] = NoSlot)
  BY DEF TypeOK
<1>6. Subscribed'
  <2>1. ASSUME NEW e \in Datasources, NEW x \in Slots, consumer'[e][x].pc # "free",
               ~Cancelled(e, x)', <<e, x>> \notin rec'.removed
        PROVE  subs'[e] = x
    <3>1. consumer[e][x].pc # "free" /\ ~Cancelled(e, x) /\ <<e, x>> \notin rec.removed
      BY <1>1, <1>2, <2>1 DEF Cancelled, CtxDone
    <3>2. subs[e] = x
      BY <3>1 DEF Subscribed
    <3>3. ~(e = d /\ x = s /\ state.pc = "free")
      BY <1>1, <2>1
    <3> QED BY <1>5, <3>2, <3>3
  <2>2. \A e \in rec.todo : e \in Datasources
    BY DEF TypeOK, Recs
  <2> QED BY <1>2, <1>5, <2>1, <2>2 DEF Subscribed
<1>7. Life'
  BY <1>1, <1>2 DEF Life, StoppedForGood
<1> QED BY <1>1, <1>3, <1>4, <1>6, <1>7

LEMMA ConsumeCore ==
  ASSUME Core, NEW d \in Datasources, NEW s \in Slots,
         ConsumeSteps(d, s) \/ Receive(d, s) \/ StreamClosed(d, s)
  PROVE  Core'
<1> USE DEF Core
<1> DEFINE c == consumer[d][s]
<1>0. c \in Consumer
  BY DEF TypeOK
<1>1. CASE Receive(d, s)
  <2> DEFINE state == [c EXCEPT !.pc = "put", !.hand = c.tags,
                                !.sample = MaxSamples - left.samples + 1]
  <2>1. /\ state \in Consumer /\ state.ev = NoEvent /\ state.pc = "put"
        /\ state.cancelled <=> c.cancelled
    <3>1. MaxSamples - left.samples + 1 \in Samples
      BY <1>1, Names DEF Receive, TypeOK, Samples
    <3>2. c.ev = NoEvent
      BY <1>1 DEF Receive, Sending
    <3> HIDE DEF c
    <3> QED BY <1>0, <3>1, <3>2 DEF Consumer
  <2>2. /\ Become(d, s, state) /\ c.pc = "select" /\ left.samples > 0
        /\ left' = [left EXCEPT !.samples = @ - 1]
        /\ UNCHANGED <<reconcile_vars, subs, events, cascade, value_vars>>
    BY <1>1 DEF Receive
  <2> HIDE DEF state
  <2>3. /\ Sending' /\ Life' /\ Subscribed'
        /\ consumer' \in [Datasources -> [Slots -> Consumer]]
        /\ subs' \in [Datasources -> Slots \cup {NoSlot}]
    BY <2>1, <2>2, OneConsumerSteps
  <2>4. left' \in [samples : 0..MaxSamples, outside : 0..MaxEvents]
    <3>1. left \in [samples : 0..MaxSamples, outside : 0..MaxEvents] /\ MaxSamples \in Nat
      BY Names DEF TypeOK
    <3>2. left.samples - 1 \in 0..MaxSamples
      BY <2>2, <3>1
    <3> QED BY <2>2, <3>1, <3>2
  <2>5. TypeOK' /\ Base'
    BY <2>2, <2>3, <2>4 DEF TypeOK, Base, reconcile_vars, db_vars, life_vars, table_vars, value_vars
  <2> QED BY <2>3, <2>5
<1>2. CASE StreamClosed(d, s)
  <2> DEFINE state == [c EXCEPT !.pc = "put", !.hand = c.tags]
  <2>1. /\ state \in Consumer /\ state.ev = NoEvent /\ state.pc = "put"
        /\ state.cancelled <=> c.cancelled
    <3>2. c.ev = NoEvent
      BY <1>2 DEF StreamClosed, Sending
    <3> HIDE DEF c
    <3> QED BY <1>0, <3>2 DEF Consumer
  <2>2. /\ Become(d, s, state) /\ c.pc = "select"
        /\ UNCHANGED <<reconcile_vars, subs, events, cascade, value_vars>>
    BY <1>2 DEF StreamClosed
  <2> HIDE DEF state
  <2>3. /\ Sending' /\ Life' /\ Subscribed'
        /\ consumer' \in [Datasources -> [Slots -> Consumer]]
        /\ subs' \in [Datasources -> Slots \cup {NoSlot}]
    BY <2>1, <2>2, OneConsumerSteps
  <2>4. left' \in [samples : 0..MaxSamples, outside : 0..MaxEvents]
    BY <1>2, OutsideStep DEF StreamClosed
  <2>5. TypeOK' /\ Base'
    BY <2>2, <2>3, <2>4 DEF TypeOK, Base, reconcile_vars, db_vars, life_vars, table_vars, value_vars
  <2> QED BY <2>3, <2>5
<1>3. ASSUME NEW t \in Readings, NEW good \in BOOLEAN, PutReading(d, s, t, good) PROVE Core'
  <2> DEFINE e == EventOf(t, good)
             state == [c EXCEPT !.pc = "queue", !.ev = e, !.hand = @ \ {t}]
  <2>1. /\ Put(t, good, {c.sample}) /\ (good => c.sample # 0) /\ c.pc = "put"
        /\ Become(d, s, state)
        /\ UNCHANGED <<reconcile_vars, subs, events, cascade, fresh, left>>
    BY <1>3 DEF PutReading
  <2>2. e \in Event /\ e # NoEvent /\ t \in Tags /\ t \notin ConstantTags
    BY Names DEF Tags
  <2> HIDE DEF e
  <2>3. /\ state \in Consumer /\ state.ev # NoEvent /\ state.pc = "queue"
        /\ state.cancelled <=> c.cancelled
    <3> HIDE DEF c
    <3> QED BY <1>0, <2>2 DEF Consumer
  <2> HIDE DEF state
  <2>4. /\ Sending' /\ Life' /\ Subscribed'
        /\ consumer' \in [Datasources -> [Slots -> Consumer]]
        /\ subs' \in [Datasources -> Slots \cup {NoSlot}]
    BY <2>1, <2>3, OneConsumerSteps
  <2>5. /\ value' \in [Tags -> [good : BOOLEAN, used : SUBSET Samples]]
        /\ \A k \in ConstantTags : value'[k].used = {}
        /\ \A r \in Readings : \A m, n \in value'[r].used : m = n
    <3> DEFINE used == IF good THEN {c.sample} ELSE {}
    <3>1. used \in SUBSET Samples /\ \A m, n \in used : m = n
      BY <1>0, <2>1 DEF Consumer
    <3>2. Put(t, good, used)
      BY <2>1 DEF Put
    <3> HIDE DEF used
    <3> QED BY <2>2, <3>1, <3>2, PutStep
  <2>6. TypeOK' /\ Base'
    BY <2>1, <2>4, <2>5 DEF TypeOK, Base, reconcile_vars, db_vars, life_vars, table_vars
  <2> QED BY <2>4, <2>6
<1>4. ASSUME NEW t \in Readings, ReadingRefused(d, s, t) PROVE Core'
  <2> DEFINE state == Left(d, s, c.hand \ {t})
  <2>1. /\ Become(d, s, state) /\ c.pc = "put"
        /\ UNCHANGED <<reconcile_vars, subs, events, cascade, value_vars, left>>
    BY <1>4 DEF ReadingRefused
  <2>2. /\ state \in Consumer /\ state.ev = NoEvent /\ state.pc \notin {"queue", "free"}
        /\ state.cancelled <=> c.cancelled
    <3>1. c.hand \ {t} \in SUBSET Readings
      BY <1>0 DEF Consumer
    <3> QED BY <3>1, LeftStep
  <2> HIDE DEF state
  <2>3. /\ Sending' /\ Life' /\ Subscribed'
        /\ consumer' \in [Datasources -> [Slots -> Consumer]]
        /\ subs' \in [Datasources -> Slots \cup {NoSlot}]
    BY <2>1, <2>2, OneConsumerSteps
  <2>4. TypeOK' /\ Base'
    BY <2>1, <2>3 DEF TypeOK, Base, reconcile_vars, db_vars, life_vars, table_vars, value_vars
  <2> QED BY <2>3, <2>4
<1>5. CASE QueueReading(d, s)
  <2> DEFINE state == Left(d, s, c.hand)
  <2>1. /\ Become(d, s, state) /\ c.pc = "queue" /\ Send(c.ev)
        /\ UNCHANGED <<reconcile_vars, subs, cascade, value_vars, left>>
    BY <1>5 DEF QueueReading
  <2>2. /\ state \in Consumer /\ state.ev = NoEvent /\ state.pc \notin {"queue", "free"}
        /\ state.cancelled <=> c.cancelled
    <3>1. c.hand \in SUBSET Readings
      BY <1>0 DEF Consumer
    <3> QED BY <3>1, LeftStep
  <2> HIDE DEF state
  <2>3. /\ Sending' /\ Life' /\ Subscribed'
        /\ consumer' \in [Datasources -> [Slots -> Consumer]]
        /\ subs' \in [Datasources -> Slots \cup {NoSlot}]
    BY <2>1, <2>2, OneConsumerSteps
  <2>4. events' \in Seq(Event) /\ Len(events') <= QueueSize
    <3>1. c.ev \in Event
      BY <1>0, <2>1 DEF Sending, Consumer
    <3> QED BY <2>1, <3>1, SendStep
  <2>5. TypeOK' /\ Base'
    BY <2>1, <2>3, <2>4 DEF TypeOK, Base, reconcile_vars, db_vars, life_vars, table_vars, value_vars
  <2> QED BY <2>3, <2>5
<1>6. CASE RemoveSubscription(d, s)
  <2>1. /\ Become(d, s, Free) /\ c.pc # "free"
        /\ subs' = [subs EXCEPT ![d] = IF @ = s THEN NoSlot ELSE @]
        /\ UNCHANGED <<reconcile_vars, events, cascade, value_vars, left>>
    BY <1>6 DEF RemoveSubscription, ConsumerDone
  <2>2. /\ Free \in Consumer /\ Free.ev = NoEvent /\ Free.pc = "free" /\ ~Free.cancelled
    BY DEF Free, Consumer
  <2>3. /\ Sending' /\ Life' /\ Subscribed'
        /\ consumer' \in [Datasources -> [Slots -> Consumer]]
        /\ subs' \in [Datasources -> Slots \cup {NoSlot}]
    BY <2>1, <2>2, OneConsumerSteps
  <2>4. TypeOK' /\ Base'
    BY <2>1, <2>3 DEF TypeOK, Base, reconcile_vars, db_vars, life_vars, table_vars, value_vars
  <2> QED BY <2>3, <2>4
<1> QED BY <1>1, <1>2, <1>3, <1>4, <1>5, <1>6 DEF ConsumeSteps

Cascades == [pc : {"off", "select", "run"}, queue : Seq(Event),
             list : Seq(Calculated), trig : Event \cup {NoEvent},
             n : 0..(CascadeLimit - 1)]

LEMMA RoundStep ==
  ASSUME NEW e \in Event \cup {NoEvent}, NEW list \in Seq(Calculated), NEW queue \in Seq(Event),
         NEW n \in 0..(CascadeLimit - 1)
  PROVE  /\ Round(e, list, queue, n) \in Cascades
         /\ Round(e, list, queue, n).list = list /\ Round(e, list, queue, n).queue = queue
         /\ Round(e, list, queue, n).pc \in {"select", "run"}
         /\ Round(e, list, queue, n).pc # "run" => list = <<>> /\ queue = <<>>
         /\ list # <<>> \/ queue # <<>> => /\ Round(e, list, queue, n).trig = e
                                           /\ Round(e, list, queue, n).n = n
         /\ list = <<>> /\ queue = <<>> => /\ Round(e, list, queue, n).trig = NoEvent
                                           /\ Round(e, list, queue, n).n = 0
<1>1. 0 \in 0..(CascadeLimit - 1)
  BY Names
<1>2. CASE list = <<>> /\ queue = <<>>
  <2>1. Round(e, list, queue, n) = [pc |-> "select", queue |-> queue, list |-> list,
                                    trig |-> NoEvent, n |-> 0]
    BY <1>2 DEF Round
  <2> DEFINE R == [pc |-> "select", queue |-> queue, list |-> list, trig |-> NoEvent, n |-> 0]
  <2>2. /\ R \in Cascades /\ R.pc = "select" /\ R.queue = queue /\ R.list = list
        /\ R.trig = NoEvent /\ R.n = 0
    BY <1>1 DEF Cascades
  <2> HIDE DEF R
  <2> QED BY <1>2, <2>1, <2>2 DEF R
<1>3. CASE ~(list = <<>> /\ queue = <<>>)
  <2>1. Round(e, list, queue, n) = [pc |-> "run", queue |-> queue, list |-> list,
                                    trig |-> e, n |-> n]
    BY <1>3 DEF Round
  <2> DEFINE R == [pc |-> "run", queue |-> queue, list |-> list, trig |-> e, n |-> n]
  <2>2. /\ R \in Cascades /\ R.pc = "run" /\ R.queue = queue /\ R.list = list
        /\ R.trig = e /\ R.n = n
    BY DEF Cascades
  <2> HIDE DEF R
  <2> QED BY <1>3, <2>1, <2>2 DEF R
<1> QED BY <1>2, <1>3

LEMMA DependantsFinite ==
  \A t : Core => IsFiniteSet(Dependants(t)) /\ Dependants(t) \subseteq Calculated
<1>1. IsFiniteSet(Calculated)
  BY AcquisitionAssumption, FS_Subset DEF AcquisitionAssumption, Tags
<1>3. ASSUME NEW t, Core PROVE Dependants(t) \subseteq Calculated
  BY <1>3 DEF Dependants, Core, TypeOK
<1>4. ASSUME NEW t, Core PROVE IsFiniteSet(Dependants(t))
  BY <1>1, <1>3, <1>4, FS_Subset
<1> QED BY <1>3, <1>4

(* The lists that the cascade works through.                               *)
LEMMA ListStep ==
  ASSUME Core, NEW t, NEW list \in Orders(Dependants(t))
  PROVE  list \in Seq(Calculated) /\ Range(list) = Dependants(t) /\ InOrder(list)
<1>1. IsFiniteSet(Dependants(t)) /\ Dependants(t) \subseteq Calculated
  BY DependantsFinite
<1>2. \A c \in Dependants(t) : Trigger[c] = t
  BY DEF Dependants
<1>3. list \in Seq(Dependants(t)) /\ Range(list) = Dependants(t) /\ InOrder(list)
  BY <1>1, <1>2, OrdersAll
<1> QED BY <1>1, <1>3

LEMMA EventCore == Core /\ EventSteps => Core'
<1> SUFFICES ASSUME Core, EventSteps PROVE Core'
  OBVIOUS
<1> USE DEF Core
<1>0. cascade \in Cascades /\ 0 \in 0..(CascadeLimit - 1)
  BY Names DEF TypeOK, Cascades
<1>1. CASE UNCHANGED <<reconcile_vars, stream_vars, value_vars, left>> /\ cascade' \in Cascades
           /\ cascade.pc # "off" /\ events' \in Seq(Event) /\ Len(events') <= QueueSize
  <2>1. TypeOK' /\ Sending' /\ Subscribed' /\ Base'
    BY <1>1 DEF TypeOK, Cascades, Sending, Subscribed, Base, Cancelled, CtxDone,
       reconcile_vars, stream_vars, value_vars, db_vars, life_vars, table_vars
  <2>2. Life'
    BY <1>1 DEF Life, StoppedForGood, reconcile_vars, life_vars
  <2> QED BY <2>1, <2>2
<1>2. CASE TakeEvent
  <2>1. PICK list \in Orders(Dependants(Head(events).tag)) :
          cascade' = Round(Head(events), list, <<>>, 0)
    BY <1>2 DEF TakeEvent
  <2>2. Head(events) \in Event /\ events' \in Seq(Event) /\ Len(events') <= QueueSize
    <3>1. events # <<>> /\ events' = Tail(events)
      BY <1>2 DEF TakeEvent
    <3>2. events \in Seq(Event) /\ Len(events) \in Nat /\ Len(events) <= QueueSize
      BY DEF TypeOK
    <3> QED BY <3>1, <3>2, TailOf, Names
  <2>3. list \in Seq(Calculated) /\ <<>> \in Seq(Event)
    BY ListStep
  <2>4. cascade' \in Cascades
    BY <1>0, <2>1, <2>2, <2>3, RoundStep
  <2> QED BY <1>1, <1>2, <2>2, <2>4 DEF TakeEvent
<1>3. CASE NextTrigger
  <2>1. PICK list \in Orders(Dependants(Head(cascade.queue).tag)) :
          cascade' = Round(Head(cascade.queue), list, Tail(cascade.queue), cascade.n)
    BY <1>3 DEF NextTrigger
  <2>2. Head(cascade.queue) \in Event /\ Tail(cascade.queue) \in Seq(Event)
        /\ cascade.n \in 0..(CascadeLimit - 1)
    BY <1>0, <1>3, TailOf DEF NextTrigger, Cascades
  <2>3. list \in Seq(Calculated)
    BY ListStep
  <2>4. cascade' \in Cascades
    BY <2>1, <2>2, <2>3, RoundStep
  <2> QED BY <1>1, <1>3, <2>4 DEF NextTrigger, TypeOK
<1>4. CASE EvaluationRefused
  <2>2. /\ Tail(cascade.list) \in Seq(Calculated) /\ cascade.queue \in Seq(Event)
        /\ cascade.n \in 0..(CascadeLimit - 1) /\ cascade.trig \in Event \cup {NoEvent}
    BY <1>0, <1>4, TailOf DEF EvaluationRefused, Cascades
  <2>4. cascade' \in Cascades
    BY <1>4, <2>2, RoundStep DEF EvaluationRefused
  <2> QED BY <1>1, <1>4, <2>4 DEF EvaluationRefused, TypeOK
<1>5. CASE EventsDone
  <2>1. cascade' \in Cascades
    BY <1>0, <1>5 DEF EventsDone, Cascades
  <2> QED BY <1>1, <1>5, <2>1 DEF EventsDone, TypeOK
<1>6. ASSUME NEW c \in Calculated, Evaluate(c) PROVE Core'
  <2> DEFINE good == Evaluated(c)
             used == UNION {value[d].used : d \in Depends[c]}
             e == EventOf(c, good)
  <2>1. /\ cascade.pc = "run" /\ cascade.list # <<>> /\ Put(c, good, used)
        /\ fresh' \subseteq fresh \cup ({c} \cap installed)
        /\ UNCHANGED <<reconcile_vars, stream_vars, events, left>>
    BY <1>6 DEF Evaluate, PutCalculated, Refreshed
  <2>2. good \in BOOLEAN /\ used \in SUBSET Samples /\ c \in Tags /\ c \notin ConstantTags
        /\ c \notin Readings
    <3>1. \A d \in Depends[c] : value[d].used \in SUBSET Samples
      BY Names DEF TypeOK
    <3>2. good \in BOOLEAN
      BY DEF Evaluated, Resolves
    <3> QED BY <3>1, <3>2, Names DEF Tags
  <2>3. cascade' \in Cascades
    <3>1. e \in Event
      BY <2>2, Names
    <3>2. CASE cascade.n + 1 >= CascadeLimit
      <4>1. cascade' = [pc |-> "select", queue |-> <<>>, list |-> <<>>, trig |-> NoEvent, n |-> 0]
        BY <1>6, <3>2 DEF Evaluate, Resting
      <4> QED BY <1>0, <4>1 DEF Cascades
    <3>3. CASE ~(cascade.n + 1 >= CascadeLimit)
      <4>1. cascade' = Round(cascade.trig, Tail(cascade.list), Append(cascade.queue, e), cascade.n + 1)
        BY <1>6, <3>3 DEF Evaluate
      <4>2. /\ Tail(cascade.list) \in Seq(Calculated) /\ Append(cascade.queue, e) \in Seq(Event)
            /\ cascade.trig \in Event \cup {NoEvent}
        <5> HIDE DEF e
        <5> QED BY <1>0, <2>1, <3>1, TailOf, AppendOf DEF Cascades
      <4>3. cascade.n + 1 \in 0..(CascadeLimit - 1)
        BY <1>0, <3>3, Names DEF Cascades
      <4> DEFINE list == Tail(cascade.list)
                 queue == Append(cascade.queue, e)
                 n == cascade.n + 1
      <4>4. /\ cascade' = Round(cascade.trig, list, queue, n)
            /\ list \in Seq(Calculated) /\ queue \in Seq(Event) /\ n \in 0..(CascadeLimit - 1)
        BY <4>1, <4>2, <4>3
      <4> HIDE DEF e, list, queue, n
      <4> QED BY <4>2, <4>4, RoundStep
    <3> QED BY <3>2, <3>3
  <2> HIDE DEF good, used
  <2>4. /\ value' \in [Tags -> [good : BOOLEAN, used : SUBSET Samples]]
        /\ \A k \in ConstantTags : value'[k].used = {}
        /\ \A r \in Readings : \A m, n \in value'[r].used : m = n
    BY <2>1, <2>2, PutStep
  <2>5. TypeOK' /\ Base'
    BY <2>1, <2>3, <2>4 DEF TypeOK, Cascades, Base,
       reconcile_vars, stream_vars, db_vars, life_vars, table_vars
  <2>6. Sending' /\ Subscribed'
    BY <2>1 DEF Sending, Subscribed, Cancelled, CtxDone, reconcile_vars, stream_vars, life_vars
  <2>7. Life'
    BY <2>1 DEF Life, StoppedForGood, reconcile_vars, life_vars
  <2> QED BY <2>5, <2>6, <2>7
<1> QED BY <1>2, <1>3, <1>4, <1>5, <1>6 DEF EventSteps

LEMMA OtherCore ==
  ASSUME Core,
         \/ Start \/ ReconcilerExits \/ Stop \/ StopReturns \/ ShutDown
         \/ \E t \in Edited : Toggle(t)
         \/ \E k \in ConstantTags : Configure(k)
         \/ UNCHANGED vars
  PROVE  Core'
<1> USE DEF Core
<1> USE DEF db_vars, table_vars, stream_vars, value_vars
<1>1. CASE Start
  <2>1. Resting \in Cascades
    <3>1. Resting = [pc |-> "select", queue |-> <<>>, list |-> <<>>, trig |-> NoEvent, n |-> 0]
      BY DEF Resting
    <3> QED BY <3>1, Names DEF Cascades
  <2>2. TypeOK' /\ Sending' /\ Subscribed' /\ Base'
    BY <1>1, <2>1 DEF Start, TypeOK, Cascades, Sending, Subscribed, Base, Cancelled, CtxDone
  <2>3. Life'
    BY <1>1 DEF Start, Life, StoppedForGood, TypeOK
  <2> QED BY <2>2, <2>3
<1>2. CASE ReconcilerExits
  <2>1. TypeOK'
    BY ZenonT(40), <1>2 DEF ReconcilerExits, TypeOK
  <2>2. Sending' /\ Subscribed' /\ Base' /\ Life'
    BY <1>2 DEF ReconcilerExits, Sending, Subscribed, Base, Cancelled, CtxDone, Life, StoppedForGood
  <2> QED BY <2>1, <2>2
<1>3. CASE Stop
  <2>1. left' \in [samples : 0..MaxSamples, outside : 0..MaxEvents]
    BY <1>3, OutsideStep DEF Stop, TypeOK
  <2>2. TypeOK'
    BY <1>3, <2>1 DEF Stop, TypeOK
  <2>3. Subscribed'
    <3>1. CtxDone' /\ subs' = [d \in Datasources |-> NoSlot] /\ rec' = rec
      BY <1>3 DEF Stop, CtxDone
    <3>2. \A d \in rec.todo : d \in Datasources
      BY DEF TypeOK
    <3> QED BY <3>1, <3>2 DEF Subscribed, Cancelled
  <2>4. Sending' /\ Base' /\ Life'
    BY <1>3 DEF Stop, Sending, Base, Life, StoppedForGood
  <2> QED BY <2>2, <2>3, <2>4
<1>4. CASE StopReturns
  <2>1. TypeOK' /\ Sending' /\ Subscribed' /\ Base'
    BY <1>4 DEF StopReturns, TypeOK, Sending, Subscribed, Base, Cancelled, CtxDone
  <2>2. Life'
    BY <1>4 DEF StopReturns, Life, StoppedForGood
  <2> QED BY <2>1, <2>2
<1>5. CASE ShutDown
  <2>1. left' \in [samples : 0..MaxSamples, outside : 0..MaxEvents]
    BY <1>5, OutsideStep DEF ShutDown
  <2>2. TypeOK'
    BY <1>5, <2>1 DEF ShutDown, TypeOK
  <2>3. Sending' /\ Subscribed' /\ Base' /\ Life'
    BY <1>5 DEF ShutDown, Sending, Subscribed, Base, Cancelled, CtxDone, Life, StoppedForGood
  <2> QED BY <2>2, <2>3
<1>6. ASSUME NEW t \in Edited, Toggle(t) PROVE Core'
  <2>1. left' \in [samples : 0..MaxSamples, outside : 0..MaxEvents]
    BY <1>6, OutsideStep DEF Toggle
  <2>2. db' \in SUBSET Tags
    BY <1>6, Names DEF Toggle, TypeOK, SymDiff
  <2>3. UNCHANGED <<config, life_vars, rec, table_vars, stream_vars, events, cascade, value_vars>>
    BY <1>6 DEF Toggle
  <2>4. TypeOK' /\ Sending' /\ Subscribed' /\ Base' /\ Life'
    BY <2>1, <2>2, <2>3
       DEF TypeOK, Sending, Subscribed, Base, Cancelled, CtxDone, Life, StoppedForGood, life_vars
  <2> QED BY <2>4
<1>7. ASSUME NEW k \in ConstantTags, Configure(k) PROVE Core'
  <2>1. left' \in [samples : 0..MaxSamples, outside : 0..MaxEvents]
    BY <1>7, OutsideStep DEF Configure
  <2>2. config' \in [ConstantTags -> Nat]
    BY <1>7 DEF Configure, TypeOK
  <2>3. TypeOK' /\ Sending' /\ Subscribed' /\ Base' /\ Life'
    BY SMTT(30), <1>7, <2>1, <2>2
       DEF Configure, TypeOK, Sending, Subscribed, Base, Cancelled, CtxDone, Life, StoppedForGood, life_vars
  <2> QED BY <2>3
<1>8. CASE UNCHANGED vars
  BY <1>8 DEF vars, reconcile_vars, life_vars,
     TypeOK, Sending, Subscribed, Base, Cancelled, CtxDone, Life, StoppedForGood
<1> QED BY <1>1, <1>2, <1>3, <1>4, <1>5, <1>6, <1>7, <1>8

LEMMA CoreStep == Core /\ [Next]_vars => Core'
BY ReconcileCore, EventCore, ConsumeCore, OtherCore DEF Next, Rest

(* Every variable has its type, and the map knows every consumer that has  *)
(* not been told to end: reconcile, a stream that closes, a consumer that  *)
(* ends and Stop may come in any order.                                    *)
THEOREM OneConsumerAlways == Spec => []OneConsumer
<1>1. Core => OneConsumer
  BY DEF Core, OneConsumer, Subscribed
<1> QED BY InitCore, CoreStep, <1>1, PTL DEF Spec

(* Nothing of the runtime is left running once Stop has returned.          *)
THEOREM StopEndsAll == Spec => []StoppedForGood
<1>1. Core => StoppedForGood
  BY DEF Core, Life
<1> QED BY InitCore, CoreStep, <1>1, PTL DEF Spec

----------------------------------------------------------------------------
(* What the cascade keeps.                                                 *)

LEMMA InitFlow == Init => Flow
<1> SUFFICES ASSUME Init PROVE Flow
  OBVIOUS
<1>1. /\ cascade.pc = "off" /\ cascade.list = <<>> /\ cascade.queue = <<>> /\ cascade.n = 0
      /\ fresh = {}
  BY DEF Init, Resting
<1>2. ToDo = {}
  BY <1>1, NoElements DEF ToDo
<1>3. InOrder(cascade.list)
  BY <1>1 DEF InOrder
<1>5. Shape
  BY <1>1, <1>2, <1>3 DEF Shape
<1>6. Followed /\ Later /\ Single
  BY <1>1 DEF Followed, Later, Single
<1> QED BY <1>5, <1>6 DEF Flow

(* Steps that neither put a value nor move the cascade.                    *)
LEMMA QuietStep ==
  ASSUME Shape, Followed, Later, Single, Core,
         UNCHANGED <<cascade, value>>,
         installed' \cap fresh' \subseteq installed \cap fresh,
         \A t \in Tags : t \in Moving => t \in Moving'
  PROVE  Shape' /\ Followed' /\ Later' /\ Single'
<1>1. ToDo' = ToDo
  BY DEF ToDo
<1>2. \A c \in installed \cap fresh : c \in Calculated /\ Trigger[c] \in Tags
  BY Names DEF Core, TypeOK, Tags
<1>3. Shape'
  BY <1>1 DEF Shape
<1>4. Followed'
  BY <1>1, <1>2 DEF Followed, Follows
<1>5. Later'
  BY <1>1 DEF Later
<1>6. Single'
  BY <1>1, <1>2 DEF Single
<1> QED BY <1>3, <1>4, <1>5, <1>6

(* A reading or a constant gets a value, which is then on its way.         *)
LEMMA BaseStep ==
  ASSUME Shape, Followed, Later, Single, Core,
         NEW b \in Tags, b \notin Calculated, b \in Moving',
         \A x \in Tags : x # b => value'[x] = value[x],
         UNCHANGED <<cascade, installed, fresh>>,
         \A t \in Tags : t \in Moving => t \in Moving'
  PROVE  Shape' /\ Followed' /\ Later' /\ Single'
<1>1. ToDo' = ToDo
  BY DEF ToDo
<1>2. \A c \in installed \cap fresh : c \in Calculated /\ c \in Tags /\ Trigger[c] \in Tags
  BY Names DEF Core, TypeOK, Tags
<1>3. Shape'
  BY <1>1 DEF Shape
<1>4. Followed'
  BY <1>1, <1>2 DEF Followed, Follows
<1>5. Later'
  BY <1>1 DEF Later
<1>6. Single'
  BY <1>1, <1>2 DEF Single
<1> QED BY <1>3, <1>4, <1>5, <1>6

(* A value of t reaches the tags that it triggers.                         *)
LEMMA TriggerStep ==
  ASSUME Followed, Single, Core, NEW t \in Tags,
         ToDo = {}, ToDo' = Dependants(t),
         ToDo' # {} => cascade'.trig.tag = t,
         UNCHANGED <<value, installed, fresh>>,
         \A x \in Tags : x \in Moving => x \in Moving' \/ x = t
  PROVE  Followed' /\ Later' /\ Single'
<1>1. \A c \in installed \cap fresh : /\ c \in Calculated /\ Trigger[c] \in Tags
                                      /\ c \notin ToDo' => Trigger[c] # t
  BY Names DEF Core, TypeOK, Tags, Dependants
<1>2. Followed'
  BY <1>1 DEF Followed, Follows
<1>3. Later'
  BY <1>1 DEF Later
<1>4. Single'
  BY <1>1 DEF Single
<1> QED BY <1>2, <1>3, <1>4

(* A calculated tag is evaluated, and its value is then on its way.        *)
LEMMA EvaluateStep ==
  ASSUME Shape, Followed, Later, Single, Core, Core',
         NEW c \in ToDo, NEW good \in BOOLEAN,
         ToDo' \subseteq ToDo, c \notin ToDo',
         OneTrigger(c) => ToDo' \cap Depends[c] = {},
         ToDo' # {} => cascade'.trig = cascade.trig,
         \A x \in Tags : x # c => value'[x] = value[x],
         value'[c].good = good,
         good => /\ value'[c].used = UNION {value[d].used : d \in Depends[c]}
                 /\ \A d \in Depends[c] : value[d].good,
         UNCHANGED installed, fresh' \subseteq fresh \cup {c},
         \A x \in fresh' : x \in ToDo => x \in ToDo' \/ x = c,
         \A x \in fresh' \cap Calculated :
           Trigger[x] \in Moving \cup {c} => Trigger[x] \in Moving'
  PROVE  Followed' /\ Later' /\ Single'
<1>0. /\ c \in Calculated /\ c \in Tags
      /\ Trigger[c] = cascade.trig.tag
  <2>1. ToDo \subseteq Calculated
    BY DEF ToDo, Core, TypeOK, Range
  <2> QED BY <2>1 DEF Shape, Tags
<1>1. \A x \in installed \cap fresh' :
        /\ x \in Calculated /\ x \in Tags /\ Trigger[x] \in Tags /\ Depends[x] \subseteq Tags
        /\ Trigger[x] \notin Moving' => /\ Trigger[x] \notin Moving
                                        /\ Trigger[x] # c
                                        /\ value'[Trigger[x]] = value[Trigger[x]]
        /\ x # c => value'[x] = value[x] /\ x \in installed \cap fresh
        /\ x # c /\ x \notin ToDo' => x \notin ToDo
  BY <1>0, Names DEF Core, TypeOK, Tags
<1>2. Followed'
  <2>1. ASSUME NEW x \in installed \cap fresh', Trigger[x] \notin Moving', x \notin ToDo'
        PROVE  Follows(x)'
    <3>1. CASE x # c
      BY <1>1, <2>1, <3>1 DEF Followed, Follows
    <3>2. CASE x = c
      <4>1. value'[Trigger[c]] = value[Trigger[c]]
        BY <1>1, <2>1, <3>2
      <4>2. good /\ Trigger[c] \in Depends[c] => /\ value[Trigger[c]].good
                                               /\ value[Trigger[c]].used \subseteq value'[c].used
        OBVIOUS
      <4> QED BY <3>2, <4>1, <4>2 DEF Follows
    <3> QED BY <3>1, <3>2
  <2> QED BY <2>1 DEF Followed
<1>3. Later'
  BY <1>1 DEF Later
<1>4. Single'
  <2>1. ASSUME NEW x \in installed \cap fresh', OneTrigger(x), Trigger[x] \notin Moving', x \notin ToDo',
               Depends[x] \cap Calculated \subseteq (installed \cap fresh') \ ToDo',
               value'[x].good
        PROVE  value'[x].used \subseteq value'[Trigger[x]].used
    <3>1. CASE x # c
      <4>1. c \notin Depends[x]
        <5>1. SUFFICES ASSUME c \in Depends[x] PROVE FALSE
          OBVIOUS
        <5>2. Trigger[c] = Trigger[x]
          BY <1>0, <1>1, <2>1, <5>1, Names DEF OneTrigger
        <5>3. ToDo \cap Depends[x] = {}
          BY <1>0, <1>1, <2>1, <3>1, <5>2 DEF Later
        <5> QED BY <5>1, <5>3
      <4>2. Depends[x] \cap Calculated \subseteq (installed \cap fresh) \ ToDo
        BY <1>1, <2>1, <4>1
      <4> QED BY <1>1, <2>1, <3>1, <4>2 DEF Single
    <3>2. CASE x = c
      <4>1. good /\ value'[c].used = UNION {value[d].used : d \in Depends[c]}
        BY <2>1, <3>2
      <4>2. ASSUME NEW d \in Depends[c] PROVE value[d].used \subseteq value[Trigger[c]].used
        <5>1. CASE d \in ConstantTags
          BY <5>1 DEF Core, Base
        <5>2. CASE d = Trigger[c]
          BY <5>2
        <5>3. CASE d \in Calculated /\ Trigger[d] = Trigger[c] /\ Direct(d)
          <6>0. d # c
            BY <1>0, <2>1, <3>2, <5>3, Names DEF OneTrigger, Direct
          <6>1. d \in installed \cap fresh /\ d \notin ToDo
            BY <1>0, <1>1, <2>1, <3>2, <5>3, <6>0
          <6>2. OneTrigger(d) /\ Depends[d] \cap Calculated = {}
            BY <2>1, <3>2, <5>3, Names DEF OneTrigger, Direct
          <6>3. Trigger[d] \notin Moving
            BY <1>1, <2>1, <3>2, <5>3
          <6>4. value[d].good
            BY <4>1
          <6> QED BY <5>3, <6>1, <6>2, <6>3, <6>4 DEF Single
        <5> QED BY <2>1, <3>2, <5>1, <5>2, <5>3 DEF OneTrigger
      <4>3. value'[Trigger[c]] = value[Trigger[c]]
        BY <1>1, <2>1, <3>2
      <4> QED BY <3>2, <4>1, <4>2, <4>3
    <3> QED BY <3>1, <3>2
  <2> QED BY <2>1 DEF Single
<1> QED BY <1>2, <1>3, <1>4

(* What the cascade has at hand, before and after its steps.               *)
LEMMA EventFlow ==
  ASSUME Core, Core', Shape, Followed, Later, Single, EventSteps, ~CtxDone'
  PROVE  Shape' /\ Followed' /\ Later' /\ Single'
<1>0. /\ cascade \in Cascades /\ 0 \in 0..(CascadeLimit - 1) /\ cascade.n \in Nat
      /\ events \in Seq(Event)
      /\ cascade.queue \in Seq(Event) /\ cascade.list \in Seq(Calculated)
      /\ cascade.trig \in Event \cup {NoEvent}
      /\ ToDo \subseteq Calculated
  BY SMTT(30), Names DEF Core, TypeOK, Cascades, ToDo, Range
<1>1. CASE TakeEvent
  <2> DEFINE e == Head(events)
  <2>1. PICK list \in Orders(Dependants(e.tag)) : cascade' = Round(e, list, <<>>, 0)
    BY <1>1 DEF TakeEvent
  <2>2. /\ cascade.pc = "select" /\ events # <<>> /\ events' = Tail(events)
        /\ UNCHANGED <<reconcile_vars, stream_vars, value_vars>>
    BY <1>1 DEF TakeEvent
  <2>3. e \in Event /\ TagsOf(events) = {e.tag} \cup TagsOf(events')
    BY <1>0, <2>2, TailOf, QueueTail
  <2>4. list \in Seq(Calculated) /\ Range(list) = Dependants(e.tag) /\ InOrder(list)
    BY ListStep
  <2> HIDE DEF e
  <2>5. <<>> \in Seq(Event)
    OBVIOUS
  <2>6. /\ cascade'.list = list /\ cascade'.queue = <<>> /\ cascade'.n = 0
        /\ cascade'.pc # "run" => list = <<>>
        /\ list # <<>> => cascade'.trig = e
    <3>1. cascade'.list = list /\ cascade'.queue = <<>>
      BY <2>1 DEF Round
    <3>2. cascade'.n = 0
      BY <2>1 DEF Round
    <3>3. CASE list = <<>>
      BY <3>1, <3>2, <3>3
    <3>4. CASE list # <<>>
      <4>1. cascade'.pc = "run" /\ cascade'.trig = e
        BY <2>1, <3>4 DEF Round
      <4> QED BY <3>1, <3>2, <3>4, <4>1
    <3> QED BY <3>3, <3>4
  <2>7. /\ ToDo = {} /\ TagsOf(cascade.queue) = {} /\ ToDo' = Dependants(e.tag)
        /\ ToDo' # {} => list # <<>>
    BY <2>2, <2>4, <2>6, NoElements DEF Shape, ToDo
  <2>9. e.tag \in Tags
    BY <2>3 DEF Event
  <2>11. Shape'
    <3>2. \A c \in ToDo' : Trigger[c] = cascade'.trig.tag
      BY <2>6, <2>7 DEF Dependants
    <3>3. InOrder(cascade'.list)
      BY <2>4, <2>6
    <3> QED BY <2>6, <3>2, <3>3 DEF Shape
  <2>12. \A x \in Tags : x \in Moving => x \in Moving' \/ x = e.tag
    BY <2>2, <2>3, <2>7 DEF Moving, Sent, reconcile_vars, stream_vars
  <2>13. UNCHANGED <<value, installed, fresh>> /\ (ToDo' # {} => cascade'.trig.tag = e.tag)
    BY <2>2, <2>6, <2>7 DEF reconcile_vars, table_vars, value_vars
  <2>14. Followed' /\ Later' /\ Single'
    BY <2>7, <2>9, <2>12, <2>13, TriggerStep
  <2> QED BY <2>11, <2>14
<1>2. CASE NextTrigger
  <2> DEFINE e == Head(cascade.queue)
             rest == Tail(cascade.queue)
  <2>1. PICK list \in Orders(Dependants(e.tag)) : cascade' = Round(e, list, rest, cascade.n)
    BY <1>2 DEF NextTrigger
  <2>2. /\ cascade.pc = "run" /\ cascade.list = <<>> /\ cascade.queue # <<>>
        /\ UNCHANGED <<reconcile_vars, stream_vars, events, value_vars>>
    BY <1>2 DEF NextTrigger
  <2>3. /\ e \in Event /\ rest \in Seq(Event)
        /\ TagsOf(cascade.queue) = {e.tag} \cup TagsOf(rest)
    BY <1>0, <2>2, TailOf, QueueTail
  <2>4. list \in Seq(Calculated) /\ Range(list) = Dependants(e.tag) /\ InOrder(list)
    BY ListStep
  <2> HIDE DEF e, rest
  <2>5. cascade.n \in 0..(CascadeLimit - 1)
    BY <1>0 DEF Cascades
  <2>6. /\ cascade'.list = list /\ cascade'.queue = rest
        /\ cascade'.n = cascade.n \/ cascade'.n = 0
        /\ cascade'.pc # "run" => list = <<>> /\ rest = <<>>
        /\ list # <<>> => cascade'.trig = e
    BY <2>1, <2>3, <2>4, <2>5, RoundStep
  <2>7. /\ ToDo = {} /\ ToDo' = Dependants(e.tag)
        /\ TagsOf(cascade.queue)' = TagsOf(rest)
        /\ ToDo' # {} => list # <<>>
    BY <2>2, <2>4, <2>6, NoElements DEF ToDo
  <2>9. e.tag \in Tags
    BY <2>3 DEF Event
  <2>12. Shape'
    <3>2. \A c \in ToDo' : Trigger[c] = cascade'.trig.tag
      BY <2>6, <2>7 DEF Dependants
    <3>3. InOrder(cascade'.list)
      BY <2>4, <2>6
    <3> QED BY <2>6, <3>2, <3>3 DEF Shape
  <2>13. \A x \in Tags : x \in Moving => x \in Moving' \/ x = e.tag
    BY <2>2, <2>3, <2>7 DEF Moving, Sent, reconcile_vars, stream_vars
  <2>14. UNCHANGED <<value, installed, fresh>> /\ (ToDo' # {} => cascade'.trig.tag = e.tag)
    BY <2>2, <2>6, <2>7 DEF reconcile_vars, table_vars, value_vars
  <2>15. Followed' /\ Later' /\ Single'
    BY <2>7, <2>9, <2>13, <2>14, TriggerStep
  <2> QED BY <2>12, <2>15
<1>3. ASSUME NEW c \in Calculated, Evaluate(c)
      PROVE  Shape' /\ Followed' /\ Later' /\ Single'
  <2> DEFINE good == Evaluated(c)
             used == UNION {value[d].used : d \in Depends[c]}
             e == EventOf(c, good)
             rest == Tail(cascade.list)
  <2>1. /\ cascade.pc = "run" /\ cascade.list # <<>> /\ c = Head(cascade.list)
        /\ Put(c, good, used) /\ fresh' \subseteq fresh \cup {c}
        /\ UNCHANGED <<reconcile_vars, stream_vars, events>>
    BY <1>3 DEF Evaluate, PutCalculated, Refreshed
  <2>2. good \in BOOLEAN /\ (good => \A d \in Depends[c] : value[d].good)
    BY DEF Evaluated, Resolves
  <2>3. /\ rest \in Seq(Calculated) /\ ToDo = {c} \cup Range(rest) /\ c \notin Range(rest)
        /\ InOrder(rest) /\ (OneTrigger(c) => Range(rest) \cap Depends[c] = {})
    BY <1>0, <2>1, TailOf, ListTail DEF ToDo, Shape
  <2>4. \/ /\ cascade.n + 1 >= CascadeLimit
           /\ cascade'.pc = "select" /\ cascade'.list = <<>> /\ cascade'.queue = <<>>
           /\ fresh' = Refreshed(c) \ CutOff(c)
        \/ /\ ~(cascade.n + 1 >= CascadeLimit)
           /\ cascade' = Round(cascade.trig, rest, Append(cascade.queue, e), cascade.n + 1)
    BY <1>3 DEF Evaluate, Resting
  <2>5. e \in Event /\ e.tag = c
    BY <2>2, Names DEF Tags
  <2>6. /\ \A x \in Tags : x # c => value'[x] = value[x]
        /\ value'[c].good = good /\ (good => value'[c].used = used)
    BY <2>1, Names DEF Put, Core, TypeOK, Tags
  <2> HIDE DEF good, e
  <2>7. Sent' = Sent
    BY <2>1 DEF Sent, reconcile_vars, stream_vars
  <2>8. UNCHANGED installed
    BY <2>1 DEF reconcile_vars, table_vars
  <2>9. CASE cascade.n + 1 >= CascadeLimit
    <3>1. /\ cascade'.pc = "select" /\ cascade'.list = <<>> /\ cascade'.queue = <<>>
          /\ fresh' = Refreshed(c) \ CutOff(c)
      BY <2>4, <2>9
    <3>2. ToDo' = {}
      BY <3>1, NoElements DEF ToDo
    <3>3. Shape'
      BY <3>1, <3>2 DEF Shape, InOrder
    <3>4. ASSUME NEW x \in fresh'
          PROVE  /\ x \notin Range(rest)
                 /\ x \in Calculated => Trigger[x] # c /\ Trigger[x] \notin TagsOf(cascade.queue)
      BY <3>1 DEF CutOff, TagsOf
    <3> HIDE DEF rest
    <3>5. \A x \in fresh' \cap Calculated :
            Trigger[x] \in Moving \cup {c} => Trigger[x] \in Moving'
      BY <2>7, <3>4 DEF Moving
    <3>6. \A x \in fresh' : x \in ToDo => x \in ToDo' \/ x = c
      BY <2>3, <3>4
    <3>7. Followed' /\ Later' /\ Single'
      BY <2>1, <2>2, <2>3, <2>6, <2>8, <3>2, <3>5, <3>6, EvaluateStep
    <3> QED BY <3>3, <3>7
  <2>10. CASE ~(cascade.n + 1 >= CascadeLimit)
    <3> HIDE DEF rest
    <3> DEFINE queue == Append(cascade.queue, e)
               n == cascade.n + 1
    <3>1. /\ queue \in Seq(Event) /\ queue # <<>>
          /\ TagsOf(queue) = TagsOf(cascade.queue) \cup {c}
      BY <1>0, <2>5, AppendOf, QueueAppend
    <3>2. cascade' = Round(cascade.trig, rest, queue, n)
      BY <2>4, <2>10
    <3> HIDE DEF queue, n
    <3>3. /\ cascade'.list = rest /\ cascade'.queue = queue
          /\ cascade'.pc = "run" /\ cascade'.trig = cascade.trig
      BY <3>1, <3>2 DEF Round
    <3>4. /\ ToDo' = Range(rest) /\ TagsOf(cascade.queue)' = TagsOf(cascade.queue) \cup {c}
      BY <3>1, <3>3 DEF ToDo
    <3>5. Shape'
      <4>1. \A x \in ToDo' : Trigger[x] = cascade'.trig.tag
        BY <2>3, <3>3, <3>4 DEF Shape
      <4> QED BY <2>3, <3>3, <4>1 DEF Shape
    <3>6. \A x \in Calculated : Trigger[x] \in Moving \cup {c} => Trigger[x] \in Moving'
      BY <2>7, <3>4 DEF Moving
    <3>7. /\ ToDo' \subseteq ToDo /\ c \notin ToDo' /\ (OneTrigger(c) => ToDo' \cap Depends[c] = {})
          /\ \A x \in fresh' : x \in ToDo => x \in ToDo' \/ x = c
      BY <2>3, <3>4
    <3>8. Followed' /\ Later' /\ Single'
      BY <2>1, <2>2, <2>3, <2>6, <2>8, <3>3, <3>6, <3>7, EvaluateStep
    <3> QED BY <3>5, <3>8
  <2> QED BY <2>9, <2>10
<1>4. ~EvaluationRefused /\ ~EventsDone
  BY DEF EvaluationRefused, EventsDone, PutRefused, CtxDone, reconcile_vars, life_vars
<1> QED BY <1>1, <1>2, <1>3, <1>4 DEF EventSteps

(* An event that waited to be sent is in the channel.                      *)
LEMMA SentStep ==
  ASSUME Core, NEW e \in Event, Send(e), ~CtxDone'
  PROVE  CtxDone \/ TagsOf(events') = TagsOf(events) \cup {e.tag}
<1>1. CASE Len(events) < QueueSize /\ events' = Append(events, e)
  <2>1. events \in Seq(Event)
    BY DEF Core, TypeOK
  <2> QED BY <1>1, <2>1, QueueAppend
<1> QED BY <1>1 DEF Send

(* Whose newest value is on its way after the steps of Reconcile and of    *)
(* the consumers.                                                          *)
LEMMA OnItsWay ==
  ASSUME Core, cascade' = cascade,
         rec.ev # NoEvent => rec.ev.tag \in {rec'.ev.tag} \cup TagsOf(events'),
         \A d \in Datasources, s \in Slots :
           consumer[d][s].ev # NoEvent =>
             consumer[d][s].ev.tag \in {consumer'[d][s].ev.tag} \cup TagsOf(events'),
         TagsOf(events) \subseteq TagsOf(events')
  PROVE  \A t \in Tags : t \in Moving => t \in Moving'
<1> SUFFICES ASSUME NEW t \in Tags, t \in Moving PROVE t \in Moving'
  OBVIOUS
<1>1. t # NoEvent.tag
  BY Names
<1>2. CASE t = rec.ev.tag
  BY <1>1, <1>2 DEF Moving, Sent
<1>3. CASE \E d \in Datasources, s \in Slots : t = consumer[d][s].ev.tag
  BY <1>1, <1>3 DEF Moving, Sent
<1>4. CASE t \in TagsOf(events) \cup TagsOf(cascade.queue)
  BY <1>4 DEF Moving, Sent
<1> QED BY <1>2, <1>3, <1>4 DEF Moving, Sent

LEMMA DoneStays == [Next]_vars /\ CtxDone => CtxDone'
<1> SUFFICES ASSUME [Next]_vars, CtxDone PROVE CtxDone'
  OBVIOUS
<1> USE DEF CtxDone
<1>1. CASE ReconcileSteps
  <2>1. UNCHANGED <<parentDone, stopped>>
    <3> USE DEF Advance, Return, life_vars
    <3>1. CASE BeginReconcile \/ ListFails \/ QueuePublished \/ StopRemoved
      BY <3>1 DEF BeginReconcile, ListFails, QueuePublished, StopRemoved
    <3>2. CASE Apply
      BY <3>2 DEF Apply
    <3>3. ASSUME NEW t \in Tags, Publish(t) \/ PublishRefused(t) PROVE UNCHANGED <<parentDone, stopped>>
      BY <3>3 DEF Publish, PublishRefused
    <3>4. ASSUME NEW d \in Datasources, Subscribe(d) \/ SubscribeFails(d)
          PROVE  UNCHANGED <<parentDone, stopped>>
      BY <3>4 DEF Subscribe, SubscribeFails
    <3> QED BY <1>1, <3>1, <3>2, <3>3, <3>4 DEF ReconcileSteps
  <2> QED BY <2>1
<1>2. CASE EventSteps
  BY <1>2 DEF EventSteps, TakeEvent, NextTrigger, EvaluationRefused, EventsDone, Evaluate,
     reconcile_vars, life_vars
<1>3. ASSUME NEW d \in Datasources, NEW s \in Slots,
             ConsumeSteps(d, s) \/ Receive(d, s) \/ StreamClosed(d, s)
      PROVE  CtxDone'
  BY <1>3 DEF ConsumeSteps, Receive, StreamClosed, PutReading, ReadingRefused, QueueReading,
     RemoveSubscription, reconcile_vars, life_vars
<1>4. CASE Start \/ ReconcilerExits \/ Stop \/ StopReturns \/ ShutDown \/ UNCHANGED vars
  BY <1>4 DEF Start, ReconcilerExits, Stop, StopReturns, ShutDown, vars, reconcile_vars, life_vars
<1>5. CASE (\E t \in Edited : Toggle(t)) \/ \E k \in ConstantTags : Configure(k)
  BY <1>5 DEF Toggle, Configure, life_vars
<1> QED BY <1>1, <1>2, <1>3, <1>4, <1>5 DEF Next, Rest

LEMMA ReconcileFlow ==
  ASSUME Core, Core', Shape, Followed, Later, Single, ReconcileSteps, ~CtxDone, ~CtxDone'
  PROVE  Shape' /\ Followed' /\ Later' /\ Single'
<1>1. CASE /\ rec.pc # "queue" /\ UNCHANGED <<events, cascade, value>>
           /\ \A d \in Datasources, s \in Slots :
                consumer[d][s].ev # NoEvent => consumer'[d][s].ev = consumer[d][s].ev
           /\ installed' \cap fresh' \subseteq installed \cap fresh
  <2>1. rec.ev = NoEvent
    BY <1>1 DEF Core, Sending
  <2>2. \A t \in Tags : t \in Moving => t \in Moving'
    BY <1>1, <2>1, OnItsWay
  <2> QED BY <1>1, <2>2, QuietStep
<1>2. CASE BeginReconcile \/ ListFails
  BY <1>1, <1>2 DEF BeginReconcile, ListFails, table_vars, stream_vars, value_vars
<1>3. CASE Apply
  <2>1. installed' \cap fresh' \subseteq installed \cap fresh
    BY <1>3 DEF Apply, Core, TypeOK, Base
  <2>2. rec.pc # "queue" /\ UNCHANGED <<events, cascade, value>>
    BY <1>3 DEF Apply
  <2>3. ASSUME NEW d \in Datasources, NEW s \in Slots
        PROVE  consumer'[d][s].ev = consumer[d][s].ev
    <3>1. consumer[d][s] \in Consumer
      BY DEF Core, TypeOK
    <3>2. consumer'[d][s] = IF s = subs[d] /\ d \notin Unwanted
                              THEN [consumer[d][s] EXCEPT !.tags = Wanted(d, db)]
                              ELSE consumer[d][s]
      BY <1>3 DEF Apply
    <3> QED BY <3>1, <3>2 DEF Consumer
  <2> QED BY <1>1, <2>1, <2>2, <2>3
<1>4. ASSUME NEW t \in Tags, Publish(t) PROVE Shape' /\ Followed' /\ Later' /\ Single'
  <2> DEFINE good == t \in ConstantTags
  <2>1. /\ Put(t, good, {}) /\ rec.pc = "put" /\ t \in rec.hand
        /\ rec' = [rec EXCEPT !.pc = "queue", !.ev = EventOf(t, good), !.hand = @ \ {t}]
        /\ UNCHANGED <<table_vars, stream_vars, events, cascade, fresh>>
    BY <1>4 DEF Publish
  <2>2. t \notin Calculated
    BY <2>1, Names DEF Core, TypeOK
  <2>3. rec'.ev.tag = t /\ rec.ev = NoEvent
    BY <2>1 DEF EventOf, Core, Sending, TypeOK
  <2>4. \A x \in Tags : x # t => value'[x] = value[x]
    BY <2>1 DEF Put, Core, TypeOK
  <2> HIDE DEF good
  <2>5. \A x \in Tags : x \in Moving => x \in Moving'
    BY <2>1, <2>3, OnItsWay DEF stream_vars
  <2>6. t \in Moving' /\ UNCHANGED <<cascade, installed, fresh>>
    BY <2>1, <2>3 DEF Moving, Sent, table_vars
  <2> QED BY <2>2, <2>4, <2>5, <2>6, BaseStep
<1>5. ASSUME NEW t \in Tags, PublishRefused(t) PROVE FALSE
  BY <1>5 DEF PublishRefused, PutRefused, CtxDone
<1>6. CASE QueuePublished
  <2>1. /\ rec.pc = "queue" /\ Send(rec.ev)
        /\ UNCHANGED <<table_vars, stream_vars, cascade, value_vars>>
    BY <1>6 DEF QueuePublished
  <2>2. rec.ev \in Event
    BY <2>1 DEF Core, TypeOK, Sending
  <2>3. TagsOf(events') = TagsOf(events) \cup {rec.ev.tag}
    BY <2>1, <2>2, SentStep
  <2>4. \A x \in Tags : x \in Moving => x \in Moving'
    BY <2>1, <2>3, OnItsWay DEF stream_vars
  <2> QED BY <2>1, <2>4, QuietStep DEF table_vars, value_vars
<1>7. CASE StopRemoved
  <2>1. ASSUME NEW d \in Datasources, NEW s \in Slots
        PROVE  consumer'[d][s].ev = consumer[d][s].ev
    <3>1. consumer[d][s] \in Consumer
      BY DEF Core, TypeOK
    <3>2. PICK b \in BOOLEAN : consumer'[d][s] = [consumer[d][s] EXCEPT !.cancelled = b]
      <4>1. (consumer[d][s].cancelled \/ <<d, s>> \in rec.removed) \in BOOLEAN
        OBVIOUS
      <4> QED BY <1>7, <4>1 DEF StopRemoved
    <3> QED BY <3>1, <3>2 DEF Consumer
  <2>2. rec.pc # "queue" /\ UNCHANGED <<events, cascade, table_vars, value_vars>>
    BY <1>7 DEF StopRemoved
  <2> QED BY <1>1, <2>1, <2>2 DEF table_vars, value_vars
<1>8. ASSUME NEW d \in Datasources, Subscribe(d) PROVE Shape' /\ Followed' /\ Later' /\ Single'
  <2>1. rec.pc # "queue" /\ UNCHANGED <<events, cascade, table_vars, value_vars>>
    BY <1>8 DEF Subscribe
  <2>2. CASE UNCHANGED stream_vars
    BY <1>1, <2>1, <2>2 DEF table_vars, value_vars, stream_vars
  <2>3. CASE ~UNCHANGED stream_vars
    <3> DEFINE s == CHOOSE s \in Slots : consumer[d][s].pc = "free"
               new == [Free EXCEPT !.pc = "select", !.tags = Wanted(d, rec.tags)]
    <3>1. /\ s \in Slots /\ consumer[d][s].pc = "free"
          /\ consumer' = [consumer EXCEPT ![d][s] = new]
      BY <1>8, <2>3 DEF Subscribe
    <3> HIDE DEF s, new
    <3>2. consumer[d][s].ev = NoEvent
      BY <3>1 DEF Core, Sending
    <3>3. \A e \in Datasources, x \in Slots :
            consumer[e][x].ev # NoEvent => consumer'[e][x].ev = consumer[e][x].ev
      BY <3>1, <3>2 DEF Core, TypeOK
    <3> QED BY <1>1, <2>1, <3>3 DEF table_vars, value_vars
  <2> QED BY <2>2, <2>3
<1>9. ASSUME NEW d \in Datasources, SubscribeFails(d)
      PROVE  Shape' /\ Followed' /\ Later' /\ Single'
  BY <1>1, <1>9 DEF SubscribeFails, table_vars, stream_vars, value_vars
<1> QED BY <1>2, <1>3, <1>4, <1>5, <1>6, <1>7, <1>8, <1>9 DEF ReconcileSteps

LEMMA ConsumeFlow ==
  ASSUME Core, Core', Shape, Followed, Later, Single, ~CtxDone, ~CtxDone',
         NEW d \in Datasources, NEW s \in Slots,
         ConsumeSteps(d, s) \/ Receive(d, s) \/ StreamClosed(d, s)
  PROVE  Shape' /\ Followed' /\ Later' /\ Single'
<1>1. ASSUME NEW state, Become(d, s, state), UNCHANGED <<rec, events, cascade>>,
             consumer[d][s].pc # "queue"
      PROVE  \A x \in Tags : x \in Moving => x \in Moving'
  <2>1. consumer[d][s].ev = NoEvent
    BY <1>1 DEF Core, Sending
  <2>2. \A e \in Datasources, x \in Slots :
          consumer[e][x].ev # NoEvent => consumer'[e][x].ev = consumer[e][x].ev
    BY <1>1, <2>1 DEF Become, Core, TypeOK
  <2> QED BY <1>1, <2>2, OnItsWay
<1>2. CASE /\ \E state : Become(d, s, state)
           /\ consumer[d][s].pc # "queue"
           /\ UNCHANGED <<rec, events, cascade, value, installed, fresh>>
  <2>1. \A x \in Tags : x \in Moving => x \in Moving'
    BY <1>1, <1>2
  <2> QED BY <1>2, <2>1, QuietStep
<1>3. CASE Receive(d, s) \/ StreamClosed(d, s) \/ RemoveSubscription(d, s)
  <2>1. \E state : Become(d, s, state)
    BY <1>3 DEF Receive, StreamClosed, RemoveSubscription
  <2>2. /\ UNCHANGED <<reconcile_vars, events, cascade, value_vars>>
        /\ consumer[d][s].pc # "queue"
    BY <1>3 DEF Receive, StreamClosed, RemoveSubscription, ConsumerDone
  <2> QED BY <1>2, <2>1, <2>2 DEF reconcile_vars, table_vars, value_vars
<1>4. ASSUME NEW t \in Readings, NEW good \in BOOLEAN, PutReading(d, s, t, good)
      PROVE  Shape' /\ Followed' /\ Later' /\ Single'
  <2> DEFINE e == EventOf(t, good)
             state == [consumer[d][s] EXCEPT !.pc = "queue", !.ev = e, !.hand = @ \ {t}]
  <2>1. /\ Put(t, good, {consumer[d][s].sample}) /\ consumer[d][s].pc = "put"
        /\ Become(d, s, state)
        /\ UNCHANGED <<reconcile_vars, subs, events, cascade, fresh>>
    BY <1>4 DEF PutReading
  <2>2. t \in Tags /\ t \notin Calculated /\ e.tag = t
    BY Names DEF Tags
  <2> HIDE DEF e
  <2>3. state.ev = e /\ consumer'[d][s] = state
    <3>1. consumer[d][s] \in Consumer
      BY DEF Core, TypeOK
    <3>2. state.ev = e
      BY <3>1 DEF Consumer
    <3> HIDE DEF state
    <3> QED BY <2>1, <3>2 DEF Become, Core, TypeOK
  <2> HIDE DEF state
  <2>4. \A x \in Tags : x # t => value'[x] = value[x]
    BY <2>1 DEF Put, Core, TypeOK
  <2>5. \A x \in Tags : x \in Moving => x \in Moving'
    BY <1>1, <2>1 DEF reconcile_vars
  <2>6. t \in Moving' /\ UNCHANGED <<cascade, installed, fresh>>
    BY <2>1, <2>2, <2>3 DEF Moving, Sent, reconcile_vars, table_vars
  <2> QED BY <2>2, <2>4, <2>5, <2>6, BaseStep
<1>5. ASSUME NEW t \in Readings, ReadingRefused(d, s, t) PROVE FALSE
  BY <1>5 DEF ReadingRefused, PutRefused, CtxDone
<1>6. CASE QueueReading(d, s)
  <2>1. /\ consumer[d][s].pc = "queue" /\ Send(consumer[d][s].ev)
        /\ Become(d, s, Left(d, s, consumer[d][s].hand))
        /\ UNCHANGED <<reconcile_vars, subs, cascade, value_vars>>
    BY <1>6 DEF QueueReading
  <2>2. consumer[d][s].ev \in Event
    BY <2>1 DEF Core, TypeOK, Sending, Consumer
  <2>3. TagsOf(events') = TagsOf(events) \cup {consumer[d][s].ev.tag}
    BY <2>1, <2>2, SentStep
  <2>4. \A e \in Datasources, x \in Slots :
          e # d \/ x # s => consumer'[e][x] = consumer[e][x]
    BY <2>1 DEF Become, Core, TypeOK
  <2>5. \A x \in Tags : x \in Moving => x \in Moving'
    BY <2>1, <2>3, <2>4, OnItsWay DEF reconcile_vars
  <2> QED BY <2>1, <2>5, QuietStep DEF reconcile_vars, table_vars, value_vars
<1> QED BY <1>3, <1>4, <1>5, <1>6 DEF ConsumeSteps

LEMMA OtherFlow ==
  ASSUME Core, Core', Shape, Followed, Later, Single, ~CtxDone, ~CtxDone',
         \/ Start \/ ReconcilerExits \/ Stop \/ StopReturns \/ ShutDown
         \/ \E t \in Edited : Toggle(t)
         \/ \E k \in ConstantTags : Configure(k)
         \/ UNCHANGED vars
  PROVE  Shape' /\ Followed' /\ Later' /\ Single'
<1>1. ~Stop /\ ~ShutDown
  BY DEF Stop, ShutDown, CtxDone
<1>2. UNCHANGED <<rec, consumer, events, value, installed, fresh>>
  BY <1>1 DEF Start, ReconcilerExits, StopReturns, Toggle, Configure, vars,
     reconcile_vars, table_vars, stream_vars, value_vars
<1>3. CASE cascade' = cascade
  <2>1. \A x \in Tags : x \in Moving => x \in Moving'
    BY <1>2, <1>3, OnItsWay
  <2> QED BY <1>2, <1>3, <2>1, QuietStep
<1>4. CASE Start
  <2>1. /\ cascade.list = <<>> /\ cascade.queue = <<>>
        /\ cascade' = Resting /\ UNCHANGED <<rec, consumer, events>>
    BY <1>4 DEF Start, Life, Core, Shape, stream_vars
  <2>2. /\ ToDo = {} /\ ToDo' = {}
        /\ cascade'.list = <<>> /\ cascade'.queue = <<>> /\ Moving' = Moving
    BY <2>1, NoElements DEF ToDo, Resting, Moving, Sent
  <2>3. Shape'
    BY <2>2 DEF Shape, InOrder
  <2>4. Followed' /\ Later' /\ Single'
    BY <1>2, <2>2 DEF Followed, Later, Single, Follows
  <2> QED BY <2>3, <2>4
<1>5. Start \/ cascade' = cascade
  BY <1>1 DEF ReconcilerExits, StopReturns, Toggle, Configure, vars
<1> QED BY <1>3, <1>4, <1>5

LEMMA FlowStep == Core /\ Core' /\ Flow /\ [Next]_vars => Flow'
<1> SUFFICES ASSUME Core, Core', Flow, [Next]_vars, ~CtxDone'
             PROVE  Shape' /\ Followed' /\ Later' /\ Single'
  BY DEF Flow
<1>1. ~CtxDone
  BY DoneStays
<1>2. Shape /\ Followed /\ Later /\ Single
  BY <1>1 DEF Flow
<1>3. CASE ReconcileSteps
  BY <1>1, <1>2, <1>3, ReconcileFlow
<1>4. CASE EventSteps
  BY <1>1, <1>2, <1>4, EventFlow
<1>5. ASSUME NEW d \in Datasources, NEW s \in Slots,
             ConsumeSteps(d, s) \/ Receive(d, s) \/ StreamClosed(d, s)
      PROVE  Shape' /\ Followed' /\ Later' /\ Single'
  BY <1>1, <1>2, <1>5, ConsumeFlow
<1>6. CASE \/ Start \/ ReconcilerExits \/ Stop \/ StopReturns \/ ShutDown
           \/ \E t \in Edited : Toggle(t)
           \/ \E k \in ConstantTags : Configure(k)
           \/ UNCHANGED vars
  BY <1>1, <1>2, <1>6, OtherFlow
<1> QED BY <1>3, <1>4, <1>5, <1>6 DEF Next, Rest

(* What the theorems call settled is what the invariant does.              *)
LEMMA WhenSettled ==
  ASSUME NEW c, Settled(c)
  PROVE  c \in installed \cap fresh /\ Trigger[c] \notin Moving /\ c \notin ToDo
BY DEF Settled, InTransit, Moving, Sent, TagsOf, ToDo, Range

(* Until the context is done, what is on its way to a calculated tag and   *)
(* what the tag was computed from agree (runValueEvents).                 *)
THEOREM FlowAlways == Spec => [](Core /\ Flow)
<1>1. Init => Core /\ Flow
  BY InitCore, InitFlow
<1>2. Core /\ Flow /\ [Next]_vars => Core' /\ Flow'
  BY CoreStep, FlowStep
<1> QED BY <1>1, <1>2, PTL DEF Spec

(* No value of a trigger is lost between the value store, the bounded      *)
(* channel and the cascade: a good calculated value was computed from the  *)
(* newest value of its trigger, unless one is on its way to it or was      *)
(* dropped by a cascade that met its limit.                                *)
THEOREM FollowsTriggerAlways == Spec => []FollowsTrigger
<1>1. Core /\ Flow => FollowsTrigger
  <2> SUFFICES ASSUME Flow, NEW c \in Calculated, Settled(c), ~CtxDone PROVE Follows(c)
    BY DEF FollowsTrigger
  <2> QED BY WhenSettled DEF Flow, Followed
<1> QED BY <1>1, FlowAlways, PTL

(* Because orderCalculatedTags puts no tag before one it depends on, a     *)
(* value computed through other tags of the same trigger does not mix two  *)
(* of its samples.                                                         *)
THEOREM NoMixedSamplesAlways == Spec => []NoMixedSamples
<1>1. Core /\ Flow => NoMixedSamples
  <2> SUFFICES ASSUME Core, Flow, NEW c \in Calculated, OneTrigger(c), Settled(c), ~CtxDone,
                      value[c].good, \A d \in Depends[c] \cap Calculated : Settled(d),
                      NEW m \in value[c].used, NEW n \in value[c].used
               PROVE  m = n
    BY DEF NoMixedSamples
  <2>1. Depends[c] \cap Calculated \subseteq (installed \cap fresh) \ ToDo
    BY WhenSettled
  <2>2. value[c].used \subseteq value[Trigger[c]].used
    BY <2>1, WhenSettled DEF Flow, Single
  <2>3. Trigger[c] \in Readings
    BY DEF OneTrigger
  <2> QED BY <2>2, <2>3 DEF Core, Base
<1> QED BY <1>1, FlowAlways, PTL

=============================================================================
