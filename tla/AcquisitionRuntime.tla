------------------------ MODULE AcquisitionRuntime ------------------------
(***************************************************************************)
(* The acquisition runtime (tag/acquisition.go): one device subscription   *)
(* and one consume goroutine per datasource that has an enabled reading    *)
(* tag, a goroutine that re-evaluates calculated tags when their trigger   *)
(* gets a value, and a reconciler that follows the tags in the database.   *)
(*                                                                         *)
(* A value is a quality and the set of the samples it was computed from.   *)
(* The device subscription is external: it delivers numbered samples and   *)
(* may close at any moment.                                                *)
(***************************************************************************)
EXTENDS Integers, FiniteSets, SequencesExt

CONSTANTS
  Datasources,  \* datasource ids
  Readings,     \* reading tags
  Calculated,   \* calculated tags
  ConstantTags, \* constant tags
  Source,       \* the datasource of each reading tag
  Trigger,      \* the trigger of each calculated tag
  Depends,      \* the tags the expression of each calculated tag reads
  Slots,        \* places for the consumers of one datasource
  NoSlot,       \* the datasource has no subscription
  QueueSize,    \* capacity of the events channel
  CascadeLimit, \* maxCalculatedCascadeValues
  Initial,      \* the sets of tags that may be enabled at first
  Edited,       \* bound: the tags that are enabled and disabled
  MaxSamples,   \* bound: samples delivered
  MaxEvents     \* bound: edits of tags, faults of the database or a device,
                \* and the order to stop

Tags == Readings \cup Calculated \cup ConstantTags

(* What is checked when a tag is saved: the trigger is no constant.  That  *)
(* dependencies form no cycle is checked as well, but two saves that       *)
(* overlap can make one; the expression need not read the trigger.         *)
TriggersAllowed == Trigger \in [Calculated -> Readings \cup Calculated]

ASSUME AcquisitionAssumption ==
  /\ Readings \cap Calculated = {} /\ ConstantTags \cap (Readings \cup Calculated) = {}
  /\ Source \in [Readings -> Datasources]
  /\ Depends \in [Calculated -> SUBSET Tags]
  /\ TriggersAllowed /\ IsFiniteSet(Tags)
  /\ Initial \subseteq SUBSET Tags /\ Edited \subseteq Tags
  /\ NoSlot \notin Slots \cup Tags
  /\ QueueSize \in Nat \ {0} /\ CascadeLimit \in Nat \ {0}
  /\ MaxSamples \in Nat /\ MaxEvents \in Nat

VARIABLES
  db,         \* the enabled tags
  config,     \* the configured value of each constant
  parentDone, \* the context given to Start is cancelled
  started,    \* how far Start is
  stopped,    \* Stop has been entered
  stop,       \* how far Stop is
  reconciler, \* runReconciler runs
  rec,        \* the Reconcile in progress
  installed,  \* AcquisitionRuntime.calculated, as the set of its tags
  constants,  \* AcquisitionRuntime.constants
  subs,       \* AcquisitionRuntime.subscriptions
  consumer,   \* the subscriptions and their consume goroutines
  events,     \* the events channel
  cascade,    \* the runValueEvents goroutine
  value,      \* the value store
  fresh,      \* history: calculated tags evaluated since they were loaded,
              \* and since a cascade at its limit dropped a value for them
  left        \* what is left of the bounds

db_vars     == <<db, config>>
life_vars   == <<parentDone, started, stopped, stop, reconciler>>
table_vars  == <<installed, constants>>
stream_vars == <<subs, consumer>>
value_vars  == <<value, fresh>>
(* What neither a consumer nor the cascade changes.                        *)
reconcile_vars == <<db_vars, life_vars, rec, table_vars>>
vars == <<reconcile_vars, stream_vars, events, cascade, value_vars, left>>

NoConfig == -1
NoEvent  == [tag |-> NoSlot, good |-> FALSE]
NoRec    == [pc |-> "idle", tags |-> {}, hand |-> {}, removed |-> {},
             todo |-> {}, ev |-> NoEvent]
Free     == [pc |-> "free", tags |-> {}, cancelled |-> FALSE, hand |-> {},
             sample |-> 0, ev |-> NoEvent]
Resting  == [pc |-> "select", queue |-> <<>>, list |-> <<>>, trig |-> NoEvent,
             n |-> 0]

(* runtime.ctx is done.                                                    *)
CtxDone == parentDone \/ stopped
(* The context of a subscription is done.                                  *)
Cancelled(d, s) == consumer[d][s].cancelled \/ CtxDone
Wanted(d, tags) == {r \in Readings \cap tags : Source[r] = d}

Init ==
  /\ db \in Initial
  /\ config = [k \in ConstantTags |-> 0]
  /\ parentDone = FALSE /\ started = "new"
  /\ stopped = FALSE /\ stop = "idle" /\ reconciler = FALSE
  /\ rec = NoRec
  /\ installed = {}
  /\ constants = [k \in ConstantTags |-> NoConfig]
  /\ subs = [d \in Datasources |-> NoSlot]
  /\ consumer = [d \in Datasources |-> [s \in Slots |-> Free]]
  /\ events = <<>>
  /\ cascade = [Resting EXCEPT !.pc = "off"]
  /\ value = [t \in Tags |-> [good |-> FALSE, used |-> {}]]
  /\ fresh = {}
  /\ left = [samples |-> MaxSamples, outside |-> MaxEvents]

----------------------------------------------------------------------------
(* storeAndQueue: Put, then the event.                                     *)

EventOf(t, good) == [tag |-> t, good |-> good]

(* Put stores a value of t, computed from the samples used.                *)
Put(t, good, used) ==
  value' = [value EXCEPT ![t] = [good |-> good, used |-> IF good THEN used
                                                         ELSE {}]]

(* The value store stops with the same context, and refuses then.          *)
PutRefused == parentDone

(* Faulty variant: an event that finds the channel full is dropped.        *)
SendOrDrop(e) ==
  events' = IF Len(events) < QueueSize THEN Append(events, e) ELSE events
(* The send waits for room, or for runtime.ctx.                            *)
Send(e) ==
  \/ Len(events) < QueueSize /\ events' = Append(events, e)
  \/ CtxDone /\ UNCHANGED events

----------------------------------------------------------------------------
(* Start and Reconcile.                                                    *)

Start ==
  /\ started = "new"
  /\ started' = "reconciling"
  /\ cascade' = Resting
  /\ UNCHANGED <<db_vars, parentDone, stopped, stop, reconciler, rec,
                 table_vars, stream_vars, events, value_vars, left>>

(* Start, or a tick of runReconciler, enters Reconcile.                    *)
BeginReconcile ==
  /\ rec.pc = "idle" /\ ~stopped
  /\ started = "reconciling" \/ reconciler
  /\ rec' = [NoRec EXCEPT !.pc = "list"]
  /\ UNCHANGED <<db_vars, life_vars, table_vars, stream_vars, events, cascade,
                 value_vars, left>>

(* Reconcile returns: Start goes on to start runReconciler, or to Stop.    *)
Return(ok) ==
  /\ rec' = NoRec
  /\ IF started = "reconciling"
       THEN /\ started' = IF ok THEN "yes" ELSE "failed"
            /\ reconciler' = (ok /\ ~stopped)
       ELSE UNCHANGED <<started, reconciler>>
  /\ UNCHANGED <<parentDone, stopped, stop>>

(* On to what is left of Reconcile: values to publish, subscriptions to    *)
(* stop, datasources to subscribe, in this order.                          *)
Advance(r) ==
  IF r.hand = {} /\ r.removed = {} /\ r.todo = {}
    THEN Return(TRUE)
    ELSE /\ rec' = [r EXCEPT !.pc = IF r.hand # {} THEN "put"
                                    ELSE IF r.removed # {} THEN "stop"
                                    ELSE "subscribe"]
         /\ UNCHANGED life_vars

(* One of the bounded number of events outside the runtime.                *)
Outside ==
  left.outside > 0 /\ left' = [left EXCEPT !.outside = @ - 1]

(* A call of another component fails: a fault, or a context that is done.  *)
Fails ==
  \/ Outside
  \/ CtxDone /\ UNCHANGED left

ListFails ==
  /\ rec.pc = "list"
  /\ Fails
  /\ Return(FALSE)
  /\ UNCHANGED <<db_vars, table_vars, stream_vars, events, cascade,
                 value_vars>>

(* The subscriptions without an enabled reading tag.                       *)
Unwanted == {d \in Datasources : subs[d] # NoSlot /\ Wanted(d, db) = {}}

(* ListEnabledTags and, under mu: the calculated tags and the constants    *)
(* are replaced, kept subscriptions get their tags, unwanted ones leave    *)
(* the map.  An edit between the two is one after both.                    *)
Apply ==
  /\ rec.pc = "list"
  /\ installed' = db \cap Calculated
  /\ fresh' = fresh \cap db
  /\ constants' = [k \in ConstantTags |-> IF k \in db THEN config[k]
                                                     ELSE NoConfig]
  /\ subs' = [d \in Datasources |-> IF d \in Unwanted THEN NoSlot ELSE subs[d]]
  /\ Advance([rec EXCEPT
                !.tags = db,
                !.hand = {k \in ConstantTags \cap db : constants[k] # config[k]},
                !.removed = {<<d, subs[d]>> : d \in Unwanted},
                !.todo = {d \in Datasources : /\ Wanted(d, db) # {}
                                              /\ subs[d] = NoSlot}])
  /\ consumer' =
       [d \in Datasources |-> [s \in Slots |->
          IF s = subs[d] /\ d \notin Unwanted
            THEN [consumer[d][s] EXCEPT !.tags = Wanted(d, db)]
            ELSE consumer[d][s]]]
  /\ UNCHANGED <<db_vars, events, cascade, value, left>>

(* The changed constants, or the readings of a datasource that could not   *)
(* be subscribed, are published one by one.                                *)
Publish(t) ==
  /\ rec.pc = "put" /\ t \in rec.hand
  /\ LET good == t \in ConstantTags
     IN  /\ Put(t, good, {})
         /\ rec' = [rec EXCEPT !.pc = "queue", !.ev = EventOf(t, good),
                               !.hand = @ \ {t}]
  /\ UNCHANGED <<db_vars, life_vars, table_vars, stream_vars, events, cascade,
                 fresh, left>>

PublishRefused(t) ==
  /\ rec.pc = "put" /\ t \in rec.hand /\ PutRefused
  /\ Advance([rec EXCEPT !.hand = @ \ {t}])
  /\ UNCHANGED <<db_vars, table_vars, stream_vars, events, cascade,
                 value_vars, left>>

QueuePublished ==
  /\ rec.pc = "queue"
  /\ Send(rec.ev)
  /\ Advance([rec EXCEPT !.ev = NoEvent])
  /\ UNCHANGED <<db_vars, table_vars, stream_vars, cascade, value_vars, left>>

(* The subscriptions that left the map are stopped, not waited for.        *)
StopRemoved ==
  /\ rec.pc = "stop"
  /\ consumer' = [d \in Datasources |-> [s \in Slots |->
                    [consumer[d][s] EXCEPT
                       !.cancelled = @ \/ <<d, s>> \in rec.removed]]]
  /\ Advance([rec EXCEPT !.removed = {}])
  /\ UNCHANGED <<db_vars, table_vars, subs, events, cascade, value_vars, left>>

(* The device accepts the subscription; under mu it enters the map and its *)
(* goroutine starts, unless Stop came first.  Only Reconcile adds one, and *)
(* reconcileMu lets one Reconcile run, so the map has none yet.            *)
Subscribe(d) ==
  /\ rec.pc = "subscribe" /\ d \in rec.todo
  /\ \/ stopped /\ UNCHANGED stream_vars
     \/ /\ ~stopped
        /\ \E s \in Slots : consumer[d][s].pc = "free"
        /\ LET s == CHOOSE s \in Slots : consumer[d][s].pc = "free"
           IN  /\ subs' = [subs EXCEPT ![d] = s]
               /\ consumer' = [consumer EXCEPT ![d][s] =
                     [Free EXCEPT !.pc = "select",
                                  !.tags = Wanted(d, rec.tags)]]
  /\ Advance([rec EXCEPT !.todo = @ \ {d}])
  /\ UNCHANGED <<db_vars, table_vars, events, cascade, value_vars, left>>

SubscribeFails(d) ==
  /\ rec.pc = "subscribe" /\ d \in rec.todo
  /\ Fails
  /\ Advance([rec EXCEPT !.hand = Wanted(d, rec.tags), !.todo = @ \ {d}])
  /\ UNCHANGED <<db_vars, table_vars, stream_vars, events, cascade,
                 value_vars>>

----------------------------------------------------------------------------
(* consume, one goroutine per subscription.                                *)

Become(d, s, state) == consumer' = [consumer EXCEPT ![d][s] = state]

(* A sample arrives: the subscription's tags of this moment are processed. *)
Receive(d, s) ==
  /\ consumer[d][s].pc = "select" /\ left.samples > 0
  /\ left' = [left EXCEPT !.samples = @ - 1]
  /\ Become(d, s, [consumer[d][s] EXCEPT
                     !.pc = "put", !.hand = consumer[d][s].tags,
                     !.sample = MaxSamples - left.samples + 1])
  /\ UNCHANGED <<reconcile_vars, subs, events, cascade, value_vars>>

(* The device closes the stream: the tags become unavailable (sample 0).   *)
StreamClosed(d, s) ==
  /\ consumer[d][s].pc = "select" /\ ~Cancelled(d, s)
  /\ Outside
  /\ Become(d, s, [consumer[d][s] EXCEPT !.pc = "put",
                                         !.hand = consumer[d][s].tags])
  /\ UNCHANGED <<reconcile_vars, subs, events, cascade, value_vars>>

(* A sample that cannot be decoded for a tag gives it a bad value.         *)
PutReading(d, s, t, good) ==
  /\ consumer[d][s].pc = "put" /\ t \in consumer[d][s].hand
  /\ good => consumer[d][s].sample # 0
  /\ Put(t, good, {consumer[d][s].sample})
  /\ Become(d, s, [consumer[d][s] EXCEPT !.pc = "queue",
                                         !.ev = EventOf(t, good),
                                         !.hand = @ \ {t}])
  /\ UNCHANGED <<reconcile_vars, subs, events, cascade, fresh, left>>

(* The subscription once hand is what is left to put.                      *)
Left(d, s, hand) ==
  [consumer[d][s] EXCEPT
     !.pc = IF hand # {} THEN "put"
            ELSE IF consumer[d][s].sample = 0 THEN "remove" ELSE "select",
     !.hand = hand, !.ev = NoEvent,
     !.sample = IF hand = {} THEN 0 ELSE @]

ReadingRefused(d, s, t) ==
  /\ consumer[d][s].pc = "put" /\ t \in consumer[d][s].hand /\ PutRefused
  /\ Become(d, s, Left(d, s, consumer[d][s].hand \ {t}))
  /\ UNCHANGED <<reconcile_vars, subs, events, cascade, value_vars, left>>

QueueReading(d, s) ==
  /\ consumer[d][s].pc = "queue"
  /\ Send(consumer[d][s].ev)
  /\ Become(d, s, Left(d, s, consumer[d][s].hand))
  /\ UNCHANGED <<reconcile_vars, subs, cascade, value_vars, left>>

(* The last value is queued, or the context is done; a stream that the     *)
(* context closed has been read to its end then.                           *)
ConsumerDone(d, s) ==
  \/ consumer[d][s].pc = "remove"
  \/ consumer[d][s].pc = "select" /\ Cancelled(d, s)

(* Faulty variant: whatever subscription the map has is removed.           *)
RemoveAny(d, s) ==
  /\ ConsumerDone(d, s)
  /\ subs' = [subs EXCEPT ![d] = NoSlot]
  /\ Become(d, s, Free)
  /\ UNCHANGED <<reconcile_vars, events, cascade, value_vars, left>>
(* Faulty variant: the map keeps the subscription that has ended.          *)
EndOnly(d, s) ==
  /\ ConsumerDone(d, s)
  /\ Become(d, s, Free)
  /\ UNCHANGED <<reconcile_vars, subs, events, cascade, value_vars, left>>
(* removeSubscription, and the goroutine ends.                             *)
RemoveSubscription(d, s) ==
  /\ ConsumerDone(d, s)
  /\ subs' = [subs EXCEPT ![d] = IF @ = s THEN NoSlot ELSE @]
  /\ Become(d, s, Free)
  /\ UNCHANGED <<reconcile_vars, events, cascade, value_vars, left>>

----------------------------------------------------------------------------
(* runValueEvents: an event and all the evaluations it causes.             *)

(* Faulty variant: the calculated tags of a trigger in any order.          *)
AnyOrders(S) == SetToSeqs(S)
(* orderCalculatedTags: no tag before one it depends on; once each of the  *)
(* remaining depends on a remaining one, they follow as they are.          *)
From(q, i) == {q[j] : j \in i..Len(q)}
Orders(S) ==
  {q \in SetToSeqs(S) :
     \A i \in DOMAIN q :
       \/ Depends[q[i]] \cap From(q, i) = {}
       \/ \E k \in 1..i : \A c \in From(q, k) : Depends[c] \cap From(q, k) # {}}

(* calculatedForTrigger, copied under mu.                                  *)
Dependants(t) == {c \in installed : Trigger[c] = t}

Round(e, list, queue, n) ==
  [pc |-> IF list = <<>> /\ queue = <<>> THEN "select" ELSE "run",
   queue |-> queue, list |-> list,
   trig |-> IF list = <<>> /\ queue = <<>> THEN NoEvent ELSE e,
   n |-> IF list = <<>> /\ queue = <<>> THEN 0 ELSE n]

TakeEvent ==
  /\ cascade.pc = "select" /\ events # <<>>
  /\ events' = Tail(events)
  /\ \E list \in Orders(Dependants(Head(events).tag)) :
       cascade' = Round(Head(events), list, <<>>, 0)
  /\ UNCHANGED <<reconcile_vars, stream_vars, value_vars, left>>

(* The next value of the local queue becomes the trigger.                  *)
NextTrigger ==
  /\ cascade.pc = "run" /\ cascade.list = <<>> /\ cascade.queue # <<>>
  /\ \E list \in Orders(Dependants(Head(cascade.queue).tag)) :
       cascade' = Round(Head(cascade.queue), list, Tail(cascade.queue),
                        cascade.n)
  /\ UNCHANGED <<reconcile_vars, stream_vars, events, value_vars, left>>

(* Every dependency has a good value and the context still answers.        *)
Resolves(c) == ~CtxDone /\ \A d \in Depends[c] : value[d].good

Evaluated(c) == cascade.trig.good /\ Resolves(c)

(* evaluateCalculated on a snapshot, and Put, for the first of the list.   *)
PutCalculated(c) ==
  /\ cascade.pc = "run" /\ cascade.list # <<>> /\ c = Head(cascade.list)
  /\ Put(c, Evaluated(c), UNION {value[d].used : d \in Depends[c]})
Refreshed(c) == fresh \cup ({c} \cap installed)

(* Faulty variant: the value goes back through the events channel.         *)
EvaluateThroughChannel(c) ==
  /\ PutCalculated(c)
  /\ Send(EventOf(c, Evaluated(c)))
  /\ cascade' = Round(cascade.trig, Tail(cascade.list), <<>>, 0)
  /\ fresh' = Refreshed(c)
  /\ UNCHANGED <<reconcile_vars, stream_vars, left>>
(* The tags that are not evaluated for a value at hand if the cascade ends *)
(* with that of c.                                                         *)
CutOff(c) ==
  Range(Tail(cascade.list)) \cup
    {x \in Calculated : \/ Trigger[x] = c
                        \/ \E i \in DOMAIN cascade.queue :
                             Trigger[x] = cascade.queue[i].tag}
(* The new value joins the local queue; at the limit all of it is dropped. *)
Evaluate(c) ==
  /\ PutCalculated(c)
  /\ IF cascade.n + 1 >= CascadeLimit
       THEN /\ cascade' = Resting
            /\ fresh' = Refreshed(c) \ CutOff(c)
       ELSE /\ cascade' = Round(cascade.trig, Tail(cascade.list),
                               Append(cascade.queue, EventOf(c, Evaluated(c))),
                               cascade.n + 1)
            /\ fresh' = Refreshed(c)
  /\ UNCHANGED <<reconcile_vars, stream_vars, events, left>>

EvaluationRefused ==
  /\ cascade.pc = "run" /\ cascade.list # <<>> /\ PutRefused
  /\ cascade' = Round(cascade.trig, Tail(cascade.list), cascade.queue,
                      cascade.n)
  /\ UNCHANGED <<reconcile_vars, stream_vars, events, value_vars, left>>

EventsDone ==
  /\ cascade.pc = "select" /\ CtxDone
  /\ cascade' = [cascade EXCEPT !.pc = "off"]
  /\ UNCHANGED <<reconcile_vars, stream_vars, events, value_vars, left>>

----------------------------------------------------------------------------
(* Stop, the reconciler's end and the environment.                         *)

ReconcilerExits ==
  /\ reconciler /\ CtxDone /\ rec.pc = "idle"
  /\ reconciler' = FALSE
  /\ UNCHANGED <<db_vars, parentDone, started, stopped, stop, rec, table_vars,
                 stream_vars, events, cascade, value_vars, left>>

(* Stop, first part, from a Start that failed or from main; runtime.ctx is *)
(* the parent of every subscription's context.                             *)
Stop ==
  /\ started \in {"failed", "yes"} /\ ~stopped
  /\ IF parentDone \/ started = "failed" THEN UNCHANGED left ELSE Outside
  /\ stopped' = TRUE
  /\ stop' = "wait"
  /\ subs' = [d \in Datasources |-> NoSlot]
  /\ UNCHANGED <<db_vars, parentDone, started, reconciler, rec, table_vars,
                 consumer, events, cascade, value_vars>>

(* Stop, second part: the wait group.                                      *)
StopReturns ==
  /\ stop = "wait" /\ ~reconciler /\ cascade.pc = "off"
  /\ \A d \in Datasources, s \in Slots : consumer[d][s].pc = "free"
  /\ stop' = "done"
  /\ UNCHANGED <<db_vars, parentDone, started, stopped, reconciler, rec,
                 table_vars, stream_vars, events, cascade, value_vars, left>>

(* The process is told to stop.                                            *)
ShutDown ==
  /\ ~parentDone /\ started # "new"
  /\ Outside
  /\ parentDone' = TRUE
  /\ UNCHANGED <<db_vars, started, stopped, stop, reconciler, rec, table_vars,
                 stream_vars, events, cascade, value_vars>>

(* A tag is enabled or created, disabled or deleted.                       *)
Toggle(t) ==
  /\ Outside
  /\ db' = SymDiff(db, {t})
  /\ UNCHANGED <<config, life_vars, rec, table_vars, stream_vars, events,
                 cascade, value_vars>>

Configure(k) ==
  /\ Outside
  /\ config' = [config EXCEPT ![k] = @ + 1]
  /\ UNCHANGED <<db, life_vars, rec, table_vars, stream_vars, events, cascade,
                 value_vars>>

(* The process goes on around the runtime: that the runtime does too is    *)
(* what Converges, Propagates and StopEnds say.                            *)
Rest == started # "new" /\ UNCHANGED vars

ReconcileSteps ==
  \/ BeginReconcile \/ ListFails \/ Apply
  \/ \E t \in Tags : Publish(t) \/ PublishRefused(t)
  \/ QueuePublished \/ StopRemoved
  \/ \E d \in Datasources : Subscribe(d) \/ SubscribeFails(d)
ConsumeSteps(d, s) ==
  \/ \E t \in Readings :
       \/ \E good \in BOOLEAN : PutReading(d, s, t, good)
       \/ ReadingRefused(d, s, t)
  \/ QueueReading(d, s) \/ RemoveSubscription(d, s)
EventSteps ==
  \/ TakeEvent \/ NextTrigger \/ EvaluationRefused \/ EventsDone
  \/ \E c \in Calculated : Evaluate(c)

Next ==
  \/ Start \/ ReconcileSteps \/ EventSteps
  \/ \E d \in Datasources, s \in Slots :
       ConsumeSteps(d, s) \/ Receive(d, s) \/ StreamClosed(d, s)
  \/ ReconcilerExits \/ Stop \/ StopReturns \/ ShutDown
  \/ \E t \in Edited : Toggle(t)
  \/ \E k \in ConstantTags : Configure(k)
  \/ Rest

(* What the bounds let happen only finitely often.                         *)
Work ==
  \/ Start \/ EventSteps
  \/ \E d \in Datasources, s \in Slots : ConsumeSteps(d, s)
  \/ Stop /\ (parentDone \/ started = "failed")
  \/ StopReturns \/ ReconcilerExits

(* The goroutines run on, the ticker ticks, and a process told to stop     *)
(* calls Stop.  No sample needs to arrive.                                 *)
Fairness == WF_vars(Work) /\ WF_vars(ReconcileSteps)

Spec == Init /\ [][Next]_vars
LiveSpec == Spec /\ Fairness

----------------------------------------------------------------------------
(* Properties.                                                             *)

Event == [tag : Tags, good : BOOLEAN]
Samples == 1..MaxSamples
Consumer == [pc : {"free", "select", "put", "queue", "remove"},
             tags : SUBSET Readings, cancelled : BOOLEAN,
             hand : SUBSET Readings, sample : Samples \cup {0},
             ev : Event \cup {NoEvent}]

(* Every variable has its type.                                            *)
TypeOK ==
  /\ db \subseteq Tags /\ config \in [ConstantTags -> Nat]
  /\ parentDone \in BOOLEAN /\ stopped \in BOOLEAN /\ reconciler \in BOOLEAN
  /\ started \in {"new", "reconciling", "yes", "failed"}
  /\ stop \in {"idle", "wait", "done"}
  /\ rec \in [pc : {"idle", "list", "put", "queue", "stop", "subscribe"},
              tags : SUBSET Tags, hand : SUBSET (Readings \cup ConstantTags),
              removed : SUBSET (Datasources \X Slots),
              todo : SUBSET Datasources,
              ev : Event \cup {NoEvent}]
  /\ installed \subseteq Calculated
  /\ constants \in [ConstantTags -> Nat \cup {NoConfig}]
  /\ subs \in [Datasources -> Slots \cup {NoSlot}]
  /\ consumer \in [Datasources -> [Slots -> Consumer]]
  /\ events \in Seq(Event) /\ Len(events) <= QueueSize
  /\ cascade \in [pc : {"off", "select", "run"}, queue : Seq(Event),
                  list : Seq(Calculated), trig : Event \cup {NoEvent},
                  n : 0..(CascadeLimit - 1)]
  /\ value \in [Tags -> [good : BOOLEAN, used : SUBSET Samples]]
  /\ fresh \subseteq Calculated
  /\ left \in [samples : 0..MaxSamples, outside : 0..MaxEvents]

(* The map knows every consumer that has not been told to end, so no       *)
(* datasource has two and none is forgotten, however a closed stream, a    *)
(* reconcile and the end of an older consumer interleave; and the variables *)
(* keep their types.                                                        *)
OneConsumer ==
  /\ TypeOK
  /\ \A d \in Datasources, s \in Slots :
       /\ consumer[d][s].pc # "free" /\ ~Cancelled(d, s)
       /\ <<d, s>> \notin rec.removed
       => subs[d] = s

(* A value of t is on its way to the tags it triggers.                     *)
InTransit(t) ==
  \/ rec.ev.tag = t
  \/ \E d \in Datasources, s \in Slots : consumer[d][s].ev.tag = t
  \/ \E i \in DOMAIN events : events[i].tag = t
  \/ \E i \in DOMAIN cascade.queue : cascade.queue[i].tag = t

(* c was loaded before its last evaluation, no cascade was cut off before  *)
(* it got to c since, and no newer value of the trigger is on its way.     *)
Settled(c) ==
  /\ c \in installed \cap fresh /\ ~InTransit(Trigger[c])
  /\ \A i \in DOMAIN cascade.list : cascade.list[i] # c

Follows(c) ==
  value[c].good /\ Trigger[c] \in Depends[c]
  => /\ value[Trigger[c]].good
     /\ value[Trigger[c]].used \subseteq value[c].used

(* No value of a trigger is lost on the way through the bounded channel: a *)
(* good calculated value whose expression reads its trigger was computed   *)
(* from the newest value of it, which is good as well, unless a value is   *)
(* still on its way or was dropped by a cascade at its limit.              *)
FollowsTrigger == \A c \in Calculated : Settled(c) /\ ~CtxDone => Follows(c)

(* The tag reads its reading trigger, constants, and calculated tags that  *)
(* do so with the same trigger.                                            *)
Direct(c) == Depends[c] \subseteq ConstantTags \cup {Trigger[c]}
OneTrigger(c) ==
  /\ Trigger[c] \in Readings
  /\ \A d \in Depends[c] :
       \/ d \in ConstantTags \cup {Trigger[c]}
       \/ /\ d \in Calculated /\ Trigger[d] = Trigger[c]
          /\ Direct(d)

(* Calculated tags with one trigger are evaluated in the order of their    *)
(* dependencies: a good value never mixes two samples of the trigger.      *)
NoMixedSamples ==
  \A c \in Calculated :
    /\ OneTrigger(c) /\ Settled(c) /\ ~CtxDone /\ value[c].good
    /\ \A d \in Depends[c] \cap Calculated : Settled(d)
    => \A m, n \in value[c].used : m = n

(* Once Stop has returned no goroutine of the runtime is left, so nothing  *)
(* is put into a store that main stops next.                               *)
StoppedForGood ==
  stop = "done" =>
    /\ ~reconciler /\ rec.pc = "idle" /\ cascade.pc = "off"
    /\ \A d \in Datasources, s \in Slots : consumer[d][s].pc = "free"

(* With the database at rest every datasource with an enabled reading tag  *)
(* is subscribed, with those tags, and no other, again and again.          *)
Converged ==
  \A d \in Datasources :
    IF Wanted(d, db) = {} THEN subs[d] = NoSlot
    ELSE /\ subs[d] # NoSlot
         /\ consumer[d][subs[d]].pc # "free"
         /\ consumer[d][subs[d]].tags = Wanted(d, db)
Converges == []<>(Converged \/ CtxDone \/ started = "failed")

(* The calculated tags catch up with their triggers: the bounded channel   *)
(* and the cascade never block each other.                                 *)
Propagates ==
  []<>(CtxDone \/ \A c \in installed \cap fresh : Follows(c))

(* Stop returns once called, also when the channel is full.                *)
StopEnds == stop = "wait" ~> stop = "done"

(* Reconciles reach what the database asks for, and Stop ends them, the    *)
(* consumers and the cascade, for good.                                    *)
Settles == Converges /\ StopEnds /\ []StoppedForGood

=============================================================================
