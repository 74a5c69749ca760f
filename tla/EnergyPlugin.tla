----------------------------- MODULE EnergyPlugin -----------------------------
(***************************************************************************)
(* An instance of the energy plugin on top of the history of its logger:   *)
(* the runtime that subscribes to the committed batches and counts each of *)
(* them, the periods it integrates, the row of its latest outputs, and the *)
(* live hub that dashboards follow with a cursor.                          *)
(*                                                                         *)
(* plugin/energy/runtime.go, outputs.go, calculator.go and live.go,        *)
(* SubscribeLive of energy/service.go, plugin/output_store.go and          *)
(* plugin/postgres/output_repository.go.                                   *)
(*                                                                         *)
(* Power is one, so the energy of a period is the time it covers.  The     *)
(* month starts at time 0, before every batch; a day may start later.      *)
(***************************************************************************)
EXTENDS LoggerHistory

CONSTANTS
    DayStarts,     \* times at which a local day starts
    MaxGap,        \* the longest gap between two samples that is integrated
    HistoryLimit,  \* events a stream keeps for replay
    LiveBuffer,    \* capacity of a live subscriber
    MaxRestarts    \* bound of the restarts and failures of the runtime,
                   \* and of the crashes before them

EnergyAssumption ==
    /\ DayStarts \subseteq Nat /\ 0 \in DayStarts
    /\ MaxGap \in Nat \ {0} /\ HistoryLimit \in Nat \ {0}
    /\ LiveBuffer \in Nat \ {0} /\ MaxRestarts \in Nat

VARIABLES
    runtime,   \* the runtime: its step, the batch in hand, its latest
    builder,   \* what it has integrated
    outputs,   \* the row of plugin_output_latest
    hub,       \* the live stream of the instance
    viewer,    \* a dashboard and its subscription
    restarts   \* restarts so far

energyVars == <<runtime, builder, outputs, hub, viewer, restarts>>
pipelineVars == <<historyVars, energyVars>>

NewBuilder == [hydrated |-> FALSE, last |-> 0, today |-> 0, todayFrom |-> 0,
               todayTo |-> 0, month |-> 0, monthTo |-> 0]
NewStream(g) == [gen |-> g, next |-> 0, at |-> 0, events |-> <<>>]
NoEvent == [gen |-> 0, seq |-> 0]

Away(cursor) == [step |-> "away", open |-> FALSE, gen |-> 0, reset |-> FALSE,
                 batch |-> 0, seen |-> cursor, replay |-> <<>>, queue |-> <<>>]
Stopped(step) == [step |-> step, batch |-> 0, latest |-> 0]

EnergyInit ==
    /\ runtime = Stopped("off")
    /\ builder = NewBuilder
    /\ outputs = [seq |-> 0, at |-> 0]
    /\ hub = NewStream(1)
    /\ viewer = Away(NoEvent)
    /\ restarts = 0

EnergyTypeOK ==
    /\ runtime.step \in {"off", "subscribed", "reading", "loop", "observing",
                         "building", "announcing", "failed"}
    /\ runtime.latest \in 0 .. MaxTime
    /\ outputs.at \in 0 .. MaxTime /\ outputs.seq \in Nat
    /\ viewer.step \in {"away", "read", "published", "on"}
    /\ Len(hub.events) <= HistoryLimit /\ Len(viewer.queue) <= LiveBuffer

-----------------------------------------------------------------------------
(* Integration.                                                             *)

Later(a, b) == IF a > b THEN a ELSE b
Earlier(a, b) == IF a < b THEN a ELSE b

(* The time between from and to that two neighbouring samples cover.        *)
Covered(left, right, from, to) ==
    LET length == Earlier(to, right) - Later(from, left)
    IN  IF length > 0 /\ right - left <= MaxGap THEN length ELSE 0

(* Integrate over every pair of neighbours of a set of samples.             *)
Integrate(S, from, to) ==
    MapThenSumSet(LAMBDA l :
        LET after == {r \in S : r > l}
        IN  IF after = {} THEN 0 ELSE Covered(l, Min(after), from, to), S)

DayOf(at) == Max({d \in DayStarts : d <= at})

-----------------------------------------------------------------------------
(* The live hub.                                                            *)

LastOf(n, s) == SubSeq(s, Later(1, Len(s) - n + 1), Len(s))

(* Publish drops a batch that is not newer than the stream, gives the next  *)
(* number to any other and hands it to the subscriber, which is closed if   *)
(* its buffer is full.                                                      *)
Publish(at) ==
    IF at <= hub.at THEN UNCHANGED hub
    ELSE hub' = [hub EXCEPT !.next = @ + 1, !.at = at,
                   !.events = LastOf(HistoryLimit,
                                     Append(@, [seq |-> hub.next + 1, at |-> at]))]

Deliver(v) ==
    CASE hub' = hub \/ ~v.open -> v
      [] hub' # hub /\ v.open /\ Len(v.queue) < LiveBuffer ->
            [v EXCEPT !.queue = Append(@, hub'.next)]
      [] OTHER -> [v EXCEPT !.open = FALSE]

(* Faulty variant: a cursor older than the events kept is not noticed.      *)
ReplayWithoutReset(cursor) ==
    LET newest == IF hub.events = <<>> THEN <<>> ELSE <<hub.next>>
        after == SelectSeq(hub.events, LAMBDA e : e.seq > cursor.seq)
    IN  CASE cursor = NoEvent -> [reset |-> FALSE, events |-> newest]
          [] cursor # NoEvent /\ (cursor.gen # hub.gen \/ cursor.seq > hub.next) ->
                [reset |-> TRUE, events |-> newest]
          [] OTHER -> [reset |-> FALSE,
                       events |-> [i \in DOMAIN after |-> after[i].seq]]

(* What Subscribe replays to a dashboard that has seen a cursor, and        *)
(* whether it must forget what it has.                                      *)
Replay(cursor) ==
    LET newest == IF hub.events = <<>> THEN <<>> ELSE <<hub.next>>
        after == SelectSeq(hub.events, LAMBDA e : e.seq > cursor.seq)
    IN  CASE cursor = NoEvent -> [reset |-> FALSE, events |-> newest]
          [] cursor # NoEvent /\ (cursor.gen # hub.gen \/ cursor.seq > hub.next) ->
                [reset |-> TRUE, events |-> newest]
          [] cursor # NoEvent /\ cursor.gen = hub.gen /\ hub.events # <<>>
             /\ cursor.seq < hub.events[1].seq - 1 ->
                [reset |-> TRUE, events |-> newest]
          [] OTHER -> [reset |-> FALSE,
                       events |-> [i \in DOMAIN after |-> after[i].seq]]

(* Reset closes the subscribers and forgets the stream.                     *)
ResetHub ==
    /\ hub' = NewStream(hub.gen + 1)
    /\ viewer' = [viewer EXCEPT !.open = FALSE]

-----------------------------------------------------------------------------
(* The runtime.                                                             *)

(* A new runtime resets the hub; Run subscribes before anything else.       *)
StartRuntime ==
    /\ runtime.step = "off"
    /\ runtime' = Stopped("subscribed") /\ UNCHANGED builder
    /\ sub' = [open |-> TRUE, lagged |-> FALSE, queue |-> <<>>]
    /\ ResetHub
    /\ UNCHANGED <<history, outputs, restarts>>

(* LatestBatch reads the newest batch of the accounting and then its rows.  *)
ReadLatest ==
    /\ runtime.step = "subscribed"
    /\ runtime' = IF DOMAIN accounts = {} THEN [runtime EXCEPT !.step = "loop"]
                  ELSE [runtime EXCEPT !.step = "reading",
                                       !.batch = Max(DOMAIN accounts)]
    /\ UNCHANGED <<historyVars, builder, outputs, hub, viewer, restarts>>

(* Faulty variant: the subscription is made only when the rows are read.    *)
ReadThenSubscribe ==
    /\ runtime.step = "reading"
    /\ runtime' = [runtime EXCEPT !.step = "observing"]
    /\ sub' = [open |-> TRUE, lagged |-> FALSE, queue |-> <<>>]
    /\ UNCHANGED <<history, builder, outputs, hub, viewer, restarts>>

ReadLatestRows ==
    /\ runtime.step = "reading"
    /\ runtime' = IF RowsAt(runtime.batch) = {}
                  THEN [runtime EXCEPT !.step = "loop", !.batch = 0]
                  ELSE [runtime EXCEPT !.step = "observing"]
    /\ UNCHANGED <<historyVars, builder, outputs, hub, viewer, restarts>>

TakeBatch ==
    /\ runtime.step = "loop" /\ sub.queue # <<>>
    /\ runtime' = [runtime EXCEPT !.step = "observing", !.batch = Head(sub.queue)]
    /\ sub' = [sub EXCEPT !.queue = Tail(@)]
    /\ UNCHANGED <<history, builder, outputs, hub, viewer, restarts>>

(* The subscription is closed and drained: Run returns its error.           *)
FeedEnds ==
    /\ runtime.step = "loop" /\ sub.queue = <<>> /\ ~sub.open
    /\ runtime' = Stopped("failed") /\ builder' = NewBuilder
    /\ UNCHANGED <<historyVars, outputs, hub, viewer, restarts>>

(* A batch that is not newer than the latest is discarded.                  *)
Observe ==
    /\ runtime.step = "observing"
    /\ runtime' = IF runtime.latest < runtime.batch
                  THEN [runtime EXCEPT !.step = "building", !.latest = runtime.batch]
                  ELSE [runtime EXCEPT !.step = "loop", !.batch = 0]
    /\ UNCHANGED <<historyVars, builder, outputs, hub, viewer, restarts>>

(* The first batch is hydrated from the history, up to that batch; a later  *)
(* one extends the periods by the segment since the last one.               *)
Hydrate(b) ==
    LET batches == BatchesBetween(0, b, TRUE)
    IN  [hydrated |-> TRUE, last |-> b,
         today |-> Integrate(batches, DayOf(b), b),
         todayFrom |-> DayOf(b), todayTo |-> b,
         month |-> Integrate(batches, 0, b), monthTo |-> b]

Extend(b) ==
    LET rolled == DayOf(b) # builder.todayFrom
        from == IF rolled THEN DayOf(b) ELSE builder.todayTo
        today == IF rolled THEN 0 ELSE builder.today
    IN  [builder EXCEPT
            !.last = b, !.todayFrom = DayOf(b), !.todayTo = b, !.monthTo = b,
            !.today = today + Covered(builder.last, b, from, b),
            !.month = @ + Covered(builder.last, b, builder.monthTo, b)]

(* The upsert of the latest outputs accepts a newer batch only.             *)
StoreLatest(b) ==
    outputs' = IF outputs.at < b THEN [seq |-> outputs.seq + 1, at |-> b]
               ELSE outputs

(* Build is not ready at the very start of a day, and then touches nothing. *)
Build ==
    /\ runtime.step = "building"
    /\ LET b == runtime.batch IN
       IF DayOf(b) = b
       THEN UNCHANGED <<builder, outputs>>
       ELSE /\ builder' = IF builder.hydrated THEN Extend(b) ELSE Hydrate(b)
            /\ StoreLatest(b)
    /\ runtime' = [runtime EXCEPT !.step = "announcing"]
    /\ UNCHANGED <<historyVars, hub, viewer, restarts>>

(* A read of the history or the write of the outputs fails: the runtime     *)
(* ends, and nothing but an operator starts it again.                       *)
BuildFails ==
    /\ runtime.step = "building" /\ restarts + crashes < MaxRestarts
    /\ runtime' = Stopped("failed") /\ builder' = NewBuilder
    /\ UNCHANGED <<historyVars, outputs, hub, viewer, restarts>>

Announce ==
    /\ runtime.step = "announcing"
    /\ Publish(runtime.batch)
    /\ viewer' = Deliver(viewer)
    /\ runtime' = [runtime EXCEPT !.step = "loop", !.batch = 0]
    /\ UNCHANGED <<historyVars, builder, outputs, restarts>>

(* An operator restarts the instance, at any of its steps.                  *)
Restart ==
    /\ runtime.step # "off" /\ restarts + crashes < MaxRestarts
    /\ restarts' = restarts + 1
    /\ runtime' = Stopped("off") /\ builder' = NewBuilder
    /\ sub' = [open |-> FALSE, lagged |-> FALSE, queue |-> <<>>]
    /\ UNCHANGED <<history, outputs, hub, viewer>>

-----------------------------------------------------------------------------
(* A dashboard.  SubscribeLive reads the latest batch, publishes it to the  *)
(* hub itself, and subscribes.                                              *)

LiveRead ==
    /\ viewer.step = "away"
    /\ LET known == {a \in DOMAIN accounts : RowsAt(a) # {}} IN
       viewer' = [viewer EXCEPT !.step = "read", !.batch = IF known = {} THEN 0 ELSE Max(known)]
    /\ UNCHANGED <<historyVars, runtime, builder, outputs, hub, restarts>>

LivePublish ==
    /\ viewer.step = "read"
    /\ Publish(viewer.batch)
    /\ viewer' = [viewer EXCEPT !.step = "published", !.batch = 0]
    /\ UNCHANGED <<historyVars, runtime, builder, outputs, restarts>>

LiveSubscribe ==
    /\ viewer.step = "published"
    /\ viewer' = [viewer EXCEPT !.step = "on", !.open = TRUE,
                     !.gen = hub.gen,
                     !.reset = Replay(viewer.seen).reset,
                     !.replay = Replay(viewer.seen).events]
    /\ UNCHANGED <<historyVars, runtime, builder, outputs, hub, restarts>>

(* The dashboard takes the replay first and the stream after it.            *)
LiveReceive ==
    /\ viewer.step = "on"
    /\ \/ /\ viewer.replay # <<>>
          /\ viewer' = [viewer EXCEPT !.replay = Tail(@), !.reset = FALSE,
                           !.seen = [gen |-> viewer.gen, seq |-> Head(viewer.replay)]]
       \/ /\ viewer.replay = <<>> /\ viewer.queue # <<>>
          /\ viewer' = [viewer EXCEPT !.queue = Tail(@),
                           !.seen = [gen |-> viewer.gen, seq |-> Head(viewer.queue)]]
    /\ UNCHANGED <<historyVars, runtime, builder, outputs, hub, restarts>>

(* It goes away, or its stream was closed; its cursor remains.              *)
LiveLeave ==
    /\ viewer.step = "on"
    /\ viewer' = Away(viewer.seen)
    /\ UNCHANGED <<historyVars, runtime, builder, outputs, hub, restarts>>

-----------------------------------------------------------------------------
PipelineCrash ==
    /\ CrashHistory
    /\ sub' = [open |-> FALSE, lagged |-> FALSE, queue |-> <<>>]
    /\ runtime' = Stopped("off") /\ builder' = NewBuilder
    /\ hub' = NewStream(hub.gen + 1)
    /\ viewer' = Away(viewer.seen)
    /\ UNCHANGED <<outputs, restarts>>

RuntimeStep == \/ StartRuntime \/ ReadLatest \/ ReadLatestRows \/ TakeBatch
               \/ FeedEnds \/ Observe \/ Build \/ Announce

ViewerStep == LiveRead \/ LivePublish \/ LiveSubscribe \/ LiveReceive \/ LiveLeave

PipelineNext ==
    \/ (Capturing \/ Tick) /\ UNCHANGED energyVars
    \/ RuntimeStep \/ BuildFails \/ Restart
    \/ ViewerStep
    \/ PipelineCrash

PipelineInit ==
    /\ HistoryInit /\ EnergyInit
    /\ sub = [open |-> FALSE, lagged |-> FALSE, queue |-> <<>>]

(* The goroutines of the runtime and of the capture go on; nobody has to    *)
(* restart an instance, to look at a dashboard, or to break anything.       *)
PipelineFairness ==
    /\ WF_pipelineVars(RuntimeStep)
    /\ WF_pipelineVars(PublishCommittedBatch /\ UNCHANGED energyVars)

PipelineSpec == PipelineInit /\ [][PipelineNext]_pipelineVars /\ PipelineFairness

-----------------------------------------------------------------------------
(* Properties.                                                              *)

(* The newest batch of the history is counted by the runtime, whether it    *)
(* came as the latest one read at the start or by the subscription, through *)
(* crashes between commit and publication and restarts at any step; unless  *)
(* the runtime failed, since nothing starts a failed one again.             *)
Behind ==
    /\ runtime.step # "failed"
    /\ \E b \in DOMAIN accounts : RowsAt(b) # {} /\ runtime.latest < b

NewestCounted == Behind ~> ~Behind

(* The row of the latest outputs only ever moves on to a newer batch, one   *)
(* sequence number at a time, also when a restarted runtime builds a batch  *)
(* again (upsertLatestOutput).                                              *)
OutputForward ==
    outputs' # outputs => /\ outputs'.seq = outputs.seq + 1
                          /\ outputs'.at > outputs.at

(* A dashboard that is still subscribed has before it, in its replay and    *)
(* its channel, every event since the last one it saw, or was told to       *)
(* forget what it has; no event repeats a batch.                            *)
LiveContiguous ==
    LET ahead == viewer.replay \o viewer.queue
        last == IF ahead = <<>> THEN viewer.seen.seq ELSE ahead[Len(ahead)]
    IN  /\ EnergyTypeOK
        /\ \A i, j \in DOMAIN hub.events :
              i < j => hub.events[i].at < hub.events[j].at
        /\ viewer.open =>
             /\ viewer.gen = hub.gen
             /\ \A i \in 1 .. Len(ahead) - 1 : ahead[i + 1] = ahead[i] + 1
             /\ ahead # <<>> => last = hub.next
             /\ (viewer.seen.gen = hub.gen /\ ~viewer.reset) =>
                  /\ last = hub.next
                  /\ ahead # <<>> => ahead[1] = viewer.seen.seq + 1

(* What the history says of the periods of the last batch built.            *)
Stored == {a \in DOMAIN accounts : a <= builder.last}
MonthOfHistory == Integrate(Stored, 0, builder.last)
TodayOfHistory == Integrate(Stored, builder.todayFrom, builder.last)

(* While no batch falls on the start of a day, the periods the runtime      *)
(* extends batch by batch are the ones the history gives, the ones a        *)
(* runtime started now would hydrate (Build, hydrate, Extend).              *)
PeriodsExact ==
    (builder.hydrated /\ DayStarts \cap DOMAIN accounts = {}) =>
        builder.month = MonthOfHistory /\ builder.today = TodayOfHistory

(* "Integrated electrical input since local day start", whenever batches    *)
(* are captured (the descriptions of the outputs, outputs.go).  It does not *)
(* hold when a batch is captured exactly at the start of a day: extend      *)
(* drops the segment that ends there.                                       *)
PeriodsComplete ==
    builder.hydrated =>
        builder.month = MonthOfHistory /\ builder.today = TodayOfHistory
=============================================================================
