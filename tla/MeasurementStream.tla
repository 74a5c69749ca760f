-------------------------- MODULE MeasurementStream --------------------------
(***************************************************************************)
(* The live view of an asset: the page asks for a snapshot of the bound    *)
(* measurements and then for a stream of them.                             *)
(*                                                                         *)
(* asset/http/handler.go, asset/measurement.go, asset/live/reader.go, and  *)
(* of publisher/source_feed.go what they call.                             *)
(*                                                                         *)
(* A stream is a chain: the source feed's channel, the goroutine of the    *)
(* live reader (layer 1), the goroutine of the projector (layer 2) and the *)
(* handler that writes to the browser.  Every link has a channel of its    *)
(* own and is ended by closing a `done` channel.  How the feed fills its   *)
(* channel is the subject of SourceSubscription; here it keeps its promise.*)
(* A sample is its source, its number and whether it is good.              *)
(***************************************************************************)
EXTENDS Naturals, Sequences, SequencesExt

CONSTANTS
    Bound,        \* the sources bound to the asset: tags
    Types,        \* data types a tag may have
    FeedBuffer,   \* defaultSourceEventBuffer plus the sources
    Buffer,       \* of each link (16 plus the sources)
    MaxValues, MaxRetypes,   \* bounds
    Nothing

VARIABLES
    dataType,     \* of each tag, as configured
    latest,       \* its newest value, with the type it was read as
    put, retyped, \* values and changes so far
    page,         \* where the page is
    descriptor,   \* the types resolve found
    shown,        \* the snapshot
    from,         \* the newest values when the stream was opened
    feed, feedOpen, \* the subscription of the source feed
    sent,         \* the channel of each layer
    sentClosed,
    done,         \* the done channel of each layer is closed
    at,           \* what each goroutine does
    closing,      \* the layer it closes, and whether it found it open
    inHand,       \* the sample a layer has to send
    gone,         \* the browser left
    got,          \* what it received
    panicked      \* the process is down

tagVars    == <<dataType, latest, put, retyped>>
pageVars   == <<page, descriptor, shown, from>>
linkVars   == <<sent, sentClosed, done, at, closing, inHand>>
streamVars == <<tagVars, pageVars, feed, feedOpen, linkVars, gone, got, panicked>>

Layers     == 1..2
Handler    == 3
Goroutines == Layers \cup {Handler}
Sample     == [source : Bound, seq : Nat, good : BOOLEAN]
Idle       == [layer |-> 0, open |-> FALSE]

StreamTypeOK ==
    /\ dataType \in [Bound -> Types]
    /\ page \in {"new", "asked", "shown", "asking", "streaming"}
    /\ feed \in Seq(Sample) /\ Len(feed) <= FeedBuffer
    /\ \A i \in Layers : sent[i] \in Seq(Sample) /\ Len(sent[i]) <= Buffer
    /\ \A i \in Layers : inHand[i] = Nothing \/ inHand[i] \in Sample
    /\ got \in Seq(Sample)
    /\ \A p \in Goroutines : at[p] \in {"off", "run", "send", "close", "over"}

StreamInit ==
    /\ dataType \in [Bound -> Types]
    /\ latest = [s \in Bound |-> [seq |-> 0, type |-> dataType[s]]]
    /\ put = 0 /\ retyped = 0
    /\ page = "new" /\ descriptor = dataType
    /\ shown = [s \in Bound |-> 0] /\ from = [s \in Bound |-> 0]
    /\ feed = <<>> /\ feedOpen = FALSE
    /\ sent = [i \in Layers |-> <<>>]
    /\ sentClosed = [i \in Layers |-> FALSE]
    /\ done = [i \in Layers |-> FALSE]
    /\ at = [p \in Goroutines |-> "off"]
    /\ closing = [p \in Goroutines |-> Idle]
    /\ inHand = [i \in Layers |-> Nothing]
    /\ gone = FALSE /\ got = <<>> /\ panicked = FALSE

-----------------------------------------------------------------------------
(* The tags *)

\* sampleForTag: a value read as another type than the descriptor has is bad,
\* and without a value the source is unavailable.
SampleOf(s, value, type) ==
    [source |-> s, seq |-> value.seq, good |-> value.seq > 0 /\ value.type = type]

\* SourceFeed.loadSamples and initialSubscriptionSamples: the newest of each.
Newest == [s \in Bound |-> latest[s].seq]

\* Faulty variant: a full channel loses the sample.
PublishLossy(x) ==
    /\ feed' = IF Len(feed) < FeedBuffer THEN Append(feed, x) ELSE feed
    /\ UNCHANGED feedOpen

\* sourceSubscription.publish: a full channel ends the subscription.
Publish(x) ==
    IF Len(feed) < FeedBuffer THEN feed' = Append(feed, x) /\ UNCHANGED feedOpen
    ELSE feedOpen' = FALSE /\ UNCHANGED feed

\* A value of a tag goes to the feed while it is open.
Emit(s) ==
    /\ put < MaxValues
    /\ put' = put + 1
    /\ latest' = [latest EXCEPT ![s] = [seq |-> @.seq + 1, type |-> dataType[s]]]
    /\ IF ~feedOpen THEN UNCHANGED <<feed, feedOpen>>
       ELSE Publish(SampleOf(s, latest'[s], descriptor[s]))
    /\ UNCHANGED <<dataType, retyped, pageVars, linkVars, gone, got>>

\* tag.Service.Update gives a tag another data type; its value stays.
Retype(s, type) ==
    /\ retyped < MaxRetypes /\ type # dataType[s]
    /\ retyped' = retyped + 1
    /\ dataType' = [dataType EXCEPT ![s] = type]
    /\ UNCHANGED <<latest, put, pageVars, feed, feedOpen, linkVars, gone, got>>

-----------------------------------------------------------------------------
(* The page *)

Resolve ==
    /\ \/ page = "new" /\ page' = "asked"
       \/ page = "shown" /\ page' = "asking"
    /\ descriptor' = dataType
    /\ UNCHANGED <<tagVars, shown, from, feed, feedOpen, linkVars, gone, got>>

\* MeasurementProjector.Snapshot, from the samples of SourceFeed.Snapshot.
Snapshot ==
    /\ page = "asked"
    /\ page' = "shown"
    /\ shown' = Newest
    /\ UNCHANGED <<tagVars, descriptor, from, feed, feedOpen, linkVars, gone, got>>

\* SourceFeed.Subscribe publishes the latest value of every source first.
Subscribe ==
    /\ page = "asking"
    /\ page' = "streaming"
    /\ feedOpen' = TRUE
    /\ feed' = [i \in DOMAIN SetToSeq(Bound) |->
                  LET s == SetToSeq(Bound)[i] IN SampleOf(s, latest[s], descriptor[s])]
    /\ from' = Newest
    /\ at' = [p \in Goroutines |-> "run"]
    /\ UNCHANGED <<tagVars, descriptor, shown, sent, sentClosed, done, closing,
                   inHand, gone, got>>

-----------------------------------------------------------------------------
(* The two forwarding goroutines: live.subscription.run and               *)
(* measurementSubscription.run                                             *)

Source(i)     == IF i = 1 THEN feed ELSE sent[1]
Exhausted(i)  == Source(i) = <<>> /\ (IF i = 1 THEN ~feedOpen ELSE sentClosed[1])

Receive(i) ==
    /\ at[i] = "run" /\ Source(i) # <<>>
    /\ at' = [at EXCEPT ![i] = "send"]
    /\ inHand' = [inHand EXCEPT ![i] = Head(Source(i))]
    /\ IF i = 1 THEN feed' = Tail(feed) /\ UNCHANGED sent
                ELSE sent' = [sent EXCEPT ![1] = Tail(@)] /\ UNCHANGED feed
    /\ UNCHANGED <<tagVars, pageVars, feedOpen, sentClosed, done, closing, gone, got>>

Send(i) ==
    /\ at[i] = "send" /\ Len(sent[i]) < Buffer
    /\ sent' = [sent EXCEPT ![i] = Append(@, inHand[i])]
    /\ at' = [at EXCEPT ![i] = "run"]
    /\ inHand' = [inHand EXCEPT ![i] = Nothing]
    /\ UNCHANGED <<tagVars, pageVars, feed, feedOpen, sentClosed, done, closing, gone, got>>

\* Faulty variant: the send does not watch done.
ReturnWhenIdle(i) ==
    /\ at[i] = "run" /\ (done[i] \/ Exhausted(i))
    /\ at' = [at EXCEPT ![i] = "close"]
    /\ closing' = [closing EXCEPT ![i] = [layer |-> i - 1, open |-> FALSE]]
    /\ UNCHANGED <<tagVars, pageVars, feed, feedOpen, sent, sentClosed, done, inHand, gone, got>>

\* run returns; its deferred call closes what it reads from.
Return(i) ==
    /\ \/ at[i] = "run" /\ (done[i] \/ Exhausted(i))
       \/ at[i] = "send" /\ done[i]
    /\ at' = [at EXCEPT ![i] = "close"]
    /\ closing' = [closing EXCEPT ![i] = [layer |-> i - 1, open |-> FALSE]]
    /\ UNCHANGED <<tagVars, pageVars, feed, feedOpen, sent, sentClosed, done, inHand, gone, got>>

-----------------------------------------------------------------------------
(* Close, by the handler and by the goroutines *)

\* The call returns; a goroutine then closes its channel.
Over(p) ==
    /\ at' = [at EXCEPT ![p] = "over"]
    /\ closing' = [closing EXCEPT ![p] = Idle]
    /\ sentClosed' = [i \in Layers |-> sentClosed[i] \/ i = p]

\* The select of Close: a closed done channel ends the call.
CheckDone(p) ==
    /\ at[p] = "close" /\ closing[p].layer # 0 /\ ~closing[p].open
    /\ IF done[closing[p].layer] THEN Over(p)
       ELSE /\ closing' = [closing EXCEPT ![p].open = TRUE]
            /\ UNCHANGED <<at, sentClosed>>
    /\ UNCHANGED <<tagVars, pageVars, feed, feedOpen, sent, done, inHand, gone, got, panicked>>

\* close(done): the second close of a channel is a panic.
CloseDone(p) ==
    /\ at[p] = "close" /\ closing[p].open
    /\ LET l == closing[p].layer IN
         /\ panicked' = done[l]
         /\ done' = [done EXCEPT ![l] = TRUE]
         /\ closing' = [closing EXCEPT ![p] = [layer |-> l - 1, open |-> FALSE]]
    /\ UNCHANGED <<tagVars, pageVars, feed, feedOpen, sent, sentClosed, at, inHand, gone, got>>

\* sourceSubscription.Close, which does its work once.
CloseFeed(p) ==
    /\ at[p] = "close" /\ closing[p].layer = 0
    /\ feedOpen' = FALSE
    /\ Over(p)
    /\ UNCHANGED <<tagVars, pageVars, feed, sent, done, inHand, gone, got, panicked>>

-----------------------------------------------------------------------------
(* StreamMeasurements *)

Write ==
    /\ at[Handler] = "run" /\ sent[2] # <<>>
    /\ got' = Append(got, Head(sent[2]))
    /\ sent' = [sent EXCEPT ![2] = Tail(@)]
    /\ UNCHANGED <<tagVars, pageVars, feed, feedOpen, sentClosed, done, at, closing, inHand, gone>>

\* The browser is only missed by a write, which the heartbeat forces.
Leave ==
    /\ page = "streaming" /\ ~gone
    /\ gone' = TRUE
    /\ UNCHANGED <<tagVars, pageVars, feed, feedOpen, linkVars, got>>

StreamOver ==
    /\ at[Handler] = "run"
    /\ gone \/ (sent[2] = <<>> /\ sentClosed[2])
    /\ at' = [at EXCEPT ![Handler] = "close"]
    /\ closing' = [closing EXCEPT ![Handler] = [layer |-> 2, open |-> FALSE]]
    /\ UNCHANGED <<tagVars, pageVars, feed, feedOpen, sent, sentClosed, done, inHand, gone, got>>

-----------------------------------------------------------------------------
Forwarding ==
    \E i \in Layers : Receive(i) \/ Send(i) \/ Return(i)

Closing == \E p \in Goroutines : CheckDone(p) \/ CloseDone(p) \/ CloseFeed(p)

StreamNext ==
    /\ ~panicked
    /\ \/ /\ UNCHANGED panicked
          /\ \/ \E s \in Bound : Emit(s) \/ (\E type \in Types : Retype(s, type))
             \/ Resolve \/ Snapshot \/ Subscribe
             \/ Forwarding \/ Write \/ Leave \/ StreamOver
       \/ Closing

StreamSpec == StreamInit /\ [][StreamNext]_streamVars

\* The scheduler runs the goroutines, and the heartbeat the handler.
Works == /\ ~panicked
         /\ \/ UNCHANGED panicked /\ (Forwarding \/ StreamOver \/ Write)
            \/ Closing

StreamFairness == WF_streamVars(Works)

-----------------------------------------------------------------------------
(* Properties *)

\* Everything the browser received and everything still on its way.
Chain ==
    LET hand(i) == IF inHand[i] = Nothing THEN <<>> ELSE <<inHand[i]>>
    IN got \o sent[2] \o hand(2) \o sent[1] \o hand(1) \o feed

\* As long as nobody ended the stream, what the browser has and will get of a
\* source are its values without a gap, from the one it had when the stream was
\* opened, which is no older than the snapshot, to the newest; and a value
\* read as another type than the stream began with is not called good
\* (measurementSubscription.run, live.subscription.run, sampleForTag).
StreamIsWhole ==
    page = "streaming" /\ feedOpen /\ (\A l \in Layers : ~done[l] /\ at[l] # "close") =>
      \A s \in Bound :
        LET values == SelectSeq(Chain, LAMBDA x : x.source = s)
        IN /\ from[s] >= shown[s]
           /\ [i \in DOMAIN values |-> values[i].seq]
                = [i \in 1..(latest[s].seq - from[s] + 1) |-> from[s] + i - 1]
           /\ Last(values).good => latest[s].type = descriptor[s]

\* A browser that left, or a feed that gave up, leaves no goroutine and no
\* subscription behind (the deferred calls of run and of the handler).
StreamEnding == page = "streaming" /\ (gone \/ ~feedOpen)
StreamGone   == panicked \/ (~feedOpen /\ \A p \in Goroutines : at[p] = "over")
StreamTornDown == StreamEnding ~> StreamGone

\* Close may be called again: no done channel is ever closed twice
\* (live.subscription.Close, measurementSubscription.Close).
ClosedOnce == ~panicked
=============================================================================
