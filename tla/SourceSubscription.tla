------------------------- MODULE SourceSubscription -------------------------
(***************************************************************************)
(* A publisher's subscription to its sources (publisher/source_feed.go):   *)
(* tag values come from one MemoryValueStore subscription, plugin outputs  *)
(* from one broker subscription, and one goroutine per upstream merges     *)
(* them into a bounded channel of samples.  Subscribe first opens the      *)
(* upstreams and then loads the current values, so that a value is never   *)
(* lost in between; the cursor of each source drops what comes twice.      *)
(*                                                                         *)
(* A sample is its source and a sequence number; the number 0 is a sample  *)
(* that says the source is unavailable.  One plugin instance stands for    *)
(* all of them: instances share nothing but the merged channel.            *)
(***************************************************************************)
EXTENDS Naturals, Sequences, SequencesExt, FiniteSets

CONSTANTS TagSources,      \* selected tags
          OutputSources,   \* selected outputs of the plugin instance
          EventBuffer,     \* defaultSourceEventBuffer
          UpstreamBuffer,  \* buffer of the tag stream and of the broker
          MaxValues        \* bound: tag values put, and batches stored

ASSUME FeedAssumption ==
  /\ IsFiniteSet(TagSources) /\ IsFiniteSet(OutputSources)
  /\ TagSources \cap OutputSources = {}
  /\ EventBuffer \in Nat /\ UpstreamBuffer \in Nat \ {0} /\ MaxValues \in Nat

Selected == TagSources \cup OutputSources

VARIABLES
  \* upstream
  tagLog,       \* the tags of the values put, in order of their sequence
  tagStream,    \* the channel of the tag subscription
  tagUp,        \* "none", "open" or "closed"
  replayed,     \* the latest value of each tag when it was subscribed
  stored,       \* sequence number of the stored output batch
  announced,    \* of the batch last given to the broker
  batchStream, batchUp,
  loaded,       \* the batch Subscribe read after subscribing
  \* sourceSubscription
  pc,           \* where Subscribe is
  merged,       \* the merged channel
  eventsClosed,
  cursor,       \* seen: a source's last sample, absent if not in DOMAIN
  err, cancelled,
  streams,      \* goroutines in the wait group
  inHand,       \* the received batch and its outputs still to be published
  \* the reader
  got, readerClosed

upVars  == <<tagLog, stored, announced>>
subVars == <<pc, merged, eventsClosed, cursor, err, cancelled, streams, inHand>>
feedVars == <<upVars, tagStream, tagUp, replayed, batchStream, batchUp, loaded,
              subVars, got, readerClosed>>

Sample == [source : Selected, seq : Nat]
TagSeq == Len(tagLog)

LatestOf(t) ==
  LET own == {n \in 1..TagSeq : tagLog[n] = t}
  IN IF own = {} THEN 0 ELSE CHOOSE n \in own : \A m \in own : m <= n

Capacity == EventBuffer + Cardinality(Selected)

FeedTypeOK ==
  /\ tagLog \in Seq(TagSources)
  /\ tagStream \in Seq(Nat) /\ Len(tagStream) <= UpstreamBuffer
  /\ batchStream \in Seq(Nat) /\ Len(batchStream) <= UpstreamBuffer
  /\ tagUp \in {"none", "open", "closed"} /\ batchUp \in {"none", "open", "closed", "lagged"}
  /\ replayed \in [TagSources -> Nat]
  /\ stored \in Nat /\ announced \in Nat /\ loaded \in Nat
  /\ pc \in {"tags", "plugins", "load", "initial", "running", "failed"}
  /\ merged \in Seq(Sample) /\ Len(merged) <= Capacity
  /\ eventsClosed \in BOOLEAN /\ cancelled \in BOOLEAN /\ readerClosed \in BOOLEAN
  /\ DOMAIN cursor \subseteq Selected
  /\ err \in {"none", "lag", "upstream"}
  /\ streams \subseteq {"tag", "plugin"}
  /\ inHand \in [seq : Nat, outputs : SUBSET OutputSources]
  /\ got \in Seq(Sample)

FeedInit ==
  /\ tagLog = <<>> /\ tagStream = <<>> /\ tagUp = "none"
  /\ replayed = [t \in TagSources |-> 0]
  /\ stored = 0 /\ announced = 0 /\ batchStream = <<>> /\ batchUp = "none"
  /\ loaded = 0
  /\ pc = "tags" /\ merged = <<>> /\ eventsClosed = FALSE /\ cursor = <<>>
  /\ err = "none" /\ cancelled = FALSE /\ streams = {}
  /\ inHand = [seq |-> 0, outputs |-> {}]
  /\ got = <<>> /\ readerClosed = FALSE

-----------------------------------------------------------------------------
(* The upstreams, as the tag store and the output broker behave *)

\* MemoryValueStore.Put: a full channel is closed.
PutTag(t) ==
  /\ TagSeq < MaxValues
  /\ tagLog' = Append(tagLog, t)
  /\ IF tagUp # "open" THEN UNCHANGED <<tagStream, tagUp>>
     ELSE IF Len(tagStream) < UpstreamBuffer
          THEN tagStream' = Append(tagStream, TagSeq + 1) /\ UNCHANGED tagUp
          ELSE tagUp' = "closed" /\ UNCHANGED tagStream
  /\ UNCHANGED <<replayed, stored, announced, batchStream, batchUp, loaded,
                 subVars, got, readerClosed>>

\* watchSubscriber unsubscribes when the subscription's context is done.
WatchTags ==
  /\ cancelled /\ tagUp = "open"
  /\ tagUp' = "closed"
  /\ UNCHANGED <<upVars, tagStream, replayed, batchStream, batchUp, loaded,
                 subVars, got, readerClosed>>

\* scopedOutputSink.Publish stores the batch and then hands it to the broker.
\* The plugin has one sink, so at most one stored batch is not announced.
StoreBatch ==
  /\ stored = announced /\ stored < MaxValues
  /\ stored' = stored + 1
  /\ UNCHANGED <<tagLog, tagStream, tagUp, replayed, announced, batchStream,
                 batchUp, loaded, subVars, got, readerClosed>>

AnnounceBatch ==
  /\ announced < stored
  /\ announced' = stored
  /\ IF batchUp # "open" THEN UNCHANGED <<batchStream, batchUp>>
     ELSE IF Len(batchStream) < UpstreamBuffer
          THEN batchStream' = Append(batchStream, stored) /\ UNCHANGED batchUp
          ELSE batchUp' = "lagged" /\ UNCHANGED batchStream
  /\ UNCHANGED <<tagLog, tagStream, tagUp, replayed, stored, loaded, subVars,
                 got, readerClosed>>

-----------------------------------------------------------------------------
(* SourceFeed.Subscribe *)

\* SubscribeValues registers and replays in one critical section.
SubscribeTags ==
  /\ pc = "tags"
  /\ tagUp' = "open"
  /\ replayed' = [t \in TagSources |-> LatestOf(t)]
  /\ pc' = "plugins"
  /\ UNCHANGED <<upVars, tagStream, batchStream, batchUp, loaded, merged,
                 eventsClosed, cursor, err, cancelled, streams, inHand, got, readerClosed>>

SubscribePlugin ==
  /\ pc = "plugins"
  /\ batchUp' = "open"
  /\ pc' = "load"
  /\ UNCHANGED <<upVars, tagStream, tagUp, replayed, batchStream, loaded, merged,
                 eventsClosed, cursor, err, cancelled, streams, inHand, got, readerClosed>>

\* initialSubscriptionSamples reads the latest batch.
LoadLatest ==
  /\ pc = "load"
  /\ loaded' = stored
  /\ pc' = "initial"
  /\ UNCHANGED <<upVars, tagStream, tagUp, replayed, batchStream, batchUp, merged,
                 eventsClosed, cursor, err, cancelled, streams, inHand, got, readerClosed>>

\* closeUpstreams: the context is cancelled, then every closer runs.
CloseUpstreams ==
  /\ cancelled' = TRUE
  /\ tagUp' = IF tagUp = "open" THEN "closed" ELSE tagUp
  /\ batchUp' = IF batchUp = "open" THEN "closed" ELSE batchUp

\* The broker or the repository returns an error.
SubscribeFails ==
  /\ pc \in {"plugins", "load"}
  /\ pc' = "failed"
  /\ CloseUpstreams
  /\ UNCHANGED <<upVars, tagStream, replayed, batchStream, loaded, merged,
                 eventsClosed, cursor, err, streams, inHand, got, readerClosed>>

\* The initial samples fit the buffer, which has one place per source; the
\* cursors are empty, so publish takes every one of them. Then the goroutines
\* start and the subscription is handed to the reader.
PublishInitial ==
  /\ pc = "initial"
  /\ LET first(s) == IF s \in TagSources THEN replayed[s] ELSE loaded
         order == SetToSeq(Selected)   \* the order they are configured in
     IN /\ merged' = [i \in DOMAIN order |-> [source |-> order[i], seq |-> first(order[i])]]
        /\ cursor' = [s \in Selected |-> first(s)]
  /\ streams' = {"tag", "plugin"}
  /\ pc' = "running"
  /\ UNCHANGED <<upVars, tagStream, tagUp, replayed, batchStream, batchUp, loaded,
                 eventsClosed, err, cancelled, inHand, got, readerClosed>>

-----------------------------------------------------------------------------
(* The merging goroutines *)

\* The test of publish against seen. A stream only carries available samples.
Stale(s, n) == s \in DOMAIN cursor /\ cursor[s] # 0 /\ n <= cursor[s]

\* Faulty variant: a sample that finds the buffer full is dropped silently.
publishLossy(s, n) ==
  IF Stale(s, n) \/ Len(merged) >= Capacity
  THEN UNCHANGED <<merged, cursor, err, cancelled, tagUp, batchUp>>
  ELSE /\ merged' = Append(merged, [source |-> s, seq |-> n])
       /\ cursor' = [cursor EXCEPT ![s] = n]
       /\ UNCHANGED <<err, cancelled, tagUp, batchUp>>

\* publish: drop a stale sample, send a new one without blocking, or give up.
publish(s, n) ==
  CASE Stale(s, n) -> UNCHANGED <<merged, cursor, err, cancelled, tagUp, batchUp>>
    [] ~Stale(s, n) /\ Len(merged) < Capacity ->
         /\ merged' = Append(merged, [source |-> s, seq |-> n])
         /\ cursor' = [cursor EXCEPT ![s] = n]
         /\ UNCHANGED <<err, cancelled, tagUp, batchUp>>
    [] OTHER ->
         /\ err' = IF err = "none" THEN "lag" ELSE err
         /\ CloseUpstreams
         /\ UNCHANGED <<merged, cursor>>

\* runTagStream receives a value and publishes it.
TagReceive ==
  /\ "tag" \in streams /\ tagStream # <<>>
  /\ tagStream' = Tail(tagStream)
  /\ publish(tagLog[Head(tagStream)], Head(tagStream))
  /\ UNCHANGED <<upVars, replayed, batchStream, loaded, pc, eventsClosed,
                 streams, inHand, got, readerClosed>>

\* fail: an upstream closed its channel although nobody asked it to.
fail ==
  /\ err' = IF cancelled \/ err # "none" THEN err ELSE "upstream"
  /\ IF cancelled THEN UNCHANGED <<cancelled, tagUp, batchUp>> ELSE CloseUpstreams

\* runTagStream returns: its context is done, or the channel is closed and empty.
TagReturns ==
  /\ "tag" \in streams
  /\ \/ cancelled /\ UNCHANGED <<err, cancelled, tagUp, batchUp>>
     \/ tagUp = "closed" /\ tagStream = <<>> /\ fail
  /\ streams' = streams \ {"tag"}
  /\ UNCHANGED <<upVars, tagStream, replayed, batchStream, loaded, pc, merged,
                 eventsClosed, cursor, inHand, got, readerClosed>>

\* runPluginStream receives a batch and publishes its outputs one by one.
BatchReceive ==
  /\ "plugin" \in streams /\ inHand.outputs = {} /\ batchStream # <<>>
  /\ inHand' = [seq |-> Head(batchStream), outputs |-> OutputSources]
  /\ batchStream' = Tail(batchStream)
  /\ UNCHANGED <<upVars, tagStream, tagUp, replayed, batchUp, loaded,
                 pc, merged, eventsClosed, cursor, err, cancelled, streams, got, readerClosed>>

BatchPublish(s) ==
  /\ s \in inHand.outputs
  /\ publish(s, inHand.seq)
  /\ inHand' = [inHand EXCEPT !.outputs = @ \ {s}]
  /\ UNCHANGED <<upVars, tagStream, replayed, batchStream, loaded, pc, eventsClosed, streams,
                 got, readerClosed>>

BatchReturns ==
  /\ "plugin" \in streams /\ inHand.outputs = {}
  /\ \/ cancelled /\ UNCHANGED <<err, cancelled, tagUp, batchUp>>
     \/ batchUp \in {"closed", "lagged"} /\ batchStream = <<>> /\ fail
  /\ streams' = streams \ {"plugin"}
  /\ UNCHANGED <<upVars, tagStream, replayed, batchStream, loaded, pc, merged,
                 eventsClosed, cursor, inHand, got, readerClosed>>

\* finish waits for the goroutines and closes the merged channel.
finish ==
  /\ pc = "running" /\ streams = {} /\ ~eventsClosed
  /\ CloseUpstreams
  /\ eventsClosed' = TRUE
  /\ UNCHANGED <<upVars, tagStream, replayed, batchStream, loaded, pc, merged,
                 cursor, err, streams, inHand, got, readerClosed>>

-----------------------------------------------------------------------------
(* The reader: a publisher job *)

ReadSample ==
  /\ pc = "running" /\ merged # <<>>
  /\ got' = Append(got, Head(merged))
  /\ merged' = Tail(merged)
  /\ UNCHANGED <<upVars, tagStream, tagUp, replayed, batchStream, batchUp, loaded,
                 pc, eventsClosed, cursor, err, cancelled, streams, inHand, readerClosed>>

CloseSubscription ==
  /\ pc = "running" /\ ~readerClosed
  /\ readerClosed' = TRUE
  /\ CloseUpstreams
  /\ UNCHANGED <<upVars, tagStream, replayed, batchStream, loaded, pc, merged,
                 eventsClosed, cursor, err, streams, inHand, got>>

\* The context given to Subscribe ends; the closers run later, in finish.
SubscriberDone ==
  /\ pc = "running" /\ ~readerClosed
  /\ readerClosed' = TRUE /\ cancelled' = TRUE
  /\ UNCHANGED <<upVars, tagStream, tagUp, replayed, batchStream, batchUp, loaded,
                 pc, merged, eventsClosed, cursor, err, streams, inHand, got>>

FeedNext ==
  \/ \E t \in TagSources : PutTag(t)
  \/ WatchTags \/ StoreBatch \/ AnnounceBatch
  \/ SubscribeTags \/ SubscribePlugin \/ LoadLatest \/ SubscribeFails \/ PublishInitial
  \/ TagReceive \/ TagReturns
  \/ BatchReceive \/ (\E s \in OutputSources : BatchPublish(s)) \/ BatchReturns
  \/ finish \/ ReadSample \/ CloseSubscription \/ SubscriberDone

FeedSpec == FeedInit /\ [][FeedNext]_feedVars

\* The goroutines and the reader run; the upstreams and Close need not.
FeedFairness ==
  /\ WF_feedVars(TagReceive) /\ WF_feedVars(TagReturns)
  /\ WF_feedVars(BatchReceive) /\ WF_feedVars(\E s \in OutputSources : BatchPublish(s))
  /\ WF_feedVars(BatchReturns) /\ WF_feedVars(finish)
  /\ WF_feedVars(ReadSample) /\ WF_feedVars(AnnounceBatch) /\ WF_feedVars(WatchTags)

FeedFairSpec == FeedSpec /\ FeedFairness

-----------------------------------------------------------------------------
(* Properties *)

\* The samples that the reader has or will get, in order.
Samples   == got \o merged
Delivered == ToSet(Samples)

\* Per source the reader never sees an older or equal value again, over the
\* seam between the loaded value and the stream; "unavailable" comes first only.
InOrder ==
  \A i, j \in DOMAIN Samples :
    i < j /\ Samples[i].source = Samples[j].source => Samples[i].seq < Samples[j].seq

\* Sample n of source s is delivered or on its way, or its upstream was closed
\* before it, and then nothing later of the source is delivered either.
Covered(s, n, waiting, closed) ==
  \/ [source |-> s, seq |-> n] \in Delivered
  \/ n \in waiting
  \/ /\ closed
     /\ \A m \in waiting : m < n
     /\ \A d \in Delivered : d.source = s => d.seq < n

\* Until the subscription fails nothing is missing, neither while it stands nor,
\* up to some point, when its reader has closed it: every value put after the
\* tags were subscribed is covered, and so is every batch announced after the
\* latest one was loaded, also when the two ways of a sample overlap.
AtHand(s) == ToSet(batchStream) \cup (IF s \in inHand.outputs THEN {inHand.seq} ELSE {})
NothingMissing ==
  pc = "running" /\ err = "none" =>
    /\ \A n \in 1..TagSeq :
         n > replayed[tagLog[n]] => Covered(tagLog[n], n, ToSet(tagStream), tagUp = "closed")
    /\ \A s \in OutputSources : \A n \in (loaded + 1)..announced :
         Covered(s, n, AtHand(s), batchUp # "open")

\* A stream never just ends: if the reader did not close it, it finds an error.
EndIsExplained == eventsClosed /\ ~readerClosed => err # "none"

\* What the reader of a subscription gets of every source, however putting,
\* announcing, subscribing, merging, failing and closing overlap.
FeedSound == FeedTypeOK /\ InOrder /\ NothingMissing /\ EndIsExplained

\* A subscription that failed or was closed is taken down completely: its
\* channel is closed, and no goroutine is left that would send on it.
Ending   == pc = "running" /\ cancelled
TornDown == eventsClosed /\ streams = {}
Teardown == Ending ~> TornDown

\* While the subscription stands, a reader that keeps reading gets the newest
\* value of every source.
Due(s, n)     == pc = "running" /\ LatestOf(s) = n
Arrived(s, n) == cancelled \/ \E d \in Delivered : d.source = s /\ d.seq >= n
NewestArrives ==
  \A s \in TagSources : \A n \in 1..MaxValues : Due(s, n) ~> Arrived(s, n)
=============================================================================
