-------------------------- MODULE MemoryValueStore --------------------------
(***************************************************************************)
(* The subscriber side of the in-memory tag value store.  Put gives every  *)
(* value the next sequence number, keeps a short history per tag and fans  *)
(* the value out to buffered channels without ever blocking: a slow reader *)
(* made by SubscribeValues is disconnected, one made by Subscribe loses    *)
(* its oldest buffered value.  Every operation runs under store.mu, so it  *)
(* is one action; readers take from their channels at their own pace, also *)
(* between two sends of a Put.                                             *)
(*                                                                         *)
(* A value is its sequence number; tagOf says which tag it belongs to.     *)
(***************************************************************************)
EXTENDS Naturals, Sequences, SequencesExt, FiniteSets

CONSTANTS Tags,
          Subscribers,   \* subscriber identifiers; each is used once
          HistoryLimit,  \* DefaultTagValueHistoryLimit
          TagEventBuffer, \* DefaultTagEventBuffer
          MaxSequence    \* bound: values put

ASSUME StoreBounds ==
  /\ IsFiniteSet(Tags)
  /\ HistoryLimit \in Nat \ {0}
  /\ TagEventBuffer \in Nat \ {0}
  /\ MaxSequence \in Nat

VARIABLES
  tagOf,            \* tagOf[n]: the tag of value n; its length is store.sequence
  latest, recent,  \* MemoryValueStore.latest, .history
  registered,       \* the identifiers in store.subscribers
  filter,           \* valueSubscriber.tagIDs; {} subscribes to every tag
  disconnectOnLag,  \* valueSubscriber.disconnectOnLag
  stream,           \* the buffered channel of a subscriber
  closes,           \* how often the channel was closed
  received,         \* what the reader got: its replay, then its stream
  since, after      \* sequence number at the subscription; its afterSequence

memoryStore == <<tagOf, latest, recent>>
memorySubs  == <<registered, filter, disconnectOnLag, stream, closes, received,
                 since, after>>
memoryVars  == <<memoryStore, memorySubs>>

sequence == Len(tagOf)

Fresh(s) == s \notin registered /\ closes[s] = 0

\* A channel is closed once, and none that Put may still send on is closed
\* (either is a panic): disconnection races unsubscription.
MemoryTypeOK ==
  /\ tagOf \in Seq(Tags)
  /\ latest \in [Tags -> Nat]
  /\ recent \in [Tags -> Seq(Nat)]
  /\ \A t \in Tags : Len(recent[t]) <= HistoryLimit
  /\ registered \subseteq Subscribers
  /\ filter \in [Subscribers -> SUBSET Tags]
  /\ disconnectOnLag \subseteq Subscribers
  /\ stream \in [Subscribers -> Seq(Nat)]
  /\ \A s \in Subscribers :
       Len(stream[s]) <= IF s \in disconnectOnLag THEN TagEventBuffer ELSE HistoryLimit + 1
  /\ closes \in [Subscribers -> {0, 1}]
  /\ \A s \in registered : closes[s] = 0
  /\ received \in [Subscribers -> Seq(Nat)]
  /\ since \in [Subscribers -> Nat]
  /\ after \in [Subscribers -> Nat]

MemoryInit ==
  /\ tagOf = <<>>
  /\ latest = [t \in Tags |-> 0]
  /\ recent = [t \in Tags |-> <<>>]
  /\ registered = {}
  /\ filter = [s \in Subscribers |-> {}]
  /\ disconnectOnLag = {}
  /\ stream = [s \in Subscribers |-> <<>>]
  /\ closes = [s \in Subscribers |-> 0]
  /\ received = [s \in Subscribers |-> <<>>]
  /\ since = [s \in Subscribers |-> 0]
  /\ after = [s \in Subscribers |-> 0]

\* valueSubscriber.matches
MatchesTag(s, t) == filter[s] = {} \/ t \in filter[s]

Room(s) == IF s \in disconnectOnLag THEN TagEventBuffer ELSE HistoryLimit + 1
NoRoom(s)     == Len(stream[s]) >= Room(s)

\* Faulty variant: no subscriber is ever disconnected.
LaggingNever(s) == FALSE

\* The subscribers a full channel disconnects.
Lagging(s) == s \in disconnectOnLag /\ NoRoom(s)

\* offerTagValue, then offerLatestTagValue: the oldest value makes room, also
\* when the reader, which holds no lock, has taken k values since the first send
\* failed.
Offered(s, n, k) ==
  Append(IF NoRoom(s) THEN SubSeq(stream[s], k + 2, Len(stream[s])) ELSE stream[s], n)

\* The last k elements of a sequence, or all of a shorter one.
NewestOf(h, k) == SubSeq(h, IF Len(h) > k THEN Len(h) - k + 1 ELSE 1, Len(h))

\* The truncation of a tag's history.
Limited(h) == NewestOf(h, HistoryLimit)

\* What readers may take while Put sends: none is needed unless a send failed.
Races(targets) ==
  {taken \in [Subscribers -> 0..HistoryLimit + 1] : \A s \in Subscribers :
     IF s \in targets \ disconnectOnLag /\ NoRoom(s)
     THEN taken[s] <= Len(stream[s]) ELSE taken[s] = 0}

Put(t) ==
  LET n       == sequence + 1
      targets == {s \in registered : MatchesTag(s, t)}
      lagging == {s \in targets : Lagging(s)}
  IN /\ sequence < MaxSequence
     /\ tagOf' = Append(tagOf, t)
     /\ latest' = [latest EXCEPT ![t] = n]
     /\ recent' = [recent EXCEPT ![t] = Limited(Append(@, n))]
     /\ \E taken \in Races(targets) :
          /\ stream' = [s \in Subscribers |->
               IF s \in targets \ lagging THEN Offered(s, n, taken[s]) ELSE stream[s]]
          /\ received' = [s \in Subscribers |->
               received[s] \o SubSeq(stream[s], 1, taken[s])]
     /\ registered' = registered \ lagging
     /\ closes' = [s \in Subscribers |->
                     IF s \in lagging THEN closes[s] + 1 ELSE closes[s]]
     /\ UNCHANGED <<filter, disconnectOnLag, since, after>>

\* addSubscriberLocked
AddSubscriber(s, ids) ==
  /\ Fresh(s)
  /\ registered' = registered \cup {s}
  /\ filter' = [filter EXCEPT ![s] = ids]
  /\ since' = [since EXCEPT ![s] = sequence]

\* The orders in which an iteration over a map may give a set of values.
Orders(S) == {order \in [1..Cardinality(S) -> S] : ToSet(order) = S}
Increasing(q) == \A i, j \in DOMAIN q : i < j => q[i] < q[j]

\* Subscribe: the latest value of every tag asked for is offered at once, in
\* the order the map iteration happens to take; the oldest make room.
Subscribe(s, ids) ==
  /\ AddSubscriber(s, ids)
  /\ \E order \in Orders({latest[t] : t \in ids} \ {0}) :
       stream' = [stream EXCEPT ![s] = NewestOf(order, HistoryLimit + 1)]
  /\ UNCHANGED <<memoryStore, disconnectOnLag, closes, received, after>>

\* The latest values after the cursor.
Replay(ids, cursor) ==
  {latest[t] : t \in {u \in Tags : ids = {} \/ u \in ids}} \ 0..cursor

\* SubscribeValues: the replay, oldest first, and the registration are one
\* critical section.
SubscribeValues(s, ids, cursor) ==
  /\ AddSubscriber(s, ids)
  /\ disconnectOnLag' = disconnectOnLag \cup {s}
  /\ after' = [after EXCEPT ![s] = cursor]
  /\ \E replay \in Orders(Replay(ids, cursor)) :
       Increasing(replay) /\ received' = [received EXCEPT ![s] = replay]
  /\ UNCHANGED <<memoryStore, stream, closes>>

\* The reader takes a value; a closed channel still hands out what it holds.
Receive(s) ==
  /\ stream[s] # <<>>
  /\ received' = [received EXCEPT ![s] = Append(@, Head(stream[s]))]
  /\ stream' = [stream EXCEPT ![s] = Tail(@)]
  /\ UNCHANGED <<memoryStore, registered, filter, disconnectOnLag, closes, since, after>>

\* unsubscribe, by the reader or because its context is done: it does nothing
\* to a subscriber that Put has disconnected.
Unsubscribe(s) ==
  /\ s \in registered
  /\ registered' = registered \ {s}
  /\ closes' = [closes EXCEPT ![s] = @ + 1]
  /\ UNCHANGED <<memoryStore, filter, disconnectOnLag, stream, received, since, after>>

MemoryNext ==
  \/ \E t \in Tags : Put(t)
  \/ \E s \in Subscribers, ids \in (SUBSET Tags) \ {{}} : Subscribe(s, ids)
  \/ \E s \in Subscribers, ids \in SUBSET Tags, cursor \in 0..sequence :
       SubscribeValues(s, ids, cursor)
  \/ \E s \in Subscribers : Receive(s)
  \/ \E s \in Subscribers : Unsubscribe(s)

MemorySpec == MemoryInit /\ [][MemoryNext]_memoryVars

-----------------------------------------------------------------------------
(* Properties *)

\* Everything the reader has got or will still get from its channel.
Seen(s) == received[s] \o stream[s]

\* A SubscribeValues reader gets its replay and then exactly the matching values
\* put since, in order and without repetition over the seam of the two, up to
\* the point where its channel is closed. What Subscribe drops for one tag
\* leaves the rest in order too.
NoGap ==
  \A s \in Subscribers :
    /\ s \in disconnectOnLag \/ Cardinality(filter[s]) = 1 => Increasing(Seen(s))
    /\ s \in disconnectOnLag =>
         LET live == {n \in ToSet(Seen(s)) : n > since[s]}
             due  == {n \in since[s] + 1 .. sequence : MatchesTag(s, tagOf[n])}
         IN /\ live \subseteq due
            /\ \A n \in due \ live : s \notin registered /\ \A m \in live : m < n

\* The view a connected reader builds up is current: for each of its tags the
\* latest value is among those it gets, or it had it before (its cursor).
\* Subscribe promises it only for a single tag, as its handler uses it.
ViewCurrent ==
  \A s \in registered : \A t \in Tags :
    /\ MatchesTag(s, t) /\ latest[t] # 0
    /\ s \in disconnectOnLag \/ Cardinality(filter[s]) = 1
    => latest[t] \in ToSet(Seen(s)) \/ latest[t] <= after[s]

\* A reader of values that resumes has neither a gap nor an old view.
ValuesAreWhole == MemoryTypeOK /\ NoGap /\ ViewCurrent

=============================================================================
