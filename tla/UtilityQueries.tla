---------------------------- MODULE UtilityQueries ----------------------------
(***************************************************************************)
(* Queries over the persisted history of a logger: an overview of what the *)
(* mapped sources amount to in a period, with the period before it, and a  *)
(* series of it by hours, days or weeks; and the plugin outputs that are   *)
(* made of an overview.                                                    *)
(*                                                                         *)
(* utility/query.go, utility/history/datalogger.go,                        *)
(* utility/outputschema/schema.go.                                         *)
(*                                                                         *)
(* A query reads the history once for every mapping, and the logger may    *)
(* write a batch in between.  Units, texts and the ways to show an answer  *)
(* (ranking, heat map, CSV) are left out.                                  *)
(***************************************************************************)
EXTENDS UtilityAnalytics

CONSTANTS
    Mappings,   \* the mapping keys of the configuration, in their order
    Quantity,   \* what a mapping measures
    Kinds,      \* what a batch may hold: a sample of each mapping, or Absent
    Absent,     \* the batch has no sample of the tag
    Ranges,     \* the periods asked for
    Zones,      \* the time zones: an offset by time
    Buckets,    \* the buckets asked for: "hour", "day", "week"
    Limits,     \* PointLimit
    MaxTime,    \* bound of the time
    MaxQueries  \* bound of the queries

VARIABLES
    time,     \* the clock
    batches,  \* the history of the logger: what a batch holds by its time
    query,    \* the query in progress, or NoQuery
    queries,  \* queries so far
    outputs   \* plugin outputs made of overviews

utilityVars == <<time, batches, query, queries, outputs>>

NoQuery == [kind |-> "none"]

UtilityTypeOK ==
    /\ time \in 0 .. MaxTime /\ DOMAIN batches \subseteq 1 .. MaxTime
    /\ query.kind \in {"none", "overview", "series", "failed"}

UtilityInit ==
    /\ time = 0 /\ batches = <<>>
    /\ query = NoQuery /\ queries = 0 /\ outputs = {}

(***************************************************************************)
(* The history: the batches of a period, with the one before it and the    *)
(* one after it, and of them the samples of a tag.                         *)
(***************************************************************************)
Read(mapping, w) ==
    LET all == DOMAIN batches
        inside == {t \in all : w.from <= t /\ t <= w.to}
        before == {t \in all : t < w.from}
        after == {t \in all : t > w.to}
        near == inside \union {t \in before : \A u \in before : u <= t}
                       \union {t \in after : \A u \in after : t <= u}
    IN  [t \in {u \in near : batches[u][mapping] # Absent} |-> batches[t][mapping]]

(***************************************************************************)
(* The logger, meanwhile.                                                  *)
(***************************************************************************)
Tick ==
    /\ time < MaxTime /\ time' = time + 1
    /\ \/ UNCHANGED batches
       \/ \E kind \in Kinds :
            batches' = [t \in DOMAIN batches \union {time + 1} |->
                          IF t = time + 1 THEN kind ELSE batches[t]]
    /\ UNCHANGED <<query, queries, outputs>>

(***************************************************************************)
(* A query.                                                                *)
(***************************************************************************)
Ask(request) ==
    /\ query = NoQuery /\ queries < MaxQueries /\ queries' = queries + 1
    /\ query' = request @@ [todo |-> Mappings, answer |-> <<>>]
    /\ UNCHANGED <<time, batches, outputs>>

AskOverview ==
    \E range \in Ranges, compare \in BOOLEAN :
        Ask([kind |-> "overview", window |-> Window(range[1], range[2]),
             compare |-> compare])

AskSeries ==
    \E range \in Ranges, bucket \in Buckets, zone \in Zones, limit \in Limits :
        Ask([kind |-> "series", window |-> Window(range[1], range[2]),
             bucket |-> bucket, zone |-> zone, limit |-> limit])

Answered(entry) ==
    query' = [query EXCEPT !.todo = Tail(@), !.answer = Append(@, entry)]

Overview ==
    /\ query.kind = "overview" /\ query.todo # <<>>
    /\ LET mapping == Head(query.todo)
           w == query.window
           samples == Read(mapping, IF query.compare THEN Window(Previous(w).from, w.to) ELSE w)
           metric == Integrate(samples, w)
           before == Integrate(samples, Previous(w))
       IN  Answered([mapping |-> mapping, metric |-> metric, readAt |-> time,
                     value |-> periodValue(Quantity[mapping], metric),
                     previous |-> IF query.compare
                                  THEN periodValue(Quantity[mapping], before) ELSE <<0, 1>>])
    /\ UNCHANGED <<time, batches, queries, outputs>>

Series ==
    /\ query.kind = "series" /\ query.todo # <<>>
    /\ LET mapping == Head(query.todo)
           metrics == BucketIntegrals(Read(mapping, query.window), query.window,
                                      query.bucket, query.zone)
           points == [i \in DOMAIN metrics |->
                        [metric |-> metrics[i],
                         value |-> periodValue(Quantity[mapping], metrics[i])]]
       IN  Answered([mapping |-> mapping, readAt |-> time,
                     points |-> boundSeries(points, query.limit)])
    /\ UNCHANGED <<time, batches, queries, outputs>>

(* The source of the next mapping is not bound to its asset any more, or the *)
(* database fails: so does the query                                         *)
ReadFails ==
    /\ query.kind \in {"overview", "series"}
    /\ query.todo # <<>>
    /\ query' = [kind |-> "failed"]
    /\ UNCHANGED <<time, batches, queries, outputs>>

(* The answer is taken, or the error; an overview of a period that is over  *)
(* may become plugin outputs.                                               *)
Value(entry) ==
    LET quality == Quality(entry.metric.covered, Duration(query.window))
    IN  [mapping |-> entry.mapping, window |-> query.window, quality |-> quality,
         value |-> IF quality = "bad" THEN Absent ELSE entry.value]

Take ==
    /\ \/ query.kind = "failed" /\ UNCHANGED outputs
       \/ /\ query.kind \in {"overview", "series"} /\ query.todo = <<>>
          /\ \/ UNCHANGED outputs
             \/ /\ query.kind = "overview" /\ query.window.to <= time
                /\ outputs' = outputs \union {Value(e) : e \in Range(query.answer)}
    /\ query' = NoQuery
    /\ UNCHANGED <<time, batches, queries>>

UtilityNext ==
    \/ Tick
    \/ AskOverview
    \/ AskSeries
    \/ Overview
    \/ Series
    \/ ReadFails
    \/ Take

UtilitySpec == UtilityInit /\ [][UtilityNext]_utilityVars

(***************************************************************************)
(* Properties.                                                             *)
(***************************************************************************)
(* All samples of a source that were persisted by a time *)
Persisted(mapping, upTo) ==
    [t \in {u \in DOMAIN batches : u <= upTo /\ batches[u][mapping] # Absent} |->
        batches[t][mapping]]
(* No batch lacks the tag *)
Complete(mapping) == \A t \in DOMAIN batches : batches[t][mapping] # Absent

(* A metric is the area under the samples, hour by hour, of all hours that  *)
(* the history covers; if batches lack the tag (it was not always selected) *)
(* the hours at the two ends may be missing, but no other is there.         *)
Exact(mapping, metric, readAt) ==
    LET samples == Persisted(mapping, readAt)
        hours == CoveredHours(samples, metric)
    IN  /\ metric.covered <= Cardinality(hours)
        /\ metric.covered = Cardinality(hours) => metric.integral = Area(samples, hours)
        /\ Complete(mapping) => metric.covered = Cardinality(hours)

EqualFractions(a, b) == a[1] * b[2] = b[1] * a[2]

(* query.go, Overview: every metric is that of the history at the time it   *)
(* was read, and so is that of the period before it.                        *)
OverviewExact ==
    query.kind = "overview" =>
        \A e \in Range(query.answer) :
            /\ Exact(e.mapping, e.metric, e.readAt)
            /\ query.compare /\ Complete(e.mapping) =>
                 LET samples == Persisted(e.mapping, e.readAt)
                     hours == CoveredHours(samples, Previous(query.window))
                     area == Area(samples, hours)
                 IN  EqualFractions(e.previous,
                        IF Quantity[e.mapping] = "power" THEN <<area, 1>>
                        ELSE IF hours = {} THEN <<0, 1>>
                        ELSE <<area, Cardinality(hours)>>)

(* The times at which a zone shows a local time: two or none at a change *)
Showing(zone, local) == {t \in DOMAIN zone : Local(zone, t) = local}
ChangesAtMidnight(zone) ==
    \E day \in -1 .. MaxTime : Cardinality(Showing(zone, day * DayLength)) # 1

(* query.go, Series and engine.go, Windows: the points follow one another   *)
(* from the start of the period to its end, no hour is in two of them, none *)
(* is left out unless the points were bounded, each is exact, and each is   *)
(* of one local day or week.  Excepted is a period that begins in an hour,  *)
(* day or week whose first hour is shown twice: its first window may begin  *)
(* an hour late; and a zone that changes at midnight, whose days may begin  *)
(* an hour late from then on.                                               *)
SeriesTiles ==
    query.kind = "series" =>
        \A e \in Range(query.answer) :
            LET p == e.points
                n == Len(p)
                whole == n < query.limit
            IN  /\ n \in 1 .. query.limit
                /\ \A i \in 1 .. n : Exact(e.mapping, p[i].metric, e.readAt)
                /\ \A i \in 1 .. n - 1 : /\ p[i].metric.to <= p[i + 1].metric.from
                                         /\ whole => p[i].metric.to = p[i + 1].metric.from
                /\ p[n].metric.to = query.window.to
                /\ \/ p[1].metric.from = query.window.from
                   \/ LET start == StartOf(query.zone, query.bucket, query.window.from)
                      IN  Cardinality(Showing(query.zone, Local(query.zone, start))) = 2
                /\ query.bucket # "hour" /\ ~ChangesAtMidnight(query.zone) =>
                     \A i \in 1 .. n :
                         Cardinality({Local(query.zone, h) \div (Days(query.bucket) * DayLength) :
                                        h \in HoursOf(p[i].metric)}) = 1

(* schema.go, Value: an output is good exactly when the history covers each *)
(* hour of its period, and then stays so; without coverage it has no value. *)
UtilityOutputsCovered ==
    \A o \in outputs :
        LET hours == CoveredHours(Persisted(o.mapping, MaxTime), o.window)
        IN  /\ o.quality = "good" => hours = HoursOf(o.window)
            /\ o.quality = "bad" <=> o.value = Absent
=============================================================================
