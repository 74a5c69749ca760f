--------------------------- MODULE UtilityAnalytics ---------------------------
(***************************************************************************)
(* What the utility analytics compute of the samples of a source: the      *)
(* integral over a window, the windows of a calendar, a bounded series.    *)
(*                                                                         *)
(* utility/analytics/engine.go and the helpers of utility/query.go.        *)
(*                                                                         *)
(* Samples are a function from times to values, so that no time comes      *)
(* twice.  The unit of time is an hour.  Values are whole numbers; what is *)
(* interpolated is multiplied by Scale, which every span that counts       *)
(* divides, so that nothing is rounded.                                    *)
(***************************************************************************)
EXTENDS Integers, FiniteSetsExt, SequencesExt

CONSTANTS
    MaxGap,     \* the longest span between two samples that is integrated
    Scale,      \* a multiple of 2 * s for every span s up to MaxGap
    DayLength   \* hours of a day (24)

AnalyticsAssumption ==
    /\ MaxGap \in Nat \ {0} /\ DayLength \in Nat \ {0}
    /\ \A s \in 1 .. MaxGap : Scale % (2 * s) = 0

Window(from, to) == [from |-> from, to |-> to]
Duration(w) == w.to - w.from
later(a, b) == IF a > b THEN a ELSE b
earlier(a, b) == IF a < b THEN a ELSE b

(***************************************************************************)
(* Neighbouring samples, and what of them lies in a window.                *)
(***************************************************************************)
Neighbours(S) == {<<l, r>> \in S \X S : l < r /\ \A t \in S : ~(l < t /\ t < r)}
Clip(p, w) == Window(later(w.from, p[1]), earlier(w.to, p[2]))
Segments(samples, w) ==
    {p \in Neighbours(DOMAIN samples) : Clip(p, w).from < Clip(p, w).to}
Counted(samples, w) ==
    {p \in Segments(samples, w) :
        p[2] - p[1] <= MaxGap /\ samples[p[1]].good /\ samples[p[2]].good}

(* The value at a time between two samples, times Scale *)
interpolate(samples, p, at) ==
    LET left == samples[p[1]].value
        right == samples[p[2]].value
    IN  left * Scale + ((right - left) * (at - p[1]) * Scale) \div (p[2] - p[1])

Metric(w, integral, covered, segments, skipped) ==
    [from |-> w.from, to |-> w.to, integral |-> integral, covered |-> covered,
     segments |-> segments, skipped |-> skipped]

Integrate(samples, w) ==
    LET counted == Counted(samples, w)
        Area(p) == LET c == Clip(p, w)
                   IN  ((interpolate(samples, p, c.from) + interpolate(samples, p, c.to))
                            * Duration(c)) \div 2
        Length(p) == Duration(Clip(p, w))
        all == Cardinality(Segments(samples, w))
    IN  Metric(w, MapThenSumSet(Area, counted), MapThenSumSet(Length, counted),
               all, all - Cardinality(counted))

Previous(w) == Window(w.from - Duration(w), w.from)

(***************************************************************************)
(* The windows of a calendar.  A zone gives its offset at every time; Date *)
(* is time.Date, which looks the offset up at the local time taken for a   *)
(* time, and once more at the time it then gets.                           *)
(***************************************************************************)
Local(zone, t) == t + zone[t]
Date(zone, local) == local - zone[local - zone[local]]

(* Days of a bucket; those of a bucket start at a multiple of its length *)
Days(bucket) == CASE bucket = "day" -> 1 [] bucket = "week" -> 2
StartOf(zone, bucket, t) ==
    IF bucket = "hour" THEN Date(zone, Local(zone, t))
    ELSE LET length == Days(bucket) * DayLength
         IN  Date(zone, (Local(zone, t) \div length) * length)
NextStart(zone, bucket, cursor) ==
    IF bucket = "hour" THEN cursor + 1
    ELSE Date(zone, Local(zone, cursor) + Days(bucket) * DayLength)

Windows(w, bucket, zone) ==
    LET from[cursor \in DOMAIN zone] ==
          IF cursor >= w.to THEN <<>>
          ELSE LET next == NextStart(zone, bucket, cursor)
                   part == Clip(<<cursor, next>>, w)
               IN  (IF part.from < part.to THEN <<part>> ELSE <<>>) \o from[next]
    IN  from[StartOf(zone, bucket, w.from)]

BucketIntegrals(samples, w, bucket, zone) ==
    LET windows == Windows(w, bucket, zone)
    IN  [i \in DOMAIN windows |-> Integrate(samples, windows[i])]

(* At most limit points: the first, the last, and some between them *)
boundSeries(points, limit) ==
    LET n == Len(points)
    IN  IF n <= limit THEN points
        ELSE <<points[1]>>
             \o [i \in 1 .. limit - 2 |-> points[2 + (i * (n - 2)) \div (limit - 1)]]
             \o <<points[n]>>

(* A power and a flow are integrated, of everything else the average is     *)
(* given; a value is a fraction, and an average of no samples is 0.         *)
periodValue(quantity, metric) ==
    IF quantity \in {"power", "flow_rate"} THEN <<metric.integral, 1>>
    ELSE IF metric.covered = 0 THEN <<0, 1>>
    ELSE <<metric.integral, metric.covered>>

(* outputschema.Value and periodValue of compressedair/outputs.go *)
Quality(covered, duration) ==
    CASE covered = duration -> "good" [] covered = 0 -> "bad" [] OTHER -> "partial"

(***************************************************************************)
(* The same said hour by hour, against which the above is checked.         *)
(***************************************************************************)
HoursOf(w) == w.from .. w.to - 1
SamplesAround(samples, h) ==
    {p \in Neighbours(DOMAIN samples) : p[1] <= h /\ h < p[2]}
CoveredHours(samples, w) ==
    {h \in HoursOf(w) : \E p \in SamplesAround(samples, h) :
        /\ samples[p[1]].good /\ samples[p[2]].good
        /\ Cardinality(p[1] .. p[2] - 1) <= MaxGap}
(* Twice the area of an hour: the values at its two ends *)
HourArea(samples, h) ==
    LET p == CHOOSE q \in SamplesAround(samples, h) : TRUE
        left == samples[p[1]].value * (p[2] - h) + samples[p[2]].value * (h - p[1])
        right == samples[p[1]].value * (p[2] - h - 1) + samples[p[2]].value * (h + 1 - p[1])
    IN  (left + right) * (Scale \div (2 * (p[2] - p[1])))
Area(samples, hours) == MapThenSumSet(LAMBDA h : HourArea(samples, h), hours)
=============================================================================
