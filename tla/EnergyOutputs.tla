---------------------------- MODULE EnergyOutputs ----------------------------
(***************************************************************************)
(* What the energy plugin publishes of its batches: the demand of a batch, *)
(* the energy, the cost and the COP of the day and of the month, each with *)
(* the quality and the issues it claims, and the rules by which the output *)
(* store takes a batch of outputs or refuses all of it.                    *)
(*                                                                         *)
(* plugin/energy/calculator.go and outputs.go, plugin/output.go and        *)
(* plugin/output_store.go.                                                 *)
(*                                                                         *)
(* The runtime takes one batch after the other (EnergyPlugin has its       *)
(* races).  A power is 0 or 1, so energy matters only as positive or not;  *)
(* days and months start at the times that are given.  Texts, tags and     *)
(* attributes are left out: an error or an issue is there or not.          *)
(***************************************************************************)
EXTENDS Integers, FiniteSets, SequencesExt

CONSTANTS
    Kinds,        \* what a batch may hold: [elec, therm, tariff]
    NoPower,      \* the demand of a batch that has a bad or missing sample
    TariffMode,   \* "flat", or "tag" for a rate that is logged
    DayStarts,    \* times at which a local day starts
    MonthStarts,  \* those of them at which a month starts
    MaxGap,       \* the longest gap between two samples that is integrated
    MaxIssues,    \* maxEnergyOutputIssues and maxOutputIssues (64)
    MaxTime,      \* bound of the time
    MaxRestarts   \* bound of the restarts of the runtime

VARIABLES
    time,      \* the time
    batches,   \* the history of the logger: the kind of a batch by its time
    builder,   \* outputBuilder
    outputs,   \* the values last built and the clock at their publication
    row,       \* the time of the outputs in plugin_output_latest
    pending,   \* the batch that the runtime has taken
    running,   \* Run has not returned an error
    restarts   \* restarts so far

outputVars == <<time, batches, pending, builder, outputs, row, running, restarts>>

OutputsAssumption ==
    /\ \A k \in Kinds : k.elec \in {0, 1, NoPower} /\ k.therm \in {0, 1, NoPower}
    /\ TariffMode \in {"flat", "tag"} /\ 0 \in MonthStarts /\ MonthStarts \subseteq DayStarts
    /\ MaxGap \in Nat \ {0} /\ MaxIssues \in Nat \ {0} /\ MaxTime \in Nat

NoMetric == [covered |-> 0, positive |-> FALSE, issues |-> <<>>]
Period(from) == [from |-> from, to |-> from, elec |-> NoMetric,
                 therm |-> NoMetric, costInvalid |-> FALSE]
NewBuilder == [hydrated |-> FALSE, last |-> 0, today |-> Period(0),
               month |-> Period(0)]

OutputsTypeOK ==
    /\ time \in 0 .. MaxTime /\ row \in 0 .. MaxTime
    /\ DOMAIN batches \subseteq 1 .. MaxTime
    /\ Len(builder.month.elec.issues) <= MaxIssues

OutputsInit ==
    /\ time = 0 /\ pending = 0 /\ batches = <<>> /\ row = 0
    /\ builder = NewBuilder
    /\ outputs = [values |-> {}, clock |-> 0]
    /\ running = TRUE /\ restarts = 0

Later(a, b) == IF a > b THEN a ELSE b
Earlier(a, b) == IF a < b THEN a ELSE b

(***************************************************************************)
(* calculator.go: energy between neighbouring samples.                     *)
(***************************************************************************)
Neighbours(S) == {<<l, r>> \in S \X S : l < r /\ \A t \in S : ~(l < t /\ t < r)}
Segments(S, from, to) ==
    {p \in Neighbours(S) : Later(from, p[1]) < Earlier(to, p[2])}
Part(p, from, to) == [from |-> Later(from, p[1]), to |-> Earlier(to, p[2])]
Length(p, from, to) == Earlier(to, p[2]) - Later(from, p[1])

Counts(p, demand) == p[2] - p[1] <= MaxGap /\ demand[p[1]] # NoPower /\ demand[p[2]] # NoPower

(* Time before the first sample and after the last one has no coverage *)
BoundaryIssues(S, from, to) ==
    LET first == CHOOSE t \in S : \A u \in S : t <= u
        last == CHOOSE t \in S : \A u \in S : u <= t
    IN  (IF from < first THEN {[from |-> from, to |-> Earlier(to, first)]} ELSE {})
        \cup (IF last < to THEN {[from |-> Later(from, last), to |-> to]} ELSE {})

InOrder(issues) == SetToSortSeq(issues, LAMBDA a, b : a.from < b.from)

integrateDemand(S, demand, from, to) ==
    LET segments == Segments(S, from, to)
        counted == {p \in segments : Counts(p, demand)}
    IN  IF Cardinality(S) < 2
        THEN [NoMetric EXCEPT !.issues = <<[from |-> from, to |-> to]>>]
        ELSE [covered |-> FoldSet(LAMBDA p, n : n + Length(p, from, to), 0, counted),
              positive |-> \E p \in counted : 1 \in {demand[p[1]], demand[p[2]]},
              issues |-> InOrder({Part(p, from, to) : p \in segments \ counted}
                                 \cup BoundaryIssues(S, from, to))]

Electrical == [t \in DOMAIN batches |-> batches[t].elec]
Thermal == [t \in DOMAIN batches |-> batches[t].therm]

(* The rate of a segment is the one of its left sample *)
periodTagCost(S, from, to) ==
    \A p \in Segments(S, from, to) :
        Counts(p, Electrical) => batches[p[1]].tariff

(* The samples in a period and the neighbours of its ends *)
metricsForPeriod(from, to) ==
    LET S == DOMAIN batches
        before == {t \in S : t < from}
        after == {t \in S : t >= to}
    IN  {t \in S : from <= t /\ t < to}
        \cup (IF from \in S THEN {} ELSE {t \in before : \A u \in before : u <= t})
        \cup {t \in after : \A u \in after : t <= u}

(***************************************************************************)
(* outputs.go: the periods.                                                *)
(***************************************************************************)
Bounded(issues) == SubSeq(issues, 1, Earlier(Len(issues), MaxIssues))

calculatePeriod(from, to) ==
    LET S == metricsForPeriod(from, to)
        elec == integrateDemand(S, Electrical, from, to)
        therm == integrateDemand(S, Thermal, from, to)
    IN  [from |-> from, to |-> to,
         elec |-> [elec EXCEPT !.issues = Bounded(@)],
         therm |-> [therm EXCEPT !.issues = Bounded(@)],
         costInvalid |-> /\ TariffMode = "tag" /\ elec.covered > 0
                         /\ ~periodTagCost(S, from, to)]

mergeEnergyMetrics(a, b) ==
    [covered |-> a.covered + b.covered,
     positive |-> a.positive \/ b.positive,
     issues |-> Bounded(a.issues \o b.issues)]

(* Faulty variant: a segment without a rate is forgotten by the next one *)
extendForgiving(period, last, at) ==
    LET S == {last, at}
        elec == integrateDemand(S, Electrical, period.to, at)
    IN  IF period.to >= at THEN period
        ELSE [period EXCEPT
                !.elec = mergeEnergyMetrics(@, elec),
                !.therm = mergeEnergyMetrics(@, integrateDemand(S, Thermal, period.to, at)),
                !.to = at,
                !.costInvalid = /\ TariffMode = "tag" /\ elec.covered > 0
                                /\ ~periodTagCost(S, period.to, at)]

extendPeriod(period, last, at) ==
    LET S == {last, at}
        elec == integrateDemand(S, Electrical, period.to, at)
    IN  IF period.to >= at THEN period
        ELSE [period EXCEPT
                !.elec = mergeEnergyMetrics(@, elec),
                !.therm = mergeEnergyMetrics(@, integrateDemand(S, Thermal, period.to, at)),
                !.to = at,
                !.costInvalid = \/ @
                                \/ /\ TariffMode = "tag" /\ elec.covered > 0
                                   /\ ~periodTagCost(S, period.to, at)]

StartOf(starts, at) ==
    CHOOSE d \in starts : d <= at /\ \A e \in starts : e <= at => e <= d

(* A period that has not been extended to its start begins anew *)
advance(at) ==
    LET next(period, from) ==
            IF ~builder.hydrated THEN calculatePeriod(from, at)
            ELSE extendPeriod(IF period.from = from THEN period ELSE Period(from),
                              builder.last, at)
    IN  [hydrated |-> TRUE, last |-> at,
         today |-> next(builder.today, StartOf(DayStarts, at)),
         month |-> next(builder.month, StartOf(MonthStarts, at))]

costValid(period) == period.elec.covered > 0 /\ ~period.costInvalid
periodCOP(period) ==
    period.elec.covered > 0 /\ period.therm.covered > 0 /\ period.elec.positive

(***************************************************************************)
(* outputs.go: the values.                                                 *)
(***************************************************************************)
coveragePercent(metric, period) ==
    CASE metric.covered = 0 -> "zero"
      [] 0 < metric.covered /\ metric.covered < period.to - period.from -> "part"
      [] OTHER -> "full"

Worse(a, b) == IF "zero" \in {a, b} THEN "zero"
               ELSE IF "part" \in {a, b} THEN "part" ELSE "full"

NoPeriod == [from |-> 0, to |-> 0]  \* an issue without a period

boundedOutputIssues(issues) ==
    IF Len(issues) <= MaxIssues THEN issues
    ELSE Append(SubSeq(issues, 1, MaxIssues - 1), NoPeriod)

baseOutputValue(key, unit, at, from, to) ==
    [key |-> key, unit |-> unit, at |-> at, from |-> from, to |-> to,
     value |-> TRUE, quality |-> "good", error |-> FALSE, coverage |-> "none",
     issues |-> <<>>]
badOutputValue(v, coverage, issues) ==
    [v EXCEPT !.value = FALSE, !.quality = "bad", !.error = TRUE,
              !.coverage = coverage, !.issues = issues]

partialOutputValue(v, coverage, issues) ==
    [v EXCEPT !.coverage = coverage, !.issues = issues,
              !.quality = IF coverage = "full" /\ issues = <<>> THEN "good"
                          ELSE "partial"]

liveOutputValues(at) ==
    LET kind == batches[at]
        live(key, unit) == baseOutputValue(<<"live", key>>, unit, at, at, at)
        demand(v, power) == IF power # NoPower THEN v
                            ELSE badOutputValue(v, "none", <<NoPeriod>>)
    IN  {demand(live("demand", "kW"), kind.elec),
         demand(live("thermal", "kW"), kind.therm),
         IF kind.elec = 1 /\ kind.therm # NoPower THEN live("cop", "")
         ELSE badOutputValue(live("cop", ""), "none", <<NoPeriod>>),
         IF TariffMode = "flat" \/ kind.tariff THEN live("tariff", "EUR/kWh")
         ELSE badOutputValue(live("tariff", "EUR/kWh"), "none", <<NoPeriod>>)}

(* A ratio of a period needs the whole of it *)
failClosedRatioOutputValue(v, valid, coverage, issues) ==
    CASE coverage # "full" \/ issues # <<>> -> badOutputValue(v, coverage, issues)
      [] coverage = "full" /\ issues = <<>> /\ valid -> [v EXCEPT !.coverage = coverage]
      [] OTHER -> badOutputValue(v, coverage, <<NoPeriod>>)

periodOutputValues(name, period, at) ==
    LET elec == coveragePercent(period.elec, period)
        therm == coveragePercent(period.therm, period)
        both == boundedOutputIssues(period.elec.issues \o period.therm.issues)
        of(key, unit) == baseOutputValue(<<name, key>>, unit, at, period.from, period.to)
        energy(v, metric, coverage) ==
            IF metric.covered = 0 THEN badOutputValue(v, coverage, metric.issues)
            ELSE partialOutputValue(v, coverage, metric.issues)
    IN  {energy(of("electrical", "kWh"), period.elec, elec),
         energy(of("thermal", "kWh"), period.therm, therm),
         failClosedRatioOutputValue(of("cop", ""), periodCOP(period), Worse(elec, therm), both),
         failClosedRatioOutputValue(of("cost", "EUR"), costValid(period), elec, period.elec.issues),
         IF ~costValid(period)
         THEN badOutputValue(of("covered_cost", "EUR"), elec,
                             boundedOutputIssues(Append(period.elec.issues, NoPeriod)))
         ELSE partialOutputValue(of("covered_cost", "EUR"), elec, period.elec.issues),
         partialOutputValue(of("electrical_coverage", "%"), elec, period.elec.issues),
         partialOutputValue(of("thermal_coverage", "%"), therm, period.therm.issues)}

(***************************************************************************)
(* output.go and output_store.go: what is taken.                           *)
(***************************************************************************)
Live == {"live"} \X {"demand", "thermal", "cop", "tariff"}
OfPeriods == {"today", "month"} \X
    {"electrical", "thermal", "cop", "cost", "covered_cost",
     "electrical_coverage", "thermal_coverage"}

(* The declared unit of an output; "*" is one that a value brings along *)
unitOf(key) ==
    CASE key \in {<<"live", "demand">>, <<"live", "thermal">>} -> "kW"
      [] key[1] # "live" /\ key[2] \in {"electrical", "thermal"} -> "kWh"
      [] key[2] = "cop" -> ""
      [] key[2] \in {"tariff", "cost", "covered_cost"} -> "*"
      [] OTHER -> "%"

outputDescriptors ==
    [key \in Live \cup OfPeriods |->
        [unit |-> unitOf(key), instantaneous |-> key \in Live]]

normalizeOutputIssues(v) ==
    /\ Len(v.issues) <= MaxIssues
    /\ \A i \in DOMAIN v.issues :
          v.issues[i] # NoPeriod =>
              /\ v.issues[i].from <= v.issues[i].to
              /\ v.from <= v.issues[i].from /\ v.issues[i].to <= v.to

Quality(v) ==
    CASE v.quality = "good" -> /\ ~v.error /\ v.issues = <<>>
                               /\ v.coverage \in {"none", "full"}
      [] v.quality = "partial" -> ~v.error /\ (v.issues # <<>> \/ v.coverage \in {"zero", "part"})
      [] OTHER -> ~v.value /\ v.error

normalizeOutputValue(v, descriptor, clock) ==
    /\ IF descriptor.unit = "*" THEN v.unit # "" ELSE v.unit = descriptor.unit
    /\ v.from <= v.to /\ v.to <= v.at /\ v.at <= clock
    /\ IF descriptor.instantaneous
       THEN v.from = v.to /\ v.from = v.at /\ v.coverage = "none"
       ELSE v.from < v.to
    /\ normalizeOutputIssues(v)
    /\ Quality(v)

NormalizeOutputBatch(values, descriptors, clock) ==
    /\ values # {}
    /\ \A v \in values : /\ v.key \in DOMAIN descriptors
                         /\ normalizeOutputValue(v, descriptors[v.key], clock)
    /\ Cardinality({v.key : v \in values}) = Cardinality(values)

(* Publish wants all outputs, of one time *)
normalizeCompleteOutputBatch(values, clock) ==
    /\ NormalizeOutputBatch(values, outputDescriptors, clock)
    /\ Cardinality(values) = Cardinality(DOMAIN outputDescriptors)
    /\ Cardinality({v.at : v \in values}) = 1

(* The broker has no descriptors and derives them from the values *)
normalizePublishedOutputBatch(values, clock) ==
    LET of(key) == CHOOSE v \in values : v.key = key
    IN  NormalizeOutputBatch(values,
            [key \in {v.key : v \in values} |->
                [unit |-> of(key).unit,
                 instantaneous |-> of(key).from = of(key).to /\ of(key).from = of(key).at]],
            clock)

(***************************************************************************)
(* The runtime.                                                            *)
(***************************************************************************)
Built(at, periods) ==
    liveOutputValues(at) \cup periodOutputValues("today", periods.today, at)
        \cup periodOutputValues("month", periods.month, at)

(* A batch is committed and handed to the runtime *)
Capture(kind) ==
    /\ time < MaxTime /\ pending = 0
    /\ time' = time + 1
    /\ batches' = [t \in DOMAIN batches \cup {time'} |-> IF t = time' THEN kind ELSE batches[t]]
    /\ pending' = IF running THEN time' ELSE 0
    /\ UNCHANGED <<builder, outputs, row, running, restarts>>

(* Nothing is captured *)
Pass ==
    /\ time < MaxTime /\ pending = 0
    /\ time' = time + 1
    /\ UNCHANGED <<batches, pending, builder, outputs, row, running, restarts>>

(* Build has nothing to say at the start of a day.  A batch of outputs     *)
(* that Publish refuses ends the runtime; the clock of the publication may *)
(* be behind the time of the capture.                                      *)
Observe(clock) ==
    /\ pending # 0 /\ pending' = 0
    /\ IF pending \in DayStarts
       THEN UNCHANGED <<builder, outputs, row, running>>
       ELSE LET periods == advance(pending)
                values == Built(pending, periods)
                taken == normalizeCompleteOutputBatch(values, clock)
            IN  /\ builder' = periods
                /\ outputs' = [values |-> values, clock |-> clock]
                /\ running' = taken
                /\ row' = IF taken /\ row < pending THEN pending ELSE row
    /\ UNCHANGED <<time, batches, restarts>>

(* An operator starts the instance again *)
Restart ==
    /\ restarts < MaxRestarts /\ restarts' = restarts + 1
    /\ builder' = NewBuilder /\ running' = TRUE /\ pending' = 0
    /\ UNCHANGED <<time, batches, outputs, row>>

OutputsNext ==
    \/ \E kind \in Kinds : Capture(kind)
    \/ \E clock \in {time - 1, time} : Observe(clock)
    \/ Pass \/ Restart

OutputsSpec == OutputsInit /\ [][OutputsNext]_outputVars

(***************************************************************************)
(* Properties.                                                             *)
(***************************************************************************)
(* The store takes every batch that the builder makes, and the broker      *)
(* passes on what the store takes: only a clock that runs backwards can    *)
(* end the runtime (normalizeCompleteOutputBatch).                         *)
BuiltIsTaken ==
    outputs.values # {} /\ (\A v \in outputs.values : v.at <= outputs.clock) =>
        /\ normalizeCompleteOutputBatch(outputs.values, outputs.clock)
        /\ normalizePublishedOutputBatch(outputs.values, outputs.clock)

(* The history covers a span: every time in it lies between neighbouring   *)
(* samples with a demand, a gap that is integrated and, for a cost, a rate *)
HistoryCovers(from, to, demand, rated) ==
    LET covering == {p \in Neighbours(DOMAIN batches) :
                        /\ Counts(p, demand)
                        /\ rated /\ TariffMode = "tag" => batches[p[1]].tariff}
    IN  \A t \in from .. to - 1 : \E p \in covering : p[1] <= t /\ t < p[2]

(* A value of a period claims good quality exactly when the history of the *)
(* whole period is there, however the builder came by its sums: hydrated   *)
(* by a restart or extended batch by batch, over the start of a day.  Not  *)
(* when a batch fell on the start of a day, which Build drops.             *)
GoodMeansCovered ==
    DayStarts \cap DOMAIN batches = {} =>
        \A v \in outputs.values : v.key \in OfPeriods =>
            LET covered(demand, rated) == HistoryCovers(v.from, v.to, demand, rated)
            IN  v.quality = "good" <=>
                CASE v.key[2] \in {"electrical", "electrical_coverage"} -> covered(Electrical, FALSE)
                  [] v.key[2] \in {"thermal", "thermal_coverage"} -> covered(Thermal, FALSE)
                  [] v.key[2] \in {"cost", "covered_cost"} -> covered(Electrical, TRUE)
                  [] v.key[2] = "cop" ->
                        /\ covered(Electrical, FALSE) /\ covered(Thermal, FALSE)
                        /\ \E p \in Segments(DOMAIN batches, v.from, v.to) :
                               1 \in {Electrical[p[1]], Electrical[p[2]]}
=============================================================================
