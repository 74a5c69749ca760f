-------------------------- MODULE UtilityCalculators --------------------------
(***************************************************************************)
(* The calculators of the utilities: electricity with its tariff, heat     *)
(* with its COP, compressed air with what it costs and takes, and the      *)
(* baseline from which leakage is estimated.                               *)
(*                                                                         *)
(* utility/electrical, utility/thermal and utility/compressedair           *)
(* (calculator.go, leakage.go, outputs.go).                                *)
(*                                                                         *)
(* Each computes one result of samples and a window; the samples are those *)
(* of the batches of one logger.  Errors are told apart only where the     *)
(* code does; currencies and texts are left out, and so are infinities,    *)
(* which whole numbers do not reach.                                       *)
(***************************************************************************)
EXTENDS UtilityAnalytics

CONSTANTS
    Kinds,     \* what a batch may hold: a sample of each signal
    Ranges,    \* the windows
    Rate,      \* the fixed rate
    Factor,    \* the factor of the medium
    Refused,   \* the result of inputs that are refused
    MaxTime    \* bound of the time

VARIABLES
    time,      \* the clock
    batches,   \* what the batches hold, by their times
    result     \* the last result

calculatorVars == <<time, batches, result>>

CalculatorTypeOK ==
    /\ time \in 0 .. MaxTime /\ DOMAIN batches \subseteq 1 .. MaxTime
    /\ result.calc \in {"none", "electrical", "thermal", "air", "leakage"}

CalculatorInit ==
    /\ time = 0 /\ batches = <<>> /\ result = [calc |-> "none"]

Samples(signal) == [t \in DOMAIN batches |-> batches[t][signal]]

(* thermal.synchronized, compressedair.synchronizedSamples: a time at which *)
(* one of two is bad is bad for both.                                       *)
Together(left, right) ==
    [t \in DOMAIN left |-> [left[t] EXCEPT !.good = left[t].good /\ right[t].good]]

Nonnegative(samples) ==
    \A t \in DOMAIN samples : samples[t].good => samples[t].value >= 0

(***************************************************************************)
(* electrical/calculator.go.                                               *)
(***************************************************************************)
(* The segments that count, each at the rate of the sample at its start *)
Charged(power, tariff, w) ==
    {p \in Counted(power, w) : tariff[p[1]].good /\ tariff[p[1]].value >= 0}
sourceCost(power, tariff, w) ==
    LET Part(p) == LET c == Clip(p, w)
                   IN  ((interpolate(power, p, c.from) + interpolate(power, p, c.to))
                          * Duration(c) * tariff[p[1]].value) \div 2
        Length(p) == Duration(Clip(p, w))
        charged == Charged(power, tariff, w)
    IN  [cost |-> MapThenSumSet(Part, charged),
         covered |-> MapThenSumSet(Length, charged)]

(* The highest of 0 and the values at the ends of the clipped segments *)
peak(samples, w) ==
    Max({0} \union UNION {{interpolate(samples, p, Clip(p, w).from),
                           interpolate(samples, p, Clip(p, w).to)} :
                          p \in Counted(samples, w)})

Electrical(mode, w) ==
    LET power == Samples("elec")
        metric == Integrate(power, w)
        charge == sourceCost(power, Samples("rate"), w)
    IN  IF mode = "source" /\ charge.covered # metric.covered THEN Refused
        ELSE [metric |-> metric, demand |-> peak(power, w),
              cost |-> IF mode = "fixed" THEN metric.integral * Rate ELSE charge.cost]

(***************************************************************************)
(* thermal/calculator.go.                                                  *)
(***************************************************************************)
(* The heat of a flow that cools by a difference; it is bad if one of its   *)
(* samples is, or if the flow or the difference has the wrong sign.         *)
Derived(flow, supply, return) ==
    [t \in DOMAIN flow |->
        LET delta == supply[t].value - return[t].value
        IN  [value |-> flow[t].value * Factor * delta,
             good |-> /\ flow[t].good /\ supply[t].good /\ return[t].good
                      /\ flow[t].value >= 0 /\ delta >= 0]]
thermalSamples(mode) ==
    IF mode = "direct" THEN Samples("therm")
    ELSE Derived(Samples("flow"), Samples("supply"), Samples("return"))

Thermal(mode, w) ==
    LET heat == Integrate(Together(thermalSamples(mode), Samples("elec")), w)
        power == Integrate(Together(Samples("elec"), thermalSamples(mode)), w)
    IN  IF batches = <<>> THEN Refused
        ELSE [heat |-> heat, power |-> power,
              valid |-> heat.covered # 0 /\ power.integral > 0]

(***************************************************************************)
(* compressedair/calculator.go.                                            *)
(***************************************************************************)
(* What a counter went up between two samples; a counter that went down was *)
(* reset, and its segment is skipped.                                       *)
Rising(samples, w) ==
    {p \in Counted(samples, w) : samples[p[1]].value <= samples[p[2]].value}
counterDelta(samples, w) ==
    LET Rise(p) == LET c == Clip(p, w)
                   IN  interpolate(samples, p, c.to) - interpolate(samples, p, c.from)
        Length(p) == Duration(Clip(p, w))
        all == Cardinality(Segments(samples, w))
        rising == Rising(samples, w)
    IN  Metric(w, MapThenSumSet(Rise, rising), MapThenSumSet(Length, rising),
               all, all - Cardinality(rising))

Ratio(num, den) == [valid |-> TRUE, num |-> num, den |-> den]
NoRatio == [valid |-> FALSE, num |-> 0, den |-> 1]

(* The share of a window in which a state was on; only a window without a   *)
(* gap has one.                                                             *)
stateRatio(samples, w) ==
    LET metric == Integrate(samples, w)
    IN  IF /\ samples # <<>> /\ \A t \in DOMAIN samples : samples[t].value \in {0, 1}
           /\ metric.covered = Duration(w)
        THEN Ratio(metric.integral, metric.covered * Scale) ELSE NoRatio

loadRatio(production, running) ==
    IF /\ production.valid /\ running.valid /\ running.num > 0
       /\ production.num * running.den <= running.num * production.den
    THEN Ratio(production.num * running.den, production.den * running.num)
    ELSE NoRatio

clippedValues(samples, w) ==
    UNION {{interpolate(samples, p, Clip(p, w).from), interpolate(samples, p, Clip(p, w).to)} :
           p \in Counted(samples, w)}
pressureMetrics(samples, w) ==
    LET metric == Integrate(samples, w)
        values == clippedValues(samples, w)
    IN  IF metric.covered = 0 THEN [valid |-> FALSE]
        ELSE [valid |-> TRUE, sum |-> metric.integral, covered |-> metric.covered,
              low |-> Min(values), drop |-> Max(values) - Min(values)]

Air(mode, w) ==
    LET power == Together(Samples("elec"), Samples(mode))
        consumption == Together(Samples(mode), Samples("elec"))
        energy == Integrate(power, w)
        volume == IF mode = "flow" THEN Integrate(consumption, w)
                  ELSE counterDelta(consumption, w)
        running == stateRatio(Samples("running"), w)
        production == stateRatio(Samples("producing"), w)
    IN  IF Cardinality(DOMAIN batches) < 2 \/ ~Nonnegative(power) \/ ~Nonnegative(consumption)
        THEN Refused
        ELSE [energy |-> energy.integral, volume |-> volume.integral,
              covered |-> Min({energy.covered, volume.covered}),
              skipped |-> Max({energy.skipped, volume.skipped}),
              sec |-> IF energy.covered = volume.covered /\ volume.integral > 0
                      THEN Ratio(energy.integral, volume.integral) ELSE NoRatio,
              running |-> running, load |-> loadRatio(production, running),
              pressure |-> pressureMetrics(Samples("pressure"), w)]

(* outputs.go: how good a value of a period is said to be *)
PeriodQuality(r, w) == Quality(r.covered, Duration(w))
RatioQuality(ratio, r, w) == IF ratio.valid THEN PeriodQuality(r, w) ELSE "bad"

(* leakage.go: only of what flow and power both cover *)
Leakage(w) ==
    LET flow == Together(Samples("flow"), Samples("elec"))
        power == Together(Samples("elec"), Samples("flow"))
        volume == Integrate(flow, w)
        energy == Integrate(power, w)
    IN  IF \/ Cardinality(DOMAIN batches) < 2 \/ ~Nonnegative(flow) \/ ~Nonnegative(power)
           \/ volume.covered = 0 \/ volume.covered # energy.covered
        THEN Refused
        ELSE [volume |-> volume.integral, energy |-> energy.integral,
              covered |-> volume.covered]

(***************************************************************************)
(* The logger writes batches, and a calculator is asked for a window.      *)
(***************************************************************************)
Tick ==
    /\ time < MaxTime /\ time' = time + 1
    /\ \/ UNCHANGED batches
       \/ \E kind \in Kinds :
            batches' = [t \in DOMAIN batches \union {time + 1} |->
                          IF t = time + 1 THEN kind ELSE batches[t]]
    /\ result' = [calc |-> "none"]

Calculate(calc, mode, w, value) ==
    /\ result.calc = "none"
    /\ result' = [calc |-> calc, mode |-> mode, window |-> w, value |-> value]
    /\ UNCHANGED <<time, batches>>

CalculatorNext ==
    \/ Tick
    \/ \E r \in Ranges :
        LET w == Window(r[1], r[2])
        IN  \/ \E mode \in {"fixed", "source"} :
                 Calculate("electrical", mode, w, Electrical(mode, w))
            \/ \E mode \in {"direct", "derived"} :
                 Calculate("thermal", mode, w, Thermal(mode, w))
            \/ \E mode \in {"flow", "counter"} : Calculate("air", mode, w, Air(mode, w))
            \/ Calculate("leakage", "flow", w, Leakage(w))

CalculatorSpec == CalculatorInit /\ [][CalculatorNext]_calculatorVars

(***************************************************************************)
(* Properties.                                                             *)
(***************************************************************************)
(* The hours of a window that the samples of a signal cover *)
Hours(signal) == CoveredHours(Samples(signal), result.window)
Energy(hours) == Area(Samples("elec"), hours)
Shared(signal) ==
    CoveredHours(Together(Samples(signal), Samples("elec")), result.window)

(* electrical/calculator.go: the cost is that of all the energy, each hour  *)
(* at the rate that was logged last; energy that has no rate is not given   *)
(* away, the whole is refused.  No hour takes more than the demand.         *)
CostIsComplete ==
    result.calc = "electrical" =>
        LET hours == Hours("elec")
            At(h) == Max({t \in DOMAIN batches : t <= h})
            rate(h) == Samples("rate")[At(h)]
            rated == \A h \in hours : rate(h).good
        IN  IF result.value = Refused THEN result.mode = "source" /\ ~rated
            ELSE /\ result.value.metric.integral = Energy(hours)
                 /\ \A h \in hours : Energy({h}) <= result.value.demand
                 /\ result.mode = "source" =>
                      /\ rated
                      /\ result.value.cost =
                           MapThenSumSet(LAMBDA h : Energy({h}) * rate(h).value, hours)

(* thermal/calculator.go: a COP divides energies of the same hours. *)
CopIsShared ==
    result.calc = "thermal" /\ result.value # Refused =>
        LET heat == thermalSamples(result.mode)
            hours == CoveredHours(Together(heat, Samples("elec")), result.window)
        IN  /\ result.value.heat.integral = Area(heat, hours)
            /\ result.value.power.integral = Energy(hours)
            /\ result.value.valid <=> hours # {} /\ Energy(hours) > 0

(* compressedair/calculator.go: the specific consumption divides energy and *)
(* volume of the same hours, and no hour of a reset is among them; running  *)
(* and load are shares; the mean pressure lies between its lowest and its   *)
(* highest value.  compressedair/outputs.go: what is said to be good is of  *)
(* every hour.                                                              *)
SharesAreShares(ratio) == ratio.valid => 0 <= ratio.num /\ ratio.num <= ratio.den
AirIsShared ==
    result.calc = "air" /\ result.value # Refused =>
        LET r == result.value
            hours == Shared(result.mode)
            Reset(h) == \E p \in SamplesAround(Samples("counter"), h) :
                            Samples("counter")[p[1]].value > Samples("counter")[p[2]].value
        IN  /\ r.energy = Energy(hours)
            /\ result.mode = "flow" => r.volume = Area(Samples("flow"), hours)
            /\ r.sec.valid /\ result.mode = "counter" => \A h \in hours : ~Reset(h)
            /\ result.mode = "counter" => r.volume >= 0
            /\ \/ ~r.sec.valid \/ Cardinality(hours) = r.covered
            /\ SharesAreShares(r.running) /\ SharesAreShares(r.load)
            /\ r.pressure.valid =>
                 /\ r.pressure.low * r.pressure.covered <= r.pressure.sum
                 /\ r.pressure.sum <= (r.pressure.low + r.pressure.drop) * r.pressure.covered
            /\ RatioQuality(r.sec, r, result.window) = "good" => hours = HoursOf(result.window)

(* compressedair/leakage.go: an estimate is of the hours that flow and power *)
(* both cover, and without such an hour there is none.                       *)
LeakageIsShared ==
    result.calc = "leakage" =>
        LET hours == Shared("flow")
        IN  IF result.value = Refused THEN hours = {} \/ ~Nonnegative(Samples("elec"))
            ELSE /\ hours # {} /\ result.value.covered = Cardinality(hours)
                 /\ result.value.volume = Area(Samples("flow"), hours)
                 /\ result.value.energy = Energy(hours)
=============================================================================
