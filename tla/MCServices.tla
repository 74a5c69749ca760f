----------------------------- MODULE MCServices -----------------------------
(***************************************************************************)
(* Model checking instance of the services that compute and keep data:     *)
(* each part of the system below runs by itself.                           *)
(*                                                                         *)
(* These parts share no state that one of them would change under another, *)
(* so a behaviour has one of them: part says which, and the others do      *)
(* nothing.  The history of a logger, the catalog, the measurement runs    *)
(* and the assets have variables of their own, and stay as they begin when *)
(* another part runs; the state of the other parts is in the slots x1, ... *)
(* Parts, the parts that run, is a parameter so that one of them can be    *)
(* looked at alone.                                                        *)
(***************************************************************************)
EXTENDS LoggerHistory, Catalog, MeasurementRuns, Assets

CONSTANTS Parts, None, theTag

VARIABLES part, x1, x2, x3, x4, x5, x6, x7, x8, x9, x10, x11, x12, x13, x14, x15,
          x16, x17

slots == <<x1, x2, x3, x4, x5, x6, x7, x8, x9, x10, x11, x12, x13, x14, x15, x16, x17>>
own   == <<historyVars, catalogVars, runsVars, assetVars>>
all   == <<part, own, slots>>

HistoryPolicies == {[size |-> 2, age |-> None], [size |-> 1, age |-> 1]}

RunPeriods == {<<0, 5>>, <<1, 4>>}
RunGrids == <<0, 1>>
CatalogParent == [x \in {"d", "s"} |-> IF x = "d" THEN "g" ELSE "d"]

\* A site with a building that has a meter below it, and another meter.
AssetUnit == [u \in {"kW", "W"} |-> "W"]
SourceUnit == [x \in {"t", "u"} |-> IF x = "t" THEN "" ELSE "kW"]
AssetParents == [x \in {"s", "b", "m", "n"} |-> IF x = "m" THEN "b" ELSE "s"]
AssetMain(id, source, unit, boundary) ==
    [id |-> id, source |-> source, unit |-> unit, boundary |-> boundary,
     role |-> "main", policy |-> "include", inputs |-> {}]
AssetOffers ==
    {{}, {AssetMain("1", "t", "W", "s")},
     {AssetMain("2", "u", "kW", "s")},
     {[AssetMain("1", "t", "kW", "b") EXCEPT !.role = "direct"],
      [AssetMain("2", "u", "kW", "b") EXCEPT !.role = "virtual", !.inputs = {"1"}]}}

OutputKinds ==
    {[elec |-> 1, therm |-> 1, tariff |-> TRUE], [elec |-> 0, therm |-> -1, tariff |-> TRUE],
     [elec |-> 1, therm |-> 1, tariff |-> FALSE]}

ModbusTag(function, start, quantity, type, order, byte, bit, gain) ==
    [function |-> function, start |-> start, quantity |-> quantity,
     dataType |-> type, order |-> order, byteOffset |-> byte, bitOffset |-> bit,
     gain |-> gain, offset |-> 0]
ModbusOffers ==
    {ModbusTag("holding", 1, 2, "int32", "word_swap", 0, 0, 1),
     ModbusTag("holding", 0, 3, "int32", "word_swap", 2, 0, 2),
     ModbusTag("coils", 1, 3, "bool", "big_endian", 0, 1, 1),
     ModbusTag("input", 1, 1, "int32", "word_swap", 0, 0, 1),
     ModbusTag("holding", 3, 3, "int16", "big_endian", 0, 0, 1)}

Schedule(mode, every, start, end, times, weekdays) ==
    [mode |-> mode, every |-> every, start |-> start, end |-> end,
     times |-> times, weekdays |-> weekdays]
ScheduledLoggers ==
    {Schedule("interval", 2, 1, 8, {}, {}), Schedule("day", 1, 1, 10, {2, 3}, {}),
     Schedule("minute", 3, 1, 9, {}, {}), Schedule("day", 2, 2, 20, {1}, {}),
     Schedule("week", 2, 3, 20, {1, 2}, {0, 1})}
\* Days of four minutes: the zone skips a minute at 2 and repeats one at 7.
ZoneOffsets == [m \in 0 .. 60 |-> IF m < 2 THEN 0 ELSE IF m < 7 THEN 1 ELSE 0]

GoodSample(v) == [value |-> v, good |-> TRUE]
BadSample == [value |-> 0, good |-> FALSE]
\* One zone repeats the second hour of a day, the other skips the first of one.
UtilityZones == {[t \in -12 .. 24 |-> IF t < 1 THEN 1 ELSE 0],
                 [t \in -12 .. 24 |-> IF t < 2 THEN -2 ELSE -1]}
UtilityKinds ==
    {[p |-> GoodSample(2), q |-> GoodSample(1)], [p |-> GoodSample(0), q |-> BadSample],
     [p |-> BadSample, q |-> None]}
PlantBatch(elec, rate, therm, flow, delta, counter, running, producing) ==
    [elec |-> elec, rate |-> rate, therm |-> therm, flow |-> flow,
     supply |-> GoodSample(3), return |-> GoodSample(3 - delta),
     counter |-> GoodSample(counter), running |-> running,
     producing |-> producing, pressure |-> elec]
CalculatorKinds ==
    {PlantBatch(GoodSample(2), GoodSample(1), GoodSample(4), GoodSample(1), 2, 5,
                GoodSample(1), GoodSample(1)),
     PlantBatch(GoodSample(0), GoodSample(3), BadSample, GoodSample(3), 1, 7,
                GoodSample(1), GoodSample(0)),
     PlantBatch(GoodSample(4), BadSample, GoodSample(1), GoodSample(0), -1, 1,
                GoodSample(0), GoodSample(0)),
     PlantBatch(BadSample, GoodSample(2), GoodSample(2), BadSample, 1, 9,
                BadSample, BadSample)}

-----------------------------------------------------------------------------
Energy == INSTANCE EnergyPlugin WITH
    Tags <- {theTag}, Clients <- {}, Policies <- {[size |-> None, age |-> None]},
    NoLimit <- None, MaxTime <- 3, MaxUpdates <- 0, MaxCrashes <- 1,
    BatchLimit <- 1, WriteLimit <- 1, Buffer <- 1,
    DayStarts <- {0, 2}, MaxGap <- 2, HistoryLimit <- 1, LiveBuffer <- 1,
    MaxRestarts <- 1,
    now <- x1, tags <- x2, logger <- x3, rows <- x4, accounts <- x5,
    job <- x6, cleaner <- x7, request <- x8, updates <- x9, crashes <- x10,
    sub <- x11, runtime <- x12, builder <- x13, outputs <- x14, hub <- x15,
    viewer <- x16, restarts <- x17

Integration == INSTANCE EnergyOutputs WITH
    Kinds <- OutputKinds, NoPower <- -1, TariffMode <- "tag",
    DayStarts <- {0, 2}, MonthStarts <- {0, 2}, MaxGap <- 2, MaxIssues <- 2,
    MaxTime <- 5, MaxRestarts <- 1,
    time <- x1, batches <- x2, builder <- x3, outputs <- x4, row <- x5,
    pending <- x6, running <- x7, restarts <- x8

Expressions == INSTANCE TagExpression WITH
    Alphabet <- {"a", "1", "-", "&&", "(", ")"}, Tags <- {"a"},
    TagValues <- {<<"number", 1>>, <<"bool", 1>>, <<"failed", 0>>},
    DataTypes <- {"bool", "unsigned"}, MaxTokens <- 5, MaxDepth <- 2,
    MaxDependencies <- 1,
    text <- x1, stored <- x2, latest <- x3, outcome <- x4

Modbus == INSTANCE ModbusReading WITH
    Monitors <- {"m"}, Previews <- {"p"}, Offers <- ModbusOffers,
    Values <- {-27, 100}, ValueAt <- 1, DeviceType <- "int32",
    DeviceOrder <- "word_swap", ByteBits <- 2, MaxRegisters <- 3,
    MaxCoils <- 4, MaxAddress <- 4, MaxWrites <- 2,
    device <- x1, writes <- x2, config <- x3, phase <- x4, gate <- x5,
    wire <- x6, fresh <- x7, tag <- x8

Scheduling == INSTANCE Schedules WITH
    Loggers <- ScheduledLoggers, DayLength <- 4, WeekLength <- 2,
    Offsets <- ZoneOffsets, Tolerance <- 1, Attempts <- 4, MaxTime <- 10,
    MaxRestarts <- 1,
    logger <- x1, time <- x2, phase <- x3, scheduled <- x4, from <- x5,
    captured <- x6, excused <- x7, restarts <- x8

Reporting == INSTANCE Reports WITH
    Tags <- {"a", "b"}, BoolTags <- {"b"},
    Layouts <- {<<<<"b", "count">>, <<"a", "avg">>>>}, Ranges <- {<<1, 9>>},
    Width <- 2, PerPage <- 1, MaxTime <- 2, MaxSaves <- 2, MaxQueries <- 1,
    MaxEdits <- 3,
    now <- x1, tags <- x2, selected <- x3, rows <- x4, report <- x5,
    columns <- x6, save <- x7, query <- x8, made <- x9

Querying == INSTANCE UtilityQueries WITH
    Mappings <- <<"p", "q">>,
    Quantity <- [x \in {"p", "q"} |-> IF x = "p" THEN "power" ELSE "pressure"],
    Kinds <- UtilityKinds, Absent <- None, Ranges <- {<<0, 4>>, <<2, 3>>},
    Zones <- UtilityZones, Buckets <- {"hour", "day"}, Limits <- {3},
    MaxTime <- 4, MaxQueries <- 1, MaxGap <- 2, Scale <- 4, DayLength <- 3,
    time <- x1, batches <- x2, query <- x3, queries <- x4, outputs <- x5

Calculating == INSTANCE UtilityCalculators WITH
    Kinds <- CalculatorKinds, Ranges <- {<<0, 4>>, <<2, 3>>}, Rate <- 2,
    Factor <- 1, Refused <- None, MaxTime <- 4, MaxGap <- 2, Scale <- 4,
    DayLength <- 3,
    time <- x1, batches <- x2, result <- x3

ASSUME
    /\ Energy!EnergyAssumption
    /\ Integration!OutputsAssumption
    /\ Reporting!ReportsAssumption
    /\ Querying!AnalyticsAssumption
    /\ Calculating!AnalyticsAssumption

-----------------------------------------------------------------------------
(* The slots a part does not need. *)

Above9 == <<x10, x11, x12, x13, x14, x15, x16, x17>>
Above8 == <<x9, Above9>>
Above7 == <<x8, Above8>>
Above6 == <<x7, Above7>>
Above5 == <<x6, Above6>>
Above4 == <<x5, Above5>>
Above3 == <<x4, Above4>>
Free9 == /\ x10 = None /\ x11 = None /\ x12 = None /\ x13 = None
         /\ x14 = None /\ x15 = None /\ x16 = None /\ x17 = None
Free8 == x9 = None /\ Free9
Free7 == x8 = None /\ Free8
Free6 == x7 = None /\ Free7
Free5 == x6 = None /\ Free6
Free4 == x5 = None /\ Free5
Free3 == x4 = None /\ Free4
Free0 == x1 = None /\ x2 = None /\ x3 = None /\ Free3

MCInit ==
    /\ part \in Parts
    /\ HistoryInit /\ sub.open
    /\ part # "history" => logger.policy.age = None
    /\ CatalogInit /\ RunsInit /\ AssetsInit
    /\ CASE part \in {"history", "catalog", "runs", "assets"} -> Free0
         [] part = "energy" -> Energy!PipelineInit
         [] part = "outputs" -> Integration!OutputsInit /\ Free8
         [] part = "expression" -> Expressions!ExpressionInit /\ Free4
         [] part = "modbus" -> Modbus!ModbusInit /\ Free8
         [] part = "schedules" -> Scheduling!SchedulesInit /\ Free8
         [] part = "reports" -> Reporting!ReportsInit /\ Free9
         [] part = "queries" -> Querying!UtilityInit /\ Free5
         [] part = "calculators" -> Calculating!CalculatorInit /\ Free3

\* A bound: a report that is saved twice meets one edit of the tables, one that is
\* saved once meets up to three.
FewChanges == x9.saves <= 1 \/ x9.edits <= 1

MCNext ==
    \/ part = "history" /\ HistoryNext
         /\ UNCHANGED <<part, catalogVars, runsVars, assetVars, slots>>
    \/ part = "energy" /\ Energy!PipelineNext
         /\ UNCHANGED <<part, own>>
    \/ part = "catalog" /\ CatalogNext
         /\ UNCHANGED <<part, historyVars, runsVars, assetVars, slots>>
    \/ part = "runs" /\ RunsNext
         /\ UNCHANGED <<part, historyVars, catalogVars, assetVars, slots>>
    \/ part = "assets" /\ AssetsNext
         /\ UNCHANGED <<part, historyVars, catalogVars, runsVars, slots>>
    \/ part = "outputs" /\ Integration!OutputsNext
         /\ UNCHANGED <<part, own, Above8>>
    \/ part = "expression" /\ Expressions!ExpressionNext
         /\ UNCHANGED <<part, own, Above4>>
    \/ part = "modbus" /\ Modbus!ModbusNext
         /\ UNCHANGED <<part, own, Above8>>
    \/ part = "schedules" /\ Scheduling!SchedulesNext
         /\ UNCHANGED <<part, own, Above8>>
    \/ part = "reports" /\ Reporting!ReportsNext /\ FewChanges'
         /\ UNCHANGED <<part, own, Above9>>
    \/ part = "queries" /\ Querying!UtilityNext
         /\ UNCHANGED <<part, own, Above5>>
    \/ part = "calculators" /\ Calculating!CalculatorNext
         /\ UNCHANGED <<part, own, Above3>>

MCSpec == MCInit /\ [][MCNext]_all

-----------------------------------------------------------------------------
(* The properties of the parts, which their modules explain; each holds the *)
(* type invariant of its part.                                              *)

\* plugin/energy/runtime.go, outputs.go and live.go: a dashboard sees
\* every batch once and in order, the periods extended batch by batch are those
\* of the history, and the outputs never go back.
EnergyInOrder ==
    /\ [](part = "energy" => /\ Energy!EnergyTypeOK
                               /\ Energy!LiveContiguous
                               /\ Energy!PeriodsExact)
    /\ [][part = "energy" => Energy!OutputForward]_all

\* plugin/energy/outputs.go: what is built is stored and passed on, and a period
\* is good exactly when the history covers it.  utility/: so it is with what the
\* utility analytics answer; a series tiles its period over a change of the
\* clocks, and what is divided is of the same hours.  report/service.go and
\* datalogger/postgres/query_repository.go: an export has every row that was
\* there all along once, newest first.
OutputsCovered ==
    /\ part = "outputs" => /\ Integration!OutputsTypeOK
                           /\ Integration!BuiltIsTaken
                           /\ Integration!GoodMeansCovered
    /\ part = "queries" => /\ Querying!UtilityTypeOK
                           /\ Querying!OverviewExact
                           /\ Querying!SeriesTiles
                           /\ Querying!UtilityOutputsCovered
    /\ part = "calculators" => /\ Calculating!CalculatorTypeOK
                               /\ Calculating!CostIsComplete
                               /\ Calculating!CopIsShared
                               /\ Calculating!AirIsShared
                               /\ Calculating!LeakageIsShared
    /\ part = "reports" => Reporting!ReportsTypeOK /\ Reporting!ExportExact

\* tag/expression.go: an expression has the tree of the grammar, and reads only
\* what its dependencies name.  protocol/modbus/ and tag/converter.go: a tag that is
\* good shows what the device held when it was read.
TagsMean ==
    /\ part = "expression" => /\ Expressions!ExpressionTypeOK
                              /\ Expressions!ParsesTheGrammar
                              /\ Expressions!SnapshotSuffices
    /\ part = "modbus" => Modbus!ModbusTypeOK /\ Modbus!TagShowsDevice

\* datalogger/calendar_scheduler.go and interval_scheduler.go: a run is captured
\* at the times the schedule names and at no other, over the hours that the zone
\* skips and repeats; one is lost only when the job was late, away or failed.
CapturesTheSchedule ==
    part = "schedules" =>
        Scheduling!SchedulesTypeOK /\ Scheduling!CapturesTheSchedule

=============================================================================
