----------------------------- MODULE MCRuntimes -----------------------------
(***************************************************************************)
(* Model checking instance of the parts with goroutines that must end or   *)
(* come to a result: the data logger runtime, the plugin manager, the      *)
(* energy plugin, the samples of an asset page, the source feed of a       *)
(* publisher and the retention of a logger's history.                      *)
(*                                                                         *)
(* These parts share no state that one of them would change under another, *)
(* so a behaviour has one of them: part says which, and the others do      *)
(* nothing.  The state of the part is in the slots x1, x2, ...; only the   *)
(* data logger runtime has variables of its own.                           *)
(***************************************************************************)
EXTENDS DataLoggerRuntime, Sequences

CONSTANTS l1, l2, c1, c2, s1, s2, i1, i2, a, p, t, None

VARIABLES part, x1, x2, x3, x4, x5, x6, x7, x8, x9, x10, x11, x12, x13, x14,
          x15, x16, x17, x18, x19

slots == <<x1, x2, x3, x4, x5, x6, x7, x8, x9, x10, x11, x12, x13, x14, x15,
           x16, x17, x18, x19>>
all   == <<part, vars, slots>>

Plugins == INSTANCE PluginManager WITH
    Instances <- {i1, i2}, Operators <- {c1}, NoInstance <- None, NoPluginJob <- None,
    MaxConfigs <- 2, MaxCalls <- 1,
    rows <- x1, manager <- x2, holder <- x3, creating <- x4, pluginJobs <- x5,
    stopping <- x6, orphans <- x7, statuses <- x8, procs <- x9, calls <- x10

Energy == INSTANCE EnergyPlugin WITH
    Tags <- {t}, Clients <- {}, NoLimit <- None,
    Policies <- {[size |-> None, age |-> None]},
    MaxTime <- 3, MaxUpdates <- 0, MaxCrashes <- 1, BatchLimit <- 1,
    WriteLimit <- 1, Buffer <- 1, DayStarts <- {0, 2}, MaxGap <- 2,
    HistoryLimit <- 1, LiveBuffer <- 1, MaxRestarts <- 1,
    now <- x1, tags <- x2, logger <- x3, rows <- x4, accounts <- x5, job <- x6,
    cleaner <- x7, request <- x8, updates <- x9, crashes <- x10, sub <- x11,
    runtime <- x12, builder <- x13, outputs <- x14, hub <- x15, viewer <- x16,
    restarts <- x17

Stream == INSTANCE MeasurementStream WITH
    Bound <- {a}, Types <- {"x", "y"}, FeedBuffer <- 1, Buffer <- 1,
    MaxValues <- 1, MaxRetypes <- 0, Nothing <- None,
    dataType <- x1, latest <- x2, put <- x3, retyped <- x4, page <- x5,
    descriptor <- x6, shown <- x7, from <- x8, feed <- x9, feedOpen <- x10,
    sent <- x11, sentClosed <- x12, done <- x13, at <- x14, closing <- x15,
    inHand <- x16, gone <- x17, got <- x18, panicked <- x19

Feed == INSTANCE SourceSubscription WITH
    TagSources <- {a}, OutputSources <- {p}, EventBuffer <- 0,
    UpstreamBuffer <- 1, MaxValues <- 2,
    tagLog <- x1, tagStream <- x2, tagUp <- x3, replayed <- x4, stored <- x5,
    announced <- x6, batchStream <- x7, batchUp <- x8, loaded <- x9, pc <- x10,
    merged <- x11, eventsClosed <- x12, cursor <- x13, err <- x14,
    cancelled <- x15, streams <- x16, inHand <- x17, got <- x18,
    readerClosed <- x19

History == INSTANCE LoggerHistory WITH
    Tags <- {t}, Clients <- {"c"}, NoLimit <- None,
    Policies <- {[size |-> 2, age |-> None], [size |-> 1, age |-> None]},
    MaxTime <- 3, MaxUpdates <- 1, MaxCrashes <- 1, BatchLimit <- 1,
    WriteLimit <- 1, Buffer <- 1,
    now <- x1, tags <- x2, logger <- x3, rows <- x4, accounts <- x5, job <- x6,
    cleaner <- x7, request <- x8, updates <- x9, crashes <- x10, sub <- x11

ASSUME Plugins!PluginAssumption /\ Feed!FeedAssumption

Empty18 == x18 = None /\ x19 = None
Empty12 == x12 = None /\ x13 = None /\ x14 = None /\ x15 = None
           /\ x16 = None /\ x17 = None /\ Empty18
Empty11 == x11 = None /\ Empty12
Empty1  == x1 = None /\ x2 = None /\ x3 = None /\ x4 = None /\ x5 = None
           /\ x6 = None /\ x7 = None /\ x8 = None /\ x9 = None /\ x10 = None
           /\ Empty11

MCInit ==
    /\ part \in {"loggers", "plugins", "energy", "stream", "feed",
                "history"}
    /\ Init
    /\ part # "loggers" => db = [l \in Loggers |-> Disabled]
    /\ CASE part = "loggers" -> Empty1
         [] part = "plugins" -> Plugins!PluginInit /\ x1[i2] = None /\ Empty11
         [] part = "energy"  -> Energy!PipelineInit /\ Empty18
         [] part = "stream"  -> Stream!StreamInit
         [] part = "feed"    -> Feed!FeedInit
         [] part = "history" -> History!HistoryInit /\ ~x11.open /\ Empty12

\* A step of one part leaves the others alone.
OnlyLoggers == part = "loggers" /\ UNCHANGED <<part, slots>>
OnlyPlugins == part = "plugins" /\ UNCHANGED <<part, vars, x11, x12, x13, x14, x15,
                                            x16, x17, x18, x19>>
OnlyEnergy  == part = "energy" /\ UNCHANGED <<part, vars, x18, x19>>
OnlyStream  == part = "stream" /\ UNCHANGED <<part, vars>>
OnlyFeed    == part = "feed" /\ UNCHANGED <<part, vars>>
OnlyHistory == part = "history" /\ UNCHANGED <<part, vars, x12, x13, x14, x15,
                                            x16, x17, x18, x19>>

\* Dashboards are left to the other run of the energy plugin.
MCNext ==
    \/ OnlyLoggers /\ Next
    \/ OnlyPlugins /\ Plugins!PluginNext
    \/ OnlyEnergy /\ Energy!PipelineNext /\ UNCHANGED x16
    \/ OnlyStream /\ Stream!StreamNext
    \/ OnlyFeed /\ Feed!FeedNext
    \/ OnlyHistory /\ History!HistoryNext

\* The fairness of every part.  Since a behaviour has one part, one conjunct
\* holds one condition of each.
MCFairness ==
    /\ WF_all(\/ OnlyLoggers /\ Start
              \/ OnlyPlugins /\ (Plugins!StartManager \/ Plugins!Started)
              \/ OnlyEnergy /\ Energy!RuntimeStep
              \/ OnlyStream /\ Stream!Works
              \/ OnlyFeed /\ Feed!TagReceive)
    /\ WF_all(\/ OnlyLoggers /\ BeginReconcile
              \/ OnlyPlugins /\ Plugins!runReconciler
              \/ OnlyEnergy /\ Energy!PublishCommittedBatch
                   /\ UNCHANGED <<x12, x13, x14, x15, x16, x17>>
              \/ OnlyFeed /\ Feed!TagReturns)
    /\ WF_all(\/ OnlyLoggers /\ Swap
              \/ OnlyPlugins /\ (\E z \in Plugins!Procs : Plugins!Proceed(z))
              \/ OnlyFeed /\ Feed!BatchReceive)
    /\ WF_all(\/ OnlyLoggers /\ StartJobs
              \/ OnlyPlugins /\ (\E i \in {i1, i2} : Plugins!JobStops(i))
              \/ OnlyFeed /\ Feed!BatchPublish(p))
    /\ WF_all(\/ OnlyLoggers /\ StartRefused
              \/ OnlyFeed /\ Feed!BatchReturns
              \/ OnlyHistory /\ History!ListRetention)
    /\ WF_all(\/ OnlyLoggers /\ Stop /\ (parentDone \/ started = "failed")
              \/ OnlyFeed /\ Feed!finish
              \/ OnlyHistory /\ History!CleanupRetention)
    /\ WF_all(\/ OnlyLoggers /\ StopReturns
              \/ OnlyFeed /\ Feed!ReadSample)
    /\ \A l \in Loggers, s \in Slots :
         /\ WF_all(OnlyLoggers /\ Waited(l, s))
         /\ WF_all(OnlyLoggers /\ (job[l][s].cancelled \/ RuntimeDone)
                                    /\ JobEnds(l, s))
    /\ WF_all(OnlyFeed /\ Feed!AnnounceBatch)
    /\ WF_all(OnlyFeed /\ Feed!WatchTags)
    /\ SF_all(\/ OnlyLoggers /\ List
              \/ OnlyPlugins /\ Plugins!Lock("ticker"))
    /\ SF_all(\/ OnlyLoggers /\ ReconcilerExits
              \/ OnlyPlugins /\ Plugins!Sweep("ticker"))

MCSpec == MCInit /\ [][MCNext]_all /\ MCFairness

-----------------------------------------------------------------------------
(* The properties of the parts *)

\* As long as nobody edits and nobody stops them, the job of every logger, and
\* of every plugin instance, becomes the one the database asks for, although a
\* reconciliation may fail (Runtime.Reconcile, Manager.Reconcile).
RuntimesConverge ==
    \/ part = "loggers"
    \/ part = "plugins" /\ Plugins!Settling
    ~>
    \/ part = "loggers" /\ (Converged \/ parentDone \/ stopped)
    \/ part = "plugins" /\ Plugins!Settled

\* What is told to end ends: Stop of the data logger runtime returns, and a
\* stream that its reader left or that failed leaves no goroutine, subscription
\* or open channel behind (datalogger/runtime.go, asset/measurement.go,
\* asset/live/reader.go, publisher/source_feed.go).
EverythingEnds ==
    \/ part = "loggers" /\ stop = "wait"
    \/ part = "stream" /\ Stream!StreamEnding
    \/ part = "feed" /\ Feed!Ending
    ~>
    \/ part = "loggers" /\ stop = "done"
    \/ part = "stream" /\ Stream!StreamGone
    \/ part = "feed" /\ Feed!TornDown

\* A committed batch that the energy plugin has not counted is counted, or a
\* newer one is (plugin/energy/runtime.go); a value of a selected tag arrives at
\* the transport, or a later one does, unless the feed ends
\* (publisher/source_feed.go).
NewestReached ==
    \A n \in 1..2 :
      \/ part = "energy" /\ Energy!Behind
      \/ part = "feed" /\ Feed!Due(a, n)
      ~>
      \/ part = "energy" /\ ~Energy!Behind
      \/ part = "feed" /\ Feed!Arrived(a, n)

\* datalogger/retention_runtime.go: a history left over the limit of its policy
\* is brought below it.
LimitRestored ==
    (part = "history" /\ History!OverLimit) ~> ~(part = "history" /\ History!OverLimit)
=============================================================================
