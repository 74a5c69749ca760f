--------------------------- MODULE MeasurementRuns ---------------------------
(***************************************************************************)
(* The measurement runs of an Energy instance and the history that is read *)
(* within the active one: runs are started at the newest batch, archived   *)
(* with what they measured, and followed at once by the next run; a CSV    *)
(* export reads the history page by page, in windows counted back from its *)
(* end.                                                                    *)
(*                                                                         *)
(* plugin/energy/service.go, measurement_run.go,                           *)
(* postgres/measurement_run_repository.go, migration 000020.               *)
(*                                                                         *)
(* Requests interleave between their database calls.  Times are whole      *)
(* numbers; 0 is before every batch.  An archive is the period it covers   *)
(* and the configuration its numbers were computed with; the numbers of a  *)
(* period are those of EnergyPlugin.tla.                                   *)
(***************************************************************************)
EXTENDS Integers, Sequences

CONSTANTS
    RunClients,   \* requests that may run at the same time
    Periods,      \* the periods that exports ask for, <<from, to>>
    Bucket,       \* length of a history window, one of the fixed ones (no day or week)
    GridOffset,   \* where the windows of a year begin in the time zone of each configuration
    PerPage,      \* windows of a page of the export
    MaxBatchTime, \* bound of the batch times
    MaxRuns,      \* bound of the runs
    MaxConfigs,   \* bound of the configurations of the instance
    MaxRunRequests,  \* bound of the requests
    NoRun         \* no run

Run == [id : Nat, started : Nat, config : 1..MaxConfigs]

ASSUME RunsAssumption ==
    /\ \A p \in Periods : p[1] \in Nat /\ p[2] \in Nat /\ p[1] < p[2]
    /\ Bucket \in Nat \ {0} /\ PerPage \in Nat \ {0}
    /\ MaxBatchTime \in Nat /\ MaxRuns \in Nat
    /\ MaxConfigs \in Nat \ {0} /\ MaxRunRequests \in Nat
    /\ GridOffset \in [1..MaxConfigs -> 0 .. Bucket - 1]
    /\ NoRun \notin Run

VARIABLES
    newest,    \* the time of the newest committed batch, 0 when there is none
    config,    \* the configuration of the plugin instance
    active,    \* the row with status active
    archived,  \* the rows with status archived, as they were archived
    nextID,    \* ids given to runs
    client,    \* the request of each client
    made       \* requests made so far

runsVars == <<newest, config, active, archived, nextID, client, made>>

Quiet == [at |-> "idle", op |-> "none", run |-> NoRun, cutoff |-> 0, config |-> 0,
          archive |-> NoRun, from |-> 0, to |-> 0, page |-> 1, rows |-> <<>>]

RunsTypeOK ==
    /\ newest \in 0..MaxBatchTime /\ config \in 1..MaxConfigs
    /\ active \in Run \cup {NoRun}
    /\ \A i \in DOMAIN archived : archived[i].run \in Run /\ archived[i].ended \in Nat
    /\ nextID \in 0..MaxRuns

RunsInit ==
    /\ newest = 0 /\ config = 1
    /\ active = NoRun /\ archived = <<>> /\ nextID = 0
    /\ client = [c \in RunClients |-> Quiet]
    /\ made = 0

rest == <<newest, config>>
runRows == <<active, archived, nextID>>
Reply(c) == client' = [client EXCEPT ![c] = Quiet]
LaterOf(a, b) == IF a > b THEN a ELSE b
EarlierOf(a, b) == IF a < b THEN a ELSE b

----------------------------------------------------------------------------
(* The windows of a history request, each with the grid it lies on. *)

\* Faulty variant: windows are counted from the start of the period.
WindowsFromTheStart(offset, from, to) ==
    LET total == IF to > from THEN (to - from + Bucket - 1) \div Bucket ELSE 0
    IN  [i \in 1..total |-> LET start == from + Bucket * (total - i)
                            IN  <<start, EarlierOf(to, start + Bucket), offset>>]

\* pagedFixedBucketWindows: buckets from the first of January in the zone of the
\* configuration on, newest first, the first and the last cut to the period.
Windows(offset, from, to) ==
    LET cursor == ((to - offset + Bucket - 1) \div Bucket) * Bucket + offset
        total == IF cursor > from THEN (cursor - from + Bucket - 1) \div Bucket ELSE 0
    IN  [i \in 1..total |-> <<LaterOf(from, cursor - Bucket * i),
                              EarlierOf(to, cursor - Bucket * (i - 1)), offset>>]

Page(windows, page) ==
    SubSeq(windows, (page - 1) * PerPage + 1, EarlierOf(page * PerPage, Len(windows)))

----------------------------------------------------------------------------
(* The batches and the instance. *)

\* A batch is committed; the rows of a deleted tag take batches with them.
Commit == /\ newest < MaxBatchTime /\ newest' = newest + 1
          /\ UNCHANGED <<config, runRows, client, made>>
LoseBatch == newest > 0 /\ newest' = newest - 1 /\ UNCHANGED <<config, runRows, client, made>>
Reconfigure == /\ config < MaxConfigs /\ config' = config + 1
               /\ UNCHANGED <<newest, runRows, client, made>>

----------------------------------------------------------------------------
(* ensureActiveRun, with which every request begins. *)

Request(c, op) ==
    /\ client[c].at = "idle" /\ made < MaxRunRequests /\ op \in {"current", "reset", "export"}
    /\ made' = made + 1
    /\ \E period \in IF op = "export" THEN Periods ELSE {<<0, 0>>} :
          client' = [client EXCEPT ![c] = [Quiet EXCEPT !.at = "load", !.op = op,
                                               !.from = period[1], !.to = period[2]]]
    /\ UNCHANGED <<rest, runRows>>

\* loadEnergyInstance, by a request and by every page of an export.
LoadInstance(c) ==
    /\ client[c].at = "load"
    /\ client' = [client EXCEPT ![c].at = "find", ![c].config = config]
    /\ UNCHANGED <<rest, runRows, made>>

Proceed(c, run) ==
    CASE client[c].op = "current" -> Reply(c)
      [] client[c].op = "reset" ->
            client' = [client EXCEPT ![c].at = "latest", ![c].run = run]
      [] client[c].op = "export" ->
            client' = [client EXCEPT ![c].at = "page", ![c].run = run]

\* FindActive.
FindActive(c) ==
    /\ client[c].at = "find"
    /\ IF active # NoRun THEN Proceed(c, active)
       ELSE client' = [client EXCEPT ![c].at = "first"]
    /\ UNCHANGED <<rest, runRows, made>>

\* LatestBatch: without one there is no run to start.
FirstBatch(c) ==
    /\ client[c].at = "first"
    /\ IF newest = 0 THEN Reply(c)
       ELSE client' = [client EXCEPT ![c].at = "start", ![c].cutoff = newest]
    /\ UNCHANGED <<rest, runRows, made>>

NewRun(c, at) == [id |-> nextID + 1, started |-> at, config |-> client[c].config]

\* Start: the unique index lets one of two starters win; the other gets a conflict.
Start(c) ==
    /\ client[c].at = "start" /\ nextID < MaxRuns
    /\ IF active = NoRun
       THEN /\ active' = NewRun(c, client[c].cutoff) /\ nextID' = nextID + 1
            /\ Proceed(c, active')
       ELSE Reply(c) /\ UNCHANGED <<active, nextID>>
    /\ UNCHANGED <<rest, archived, made>>

----------------------------------------------------------------------------
(* ResetRun *)

\* buildRunArchive: the whole of the run up to the cutoff, computed with the
\* configuration that the run was started with.
buildRunArchive(run, cutoff) == [run |-> run.id, from |-> run.started, to |-> cutoff,
                                 config |-> run.config,
                                 windows |-> Windows(GridOffset[run.config], run.started, cutoff)]

\* LatestBatch, the check of the run the user saw, and the archive.
PrepareReset(c) ==
    /\ client[c].at = "latest"
    /\ \/ Reply(c)     \* there is no batch, or the user saw an other run
       \/ /\ newest # 0 /\ newest >= client[c].run.started
          /\ client' = [client EXCEPT ![c].at = "archive", ![c].cutoff = newest,
                            ![c].archive = buildRunArchive(client[c].run, newest)]
    /\ UNCHANGED <<rest, runRows, made>>

Archive(c) ==
    /\ archived' = Append(archived, [run |-> active, ended |-> client[c].cutoff,
                                     payload |-> client[c].archive])
    /\ active' = NewRun(c, client[c].cutoff)
    /\ nextID' = nextID + 1

\* ArchiveAndStart, one transaction that locks the active row.
ArchiveAndStart(c) ==
    /\ client[c].at = "archive" /\ nextID < MaxRuns
    /\ IF /\ active # NoRun /\ active.id = client[c].run.id
          /\ client[c].cutoff >= active.started
       THEN Archive(c) ELSE UNCHANGED runRows
    /\ Reply(c)
    /\ UNCHANGED <<rest, made>>

----------------------------------------------------------------------------
(* ExportCSV: a page is a request of its own, with the configuration and the run of *)
(* its time.                                                                        *)

ExportPage(c) ==
    LET from == LaterOf(client[c].from, client[c].run.started)
        windows == Windows(GridOffset[client[c].config], from, LaterOf(from, client[c].to))
        page == Page(windows, client[c].page)
        all == client[c].rows \o page
    IN  /\ client[c].at = "page"
        /\ client' = [client EXCEPT ![c].rows = all, ![c].page = @ + 1,
              ![c].at = IF client[c].page * PerPage >= Len(windows) \/ page = <<>>
                        THEN "exported" ELSE "load"]
        /\ UNCHANGED <<rest, runRows, made>>

Exported(c) ==
    /\ client[c].at = "exported" /\ Reply(c)
    /\ UNCHANGED <<rest, runRows, made>>

----------------------------------------------------------------------------
RunsNext ==
    \/ Commit \/ LoseBatch \/ Reconfigure
    \/ \E c \in RunClients :
          \/ \E op \in {"current", "reset", "export"} : Request(c, op)
          \/ LoadInstance(c) \/ FindActive(c) \/ FirstBatch(c) \/ Start(c)
          \/ PrepareReset(c) \/ ArchiveAndStart(c)
          \/ ExportPage(c) \/ Exported(c)

RunsSpec == RunsInit /\ [][RunsNext]_runsVars

----------------------------------------------------------------------------
(* Safety *)

\* The runs follow one an other without gap or overlap, however first requests and
\* resets meet: each was archived no earlier than it began, the next began where it
\* ended, and what is kept of it is its own period under its own configuration.
RunsTile ==
    LET Begins(i) == IF i < Len(archived) THEN archived[i + 1].run ELSE active
    IN  \A i \in DOMAIN archived :
            /\ archived[i].run.started <= archived[i].ended
            /\ Begins(i) # NoRun /\ Begins(i).started = archived[i].ended
            /\ archived[i].payload =
                  buildRunArchive(archived[i].run, archived[i].ended)

\* The rows of an export go back from the end of the period asked for and stay in it,
\* even when a run is reset or the instance is given an other time zone between two of
\* its pages.  Rows of one zone join without gap or overlap; where the zone changed,
\* the export has a gap or an overlap there, of less than one window.
\* (A run that begins after the period gives one empty row.)
Measured(row) == row[1] < row[2]
Joins(later, earlier) ==
    /\ earlier[2] - later[1] \in 1 - Bucket .. Bucket - 1
    /\ earlier[3] = later[3] => earlier[2] = later[1]
ExportContiguous ==
    \A c \in RunClients :
        LET out == client[c].rows
            full == {i \in DOMAIN out : Measured(out[i])}
        IN  \A i \in full :
                /\ client[c].from <= out[i][1] /\ out[i][2] <= client[c].to
                /\ (\A j \in full : i <= j) => out[i][2] = client[c].to
                /\ \A j \in full : (j < i /\ \A k \in full : k <= j \/ i <= k) =>
                      Joins(out[j], out[i])

\* The runs and what is exported of them.
RunsSound == RunsTypeOK /\ RunsTile /\ ExportContiguous

=============================================================================
