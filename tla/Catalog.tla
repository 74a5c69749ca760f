------------------------------- MODULE Catalog -------------------------------
(***************************************************************************)
(* The rows an engineer edits: devices and datasources under a vGateway,   *)
(* tags that read a datasource, and calculated tags with the tags their    *)
(* expressions refer to.                                                   *)
(*                                                                         *)
(* device/service.go, device/postgres/repository.go, tag/service.go,       *)
(* tag/postgres/repository.go, migrations 000003 and 000004.               *)
(*                                                                         *)
(* A request reads, checks what it read, and writes in one statement or    *)
(* transaction; requests interleave between those.  The rows a row refers  *)
(* to keep the database's promises: a foreign key refuses a missing row,   *)
(* and a deleted row takes the rows below it with it.  An id is given      *)
(* once.  Names, descriptions and the values of configurations are left    *)
(* out, except the tags that an expression refers to.                      *)
(***************************************************************************)
EXTENDS Integers, FiniteSets

CONSTANTS
    Gateways, Devices, Sources,  \* ids of the rows of the three tables
    Parent,       \* the gateway of a device and the device of a datasource
    Readings,     \* ids of tags that read a datasource
    Calculated,   \* ids of calculated tags
    Callers,      \* API requests that may run at the same time
    Present,      \* the rows of devices and datasources at the start
    NoRow,        \* a tag that is not in the database
    MaxEdits   \* bound of all requests

TagIDs == Readings \cup Calculated
Above == Gateways \cup Devices \cup Sources

TagRow == [source : SUBSET Sources, refs : SUBSET TagIDs]

\* An id is of one table, and a row that is there has the row above it.
ASSUME CatalogAssumption ==
    /\ Parent \in [Devices \cup Sources -> Gateways \cup Devices]
    /\ \A d \in Devices : Parent[d] \in Gateways
    /\ \A s \in Sources : Parent[s] \in Devices
    /\ Gateways \cap Devices = {} /\ Gateways \cap Sources = {} /\ Devices \cap Sources = {}
    /\ Above \cap TagIDs = {} /\ Readings \cap Calculated = {}
    /\ Present \subseteq Above /\ \A r \in Present \ Gateways : Parent[r] \in Present
    /\ IsFiniteSet(TagIDs) /\ NoRow \notin TagRow
    /\ MaxEdits \in Nat

VARIABLES
    tableRows,      \* the gateways, devices and datasources in the database
    tagRows,      \* the table tags: the datasource and the references of a tag
    deps,      \* the table tag_dependencies
    used,      \* ids that were given
    samples,   \* s.samples of the device service: datasources with a sample
    procs,     \* the request of each caller
    requests,  \* requests made so far
    overlap    \* a tag was saved after a check that an other save outdated

catalogVars == <<tableRows, tagRows, deps, used, samples, procs, requests, overlap>>
tables == <<tableRows, tagRows, deps, used>>

Idle == [at |-> "idle", id |-> NoRow, row |-> NoRow, own |-> {}, graph |-> {}]

CatalogTypeOK ==
    /\ tableRows \subseteq Above /\ used \subseteq Above \cup TagIDs
    /\ tagRows \in [TagIDs -> TagRow \cup {NoRow}]
    /\ deps \subseteq TagIDs \X TagIDs
    /\ samples \subseteq Sources

CatalogInit ==
    /\ tableRows = Present /\ used = Present
    /\ tagRows = [t \in TagIDs |-> NoRow] /\ deps = {}
    /\ samples = {}
    /\ procs = [c \in Callers |-> Idle]
    /\ requests = 0 /\ overlap = FALSE

Saved == {t \in TagIDs : tagRows[t] # NoRow}

Begin(c) ==
    /\ procs[c].at = "idle" /\ requests < MaxEdits
    /\ requests' = requests + 1
Finish(c) == procs' = [procs EXCEPT ![c] = Idle]
Goto(c, at) == procs' = [procs EXCEPT ![c].at = at]

----------------------------------------------------------------------------
(* Deleting a row: what ON DELETE CASCADE takes with it. *)

\* The row itself and everything below it.
Below(r) == {x \in Above : \/ x = r
                           \/ x \in DOMAIN Parent /\ Parent[x] = r
                           \/ x \in Sources /\ Parent[Parent[x]] = r}

DropTags(gone) ==
    /\ tagRows' = [t \in TagIDs |-> IF t \in gone THEN NoRow ELSE tagRows[t]]
    /\ deps' = {e \in deps : e[1] \notin gone /\ e[2] \notin gone}

DropRow(r) ==
    /\ tableRows' = tableRows \ Below(r)
    /\ DropTags({t \in Saved : tagRows[t].source \cap Below(r) # {}})

----------------------------------------------------------------------------
(* Devices and datasources *)

\* CreateDevice and CreateDatasource first look for the row above.
CreateRow(c, r) ==
    /\ Begin(c)
    /\ r \in (Devices \cup Sources) \ used
    /\ IF Parent[r] \in tableRows
       THEN /\ used' = used \cup {r}
            /\ procs' = [procs EXCEPT ![c] = [Idle EXCEPT !.at = "insert", !.id = r]]
       ELSE UNCHANGED <<used, procs>>     \* 404
    /\ UNCHANGED <<tableRows, tagRows, deps, samples, overlap>>

\* The foreign key refuses a row whose parent is gone by now, and the unique
\* index a name that another row has.
InsertRow(c) ==
    /\ procs[c].at = "insert"
    /\ \/ Parent[procs[c].id] \in tableRows /\ tableRows' = tableRows \cup {procs[c].id}
       \/ UNCHANGED tableRows
    /\ Finish(c)
    /\ UNCHANGED <<tagRows, deps, used, samples, requests, overlap>>

\* UpdateDevice, DeleteDevice and their like for a datasource begin with the list
\* of the datasources whose monitors and samples they will end.
Affected(r) == IF r \in Sources THEN {r} ELSE {s \in Sources \cap tableRows : Parent[s] = r}

ChangeRow(c, r, at) ==
    /\ Begin(c)
    /\ r \in (Devices \cup Sources) \cap used
    /\ at \in {"update", "delete"}
    /\ at = "update" => r \in tableRows
    /\ procs' = [procs EXCEPT ![c] = [Idle EXCEPT !.at = at, !.id = r,
                                                  !.graph = Affected(r)]]
    /\ UNCHANGED <<tables, samples, overlap>>

WriteRow(c) ==
    /\ procs[c].at = "update"
    /\ IF procs[c].id \in tableRows THEN Goto(c, "forget") ELSE Finish(c)
    /\ UNCHANGED <<tables, samples, requests, overlap>>

DeleteRow(c) ==
    /\ procs[c].at = "delete"
    /\ IF procs[c].id \in tableRows
       THEN DropRow(procs[c].id) /\ Goto(c, "forget")
       ELSE UNCHANGED <<tableRows, tagRows, deps>> /\ Finish(c)
    /\ UNCHANGED <<used, samples, requests, overlap>>

deleteSamples(c) ==
    /\ procs[c].at = "forget"
    /\ samples' = samples \ procs[c].graph
    /\ Finish(c)
    /\ UNCHANGED <<tables, requests, overlap>>

\* The vGateway is deleted by its own service, which knows no samples.
DeleteGateway(c, g) ==
    /\ Begin(c) /\ g \in tableRows
    /\ DropRow(g)
    /\ UNCHANGED <<used, samples, procs, overlap>>

\* PreviewSavedDatasource: the row is read, then the device, and then the sample
\* is stored under the id, whatever has become of the row.
readSavedDatasource(c, s) ==
    /\ Begin(c) /\ s \in tableRows
    /\ procs' = [procs EXCEPT ![c] = [Idle EXCEPT !.at = "read", !.id = s]]
    /\ UNCHANGED <<tables, samples, overlap>>

storeSample(c) ==
    /\ procs[c].at = "read"
    /\ \/ samples' = samples \cup {procs[c].id}
       \/ UNCHANGED samples     \* the read fails
    /\ Finish(c)
    /\ UNCHANGED <<tables, requests, overlap>>

----------------------------------------------------------------------------
(* Tags *)

\* The tags that t reaches over one or more edges of graph: the least set that
\* holds the tags t refers to and what those refer to.
Reaches(graph, t, u) ==
    \A S \in SUBSET TagIDs :
        (\A e \in graph : e[1] \in S \cup {t} => e[2] \in S) => u \in S

\* Faulty variant: only a tag that refers to itself is refused.
DirectCycle(graph, t, refs) == t \in refs

\* graphCycleState walks the stored edges, with those of the tag replaced by the
\* new ones, and finds a cycle anywhere below the tag.
Replaced(graph, t, refs) == {e \in graph : e[1] # t} \cup ({t} \X refs)
graphCycleState(graph, t, refs) ==
    LET new == Replaced(graph, t, refs)
    IN  \E u \in TagIDs : /\ u = t \/ Reaches(new, t, u)
                        /\ Reaches(new, u, u)

\* A new tag, and the row of a tag that an update read and changed.
Prepare(c, t, row, own) ==
    /\ row.source # {} <=> t \in Readings
    /\ Cardinality(row.source) <= 1
    /\ row.refs # {} <=> t \in Calculated     \* at least the trigger
    /\ procs' = [procs EXCEPT ![c] = [Idle EXCEPT !.id = t, !.row = row, !.own = own,
                   !.at = IF t \in Calculated THEN "check" ELSE "save"]]

CreateTag(c, t) ==
    /\ Begin(c) /\ t \notin used
    /\ used' = used \cup {t}
    /\ \E row \in TagRow : Prepare(c, t, row, {})
    /\ UNCHANGED <<tableRows, tagRows, deps, samples, overlap>>

UpdateTag(c, t) ==
    /\ Begin(c) /\ t \in Saved
    /\ \E row \in TagRow : Prepare(c, t, row, {t})
    /\ UNCHANGED <<tables, samples, overlap>>

\* validateCalculatedTrigger and validateDependencyGraph.
validateDependencyGraph(c) ==
    LET refs == procs[c].row.refs
    IN  /\ procs[c].at = "check"
        /\ IF refs \subseteq Saved /\ ~graphCycleState(deps, procs[c].id, refs)
           THEN procs' = [procs EXCEPT ![c].at = "save", ![c].graph = deps]
           ELSE Finish(c)     \* 400
        /\ UNCHANGED <<tables, samples, requests, overlap>>

\* One transaction writes the row and all its dependencies, or nothing at all
\* when a foreign key fails; an updated row must still be there.  A name that is
\* taken is one more reason to write nothing.
References(c) == procs[c].own \cup procs[c].row.source \cup procs[c].row.refs
Existing == tableRows \cup Saved

WriteTag(c, fresh) ==
    LET t == procs[c].id
    IN  /\ tagRows' = [tagRows EXCEPT ![t] = procs[c].row]
        /\ deps' = Replaced(deps, t, procs[c].row.refs)
        /\ overlap' = (overlap \/ (t \in Calculated /\ ~fresh))

SaveTag(c) ==
    LET fresh == {e \in deps : e[1] # procs[c].id} \subseteq procs[c].graph
    IN  /\ procs[c].at = "save"
        /\ \/ References(c) \subseteq Existing /\ WriteTag(c, fresh)
           \/ UNCHANGED <<tagRows, deps, overlap>>
        /\ Finish(c)
        /\ UNCHANGED <<tableRows, used, samples, requests>>

RemoveTag(c, t) ==
    /\ Begin(c) /\ t \in Saved
    /\ DropTags({t})
    /\ UNCHANGED <<tableRows, used, samples, procs, overlap>>

----------------------------------------------------------------------------
CatalogNext ==
    \E c \in Callers :
        \/ \E r \in Devices \cup Sources :
              \/ CreateRow(c, r)
              \/ \E at \in {"update", "delete"} : ChangeRow(c, r, at)
        \/ InsertRow(c) \/ WriteRow(c) \/ DeleteRow(c) \/ deleteSamples(c)
        \/ \E g \in Gateways : DeleteGateway(c, g)
        \/ \E s \in Sources : readSavedDatasource(c, s)
        \/ storeSample(c)
        \/ \E t \in TagIDs : CreateTag(c, t) \/ UpdateTag(c, t) \/ RemoveTag(c, t)
        \/ validateDependencyGraph(c)
        \/ SaveTag(c)

CatalogSpec == CatalogInit /\ [][CatalogNext]_catalogVars

----------------------------------------------------------------------------
(* Safety *)

\* Every row that refers to an other finds it: a device its gateway, a datasource
\* its device, a reading tag its datasource.  What a calculated tag depends on is
\* what its expression refers to, less the tags that were deleted since, however
\* saves and deletes interleave, and a tag that is gone leaves no dependency.
ReferencesHold ==
    /\ \A r \in tableRows \ Gateways : Parent[r] \in tableRows
    /\ \A t \in TagIDs : {e[2] : e \in {x \in deps : x[1] = t}} =
                       IF t \in Saved THEN tagRows[t].refs \cap Saved ELSE {}
    /\ \A t \in Saved : tagRows[t].source \subseteq tableRows

\* Calculated tags form a cycle only when a save was under way while an other tag
\* was saved: one save at a time, the check of the stored graph is enough.
CyclesNeedOverlap == (\E t \in TagIDs : Reaches(deps, t, t)) => overlap

\* The rows and what refers to them.
CatalogSound == CatalogTypeOK /\ ReferencesHold /\ CyclesNeedOverlap

=============================================================================
