----------------------------- MODULE DataProofs ------------------------------
(***************************************************************************)
(* Proofs about the services that keep data: the rows that an engineer     *)
(* edits, the measurement runs with what is exported of them, the values   *)
(* that follow a source, the assets, and the history of a data logger.     *)
(***************************************************************************)
EXTENDS Catalog, MeasurementRuns, SourceSubscription, Assets, LoggerHistory,
        SequenceTheorems, FiniteSetTheorems, WellFoundedInduction, NaturalsInduction, TLAPS

----------------------------------------------------------------------------
(* The rows that an engineer edits (Catalog).                              *)
(*                                                                         *)
(* The foreign keys and cascades hold a tag to the row it reads.  For what *)
(* a calculated tag refers to, the invariant adds that an id is given      *)
(* once and that nothing refers to a tag before it is saved, so that an    *)
(* edge is there exactly when both its tags are; and, for the cycles, that *)
(* what a check found still holds of the graph that it saw: when no other  *)
(* save came between, that graph is the stored one.                        *)

(* What a request holds while it is under way.                             *)
Entry == [at : {"idle", "insert", "update", "delete", "forget", "read", "check", "save"},
          id : Above \cup TagIDs \cup {NoRow}, row : TagRow \cup {NoRow},
          own : SUBSET TagIDs, graph : SUBSET (Sources \cup (TagIDs \X TagIDs))]
Tagging(p) == p.at \in {"check", "save"}

EntryOK(p) ==
    /\ p.at \in {"insert", "update", "delete"} => p.id \in Devices \cup Sources
    /\ p.at = "read" => p.id \in Sources
    /\ Tagging(p) => /\ p.id \in TagIDs /\ p.row \in TagRow
                     /\ p.own = {} \/ p.own = {p.id}
                     /\ p.row.refs # {} => p.id \in Calculated

CatalogTypes ==
    /\ CatalogTypeOK
    /\ procs \in [Callers -> Entry] /\ \A c \in Callers : EntryOK(procs[c])
    /\ overlap \in BOOLEAN

\* A row that was referred to has an id that was given.
Given ==
    /\ Saved \subseteq used
    /\ \A t \in Saved : tagRows[t].refs \subseteq used
    /\ \A c \in Callers : Tagging(procs[c]) => procs[c].id \in used

\* Nothing refers to a tag that is being created, nor does another request save it.
Fresh ==
    \A c \in Callers : Tagging(procs[c]) /\ procs[c].own = {} =>
        /\ procs[c].id \notin Saved
        /\ \A t \in Saved : procs[c].id \notin tagRows[t].refs
        /\ \A d \in Callers : d # c /\ Tagging(procs[d]) => procs[d].id # procs[c].id

\* The two parts of ReferencesHold about tags, edge by edge.
Edges ==
    \A t \in TagIDs, u \in TagIDs :
        <<t, u>> \in deps <=> t \in Saved /\ u \in Saved /\ u \in tagRows[t].refs
Hanging ==
    /\ \A r \in tableRows \ Gateways : Parent[r] \in tableRows
    /\ \A t \in Saved : tagRows[t].source \subseteq tableRows

\* A check that passed stays true of the graph that it saw.
Checked ==
    \A c \in Callers : procs[c].at = "save" /\ procs[c].id \in Calculated =>
        ~graphCycleState(procs[c].graph, procs[c].id, procs[c].row.refs)

CatalogInv == CatalogTypes /\ Given /\ Fresh /\ Edges /\ Hanging /\ Checked /\ CyclesNeedOverlap

----------------------------------------------------------------------------
(* Reaching. *)

LEMMA MoreEdges ==
  ASSUME NEW G, NEW H, G \subseteq H, NEW t, NEW u, Reaches(G, t, u)
  PROVE  Reaches(H, t, u)
BY DEF Reaches

\* A cycle that the new edges of t make is one that t reaches: any other was there.
LEMMA CycleIsBelow ==
  ASSUME NEW G, NEW t \in TagIDs, NEW refs, NEW u \in TagIDs,
         LET new == Replaced(G, t, refs)
         IN  Reaches(new, u, u) /\ u # t /\ ~Reaches(new, t, u)
  PROVE  Reaches(G, u, u)
<1> DEFINE new == Replaced(G, t, refs)
<1>1. PICK R \in SUBSET TagIDs : (\A e \in new : e[1] \in R \cup {t} => e[2] \in R) /\ u \notin R
  BY DEF Reaches
<1> SUFFICES ASSUME NEW S \in SUBSET TagIDs, \A e \in G : e[1] \in S \cup {u} => e[2] \in S
             PROVE  u \in S
  BY DEF Reaches
<1> DEFINE T == S \cup R \cup {t}
<1>2. \A e \in new : e[1] # t => e \in G
  BY DEF Replaced
<1>3. \A e \in new : e[1] \in T \cup {u} => e[2] \in T
  BY <1>1, <1>2
<1>4. T \in SUBSET TagIDs
  OBVIOUS
<1>5. u \in T
  BY <1>3, <1>4 DEF Reaches
<1> QED BY <1>1, <1>5

\* What was checked of a graph holds of every graph that has no edge more.
LEMMA CheckSuffices ==
  ASSUME NEW G, NEW D, NEW t \in TagIDs, NEW refs,
         {e \in D : e[1] # t} \subseteq G, ~graphCycleState(G, t, refs),
         \A u \in TagIDs : ~Reaches(D, u, u)
  PROVE  \A u \in TagIDs : ~Reaches(Replaced(D, t, refs), u, u)
<1> SUFFICES ASSUME NEW u \in TagIDs, Reaches(Replaced(D, t, refs), u, u) PROVE FALSE
  OBVIOUS
<1>1. Replaced(D, t, refs) \subseteq Replaced(G, t, refs)
  BY DEF Replaced
<1>2. u = t \/ Reaches(Replaced(D, t, refs), t, u)
  BY CycleIsBelow
<1>3. u = t \/ Reaches(Replaced(G, t, refs), t, u)
  BY <1>1, <1>2, MoreEdges
<1>4. Reaches(Replaced(G, t, refs), u, u)
  BY <1>1, MoreEdges
<1> QED BY <1>3, <1>4 DEF graphCycleState

----------------------------------------------------------------------------
LEMMA CatalogStart == CatalogInit => CatalogInv
<1> SUFFICES ASSUME CatalogInit PROVE CatalogInv
  OBVIOUS
<1> USE CatalogAssumption DEF CatalogInit
<1>1. Saved = {}
  BY DEF Saved
<1>2. Idle \in Entry /\ EntryOK(Idle) /\ ~Tagging(Idle) /\ Idle.at # "save"
  BY DEF Idle, Entry, EntryOK, Tagging
<1>3. CatalogTypes
  BY <1>2 DEF CatalogTypes, CatalogTypeOK
<1>4. CyclesNeedOverlap
  <2>1. \A t \in TagIDs : ~Reaches(deps, t, t)
    BY DEF Reaches
  <2> QED BY <2>1 DEF CyclesNeedOverlap
<1> QED BY <1>1, <1>2, <1>3, <1>4 DEF CatalogInv, Given, Fresh, Edges, Hanging, Checked

\* The request of a caller becomes q, which saves no tag, or is as it was.
Moves(c, q) == procs' = procs \/ procs' = [procs EXCEPT ![c] = q]
Other(q) == q \in Entry /\ EntryOK(q) /\ ~Tagging(q)

LEMMA Moved ==
  ASSUME CatalogInv, NEW c \in Callers, NEW q, Other(q), Moves(c, q)
  PROVE  /\ procs' \in [Callers -> Entry] /\ \A d \in Callers : EntryOK(procs'[d])
         /\ \A d \in Callers : Tagging(procs'[d]) => procs'[d] = procs[d]
         /\ \A d \in Callers : procs'[d].at = "save" => procs'[d] = procs[d]
<1>1. procs \in [Callers -> Entry] /\ \A d \in Callers : EntryOK(procs[d])
  BY DEF CatalogInv, CatalogTypes
<1> QED BY <1>1 DEF Moves, Other, Tagging

\* Rows come, and no tag changes.
LEMMA RowsGrow ==
  ASSUME CatalogInv, NEW c \in Callers, NEW q, Other(q), Moves(c, q),
         UNCHANGED <<tagRows, deps, overlap>>,
         tableRows \subseteq tableRows', tableRows' \subseteq Above, \A r \in tableRows' \ Gateways : Parent[r] \in tableRows',
         used \subseteq used', used' \subseteq Above \cup TagIDs, samples' \subseteq Sources
  PROVE  CatalogInv'
<1>1. CatalogTypes'
  BY Moved DEF CatalogInv, CatalogTypes, CatalogTypeOK
<1>2. Given'
  BY Moved DEF CatalogInv, Given, Saved
<1>3. Fresh'
  BY Moved DEF CatalogInv, Fresh, Saved
<1>4. Edges' /\ Hanging'
  BY DEF CatalogInv, Edges, Hanging, Saved
<1>5. Checked'
  BY Moved DEF CatalogInv, Checked
<1>6. CyclesNeedOverlap'
  BY DEF CatalogInv, CyclesNeedOverlap
<1> QED BY <1>1, <1>2, <1>3, <1>4, <1>5, <1>6 DEF CatalogInv

\* Rows and tags go, and a tag takes its edges with it.
LEMMA RowsShrink ==
  ASSUME CatalogInv, NEW c \in Callers, NEW q, Other(q), Moves(c, q),
         NEW gone, DropTags(gone), UNCHANGED <<used, samples, overlap>>,
         tableRows' \subseteq tableRows, \A r \in tableRows' \ Gateways : Parent[r] \in tableRows',
         \A t \in Saved \ gone : tagRows[t].source \subseteq tableRows'
  PROVE  CatalogInv'
<1>1. /\ tagRows \in [TagIDs -> TagRow \cup {NoRow}] /\ deps \subseteq TagIDs \X TagIDs
  BY DEF CatalogInv, CatalogTypes, CatalogTypeOK
<1>2. /\ tagRows' \in [TagIDs -> TagRow \cup {NoRow}] /\ deps' \subseteq deps
      /\ \A t \in TagIDs : tagRows'[t] = IF t \in gone THEN NoRow ELSE tagRows[t]
  BY <1>1 DEF DropTags
<1>3. Saved' = Saved \ gone /\ \A t \in Saved' : tagRows'[t] = tagRows[t]
  BY <1>2 DEF Saved
<1>4. CatalogTypes'
  BY <1>1, <1>2, Moved DEF CatalogInv, CatalogTypes, CatalogTypeOK
<1>5. Given'
  BY <1>3, Moved DEF CatalogInv, Given
<1>6. Fresh'
  BY <1>3, Moved DEF CatalogInv, Fresh
<1>7. Edges'
  <2> SUFFICES ASSUME NEW t \in TagIDs, NEW u \in TagIDs
               PROVE  <<t, u>> \in deps' <=> t \in Saved' /\ u \in Saved' /\ u \in tagRows'[t].refs
    BY DEF Edges
  <2>1. <<t, u>> \in deps <=> t \in Saved /\ u \in Saved /\ u \in tagRows[t].refs
    BY DEF CatalogInv, Edges
  <2>2. <<t, u>> \in deps' <=> <<t, u>> \in deps /\ t \notin gone /\ u \notin gone
    BY DEF DropTags
  <2> QED BY <1>3, <2>1, <2>2
<1>8. Hanging'
  BY <1>3 DEF Hanging
<1>9. Checked'
  BY Moved DEF CatalogInv, Checked
<1>10. CyclesNeedOverlap'
  BY <1>2, MoreEdges DEF CatalogInv, CyclesNeedOverlap
<1> QED BY <1>4, <1>5, <1>6, <1>7, <1>8, <1>9, <1>10 DEF CatalogInv

\* A row goes with everything below it, and the tags that read one of those.
LEMMA RowDropped ==
  ASSUME CatalogInv, NEW c \in Callers, NEW q, Other(q), Moves(c, q),
         NEW r \in Above, DropRow(r), UNCHANGED <<used, samples, overlap>>
  PROVE  CatalogInv'
<1>1. tableRows \subseteq Above /\ \A x \in tableRows \ Gateways : Parent[x] \in tableRows
  BY DEF CatalogInv, CatalogTypes, CatalogTypeOK, Hanging
<1>2. tableRows' = tableRows \ Below(r) /\ DropTags({t \in Saved : tagRows[t].source \cap Below(r) # {}})
  BY DEF DropRow
<1>3. ASSUME NEW x \in tableRows' \ Gateways PROVE Parent[x] \in tableRows'
  <2>1. x \in Devices \cup Sources /\ x \in tableRows /\ Parent[x] \in tableRows
    BY <1>1, <1>2 DEF Above
  <2>2. x # r /\ Parent[x] # r /\ (x \in Sources => Parent[Parent[x]] # r)
    BY <1>1, <1>2, <2>1, CatalogAssumption DEF Below
  <2>3. Parent[x] \in Gateways \/ (x \in Sources /\ Parent[x] \in Devices)
    BY <2>1, CatalogAssumption
  <2>4. Parent[x] \notin Below(r)
    BY <2>2, <2>3, CatalogAssumption DEF Below
  <2> QED BY <1>2, <2>1, <2>4
<1>4. ASSUME NEW t \in Saved, tagRows[t].source \cap Below(r) = {}
      PROVE  tagRows[t].source \subseteq tableRows'
  BY <1>2, <1>4 DEF CatalogInv, Hanging
<1> DEFINE gone == {t \in Saved : tagRows[t].source \cap Below(r) # {}}
<1>5. \A t \in Saved \ gone : tagRows[t].source \subseteq tableRows'
  BY <1>4
<1> HIDE DEF gone
<1>6. DropTags(gone)
  BY <1>2 DEF gone
<1> QED BY <1>2, <1>3, <1>5, <1>6, RowsShrink

LEMMA IdleIsOther == Other(Idle)
BY DEF Other, Idle, Entry, EntryOK, Tagging

LEMMA RowRequests ==
  ASSUME CatalogInv, NEW c \in Callers,
         \/ \E r \in Devices \cup Sources :
              CreateRow(c, r) \/ \E at \in {"update", "delete"} : ChangeRow(c, r, at)
         \/ InsertRow(c) \/ WriteRow(c) \/ DeleteRow(c) \/ deleteSamples(c)
         \/ \E g \in Gateways : DeleteGateway(c, g)
         \/ \E s \in Sources : readSavedDatasource(c, s)
         \/ storeSample(c)
  PROVE  CatalogInv'
<1>1. /\ tableRows \subseteq Above /\ used \subseteq Above \cup TagIDs /\ samples \subseteq Sources
      /\ \A r \in tableRows \ Gateways : Parent[r] \in tableRows
      /\ procs[c] \in Entry /\ EntryOK(procs[c])
  BY DEF CatalogInv, CatalogTypes, CatalogTypeOK, Hanging
<1>2. ASSUME NEW r \in Devices \cup Sources, CreateRow(c, r) PROVE CatalogInv'
  <2> DEFINE q == [Idle EXCEPT !.at = "insert", !.id = r]
  <2>1. Other(q)
    BY DEF Other, Idle, Entry, EntryOK, Tagging, Above
  <2>2. Moves(c, q)
    BY <1>2 DEF CreateRow, Moves
  <2>3. /\ used \subseteq used' /\ used' \subseteq Above \cup TagIDs
        /\ UNCHANGED <<tableRows, tagRows, deps, samples, overlap>>
    BY <1>1, <1>2 DEF CreateRow, Above
  <2> HIDE DEF q
  <2> QED BY <1>1, <2>1, <2>2, <2>3, RowsGrow
<1>3. ASSUME NEW r \in Devices \cup Sources, NEW at \in {"update", "delete"}, ChangeRow(c, r, at)
      PROVE  CatalogInv'
  <2> DEFINE q == [Idle EXCEPT !.at = at, !.id = r, !.graph = Affected(r)]
  <2>0. Affected(r) \subseteq Sources
    BY DEF Affected
  <2>1. Other(q)
    BY <2>0 DEF Other, Idle, Entry, EntryOK, Tagging, Above
  <2>2. Moves(c, q)
    BY <1>3 DEF ChangeRow, Moves
  <2>3. UNCHANGED <<tableRows, tagRows, deps, used, samples, overlap>>
    BY <1>3 DEF ChangeRow, tables
  <2> HIDE DEF q
  <2> QED BY <1>1, <2>1, <2>2, <2>3, RowsGrow
<1>4. CASE InsertRow(c)
  <2>1. Moves(c, Idle)
    BY <1>4 DEF InsertRow, Finish, Moves
  <2>2. UNCHANGED <<tagRows, deps, used, samples, overlap>>
    BY <1>4 DEF InsertRow
  <2>3. tableRows \subseteq tableRows' /\ tableRows' \subseteq Above /\ \A r \in tableRows' \ Gateways : Parent[r] \in tableRows'
    BY <1>1, <1>4 DEF InsertRow, EntryOK, Above
  <2> QED BY <1>1, <2>1, <2>2, <2>3, RowsGrow, IdleIsOther
<1> DEFINE forget == [procs[c] EXCEPT !.at = "forget"]
<1>5. Other(forget)
  BY <1>1 DEF Other, Entry, EntryOK, Tagging
<1>6. CASE WriteRow(c)
  <2>1. Moves(c, forget) \/ Moves(c, Idle)
    BY <1>6, <1>1 DEF WriteRow, Goto, Finish, Moves, CatalogInv, CatalogTypes
  <2>2. UNCHANGED <<tableRows, tagRows, deps, used, samples, overlap>>
    BY <1>6 DEF WriteRow, tables
  <2> HIDE DEF forget
  <2> QED BY <1>1, <1>5, <2>1, <2>2, RowsGrow, IdleIsOther
<1>7. CASE DeleteRow(c)
  <2>1. UNCHANGED <<used, samples, overlap>>
    BY <1>7 DEF DeleteRow
  <2>2. CASE procs[c].id \in tableRows
    <3>1. DropRow(procs[c].id) /\ Moves(c, forget) /\ procs[c].id \in Above
      BY <1>1, <1>7, <2>2 DEF DeleteRow, Goto, Moves, CatalogInv, CatalogTypes
    <3> HIDE DEF forget
    <3> QED BY <1>5, <2>1, <3>1, RowDropped
  <2>3. CASE procs[c].id \notin tableRows
    BY <1>1, <1>7, <2>1, <2>3, RowsGrow, IdleIsOther DEF DeleteRow, Finish, Moves
  <2> QED BY <2>2, <2>3
<1>8. CASE deleteSamples(c)
  <2>1. Moves(c, Idle) /\ UNCHANGED <<tableRows, tagRows, deps, used, overlap>> /\ samples' \subseteq samples
    BY <1>8 DEF deleteSamples, Finish, Moves, tables
  <2> QED BY <1>1, <2>1, RowsGrow, IdleIsOther
<1>9. ASSUME NEW g \in Gateways, DeleteGateway(c, g) PROVE CatalogInv'
  BY <1>9, RowDropped, IdleIsOther DEF DeleteGateway, Moves, Above
<1>10. ASSUME NEW s \in Sources, readSavedDatasource(c, s) PROVE CatalogInv'
  <2> DEFINE q == [Idle EXCEPT !.at = "read", !.id = s]
  <2>1. Other(q)
    BY DEF Other, Idle, Entry, EntryOK, Tagging, Above
  <2>2. Moves(c, q) /\ UNCHANGED <<tableRows, tagRows, deps, used, samples, overlap>>
    BY <1>10 DEF readSavedDatasource, Moves, tables
  <2> HIDE DEF q
  <2> QED BY <1>1, <2>1, <2>2, RowsGrow
<1>11. CASE storeSample(c)
  <2>1. Moves(c, Idle) /\ UNCHANGED <<tableRows, tagRows, deps, used, overlap>> /\ samples' \subseteq Sources
    BY <1>1, <1>11 DEF storeSample, Finish, Moves, tables, EntryOK
  <2> QED BY <1>1, <2>1, RowsGrow, IdleIsOther
<1> QED BY <1>2, <1>3, <1>4, <1>6, <1>7, <1>8, <1>9, <1>10, <1>11

----------------------------------------------------------------------------
(* Requests about tags. *)

\* The entry that Prepare makes.
LEMMA Prepared ==
  ASSUME CatalogInv, NEW c \in Callers, NEW t \in TagIDs, NEW row \in TagRow, NEW own,
         own = {} \/ own = {t}, Prepare(c, t, row, own)
  PROVE  \E q \in Entry : /\ procs' = [procs EXCEPT ![c] = q] /\ EntryOK(q) /\ Tagging(q)
                          /\ q.id = t /\ q.own = own
                          /\ (q.at = "save" => t \notin Calculated)
<1> DEFINE at == IF t \in Calculated THEN "check" ELSE "save"
           q == [Idle EXCEPT !.id = t, !.row = row, !.own = own, !.at = at]
<1>1. procs' = [procs EXCEPT ![c] = q]
  BY DEF Prepare
<1>2. q \in Entry
  BY DEF Entry, Idle
<1>3. EntryOK(q) /\ Tagging(q) /\ q.id = t /\ q.own = own /\ (q.at = "save" => t \notin Calculated)
  BY DEF EntryOK, Tagging, Prepare, Idle
<1> HIDE DEF q
<1> QED BY <1>1, <1>2, <1>3

LEMMA TagAsked ==
  ASSUME CatalogInv, NEW c \in Callers, NEW t \in TagIDs, CreateTag(c, t) \/ UpdateTag(c, t)
  PROVE  CatalogInv'
<1>1. PICK row \in TagRow, own \in {{}, {t}} :
        /\ Prepare(c, t, row, own)
        /\ UNCHANGED <<tableRows, tagRows, deps, samples, overlap>>
        /\ used' = used \cup {t}
        /\ own = {} => t \notin used
        /\ own = {t} => t \in Saved
  <2>1. CASE CreateTag(c, t)
    BY <2>1 DEF CreateTag
  <2>2. CASE UpdateTag(c, t)
    BY <2>2 DEF UpdateTag, tables, CatalogInv, Given
  <2> QED BY <2>1, <2>2
<1>2. PICK q \in Entry : /\ procs' = [procs EXCEPT ![c] = q] /\ EntryOK(q) /\ Tagging(q)
                         /\ q.id = t /\ q.own = own
                         /\ (q.at = "save" => t \notin Calculated)
  BY <1>1, Prepared
<1>3. /\ procs \in [Callers -> Entry] /\ \A d \in Callers : EntryOK(procs[d])
      /\ procs'[c] = q /\ \A d \in Callers : d # c => procs'[d] = procs[d]
  BY <1>2 DEF CatalogInv, CatalogTypes
<1>4. CatalogTypes'
  BY <1>1, <1>2, <1>3 DEF CatalogInv, CatalogTypes, CatalogTypeOK
<1>5. Saved' = Saved
  BY <1>1 DEF Saved
<1>6. Given'
  BY <1>1, <1>2, <1>3, <1>5 DEF CatalogInv, Given
<1>7. Fresh'
  <2>1. ASSUME NEW d \in Callers, Tagging(procs'[d]), procs'[d].own = {}
        PROVE  /\ procs'[d].id \notin Saved
               /\ \A u \in Saved : procs'[d].id \notin tagRows[u].refs
               /\ \A e \in Callers : e # d /\ Tagging(procs'[e]) => procs'[e].id # procs'[d].id
    <3>1. CASE d = c
      <4>1. procs'[d].id = t /\ t \notin used
        BY <1>1, <1>2, <1>3, <2>1, <3>1
      <4> QED BY <1>3, <3>1, <4>1 DEF CatalogInv, Given
    <3>2. CASE d # c
      <4>1. procs'[d] = procs[d] /\ procs[d].id \in used /\ procs[d].id \notin Saved
        BY <1>3, <2>1, <3>2 DEF CatalogInv, Given, Fresh
      <4>2. procs'[d].id # t
        BY <1>1, <4>1
      <4> QED BY <1>2, <1>3, <2>1, <3>2, <4>1, <4>2 DEF CatalogInv, Fresh
    <3> QED BY <3>1, <3>2
  <2> QED BY <1>1, <1>5, <2>1 DEF Fresh
<1>8. Edges' /\ Hanging'
  BY <1>1, <1>5 DEF CatalogInv, Edges, Hanging
<1>9. Checked'
  BY <1>2, <1>3 DEF CatalogInv, Checked
<1>10. CyclesNeedOverlap'
  BY <1>1 DEF CatalogInv, CyclesNeedOverlap
<1> QED BY <1>4, <1>6, <1>7, <1>8, <1>9, <1>10 DEF CatalogInv

LEMMA TagChecked ==
  ASSUME CatalogInv, NEW c \in Callers, validateDependencyGraph(c)
  PROVE  CatalogInv'
<1>1. /\ procs \in [Callers -> Entry] /\ EntryOK(procs[c]) /\ procs[c].at = "check"
      /\ UNCHANGED <<tableRows, tagRows, deps, used, samples, requests, overlap>>
      /\ tableRows \subseteq Above /\ used \subseteq Above \cup TagIDs /\ samples \subseteq Sources
      /\ deps \subseteq TagIDs \X TagIDs
      /\ \A r \in tableRows \ Gateways : Parent[r] \in tableRows
  BY DEF validateDependencyGraph, tables, CatalogInv, CatalogTypes, CatalogTypeOK, Hanging
<1>2. CASE procs' = [procs EXCEPT ![c] = Idle]
  BY <1>1, <1>2, RowsGrow, IdleIsOther DEF Moves
<1>3. CASE /\ ~graphCycleState(deps, procs[c].id, procs[c].row.refs)
           /\ procs' = [procs EXCEPT ![c].at = "save", ![c].graph = deps]
  <2> DEFINE q == [procs[c] EXCEPT !.at = "save", !.graph = deps]
  <2>1. /\ procs' = [procs EXCEPT ![c] = q]
        /\ q \in Entry /\ EntryOK(q) /\ Tagging(q) /\ Tagging(procs[c])
        /\ q.id = procs[c].id /\ q.own = procs[c].own /\ q.row = procs[c].row /\ q.graph = deps
    BY <1>1, <1>3 DEF Entry, EntryOK, Tagging
  <2> HIDE DEF q
  <2>2. \A d \in Callers : procs'[d] = IF d = c THEN q ELSE procs[d]
    BY <1>1, <2>1
  <2>3. CatalogTypes'
    BY <1>1, <2>1, <2>2 DEF CatalogInv, CatalogTypes, CatalogTypeOK
  <2>4. Saved' = Saved
    BY <1>1 DEF Saved
  <2>5. Given' /\ Edges' /\ Hanging'
    BY <1>1, <2>1, <2>2, <2>4 DEF CatalogInv, Given, Edges, Hanging
  <2>6. Fresh'
    BY <1>1, <2>1, <2>2, <2>4 DEF CatalogInv, Fresh
  <2>7. Checked'
    BY <1>3, <2>1, <2>2 DEF CatalogInv, Checked
  <2>8. CyclesNeedOverlap'
    BY <1>1 DEF CatalogInv, CyclesNeedOverlap
  <2> QED BY <2>3, <2>5, <2>6, <2>7, <2>8 DEF CatalogInv
<1> QED BY <1>2, <1>3 DEF validateDependencyGraph, Finish

LEMMA TagSaved ==
  ASSUME CatalogInv, NEW c \in Callers, SaveTag(c)
  PROVE  CatalogInv'
<1> DEFINE t == procs[c].id
           row == procs[c].row
<1>1. /\ procs \in [Callers -> Entry] /\ EntryOK(procs[c]) /\ procs[c].at = "save" /\ Tagging(procs[c])
      /\ UNCHANGED <<tableRows, used, samples, requests>> /\ procs' = [procs EXCEPT ![c] = Idle]
      /\ tableRows \subseteq Above /\ used \subseteq Above \cup TagIDs /\ samples \subseteq Sources
      /\ deps \subseteq TagIDs \X TagIDs /\ tagRows \in [TagIDs -> TagRow \cup {NoRow}]
      /\ overlap \in BOOLEAN
      /\ \A r \in tableRows \ Gateways : Parent[r] \in tableRows
  BY DEF SaveTag, Finish, Tagging, CatalogInv, CatalogTypes, CatalogTypeOK, Hanging
<1>2. CASE UNCHANGED <<tagRows, deps, overlap>>
  BY <1>1, <1>2, RowsGrow, IdleIsOther DEF Moves
<1> DEFINE fresh == {e \in deps : e[1] # procs[c].id} \subseteq procs[c].graph
<1>3. CASE References(c) \subseteq Existing /\ WriteTag(c, fresh)
  <2>1. /\ t \in TagIDs /\ row \in TagRow /\ (procs[c].own = {} \/ procs[c].own = {t})
        /\ row.refs # {} => t \in Calculated
        /\ row.source \subseteq Sources /\ row.refs \subseteq TagIDs
    BY <1>1 DEF EntryOK, TagRow
  <2>2. /\ tagRows' = [tagRows EXCEPT ![t] = row] /\ deps' = Replaced(deps, t, row.refs)
        /\ overlap' = (overlap \/ (t \in Calculated /\ ~fresh))
    BY <1>3 DEF WriteTag
  <2>3. /\ Saved \subseteq TagIDs /\ row.source \subseteq tableRows /\ row.refs \subseteq Saved
        /\ procs[c].own \subseteq Saved
    BY <1>1, <1>3, <2>1, CatalogAssumption DEF References, Existing, Above, Saved
  <2>4. /\ Saved' = Saved \cup {t} /\ tagRows'[t] = row
        /\ \A u \in TagIDs : u # t => tagRows'[u] = tagRows[u]
    BY <1>1, <2>1, <2>2, CatalogAssumption DEF Saved
  <2>5. /\ \A d \in Callers : Tagging(procs'[d]) => d # c /\ procs'[d] = procs[d]
        /\ \A d \in Callers : procs'[d].at = "save" => procs'[d] = procs[d]
        /\ procs' \in [Callers -> Entry] /\ \A d \in Callers : EntryOK(procs'[d])
    <3>1. procs'[c] = Idle /\ \A d \in Callers : d # c => procs'[d] = procs[d]
      BY <1>1
    <3>2. ~Tagging(Idle) /\ Idle.at # "save"
      BY DEF Idle, Tagging
    <3>3. procs' \in [Callers -> Entry] /\ \A d \in Callers : EntryOK(procs'[d])
      BY <1>1, Moved, IdleIsOther DEF Moves
    <3> QED BY <3>1, <3>2, <3>3
  <2>6. t \in used
    BY <1>1 DEF CatalogInv, Given
  <2>7. t \in Saved \/ \A u \in Saved : t \notin tagRows[u].refs
    BY <1>1, <2>1, <2>3 DEF CatalogInv, Fresh
  <2>8. /\ tagRows' \in [TagIDs -> TagRow \cup {NoRow}] /\ deps' \subseteq TagIDs \X TagIDs
        /\ overlap' \in BOOLEAN
    BY <1>1, <2>1, <2>2 DEF Replaced
  <2>9. CatalogTypes'
    BY <1>1, <2>5, <2>8 DEF CatalogTypes, CatalogTypeOK
  <2>10. Given'
    BY <1>1, <2>3, <2>4, <2>5, <2>6 DEF CatalogInv, Given
  <2>11. Fresh'
    <3>1. ASSUME NEW d \in Callers, Tagging(procs'[d]), procs'[d].own = {}
          PROVE  /\ procs'[d].id \notin Saved'
                 /\ \A u \in Saved' : procs'[d].id \notin tagRows'[u].refs
                 /\ \A e \in Callers : e # d /\ Tagging(procs'[e]) => procs'[e].id # procs'[d].id
      <4>1. /\ d # c /\ procs'[d] = procs[d] /\ procs[d].id \notin Saved
            /\ \A u \in Saved : procs[d].id \notin tagRows[u].refs
            /\ procs[d].id # t
        BY <1>1, <2>5, <3>1 DEF CatalogInv, Fresh
      <4>2. \A e \in Callers : e # d /\ Tagging(procs'[e]) => procs'[e].id # procs'[d].id
        BY <2>5, <3>1, <4>1 DEF CatalogInv, Fresh
      <4> HIDE DEF t, row
      <4> QED BY <2>3, <2>4, <4>1, <4>2
    <3> QED BY <3>1 DEF Fresh
  <2>12. Edges'
    <3> SUFFICES ASSUME NEW x \in TagIDs, NEW y \in TagIDs
                 PROVE  <<x, y>> \in deps' <=> x \in Saved' /\ y \in Saved' /\ y \in tagRows'[x].refs
      BY DEF Edges
    <3>1. <<x, y>> \in deps <=> x \in Saved /\ y \in Saved /\ y \in tagRows[x].refs
      BY DEF CatalogInv, Edges
    <3>2. <<x, y>> \in deps' <=> IF x = t THEN y \in row.refs ELSE <<x, y>> \in deps
      BY <2>2 DEF Replaced
    <3> HIDE DEF t, row
    <3> QED BY <2>3, <2>4, <2>7, <3>1, <3>2
  <2>13. Hanging'
    <3> HIDE DEF t, row
    <3> QED BY <1>1, <2>3, <2>4 DEF CatalogInv, Hanging
  <2>14. Checked'
    BY <2>5 DEF CatalogInv, Checked
  <2>15. CyclesNeedOverlap'
    <3> SUFFICES ASSUME ~overlap, t \in Calculated => fresh
                 PROVE  \A u \in TagIDs : ~Reaches(deps', u, u)
      BY <1>1, <2>2, <2>8 DEF CyclesNeedOverlap
    <3>1. \A u \in TagIDs : ~Reaches(deps, u, u)
      BY DEF CatalogInv, CyclesNeedOverlap
    <3>2. CASE t \in Calculated
      <4>1. ~graphCycleState(procs[c].graph, t, row.refs)
        BY <1>1, <3>2 DEF CatalogInv, Checked
      <4>2. {e \in deps : e[1] # t} \subseteq procs[c].graph
        BY <3>2
      <4> HIDE DEF t, row
      <4> QED BY <2>1, <2>2, <3>1, <4>1, <4>2, CheckSuffices
    <3>3. CASE t \notin Calculated
      <4>1. deps' \subseteq deps
        BY <2>1, <2>2, <3>3 DEF Replaced
      <4> QED BY <3>1, <4>1, MoreEdges
    <3> QED BY <3>2, <3>3
  <2> QED BY <2>9, <2>10, <2>11, <2>12, <2>13, <2>14, <2>15 DEF CatalogInv
<1> QED BY <1>2, <1>3 DEF SaveTag

LEMMA TagDeleted ==
  ASSUME CatalogInv, NEW c \in Callers, NEW t \in TagIDs, RemoveTag(c, t)
  PROVE  CatalogInv'
<1>1. /\ DropTags({t}) /\ UNCHANGED <<tableRows, used, samples, procs, overlap>>
  BY DEF RemoveTag
<1> QED BY <1>1, RowsShrink, IdleIsOther DEF Moves, CatalogInv, Hanging

LEMMA CatalogKept == CatalogInv /\ [CatalogNext]_catalogVars => CatalogInv'
<1> SUFFICES ASSUME CatalogInv, [CatalogNext]_catalogVars PROVE CatalogInv'
  OBVIOUS
<1>1. CASE UNCHANGED catalogVars
  BY <1>1 DEF catalogVars, CatalogInv, CatalogTypes, CatalogTypeOK, Given, Fresh, Saved, Edges, Hanging,
              Checked, CyclesNeedOverlap
<1>2. CASE CatalogNext
  BY <1>2, RowRequests, TagAsked, TagChecked, TagSaved, TagDeleted DEF CatalogNext
<1> QED BY <1>1, <1>2

(* tag/service.go, device/service.go and migrations 000003 and 000004: every row *)
(* finds the row that it refers to, and the stored dependencies of a calculated    *)
(* tag are those of its expression, however requests interleave; the check of the  *)
(* stored graph keeps calculated tags free of cycles unless saves overlap.  For    *)
(* every set of rows, tags and callers.                                            *)
THEOREM CatalogIsSound == CatalogSpec => []CatalogSound
<1>1. CatalogInv => ReferencesHold
  <2> SUFFICES ASSUME CatalogInv PROVE ReferencesHold
    OBVIOUS
  <2>1. ASSUME NEW t \in TagIDs
        PROVE  {e[2] : e \in {x \in deps : x[1] = t}} =
                 IF t \in Saved THEN tagRows[t].refs \cap Saved ELSE {}
    <3>1. \A u : u \in {e[2] : e \in {x \in deps : x[1] = t}} <=> u \in TagIDs /\ <<t, u>> \in deps
      BY DEF CatalogInv, CatalogTypes, CatalogTypeOK
    <3>2. Saved \subseteq TagIDs
      BY DEF Saved
    <3> QED BY <3>1, <3>2 DEF CatalogInv, Edges
  <2> QED BY <2>1 DEF CatalogInv, Hanging, ReferencesHold
<1>2. CatalogInv => CatalogSound
  BY <1>1 DEF CatalogInv, CatalogTypes, CatalogSound
<1> QED BY <1>2, CatalogStart, CatalogKept, PTL DEF CatalogSpec

----------------------------------------------------------------------------
(* Measurement runs and their exports (MeasurementRuns).                   *)
(*                                                                         *)
(* A request that holds a run knows one that is not newer than the active  *)
(* one, and the active one itself when the ids agree: the row that is      *)
(* locked is the run that was archived.  The windows of a page lie on the  *)
(* grid of its time zone, counted back from the end of the period,         *)
(* whichever run was active when the page was read; only the last row may  *)
(* be cut at the beginning of the run, and after it there is no other      *)
(* page.  The grids of two zones begin within one window after the end.    *)

Steps == {"idle", "load", "find", "first", "start", "latest", "archive", "page", "exported"}
Offsets == 0 .. Bucket - 1
Rows == Seq(Int \X Int \X Offsets)
Payloads == {buildRunArchive(r, t) : r \in Run, t \in Nat}
RunArchive == [run : Run, ended : Nat, payload : Payloads]

\* The run a request was given is not newer than the active one, and is the active
\* one when it has its id; what is archived is what its run measured.
Known(q) == /\ q.run \in Run /\ q.run.id <= nextID
            /\ active # NoRun /\ (q.run.id = active.id => q.run = active)
RequestOK(q) ==
    /\ q.at \in Steps
    /\ q.cutoff \in Nat /\ q.config \in Nat /\ q.from \in Nat /\ q.to \in Nat /\ q.page \in Nat \ {0}
    /\ q.at \in {"load", "find", "first", "start"} => q.op \in {"current", "reset", "export"}
    /\ q.at \in {"find", "first", "start", "latest", "archive", "page"} => q.config \in 1..MaxConfigs
    /\ q.at \in {"latest", "archive"} => q.op = "reset"
    /\ q.at \in {"page", "exported"} => q.op = "export"
    /\ q.at \in {"latest", "archive", "page"} => Known(q)
    /\ q.at = "archive" => q.archive = buildRunArchive(q.run, q.cutoff)

\* The end of the i-th window of an export to a time in a zone, counted back from there.
Grid(o, to) == ((to - o + Bucket - 1) \div Bucket) * Bucket + o
Edge(o, to, i) == Grid(o, to) - Bucket * i

\* The rows of a request: all of them windows of a grid but the last, that may be cut.
RowEdge(q, i, j) == Edge(q.rows[i][3], q.to, j)
Whole(q, i) == /\ q.rows[i][1] = RowEdge(q, i, i)
               /\ q.rows[i][2] = EarlierOf(q.to, RowEdge(q, i, i - 1))
               /\ q.from <= q.rows[i][1] /\ Measured(q.rows[i])
Cut(q, i) == Measured(q.rows[i]) =>
               /\ q.rows[i][2] = EarlierOf(q.to, RowEdge(q, i, i - 1))
               /\ q.from <= q.rows[i][1]
Exports(q) ==
    /\ q.rows \in Rows
    /\ \A i \in 1 .. Len(q.rows) - 1 : Whole(q, i)
    /\ \A i \in DOMAIN q.rows : Cut(q, i)
    /\ q.at # "exported" => /\ Len(q.rows) = (q.page - 1) * PerPage
                            /\ \A i \in DOMAIN q.rows : Whole(q, i)
    /\ q.op = "export" => q.from < q.to
    /\ q.op # "export" => q.rows = <<>> /\ q.at # "exported"

RunEntry == [at : Steps, op : {"none", "current", "reset", "export"}, run : Run \cup {NoRun},
          cutoff : Nat, config : Nat, archive : Payloads \cup {NoRun}, from : Nat, to : Nat,
          page : Nat \ {0}, rows : Rows]

RunTypes ==
    /\ RunsTypeOK
    /\ archived \in Seq(RunArchive)
    /\ active # NoRun => active.id = nextID
    /\ active = NoRun => archived = <<>>
    /\ client \in [RunClients -> RunEntry]

RunsInv == /\ RunTypes /\ RunsTile
           /\ \A c \in RunClients : RequestOK(client[c]) /\ Exports(client[c])

----------------------------------------------------------------------------
(* Windows. *)

LEMMA DivFacts ==
  ASSUME NEW a \in Nat, NEW b \in Nat \ {0}
  PROVE  a \div b \in Nat /\ b * (a \div b) <= a /\ a < b * (a \div b) + b
OBVIOUS

LEMMA Multiples ==
  ASSUME NEW b \in Nat \ {0}, NEW i \in Int, NEW j \in Int
  PROVE  /\ b * i \in Int /\ b * (i - 1) = b * i - b /\ b * 0 = 0 /\ b * 1 = b
         /\ i <= j => b * i <= b * j
         /\ i * b = b * i
OBVIOUS

LEMMA GridEdges ==
  ASSUME NEW o \in Offsets, NEW to \in Nat
  PROVE  /\ Grid(o, to) \in Nat /\ to <= Grid(o, to) /\ Grid(o, to) < to + Bucket
         /\ Edge(o, to, 0) = Grid(o, to)
         /\ \A i \in Nat : /\ Edge(o, to, i) \in Int
                           /\ Edge(o, to, i) < Edge(o, to, i - 1) /\ Edge(o, to, i - 1) \in Int
                           /\ i > 0 => Edge(o, to, i) < to
<1>1. Bucket \in Nat \ {0} /\ o \in Nat /\ o <= Bucket - 1
  BY RunsAssumption DEF Offsets
<1> DEFINE a == to - o + Bucket - 1
           k == a \div Bucket
<1>6. a \in Nat
  BY <1>1
<1>2. k \in Nat /\ Bucket * k <= a /\ a < Bucket * k + Bucket
  <2> HIDE DEF a
  <2> QED BY <1>1, <1>6, DivFacts
<1> HIDE DEF k
<1>3. Grid(o, to) = Bucket * k + o /\ Bucket * k \in Int
  BY <1>1, <1>2, Multiples DEF Grid, k
<1>4. Grid(o, to) \in Nat /\ to <= Grid(o, to) /\ Grid(o, to) < to + Bucket
  BY <1>1, <1>2, <1>3
<1>5. Bucket * 0 = 0
  BY <1>1, Multiples
<1>7. ASSUME NEW i \in Nat
      PROVE  /\ Edge(o, to, i) \in Int
             /\ Edge(o, to, i) < Edge(o, to, i - 1) /\ Edge(o, to, i - 1) \in Int
             /\ i > 0 => Edge(o, to, i) < to
  <2>1. Bucket * i \in Int /\ Bucket * (i - 1) = Bucket * i - Bucket
    BY <1>1, Multiples
  <2>2. i > 0 => Bucket <= Bucket * i
    BY <1>1, Multiples
  <2> QED BY <1>1, <1>4, <2>1, <2>2 DEF Edge
<1> QED BY <1>4, <1>5, <1>7 DEF Edge

\* The grids of two zones are less than a window apart, at every window.
LEMMA GridsApart ==
  ASSUME NEW o \in Offsets, NEW p \in Offsets, NEW to \in Nat, NEW i \in Nat
  PROVE  Edge(o, to, i) - Edge(p, to, i) \in 1 - Bucket .. Bucket - 1
<1>1. /\ Grid(o, to) \in Nat /\ to <= Grid(o, to) /\ Grid(o, to) < to + Bucket
      /\ Grid(p, to) \in Nat /\ to <= Grid(p, to) /\ Grid(p, to) < to + Bucket
      /\ Bucket \in Nat \ {0}
  BY GridEdges, RunsAssumption
<1>2. Bucket * i \in Int
  BY <1>1, Multiples
<1> QED BY <1>1, <1>2 DEF Edge

LEMMA WindowsAre ==
  ASSUME NEW o \in Offsets, NEW from \in Nat, NEW to \in Nat, from <= to
  PROVE  LET w == Windows(o, from, to)
         IN  /\ w \in Rows /\ Len(w) \in Nat
             /\ \A i \in 1..Len(w) :
                  /\ w[i] = <<LaterOf(from, Edge(o, to, i)), EarlierOf(to, Edge(o, to, i - 1)), o>>
                  /\ i < Len(w) => from < Edge(o, to, i)
             /\ from = to => Len(w) <= 1
<1> DEFINE top == Grid(o, to)
           k == (top - from + Bucket - 1) \div Bucket
           total == IF top > from THEN k ELSE 0
           w == Windows(o, from, to)
<1>1. Bucket \in Nat \ {0} /\ top \in Nat /\ to <= top /\ top < to + Bucket
  BY GridEdges, RunsAssumption
<1> HIDE DEF top
<1>3. /\ total \in Nat /\ (from = to => total <= 1)
      /\ \A i \in 1..total : i < total => from < Edge(o, to, i)
  <2>1. CASE top > from
    <3>1. k \in Nat
      BY <1>1, <2>1, DivFacts
    <3>2. from = to => k <= 1
      <4>1. SUFFICES ASSUME from = to, 2 <= k PROVE FALSE
        BY <3>1
      <4>2. Bucket * 2 <= Bucket * k /\ Bucket * k <= top - from + Bucket - 1
        BY <1>1, <2>1, <3>1, <4>1, Multiples, DivFacts
      <4>3. Bucket * 2 = Bucket + Bucket
        BY <1>1
      <4> QED BY <1>1, <3>1, <4>1, <4>2, <4>3
    <3>3. ASSUME NEW i \in 1..k, i < k PROVE from < Edge(o, to, i)
      <4>1. Bucket * (i + 1) <= Bucket * k /\ Bucket * i \in Int /\ Bucket * k <= top - from + Bucket - 1
        BY <1>1, <2>1, <3>1, <3>3, Multiples, DivFacts
      <4>2. Bucket * (i + 1) = Bucket * i + Bucket
        BY <1>1
      <4> QED BY <1>1, <3>1, <4>1, <4>2 DEF Edge, top
    <3> QED BY <2>1, <3>1, <3>2, <3>3
  <2>2. CASE ~(top > from)
    BY <2>2
  <2> QED BY <2>1, <2>2
<1> HIDE DEF total
<1>4. w = [i \in 1..total |-> <<LaterOf(from, top - Bucket * i), EarlierOf(to, top - Bucket * (i - 1)), o>>]
  BY DEF Windows, Grid, total, top
<1>5. \A i \in 1..total : Edge(o, to, i) \in Int /\ Edge(o, to, i - 1) \in Int
  BY <1>3, GridEdges
<1>6. w = [i \in 1..total |-> <<LaterOf(from, Edge(o, to, i)), EarlierOf(to, Edge(o, to, i - 1)), o>>]
  BY <1>4 DEF Edge, top
<1> HIDE DEF w
<1>7. w \in Rows /\ Len(w) = total
  <2>1. \A i \in 1..total : <<LaterOf(from, Edge(o, to, i)), EarlierOf(to, Edge(o, to, i - 1)), o>> \in Int \X Int \X Offsets
    BY <1>5 DEF LaterOf, EarlierOf
  <2> QED BY <1>3, <1>6, <2>1 DEF Rows
<1>8. /\ w \in Rows /\ Len(w) \in Nat
      /\ \A i \in 1..Len(w) :
           /\ w[i] = <<LaterOf(from, Edge(o, to, i)), EarlierOf(to, Edge(o, to, i - 1)), o>>
           /\ i < Len(w) => from < Edge(o, to, i)
      /\ from = to => Len(w) <= 1
  BY <1>3, <1>6, <1>7
<1> QED BY <1>8 DEF w

----------------------------------------------------------------------------
(* Pages. *)

LEMMA Bounds ==
  ASSUME NEW a \in Int, NEW b \in Int
  PROVE  /\ LaterOf(a, b) \in Int /\ LaterOf(a, b) >= a
         /\ EarlierOf(a, b) \in Int /\ EarlierOf(a, b) <= a
BY DEF LaterOf, EarlierOf

\* The length of a page of p windows after n of l, that ends with the m-th.
LEMMA PageLength ==
  ASSUME NEW n \in Nat, NEW l \in Nat, NEW p \in Nat \ {0}, NEW m,
         m = IF n + p < l THEN n + p ELSE l
  PROVE  (IF n + 1 <= m THEN m - n ELSE 0)
            = IF n + p <= l THEN p ELSE IF n < l THEN l - n ELSE 0
OBVIOUS

LEMMA Pages ==
  ASSUME NEW w \in Rows, NEW page \in Nat \ {0}
  PROVE  LET n == (page - 1) * PerPage
         IN  /\ n \in Nat /\ page * PerPage = n + PerPage
             /\ (page + 1 - 1) * PerPage = n + PerPage
             /\ Page(w, page) \in Rows
             /\ Len(Page(w, page)) = IF n + PerPage <= Len(w) THEN PerPage
                                     ELSE IF n < Len(w) THEN Len(w) - n ELSE 0
             /\ \A k \in 1..Len(Page(w, page)) : Page(w, page)[k] = w[n + k]
<1> DEFINE n == (page - 1) * PerPage
           m == EarlierOf(n + PerPage, Len(w))
<1>1. PerPage \in Nat \ {0}
  BY RunsAssumption
<1>2. n \in Nat /\ page * PerPage = n + PerPage
  <2>1. PerPage * (page - 1) = PerPage * page - PerPage /\ PerPage * page \in Int
        /\ PerPage * 0 <= PerPage * (page - 1) /\ PerPage * 0 = 0
    BY <1>1, Multiples
  <2> QED BY <1>1, <2>1, Multiples
<1>3. page + 1 - 1 = page
  OBVIOUS
<1> HIDE DEF n
<1>4. m \in 0..Len(w)
  BY <1>1, <1>2 DEF EarlierOf
<1>5. Page(w, page) = SubSeq(w, n + 1, m)
  BY <1>2 DEF Page, n
<1>6. SubSeq(w, n + 1, m) \in Rows
  BY <1>2, <1>4 DEF Rows
<1>7. /\ Len(SubSeq(w, n + 1, m)) = IF n + 1 <= m THEN m - n ELSE 0
      /\ \A k \in 1..Len(SubSeq(w, n + 1, m)) : SubSeq(w, n + 1, m)[k] = w[n + k]
  BY SMTT(30), <1>2, <1>4
<1>8. /\ Len(SubSeq(w, n + 1, m)) = IF n + PerPage <= Len(w) THEN PerPage
                                    ELSE IF n < Len(w) THEN Len(w) - n ELSE 0
  <2>1. m = IF n + PerPage < Len(w) THEN n + PerPage ELSE Len(w)
    BY DEF EarlierOf
  <2>2. Len(w) \in Nat
    OBVIOUS
  <2> HIDE DEF m
  <2>3. (IF n + 1 <= m THEN m - n ELSE 0)
           = IF n + PerPage <= Len(w) THEN PerPage ELSE IF n < Len(w) THEN Len(w) - n ELSE 0
    BY <1>1, <1>2, <2>1, <2>2, PageLength
  <2> QED BY <1>7, <2>3
<1> HIDE DEF m
<1>9. (page + 1 - 1) * PerPage = n + PerPage
  BY <1>2, <1>3
<1> QED BY <1>2, <1>5, <1>6, <1>7, <1>8, <1>9 DEF n

\* The numbers of rows: n before the page, k of it, of l windows, p to a page.
PageNumbers(n, k, l, p) ==
    /\ k \in Nat
    /\ \A i \in 1..n + k : i \in 1..n \/ i > n
    /\ \A i \in 1..n + k : i > n => i \in 1..l /\ i \in Nat /\ i > 0
    /\ \A i \in 1..n + k - 1 : i \in 1..n + k /\ i # n + k /\ (i > n => i < l)
    /\ n + p < l => k = p /\ \A i \in 1..n + k : i < l
    /\ l <= 1 => n + p >= l /\ \A i \in 1..n + k : i > n => i = n + k

LEMMA NumbersOfPage ==
  ASSUME NEW n \in Nat, NEW l \in Nat, NEW p \in Nat \ {0}, NEW k,
         k = IF n + p <= l THEN p ELSE IF n < l THEN l - n ELSE 0
  PROVE  PageNumbers(n, k, l, p)
BY DEF PageNumbers

\* An export q becomes r by a page: rs are its rows, n as before and k of the l windows
\* w of the period from from to to.
AfterPage(q, r, rs, o, n, k, l, from, to, w) ==
    /\ q.from \in Nat /\ q.to \in Nat /\ q.from < q.to /\ q.from <= from /\ to = LaterOf(from, q.to)
    /\ \A i \in 1..n : Whole(q, i)
    /\ \A i \in 1..l :
         /\ w[i] = <<LaterOf(from, Edge(o, to, i)), EarlierOf(to, Edge(o, to, i - 1)), o>>
         /\ i < l => from < Edge(o, to, i)
    /\ from = to => l <= 1
    /\ DOMAIN rs = 1..n + k /\ Len(rs) = n + k
    /\ k = IF n + PerPage <= l THEN PerPage ELSE IF n < l THEN l - n ELSE 0
    /\ \A i \in 1..n : rs[i] = q.rows[i]
    /\ \A i \in 1..n + k : i > n => rs[i] = w[i]
    /\ r.rows = rs /\ r.from = q.from /\ r.to = q.to /\ r.op = "export"
    /\ (r.page - 1) * PerPage = n + PerPage
    /\ r.at = IF n + PerPage >= l \/ k = 0 THEN "exported" ELSE "load"

LEMMA RowsAfterPage ==
  ASSUME NEW q, NEW r, NEW rs \in Rows, NEW o \in Offsets, NEW n \in Nat, NEW k, NEW l \in Nat,
         NEW from \in Nat, NEW to \in Nat, NEW w,
         AfterPage(q, r, rs, o, n, k, l, from, to, w)
  PROVE  Exports(r)
<1> USE DEF AfterPage
<1>1. PerPage \in Nat \ {0}
  BY RunsAssumption
<1>2. \A i \in 1..n : Whole(r, i)
  BY DEF Whole, RowEdge
<1>9. PageNumbers(n, k, l, PerPage)
  BY <1>1, NumbersOfPage
<1>3. /\ k \in Nat
      /\ \A i \in 1..n + k : i \in 1..n \/ i > n
      /\ \A i \in 1..n + k : i > n => i \in 1..l /\ i \in Nat /\ i > 0
      /\ \A i \in 1..n + k - 1 : i \in 1..n + k /\ i # n + k /\ (i > n => i < l)
      /\ n + PerPage < l => k = PerPage /\ \A i \in 1..n + k : i < l
      /\ l <= 1 => n + PerPage >= l /\ \A i \in 1..n + k : i > n => i = n + k
  BY <1>9 DEF PageNumbers
<1>5. ASSUME NEW i \in 1..n + k, i > n
      PROVE  /\ i \in 1..l
             /\ rs[i][1] = LaterOf(from, Edge(o, to, i)) /\ rs[i][2] = EarlierOf(to, Edge(o, to, i - 1))
             /\ rs[i][3] = o
             /\ Edge(o, to, i) \in Int /\ Edge(o, to, i) < Edge(o, to, i - 1) /\ Edge(o, to, i - 1) \in Int
             /\ Edge(o, to, i) < to
  <2>1. i \in 1..l /\ i \in Nat /\ i > 0
    BY <1>3, <1>5
  <2>2. rs[i] = <<LaterOf(from, Edge(o, to, i)), EarlierOf(to, Edge(o, to, i - 1)), o>>
    BY <1>5, <2>1
  <2>3. Edge(o, to, i) \in Int /\ Edge(o, to, i) < Edge(o, to, i - 1) /\ Edge(o, to, i - 1) \in Int /\ Edge(o, to, i) < to
    BY <2>1, GridEdges
  <2> QED BY <2>1, <2>2, <2>3
<1>4. n + k \in Nat
  BY <1>3
<1>8. /\ r.rows \in Rows /\ Len(r.rows) = n + k /\ DOMAIN r.rows = 1..n + k
      /\ r.from < r.to /\ r.op = "export"
  OBVIOUS
<1>6. CASE from < q.to
  <2>1. to = q.to
    BY <1>6 DEF LaterOf
  <2>2. ASSUME NEW i \in 1..n + k, i > n
        PROVE  Cut(r, i) /\ (i < l => Whole(r, i))
    <3> DEFINE e == Edge(o, to, i)
               d == Edge(o, to, i - 1)
    <3>1. /\ rs[i][1] = LaterOf(from, e) /\ rs[i][2] = EarlierOf(to, d) /\ rs[i][3] = o
          /\ e \in Int /\ d \in Int /\ e < d /\ e < to
      BY <1>5, <2>2
    <3>2. i < l => from < e
      BY <1>5, <2>2
    <3> HIDE DEF e, d
    <3>8. from \in Int /\ (from < e => LaterOf(from, e) = e)
      BY <3>1 DEF LaterOf
    <3>3. LaterOf(from, e) >= from /\ LaterOf(from, e) \in Int
      BY <3>1, <3>8, Bounds
    <3>9. q.from \in Int /\ q.from <= from
      OBVIOUS
    <3>4. q.from <= rs[i][1]
      <4>1. q.from <= LaterOf(from, e)
        BY ONLY <3>3, <3>8, <3>9
      <4> QED BY ONLY <4>1, <3>1
    <3>5. from < e => rs[i][1] < rs[i][2]
      BY <3>1, <3>8 DEF EarlierOf
    <3>6. Cut(r, i)
      BY <2>1, <3>1, <3>4 DEF Cut, RowEdge, d
    <3>7. i < l => Whole(r, i)
      BY <2>1, <3>1, <3>2, <3>8, <3>4, <3>5 DEF Whole, RowEdge, Measured, d, e
    <3> QED BY <3>6, <3>7
  <2>3. \A i \in DOMAIN rs : Cut(r, i)
    <3>1. \A i \in 1..n : Cut(r, i)
      BY <1>2 DEF Cut, Whole
    <3> QED BY <1>3, <2>2, <3>1
  <2>4. \A i \in 1..n + k - 1 : Whole(r, i)
    BY <1>2, <1>3, <2>2
  <2>5. ASSUME r.at # "exported" PROVE k = PerPage /\ \A i \in DOMAIN rs : Whole(r, i)
    <3>1. n + PerPage < l
      <4>1. ~(n + PerPage >= l)
        BY <2>5
      <4> QED BY <1>1, <4>1
    <3>2. k = PerPage /\ \A i \in 1..n + k : i < l
      BY <1>3, <3>1
    <3> QED BY <1>2, <1>3, <2>2, <3>2
  <2>6. r.at # "exported" => n + k = (r.page - 1) * PerPage /\ \A i \in 1..n + k : Whole(r, i)
    BY <2>5
  <2>7. \A i \in 1..n + k : Cut(r, i)
    BY <2>3
  <2>11. 1 .. Len(r.rows) - 1 = 1 .. n + k - 1
    BY ONLY <1>3, <1>8, n \in Nat
  <2>8. \A i \in 1 .. Len(r.rows) - 1 : Whole(r, i)
    BY ONLY <2>11, <2>4
  <2>9. \A i \in DOMAIN r.rows : Cut(r, i)
    BY <1>8, <2>7
  <2>10. r.at # "exported" => Len(r.rows) = (r.page - 1) * PerPage /\ \A i \in DOMAIN r.rows : Whole(r, i)
    BY <1>8, <2>6
  <2> QED BY ONLY <1>8, <2>8, <2>9, <2>10 DEF Exports
<1>7. CASE ~(from < q.to)
  <2>1. to = from
    BY <1>7 DEF LaterOf
  <2>2. l <= 1 /\ n + PerPage >= l
    BY <1>3, <2>1
  <2>6. r.at = "exported"
    BY <2>2
  <2>3. ASSUME NEW i \in 1..n + k, i > n PROVE ~Measured(rs[i]) /\ i = n + k
    <3> DEFINE e == Edge(o, to, i)
               d == Edge(o, to, i - 1)
    <3>1. /\ rs[i][1] = LaterOf(from, e) /\ rs[i][2] = EarlierOf(to, d)
          /\ e \in Int /\ d \in Int
      BY <1>5, <2>3
    <3> HIDE DEF e, d
    <3>4. to \in Int /\ from \in Int
      OBVIOUS
    <3>2. LaterOf(from, e) >= from /\ LaterOf(from, e) \in Int /\ EarlierOf(to, d) <= to /\ EarlierOf(to, d) \in Int
      BY <3>1, <3>4, Bounds
    <3>3. ~Measured(rs[i])
      BY <2>1, <3>1, <3>2 DEF Measured
    <3> QED BY <1>3, <2>2, <2>3, <3>3
  <2>4. \A i \in DOMAIN rs : Cut(r, i)
    <3>1. \A i \in 1..n : Cut(r, i)
      BY <1>2 DEF Cut, Whole
    <3>2. \A i \in 1..n + k : i > n => Cut(r, i)
      BY <2>3 DEF Cut
    <3> QED BY <1>3, <3>1, <3>2
  <2>5. \A i \in 1..n + k - 1 : Whole(r, i)
    BY <1>2, <1>3, <2>3
  <2>7. \A i \in 1..n + k : Cut(r, i)
    BY <2>4
  <2>11. 1 .. Len(r.rows) - 1 = 1 .. n + k - 1
    BY ONLY <1>3, <1>8, n \in Nat
  <2>8. \A i \in 1 .. Len(r.rows) - 1 : Whole(r, i)
    BY ONLY <2>11, <2>5
  <2>9. \A i \in DOMAIN r.rows : Cut(r, i)
    BY <1>8, <2>7
  <2>10. r.at # "exported" => Len(r.rows) = (r.page - 1) * PerPage /\ \A i \in DOMAIN r.rows : Whole(r, i)
    BY <1>8, <2>6
  <2> QED BY ONLY <1>8, <2>8, <2>9, <2>10 DEF Exports
<1> QED BY <1>6, <1>7

LEMMA Joined ==
  ASSUME NEW a \in Rows, NEW b \in Rows
  PROVE  /\ a \o b \in Rows /\ Len(a \o b) = Len(a) + Len(b)
         /\ DOMAIN (a \o b) = 1..Len(a) + Len(b)
         /\ \A i \in 1..Len(a) : (a \o b)[i] = a[i]
         /\ \A i \in 1..Len(a) + Len(b) : i > Len(a) => (a \o b)[i] = b[i - Len(a)]
BY DEF Rows

LEMMA PageOfExport ==
  ASSUME NEW q \in RunEntry, NEW o \in Offsets, q.at = "page", q.op = "export", q.run \in Run, Exports(q),
         NEW from, NEW to, NEW w, NEW page, NEW r,
         from = LaterOf(q.from, q.run.started), to = LaterOf(from, q.to), w = Windows(o, from, to),
         page = Page(w, q.page),
         r = [q EXCEPT !.rows = q.rows \o page, !.page = q.page + 1,
                       !.at = IF q.page * PerPage >= Len(w) \/ page = <<>> THEN "exported" ELSE "load"]
  PROVE  r \in RunEntry /\ Exports(r)
<1> DEFINE n == (q.page - 1) * PerPage
           l == Len(w)
           k == Len(page)
           rs == q.rows \o page
<1>1. q.from \in Nat /\ q.to \in Nat /\ q.page \in Nat \ {0} /\ q.run.started \in Nat
  BY DEF RunEntry, Run
<1>2. /\ q.from < q.to /\ q.rows \in Rows /\ Len(q.rows) = n
      /\ \A i \in DOMAIN q.rows : Whole(q, i)
  BY DEF Exports
<1>3. from \in Nat /\ q.from <= from /\ to \in Nat /\ from <= to /\ (from >= q.to => from = to)
  BY <1>1 DEF LaterOf
<1>4. /\ w \in Rows /\ l \in Nat
      /\ \A i \in 1..l :
           /\ w[i] = <<LaterOf(from, Edge(o, to, i)), EarlierOf(to, Edge(o, to, i - 1)), o>>
           /\ i < l => from < Edge(o, to, i)
      /\ from = to => l <= 1
  BY <1>3, WindowsAre
<1>14. /\ n \in Nat /\ q.page * PerPage = n + PerPage
       /\ (q.page + 1 - 1) * PerPage = n + PerPage
       /\ Page(w, q.page) \in Rows
       /\ Len(Page(w, q.page)) = IF n + PerPage <= Len(w) THEN PerPage
                                 ELSE IF n < Len(w) THEN Len(w) - n ELSE 0
       /\ \A j \in 1..Len(Page(w, q.page)) : Page(w, q.page)[j] = w[n + j]
  BY <1>1, <1>4, Pages
<1>5. /\ n \in Nat /\ q.page * PerPage = n + PerPage
      /\ (q.page + 1 - 1) * PerPage = n + PerPage
      /\ page \in Rows
      /\ k = IF n + PerPage <= l THEN PerPage ELSE IF n < l THEN l - n ELSE 0
      /\ \A j \in 1..k : page[j] = w[n + j]
  BY <1>14
<1> HIDE DEF n, l
<1>6. /\ rs \in Rows /\ Len(rs) = n + k /\ DOMAIN rs = 1..n + k
      /\ \A i \in 1..n : rs[i] = q.rows[i]
      /\ \A i \in 1..n + k : i > n => rs[i] = page[i - n]
  <2>1. /\ q.rows \o page \in Rows /\ Len(q.rows \o page) = n + k
        /\ DOMAIN (q.rows \o page) = 1..n + k
        /\ \A i \in 1..n : (q.rows \o page)[i] = q.rows[i]
        /\ \A i \in 1..n + k : i > n => (q.rows \o page)[i] = page[i - n]
    <3>1. q.rows \in Rows /\ page \in Rows /\ Len(q.rows) = n
      BY <1>2, <1>5
    <3>2. /\ q.rows \o page \in Rows
          /\ Len(q.rows \o page) = Len(q.rows) + Len(page)
          /\ DOMAIN (q.rows \o page) = 1..Len(q.rows) + Len(page)
          /\ \A i \in 1..Len(q.rows) : (q.rows \o page)[i] = q.rows[i]
          /\ \A i \in 1..Len(q.rows) + Len(page) :
                i > Len(q.rows) => (q.rows \o page)[i] = page[i - Len(q.rows)]
      BY ONLY <3>1, Joined
    <3> QED BY ONLY <3>1, <3>2
  <2> QED BY <2>1
<1>7. k \in Nat /\ (k = 0 <=> page = <<>>)
  BY <1>5
<1> HIDE DEF k, rs
<1>8. \A i \in 1..n + k : i > n => rs[i] = w[i]
  <2> SUFFICES ASSUME NEW i \in 1..n + k, i > n PROVE rs[i] = w[i]
    OBVIOUS
  <2>1. i - n \in 1..k /\ n + (i - n) = i
    BY <1>5, <1>7
  <2> QED BY <1>5, <1>6, <2>1
<1>9. \A i \in 1..n : Whole(q, i)
  BY <1>2, <1>5
<1>10. /\ r.rows = rs /\ r.from = q.from /\ r.to = q.to /\ r.op = "export" /\ r.page = q.page + 1
       /\ r.at = IF n + PerPage >= l \/ k = 0 THEN "exported" ELSE "load"
  BY <1>5, <1>7 DEF RunEntry, rs, l
<1>11. (r.page - 1) * PerPage = n + PerPage
  <2>1. r.page - 1 = q.page
    BY <1>1, <1>10
  <2> QED BY ONLY <1>5, <2>1
<1>12. Exports(r)
  <2>1. AfterPage(q, r, rs, o, n, k, l, from, to, w)
    BY <1>1, <1>2, <1>3, <1>4, <1>5, <1>6, <1>8, <1>9, <1>10, <1>11 DEF AfterPage
  <2> QED BY SMTT(30), <1>3, <1>4, <1>5, <1>6, <2>1, RowsAfterPage
<1>13. r \in RunEntry
  <2>1. q.page + 1 \in Nat \ {0} /\ rs \in Rows
    BY <1>1, <1>6
  <2> QED BY <2>1 DEF RunEntry, Steps, rs
<1> QED BY <1>12, <1>13

----------------------------------------------------------------------------
(* Steps. *)

LEMMA QuietRequest == Quiet \in RunEntry /\ RequestOK(Quiet) /\ Exports(Quiet)
<1>1. Quiet \in RunEntry
  BY DEF Quiet, RunEntry, Steps, Rows
<1>2. RequestOK(Quiet)
  BY DEF Quiet, RequestOK, Steps
<1>3. Exports(Quiet)
  <2>1. (1 - 1) * PerPage = 0
    BY RunsAssumption
  <2> QED BY <2>1 DEF Quiet, Exports, Rows
<1> QED BY <1>1, <1>2, <1>3

LEMMA ExportsStay ==
  ASSUME NEW q, NEW r, Exports(q), q.at # "exported", r.at # "exported",
         r.rows = q.rows, r.page = q.page, r.from = q.from, r.to = q.to, r.op = q.op
  PROVE  Exports(r)
BY DEF Exports, Whole, Cut, RowEdge

\* A step that leaves the runs as they are.
LEMMA RunsStay ==
  ASSUME RunsInv, UNCHANGED runRows, newest' \in 0..MaxBatchTime, config' \in 1..MaxConfigs,
         client' \in [RunClients -> RunEntry],
         \A d \in RunClients : RequestOK(client'[d]) /\ Exports(client'[d])
  PROVE  RunsInv'
<1> USE DEF runRows
<1>1. RunTypes'
  BY DEF RunsInv, RunTypes, RunsTypeOK
<1>2. RunsTile'
  <2>1. archived' = archived /\ active' = active
    OBVIOUS
  <2>2. RunsTile
    BY DEF RunsInv
  <2> QED BY ONLY <2>1, <2>2 DEF RunsTile
<1>3. ASSUME NEW d \in RunClients PROVE RequestOK(client[d])' /\ Exports(client[d])'
  <2>1. RequestOK(client[d])'
    BY DEF RequestOK, Known, buildRunArchive, Windows
  <2>2. Exports(client[d])'
    BY DEF Exports, Whole, Cut, RowEdge, Edge, Grid
  <2> QED BY <2>1, <2>2
<1> QED BY <1>1, <1>2, <1>3 DEF RunsInv

\* Such a step of one request.
LEMMA RequestStays ==
  ASSUME RunsInv, UNCHANGED runRows, newest' \in 0..MaxBatchTime, config' \in 1..MaxConfigs,
         NEW c \in RunClients, NEW r \in RunEntry, RequestOK(r), Exports(r),
         client' = [client EXCEPT ![c] = r]
  PROVE  RunsInv'
<1>1. client \in [RunClients -> RunEntry]
  BY DEF RunsInv, RunTypes
<1>2. /\ client' \in [RunClients -> RunEntry]
      /\ \A d \in RunClients : client'[d] = IF d = c THEN r ELSE client[d]
  BY <1>1
<1>3. \A d \in RunClients : RequestOK(client'[d]) /\ Exports(client'[d])
  BY <1>2 DEF RunsInv
<1> QED BY <1>2, <1>3, RunsStay

\* What a request becomes that goes on with a run.
LEMMA Proceeds ==
  ASSUME RunsInv, NEW c \in RunClients, client[c].at \in {"find", "start"}, NEW run \in Run,
         Proceed(c, run)
  PROVE  \E r \in RunEntry :
           /\ client' = [client EXCEPT ![c] = r] /\ Exports(r)
           /\ r.at \in {"idle", "latest", "page"}
           /\ r.at = "latest" => r.op = "reset"
           /\ r.at = "page" => r.op = "export"
           /\ r.at # "idle" => r.run = run /\ r.config = client[c].config
<1> DEFINE q == client[c]
           r == [q EXCEPT !.run = run, !.at = IF q.op = "reset" THEN "latest" ELSE "page"]
<1>1. q \in RunEntry /\ RequestOK(q) /\ Exports(q) /\ client \in [RunClients -> RunEntry]
  BY DEF RunsInv, RunTypes
<1>2. q.op \in {"current", "reset", "export"}
  BY <1>1 DEF RequestOK
<1>3. CASE q.op = "current"
  <2>1. client' = [client EXCEPT ![c] = Quiet]
    BY <1>3 DEF Proceed, Reply
  <2>2. Quiet.at = "idle"
    BY DEF Quiet
  <2> QED BY <2>1, <2>2, QuietRequest
<1>4. CASE q.op \in {"reset", "export"}
  <2>1. client' = [client EXCEPT ![c] = r]
    BY <1>1, <1>4 DEF Proceed
  <2>2. /\ r \in RunEntry /\ r.rows = q.rows /\ r.page = q.page /\ r.from = q.from /\ r.to = q.to
        /\ r.config = q.config /\ r.op = q.op /\ r.run = run /\ r.at = IF q.op = "reset" THEN "latest" ELSE "page"
    BY <1>1 DEF RunEntry, Steps
  <2> HIDE DEF r
  <2>3. Exports(r)
    BY <1>1, <1>4, <2>2, ExportsStay
  <2> QED BY <1>4, <2>1, <2>2, <2>3
<1> QED BY <1>2, <1>3, <1>4

LEMMA RunsBegin == RunsInit => RunsInv
<1> SUFFICES ASSUME RunsInit PROVE RunsInv
  OBVIOUS
<1>1. /\ client = [c \in RunClients |-> Quiet] /\ archived = <<>> /\ active = NoRun
      /\ newest = 0 /\ config = 1 /\ nextID = 0
  BY DEF RunsInit
<1>2. RunTypes
  BY <1>1, QuietRequest, RunsAssumption DEF RunTypes, RunsTypeOK
<1>3. RunsTile
  BY <1>1 DEF RunsTile
<1> QED BY <1>1, <1>2, <1>3, QuietRequest DEF RunsInv

LEMMA RequestSteps ==
  ASSUME RunsInv, NEW c \in RunClients,
         \/ \E op \in {"current", "reset", "export"} : Request(c, op)
         \/ LoadInstance(c) \/ FindActive(c) \/ FirstBatch(c) \/ PrepareReset(c) \/ ExportPage(c) \/ Exported(c)
  PROVE  RunsInv'
<1> DEFINE q == client[c]
<1>1. /\ q \in RunEntry /\ RequestOK(q) /\ Exports(q) /\ client \in [RunClients -> RunEntry]
      /\ newest \in 0..MaxBatchTime /\ newest \in Nat /\ config \in 1..MaxConfigs /\ config \in Nat
      /\ active \in Run \cup {NoRun} /\ nextID \in Nat
  BY RunsAssumption DEF RunsInv, RunTypes, RunsTypeOK
<1>2. UNCHANGED runRows /\ newest' \in 0..MaxBatchTime /\ config' \in 1..MaxConfigs
  BY <1>1 DEF Request, LoadInstance, FindActive, FirstBatch, PrepareReset, ExportPage, Exported, rest
<1>3. SUFFICES \E r \in RunEntry : /\ RequestOK(r) /\ Exports(r)
                                /\ client' = [client EXCEPT ![c] = r]
  BY <1>2, RequestStays
<1>4. ASSUME NEW op \in {"current", "reset", "export"}, Request(c, op)
      PROVE  \E r \in RunEntry : RequestOK(r) /\ Exports(r) /\ client' = [client EXCEPT ![c] = r]
  <2>1. PICK period \in IF op = "export" THEN Periods ELSE {<<0, 0>>} :
          client' = [client EXCEPT ![c] = [Quiet EXCEPT !.at = "load", !.op = op,
                                               !.from = period[1], !.to = period[2]]]
    BY <1>4 DEF Request
  <2> DEFINE r == [Quiet EXCEPT !.at = "load", !.op = op, !.from = period[1], !.to = period[2]]
  <2>2. period[1] \in Nat /\ period[2] \in Nat /\ (op = "export" => period[1] < period[2])
    BY RunsAssumption
  <2>3. /\ r.at = "load" /\ r.op = op /\ r.config = 0 /\ r.from = period[1] /\ r.to = period[2]
        /\ r.rows = <<>> /\ r.page = 1 /\ r.cutoff = 0
    BY DEF Quiet
  <2>4. r \in RunEntry
    BY <1>1, <2>2, QuietRequest DEF RunEntry, Steps
  <2> HIDE DEF r
  <2>5. RequestOK(r)
    BY <1>1, <2>2, <2>3 DEF RequestOK, Steps
  <2>6. Exports(r)
    <3>1. (1 - 1) * PerPage = 0
      BY RunsAssumption
    <3> QED BY <2>2, <2>3, <3>1 DEF Exports, Rows
  <2> QED BY <2>1, <2>4, <2>5, <2>6 DEF r
<1>10. ASSUME LoadInstance(c)
      PROVE  \E r \in RunEntry : RequestOK(r) /\ Exports(r) /\ client' = [client EXCEPT ![c] = r]
  <2> DEFINE r == [q EXCEPT !.at = "find", !.config = config]
  <2>1. q.at = "load" /\ client' = [client EXCEPT ![c] = r]
    BY <1>1, <1>10 DEF LoadInstance
  <2>2. /\ r \in RunEntry /\ r.at = "find" /\ r.config = config /\ r.op = q.op /\ r.rows = q.rows
        /\ r.page = q.page /\ r.from = q.from /\ r.to = q.to
    BY <1>1 DEF RunEntry, Steps
  <2> HIDE DEF r
  <2>3. Exports(r)
    BY <1>1, <2>1, <2>2, ExportsStay
  <2>4. RequestOK(r)
    BY <1>1, <2>1, <2>2 DEF RequestOK, RunEntry
  <2> QED BY <2>1, <2>2, <2>3, <2>4
<1>5. ASSUME FindActive(c)
      PROVE  \E r \in RunEntry : RequestOK(r) /\ Exports(r) /\ client' = [client EXCEPT ![c] = r]
  <2>1. q.at = "find"
    BY <1>5 DEF FindActive
  <2>2. CASE active # NoRun
    <3>1. Proceed(c, active) /\ active \in Run /\ active.id = nextID
      BY <1>1, <1>5, <2>2 DEF FindActive, RunsInv, RunTypes
    <3>2. PICK r \in RunEntry :
           /\ client' = [client EXCEPT ![c] = r] /\ Exports(r)
           /\ r.at \in {"idle", "latest", "page"}
           /\ r.at = "latest" => r.op = "reset"
           /\ r.at = "page" => r.op = "export"
           /\ r.at # "idle" => r.run = active /\ r.config = q.config
      BY <2>1, <3>1, Proceeds
    <3>3. RequestOK(r)
      <4>1. r.at \in {"latest", "page"} => Known(r) /\ r.config \in 1..MaxConfigs
        BY <1>1, <2>1, <2>2, <3>1, <3>2 DEF RequestOK, Known
      <4> QED BY <3>2, <4>1 DEF RequestOK, RunEntry
    <3> QED BY <3>2, <3>3
  <2>3. CASE active = NoRun
    <3> DEFINE r == [q EXCEPT !.at = "first"]
    <3>1. client' = [client EXCEPT ![c] = r]
      BY <1>1, <1>5, <2>3 DEF FindActive
    <3>2. /\ r \in RunEntry /\ r.at = "first" /\ r.op = q.op /\ r.rows = q.rows /\ r.page = q.page
          /\ r.from = q.from /\ r.to = q.to /\ r.config = q.config
      BY <1>1 DEF RunEntry, Steps
    <3> HIDE DEF r
    <3>3. Exports(r)
      BY <1>1, <2>1, <3>2, ExportsStay
    <3>4. RequestOK(r)
      BY <1>1, <2>1, <3>2 DEF RequestOK, RunEntry
    <3> QED BY <3>1, <3>2, <3>3, <3>4
  <2> QED BY <2>2, <2>3
<1>6. ASSUME FirstBatch(c)
      PROVE  \E r \in RunEntry : RequestOK(r) /\ Exports(r) /\ client' = [client EXCEPT ![c] = r]
  <2>1. q.at = "first"
    BY <1>6 DEF FirstBatch
  <2>2. CASE newest = 0
    BY <1>6, <2>2, QuietRequest DEF FirstBatch, Reply
  <2>3. CASE newest # 0
    <3> DEFINE r == [q EXCEPT !.at = "start", !.cutoff = newest]
    <3>1. client' = [client EXCEPT ![c] = r]
      BY <1>1, <1>6, <2>3 DEF FirstBatch
    <3>2. /\ r \in RunEntry /\ r.at = "start" /\ r.op = q.op /\ r.rows = q.rows /\ r.page = q.page
          /\ r.from = q.from /\ r.to = q.to /\ r.config = q.config
      BY <1>1 DEF RunEntry, Steps
    <3> HIDE DEF r
    <3>3. Exports(r)
      BY <1>1, <2>1, <3>2, ExportsStay
    <3>4. RequestOK(r)
      BY <1>1, <2>1, <3>2 DEF RequestOK, RunEntry
    <3> QED BY <3>1, <3>2, <3>3, <3>4
  <2> QED BY <2>2, <2>3
<1>7. ASSUME PrepareReset(c)
      PROVE  \E r \in RunEntry : RequestOK(r) /\ Exports(r) /\ client' = [client EXCEPT ![c] = r]
  <2>1. q.at = "latest"
    BY <1>7 DEF PrepareReset
  <2>2. CASE Reply(c)
    BY <2>2, QuietRequest DEF Reply
  <2>3. CASE ~Reply(c)
    <3> DEFINE a == buildRunArchive(q.run, newest)
               r == [q EXCEPT !.at = "archive", !.cutoff = newest, !.archive = a]
    <3>1. client' = [client EXCEPT ![c] = r]
      BY <1>1, <1>7, <2>3 DEF PrepareReset
    <3>2. Known(q) /\ q.op = "reset"
      BY <1>1, <2>1 DEF RequestOK
    <3>3. a \in Payloads
      BY <1>1, <3>2 DEF Payloads, Known
    <3> HIDE DEF a
    <3>4. /\ r \in RunEntry /\ r.at = "archive" /\ r.op = q.op /\ r.rows = q.rows /\ r.page = q.page
          /\ r.from = q.from /\ r.to = q.to /\ r.config = q.config /\ r.run = q.run /\ r.cutoff = newest /\ r.archive = a
      BY <1>1, <3>3 DEF RunEntry, Steps
    <3> HIDE DEF r
    <3>5. Exports(r)
      BY <1>1, <2>1, <3>4, ExportsStay
    <3>6. Known(r)
      BY <3>2, <3>4 DEF Known
    <3>7. RequestOK(r)
      BY <1>1, <2>1, <3>2, <3>4, <3>6 DEF RequestOK, RunEntry, a
    <3> QED BY <3>1, <3>4, <3>5, <3>7
  <2> QED BY <2>2, <2>3
<1>8. ASSUME ExportPage(c)
      PROVE  \E r \in RunEntry : RequestOK(r) /\ Exports(r) /\ client' = [client EXCEPT ![c] = r]
  <2> DEFINE o == GridOffset[q.config]
             from == LaterOf(q.from, q.run.started)
             to == LaterOf(from, q.to)
             w == Windows(o, from, to)
             page == Page(w, q.page)
             r == [q EXCEPT !.rows = q.rows \o page, !.page = q.page + 1,
                       !.at = IF q.page * PerPage >= Len(w) \/ page = <<>> THEN "exported" ELSE "load"]
  <2>1. q.at = "page" /\ q.op = "export" /\ q.run \in Run
    BY <1>1, <1>8 DEF ExportPage, RequestOK, Known
  <2>2. client' = [client EXCEPT ![c] = r]
    BY <1>1, <1>8 DEF ExportPage, RunEntry
  <2>3. r \in RunEntry /\ Exports(r)
    <3>2. o \in Offsets
      BY <1>1, <2>1, RunsAssumption DEF RequestOK, Offsets
    <3> HIDE DEF o, from, to, w, page
    <3>1. from = LaterOf(q.from, q.run.started) /\ to = LaterOf(from, q.to) /\ w = Windows(o, from, to)
          /\ page = Page(w, q.page)
      BY DEF from, to, w, page
    <3> QED BY <1>1, <2>1, <3>1, <3>2, PageOfExport
  <2>4. r.op = "export" /\ r.at \in {"exported", "load"}
    BY <1>1, <2>1 DEF RunEntry
  <2> HIDE DEF r
  <2>5. RequestOK(r)
    BY <2>3, <2>4 DEF RequestOK, RunEntry
  <2> QED BY <2>2, <2>3, <2>5
<1>9. ASSUME Exported(c)
      PROVE  \E r \in RunEntry : RequestOK(r) /\ Exports(r) /\ client' = [client EXCEPT ![c] = r]
  BY <1>9, QuietRequest DEF Exported, Reply
<1> QED BY <1>4, <1>5, <1>6, <1>7, <1>8, <1>9, <1>10

LEMMA BatchSteps ==
  ASSUME RunsInv, Commit \/ LoseBatch \/ Reconfigure \/ UNCHANGED runsVars
  PROVE  RunsInv'
<1>1. /\ UNCHANGED runRows /\ client' = client
      /\ newest' \in 0..MaxBatchTime /\ config' \in 1..MaxConfigs
  BY RunsAssumption
  DEF RunsInv, RunTypes, RunsTypeOK, Commit, LoseBatch, Reconfigure, runRows, runsVars
<1>2. client' \in [RunClients -> RunEntry] /\ \A d \in RunClients : RequestOK(client'[d]) /\ Exports(client'[d])
  BY <1>1 DEF RunsInv, RunTypes
<1> QED BY <1>1, <1>2, RunsStay

\* A step of one request that starts a run.
LEMMA RunStarts ==
  ASSUME RunsInv, UNCHANGED rest, nextID' \in 0..MaxRuns, nextID' = nextID + 1,
         active' \in Run, active'.id = nextID',
         archived' \in Seq(RunArchive), RunsTile',
         NEW c \in RunClients, NEW r \in RunEntry, RequestOK(r)', Exports(r),
         client' = [client EXCEPT ![c] = r]
  PROVE  RunsInv'
<1>1. client \in [RunClients -> RunEntry] /\ nextID \in Nat
  BY DEF RunsInv, RunTypes, RunsTypeOK
<1>2. client' \in [RunClients -> RunEntry] /\ \A d \in RunClients : client'[d] = IF d = c THEN r ELSE client[d]
  BY <1>1
<1>3. NoRun \notin Run
  BY RunsAssumption
<1>4. \A i \in DOMAIN archived' : archived'[i] \in RunArchive
  OBVIOUS
<1>5. RunTypes'
  BY <1>2, <1>3, <1>4 DEF RunsInv, RunTypes, RunsTypeOK, rest, RunArchive
<1>6. ASSUME NEW d \in RunClients PROVE RequestOK(client[d])' /\ Exports(client[d])'
  <2>1. CASE d = c
    BY <1>2, <2>1 DEF RequestOK, Known, buildRunArchive, Windows, Exports, Whole, Cut, RowEdge, Edge, Grid
  <2>2. CASE d # c
    <3> DEFINE q == client[d]
    <3>1. RequestOK(q) /\ Exports(q) /\ client'[d] = q
      BY <1>2, <2>2 DEF RunsInv
    <3>2. NoRun \notin Run /\ (Known(q) => q.run \in Run /\ q.run.id \in Nat /\ q.run.id <= nextID)
      BY <1>3 DEF Known, Run
    <3>3. Known(q) => Known(client[d])'
      BY <1>1, <3>1, <3>2 DEF Known
    <3>4. RequestOK(client[d])'
      BY <3>1, <3>3 DEF RequestOK, buildRunArchive, Windows
    <3>5. Exports(client[d])'
      BY SMTT(30), <3>1 DEF Exports, Whole, Cut, RowEdge, Edge, Grid
    <3> QED BY <3>4, <3>5
  <2> QED BY <2>1, <2>2
<1> QED BY <1>5, <1>6 DEF RunsInv

LEMMA StartStep ==
  ASSUME RunsInv, NEW c \in RunClients, Start(c)
  PROVE  RunsInv'
<1> DEFINE q == client[c]
<1>1. /\ q \in RunEntry /\ RequestOK(q) /\ Exports(q) /\ client \in [RunClients -> RunEntry]
      /\ newest \in 0..MaxBatchTime /\ config \in 1..MaxConfigs
      /\ nextID \in 0..MaxRuns /\ nextID \in Nat /\ MaxRuns \in Nat
  BY RunsAssumption DEF RunsInv, RunTypes, RunsTypeOK
<1>2. CASE active = NoRun
  <2>1. /\ active' = NewRun(c, q.cutoff) /\ nextID' = nextID + 1 /\ Proceed(c, active')
        /\ UNCHANGED rest /\ UNCHANGED archived /\ nextID < MaxRuns /\ q.at = "start"
    BY <1>2 DEF Start
  <2>2. active' \in Run /\ active'.id = nextID'
    BY <1>1, <1>2, <2>1 DEF NewRun, Run, RunEntry, RequestOK
  <2>3. archived = <<>> /\ archived' \in Seq(RunArchive)
    BY <1>2, <2>1 DEF RunsInv, RunTypes
  <2>4. RunsTile'
    BY <2>1, <2>3 DEF RunsTile
  <2>5. PICK r \in RunEntry :
           /\ client' = [client EXCEPT ![c] = r] /\ Exports(r)
           /\ r.at \in {"idle", "latest", "page"}
           /\ r.at = "latest" => r.op = "reset"
           /\ r.at = "page" => r.op = "export"
           /\ r.at # "idle" => r.run = active' /\ r.config = q.config
    BY <2>1, <2>2, Proceeds
  <2>6. NoRun \notin Run
    BY RunsAssumption
  <2>7. r.at # "idle" => Known(r)'
    BY <1>1, <2>1, <2>2, <2>5, <2>6 DEF Known, Run
  <2>8. RequestOK(r)'
    BY <1>1, <2>1, <2>5, <2>7 DEF RequestOK, RunEntry
  <2>9. nextID' \in 0..MaxRuns
    BY <1>1, <2>1
  <2> QED BY <2>1, <2>2, <2>3, <2>4, <2>5, <2>8, <2>9, RunStarts
<1>3. CASE active # NoRun
  BY <1>1, <1>3, QuietRequest, RequestStays DEF Start, Reply, rest, runRows
<1> QED BY <1>2, <1>3

LEMMA ArchiveStep ==
  ASSUME RunsInv, NEW c \in RunClients, ArchiveAndStart(c)
  PROVE  RunsInv'
<1> DEFINE q == client[c]
<1>1. /\ q \in RunEntry /\ RequestOK(q) /\ Exports(q) /\ client \in [RunClients -> RunEntry]
      /\ newest \in 0..MaxBatchTime /\ config \in 1..MaxConfigs
      /\ nextID \in 0..MaxRuns /\ nextID \in Nat /\ MaxRuns \in Nat
      /\ archived \in Seq(RunArchive) /\ RunsTile /\ active \in Run \cup {NoRun}
  BY RunsAssumption DEF RunsInv, RunTypes, RunsTypeOK
<1>2. /\ q.at = "archive" /\ client' = [client EXCEPT ![c] = Quiet] /\ UNCHANGED rest
      /\ nextID < MaxRuns
  BY DEF ArchiveAndStart, Reply
<1>3. Known(q) /\ q.archive = buildRunArchive(q.run, q.cutoff) /\ q.cutoff \in Nat
  BY <1>1, <1>2 DEF RequestOK
<1>4. CASE active # NoRun /\ active.id = q.run.id /\ q.cutoff >= active.started
  <2> DEFINE row == [run |-> active, ended |-> q.cutoff, payload |-> q.archive]
  <2>1. archived' = Append(archived, row) /\ active' = NewRun(c, q.cutoff) /\ nextID' = nextID + 1
    BY <1>4 DEF ArchiveAndStart, Archive
  <2>2. q.run = active /\ active \in Run
    BY <1>1, <1>3, <1>4 DEF Known
  <2>3. row \in RunArchive
    BY <1>3, <2>2 DEF RunArchive, Payloads
  <2>4. /\ row.run = active /\ row.ended = q.cutoff /\ row.payload = buildRunArchive(active, q.cutoff)
    BY <1>3, <2>2
  <2>5. active' \in Run /\ active'.id = nextID' /\ active'.started = q.cutoff /\ active' # NoRun
    <3>1. active' \in Run /\ active'.id = nextID' /\ active'.started = q.cutoff
      BY <1>1, <1>2, <2>1 DEF NewRun, Run, RunEntry, RequestOK
    <3> QED BY <3>1, RunsAssumption
  <2> HIDE DEF row
  <2>6. /\ archived' \in Seq(RunArchive) /\ Len(archived') = Len(archived) + 1
        /\ \A i \in 1..Len(archived) : archived'[i] = archived[i]
        /\ archived'[Len(archived) + 1] = row
        /\ DOMAIN archived' = 1..Len(archived) + 1 /\ DOMAIN archived = 1..Len(archived)
        /\ Len(archived) \in Nat
    BY <1>1, <2>1, <2>3
  <2>7. RunsTile'
    <3> DEFINE Begins(i) == IF i < Len(archived) THEN archived[i + 1].run ELSE active
               BeginsNow(i) == IF i < Len(archived') THEN archived'[i + 1].run ELSE active'
    <3>1. ASSUME NEW i \in 1..Len(archived)
          PROVE  BeginsNow(i) = Begins(i) /\ archived'[i] = archived[i]
      <4>1. CASE i < Len(archived)
        BY <2>6, <4>1
      <4>2. CASE i = Len(archived)
        BY <2>4, <2>6, <4>2
      <4> QED BY <2>6, <4>1, <4>2
    <3>2. \A i \in 1..Len(archived) :
             /\ archived[i].run.started <= archived[i].ended
             /\ Begins(i) # NoRun /\ Begins(i).started = archived[i].ended
             /\ archived[i].payload = buildRunArchive(archived[i].run, archived[i].ended)
      BY <1>1, <2>6 DEF RunsTile
    <3>3. BeginsNow(Len(archived) + 1) = active'
      BY <2>6
    <3> HIDE DEF Begins, BeginsNow
    <3>4. ASSUME NEW i \in 1..Len(archived) + 1
          PROVE  /\ archived'[i].run.started <= archived'[i].ended
                 /\ BeginsNow(i) # NoRun /\ BeginsNow(i).started = archived'[i].ended
                 /\ archived'[i].payload = buildRunArchive(archived'[i].run, archived'[i].ended)
      <4>1. CASE i \in 1..Len(archived)
        BY <3>1, <3>2, <4>1
      <4>2. CASE i = Len(archived) + 1
        <5>1. active.started <= q.cutoff
          BY <1>3, <1>4, <2>2 DEF Run
        <5> QED BY <2>4, <2>5, <2>6, <3>3, <4>2, <5>1
      <4> QED BY <2>6, <4>1, <4>2
    <3> QED BY <2>6, <3>4 DEF RunsTile, BeginsNow, buildRunArchive, Windows
  <2>8. RequestOK(Quiet)'
    BY QuietRequest DEF RequestOK, Quiet
  <2>9. nextID' \in 0..MaxRuns
    BY <1>1, <1>2, <2>1
  <2> QED BY <1>2, <2>1, <2>5, <2>6, <2>7, <2>8, <2>9, QuietRequest, RunStarts
<1>5. CASE ~(active # NoRun /\ active.id = q.run.id /\ q.cutoff >= active.started)
  BY <1>1, <1>2, <1>5, QuietRequest, RequestStays DEF ArchiveAndStart, rest
<1> QED BY <1>4, <1>5

----------------------------------------------------------------------------
LEMMA RunsKept == RunsInv /\ [RunsNext]_runsVars => RunsInv'
<1> SUFFICES ASSUME RunsInv, [RunsNext]_runsVars PROVE RunsInv'
  OBVIOUS
<1>1. CASE Commit \/ LoseBatch \/ Reconfigure \/ UNCHANGED runsVars
  BY <1>1, BatchSteps
<1>2. ASSUME NEW c \in RunClients,
             \/ \E op \in {"current", "reset", "export"} : Request(c, op)
             \/ LoadInstance(c) \/ FindActive(c) \/ FirstBatch(c) \/ Start(c)
             \/ PrepareReset(c) \/ ArchiveAndStart(c)
             \/ ExportPage(c) \/ Exported(c)
      PROVE  RunsInv'
  BY <1>2, RequestSteps, StartStep, ArchiveStep
<1> QED BY <1>1, <1>2 DEF RunsNext

\* What the invariant says of an export in terms of its rows.
LEMMA RowsFollow ==
  ASSUME NEW q \in RunEntry, Exports(q)
  PROVE  LET out == q.rows
             full == {i \in DOMAIN out : Measured(out[i])}
         IN  \A i \in full :
                /\ q.from <= out[i][1] /\ out[i][2] <= q.to
                /\ (\A j \in full : i <= j) => out[i][2] = q.to
                /\ \A j \in full : (j < i /\ \A k \in full : k <= j \/ i <= k) =>
                      Joins(out[j], out[i])
<1> DEFINE out == q.rows
           full == {i \in DOMAIN out : Measured(out[i])}
<1>1. /\ q.to \in Nat /\ out \in Rows /\ DOMAIN out = 1..Len(out) /\ Len(out) \in Nat
      /\ \A i \in 1 .. Len(out) - 1 : Whole(q, i)
      /\ \A i \in 1..Len(out) : Cut(q, i) /\ out[i][3] \in Offsets
  <2>1. q.to \in Nat /\ out \in Rows
    BY DEF Exports, RunEntry
  <2>2. /\ DOMAIN out = 1..Len(out) /\ Len(out) \in Nat
        /\ \A i \in 1..Len(out) : out[i] \in Int \X Int \X Offsets
    BY <2>1 DEF Rows
  <2> HIDE DEF out
  <2>3. \A i \in 1..Len(out) : out[i][3] \in Offsets
    BY <2>2
  <2>4. /\ \A i \in 1 .. Len(out) - 1 : Whole(q, i)
        /\ \A i \in 1..Len(out) : Cut(q, i)
    BY <2>2 DEF Exports, out
  <2> QED BY <2>1, <2>2, <2>3, <2>4
<1>2. \A i \in 1 .. Len(out) - 1 : i \in full
  BY <1>1 DEF Whole
<1>3. SUFFICES ASSUME NEW i \in full
               PROVE  /\ q.from <= out[i][1] /\ out[i][2] <= q.to
                      /\ (\A j \in full : i <= j) => out[i][2] = q.to
                      /\ \A j \in full : (j < i /\ \A k \in full : k <= j \/ i <= k) =>
                            Joins(out[j], out[i])
  OBVIOUS
<1> DEFINE o == out[i][3]
<1>4. /\ i \in 1..Len(out) /\ i \in Nat /\ q.from <= out[i][1] /\ o \in Offsets
      /\ out[i][2] = EarlierOf(q.to, Edge(o, q.to, i - 1))
  BY <1>1 DEF Cut, RowEdge
<1> HIDE DEF o
<1>7. Edge(o, q.to, i - 1) \in Int
  BY <1>1, <1>4, GridEdges
<1>8. out[i][2] <= q.to
  <2>1. q.to \in Int
    BY <1>1
  <2> QED BY ONLY <1>4, <1>7, <2>1, Bounds
<1>5. ASSUME \A j \in full : i <= j PROVE out[i][2] = q.to
  <2>1. i = 1
    <3>1. CASE i > 1
      <4>1. 1 \in full
        BY SMTT(30), <1>1, <1>2, <1>4, <3>1
      <4> QED BY <1>4, <1>5, <3>1, <4>1
    <3> QED BY <1>4, <3>1
  <2>2. Edge(o, q.to, 0) = Grid(o, q.to) /\ Grid(o, q.to) \in Nat /\ q.to <= Grid(o, q.to)
    BY <1>1, <1>4, GridEdges
  <2>3. out[i][2] = EarlierOf(q.to, Edge(o, q.to, 0))
    BY <1>4, <2>1
  <2> QED BY <1>1, <2>2, <2>3 DEF EarlierOf
<1>6. ASSUME NEW j \in full, j < i, \A k \in full : k <= j \/ i <= k
      PROVE  Joins(out[j], out[i])
  <2>1. j \in 1..Len(out)
    BY <1>1
  <2>6. i \in Nat /\ j \in Nat /\ j > 0 /\ i <= Len(out) /\ Len(out) \in Nat
    BY SMTT(30), <1>1, <1>4, <2>1
  <2>2. j = i - 1
    <3>1. CASE j < i - 1
      <4>1. j + 1 \in full
        <5>1. j + 1 \in 1 .. Len(out) - 1
          BY <2>6, <3>1
        <5> QED BY <1>2, <5>1
      <4> QED BY <1>6, <2>6, <3>1, <4>1
    <3> QED BY <1>6, <2>6, <3>1
  <2> DEFINE p == out[j][3]
             e == Edge(o, q.to, j)
             d == Edge(p, q.to, j)
  <2>3. out[j][1] = d /\ p \in Offsets
    <3>1. j \in 1 .. Len(out) - 1
      BY <2>2, <2>6
    <3>2. Whole(q, j)
      BY <1>1, <3>1
    <3> QED BY <1>1, <2>1, <3>2 DEF Whole, RowEdge
  <2> HIDE DEF p
  <2>4. e \in Int /\ e < q.to /\ d \in Int
    BY <1>1, <1>4, <2>3, <2>6, GridEdges
  <2>5. out[i][2] = EarlierOf(q.to, e)
    BY <1>4, <2>2
  <2>7. e - d \in 1 - Bucket .. Bucket - 1
    BY <1>1, <1>4, <2>3, <2>6, GridsApart
  <2>8. o = p => e = d
    OBVIOUS
  <2> HIDE DEF d, e
  <2>9. out[i][2] = e
    BY <1>1, <2>4, <2>5 DEF EarlierOf
  <2> QED BY <2>3, <2>7, <2>8, <2>9 DEF Joins, o, p
<1> QED BY <1>4, <1>5, <1>6, <1>8

(* plugin/energy/service.go, measurement_run.go and the repository of the runs:    *)
(* the measurement runs follow one another without gap or overlap, each archive is *)
(* the period of its run under the configuration of its run, and an export has no  *)
(* gap and no overlap, even when the run is reset between two of its pages, except *)
(* between pages read in different time zones, where it is less than one window.   *)
(* For every number of requests, every period, window, grid and page size.         *)
THEOREM RunsAreSound == RunsSpec => []RunsSound
<1>1. RunsInv => RunsSound
  <2> SUFFICES ASSUME RunsInv PROVE RunsTypeOK /\ RunsTile /\ ExportContiguous
    BY DEF RunsSound
  <2>1. \A c \in RunClients : client[c] \in RunEntry /\ Exports(client[c])
    BY DEF RunsInv, RunTypes
  <2>2. ExportContiguous
    BY <2>1, RowsFollow DEF ExportContiguous
  <2> QED BY <2>2 DEF RunsInv, RunTypes
<1> QED BY <1>1, RunsBegin, RunsKept, PTL DEF RunsSpec

-----------------------------------------------------------------------------
(* The source feed of a publisher (SourceSubscription).                    *)
(*                                                                         *)
(* Both upstreams number what they send in its order, so that a channel is *)
(* increasing, and what it holds is newer than the cursor of its source    *)
(* unless the first load already gave it.  Every number is then delivered, *)
(* on its way, or later than the end of its channel.                       *)

\* Where Subscribe stands, and what has not begun by then.
StageOK ==
  /\ pc # "running" =>
       /\ merged = <<>> /\ got = <<>> /\ streams = {} /\ inHand.outputs = {}
       /\ ~eventsClosed /\ ~readerClosed /\ err = "none"
  /\ pc = "running" => cursor \in [Selected -> Nat]
  /\ pc = "tags" => tagStream = <<>> /\ tagUp = "none"
  /\ pc # "tags" => tagUp # "none"
  /\ pc \in {"tags", "plugins"} => batchStream = <<>> /\ batchUp = "none"
  /\ pc \in {"load", "initial", "running"} => batchUp # "none"
  /\ pc \in {"tags", "plugins", "load", "initial"} => ~cancelled
  /\ eventsClosed => streams = {}

Increasing(channel) == \A i, j \in DOMAIN channel : i < j => channel[i] < channel[j]

\* The channel of the tags has the numbers in their order, and brings nothing
\* that was replayed or delivered.
TagsOK ==
  /\ Increasing(tagStream)
  /\ \A n \in ToSet(tagStream) :
       /\ n \in 1..TagSeq
       /\ pc # "tags" => n > replayed[tagLog[n]]
       /\ pc = "running" => n > cursor[tagLog[n]]
  /\ \A t \in TagSources :
       /\ replayed[t] <= TagSeq
       /\ pc = "running" => cursor[t] <= TagSeq

\* The channel of the batches has them in their order, after the one that is
\* published, and brings nothing that was delivered except what was loaded.
BatchesOK ==
  /\ Increasing(batchStream)
  /\ \A n \in ToSet(batchStream) :
       n \in 1..announced /\ (inHand.outputs # {} => inHand.seq < n)
  /\ inHand.outputs # {} => inHand.seq \in 1..announced
  /\ stored \in {announced, announced + 1}
  /\ pc = "running" => \A s \in OutputSources :
       /\ cursor[s] = loaded \/ cursor[s] <= announced
       /\ \A n \in AtHand(s) : n > loaded => n > cursor[s]

\* The cursor of a source is at its newest sample.
CursorOK == \A d \in Delivered : d.seq <= cursor[d.source]

\* What has been put, and announced, is covered from the subscription on.
TagsCovered ==
  pc # "tags" /\ err = "none" => \A n \in 1..TagSeq :
    n > replayed[tagLog[n]] => Covered(tagLog[n], n, ToSet(tagStream), tagUp = "closed")

BatchesCovered ==
  pc \in {"initial", "running"} /\ err = "none" =>
    \A s \in OutputSources : \A n \in (loaded + 1)..announced :
      Covered(s, n, AtHand(s), batchUp # "open")

\* Nothing ends without an error unless the reader closes.
EndingOK ==
  pc = "running" /\ ~readerClosed /\ (cancelled \/ streams # {"tag", "plugin"}) => err # "none"

FeedInv ==
  /\ FeedTypeOK /\ StageOK /\ TagsOK /\ BatchesOK /\ InOrder /\ CursorOK
  /\ TagsCovered /\ BatchesCovered /\ EndingOK

(* What sequences do *)

LEMMA SetOfAppended ==
  ASSUME NEW T, NEW s \in Seq(T), NEW x \in T
  PROVE  ToSet(Append(s, x)) = ToSet(s) \cup {x}
<1>1. /\ DOMAIN Append(s, x) = 1..(Len(s) + 1) /\ DOMAIN s = 1..Len(s) /\ Len(s) \in Nat
      /\ Append(s, x)[Len(s) + 1] = x
      /\ \A i \in 1..Len(s) : Append(s, x)[i] = s[i]
  OBVIOUS
<1>2. 1..(Len(s) + 1) = 1..Len(s) \cup {Len(s) + 1} BY <1>1
<1> QED BY <1>1, <1>2 DEF ToSet

LEMMA SetOfHeadAndTail ==
  ASSUME NEW T, NEW s \in Seq(T), s # <<>>
  PROVE  /\ ToSet(s) = ToSet(Tail(s)) \cup {Head(s)}
         /\ Head(s) \in ToSet(s) /\ Head(s) \in T /\ Tail(s) \in Seq(T)
<1>1. Len(s) \in Nat \ {0} /\ Len(Tail(s)) = Len(s) - 1 /\ Tail(s) \in Seq(T)
  BY EmptySeq, HeadTailProperties
<1>2. \A i \in 1..Len(Tail(s)) : Tail(s)[i] = s[i + 1]
  BY HeadTailProperties
<1>3. DOMAIN s = 1..Len(s) /\ DOMAIN Tail(s) = 1..Len(Tail(s)) /\ Head(s) = s[1] /\ 1 \in DOMAIN s
  BY <1>1
<1>4. ASSUME NEW i \in DOMAIN s, i # 1 PROVE s[i] \in ToSet(Tail(s))
  <2>1. i \in 1..Len(s) /\ i # 1 BY <1>3, <1>4
  <2>2. i - 1 \in 1..Len(Tail(s)) /\ (i - 1) + 1 = i BY <1>1, <2>1
  <2>3. i - 1 \in DOMAIN Tail(s) /\ Tail(s)[i - 1] = s[i] BY <1>2, <1>3, <2>2
  <2> QED BY <2>3 DEF ToSet
<1>5. \A i \in DOMAIN Tail(s) : i + 1 \in DOMAIN s /\ Tail(s)[i] = s[i + 1]
  BY <1>1, <1>2, <1>3
<1> QED BY <1>1, <1>3, <1>4, <1>5 DEF ToSet

LEMMA IncreasingTail ==
  ASSUME NEW s \in Seq(Nat), s # <<>>, Increasing(s)
  PROVE  Increasing(Tail(s)) /\ \A n \in ToSet(Tail(s)) : Head(s) < n
<1>1. Len(s) \in Nat \ {0} /\ Len(Tail(s)) = Len(s) - 1 /\ Tail(s) \in Seq(Nat)
  BY EmptySeq, HeadTailProperties
<1>2. \A i \in 1..Len(Tail(s)) : Tail(s)[i] = s[i + 1] /\ i + 1 \in DOMAIN s /\ i \in Nat \ {0}
  BY <1>1, HeadTailProperties
<1>3. DOMAIN Tail(s) = 1..Len(Tail(s)) /\ Head(s) = s[1] /\ 1 \in DOMAIN s
  BY <1>1
<1> QED BY <1>2, <1>3 DEF ToSet, Increasing

LEMMA IncreasingAppended ==
  ASSUME NEW s \in Seq(Nat), NEW n \in Nat, Increasing(s), \A m \in ToSet(s) : m < n
  PROVE  Increasing(Append(s, n))
<1>1. /\ DOMAIN Append(s, n) = 1..(Len(s) + 1) /\ DOMAIN s = 1..Len(s) /\ Len(s) \in Nat
      /\ Append(s, n)[Len(s) + 1] = n
      /\ \A i \in 1..Len(s) : Append(s, n)[i] = s[i]
  OBVIOUS
<1>2. \A i \in 1..Len(s) : s[i] < n BY <1>1 DEF ToSet
<1> QED BY <1>1, <1>2 DEF Increasing

LEMMA PublishAppends ==
  ASSUME NEW T, NEW g \in Seq(T), NEW m \in Seq(T), NEW x \in T
  PROVE  g \o Append(m, x) = Append(g \o m, x) /\ g \o m \in Seq(T)
<1>1. g \o Append(m, x) \in Seq(T) /\ Append(g \o m, x) \in Seq(T) OBVIOUS
<1>2. Len(g \o Append(m, x)) = Len(g) + Len(m) + 1 /\ Len(Append(g \o m, x)) = Len(g) + Len(m) + 1
  OBVIOUS
<1>3. ASSUME NEW i \in 1..(Len(g) + Len(m) + 1)
      PROVE  (g \o Append(m, x))[i] = Append(g \o m, x)[i]
  OBVIOUS
<1> QED BY <1>1, <1>2, <1>3, SeqEqual

LEMMA ReadMoves ==
  ASSUME NEW T, NEW g \in Seq(T), NEW m \in Seq(T), m # <<>>
  PROVE  Append(g, Head(m)) \o Tail(m) = g \o m
<1>1. Len(m) \in Nat \ {0} /\ Len(Tail(m)) = Len(m) - 1 /\ Tail(m) \in Seq(T) /\ Head(m) = m[1] /\ Head(m) \in T
  BY EmptySeq, HeadTailProperties
<1>2. \A i \in 1..Len(Tail(m)) : Tail(m)[i] = m[i + 1]
  BY HeadTailProperties
<1>3. Append(g, Head(m)) \in Seq(T) /\ Len(Append(g, Head(m))) = Len(g) + 1 /\ Len(g) \in Nat
  BY <1>1
<1>4. /\ Append(g, Head(m)) \o Tail(m) \in Seq(T) /\ g \o m \in Seq(T)
      /\ Len(Append(g, Head(m)) \o Tail(m)) = Len(g) + Len(m) /\ Len(g \o m) = Len(g) + Len(m)
  BY <1>1, <1>3
<1>5. ASSUME NEW i \in 1..(Len(g) + Len(m))
      PROVE  (Append(g, Head(m)) \o Tail(m))[i] = (g \o m)[i]
  <2>1. CASE i <= Len(g) BY <2>1, <1>1, <1>3
  <2>2. CASE i = Len(g) + 1 BY <2>2, <1>1, <1>3
  <2>3. CASE i > Len(g) + 1
    <3>1. (Append(g, Head(m)) \o Tail(m))[i] = Tail(m)[i - Len(g) - 1]
      BY <2>3, <1>1, <1>3
    <3>2. (g \o m)[i] = m[i - Len(g)] BY <2>3, <1>1, <1>3
    <3>3. i - Len(g) - 1 \in 1..Len(Tail(m)) BY <2>3, <1>1, <1>3
    <3> QED BY <3>1, <3>2, <3>3, <1>2
  <2> QED BY <2>1, <2>2, <2>3, <1>3
<1> QED BY <1>4, <1>5, SeqEqual

(* The newest value of a tag is a number that was given to it. *)
LEMMA LatestIsLast ==
  ASSUME FeedTypeOK, NEW t \in TagSources
  PROVE  /\ LatestOf(t) \in Nat /\ LatestOf(t) <= TagSeq
         /\ \A n \in 1..TagSeq : tagLog[n] = t => n <= LatestOf(t)
<1> DEFINE own == {n \in 1..TagSeq : tagLog[n] = t}
<1>0. TagSeq \in Nat BY DEF FeedTypeOK, TagSeq
<1>1. CASE own = {} BY <1>0, <1>1 DEF LatestOf
<1>2. CASE own # {}
  <2> DEFINE below == {TagSeq - n : n \in own}
  <2>1. below \subseteq Nat /\ below # {} BY <1>0, <1>2
  <2>2. PICK x \in below : \A y \in below : ~(<<y, x>> \in OpToRel(<, Nat))
    BY <2>1, WFMin, NatLessThanWellFounded
  <2>3. \A y \in below : ~(y < x) BY <2>1, <2>2 DEF OpToRel
  <2>4. PICK n \in own : x = TagSeq - n BY DEF below
  <2>5. \A m \in own : m <= n
    <3>1. \A m \in own : TagSeq - m \in below /\ m \in Nat OBVIOUS
    <3> HIDE DEF below
    <3> QED BY <1>0, <2>3, <2>4, <3>1
  <2>6. LatestOf(t) = CHOOSE k \in own : \A m \in own : m <= k BY <1>2 DEF LatestOf
  <2>7. LatestOf(t) \in own /\ \A m \in own : m <= LatestOf(t)
    <3> HIDE DEF own
    <3> QED BY <2>5, <2>6
  <2> QED BY <1>0, <2>7
<1> QED BY <1>1, <1>2

(* The sources in some order, each of them once. *)
LEMMA EachSourceOnce ==
  LET order == SetToSeq(Selected)
  IN /\ order \in [1..Cardinality(Selected) -> Selected]
     /\ \A i, j \in 1..Cardinality(Selected) : order[i] = order[j] => i = j
     /\ IsFiniteSet(Selected) /\ Cardinality(Selected) \in Nat
<1>1. IsFiniteSet(Selected) BY FeedAssumption, FS_Union DEF Selected
<1>2. /\ Cardinality(Selected) \in Nat
      /\ ExistsBijection(1..Cardinality(Selected), Selected)
  BY <1>1, FS_CardinalityType
<1>3. \E f \in [1..Cardinality(Selected) -> Selected] : IsInjective(f)
  BY <1>2 DEF ExistsBijection, Bijection, Injection
<1>4. /\ SetToSeq(Selected) \in [1..Cardinality(Selected) -> Selected]
      /\ IsInjective(SetToSeq(Selected))
  BY <1>3 DEF SetToSeq
<1> QED BY <1>1, <1>2, <1>4 DEF IsInjective

-----------------------------------------------------------------------------
(* Steps that only end something *)

FeedStays ==
  UNCHANGED <<tagLog, tagStream, replayed, stored, announced, batchStream, loaded, pc,
              merged, cursor, inHand, got>>

\* What is closed stays closed, and a subscription that has failed stays so.
ClosedStays ==
  /\ tagUp' \in {"open", "closed"} \/ tagUp' = tagUp
  /\ batchUp' \in {"open", "closed", "lagged"} \/ batchUp' = batchUp
  /\ tagUp = "closed" => tagUp' = "closed"
  /\ batchUp # "open" => batchUp' # "open"
  /\ err' \in {"none", "lag", "upstream"} /\ (err' = "none" => err = "none")
  /\ cancelled' \in BOOLEAN

LEMMA EndingStep ==
  ASSUME FeedInv, FeedStays, ClosedStays, StageOK', EndingOK',
         eventsClosed' \in BOOLEAN, readerClosed' \in BOOLEAN, streams' \subseteq {"tag", "plugin"}
  PROVE  FeedInv'
<1>1. FeedTypeOK' BY DEF FeedInv, FeedStays, ClosedStays, FeedTypeOK, Capacity, Sample, Selected
<1>2. TagsOK' BY DEF FeedInv, FeedStays, TagsOK, TagSeq
<1>3. BatchesOK' BY DEF FeedInv, FeedStays, BatchesOK, AtHand
<1>4. Samples' = Samples /\ Delivered' = Delivered BY DEF FeedStays, Samples, Delivered
<1>5. InOrder' /\ CursorOK' BY <1>4 DEF FeedInv, FeedStays, InOrder, CursorOK
<1>6. TagsCovered' BY <1>4 DEF FeedInv, FeedStays, ClosedStays, TagsCovered, Covered, TagSeq
<1>7. BatchesCovered'
  BY <1>4 DEF FeedInv, FeedStays, ClosedStays, BatchesCovered, Covered, AtHand
<1> QED BY <1>1, <1>2, <1>3, <1>5, <1>6, <1>7 DEF FeedInv

LEMMA WatchTagsStep == FeedInv /\ WatchTags => FeedInv'
<1> SUFFICES ASSUME FeedInv, WatchTags PROVE FeedInv' OBVIOUS
<1>1. FeedStays BY DEF WatchTags, FeedStays, upVars, subVars
<1>2. ClosedStays BY DEF WatchTags, ClosedStays, upVars, subVars, FeedInv, FeedTypeOK
<1>3. StageOK' /\ EndingOK'
  BY DEF WatchTags, upVars, subVars, FeedInv, StageOK, EndingOK, Selected
<1> QED BY <1>1, <1>2, <1>3, EndingStep DEF WatchTags, upVars, subVars, FeedInv, FeedTypeOK

LEMMA Torn ==
  ASSUME FeedInv, CloseUpstreams, pc # "tags", err' \in {"none", "lag", "upstream"},
         err' = "none" => err = "none"
  PROVE  ClosedStays
BY DEF FeedInv, FeedTypeOK, CloseUpstreams, ClosedStays

LEMMA Failing ==
  ASSUME FeedInv, fail, pc = "running"
  PROVE  ClosedStays /\ (cancelled' /\ ~readerClosed => err' # "none")
<1>1. CASE cancelled BY <1>1 DEF fail, ClosedStays, FeedInv, FeedTypeOK, EndingOK
<1>2. CASE ~cancelled
  <2>1. err' # "none" /\ err' \in {"none", "lag", "upstream"} /\ CloseUpstreams
    BY <1>2 DEF fail, FeedInv, FeedTypeOK
  <2> QED BY <2>1, Torn
<1> QED BY <1>1, <1>2

LEMMA ReturnsStep ==
  ASSUME FeedInv, TagReturns \/ BatchReturns
  PROVE  FeedInv'
<1>0. pc = "running" /\ streams # {} BY DEF FeedInv, StageOK, TagReturns, BatchReturns
<1>1. FeedStays /\ eventsClosed' = eventsClosed /\ readerClosed' = readerClosed
  BY DEF TagReturns, BatchReturns, FeedStays, upVars
<1>2. /\ ClosedStays /\ (cancelled /\ ~readerClosed => err' # "none")
      /\ (~cancelled => err' # "none")
  <2>1. CASE UNCHANGED <<err, cancelled, tagUp, batchUp>> /\ cancelled
    BY <1>0, <2>1 DEF ClosedStays, FeedInv, FeedTypeOK, EndingOK
  <2>2. CASE fail
    BY <1>0, <2>2, Failing DEF fail, FeedInv, FeedTypeOK, EndingOK, CloseUpstreams
  <2> QED BY <2>1, <2>2 DEF TagReturns, BatchReturns
<1>3. streams' \subseteq streams BY DEF TagReturns, BatchReturns
<1>4. EndingOK' BY <1>0, <1>1, <1>2 DEF EndingOK, FeedStays, ClosedStays
<1>5. StageOK'
  BY <1>0, <1>1, <1>2, <1>3 DEF FeedInv, FeedStays, ClosedStays, StageOK, FeedTypeOK, Selected
<1> QED BY <1>1, <1>2, <1>3, <1>4, <1>5, EndingStep DEF FeedInv, FeedTypeOK

LEMMA finishStep == FeedInv /\ finish => FeedInv'
<1> SUFFICES ASSUME FeedInv, finish PROVE FeedInv' OBVIOUS
<1>1. FeedStays /\ CloseUpstreams BY DEF finish, FeedStays, upVars
<1>2. ClosedStays BY <1>1, Torn DEF finish, FeedInv, FeedTypeOK
<1>3. StageOK' /\ EndingOK'
  BY <1>1, <1>2 DEF finish, FeedInv, StageOK, EndingOK, ClosedStays, Selected, FeedTypeOK, FeedStays
<1> QED BY <1>1, <1>2, <1>3, EndingStep DEF finish, FeedInv, FeedTypeOK

LEMMA CloseStep == FeedInv /\ CloseSubscription => FeedInv'
<1> SUFFICES ASSUME FeedInv, CloseSubscription PROVE FeedInv' OBVIOUS
<1>1. FeedStays /\ CloseUpstreams BY DEF CloseSubscription, FeedStays, upVars
<1>2. ClosedStays BY <1>1, Torn DEF CloseSubscription, FeedInv, FeedTypeOK
<1>3. StageOK' /\ EndingOK'
  BY <1>1, <1>2 DEF CloseSubscription, FeedInv, StageOK, EndingOK, ClosedStays, Selected, FeedTypeOK, FeedStays
<1> QED BY <1>1, <1>2, <1>3, EndingStep DEF CloseSubscription, FeedInv, FeedTypeOK

LEMMA SubscriberDoneStep == FeedInv /\ SubscriberDone => FeedInv'
<1> SUFFICES ASSUME FeedInv, SubscriberDone PROVE FeedInv' OBVIOUS
<1>1. FeedStays BY DEF SubscriberDone, FeedStays, upVars
<1>2. ClosedStays BY DEF SubscriberDone, ClosedStays, upVars, FeedInv, FeedTypeOK
<1>3. StageOK' /\ EndingOK'
  BY DEF SubscriberDone, upVars, FeedInv, StageOK, EndingOK, Selected
<1> QED BY <1>1, <1>2, <1>3, EndingStep DEF SubscriberDone, upVars, FeedInv, FeedTypeOK

-----------------------------------------------------------------------------
(* The upstreams *)

LEMMA PutTagStep == ASSUME FeedInv, NEW t \in TagSources, PutTag(t) PROVE FeedInv'
<1> USE DEF upVars, subVars
<1>1. /\ TagSeq \in Nat /\ TagSeq' = TagSeq + 1 /\ tagLog' \in Seq(TagSources)
      /\ tagLog'[TagSeq + 1] = t /\ \A n \in 1..TagSeq : tagLog'[n] = tagLog[n] /\ tagLog[n] \in TagSources
  BY DEF PutTag, FeedInv, FeedTypeOK, TagSeq
<1>2. UNCHANGED <<replayed, stored, announced, batchStream, batchUp, loaded, pc, merged, eventsClosed,
                  cursor, err, cancelled, streams, inHand, got, readerClosed>>
  BY DEF PutTag
<1>3. /\ tagStream \in Seq(Nat) /\ \A n \in ToSet(tagStream) : n \in 1..TagSeq
      /\ Increasing(tagStream)
  BY DEF FeedInv, FeedTypeOK, TagsOK
<1>4. \/ /\ tagUp = "open" /\ Len(tagStream) < UpstreamBuffer
         /\ tagStream' = Append(tagStream, TagSeq + 1) /\ tagUp' = tagUp
      \/ tagUp = "open" /\ tagUp' = "closed" /\ tagStream' = tagStream
      \/ tagUp # "open" /\ UNCHANGED <<tagStream, tagUp>>
  BY DEF PutTag
<1>5. /\ \/ /\ ToSet(tagStream') = ToSet(tagStream) \cup {TagSeq + 1}
            /\ tagUp' = "open" /\ tagUp = "open"
         \/ /\ tagStream' = tagStream /\ tagUp' # "open"
            /\ tagUp = "closed" => tagUp' = "closed"
            /\ tagUp' # tagUp => tagUp' = "closed" /\ tagUp = "open"
      /\ tagStream' \in Seq(Nat) /\ Len(tagStream') <= UpstreamBuffer /\ Increasing(tagStream')
  <2>1. CASE tagStream' = Append(tagStream, TagSeq + 1) /\ tagUp = "open" /\ tagUp' = tagUp
               /\ Len(tagStream) < UpstreamBuffer
    <3>1. ToSet(tagStream') = ToSet(tagStream) \cup {TagSeq + 1}
      <4> DEFINE n == TagSeq + 1
      <4>1. n \in Nat /\ tagStream \in Seq(Nat) /\ tagStream' = Append(tagStream, n)
        BY <1>1, <1>3, <2>1
      <4> HIDE DEF n
      <4>2. ToSet(Append(tagStream, n)) = ToSet(tagStream) \cup {n}
        BY ONLY <4>1, SetOfAppended
      <4> QED BY <4>1, <4>2 DEF n
    <3>2. Increasing(tagStream')
      <4> DEFINE n == TagSeq + 1
      <4>1. /\ n \in Nat /\ tagStream \in Seq(Nat) /\ tagStream' = Append(tagStream, n)
            /\ Increasing(tagStream) /\ \A m \in ToSet(tagStream) : m < n
        BY <1>1, <1>3, <2>1
      <4> HIDE DEF n
      <4>2. Increasing(Append(tagStream, n))
        BY ONLY <4>1, IncreasingAppended
      <4> QED BY <4>1, <4>2
    <3>3. tagStream' \in Seq(Nat) /\ Len(tagStream') <= UpstreamBuffer
      BY <1>1, <1>3, <2>1, FeedAssumption
    <3> QED BY <2>1, <3>1, <3>2, <3>3
  <2>2. CASE tagStream' = tagStream
    BY <1>3, <1>4, <2>2 DEF FeedInv, FeedTypeOK
  <2> QED BY <1>4, <2>1, <2>2
<1>6. FeedTypeOK'
  BY <1>1, <1>2, <1>5 DEF FeedInv, FeedTypeOK, Capacity, Sample, Selected
<1>7. StageOK' /\ EndingOK'
  BY <1>2, <1>4 DEF FeedInv, FeedTypeOK, StageOK, EndingOK, Selected
<1>8. TagsOK'
  <2>1. \A u \in TagSources : replayed[u] \in Nat /\ replayed[u] <= TagSeq
    BY DEF FeedInv, TagsOK, FeedTypeOK
  <2>2. pc = "running" => \A u \in TagSources : cursor[u] \in Nat /\ cursor[u] <= TagSeq
    BY DEF FeedInv, TagsOK, StageOK, Selected
  <2>3. ASSUME NEW n \in ToSet(tagStream')
        PROVE  /\ n \in 1..TagSeq'
               /\ pc # "tags" => n > replayed[tagLog'[n]]
               /\ pc = "running" => n > cursor[tagLog'[n]]
    <3>1. CASE n \in ToSet(tagStream)
      <4>1. n \in 1..TagSeq /\ tagLog'[n] = tagLog[n] BY <1>1, <1>3, <3>1
      <4> QED BY <1>1, <3>1, <4>1 DEF FeedInv, TagsOK
    <3>2. CASE n = TagSeq + 1 BY <1>1, <2>1, <2>2, <3>2
    <3> QED BY <1>5, <3>1, <3>2
  <2>4. \A u \in TagSources : replayed[u] <= TagSeq' /\ (pc = "running" => cursor[u] <= TagSeq')
    BY <1>1, <2>1, <2>2
  <2> QED BY <1>2, <1>5, <2>3, <2>4 DEF TagsOK
<1>9. BatchesOK' BY <1>2 DEF FeedInv, BatchesOK, AtHand
<1>10. Samples' = Samples /\ Delivered' = Delivered BY <1>2 DEF Samples, Delivered
<1>11. InOrder' /\ CursorOK' BY <1>2, <1>10 DEF FeedInv, InOrder, CursorOK
<1>12. BatchesCovered' BY <1>2, <1>10 DEF FeedInv, BatchesCovered, Covered, AtHand
<1>13. TagsCovered'
  <2> SUFFICES ASSUME pc # "tags", err = "none", NEW n \in 1..(TagSeq + 1), n > replayed[tagLog'[n]]
               PROVE  Covered(tagLog[n], n, ToSet(tagStream), tagUp = "closed")'
    BY <1>1, <1>2 DEF TagsCovered
  <2>1. CASE n \in 1..TagSeq
    <3>1. tagLog'[n] = tagLog[n] BY <1>1, <2>1
    <3>2. Covered(tagLog[n], n, ToSet(tagStream), tagUp = "closed")
      BY <1>1, <1>2, <2>1, <3>1 DEF FeedInv, TagsCovered
    <3> QED BY <1>1, <1>5, <1>10, <2>1, <3>1, <3>2 DEF Covered
  <2>2. CASE n = TagSeq + 1
    <3>1. CASE n \in ToSet(tagStream') BY <3>1 DEF Covered
    <3>2. CASE tagUp' = "closed" /\ tagStream' = tagStream
      <4>1. \A d \in Delivered : d.source = t => d.seq < n
        <5>1. pc # "running" => Delivered = {}
          BY DEF Delivered, Samples, FeedInv, StageOK, ToSet
        <5>2. pc = "running" => cursor[t] \in Nat /\ cursor[t] <= TagSeq
          BY DEF FeedInv, TagsOK, StageOK, Selected
        <5>3. \A d \in Delivered : d \in Sample
          BY DEF FeedInv, FeedTypeOK, Delivered, Samples, ToSet
        <5> QED BY <1>1, <2>2, <5>1, <5>2, <5>3 DEF FeedInv, CursorOK, Sample
      <4>2. \A m \in ToSet(tagStream) : m < n BY <1>1, <1>3, <2>2
      <4> QED BY <1>1, <1>10, <2>2, <3>2, <4>1, <4>2 DEF Covered
    <3> QED BY <1>5, <2>2, <3>1, <3>2 DEF FeedInv, StageOK, FeedTypeOK
  <2> QED BY <1>1, <2>1, <2>2
<1> QED BY <1>6, <1>7, <1>8, <1>9, <1>11, <1>12, <1>13 DEF FeedInv

LEMMA StoreBatchStep == FeedInv /\ StoreBatch => FeedInv'
<1> SUFFICES ASSUME FeedInv, StoreBatch PROVE FeedInv' OBVIOUS
<1> USE DEF StoreBatch, subVars
<1>1. FeedTypeOK' BY DEF FeedInv, FeedTypeOK, Capacity, Sample, Selected
<1>2. StageOK' /\ EndingOK' BY DEF FeedInv, StageOK, EndingOK, Selected
<1>3. TagsOK' BY DEF FeedInv, TagsOK, TagSeq
<1>4. BatchesOK' BY DEF FeedInv, BatchesOK, AtHand, FeedTypeOK
<1>5. Samples' = Samples /\ Delivered' = Delivered BY DEF Samples, Delivered
<1>6. InOrder' /\ CursorOK' BY <1>5 DEF FeedInv, InOrder, CursorOK
<1>7. TagsCovered' BY <1>5 DEF FeedInv, TagsCovered, Covered, TagSeq
<1>8. BatchesCovered' BY <1>5 DEF FeedInv, BatchesCovered, Covered, AtHand
<1> QED BY <1>1, <1>2, <1>3, <1>4, <1>6, <1>7, <1>8 DEF FeedInv

LEMMA AnnounceBatchStep == FeedInv /\ AnnounceBatch => FeedInv'
<1> SUFFICES ASSUME FeedInv, AnnounceBatch PROVE FeedInv' OBVIOUS
<1> USE DEF upVars, subVars
<1>1. announced \in Nat /\ announced' = announced + 1 /\ stored = announced + 1 /\ loaded \in Nat
  BY DEF AnnounceBatch, FeedInv, FeedTypeOK, BatchesOK
<1>2. UNCHANGED <<tagLog, tagStream, tagUp, replayed, stored, loaded, pc, merged, eventsClosed,
                  cursor, err, cancelled, streams, inHand, got, readerClosed>>
  BY DEF AnnounceBatch
<1>3. /\ batchStream \in Seq(Nat) /\ Increasing(batchStream)
      /\ \A n \in ToSet(batchStream) : n \in 1..announced
  BY DEF FeedInv, FeedTypeOK, BatchesOK
<1>4. \/ /\ batchUp = "open" /\ Len(batchStream) < UpstreamBuffer
         /\ batchStream' = Append(batchStream, announced + 1) /\ batchUp' = batchUp
      \/ batchUp = "open" /\ batchUp' = "lagged" /\ batchStream' = batchStream
      \/ batchUp # "open" /\ UNCHANGED <<batchStream, batchUp>>
  BY <1>1 DEF AnnounceBatch
<1>5. /\ \/ ToSet(batchStream') = ToSet(batchStream) \cup {announced + 1} /\ batchUp' = "open" /\ batchUp = "open"
         \/ batchStream' = batchStream /\ batchUp' # "open"
      /\ batchStream' \in Seq(Nat) /\ Len(batchStream') <= UpstreamBuffer /\ Increasing(batchStream')
  <2>1. CASE batchStream' = Append(batchStream, announced + 1) /\ batchUp = "open" /\ batchUp' = batchUp
               /\ Len(batchStream) < UpstreamBuffer
    <3>1. ToSet(batchStream') = ToSet(batchStream) \cup {announced + 1}
      <4> DEFINE n == announced + 1
      <4>1. n \in Nat /\ batchStream \in Seq(Nat) /\ batchStream' = Append(batchStream, n)
        BY <1>1, <1>3, <2>1
      <4> HIDE DEF n
      <4>2. ToSet(Append(batchStream, n)) = ToSet(batchStream) \cup {n}
        BY ONLY <4>1, SetOfAppended
      <4> QED BY <4>1, <4>2 DEF n
    <3>2. \A n \in ToSet(batchStream) : n < announced + 1 BY <1>1, <1>3
    <3>3. Increasing(batchStream')
      <4> DEFINE n == announced + 1
      <4>1. /\ n \in Nat /\ batchStream \in Seq(Nat) /\ batchStream' = Append(batchStream, n)
            /\ Increasing(batchStream) /\ \A m \in ToSet(batchStream) : m < n
        BY <1>1, <1>3, <2>1, <3>2
      <4> HIDE DEF n
      <4>2. Increasing(Append(batchStream, n))
        BY ONLY <4>1, IncreasingAppended
      <4> QED BY <4>1, <4>2
    <3>4. batchStream' \in Seq(Nat) /\ Len(batchStream') <= UpstreamBuffer
      BY <1>1, <1>3, <2>1, FeedAssumption
    <3> QED BY <2>1, <3>1, <3>3, <3>4
  <2>2. CASE batchStream' = batchStream
    BY <1>3, <1>4, <2>2 DEF FeedInv, FeedTypeOK
  <2> QED BY <1>4, <2>1, <2>2
<1>6. FeedTypeOK'
  BY <1>1, <1>2, <1>4, <1>5 DEF FeedInv, FeedTypeOK, Capacity, Sample, Selected
<1>7. StageOK' /\ EndingOK'
  BY <1>2, <1>4 DEF FeedInv, FeedTypeOK, StageOK, EndingOK, Selected
<1>8. TagsOK' BY <1>2 DEF FeedInv, TagsOK, TagSeq
<1>9. pc = "running" => \A s \in OutputSources :
        cursor[s] \in Nat /\ (cursor[s] = loaded \/ cursor[s] <= announced)
  BY DEF FeedInv, BatchesOK, StageOK, Selected
<1>10. BatchesOK'
  <2>1. \A s \in OutputSources : AtHand(s)' \subseteq AtHand(s) \cup {announced + 1}
    BY <1>2, <1>5 DEF AtHand
  <2>2. \A n \in ToSet(batchStream') :
          n \in 1..announced' /\ (inHand.outputs # {} => inHand.seq < n)
    BY <1>1, <1>2, <1>3, <1>5 DEF FeedInv, BatchesOK
  <2>3. inHand.outputs # {} => inHand.seq \in 1..announced'
    BY <1>1 DEF FeedInv, BatchesOK
  <2>4. ASSUME pc = "running", NEW s \in OutputSources
        PROVE  /\ cursor[s] = loaded \/ cursor[s] <= announced'
               /\ \A n \in AtHand(s)' : n > loaded => n > cursor[s]
    BY <1>1, <1>9, <2>1, <2>4 DEF FeedInv, BatchesOK
  <2> QED BY <1>1, <1>2, <1>5, <2>2, <2>3, <2>4 DEF BatchesOK
<1>11. Samples' = Samples /\ Delivered' = Delivered BY <1>2 DEF Samples, Delivered
<1>12. InOrder' /\ CursorOK' BY <1>2, <1>11 DEF FeedInv, InOrder, CursorOK
<1>13. TagsCovered' BY <1>2, <1>11 DEF FeedInv, TagsCovered, Covered, TagSeq
<1>14. BatchesCovered'
  <2> SUFFICES ASSUME pc \in {"initial", "running"}, err = "none", NEW s \in OutputSources,
                      NEW n \in (loaded + 1)..(announced + 1)
               PROVE  Covered(s, n, AtHand(s), batchUp # "open")'
    BY <1>1, <1>2 DEF BatchesCovered
  <2>1. CASE n \in (loaded + 1)..announced
    <3>1. Covered(s, n, AtHand(s), batchUp # "open")
      BY <2>1 DEF FeedInv, BatchesCovered
    <3>2. AtHand(s) \subseteq AtHand(s)' /\ (AtHand(s)' = AtHand(s) \/ batchUp = "open")
      BY <1>2, <1>5 DEF AtHand
    <3>3. batchUp # "open" => batchUp' # "open" BY <1>4
    <3> QED BY <1>11, <3>1, <3>2, <3>3 DEF Covered
  <2>2. CASE n = announced + 1
    <3>1. CASE n \in ToSet(batchStream') BY <3>1 DEF Covered, AtHand
    <3>2. CASE batchUp' # "open" /\ batchStream' = batchStream
      <4>1. \A d \in Delivered : d.source = s => d.seq < n
        <5>1. pc # "running" => Delivered = {}
          BY DEF Delivered, Samples, FeedInv, StageOK, ToSet
        <5>2. \A d \in Delivered : d \in Sample
          BY DEF FeedInv, FeedTypeOK, Delivered, Samples, ToSet
        <5> QED BY <1>1, <1>9, <2>2, <5>1, <5>2 DEF FeedInv, CursorOK, Sample
      <4>2. \A m \in AtHand(s) : m < n
        BY <1>1, <1>3, <2>2 DEF AtHand, FeedInv, BatchesOK
      <4>3. AtHand(s)' = AtHand(s) BY <1>2, <3>2 DEF AtHand
      <4> QED BY <1>1, <1>11, <2>2, <3>2, <4>1, <4>2, <4>3 DEF Covered
    <3> QED BY <1>5, <2>2, <3>1, <3>2
  <2> QED BY <1>1, <2>1, <2>2
<1> QED BY <1>6, <1>7, <1>8, <1>10, <1>12, <1>13, <1>14 DEF FeedInv

-----------------------------------------------------------------------------
(* Subscribe *)

\* Before the subscription is handed out nothing was delivered.
LEMMA NothingYet ==
  ASSUME FeedInv, pc # "running"
  PROVE  /\ Delivered = {} /\ Samples = <<>>
         /\ \A s \in OutputSources : AtHand(s) = ToSet(batchStream)
BY ConcatEmptySeq DEF FeedInv, StageOK, Delivered, Samples, ToSet, AtHand

LEMMA SubscribeTagsStep == FeedInv /\ SubscribeTags => FeedInv'
<1> SUFFICES ASSUME FeedInv, SubscribeTags PROVE FeedInv' OBVIOUS
<1> USE DEF upVars
<1>1. /\ pc = "tags" /\ pc' = "plugins" /\ tagUp' = "open" /\ tagStream = <<>>
      /\ replayed' = [t \in TagSources |-> LatestOf(t)]
      /\ UNCHANGED <<tagLog, stored, announced, tagStream, batchStream, batchUp, loaded, merged,
                     eventsClosed, cursor, err, cancelled, streams, inHand, got, readerClosed>>
  BY DEF SubscribeTags, FeedInv, StageOK
<1>2. \A t \in TagSources :
        /\ replayed'[t] \in Nat /\ replayed'[t] <= TagSeq
        /\ \A n \in 1..TagSeq : tagLog[n] = t => n <= replayed'[t]
  BY <1>1, LatestIsLast DEF FeedInv
<1>3. replayed' \in [TagSources -> Nat] BY <1>1, <1>2
<1>4. FeedTypeOK' BY <1>1, <1>3 DEF FeedInv, FeedTypeOK, Capacity, Sample, Selected
<1>5. StageOK' /\ EndingOK' BY <1>1 DEF FeedInv, StageOK, EndingOK
<1>6. TagsOK' BY <1>1, <1>2 DEF FeedInv, TagsOK, TagSeq, ToSet
<1>7. BatchesOK' BY <1>1 DEF FeedInv, BatchesOK, AtHand
<1>8. Samples' = Samples /\ Delivered' = Delivered /\ Delivered = {} /\ Samples = <<>>
  BY <1>1, NothingYet DEF Samples, Delivered
<1>9. InOrder' /\ CursorOK' BY <1>8 DEF InOrder, CursorOK
<1>10. TagsCovered'
  <2>1. \A n \in 1..TagSeq : tagLog[n] \in TagSources BY DEF FeedInv, FeedTypeOK, TagSeq
  <2>2. \A n \in 1..TagSeq : n \in Nat /\ ~(n > replayed'[tagLog[n]])
    BY <1>2, <2>1 DEF FeedInv, FeedTypeOK
  <2> QED BY <1>1, <2>2 DEF TagsCovered, TagSeq
<1>11. BatchesCovered' BY <1>1 DEF BatchesCovered
<1> QED BY <1>4, <1>5, <1>6, <1>7, <1>9, <1>10, <1>11 DEF FeedInv

\* The steps that open the upstream of the plugin and load its latest batch.
LEMMA OpeningStep ==
  ASSUME FeedInv, SubscribePlugin \/ LoadLatest \/ SubscribeFails
  PROVE  FeedInv'
<1> USE DEF upVars, SubscribePlugin, LoadLatest, SubscribeFails
<1>1. /\ pc \in {"plugins", "load"} /\ pc' \in {"load", "initial", "failed"}
      /\ UNCHANGED <<tagLog, stored, announced, tagStream, replayed, batchStream, merged,
                     eventsClosed, cursor, err, streams, inHand, got, readerClosed>>
  BY DEF FeedInv
<1>2. FeedTypeOK'
  BY DEF FeedInv, FeedTypeOK, Capacity, Sample, Selected, CloseUpstreams
<1>3. StageOK' /\ EndingOK'
  <2>1. EndingOK' BY <1>1 DEF EndingOK
  <2>2. StageOK /\ FeedTypeOK BY DEF FeedInv
  <2>3. CASE SubscribePlugin BY <2>1, <2>2, <2>3 DEF StageOK
  <2>4. CASE LoadLatest BY <2>1, <2>2, <2>4 DEF StageOK
  <2>5. CASE SubscribeFails
    <3>1. tagUp' # "none" BY <2>2, <2>5 DEF StageOK, CloseUpstreams
    <3> QED BY <2>1, <2>2, <2>5, <3>1 DEF StageOK
  <2> QED BY <2>1, <2>3, <2>4, <2>5
<1>4. TagsOK' BY <1>1 DEF FeedInv, TagsOK, TagSeq
<1>5. BatchesOK' BY <1>1 DEF FeedInv, BatchesOK
<1>6. Samples' = Samples /\ Delivered' = Delivered /\ Delivered = {} /\ Samples = <<>>
  BY <1>1, NothingYet DEF Samples, Delivered
<1>7. InOrder' /\ CursorOK' BY <1>6 DEF InOrder, CursorOK
<1>8. TagsCovered'
  <2>1. tagUp = "closed" => tagUp' = "closed" BY DEF CloseUpstreams
  <2> QED BY <1>1, <1>6, <2>1 DEF FeedInv, TagsCovered, Covered, TagSeq
<1>9. BatchesCovered'
  <2>1. CASE LoadLatest
    <3>1. /\ loaded' = stored /\ stored \in {announced, announced + 1}
          /\ announced \in Nat /\ announced' = announced
      BY <2>1 DEF FeedInv, BatchesOK, FeedTypeOK
    <3>2. \A l, a \in Nat : l \in {a, a + 1} => (l + 1)..a = {} OBVIOUS
    <3>3. (loaded' + 1)..announced' = {} BY <3>1, <3>2
    <3> QED BY <3>3 DEF BatchesCovered
  <2>2. CASE pc' # "initial" BY <1>1, <2>2 DEF BatchesCovered
  <2> QED BY <2>1, <2>2
<1> QED BY <1>2, <1>3, <1>4, <1>5, <1>7, <1>8, <1>9 DEF FeedInv

LEMMA PublishInitialStep == FeedInv /\ PublishInitial => FeedInv'
<1> SUFFICES ASSUME FeedInv, PublishInitial PROVE FeedInv' OBVIOUS
<1> USE DEF upVars
<1> DEFINE first(s) == IF s \in TagSources THEN replayed[s] ELSE loaded
           order == SetToSeq(Selected)
           all == Cardinality(Selected)
<1>1. /\ pc = "initial" /\ pc' = "running" /\ streams' = {"tag", "plugin"}
      /\ merged' = [i \in DOMAIN order |-> [source |-> order[i], seq |-> first(order[i])]]
      /\ cursor' = [s \in Selected |-> first(s)]
      /\ UNCHANGED <<tagLog, stored, announced, tagStream, tagUp, replayed, batchStream, batchUp,
                     loaded, eventsClosed, err, cancelled, inHand, got, readerClosed>>
  BY DEF PublishInitial
<1>2. /\ order \in [1..all -> Selected] /\ all \in Nat
      /\ \A i, j \in 1..all : order[i] = order[j] => i = j
  BY EachSourceOnce
<1>3. /\ replayed \in [TagSources -> Nat] /\ loaded \in Nat
      /\ \A s \in Selected : first(s) \in Nat
  BY DEF FeedInv, FeedTypeOK
<1> HIDE DEF order, all
<1>4. /\ merged' \in Seq(Sample) /\ Len(merged') = all
      /\ \A i \in 1..all : merged'[i] = [source |-> order[i], seq |-> first(order[i])]
  <2>1. \A i \in 1..all : order[i] \in Selected BY <1>2
  <2>2. \A i \in 1..all : [source |-> order[i], seq |-> first(order[i])] \in Sample
    BY <1>3, <2>1 DEF Sample
  <2>3. DOMAIN order = 1..all BY <1>2
  <2> HIDE DEF first
  <2> QED BY <1>1, <1>2, <2>2, <2>3
<1>5. Samples' = merged' /\ DOMAIN merged' = 1..all
  BY <1>1, <1>4, ConcatEmptySeq DEF Samples, FeedInv, StageOK
<1>6. cursor' \in [Selected -> Nat] /\ \A s \in Selected : cursor'[s] = first(s)
  BY <1>1, <1>3
<1>7. \A d \in Delivered' : d.source \in Selected /\ d.seq = first(d.source)
  BY <1>2, <1>4, <1>5 DEF Delivered, ToSet
<1>8. FeedTypeOK'
  <2>1. Len(merged') <= Capacity BY <1>2, <1>4, FeedAssumption DEF Capacity, all
  <2>2. Capacity' = Capacity BY DEF Capacity, Selected
  <2>3. FeedTypeOK BY DEF FeedInv
  <2>4. DOMAIN cursor' = Selected BY <1>6
  <2> HIDE DEF first
  <2> QED BY <1>1, <1>4, <2>1, <2>2, <2>3, <2>4 DEF FeedTypeOK
<1>9. StageOK' /\ EndingOK'
  <2>1. StageOK BY DEF FeedInv
  <2> HIDE DEF first
  <2> QED BY <1>1, <1>6, <2>1 DEF StageOK, EndingOK
<1>10. TagsOK'
  <2>1. \A t \in TagSources : cursor'[t] = replayed[t] BY <1>6 DEF Selected
  <2>2. \A n \in ToSet(tagStream) : n \in 1..TagSeq /\ tagLog[n] \in TagSources
    BY DEF FeedInv, FeedTypeOK, TagsOK, TagSeq
  <2> HIDE DEF first
  <2> QED BY <1>1, <2>1, <2>2 DEF FeedInv, TagsOK, TagSeq
<1>11. \A s \in OutputSources : cursor'[s] = loaded
  BY <1>6, FeedAssumption DEF Selected
<1>12. BatchesOK'
  <2> HIDE DEF first
  <2> QED BY <1>1, <1>11 DEF FeedInv, BatchesOK, AtHand
<1>13. InOrder' BY <1>2, <1>4, <1>5 DEF InOrder
<1>14. CursorOK' BY <1>3, <1>6, <1>7 DEF CursorOK
<1>15. Delivered = {} /\ err = "none" BY <1>1, NothingYet DEF FeedInv, StageOK
<1>16. TagsCovered'
  <2> SUFFICES ASSUME NEW n \in 1..TagSeq, n > replayed[tagLog[n]]
               PROVE  Covered(tagLog[n], n, ToSet(tagStream), tagUp = "closed")'
    BY <1>1 DEF TagsCovered, TagSeq
  <2>1. Covered(tagLog[n], n, ToSet(tagStream), tagUp = "closed")
    BY <1>1, <1>15 DEF FeedInv, TagsCovered
  <2>2. tagLog[n] \in TagSources BY DEF FeedInv, FeedTypeOK, TagSeq
  <2>3. \A d \in Delivered' : d.source = tagLog[n] => d.seq < n
    BY <1>3, <1>7, <2>2
  <2> HIDE DEF first
  <2> QED BY <1>1, <1>15, <2>1, <2>3 DEF Covered
<1>17. BatchesCovered'
  <2> SUFFICES ASSUME NEW s \in OutputSources, NEW n \in (loaded + 1)..announced
               PROVE  Covered(s, n, AtHand(s), batchUp # "open")'
    BY <1>1 DEF BatchesCovered
  <2>1. Covered(s, n, AtHand(s), batchUp # "open")
    BY <1>1, <1>15 DEF FeedInv, BatchesCovered
  <2>2. s \notin TagSources BY FeedAssumption
  <2>3. \A d \in Delivered' : d.source = s => d.seq < n
    BY <1>3, <1>7, <2>2
  <2>4. AtHand(s)' = AtHand(s) BY <1>1 DEF AtHand
  <2> HIDE DEF first
  <2> QED BY <1>1, <1>15, <2>1, <2>3, <2>4 DEF Covered
<1> QED BY <1>8, <1>9, <1>10, <1>12, <1>13, <1>14, <1>16, <1>17 DEF FeedInv

-----------------------------------------------------------------------------
(* Merging *)

\* What publish does to the channel and the cursors.
Published(s, n) ==
  /\ merged' \in Seq(Sample) /\ Len(merged') <= Capacity
  /\ cursor' \in [Selected -> Nat] /\ cursor'[s] \in {cursor[s], n}
  /\ \A r \in Selected : r # s => cursor'[r] = cursor[r]
  /\ InOrder' /\ CursorOK'
  /\ Delivered \subseteq Delivered'
  /\ Delivered' \subseteq Delivered \cup {[source |-> s, seq |-> n]}
  /\ err' = "none" => [source |-> s, seq |-> n] \in Delivered' \/ n <= cursor[s]
  /\ ClosedStays /\ tagUp' # "none" /\ batchUp' # "none"
  /\ cancelled' /\ ~cancelled => err' # "none"

LEMMA PublishOnce ==
  ASSUME FeedInv, pc = "running", NEW s \in Selected, NEW n \in Nat \ {0}, publish(s, n),
         got' = got
  PROVE  Published(s, n)
<1>1. /\ cursor \in [Selected -> Nat] /\ merged \in Seq(Sample) /\ got \in Seq(Sample)
      /\ Len(merged) <= Capacity /\ Capacity' = Capacity
  BY DEF FeedInv, FeedTypeOK, StageOK, Capacity, Selected
<1>2. tagUp # "none" /\ batchUp # "none" BY DEF FeedInv, StageOK
<1>3. Stale(s, n) \/ n > cursor[s]
  BY <1>1 DEF Stale
<1>4. Stale(s, n) => n <= cursor[s] BY DEF Stale
<1>5. CASE UNCHANGED <<merged, cursor>>
  <2>1. Samples' = Samples /\ Delivered' = Delivered BY <1>5 DEF Samples, Delivered
  <2>2. InOrder' /\ CursorOK' BY <1>5, <2>1 DEF FeedInv, InOrder, CursorOK
  <2>3. CASE Stale(s, n) /\ UNCHANGED <<err, cancelled, tagUp, batchUp>>
    <3>1. ClosedStays BY <2>3 DEF ClosedStays, FeedInv, FeedTypeOK
    <3> QED BY <1>1, <1>2, <1>4, <1>5, <2>1, <2>2, <2>3, <3>1 DEF Published
  <2>4. CASE err' # "none" /\ err' \in {"none", "lag", "upstream"} /\ CloseUpstreams
    <3>1. ClosedStays BY <2>4, Torn
    <3>2. tagUp' # "none" /\ batchUp' # "none" BY <1>2, <2>4 DEF CloseUpstreams
    <3> QED BY <1>1, <1>5, <2>1, <2>2, <2>4, <3>1, <3>2 DEF Published
  <2>5. \/ Stale(s, n) /\ UNCHANGED <<err, cancelled, tagUp, batchUp>>
        \/ err' # "none" /\ err' \in {"none", "lag", "upstream"} /\ CloseUpstreams
    <3>1. CASE Stale(s, n) BY <3>1 DEF publish
    <3>2. CASE ~Stale(s, n) /\ Len(merged) < Capacity
      <4>1. merged' = Append(merged, [source |-> s, seq |-> n]) BY <3>2 DEF publish
      <4>2. Len(merged') = Len(merged) + 1 /\ Len(merged) \in Nat BY <1>1, <4>1
      <4> QED BY <1>5, <4>2
    <3>3. CASE ~Stale(s, n) /\ ~(Len(merged) < Capacity)
      <4>1. CloseUpstreams /\ err' = IF err = "none" THEN "lag" ELSE err BY <3>3 DEF publish
      <4> QED BY <4>1 DEF FeedInv, FeedTypeOK
    <3> QED BY <3>1, <3>2, <3>3
  <2> QED BY <2>3, <2>4, <2>5
<1>6. CASE ~Stale(s, n) /\ Len(merged) < Capacity
  <2> DEFINE x == [source |-> s, seq |-> n]
  <2>1. /\ merged' = Append(merged, x) /\ cursor' = [cursor EXCEPT ![s] = n]
        /\ UNCHANGED <<err, cancelled, tagUp, batchUp>>
    BY <1>6 DEF publish
  <2>2. x \in Sample /\ x.source = s /\ x.seq = n BY DEF Sample
  <2> HIDE DEF x
  <2>3. /\ Samples' = Append(Samples, x) /\ Samples \in Seq(Sample)
        /\ Delivered' = Delivered \cup {x}
    <3>1. Samples' = Append(Samples, x) /\ Samples \in Seq(Sample)
      BY <1>1, <2>1, <2>2, PublishAppends DEF Samples
    <3> QED BY <2>2, <3>1, SetOfAppended DEF Delivered
  <2>4. /\ merged' \in Seq(Sample) /\ Len(merged') <= Capacity
    <3>1. Len(merged') = Len(merged) + 1 /\ Len(merged) \in Nat /\ merged' \in Seq(Sample)
      BY <1>1, <2>1, <2>2
    <3>2. Capacity \in Nat BY EachSourceOnce, FeedAssumption DEF Capacity
    <3> QED BY <1>6, <3>1, <3>2
  <2>5. /\ cursor' \in [Selected -> Nat] /\ cursor'[s] = n
        /\ \A r \in Selected : r # s => cursor'[r] = cursor[r]
    BY <1>1, <2>1
  <2>6. /\ \A d \in Delivered : d \in Sample /\ d.seq <= cursor[d.source]
        /\ \A i \in DOMAIN Samples : Samples[i] \in Delivered
    BY <2>3 DEF FeedInv, CursorOK, Delivered, ToSet
  <2>7. InOrder'
    <3>1. /\ DOMAIN Samples' = 1..(Len(Samples) + 1) /\ DOMAIN Samples = 1..Len(Samples)
          /\ Len(Samples) \in Nat /\ Samples'[Len(Samples) + 1] = x
          /\ \A i \in 1..Len(Samples) : Samples'[i] = Samples[i]
      BY <2>2, <2>3
    <3>2. ASSUME NEW i \in 1..Len(Samples), Samples[i].source = s PROVE Samples[i].seq < n
      <4>1. Samples[i] \in Sample /\ Samples[i].seq <= cursor[s] BY <2>6, <3>1, <3>2
      <4> QED BY <1>1, <1>3, <1>6, <4>1 DEF Sample
    <3>3. ASSUME NEW i \in 1..(Len(Samples) + 1), NEW j \in 1..(Len(Samples) + 1), i < j,
                 Samples'[i].source = Samples'[j].source
          PROVE  Samples'[i].seq < Samples'[j].seq
      <4>1. CASE j \in 1..Len(Samples) /\ i \in 1..Len(Samples)
        BY <3>1, <3>3, <4>1 DEF FeedInv, InOrder
      <4>2. CASE j = Len(Samples) + 1 /\ i \in 1..Len(Samples)
        BY <2>2, <3>1, <3>2, <3>3, <4>2
      <4> QED BY <3>1, <3>3, <4>1, <4>2
    <3> QED BY <3>1, <3>3 DEF InOrder
  <2>8. CursorOK'
    <3>1. \A d \in Delivered : d.seq \in Nat /\ d.source \in Selected BY <2>6 DEF Sample
    <3>2. ASSUME NEW d \in Delivered PROVE d.seq <= cursor'[d.source]
      <4>1. CASE d.source = s BY <1>1, <1>3, <1>6, <2>5, <2>6, <3>1, <4>1
      <4>2. CASE d.source # s BY <2>5, <2>6, <3>1, <4>2
      <4> QED BY <4>1, <4>2
    <3>3. x.seq <= cursor'[x.source] BY <2>2, <2>5
    <3> QED BY <2>3, <3>2, <3>3 DEF CursorOK
  <2>9. ClosedStays BY <2>1 DEF ClosedStays, FeedInv, FeedTypeOK
  <2>10. Delivered \subseteq Delivered' /\ Delivered' \subseteq Delivered \cup {[source |-> s, seq |-> n]}
         /\ [source |-> s, seq |-> n] \in Delivered'
    BY <2>3 DEF x
  <2> QED BY <1>2, <2>1, <2>4, <2>5, <2>7, <2>8, <2>9, <2>10 DEF Published
<1> QED BY <1>5, <1>6 DEF publish

LEMMA TagReceiveStep == FeedInv /\ TagReceive => FeedInv'
<1> SUFFICES ASSUME FeedInv, TagReceive PROVE FeedInv' OBVIOUS
<1> USE DEF upVars
<1> DEFINE e == Head(tagStream)  u == tagLog[e]
<1>1. /\ tagStream # <<>> /\ tagStream' = Tail(tagStream) /\ publish(u, e)
      /\ UNCHANGED <<tagLog, stored, announced, replayed, batchStream, loaded, pc, eventsClosed,
                     streams, inHand, got, readerClosed>>
      /\ pc = "running" /\ "tag" \in streams
  BY DEF TagReceive, FeedInv, StageOK
<1>2. /\ tagStream \in Seq(Nat) /\ Increasing(tagStream)
      /\ ToSet(tagStream) = ToSet(tagStream') \cup {e} /\ e \in ToSet(tagStream)
      /\ tagStream' \in Seq(Nat) /\ Increasing(tagStream')
      /\ \A n \in ToSet(tagStream') : e < n
      /\ Len(tagStream') <= UpstreamBuffer
  <2>1. tagStream \in Seq(Nat) /\ Increasing(tagStream) /\ Len(tagStream) <= UpstreamBuffer
    BY DEF FeedInv, FeedTypeOK, TagsOK
  <2>2. Len(tagStream) \in Nat /\ Len(Tail(tagStream)) = Len(tagStream) - 1
    BY <1>1, <2>1, HeadTailProperties
  <2> QED BY <1>1, <2>1, <2>2, SetOfHeadAndTail, IncreasingTail, FeedAssumption
<1>3. /\ e \in 1..TagSeq /\ e > cursor[u] /\ TagSeq \in Nat
      /\ u \in TagSources /\ u \in Selected /\ e \in Nat \ {0}
  BY <1>1, <1>2 DEF FeedInv, TagsOK, FeedTypeOK, TagSeq, Selected
<1> HIDE DEF e, u
<1>4. Published(u, e) BY <1>1, <1>3, PublishOnce
<1>5. cursor \in [Selected -> Nat] BY <1>1 DEF FeedInv, StageOK
<1>6. FeedTypeOK'
  <2>1. FeedTypeOK /\ Capacity' = Capacity BY DEF FeedInv, Capacity, Selected
  <2>2. /\ tagUp' \in {"none", "open", "closed"}
        /\ batchUp' \in {"none", "open", "closed", "lagged"}
    BY <1>4, <2>1 DEF Published, ClosedStays, FeedTypeOK
  <2>3. /\ merged' \in Seq(Sample) /\ Len(merged') <= Capacity /\ DOMAIN cursor' = Selected
        /\ err' \in {"none", "lag", "upstream"} /\ cancelled' \in BOOLEAN
    BY <1>4 DEF Published, ClosedStays
  <2> QED BY <1>1, <1>2, <2>1, <2>2, <2>3 DEF FeedTypeOK
<1>7. StageOK' BY <1>1, <1>4 DEF FeedInv, StageOK, Published
<1>8. EndingOK' BY <1>1, <1>4 DEF FeedInv, EndingOK, Published, ClosedStays, FeedTypeOK
<1>9. TagsOK'
  <2>1. ASSUME NEW n \in ToSet(tagStream')
        PROVE  /\ n \in 1..TagSeq /\ n > replayed[tagLog[n]] /\ n > cursor'[tagLog[n]]
    <3>1. /\ n \in 1..TagSeq /\ n > replayed[tagLog[n]] /\ n > cursor[tagLog[n]]
      BY <1>1, <1>2, <2>1 DEF FeedInv, TagsOK
    <3>2. tagLog[n] \in TagSources /\ tagLog[n] \in Selected
      BY <3>1 DEF FeedInv, FeedTypeOK, TagSeq, Selected
    <3>3. cursor'[tagLog[n]] \in {cursor[tagLog[n]], e}
      BY <1>4, <3>2 DEF Published
    <3> QED BY <1>2, <2>1, <3>1, <3>3
  <2>2. ASSUME NEW t \in TagSources PROVE replayed[t] <= TagSeq /\ cursor'[t] <= TagSeq
    <3>1. replayed[t] <= TagSeq /\ cursor[t] <= TagSeq BY <1>1 DEF FeedInv, TagsOK
    <3>2. cursor'[t] \in {cursor[t], e} BY <1>4 DEF Published, Selected
    <3> QED BY <1>3, <3>1, <3>2
  <2> QED BY <1>1, <1>2, <2>1, <2>2 DEF TagsOK, TagSeq
<1>10. \A s \in OutputSources : s # u /\ cursor'[s] = cursor[s] /\ AtHand(s)' = AtHand(s)
  BY <1>1, <1>3, <1>4, FeedAssumption DEF Published, Selected, AtHand
<1>11. BatchesOK' BY <1>1, <1>10 DEF FeedInv, BatchesOK
<1>12. InOrder' /\ CursorOK' BY <1>4 DEF Published
<1>13. err' = "none" => err = "none" BY <1>4 DEF Published, ClosedStays
<1>14. TagsCovered'
  <2> SUFFICES ASSUME err' = "none", NEW n \in 1..TagSeq, n > replayed[tagLog[n]]
               PROVE  Covered(tagLog[n], n, ToSet(tagStream), tagUp = "closed")'
    BY <1>1 DEF TagsCovered, TagSeq
  <2>1. Covered(tagLog[n], n, ToSet(tagStream), tagUp = "closed")
    BY <1>1, <1>13 DEF FeedInv, TagsCovered
  <2>2. CASE [source |-> tagLog[n], seq |-> n] \in Delivered
    BY <1>1, <1>4, <2>2 DEF Covered, Published
  <2>3. CASE n \in ToSet(tagStream')
    BY <1>1, <2>3 DEF Covered
  <2>4. CASE n = e
    <3>1. [source |-> u, seq |-> e] \in Delivered' BY <1>3, <1>4, <1>5 DEF Published
    <3>2. tagLog'[n] = u BY <1>1, <2>4 DEF u
    <3> QED BY <2>4, <3>1, <3>2 DEF Covered
  <2>5. CASE /\ tagUp = "closed" /\ \A m \in ToSet(tagStream) : m < n
             /\ \A d \in Delivered : d.source = tagLog[n] => d.seq < n
    <3>1. tagUp' = "closed" BY <1>4, <2>5 DEF Published, ClosedStays
    <3>2. \A d \in Delivered' : d.source = tagLog[n] => d.seq < n
      BY <1>2, <1>4, <2>5 DEF Published
    <3> QED BY <1>1, <1>2, <2>5, <3>1, <3>2 DEF Covered
  <2> QED BY <1>2, <2>1, <2>2, <2>3, <2>4, <2>5 DEF Covered
<1>15. BatchesCovered'
  <2> SUFFICES ASSUME err' = "none", NEW s \in OutputSources, NEW n \in (loaded + 1)..announced
               PROVE  Covered(s, n, AtHand(s), batchUp # "open")'
    BY <1>1 DEF BatchesCovered
  <2>1. Covered(s, n, AtHand(s), batchUp # "open")
    BY <1>1, <1>13 DEF FeedInv, BatchesCovered
  <2>2. /\ Delivered \subseteq Delivered' /\ \A d \in Delivered' : d.source = s => d \in Delivered
        /\ batchUp # "open" => batchUp' # "open"
    BY <1>4, <1>10 DEF Published, ClosedStays
  <2> QED BY <1>10, <2>1, <2>2 DEF Covered
<1> QED BY <1>6, <1>7, <1>8, <1>9, <1>11, <1>12, <1>14, <1>15 DEF FeedInv

LEMMA BatchReceiveStep == FeedInv /\ BatchReceive => FeedInv'
<1> SUFFICES ASSUME FeedInv, BatchReceive PROVE FeedInv' OBVIOUS
<1> USE DEF upVars
<1> DEFINE e == Head(batchStream)
<1>1. /\ batchStream # <<>> /\ batchStream' = Tail(batchStream) /\ inHand.outputs = {}
      /\ inHand' = [seq |-> e, outputs |-> OutputSources]
      /\ UNCHANGED <<tagLog, stored, announced, tagStream, tagUp, replayed, batchUp, loaded, pc,
                     merged, eventsClosed, cursor, err, cancelled, streams, got, readerClosed>>
      /\ pc = "running"
  BY DEF BatchReceive, FeedInv, StageOK
<1>2. /\ ToSet(batchStream) = ToSet(batchStream') \cup {e} /\ e \in ToSet(batchStream)
      /\ batchStream' \in Seq(Nat) /\ Increasing(batchStream') /\ e \in Nat
      /\ \A n \in ToSet(batchStream') : e < n
      /\ Len(batchStream') <= UpstreamBuffer
  <2>1. batchStream \in Seq(Nat) /\ Increasing(batchStream) /\ Len(batchStream) <= UpstreamBuffer
    BY DEF FeedInv, FeedTypeOK, BatchesOK
  <2>2. Len(batchStream) \in Nat /\ Len(Tail(batchStream)) = Len(batchStream) - 1
    BY <1>1, <2>1, HeadTailProperties
  <2> QED BY <1>1, <2>1, <2>2, SetOfHeadAndTail, IncreasingTail, FeedAssumption
<1> HIDE DEF e
<1>3. inHand'.seq = e /\ inHand'.outputs = OutputSources
      /\ inHand' \in [seq : Nat, outputs : SUBSET OutputSources]
  BY <1>1, <1>2
<1>4. \A s \in OutputSources : AtHand(s)' = AtHand(s)
  BY <1>1, <1>2, <1>3 DEF AtHand
<1>5. FeedTypeOK'
  BY <1>1, <1>2, <1>3 DEF FeedInv, FeedTypeOK, Capacity, Sample, Selected
<1>6. StageOK' /\ EndingOK' BY <1>1 DEF FeedInv, StageOK, EndingOK, Selected
<1>7. TagsOK' BY <1>1 DEF FeedInv, TagsOK, TagSeq
<1>8. BatchesOK'
  <2>1. \A n \in ToSet(batchStream) : n \in 1..announced BY DEF FeedInv, BatchesOK
  <2>2. ASSUME NEW n \in ToSet(batchStream') PROVE n \in 1..announced /\ e < n
    BY <1>2, <2>1
  <2>3. e \in 1..announced BY <1>2, <2>1
  <2> QED BY <1>1, <1>2, <1>3, <1>4, <2>2, <2>3 DEF FeedInv, BatchesOK
<1>9. Samples' = Samples /\ Delivered' = Delivered BY <1>1 DEF Samples, Delivered
<1>10. InOrder' /\ CursorOK' BY <1>1, <1>9 DEF FeedInv, InOrder, CursorOK
<1>11. TagsCovered' BY <1>1, <1>9 DEF FeedInv, TagsCovered, Covered, TagSeq
<1>12. BatchesCovered' BY <1>1, <1>4, <1>9 DEF FeedInv, BatchesCovered, Covered
<1> QED BY <1>5, <1>6, <1>7, <1>8, <1>10, <1>11, <1>12 DEF FeedInv

LEMMA BatchPublishStep == ASSUME FeedInv, NEW s \in OutputSources, BatchPublish(s) PROVE FeedInv'
<1> USE DEF upVars
<1> DEFINE e == inHand.seq
<1>1. /\ s \in inHand.outputs /\ publish(s, e)
      /\ inHand' = [inHand EXCEPT !.outputs = @ \ {s}]
      /\ UNCHANGED <<tagLog, stored, announced, tagStream, replayed, batchStream, loaded, pc,
                     eventsClosed, streams, got, readerClosed>>
      /\ pc = "running"
  BY DEF BatchPublish, FeedInv, StageOK
<1>2. /\ inHand \in [seq : Nat, outputs : SUBSET OutputSources] /\ announced \in Nat
      /\ loaded \in Nat /\ e \in 1..announced /\ e \in Nat \ {0}
      /\ \A n \in ToSet(batchStream) : n \in 1..announced /\ e < n
  BY <1>1 DEF FeedInv, FeedTypeOK, BatchesOK
<1>3. /\ inHand' \in [seq : Nat, outputs : SUBSET OutputSources]
      /\ inHand'.seq = e /\ inHand'.outputs = inHand.outputs \ {s}
  BY <1>1, <1>2
<1>4. Published(s, e) BY <1>1, <1>2, PublishOnce DEF Selected
<1>5. cursor \in [Selected -> Nat] BY <1>1 DEF FeedInv, StageOK
<1>6. FeedTypeOK'
  <2>1. FeedTypeOK /\ Capacity' = Capacity BY DEF FeedInv, Capacity, Selected
  <2>2. /\ tagUp' \in {"none", "open", "closed"}
        /\ batchUp' \in {"none", "open", "closed", "lagged"}
    BY <1>4, <2>1 DEF Published, ClosedStays, FeedTypeOK
  <2>3. /\ merged' \in Seq(Sample) /\ Len(merged') <= Capacity /\ DOMAIN cursor' = Selected
        /\ err' \in {"none", "lag", "upstream"} /\ cancelled' \in BOOLEAN
    BY <1>4 DEF Published, ClosedStays
  <2> HIDE DEF e
  <2> QED BY <1>1, <1>3, <2>1, <2>2, <2>3 DEF FeedTypeOK
<1>7. StageOK' BY <1>1, <1>4 DEF FeedInv, StageOK, Published
<1>8. EndingOK' BY <1>1, <1>4 DEF FeedInv, EndingOK, Published, ClosedStays, FeedTypeOK
<1>9. \A t \in TagSources : t # s /\ cursor'[t] = cursor[t]
  BY <1>4, FeedAssumption DEF Published, Selected
<1>10. TagsOK'
  <2>1. \A n \in ToSet(tagStream) : tagLog[n] \in TagSources
    BY DEF FeedInv, TagsOK, FeedTypeOK, TagSeq
  <2> QED BY <1>1, <1>9, <2>1 DEF FeedInv, TagsOK, TagSeq
<1>11. /\ \A r \in OutputSources : AtHand(r)' \subseteq AtHand(r)
       /\ \A r \in OutputSources : r # s => AtHand(r)' = AtHand(r) /\ cursor'[r] = cursor[r]
       /\ AtHand(s) = AtHand(s)' \cup {e} /\ AtHand(s)' = ToSet(batchStream)
  BY <1>1, <1>3, <1>4 DEF AtHand, Published, Selected
<1>12. BatchesOK'
  <2>1. ASSUME NEW r \in OutputSources
        PROVE  /\ cursor'[r] = loaded \/ cursor'[r] <= announced
               /\ \A n \in AtHand(r)' : n > loaded => n > cursor'[r]
    <3>1. /\ cursor[r] = loaded \/ cursor[r] <= announced
          /\ \A n \in AtHand(r) : n > loaded => n > cursor[r]
      BY <1>1 DEF FeedInv, BatchesOK
    <3>2. CASE r # s BY <1>11, <3>1, <3>2
    <3>3. CASE r = s
      <4>1. cursor'[s] \in {cursor[s], e} BY <1>4 DEF Published
      <4> QED BY <1>2, <1>11, <3>1, <3>3, <4>1
    <3> QED BY <3>2, <3>3
  <2> QED BY <1>1, <1>2, <1>3, <2>1 DEF FeedInv, BatchesOK
<1>13. InOrder' /\ CursorOK' BY <1>4 DEF Published
<1>14. err' = "none" => err = "none" BY <1>4 DEF Published, ClosedStays
<1>15. TagsCovered'
  <2> SUFFICES ASSUME err' = "none", NEW n \in 1..TagSeq, n > replayed[tagLog[n]]
               PROVE  Covered(tagLog[n], n, ToSet(tagStream), tagUp = "closed")'
    BY <1>1 DEF TagsCovered, TagSeq
  <2>1. Covered(tagLog[n], n, ToSet(tagStream), tagUp = "closed")
    BY <1>1, <1>14 DEF FeedInv, TagsCovered
  <2>2. tagLog[n] \in TagSources BY DEF FeedInv, FeedTypeOK, TagSeq
  <2>3. /\ Delivered \subseteq Delivered' /\ \A d \in Delivered' : d.source = tagLog[n] => d \in Delivered
        /\ tagUp = "closed" => tagUp' = "closed"
    BY <1>4, <1>9, <2>2 DEF Published, ClosedStays
  <2> QED BY <1>1, <2>1, <2>3 DEF Covered
<1>16. BatchesCovered'
  <2> SUFFICES ASSUME err' = "none", NEW r \in OutputSources, NEW n \in (loaded + 1)..announced
               PROVE  Covered(r, n, AtHand(r), batchUp # "open")'
    BY <1>1 DEF BatchesCovered
  <2>1. Covered(r, n, AtHand(r), batchUp # "open")
    BY <1>1, <1>14 DEF FeedInv, BatchesCovered
  <2>2. /\ Delivered \subseteq Delivered' /\ Delivered' \subseteq Delivered \cup {[source |-> s, seq |-> e]}
        /\ batchUp # "open" => batchUp' # "open"
    BY <1>4 DEF Published, ClosedStays
  <2>3. CASE r # s
    <3>1. \A d \in Delivered' : d.source = r => d \in Delivered BY <2>2, <2>3
    <3> QED BY <1>11, <2>1, <2>2, <2>3, <3>1 DEF Covered
  <2>4. CASE r = s
    <3>1. CASE [source |-> s, seq |-> n] \in Delivered BY <2>2, <2>4, <3>1 DEF Covered
    <3>2. CASE n \in AtHand(s)' BY <2>4, <3>2 DEF Covered
    <3>3. CASE n = e
      <4>1. e > loaded => e > cursor[s] BY <1>1, <1>11 DEF FeedInv, BatchesOK
      <4>2. n > loaded BY <1>2
      <4>3. ~(e <= cursor[s]) BY <1>2, <1>5, <3>3, <4>1, <4>2 DEF Selected
      <4>4. [source |-> s, seq |-> e] \in Delivered' BY <1>4, <4>3 DEF Published
      <4> QED BY <2>4, <3>3, <4>4 DEF Covered
    <3>4. CASE /\ batchUp # "open" /\ \A m \in AtHand(s) : m < n
               /\ \A d \in Delivered : d.source = s => d.seq < n
      <4>1. \A d \in Delivered' : d.source = s => d.seq < n
        BY <1>11, <2>2, <3>4
      <4>2. \A m \in AtHand(s)' : m < n BY <1>11, <3>4
      <4> QED BY <2>2, <2>4, <3>4, <4>1, <4>2 DEF Covered
    <3> QED BY <1>11, <2>1, <2>4, <3>1, <3>2, <3>3, <3>4 DEF Covered
  <2> QED BY <2>3, <2>4
<1> QED BY <1>6, <1>7, <1>8, <1>10, <1>12, <1>13, <1>15, <1>16 DEF FeedInv

LEMMA ReadSampleStep == FeedInv /\ ReadSample => FeedInv'
<1> SUFFICES ASSUME FeedInv, ReadSample PROVE FeedInv' OBVIOUS
<1> USE DEF upVars
<1>1. /\ merged # <<>> /\ got' = Append(got, Head(merged)) /\ merged' = Tail(merged)
      /\ UNCHANGED <<tagLog, stored, announced, tagStream, tagUp, replayed, batchStream, batchUp,
                     loaded, pc, eventsClosed, cursor, err, cancelled, streams, inHand, readerClosed>>
      /\ pc = "running"
  BY DEF ReadSample
<1>2. got \in Seq(Sample) /\ merged \in Seq(Sample) /\ Len(merged) <= Capacity
  BY DEF FeedInv, FeedTypeOK
<1>3. Samples' = Samples /\ Delivered' = Delivered
  BY <1>1, <1>2, ReadMoves DEF Samples, Delivered
<1>4. /\ got' \in Seq(Sample) /\ merged' \in Seq(Sample) /\ Len(merged') <= Capacity
  <2>1. Head(merged) \in Sample /\ Tail(merged) \in Seq(Sample) /\ Len(Tail(merged)) = Len(merged) - 1
        /\ Len(merged) \in Nat
    BY <1>1, <1>2, HeadTailProperties
  <2>2. Capacity \in Nat BY EachSourceOnce, FeedAssumption DEF Capacity
  <2> QED BY <1>1, <1>2, <2>1, <2>2
<1>5. FeedTypeOK'
  <2>1. FeedTypeOK /\ Capacity' = Capacity BY DEF FeedInv, Capacity, Selected
  <2> QED BY <1>1, <1>4, <2>1 DEF FeedTypeOK
<1>6. StageOK' /\ EndingOK' BY <1>1 DEF FeedInv, StageOK, EndingOK, Selected
<1>7. TagsOK' BY <1>1 DEF FeedInv, TagsOK, TagSeq
<1>8. BatchesOK' BY <1>1 DEF FeedInv, BatchesOK, AtHand
<1>9. InOrder' /\ CursorOK' BY <1>1, <1>3 DEF FeedInv, InOrder, CursorOK
<1>10. TagsCovered' BY <1>1, <1>3 DEF FeedInv, TagsCovered, Covered, TagSeq
<1>11. BatchesCovered' BY <1>1, <1>3 DEF FeedInv, BatchesCovered, Covered, AtHand
<1> QED BY <1>5, <1>6, <1>7, <1>8, <1>9, <1>10, <1>11 DEF FeedInv

-----------------------------------------------------------------------------
LEMMA FeedStarts == FeedInit => FeedInv
<1> SUFFICES ASSUME FeedInit PROVE FeedInv OBVIOUS
<1>1. Capacity \in Nat BY EachSourceOnce, FeedAssumption DEF Capacity
<1>2. FeedTypeOK
  <2>1. Len(<<>>) = 0 /\ DOMAIN <<>> = {} /\ \A T : <<>> \in Seq(T) BY EmptySeq
  <2>2. /\ tagLog \in Seq(TagSources) /\ tagStream \in Seq(Nat) /\ batchStream \in Seq(Nat)
        /\ merged \in Seq(Sample) /\ got \in Seq(Sample)
        /\ Len(merged) <= Capacity /\ Len(tagStream) <= UpstreamBuffer
        /\ Len(batchStream) <= UpstreamBuffer /\ DOMAIN cursor \subseteq Selected
    BY <1>1, <2>1, FeedAssumption DEF FeedInit
  <2>3. /\ replayed \in [TagSources -> Nat] /\ inHand \in [seq : Nat, outputs : SUBSET OutputSources]
    BY DEF FeedInit
  <2> QED BY <2>2, <2>3 DEF FeedInit, FeedTypeOK
<1>3. StageOK /\ EndingOK BY DEF FeedInit, StageOK, EndingOK
<1>4. TagsOK BY DEF FeedInit, TagsOK, Increasing, ToSet, TagSeq
<1>5. BatchesOK BY DEF FeedInit, BatchesOK, Increasing, ToSet
<1>6. Samples = <<>> /\ Delivered = {} BY ConcatEmptySeq DEF FeedInit, Samples, Delivered, ToSet
<1>7. InOrder /\ CursorOK BY <1>6 DEF InOrder, CursorOK
<1>8. TagsCovered /\ BatchesCovered BY DEF FeedInit, TagsCovered, BatchesCovered
<1> QED BY <1>2, <1>3, <1>4, <1>5, <1>7, <1>8 DEF FeedInv

LEMMA FeedKept == FeedInv /\ [FeedNext]_feedVars => FeedInv'
<1> SUFFICES ASSUME FeedInv, [FeedNext]_feedVars PROVE FeedInv' OBVIOUS
<1>1. CASE UNCHANGED feedVars
  <2> USE <1>1 DEF feedVars, upVars, subVars
  <2>1. FeedStays /\ ClosedStays BY DEF FeedStays, ClosedStays, FeedInv, FeedTypeOK
  <2>2. StageOK' /\ EndingOK' BY DEF FeedInv, StageOK, EndingOK, Selected
  <2> QED BY <2>1, <2>2, EndingStep DEF FeedInv, FeedTypeOK
<1>2. CASE FeedNext
  BY <1>2, PutTagStep, WatchTagsStep, StoreBatchStep, AnnounceBatchStep, SubscribeTagsStep, OpeningStep,
     PublishInitialStep, TagReceiveStep, ReturnsStep, BatchReceiveStep, BatchPublishStep, finishStep,
     ReadSampleStep, CloseStep, SubscriberDoneStep
  DEF FeedNext
<1> QED BY <1>1, <1>2

(* The reader of a subscription gets the samples of each source in order   *)
(* and none twice, although a value may be loaded and streamed; until it   *)
(* fails none is missing, and it never ends without an error or being      *)
(* closed (SourceFeed.Subscribe and sourceSubscription of                  *)
(* publisher/source_feed.go).  For every selection and size of buffers.    *)
THEOREM FeedIsSound == FeedSpec => []FeedSound
<1>1. FeedInv => FeedSound
  <2> SUFFICES ASSUME FeedInv PROVE FeedSound OBVIOUS
  <2>1. NothingMissing BY DEF FeedInv, TagsCovered, BatchesCovered, NothingMissing
  <2>2. EndIsExplained BY DEF FeedInv, EndingOK, StageOK, EndIsExplained
  <2> QED BY <2>1, <2>2 DEF FeedInv, FeedSound
<1> QED BY <1>1, FeedStarts, FeedKept, PTL DEF FeedSpec

-----------------------------------------------------------------------------
(* The asset hierarchy (Assets).                                           *)
(*                                                                         *)
(* A request that runs alone finds at its commit what it found before, so  *)
(* what it checked is what it changes.  That a change of one parent adds   *)
(* no cycle and keeps a boundary above its meter is about the ancestors in *)
(* two trees that differ in one place.  A meter outside of the ones that   *)
(* were compared has another total, because its boundary is above it.      *)

\* The site has no parent, which is written as itself.
Rooted == parent[Site] \in {Site, NoAsset}
MainsApart(ms) ==
    \A m, n \in Mains(ms) : aggregationGroup(m) = aggregationGroup(n) => m = n

\* What a request holds at each of its points.
CallOK(q) ==
    /\ q.at \in {"insert", "inserting", "move", "moving"} =>
          q.asset \in Assets \ {Site} /\ q.under \in Assets
    /\ q.at \in {"delete", "bind", "binding"} => q.asset \in Assets
    /\ q.at \in {"moving", "binding"} => Exists(q.asset)
    /\ q.at \in {"bind", "binding"} =>
          /\ \A m \in q.meters : m.owner = q.asset
          /\ \A m, n \in q.meters : m.source = n.source => m = n

\* What a request has found, as long as no other comes between.
Found(q) ==
    /\ q.at \in {"insert", "inserting"} => ~Exists(q.asset)
    /\ q.at \in {"inserting", "moving"} => HierarchyTrigger(q.asset, q.under)
    /\ q.at = "binding" => \A m \in q.meters : BindingTrigger(m)
    /\ q.at \in {"bind", "binding"} =>
          \A m \in q.meters : MainsApart(HierarchyCandidates(q.asset, q.meters, m.boundary))

Alone == \A c, d \in AssetCallers : c # d => calls[c] = AtRest \/ calls[d] = AtRest
Leaves == \A b \in bound : Children(b.owner) = {}
Placed == \A b \in bound : b.boundary \in Ancestors(b.owner) \cup {b.owner}

Undisputed ==
    /\ Alone /\ NoCycle(parent) /\ Leaves
    /\ \A c \in AssetCallers : Found(calls[c])
    /\ ~strayed => Placed /\ MainsApart(bound)

AssetsInv ==
    /\ AssetsTypeOK /\ Rooted /\ NothingDangles
    /\ \A c \in AssetCallers : CallOK(calls[c])
    /\ ~overlapped => Undisputed

(* Ancestors, for any parents f *)
Up(f, x) ==
    {y \in Assets : \A S \in SUBSET Assets :
        {f[z] : z \in ({x} \cup S) \ {Site}} \cap Assets \subseteq S => y \in S}

LEMMA AncestorsAreUp ==
  /\ \A x : Ancestors(x) = Up(parent, x)
  /\ \A x : Ancestors(x)' = Up(parent', x)
<1>1. \A x : Ancestors(x) = Up(parent, x)
  BY DEF Ancestors, Up, Parents
<1>2. \A x : Ancestors(x)' = Up(parent', x)
  BY DEF Ancestors, Up, Parents
<1> QED BY <1>1, <1>2

LEMMA UpIsAssets == \A f, x : Up(f, x) \subseteq Assets
BY DEF Up

\* Every set that is closed under parents has the ancestors.
LEMMA ClosedHasUp ==
  ASSUME NEW f, NEW x, NEW S \in SUBSET Assets,
         x # Site /\ f[x] \in Assets => f[x] \in S,
         \A y \in S : y # Site /\ f[y] \in Assets => f[y] \in S
  PROVE  Up(f, x) \subseteq S
<1>1. {f[z] : z \in ({x} \cup S) \ {Site}} \cap Assets \subseteq S
  OBVIOUS
<1> QED BY <1>1 DEF Up

LEMMA ParentIsUp ==
  ASSUME NEW f, NEW x, x # Site, f[x] \in Assets
  PROVE  f[x] \in Up(f, x)
<1>1. ASSUME NEW S \in SUBSET Assets, {f[z] : z \in ({x} \cup S) \ {Site}} \cap Assets \subseteq S
      PROVE  f[x] \in S
  BY <1>1
<1> QED BY <1>1 DEF Up

LEMMA UpIsClosed ==
  ASSUME NEW f, NEW x, NEW y \in Up(f, x), y # Site, f[y] \in Assets
  PROVE  f[y] \in Up(f, x)
<1>1. ASSUME NEW S \in SUBSET Assets, {f[z] : z \in ({x} \cup S) \ {Site}} \cap Assets \subseteq S
      PROVE  f[y] \in S
  <2>1. y \in S
    BY <1>1 DEF Up
  <2> QED BY <1>1, <2>1
<1> QED BY <1>1 DEF Up

LEMMA UpOfUp ==
  ASSUME NEW f, NEW x, NEW y \in Up(f, x)
  PROVE  Up(f, y) \subseteq Up(f, x)
<1>1. Up(f, x) \in SUBSET Assets
  BY UpIsAssets
<1>2. \A z \in Up(f, x) : z # Site /\ f[z] \in Assets => f[z] \in Up(f, x)
  BY UpIsClosed
<1> QED BY <1>1, <1>2, ClosedHasUp

\* The ancestors are the parent and its ancestors.
LEMMA UpThroughParent ==
  ASSUME NEW f, NEW x, x # Site, f[x] \in Assets
  PROVE  Up(f, x) \subseteq {f[x]} \cup Up(f, f[x])
<1> DEFINE S == {f[x]} \cup Up(f, f[x])
<1>1. S \in SUBSET Assets
  BY UpIsAssets
<1>2. \A y \in S : y # Site /\ f[y] \in Assets => f[y] \in S
  BY ParentIsUp, UpIsClosed
<1>3. f[x] \in S
  OBVIOUS
<1> HIDE DEF S
<1>4. Up(f, x) \subseteq S
  BY <1>1, <1>2, <1>3, ClosedHasUp
<1> QED BY <1>4 DEF S

LEMMA NothingUp ==
  ASSUME NEW f, NEW x, x = Site \/ f[x] \notin Assets
  PROVE  Up(f, x) = {}
<1> SUFFICES ASSUME NEW y \in Up(f, x) PROVE FALSE
  OBVIOUS
<1>1. {f[z] : z \in ({x} \cup {}) \ {Site}} \cap Assets \subseteq {}
  OBVIOUS
<1>2. {} \in SUBSET Assets
  OBVIOUS
<1>3. y \in {}
  BY <1>1, <1>2 DEF Up
<1> QED BY <1>3

\* An ancestor has a child.
LEMMA UpHasChild ==
  ASSUME NEW f, NEW x \in Assets, NEW y \in Up(f, x)
  PROVE  \E z \in Assets \ {Site} : f[z] = y
<1> DEFINE S == {w \in Assets : \E z \in Assets \ {Site} : f[z] = w}
<1>1. S \in SUBSET Assets /\ (x # Site /\ f[x] \in Assets => f[x] \in S)
  OBVIOUS
<1>2. \A z \in S : z # Site /\ f[z] \in Assets => f[z] \in S
  OBVIOUS
<1> HIDE DEF S
<1>3. y \in S
  BY <1>1, <1>2, ClosedHasUp
<1> QED BY <1>3 DEF S

\* A change of the parent of a is seen by what is a, or below it.
LEMMA UpElsewhere ==
  ASSUME NEW f, NEW g, NEW a, \A z \in Assets : z # a => g[z] = f[z],
         NEW x \in Assets, x # a, a \notin Up(f, x)
  PROVE  Up(g, x) = Up(f, x)
<1>1. Up(g, x) \subseteq Up(f, x)
  <2>1. Up(f, x) \in SUBSET Assets
    BY UpIsAssets
  <2>2. x # Site /\ g[x] \in Assets => g[x] \in Up(f, x)
    BY ParentIsUp
  <2>3. \A y \in Up(f, x) : y # Site /\ g[y] \in Assets => g[y] \in Up(f, x)
    BY <2>1, UpIsClosed
  <2> QED BY <2>1, <2>2, <2>3, ClosedHasUp
<1>2. Up(f, x) \subseteq Up(f, x) \cap Up(g, x)
  <2> DEFINE S == Up(f, x) \cap Up(g, x)
  <2>1. S \in SUBSET Assets
    BY UpIsAssets
  <2>2. x # Site /\ f[x] \in Assets => f[x] \in S
    BY ParentIsUp
  <2>3. \A y \in S : y # Site /\ f[y] \in Assets => f[y] \in S
    BY <2>1, UpIsClosed
  <2> HIDE DEF S
  <2>4. Up(f, x) \subseteq S
    BY <2>1, <2>2, <2>3, ClosedHasUp
  <2> QED BY <2>4 DEF S
<1> QED BY <1>1, <1>2

\* Without a cycle nothing is its own ancestor.
LEMMA NoneIsItsAncestor ==
  ASSUME NEW f, NoCycle(f)
  PROVE  \A x \in Assets : x \notin Up(f, x)
<1> SUFFICES ASSUME NEW x \in Assets, x \in Up(f, x) PROVE FALSE
  OBVIOUS
<1> DEFINE S == {y \in Assets : x \in Up(f, y)}
<1>1. S # {} /\ S \in SUBSET (Assets \ {Site})
  BY NothingUp
<1>2. PICK a \in S : f[a] \notin S
  BY <1>1 DEF NoCycle
<1>3. a \in Assets /\ a # Site /\ x \in Up(f, a)
  BY <1>1, <1>2
<1>4. f[a] \in Assets
  <2> SUFFICES ASSUME f[a] \notin Assets PROVE FALSE
    OBVIOUS
  <2>1. Up(f, a) = {}
    BY NothingUp
  <2> QED BY <1>3, <2>1
<1>5. x = f[a] \/ x \in Up(f, f[a])
  BY <1>3, <1>4, UpThroughParent
<1>6. f[a] \in S
  BY <1>4, <1>5
<1> QED BY <1>2, <1>6

\* A new parent that is not below adds no cycle.
LEMMA StaysAcyclic ==
  ASSUME NEW f, NEW g, NEW a \in Assets, NEW p \in Assets,
         \A z \in Assets : z # a => g[z] = f[z], g[a] = p, a # p, a \notin Up(f, p), NoCycle(f)
  PROVE  NoCycle(g)
<1> SUFFICES ASSUME NEW S \in SUBSET (Assets \ {Site}), S # {}, \A y \in S : g[y] \in S
             PROVE  FALSE
  BY DEF NoCycle
<1>1. CASE a \notin S
  <2>1. \A y \in S : f[y] \in S
    BY <1>1
  <2> QED BY <2>1 DEF NoCycle
<1>2. CASE a \in S
  <2> DEFINE T == S \cap ({p} \cup Up(f, p))
  <2>1. p \in T /\ T \in SUBSET (Assets \ {Site}) /\ a \notin T
    BY <1>2
  <2>2. \A y \in T : f[y] \in T
    <3> SUFFICES ASSUME NEW y \in T PROVE f[y] \in T
      OBVIOUS
    <3>1. f[y] = g[y] /\ f[y] \in S /\ y # Site
      BY <2>1
    <3>2. f[y] \in Up(f, p)
      BY <3>1, ParentIsUp, UpIsClosed
    <3> QED BY <3>1, <3>2
  <2> HIDE DEF T
  <2> QED BY <2>1, <2>2 DEF NoCycle
<1> QED BY <1>1, <1>2

\* Who was in the subtree of a and had an ancestor in it has it still.
LEMMA SubtreeStays ==
  ASSUME NEW f, NEW g, NEW a \in Assets, \A z \in Assets : z # a => g[z] = f[z],
         \A x \in Assets : x \notin Up(f, x),
         NEW x \in Assets, NEW y \in Up(f, x), y = a \/ a \in Up(f, y)
  PROVE  y \in Up(g, x)
<1> DEFINE S == {z \in Up(f, x) : z \in Up(g, x) \/ z \in Up(f, a)}
<1>1. S \in SUBSET Assets
  BY UpIsAssets
<1>2. x # Site /\ f[x] \in Assets => f[x] \in S
  <2> SUFFICES ASSUME x # Site, f[x] \in Assets PROVE f[x] \in S
    OBVIOUS
  <2>1. f[x] \in Up(f, x)
    BY ParentIsUp
  <2>2. CASE x = a
    BY <2>1, <2>2
  <2>3. CASE x # a
    BY <2>1, <2>3, ParentIsUp
  <2> QED BY <2>2, <2>3
<1>3. \A z \in S : z # Site /\ f[z] \in Assets => f[z] \in S
  <2> SUFFICES ASSUME NEW z \in S, z # Site, f[z] \in Assets PROVE f[z] \in S
    OBVIOUS
  <2>1. f[z] \in Up(f, x)
    BY UpIsClosed
  <2>2. CASE z \in Up(f, a)
    BY <2>1, <2>2, UpIsClosed
  <2>3. CASE z = a
    BY <2>1, <2>3, ParentIsUp
  <2>4. CASE z \in Up(g, x) /\ z # a
    <3>1. g[z] = f[z]
      BY <1>1, <2>4
    <3> QED BY <2>1, <2>4, <3>1, UpIsClosed
  <2> QED BY <2>2, <2>3, <2>4
<1> HIDE DEF S
<1>4. y \in S
  BY <1>1, <1>2, <1>3, ClosedHasUp
<1>5. y \notin Up(f, a)
  <2> SUFFICES ASSUME y \in Up(f, a) PROVE FALSE
    OBVIOUS
  <2>1. Up(f, y) \subseteq Up(f, a)
    BY UpOfUp
  <2> QED BY <2>1
<1> QED BY <1>4, <1>5 DEF S

(* The start *)

LEMMA AssetsStart == AssetsInit => AssetsInv
<1> SUFFICES ASSUME AssetsInit PROVE AssetsInv
  OBVIOUS
<1> USE AssetsAssumption
<1>1. AssetsTypeOK
  <2>1. AtRest \in Call
    BY DEF Call, Places, AtRest
  <2>2. parent \in [Assets -> Assets \cup {NoAsset}] /\ asked \in 0 .. MaxAsked
    BY DEF AssetsInit, AssetsAssumption
  <2> QED BY <2>1, <2>2 DEF AssetsInit, AssetsTypeOK
<1>2. Rooted /\ NothingDangles
  BY DEF AssetsInit, Rooted, NothingDangles, AssetsAssumption, Exists
<1>3. \A c \in AssetCallers : calls[c].at = "idle" /\ calls[c] = AtRest
  BY DEF AssetsInit, AtRest
<1>4. \A c \in AssetCallers : CallOK(calls[c]) /\ Found(calls[c])
  BY <1>3 DEF CallOK, Found
<1>5. NoCycle(parent)
  BY DEF AssetsInit, AssetsAssumption
<1>6. Alone /\ Leaves /\ Placed /\ MainsApart(bound)
  BY <1>3 DEF AssetsInit, Alone, Leaves, Placed, MainsApart, Mains
<1> QED BY <1>1, <1>2, <1>4, <1>5, <1>6 DEF AssetsInv, Undisputed

(* Steps that leave the tree *)

\* What is said of the tree stays while it does.
LEMMA SameTree ==
  ASSUME UNCHANGED <<parent, bound>>
  PROVE  /\ Rooted' = Rooted /\ NothingDangles' = NothingDangles
         /\ NoCycle(parent)' = NoCycle(parent) /\ Leaves' = Leaves /\ Placed' = Placed
         /\ MainsApart(bound)' = MainsApart(bound)
         /\ \A q : CallOK(q)' = CallOK(q) /\ Found(q)' = Found(q)
<1>1. \A x : Ancestors(x)' = Ancestors(x)
  BY AncestorsAreUp
<1>2. \A x : Exists(x)' = Exists(x) /\ Children(x)' = Children(x)
  BY DEF Exists, Children
<1>3. \A x : Subtree(x)' = Subtree(x)
  BY <1>1, <1>2 DEF Subtree
<1>4. \A x : Ends(x)' = Ends(x)
  BY <1>1 DEF Ends
<1>5. \A x, y : ValidateAncestry(x, y)' = ValidateAncestry(x, y)
  BY <1>1 DEF ValidateAncestry
<1>6. \A x, y : HierarchyTrigger(x, y)' = HierarchyTrigger(x, y)
  BY <1>2, <1>4, <1>5 DEF HierarchyTrigger
<1>7. \A m : BindingTrigger(m)' = BindingTrigger(m)
  BY <1>1, <1>2 DEF BindingTrigger
<1>8. \A a, new, y : HierarchyCandidates(a, new, y)' = HierarchyCandidates(a, new, y)
  BY <1>3 DEF HierarchyCandidates
<1>9. \A q : CallOK(q)' = CallOK(q)
  BY <1>2 DEF CallOK
<1>10. \A q : Found(q)' = Found(q)
  BY <1>2, <1>6, <1>7, <1>8 DEF Found, MainsApart, Mains, aggregationGroup
<1>11. Rooted' = Rooted /\ NothingDangles' = NothingDangles
  BY <1>2 DEF Rooted, NothingDangles
<1>12. NoCycle(parent)' = NoCycle(parent) /\ Leaves' = Leaves /\ Placed' = Placed
  BY <1>1, <1>2 DEF NoCycle, Leaves, Placed
<1>13. MainsApart(bound)' = MainsApart(bound)
  BY DEF MainsApart, Mains, aggregationGroup
<1> QED BY <1>9, <1>10, <1>11, <1>12, <1>13

\* Requests that are at rest have found nothing.
LEMMA RestFindsNothing == CallOK(AtRest) /\ Found(AtRest) /\ AtRest \in Call
BY DEF CallOK, Found, AtRest, Call, Places

LEMMA CallGoes ==
  ASSUME AssetsTypeOK, NEW c \in AssetCallers, NEW q \in Call, Goes(c, q)
  PROVE  /\ calls' \in [AssetCallers -> Call]
         /\ calls'[c] = q /\ \A d \in AssetCallers : d # c => calls'[d] = calls[d]
BY DEF AssetsTypeOK, Goes

\* A request begins, and has checked what it needs.
LEMMA CheckStep ==
  ASSUME AssetsInv, NEW c \in AssetCallers, BeginRequest(c), NEW q \in Call, Goes(c, q),
         CallOK(q), ~overlapped => Found(q)
  PROVE  AssetsInv'
<1> USE DEF AssetsInv
<1>1. UNCHANGED <<parent, bound, strayed>>
  BY DEF BeginRequest
<1>2. AssetsTypeOK'
  <2>1. asked' \in 0 .. MaxAsked /\ overlapped' \in BOOLEAN
    BY AssetsAssumption DEF BeginRequest, AssetsTypeOK, AssetsAssumption
  <2> QED BY <1>1, <2>1, CallGoes DEF AssetsTypeOK
<1>3. \A d \in AssetCallers : CallOK(calls[d])'
  BY <1>1, SameTree, CallGoes
<1>4. ASSUME ~overlapped' PROVE Undisputed'
  <2>1. ~overlapped /\ \A d \in AssetCallers : calls[d] = AtRest
    BY <1>4 DEF BeginRequest, AssetsTypeOK
  <2>2. Alone'
    BY <2>1, CallGoes DEF Alone
  <2>3. \A d \in AssetCallers : Found(calls[d])'
    BY <1>1, <2>1, SameTree, CallGoes, RestFindsNothing
  <2> QED BY <1>1, <2>1, <2>2, <2>3, SameTree DEF Undisputed
<1> QED BY <1>1, <1>2, <1>3, <1>4, SameTree

\* A statement begins, or has no effect.
LEMMA StatementStep ==
  ASSUME AssetsInv, NEW c \in AssetCallers, calls[c].at # "idle", UNCHANGED tree,
         NEW q \in Call, Goes(c, q), CallOK(q), ~overlapped => Found(q)
  PROVE  AssetsInv'
<1> USE DEF AssetsInv
<1>1. UNCHANGED <<parent, bound, asked, overlapped, strayed>>
  BY DEF tree
<1>2. AssetsTypeOK'
  BY <1>1, CallGoes DEF AssetsTypeOK
<1>3. \A d \in AssetCallers : CallOK(calls[d])'
  BY <1>1, SameTree, CallGoes
<1>4. ASSUME ~overlapped' PROVE Undisputed'
  <2>1. ~overlapped /\ Undisputed /\ calls[c] # AtRest
    BY <1>1, <1>4 DEF AtRest
  <2>2. \A d \in AssetCallers : d # c => calls[d] = AtRest
    BY <2>1 DEF Undisputed, Alone
  <2>3. Alone'
    BY <2>2, CallGoes DEF Alone
  <2>4. \A d \in AssetCallers : Found(calls[d])'
    BY <1>1, <2>1, <2>2, SameTree, CallGoes, RestFindsNothing
  <2> QED BY <1>1, <2>1, <2>3, <2>4, SameTree DEF Undisputed
<1> QED BY <1>1, <1>2, <1>3, <1>4, SameTree

(* What a request found *)

\* Of the checks of a set of meters, the proofs use that no source is twice in it,
\* and that no two main meters are of one total.
LEMMA PlanSeparates ==
  ASSUME NEW ms, \E plan \in BuildRollupPlan(ms) : plan.ok
  PROVE  /\ MainsApart(ms)
         /\ \A m, n \in ms : m.source = n.source => m = n
<1> DEFINE refused == \/ \E m, n \in ms : m # n /\ (m.id = n.id \/ m.source = n.source)
                      \/ \E m \in ms : ~ValidRole(m)
                      \/ virtualDependencyCycle(ms)
                      \/ \E m, n \in Mains(ms) :
                            m # n /\ aggregationGroup(m) = aggregationGroup(n)
<1>1. ~refused
  <2> SUFFICES ASSUME refused PROVE FALSE
    OBVIOUS
  <2>1. BuildRollupPlan(ms) = {[ok |-> FALSE, counted |-> {}]}
    BY DEF BuildRollupPlan
  <2> QED BY <2>1
<1> QED BY <1>1 DEF MainsApart

LEMMA OwnedBy ==
  ASSUME AssetsAssumption, NEW a \in Assets, NEW offer \in Offers
  PROVE  Owned(a, offer) \subseteq Binding /\ \A m \in Owned(a, offer) : m.owner = a
BY DEF AssetsAssumption, Owned, Binding, Meter

LEMMA AssetRequestStep ==
  ASSUME AssetsInv, NEW c \in AssetCallers, AssetRequest(c)
  PROVE  AssetsInv'
<1> USE AssetsAssumption
<1>1. ASSUME NEW a \in Assets, NEW p \in Assets, CreateCheck(c, a, p) PROVE AssetsInv'
  <2> DEFINE q == [AtRest EXCEPT !.at = "insert", !.asset = a, !.under = p]
  <2>1. q \in Call /\ CallOK(q) /\ Found(q)
    BY <1>1 DEF CreateCheck, Call, Places, AtRest, CallOK, Found, Exists
  <2>2. BeginRequest(c) /\ (Goes(c, q) \/ Goes(c, AtRest))
    BY <1>1 DEF CreateCheck
  <2> HIDE DEF q
  <2> QED BY <2>1, <2>2, CheckStep, RestFindsNothing
<1>2. ASSUME NEW a \in Assets, NEW p \in Assets, MoveCheck(c, a, p) PROVE AssetsInv'
  <2> DEFINE q == [AtRest EXCEPT !.at = "move", !.asset = a, !.under = p]
  <2>1. q \in Call /\ CallOK(q) /\ Found(q)
    BY <1>2 DEF MoveCheck, Call, Places, AtRest, CallOK, Found
  <2>2. BeginRequest(c) /\ (Goes(c, q) \/ Goes(c, AtRest))
    BY <1>2 DEF MoveCheck
  <2> HIDE DEF q
  <2> QED BY <2>1, <2>2, CheckStep, RestFindsNothing
<1>3. ASSUME NEW a \in Assets, DeleteCheck(c, a) PROVE AssetsInv'
  <2> DEFINE q == [AtRest EXCEPT !.at = "delete", !.asset = a]
  <2>1. q \in Call /\ CallOK(q) /\ Found(q)
    BY DEF Call, Places, AtRest, CallOK, Found
  <2>2. BeginRequest(c) /\ (Goes(c, q) \/ Goes(c, AtRest))
    BY <1>3 DEF DeleteCheck
  <2> HIDE DEF q
  <2> QED BY <2>1, <2>2, CheckStep, RestFindsNothing
<1>4. ASSUME NEW a \in Assets, NEW offer \in Offers, BindingsCheck(c, a, offer) PROVE AssetsInv'
  <2> DEFINE new == Owned(a, offer)
             q == [AtRest EXCEPT !.at = "bind", !.asset = a, !.meters = new]
  <2>1. new \subseteq Binding /\ \A m \in new : m.owner = a
    BY OwnedBy
  <2>2. BeginRequest(c)
    BY <1>4 DEF BindingsCheck
  <2>3. CASE Goes(c, AtRest)
    BY <2>2, <2>3, CheckStep, RestFindsNothing
  <2>4. CASE SubmittedBindings(a, new) /\ HierarchyRollups(a, new) /\ Goes(c, q)
    <3> HIDE DEF new
    <3>1. q \in Call /\ q.at = "bind" /\ q.asset = a /\ q.meters = new
      BY <2>1 DEF Call, Places, AtRest
    <3> HIDE DEF q
    <3>2. \A m, n \in new : m.source = n.source => m = n
      BY <2>4, PlanSeparates DEF SubmittedBindings
    <3>3. CallOK(q)
      BY <2>1, <3>1, <3>2 DEF CallOK
    <3>4. \A m \in new : MainsApart(HierarchyCandidates(a, new, m.boundary))
      BY <2>4, PlanSeparates DEF HierarchyRollups
    <3>5. Found(q)
      BY <3>1, <3>4 DEF Found
    <3> QED BY <2>2, <2>4, <3>1, <3>3, <3>5, CheckStep
  <2> QED BY <1>4, <2>3, <2>4 DEF BindingsCheck
<1> QED BY <1>1, <1>2, <1>3, <1>4 DEF AssetRequest

LEMMA AssetBeginsStep ==
  ASSUME AssetsInv, NEW c \in AssetCallers, Insert(c) \/ Move(c) \/ ReplaceBindings(c)
  PROVE  AssetsInv'
<1> DEFINE r == calls[c]
<1>1. r \in Call /\ CallOK(r) /\ (~overlapped => Found(r))
  BY DEF AssetsInv, AssetsTypeOK, Undisputed
<1>2. CASE Insert(c)
  <2> DEFINE q == [r EXCEPT !.at = "inserting"]
  <2>1. r.at = "insert" /\ UNCHANGED tree
    BY <1>2 DEF Insert
  <2>2. q \in Call /\ CallOK(q)
    BY <1>1, <2>1 DEF Call, Places, CallOK
  <2>3. CASE HierarchyTrigger(r.asset, r.under) /\ Goes(c, q)
    <3>1. ~overlapped => Found(q)
      BY <1>1, <2>1, <2>3 DEF Found, Call
    <3> HIDE DEF q, r
    <3> QED BY <2>1, <2>2, <2>3, <3>1, StatementStep DEF r
  <2>4. CASE Goes(c, AtRest)
    BY <2>1, <2>4, StatementStep, RestFindsNothing
  <2> QED BY <1>2, <2>3, <2>4 DEF Insert
<1>3. CASE Move(c)
  <2> DEFINE q == [r EXCEPT !.at = "moving"]
  <2>1. r.at = "move" /\ UNCHANGED tree
    BY <1>3 DEF Move
  <2>3. CASE Exists(r.asset) /\ HierarchyTrigger(r.asset, r.under) /\ Goes(c, q)
    <3>1. q \in Call /\ CallOK(q) /\ (~overlapped => Found(q))
      BY <1>1, <2>1, <2>3 DEF Call, Places, CallOK, Found
    <3> HIDE DEF q, r
    <3> QED BY <2>1, <2>3, <3>1, StatementStep DEF r
  <2>4. CASE Goes(c, AtRest)
    BY <2>1, <2>4, StatementStep, RestFindsNothing
  <2> QED BY <1>3, <2>3, <2>4 DEF Move
<1>4. CASE ReplaceBindings(c)
  <2> DEFINE q == [r EXCEPT !.at = "binding"]
  <2>1. r.at = "bind" /\ UNCHANGED tree
    BY <1>4 DEF ReplaceBindings
  <2>3. CASE Exists(r.asset) /\ (\A m \in r.meters : BindingTrigger(m)) /\ Goes(c, q)
    <3>1. q \in Call /\ CallOK(q) /\ (~overlapped => Found(q))
      BY <1>1, <2>1, <2>3 DEF Call, Places, CallOK, Found
    <3> HIDE DEF q, r
    <3> QED BY <2>1, <2>3, <3>1, StatementStep DEF r
  <2>4. CASE Goes(c, AtRest)
    BY <2>1, <2>4, StatementStep, RestFindsNothing
  <2> QED BY <1>4, <2>3, <2>4 DEF ReplaceBindings
<1> QED BY <1>2, <1>3, <1>4

(* Commits *)

LEMMA ExistsIsAsset ==
  ASSUME AssetsTypeOK, NEW x \in Assets
  PROVE  (Exists(x) <=> parent[x] \in Assets) /\ (Exists(x)' <=> parent'[x] # NoAsset)
BY AssetsAssumption DEF AssetsTypeOK, AssetsAssumption, Exists

\* Whoever commits while no request ran beside an other is alone at work.
LEMMA OthersRest ==
  ASSUME AssetsInv, NEW c \in AssetCallers, calls[c].at # "idle", ~overlapped, Goes(c, AtRest)
  PROVE  /\ Undisputed /\ Found(calls[c]) /\ Alone'
         /\ \A d \in AssetCallers : calls'[d] = AtRest
<1>1. Undisputed /\ Found(calls[c]) /\ calls[c] # AtRest
  BY DEF AssetsInv, Undisputed, AtRest
<1>2. \A d \in AssetCallers : calls'[d] = AtRest
  BY <1>1, CallGoes, RestFindsNothing DEF AssetsInv, Undisputed, Alone
<1> QED BY <1>1, <1>2 DEF Alone

LEMMA RestFindsNothingNext == Found(AtRest)'
BY DEF Found, AtRest

\* An asset gets a parent that exists.
LEMMA ParentChanges ==
  ASSUME AssetsInv, NEW c \in AssetCallers, calls[c].at \in {"inserting", "moving"},
         Exists(calls[c].under), Goes(c, AtRest),
         parent' = [parent EXCEPT ![calls[c].asset] = calls[c].under],
         UNCHANGED <<bound, asked, overlapped>>,
         strayed' = (strayed \/ (calls[c].at = "moving" /\ Strays(calls[c].asset)))
  PROVE  AssetsInv'
<1> USE AssetsAssumption
<1> DEFINE a == calls[c].asset
           p == calls[c].under
<1>1. /\ AssetsTypeOK /\ Rooted /\ NothingDangles /\ a \in Assets /\ a # Site /\ p \in Assets
      /\ \A d \in AssetCallers : CallOK(calls[d])
  BY DEF AssetsInv, CallOK
<1>2. parent'[a] = p /\ \A x \in Assets : x # a => parent'[x] = parent[x]
  BY <1>1 DEF AssetsTypeOK
<1>3. AssetsTypeOK'
  <2>1. calls' \in [AssetCallers -> Call]
    BY <1>1, CallGoes, RestFindsNothing
  <2>2. parent' \in [Assets -> Assets \cup {NoAsset}] /\ strayed' \in BOOLEAN
    BY <1>1 DEF AssetsTypeOK
  <2> QED BY <1>1, <2>1, <2>2 DEF AssetsTypeOK
<1>4. \A x \in Assets : Exists(x) => Exists(x)'
  BY <1>1, <1>2, ExistsIsAsset DEF AssetsAssumption, Exists
<1>5. Rooted'
  BY <1>1, <1>2 DEF Rooted, AssetsAssumption
<1>6. NothingDangles'
  <2>1. \A x \in Assets : Exists(x)' => Exists(parent[x])'
    <3> SUFFICES ASSUME NEW x \in Assets, Exists(x)' PROVE Exists(parent[x])'
      OBVIOUS
    <3>1. CASE x = a
      <4>1. PICK y \in Assets : y = p /\ Exists(y)'
        BY <1>1, <1>4
      <4>2. parent'[x] = y
        BY <1>2, <3>1, <4>1
      <4> QED BY <4>1, <4>2 DEF Exists
    <3>2. CASE x # a
      <4>1. parent'[x] = parent[x] /\ Exists(x)
        BY <1>2, <3>2 DEF Exists
      <4>2. PICK y \in Assets : y = parent[x] /\ Exists(y)
        BY <1>1, <4>1, ExistsIsAsset DEF NothingDangles
      <4>3. Exists(y)'
        BY <1>4, <4>2
      <4> QED BY <4>1, <4>2, <4>3 DEF Exists
    <3> QED BY <3>1, <3>2
  <2>2. \A b \in bound : Exists(b.owner)' /\ Exists(b.boundary)'
    BY <1>1, <1>4 DEF NothingDangles, AssetsTypeOK, Binding
  <2> QED BY <1>1, <2>1, <2>2 DEF NothingDangles
<1>7. \A d \in AssetCallers : CallOK(calls[d])'
  <2> SUFFICES ASSUME NEW d \in AssetCallers PROVE CallOK(calls[d])'
    OBVIOUS
  <2>1. CASE d = c
    <3>1. CallOK(AtRest)'
      BY DEF CallOK, AtRest
    <3> QED BY <1>1, <2>1, <3>1, CallGoes, RestFindsNothing
  <2>2. CASE d # c
    <3>1. calls'[d] = calls[d] /\ CallOK(calls[d])
      BY <1>1, <2>2, CallGoes, RestFindsNothing
    <3>2. \A q : CallOK(q) => CallOK(q)'
      BY <1>4 DEF CallOK
    <3> QED BY <3>1, <3>2
  <2> QED BY <2>1, <2>2
<1>8. ASSUME ~overlapped' PROVE Undisputed'
  <2>1. /\ Undisputed /\ Found(calls[c]) /\ Alone'
        /\ \A d \in AssetCallers : Found(calls[d])'
    BY <1>8, OthersRest, RestFindsNothingNext
  <2>2. HierarchyTrigger(a, p)
    BY <2>1 DEF Found
  <2>3. a # p /\ a \notin Up(parent, p) /\ \A b \in bound : b.owner # p
    BY <2>2, AncestorsAreUp DEF HierarchyTrigger, ValidateAncestry
  <2>4. NoCycle(parent) /\ \A x \in Assets : x \notin Up(parent, x)
    BY <2>1, NoneIsItsAncestor DEF Undisputed
  <2> HIDE DEF a, p
  <2>5. NoCycle(parent)'
    <3>1. NoCycle(parent')
      BY ONLY <1>1, <1>2, <2>3, <2>4, StaysAcyclic
    <3> QED BY <3>1 DEF NoCycle
  <2>6. Leaves'
    <3>1. \A x \in Assets : x # p => Children(x)' \subseteq Children(x)
      BY <1>1, <1>2 DEF Children
    <3>2. \A b \in bound : b.owner \in Assets /\ Children(b.owner) = {}
      BY <1>1, <2>1 DEF Undisputed, Leaves, AssetsTypeOK, Binding
    <3> QED BY <2>3, <3>1, <3>2 DEF Leaves
  <2>7. ASSUME ~strayed' PROVE Placed' /\ MainsApart(bound)'
    <3>1. Placed /\ MainsApart(bound)
      BY <2>1, <2>7 DEF Undisputed
    <3>2. MainsApart(bound)'
      BY <3>1 DEF MainsApart, Mains, aggregationGroup
    <3>3. ASSUME NEW b \in bound PROVE b.boundary = b.owner \/ b.boundary \in Up(parent', b.owner)
      <4> DEFINE x == b.owner
                 y == b.boundary
      <4>1. x \in Assets /\ y \in Assets /\ Exists(x) /\ (y = x \/ y \in Up(parent, x))
        BY <1>1, <3>1, <3>3, AncestorsAreUp DEF Placed, AssetsTypeOK, Binding, NothingDangles
      <4>2. CASE x = a \/ a \in Up(parent, x)
        <5>1. calls[c].at = "moving"
          <6> SUFFICES ASSUME calls[c].at = "inserting" PROVE FALSE
            OBVIOUS
          <6>1. ~Exists(a)
            BY <2>1 DEF Found, a
          <6>2. CASE x = a
            BY <4>1, <6>1, <6>2
          <6>3. CASE a \in Up(parent, x)
            <7>1. PICK z \in Assets \ {Site} : parent[z] = a
              BY <4>1, <6>3, UpHasChild
            <7>2. Exists(z)
              BY <1>1, <7>1 DEF Exists, AssetsAssumption
            <7> QED BY <1>1, <6>1, <7>1, <7>2 DEF NothingDangles
          <6> QED BY <4>2, <6>2, <6>3
        <5>2. b.owner \in Subtree(a)
          BY <4>1, <4>2, AncestorsAreUp DEF Subtree
        <5>3. b.boundary \in Subtree(a)
          BY <2>7, <5>1, <5>2 DEF Strays, a
        <5>4. y = a \/ a \in Up(parent, y)
          BY <5>3, AncestorsAreUp DEF Subtree
        <5>5. y = x \/ y \in Up(parent', x)
          BY ONLY <1>1, <1>2, <2>4, <4>1, <5>4, SubtreeStays
        <5> QED BY <5>5
      <4>3. CASE ~(x = a \/ a \in Up(parent, x))
        <5>1. Up(parent', x) = Up(parent, x)
          BY ONLY <1>1, <1>2, <4>1, <4>3, UpElsewhere
        <5> QED BY <4>1, <5>1
      <4> QED BY <4>2, <4>3
    <3> QED BY <3>2, <3>3, AncestorsAreUp DEF Placed
  <2> QED BY <2>1, <2>5, <2>6, <2>7 DEF Undisputed
<1> QED BY <1>3, <1>5, <1>6, <1>7, <1>8 DEF AssetsInv

LEMMA InsertMoveStep ==
  ASSUME AssetsInv, NEW c \in AssetCallers, InsertCommit(c) \/ MoveCommit(c)
  PROVE  AssetsInv'
<1>1. calls[c].at \in {"inserting", "moving"} /\ Goes(c, AtRest)
  BY DEF InsertCommit, MoveCommit
<1>2. CASE Exists(calls[c].under)
  <2>1. CASE InsertCommit(c)
    <3>1. strayed' = (strayed \/ (calls[c].at = "moving" /\ Strays(calls[c].asset)))
      BY <2>1 DEF InsertCommit, AssetsInv, AssetsTypeOK
    <3> QED BY <1>1, <1>2, <2>1, <3>1, ParentChanges DEF InsertCommit
  <2>2. CASE MoveCommit(c)
    <3>1. strayed' = (strayed \/ (calls[c].at = "moving" /\ Strays(calls[c].asset)))
      BY <1>2, <2>2 DEF MoveCommit
    <3> QED BY <1>1, <1>2, <2>2, <3>1, ParentChanges DEF MoveCommit
  <2> QED BY <2>1, <2>2
<1>3. CASE ~Exists(calls[c].under)
  <2>1. UNCHANGED tree
    BY <1>3 DEF InsertCommit, MoveCommit, tree, AssetsInv, AssetsTypeOK
  <2> QED BY <1>1, <2>1, StatementStep, RestFindsNothing
<1> QED BY <1>2, <1>3

\* A row goes that nothing refers to.
LEMMA AssetGoes ==
  ASSUME AssetsInv, NEW c \in AssetCallers, calls[c].at = "delete", Free(c, calls[c].asset),
         Children(calls[c].asset) = {},
         \A b \in bound : calls[c].asset \notin {b.owner, b.boundary}, Goes(c, AtRest),
         parent' = [parent EXCEPT ![calls[c].asset] = NoAsset],
         UNCHANGED <<bound, asked, overlapped, strayed>>
  PROVE  AssetsInv'
<1> USE AssetsAssumption
<1> DEFINE a == calls[c].asset
<1>1. /\ AssetsTypeOK /\ Rooted /\ NothingDangles /\ a \in Assets
      /\ \A d \in AssetCallers : CallOK(calls[d])
  BY DEF AssetsInv, CallOK
<1>2. parent'[a] = NoAsset /\ \A x \in Assets : x # a => parent'[x] = parent[x]
  BY <1>1 DEF AssetsTypeOK
<1>3. AssetsTypeOK'
  <2>1. calls' \in [AssetCallers -> Call]
    BY <1>1, CallGoes, RestFindsNothing
  <2>2. parent' \in [Assets -> Assets \cup {NoAsset}]
    BY <1>1 DEF AssetsTypeOK
  <2> QED BY <1>1, <2>1, <2>2 DEF AssetsTypeOK
<1>4. \A x \in Assets : x # a => Exists(x)' = Exists(x)
  BY <1>2 DEF Exists
<1>5. Rooted'
  BY <1>1, <1>2 DEF Rooted, AssetsAssumption
<1>6. NothingDangles'
  <2>1. ASSUME NEW x \in Assets, Exists(x)' PROVE Exists(parent[x])'
    <3>1. x # a
      BY <1>2, <2>1 DEF Exists
    <3>2. PICK y \in Assets : y = parent[x] /\ y = parent'[x] /\ Exists(y)
      BY <1>1, <1>2, <1>4, <2>1, <3>1, ExistsIsAsset DEF NothingDangles
    <3>3. y # a
      BY <1>1, <3>1, <3>2 DEF Children, Rooted, AssetsAssumption
    <3>4. Exists(y)'
      BY <1>4, <3>2, <3>3
    <3> QED BY <3>2, <3>4 DEF Exists
  <2>2. \A b \in bound : Exists(b.owner)' /\ Exists(b.boundary)'
    BY <1>1, <1>4 DEF NothingDangles, AssetsTypeOK, Binding
  <2> QED BY <1>1, <2>1, <2>2 DEF NothingDangles
<1>7. \A d \in AssetCallers : CallOK(calls[d])'
  <2> SUFFICES ASSUME NEW d \in AssetCallers PROVE CallOK(calls[d])'
    OBVIOUS
  <2>1. CASE d = c
    <3>1. CallOK(AtRest)'
      BY DEF CallOK, AtRest
    <3> QED BY <1>1, <2>1, <3>1, CallGoes, RestFindsNothing
  <2>2. CASE d # c
    <3>1. calls'[d] = calls[d] /\ CallOK(calls[d]) /\ calls[d] \in Call
      BY <1>1, <2>2, CallGoes, RestFindsNothing DEF AssetsTypeOK
    <3>2. calls[d].at \in {"moving", "binding"} => calls[d].asset # a
      BY <2>2 DEF Free, Holds
    <3>3. \A q \in Call : CallOK(q) /\ (q.at \in {"moving", "binding"} => q.asset # a) => CallOK(q)'
      BY <1>4 DEF CallOK
    <3> QED BY <3>1, <3>2, <3>3
  <2> QED BY <2>1, <2>2
<1>8. ASSUME ~overlapped' PROVE Undisputed'
  <2>1. Undisputed /\ Alone' /\ \A d \in AssetCallers : Found(calls[d])'
    BY <1>8, OthersRest, RestFindsNothingNext
  <2>2. \A x \in Assets : a \notin Up(parent, x)
    <3>1. a = Site \/ \A z \in Assets \ {Site} : parent[z] # a
      BY DEF Children
    <3>2. \A z \in Assets \ {Site} : parent[z] # a
      BY DEF Children
    <3> QED BY <3>2, UpHasChild
  <2> HIDE DEF a
  <2>3. \A x \in Assets : x # a => Up(parent', x) = Up(parent, x)
    BY ONLY <1>1, <1>2, <2>2, UpElsewhere
  <2>4. NoCycle(parent)
    BY <2>1 DEF Undisputed
  <2>5. NoCycle(parent)'
    <3>1. ASSUME NEW S \in SUBSET (Assets \ {Site}), S # {} PROVE \E x \in S : parent'[x] \notin S
      <4>1. PICK x \in S : parent[x] \notin S
        BY <2>4, <3>1 DEF NoCycle
      <4>2. CASE x = a
        BY <1>2, <3>1, <4>1, <4>2 DEF AssetsAssumption
      <4>3. CASE x # a
        BY <1>2, <4>1, <4>3
      <4> QED BY <4>2, <4>3
    <3> QED BY <3>1 DEF NoCycle
  <2>6. Leaves'
    <3>1. \A x \in Assets : Children(x)' \subseteq Children(x)
      BY <1>1, <1>2 DEF Children, AssetsAssumption
    <3>2. \A b \in bound : b.owner \in Assets /\ Children(b.owner) = {}
      BY <1>1, <2>1 DEF Undisputed, Leaves, AssetsTypeOK, Binding
    <3> QED BY <3>1, <3>2 DEF Leaves
  <2>7. ASSUME ~strayed' PROVE Placed' /\ MainsApart(bound)'
    <3>1. Placed /\ MainsApart(bound)
      BY <2>1, <2>7 DEF Undisputed
    <3>2. MainsApart(bound)'
      BY <3>1 DEF MainsApart, Mains, aggregationGroup
    <3>3. \A b \in bound : b.owner \in Assets /\ b.owner # a
      BY <1>1 DEF AssetsTypeOK, Binding, a
    <3>4. Placed'
      BY <2>3, <3>1, <3>3, AncestorsAreUp DEF Placed
    <3> QED BY <3>2, <3>4
  <2> QED BY <2>1, <2>5, <2>6, <2>7 DEF Undisputed
<1> QED BY <1>3, <1>5, <1>6, <1>7, <1>8 DEF AssetsInv

LEMMA DeleteStep ==
  ASSUME AssetsInv, NEW c \in AssetCallers, DeleteAsset(c)
  PROVE  AssetsInv'
<1>1. calls[c].at = "delete" /\ Free(c, calls[c].asset) /\ Goes(c, AtRest)
  BY DEF DeleteAsset
<1>2. CASE /\ Children(calls[c].asset) = {}
           /\ \A b \in bound : calls[c].asset \notin {b.owner, b.boundary}
  BY <1>1, <1>2, AssetGoes DEF DeleteAsset
<1>3. CASE ~(/\ Children(calls[c].asset) = {}
             /\ \A b \in bound : calls[c].asset \notin {b.owner, b.boundary})
  <2>1. UNCHANGED tree
    BY <1>3 DEF DeleteAsset, tree
  <2> QED BY <1>1, <2>1, StatementStep, RestFindsNothing
<1> QED BY <1>2, <1>3

\* The meters of an asset are replaced.
LEMMA MetersChange ==
  ASSUME AssetsInv, NEW c \in AssetCallers, calls[c].at = "binding", Goes(c, AtRest),
         NEW others, others = {b \in bound : b.owner # calls[c].asset},
         \A m \in calls[c].meters : Exists(m.boundary),
         \A m \in calls[c].meters, b \in others : m.source # b.source /\ m.id # b.id,
         bound' = others \cup calls[c].meters,
         UNCHANGED <<parent, asked, overlapped, strayed>>
  PROVE  AssetsInv'
<1> USE AssetsAssumption
<1> DEFINE a == calls[c].asset
           new == calls[c].meters
<1>1. /\ AssetsTypeOK /\ Rooted /\ NothingDangles /\ a \in Assets /\ Exists(a) /\ new \subseteq Binding
      /\ \A d \in AssetCallers : CallOK(calls[d])
      /\ \A m \in new : m.owner = a
      /\ \A m, n \in new : m.source = n.source => m = n
      /\ others \subseteq bound
  BY DEF AssetsInv, CallOK, AssetsTypeOK, Call
<1>2. AssetsTypeOK'
  <2>1. calls' \in [AssetCallers -> Call]
    BY <1>1, CallGoes, RestFindsNothing
  <2>2. bound' \subseteq Binding
    BY <1>1 DEF AssetsTypeOK
  <2> QED BY <1>1, <2>1, <2>2 DEF AssetsTypeOK
<1>3. \A x : Exists(x)' = Exists(x) /\ Children(x)' = Children(x)
  BY DEF Exists, Children
<1>4. NothingDangles' /\ Rooted'
  <2>1. \A b \in bound' : Exists(b.owner) /\ Exists(b.boundary)
    BY <1>1 DEF NothingDangles
  <2>2. \A b, d \in bound' : b.source = d.source => b = d
    BY <1>1 DEF NothingDangles
  <2>3. \A x \in Assets : Exists(x) => Exists(parent[x])
    BY <1>1 DEF NothingDangles
  <2>4. \A x \in Assets : Exists(x)' => Exists(parent[x])'
    BY <2>3 DEF Exists
  <2> QED BY <1>1, <1>3, <2>1, <2>2, <2>4 DEF NothingDangles, Rooted
<1>5. \A d \in AssetCallers : CallOK(calls[d])'
  <2> SUFFICES ASSUME NEW d \in AssetCallers PROVE CallOK(calls[d])'
    OBVIOUS
  <2>1. CallOK(AtRest)' /\ \A q : CallOK(q) => CallOK(q)'
    BY <1>3 DEF CallOK, AtRest
  <2> QED BY <1>1, <2>1, CallGoes, RestFindsNothing
<1>6. ASSUME ~overlapped' PROVE Undisputed'
  <2>1. /\ Undisputed /\ Found(calls[c]) /\ Alone'
        /\ \A d \in AssetCallers : Found(calls[d])'
    BY <1>6, OthersRest, RestFindsNothingNext
  <2>2. /\ \A m \in new : BindingTrigger(m)
        /\ \A m \in new : MainsApart(HierarchyCandidates(a, new, m.boundary))
    BY <2>1 DEF Found
  <2> HIDE DEF a, new
  <2>3. NoCycle(parent)'
    BY <2>1 DEF Undisputed, NoCycle
  <2>4. Leaves'
    BY <1>1, <1>3, <2>1, <2>2 DEF Undisputed, Leaves, BindingTrigger, new
  <2>5. ASSUME ~strayed' PROVE Placed' /\ MainsApart(bound)'
    <3>1. Placed /\ MainsApart(bound)
      BY <2>1, <2>5 DEF Undisputed
    <3>2. Placed'
      <4>1. \A b \in bound' : b.boundary \in Ancestors(b.owner) \cup {b.owner}
        BY <1>1, <2>2, <3>1 DEF Placed, BindingTrigger, new
      <4> QED BY <4>1, AncestorsAreUp DEF Placed
    <3>3. ASSUME NEW m \in new, NEW n \in bound', m \in Mains(bound'), n \in Mains(bound'),
                 aggregationGroup(m) = aggregationGroup(n)
          PROVE  m = n
      <4>1. n.boundary = m.boundary
        BY <3>3 DEF aggregationGroup
      <4>2. n \in HierarchyCandidates(a, new, m.boundary)
        <5>1. CASE n \in new
          BY <4>1, <5>1 DEF HierarchyCandidates
        <5>2. CASE n \in others
          <6>1. n \in bound /\ n.owner # a
            BY <1>1, <5>2 DEF a
          <6>2. Exists(n.owner) /\ n.owner \in Assets
            BY <1>1, <6>1 DEF NothingDangles, AssetsTypeOK, Binding
          <6>3. n.owner \in Subtree(m.boundary)
            BY <3>1, <4>1, <6>1, <6>2 DEF Placed, Subtree
          <6> QED BY <4>1, <6>1, <6>3 DEF HierarchyCandidates
        <5> QED BY <5>1, <5>2 DEF new
      <4>3. m \in HierarchyCandidates(a, new, m.boundary)
        BY DEF HierarchyCandidates
      <4> QED BY <2>2, <3>3, <4>2, <4>3 DEF MainsApart, Mains
    <3>4. \A m, n \in Mains(bound') : aggregationGroup(m) = aggregationGroup(n) => m = n
      <4> SUFFICES ASSUME NEW m \in Mains(bound'), NEW n \in Mains(bound'),
                          aggregationGroup(m) = aggregationGroup(n)
                   PROVE  m = n
        OBVIOUS
      <4>1. m \in bound' /\ n \in bound'
        BY DEF Mains
      <4>2. CASE m \in new \/ n \in new
        BY <3>3, <4>1, <4>2
      <4>3. CASE m \in bound /\ n \in bound
        BY <3>1, <4>3 DEF MainsApart, Mains
      <4> QED BY <1>1, <4>1, <4>2, <4>3 DEF new
    <3>5. MainsApart(bound)'
      BY <3>4 DEF MainsApart, Mains, aggregationGroup
    <3> QED BY <3>2, <3>5
  <2> QED BY <2>1, <2>3, <2>4, <2>5 DEF Undisputed
<1> QED BY <1>2, <1>4, <1>5, <1>6 DEF AssetsInv

LEMMA BindingsStep ==
  ASSUME AssetsInv, NEW c \in AssetCallers, ReplaceBindingsCommit(c)
  PROVE  AssetsInv'
<1> DEFINE new == calls[c].meters
           others == {b \in bound : b.owner # calls[c].asset}
           accepted == /\ \A m \in new : Exists(m.boundary)
                       /\ \A m \in new, b \in others : m.source # b.source /\ m.id # b.id
<1>1. /\ calls[c].at = "binding" /\ Goes(c, AtRest) /\ UNCHANGED <<parent, asked, overlapped, strayed>>
      /\ bound' = IF accepted THEN others \cup new ELSE bound
  BY DEF ReplaceBindingsCommit
<1> HIDE DEF others
<1>2. CASE accepted
  BY <1>1, <1>2, MetersChange DEF others
<1>3. CASE ~accepted
  <2>1. UNCHANGED tree
    BY <1>1, <1>3 DEF tree
  <2> QED BY <1>1, <2>1, StatementStep, RestFindsNothing
<1> QED BY <1>2, <1>3

LEMMA AssetsNextInv == AssetsInv /\ [AssetsNext]_assetVars => AssetsInv'
<1> SUFFICES ASSUME AssetsInv, [AssetsNext]_assetVars PROVE AssetsInv'
  OBVIOUS
<1>1. ASSUME NEW c \in AssetCallers, AssetRequest(c) PROVE AssetsInv'
  BY <1>1, AssetRequestStep
<1>2. ASSUME NEW c \in AssetCallers, Statement(c) PROVE AssetsInv'
  BY <1>2, AssetBeginsStep, InsertMoveStep, DeleteStep, BindingsStep DEF Statement
<1>3. CASE UNCHANGED assetVars
  <2>1. UNCHANGED <<parent, bound, calls, asked, overlapped, strayed>>
    BY <1>3 DEF assetVars
  <2>2. AssetsTypeOK'
    BY <2>1 DEF AssetsInv, AssetsTypeOK
  <2>3. \A c \in AssetCallers : CallOK(calls[c])' /\ (~overlapped => Found(calls[c])')
    BY <2>1, SameTree DEF AssetsInv, Undisputed
  <2>4. Alone' = Alone
    BY <2>1 DEF Alone
  <2> QED BY <2>1, <2>2, <2>3, <2>4, SameTree DEF AssetsInv, Undisputed
<1> QED BY <1>1, <1>2, <1>3 DEF AssetsNext

LEMMA InvIsAssetsSound == AssetsInv => AssetsSound
<1> SUFFICES ASSUME AssetsInv PROVE AssetsSound
  OBVIOUS
<1>1. TreeKept
  BY DEF TreeKept, AssetsInv, Undisputed, Leaves
<1>2. OneMainMeter
  BY DEF OneMainMeter, AssetsInv, Undisputed, MainsApart
<1> QED BY <1>1, <1>2 DEF AssetsSound, AssetsInv

(* asset/service.go and the tables: nothing refers to what is gone, and     *)
(* only requests that overlap make a cycle of assets, a meter above other   *)
(* assets, or (beside a move) a total with two main meters.                 *)
THEOREM AssetsAreSound == AssetsSpec => []AssetsSound
<1>1. AssetsInit => AssetsInv
  BY AssetsStart
<1>2. AssetsInv /\ [AssetsNext]_assetVars => AssetsInv'
  BY AssetsNextInv
<1>3. AssetsInv => AssetsSound
  BY InvIsAssetsSound
<1> QED BY <1>1, <1>2, <1>3, PTL DEF AssetsSpec

----------------------------------------------------------------------------
(* The history of a data logger (LoggerHistory).                           *)
(*                                                                         *)
(* Accounted is inductive with the types that it holds.  NewestKept rests  *)
(* on what the retention chooses: a batch that overflows the size makes    *)
(* every older one overflow, so the candidates are the oldest batches, of  *)
(* which one transaction takes the oldest; and the newest batch does not   *)
(* overflow, or the limit would be too small for it.  The first of these   *)
(* says that a sum over more batches is no smaller.  MapThenSumSet is a    *)
(* recursive CHOOSE: that such a function exists, and what it computes, is *)
(* shown from the least number of a set.                                   *)

\* A set of numbers has a least one.
LEMMA LeastNumber ==
  ASSUME NEW S \in SUBSET Nat, S # {}
  PROVE  \E m \in S : \A n \in S : m <= n
<1> DEFINE T == {0..n : n \in S}
<1>1. T \subseteq FiniteSubsetsOf(Nat) /\ T # {}
  <2>1. \A n \in S : 0..n \in SUBSET Nat /\ IsFiniteSet(0..n)
    BY FS_Interval
  <2> QED BY <2>1 DEF FiniteSubsetsOf
<1>2. \E X \in T : \A Y \in T : <<Y, X>> \notin StrictSubsetOrdering(Nat)
  BY <1>1, FS_StrictSubsetOrderingWellFounded, WFMin
<1>3. PICK m \in S : \A n \in S : <<0..n, 0..m>> \notin StrictSubsetOrdering(Nat)
  BY <1>2
<1>4. ASSUME NEW n \in S PROVE m <= n
  <2>1. SUFFICES ASSUME n < m PROVE FALSE
    OBVIOUS
  <2>2. 0..n \subseteq 0..m /\ 0..n # 0..m /\ 0..n \in SUBSET Nat /\ 0..m \in SUBSET Nat
    BY <2>1
  <2> QED BY <2>2, <1>3 DEF StrictSubsetOrdering
<1> QED BY <1>4

\* A set with 0 that is closed under the successor has every number.
LEMMA NumbersFrom0 ==
  ASSUME NEW S \in SUBSET Nat, 0 \in S, \A n \in S : n + 1 \in S
  PROVE  S = Nat
<1> SUFFICES ASSUME Nat \ S # {} PROVE FALSE
  OBVIOUS
<1>1. PICK m \in Nat \ S : \A n \in Nat \ S : m <= n
  BY LeastNumber
<1>2. m - 1 \in S
  BY <1>1
<1> QED BY <1>1, <1>2

(* Sums *)

One(s) == CHOOSE x \in s : TRUE
IsSum(f, S, g) ==
    g = [s \in SUBSET S |-> IF s = {} THEN 0 ELSE f[One(s)] + g[s \ {One(s)}]]

\* What a sum takes first is in the set.
LEMMA OneIsIn == ASSUME NEW s, s # {} PROVE One(s) \in s
BY DEF One

\* A set without one of its elements is smaller by one.
LEMMA SmallerSet ==
  ASSUME NEW s, IsFiniteSet(s), NEW x \in s
  PROVE  /\ IsFiniteSet(s \ {x}) /\ Cardinality(s) \in Nat \ {0}
         /\ Cardinality(s \ {x}) = Cardinality(s) - 1 /\ Cardinality(s \ {x}) \in Nat
<1>1. IsFiniteSet(s \ {x}) /\ Cardinality(s \ {x}) = Cardinality(s) - 1
  BY FS_RemoveElement
<1>2. Cardinality(s) \in Nat /\ Cardinality(s \ {x}) \in Nat /\ Cardinality(s) # 0
  BY <1>1, FS_CardinalityType, FS_EmptySet
<1> QED BY <1>1, <1>2

\* Something that is shown of a finite set from the smaller ones holds of all subsets.
LEMMA SubsetInduction ==
  ASSUME NEW S, IsFiniteSet(S), NEW P \in SUBSET SUBSET S, {} \in P,
         \A s \in SUBSET S : s # {} /\ (\A x \in s : s \ {x} \in P) => s \in P
  PROVE  P = SUBSET S
<1> DEFINE T == {n \in Nat : \A s \in SUBSET S : Cardinality(s) = n => s \in P}
<1>1. 0 \in T
  <2>1. \A s \in SUBSET S : Cardinality(s) = 0 => s = {}
    BY FS_Subset, FS_EmptySet
  <2> QED BY <2>1
<1>2. ASSUME NEW n \in T PROVE n + 1 \in T
  <2>1. ASSUME NEW s \in SUBSET S, Cardinality(s) = n + 1 PROVE s \in P
    <3>1. IsFiniteSet(s)
      BY FS_Subset
    <3>2. s # {}
      BY <2>1, <3>1, FS_EmptySet, <1>2
    <3>3. ASSUME NEW x \in s PROVE s \ {x} \in P
      <4>1. Cardinality(s \ {x}) = n
        BY <1>2, <2>1, <3>1, SmallerSet
      <4> QED BY <1>2, <4>1
    <3> QED BY <3>2, <3>3
  <2> QED BY <1>2, <2>1
<1>3. T = Nat
  <2> HIDE DEF T
  <2>1. T \in SUBSET Nat
    BY DEF T
  <2> QED BY <1>1, <1>2, <2>1, NumbersFrom0
<1>4. ASSUME NEW s \in SUBSET S PROVE s \in P
  <2>1. Cardinality(s) \in Nat
    BY FS_Subset, FS_CardinalityType
  <2>2. Cardinality(s) \in T
    BY <1>3, <2>1
  <2> QED BY <2>2
<1> QED BY <1>4

\* There is a sum of every finite set, built up by the size of the set.
LEMMA SumExists ==
  ASSUME NEW f, NEW S, IsFiniteSet(S)
  PROVE  \E g : IsSum(f, S, g)
<1> DEFINE D(n) == {s \in SUBSET S : Cardinality(s) <= n}
           Part(n, g) == g = [s \in D(n) |-> IF s = {} THEN 0 ELSE f[One(s)] + g[s \ {One(s)}]]
           T == {n \in Nat : \E g : Part(n, g)}
<1>1. \A s \in SUBSET S : IsFiniteSet(s) /\ Cardinality(s) \in Nat /\ (s # {} => One(s) \in s)
  BY FS_Subset, FS_CardinalityType, OneIsIn
<1>2. 0 \in T
  <2>1. \A s \in D(0) : s = {}
    BY <1>1, FS_EmptySet
  <2>2. Part(0, [s \in D(0) |-> 0])
    BY <2>1
  <2> QED BY <2>2
<1>3. ASSUME NEW n \in T PROVE n + 1 \in T
  <2>1. PICK g : Part(n, g)
    BY <1>3
  <2> DEFINE h == [s \in D(n + 1) |-> IF s \in D(n) THEN g[s] ELSE f[One(s)] + g[s \ {One(s)}]]
  <2>2. ASSUME NEW s \in D(n + 1)
        PROVE  h[s] = IF s = {} THEN 0 ELSE f[One(s)] + h[s \ {One(s)}]
    <3>1. CASE s = {}
      <4>1. s \in D(n) /\ g[s] = 0
        <5>1. Cardinality(s) = 0
          BY <3>1, FS_EmptySet
        <5>2. s \in D(n)
          BY <5>1, <1>3
        <5> QED BY <2>1, <3>1, <5>2
      <4> QED BY <3>1, <4>1
    <3>2. CASE s # {}
      <4> DEFINE r == s \ {One(s)}
      <4>1. Cardinality(r) = Cardinality(s) - 1 /\ Cardinality(r) \in Nat /\ r \in SUBSET S
        BY <1>1, <3>2, SmallerSet
      <4>2. r \in D(n) /\ r \in D(n + 1)
        BY <1>1, <1>3, <4>1
      <4>3. h[r] = g[r]
        BY <4>2
      <4>4. h[s] = f[One(s)] + g[r]
        <5>1. CASE s \in D(n)
          BY <2>1, <3>2, <5>1
        <5>2. CASE s \notin D(n)
          BY <5>2
        <5> QED BY <5>1, <5>2
      <4> QED BY <3>2, <4>3, <4>4
    <3> QED BY <3>1, <3>2
  <2>3. Part(n + 1, h)
    <3> HIDE DEF D
    <3>1. h = [s \in D(n + 1) |-> h[s]]
      OBVIOUS
    <3> HIDE DEF h
    <3> QED BY <2>2, <3>1
  <2> HIDE DEF h, Part
  <2>4. n + 1 \in Nat /\ \E k : Part(n + 1, k)
    BY <1>3, <2>3
  <2> QED BY <2>4
<1>4. T = Nat
  <2> HIDE DEF T
  <2>1. T \in SUBSET Nat
    BY DEF T
  <2> QED BY <1>2, <1>3, <2>1, NumbersFrom0
<1>5. Cardinality(S) \in T
  BY <1>4, FS_CardinalityType
<1>6. PICK g : Part(Cardinality(S), g)
  BY <1>5
<1>7. D(Cardinality(S)) = SUBSET S
  BY FS_Subset
<1>8. g = [s \in SUBSET S |-> IF s = {} THEN 0 ELSE f[One(s)] + g[s \ {One(s)}]]
  BY <1>6, <1>7
<1> QED BY <1>8 DEF IsSum

\* The size of a set of batches is such a sum.
LEMMA SizeIsSum ==
  ASSUME NEW f, NEW S, IsFiniteSet(S)
  PROVE  \E g : IsSum(f, S, g) /\ SizeOf(f, S) = g[S]
<1> DEFINE g == CHOOSE g : IsSum(f, S, g)
<1>1. IsSum(f, S, g)
  BY SumExists
<1>2. SizeOf(f, S) = g[S]
  BY DEF SizeOf, MapThenSumSet, MapThenFoldSet, IsSum, One
<1> QED BY <1>1, <1>2

\* A sum is what it takes first and the sum of the rest.
LEMMA SumUnfolds ==
  ASSUME NEW f, NEW S, NEW g, IsSum(f, S, g)
  PROVE  /\ g[{}] = 0
         /\ \A s \in SUBSET S : s # {} => One(s) \in s /\ g[s] = f[One(s)] + g[s \ {One(s)}]
<1>1. \A s \in SUBSET S : g[s] = IF s = {} THEN 0 ELSE f[One(s)] + g[s \ {One(s)}]
  BY DEF IsSum
<1> QED BY <1>1, OneIsIn

\* A sum of numbers is a number.
LEMMA SumTyped ==
  ASSUME NEW f, NEW S, NEW g, IsFiniteSet(S), IsSum(f, S, g), \A x \in S : f[x] \in Nat
  PROVE  \A s \in SUBSET S : g[s] \in Nat
<1> DEFINE P == {s \in SUBSET S : g[s] \in Nat}
<1>0. /\ g[{}] = 0
      /\ \A s \in SUBSET S : s # {} => One(s) \in s /\ g[s] = f[One(s)] + g[s \ {One(s)}]
  BY ONLY IsSum(f, S, g), SumUnfolds
<1>1. {} \in P
  BY <1>0
<1>2. \A s \in SUBSET S : s # {} /\ (\A x \in s : s \ {x} \in P) => s \in P
  <2> SUFFICES ASSUME NEW s \in SUBSET S, s # {}, \A x \in s : s \ {x} \in P PROVE s \in P
    OBVIOUS
  <2>1. One(s) \in s /\ g[s] = f[One(s)] + g[s \ {One(s)}]
    BY <1>0
  <2>2. g[s \ {One(s)}] \in Nat /\ f[One(s)] \in Nat
    BY <2>1
  <2> QED BY <2>1, <2>2
<1> HIDE DEF P
<1>3. P = SUBSET S
  <2>1. P \in SUBSET SUBSET S
    BY DEF P
  <2> QED BY <1>1, <1>2, <2>1, SubsetInduction
<1> QED BY <1>3 DEF P

\* It does not matter which element is taken first.
LEMMA SumAdds ==
  ASSUME NEW f, NEW S, NEW g, IsFiniteSet(S), IsSum(f, S, g), \A x \in S : f[x] \in Nat
  PROVE  \A s \in SUBSET S : \A x \in s : g[s] = g[s \ {x}] + f[x]
<1> DEFINE P == {s \in SUBSET S : \A x \in s : g[s] = g[s \ {x}] + f[x]}
<1>0. \A s \in SUBSET S : g[s] \in Nat
  BY SumTyped
<1>9. /\ g[{}] = 0
      /\ \A s \in SUBSET S : s # {} => One(s) \in s /\ g[s] = f[One(s)] + g[s \ {One(s)}]
  BY ONLY IsSum(f, S, g), SumUnfolds
<1>1. {} \in P
  OBVIOUS
<1>2. \A s \in SUBSET S : s # {} /\ (\A x \in s : s \ {x} \in P) => s \in P
  <2> SUFFICES ASSUME NEW s \in SUBSET S, s # {}, \A x \in s : s \ {x} \in P,
                      NEW x \in s
               PROVE  g[s] = g[s \ {x}] + f[x]
    OBVIOUS
  <2> DEFINE y == One(s)
  <2>1. y \in s /\ g[s] = f[y] + g[s \ {y}]
    BY <1>9
  <2> HIDE DEF y
  <2>2. CASE x = y
    BY <1>0, <2>1, <2>2
  <2>3. CASE x # y
    <3>1. g[s \ {y}] = g[(s \ {y}) \ {x}] + f[x]
      BY <2>1, <2>3
    <3>2. g[s \ {x}] = g[(s \ {x}) \ {y}] + f[y]
      BY <2>1, <2>3
    <3>3. (s \ {y}) \ {x} = (s \ {x}) \ {y}
      OBVIOUS
    <3> DEFINE r == (s \ {x}) \ {y}
    <3>4. g[r] \in Nat /\ f[x] \in Nat /\ f[y] \in Nat
      BY <1>0, <2>1
    <3>5. g[s] = f[y] + (g[r] + f[x]) /\ g[s \ {x}] = g[r] + f[y]
      BY <2>1, <3>1, <3>2, <3>3
    <3> HIDE DEF r
    <3> QED BY <3>4, <3>5
  <2> QED BY <2>2, <2>3
<1> HIDE DEF P
<1>3. P = SUBSET S
  <2>1. P \in SUBSET SUBSET S
    BY DEF P
  <2> QED BY <1>1, <1>2, <2>1, SubsetInduction
<1> QED BY <1>3 DEF P

\* The sum of a part is no more than the sum of the whole.
LEMMA SumGrows ==
  ASSUME NEW f, NEW S, NEW g, IsFiniteSet(S), IsSum(f, S, g), \A x \in S : f[x] \in Nat
  PROVE  \A t \in SUBSET S : \A s \in SUBSET t : g[s] <= g[t]
<1> DEFINE P == {t \in SUBSET S : \A s \in SUBSET t : g[s] <= g[t]}
<1>0. \A s \in SUBSET S : g[s] \in Nat
  BY SumTyped
<1>1. {} \in P
  <2>1. g[{}] \in Nat /\ \A s \in SUBSET {} : s = {}
    BY <1>0
  <2> QED BY <2>1
<1>2. \A t \in SUBSET S : t # {} /\ (\A x \in t : t \ {x} \in P) => t \in P
  <2> SUFFICES ASSUME NEW t \in SUBSET S, \A x \in t : t \ {x} \in P, NEW s \in SUBSET t
               PROVE  g[s] <= g[t]
    OBVIOUS
  <2>1. CASE s = t
    BY <1>0, <2>1
  <2>2. CASE s # t
    <3>1. PICK x \in t : x \notin s
      BY <2>2
    <3>2. g[t] = g[t \ {x}] + f[x]
      BY <3>1, SumAdds
    <3>3. g[s] <= g[t \ {x}]
      BY <3>1
    <3>4. g[s] \in Nat /\ g[t \ {x}] \in Nat /\ f[x] \in Nat
      BY <1>0, <3>1
    <3> QED BY <3>2, <3>3, <3>4
  <2> QED BY <2>1, <2>2
<1> HIDE DEF P
<1>3. P = SUBSET S
  <2>1. P \in SUBSET SUBSET S
    BY DEF P
  <2> QED BY <1>1, <1>2, <2>1, SubsetInduction
<1> QED BY <1>3 DEF P

\* Two sums over sets that share a part agree on it.
LEMMA SumsAgree ==
  ASSUME NEW f, NEW S, NEW T \in SUBSET S, NEW g, NEW h, IsFiniteSet(S),
         IsSum(f, S, g), IsSum(f, T, h)
  PROVE  \A s \in SUBSET T : g[s] = h[s]
<1> DEFINE P == {s \in SUBSET T : g[s] = h[s]}
<1>8. /\ g[{}] = 0
      /\ \A s \in SUBSET S : s # {} => One(s) \in s /\ g[s] = f[One(s)] + g[s \ {One(s)}]
  BY ONLY IsSum(f, S, g), SumUnfolds
<1>9. /\ h[{}] = 0
      /\ \A s \in SUBSET T : s # {} => One(s) \in s /\ h[s] = f[One(s)] + h[s \ {One(s)}]
  BY ONLY IsSum(f, T, h), SumUnfolds
<1>1. {} \in P
  BY <1>8, <1>9
<1>2. \A s \in SUBSET T : s # {} /\ (\A x \in s : s \ {x} \in P) => s \in P
  <2> SUFFICES ASSUME NEW s \in SUBSET T, s # {}, \A x \in s : s \ {x} \in P PROVE s \in P
    OBVIOUS
  <2>1. One(s) \in s /\ g[s] = f[One(s)] + g[s \ {One(s)}]
    BY <1>8
  <2>2. h[s] = f[One(s)] + h[s \ {One(s)}]
    BY <1>9
  <2> QED BY <2>1, <2>2
<1> HIDE DEF P
<1>3. P = SUBSET T
  <2>1. P \in SUBSET SUBSET T /\ IsFiniteSet(T)
    BY FS_Subset DEF P
  <2> QED BY <1>1, <1>2, <2>1, SubsetInduction
<1> QED BY <1>3 DEF P

\* The size of some batches is no more than that of more batches.
LEMMA SizeGrows ==
  ASSUME NEW f, NEW T, IsFiniteSet(T), \A x \in T : f[x] \in Nat, NEW S \in SUBSET T
  PROVE  SizeOf(f, S) \in Nat /\ SizeOf(f, T) \in Nat /\ SizeOf(f, S) <= SizeOf(f, T)
<1>1. IsFiniteSet(S)
  BY FS_Subset
<1>2. PICK g : IsSum(f, T, g) /\ SizeOf(f, T) = g[T]
  BY SizeIsSum
<1>3. PICK h : IsSum(f, S, h) /\ SizeOf(f, S) = h[S]
  BY <1>1, SizeIsSum
<1>4. g[S] = h[S]
  BY <1>2, <1>3, SumsAgree
<1>5. g[S] <= g[T] /\ g[S] \in Nat /\ g[T] \in Nat
  BY <1>2, SumGrows, SumTyped
<1> QED BY <1>2, <1>3, <1>4, <1>5

\* The size of one batch is what it is accounted as.
LEMMA SizeOfOne ==
  ASSUME NEW f, NEW x, f[x] \in Nat
  PROVE  SizeOf(f, {x}) = f[x]
<1>1. IsFiniteSet({x})
  BY FS_Singleton
<1>2. PICK g : IsSum(f, {x}, g) /\ SizeOf(f, {x}) = g[{x}]
  BY <1>1, SizeIsSum
<1>3. One({x}) = x
  BY OneIsIn
<1>4. g[{x}] = f[x] + g[{x} \ {x}] /\ g[{}] = 0
  <2>1. g[{}] = 0 /\ \A s \in SUBSET {x} : s # {} => g[s] = f[One(s)] + g[s \ {One(s)}]
    BY ONLY <1>2, SumUnfolds
  <2> QED BY <1>3, <2>1
<1>5. {x} \ {x} = {}
  OBVIOUS
<1> QED BY <1>2, <1>4, <1>5

(* Retention *)

\* Every set of batches is finite.
LEMMA TimesAreFinite == ASSUME NEW S \in SUBSET Times PROVE IsFiniteSet(S)
<1>1. IsFiniteSet(1 .. MaxTime)
  <2>1. MaxTime \in Int /\ 1 \in Int
    BY HistoryAssumption DEF HistoryAssumption
  <2> QED BY <2>1, FS_Interval
<1> QED BY <1>1, FS_Subset DEF Times

\* Some batches have a newest one.
LEMMA NewestOf ==
  ASSUME NEW S \in SUBSET Times, S # {}
  PROVE  Max(S) \in S /\ \A n \in S : n <= Max(S)
<1> DEFINE T == {MaxTime - n : n \in S}
<1>1. MaxTime \in Nat /\ \A n \in S : n \in Nat /\ n <= MaxTime /\ MaxTime - n \in Nat
  BY HistoryAssumption DEF Times, HistoryAssumption
<1>2. PICK m \in T : \A n \in T : m <= n
  <2>1. T \in SUBSET Nat /\ T # {}
    BY <1>1
  <2> QED BY <2>1, LeastNumber
<1>3. PICK x \in S : m = MaxTime - x
  BY <1>2
<1>4. ASSUME NEW n \in S PROVE n <= x
  <2>1. MaxTime - x <= MaxTime - n
    BY <1>2, <1>3
  <2> HIDE DEF T
  <2>2. x \in Nat /\ n \in Nat /\ MaxTime \in Nat
    BY <1>1
  <2> QED BY <2>1, <2>2
<1>5. \E y \in S : \A n \in S : y >= n
  BY <1>1, <1>3, <1>4
<1>6. Max(S) \in S /\ \A n \in S : Max(S) >= n
  BY <1>5 DEF Max
<1> QED BY <1>1, <1>6

\* An account as retention reads it.
Account(acc) == DOMAIN acc \subseteq Times /\ \A a \in DOMAIN acc : acc[a] \in Nat

\* What is older than a candidate of the retention is one too.
LEMMA CandidatesAreOldest ==
  ASSUME NEW policy \in Policies, NEW acc, Account(acc), NEW at \in Nat,
         NEW g \in Candidates(policy, acc, at), NEW k \in DOMAIN acc, k <= g
  PROVE  k \in Candidates(policy, acc, at)
<1> DEFINE expired == Expired(policy, acc, at)
           kept == DOMAIN acc \ expired
           above(a) == {b \in kept : b >= a}
<1>1. g \in DOMAIN acc /\ k \in Nat /\ g \in Nat /\ \A b \in kept : b \in Nat
  BY DEF Candidates, Expired, Account, Times
<1>2. policy.age # NoLimit => policy.age \in Nat
  BY HistoryAssumption DEF HistoryAssumption
<1>3. CASE k \in expired
  BY <1>3 DEF Candidates
<1>4. CASE k \notin expired
  <2>1. g \notin expired
    BY <1>1, <1>2, <1>4 DEF Expired
  <2>2. policy.size # NoLimit /\ SizeOf(acc, above(g)) > policy.size
    BY <2>1 DEF Candidates
  <2>3. policy.size \in Nat
    BY <2>2, HistoryAssumption DEF HistoryAssumption
  <2>4. above(g) \in SUBSET above(k) /\ above(k) \in SUBSET Times
    BY <1>1 DEF Account
  <2>5. \A a \in above(k) : acc[a] \in Nat
    BY DEF Account
  <2> HIDE DEF above
  <2>6. /\ SizeOf(acc, above(g)) \in Nat /\ SizeOf(acc, above(k)) \in Nat
        /\ SizeOf(acc, above(g)) <= SizeOf(acc, above(k))
    BY <2>4, <2>5, SizeGrows, TimesAreFinite
  <2>7. SizeOf(acc, above(k)) > policy.size
    BY <2>2, <2>3, <2>6
  <2> QED BY <1>4, <2>2, <2>7 DEF Candidates, above
<1> QED BY <1>3, <1>4

\* What is older than one of the oldest n is one of them.
LEMMA OldestIsOldest ==
  ASSUME NEW S \in SUBSET Times, NEW n \in Nat, NEW g \in Oldest(S, n), NEW k \in S, k <= g
  PROVE  k \in Oldest(S, n)
<1>1. \A b \in S : b \in Nat
  BY DEF Times
<1> DEFINE upTo(a) == {b \in S : b <= a}
<1>2. upTo(k) \in SUBSET upTo(g) /\ upTo(g) \in SUBSET Times
  BY <1>1 DEF Oldest
<1> HIDE DEF upTo
<1>3. Cardinality(upTo(k)) <= Cardinality(upTo(g)) /\ IsFiniteSet(upTo(g)) /\ IsFiniteSet(upTo(k))
  BY <1>2, TimesAreFinite, FS_Subset
<1>4. Cardinality(upTo(k)) \in Nat /\ Cardinality(upTo(g)) \in Nat
  BY <1>3, FS_CardinalityType
<1>5. Cardinality(upTo(g)) <= n
  BY DEF Oldest, upTo
<1>6. Cardinality(upTo(k)) <= n
  BY <1>3, <1>4, <1>5
<1> QED BY <1>6 DEF Oldest, upTo

\* The newest batch of all is only a candidate when it has expired.
LEMMA NewestExpires ==
  ASSUME NEW policy \in Policies, NEW acc, Account(acc), NEW at \in Nat,
         ~LimitTooSmall(policy, acc, at), NEW m \in Candidates(policy, acc, at),
         \A k \in DOMAIN acc : k <= m
  PROVE  m \in Expired(policy, acc, at)
<1> SUFFICES ASSUME m \notin Expired(policy, acc, at) PROVE FALSE
  OBVIOUS
<1> DEFINE kept == DOMAIN acc \ Expired(policy, acc, at)
<1>1. /\ m \in kept /\ policy.size # NoLimit
      /\ SizeOf(acc, {b \in kept : b >= m}) > policy.size
  BY DEF Candidates
<1>2. kept \in SUBSET Times /\ acc[m] \in Nat /\ \A b \in kept : b \in Nat
  BY <1>1 DEF Account, Times
<1>3. {b \in kept : b >= m} = {m}
  BY <1>1, <1>2
<1>4. acc[m] > policy.size
  BY <1>1, <1>2, <1>3, SizeOfOne
<1>5. Max(kept) = m
  <2> HIDE DEF kept
  <2>1. Max(kept) \in kept /\ m <= Max(kept)
    BY <1>1, <1>2, NewestOf
  <2>2. Max(kept) <= m
    BY <2>1 DEF kept
  <2> QED BY <1>1, <1>2, <2>1, <2>2
<1> QED BY <1>1, <1>4, <1>5 DEF LimitTooSmall

\* What is removed is older than what is left; everything goes only by its age.
LEMMA RetentionKeeps ==
  ASSUME NEW policy \in Policies, NEW acc, Account(acc), NEW at \in Nat, NEW n \in Nat,
         ~LimitTooSmall(policy, acc, at),
         NEW S, S = Oldest(Candidates(policy, acc, at), n)
  PROVE  /\ S \subseteq DOMAIN acc
         /\ \A g \in S, k \in DOMAIN acc \ S : g < k
         /\ DOMAIN acc \subseteq S =>
               \A g \in S : policy.age # NoLimit /\ g < at - policy.age
<1> DEFINE C == Candidates(policy, acc, at)
<1>1. C \in SUBSET Times /\ C \subseteq DOMAIN acc /\ S \subseteq C
  BY DEF Candidates, Expired, Account, Oldest
<1>2. \A x \in DOMAIN acc : x \in Nat
  BY DEF Account, Times
<1>3. ASSUME NEW g \in S, NEW k \in DOMAIN acc \ S PROVE g < k
  <2> SUFFICES ASSUME k <= g PROVE FALSE
    BY <1>1, <1>2
  <2>1. k \in C
    BY <1>1, CandidatesAreOldest
  <2> HIDE DEF C
  <2>2. k \in Oldest(C, n)
    BY <1>1, <2>1, OldestIsOldest DEF C
  <2> QED BY <2>2 DEF C
<1>4. ASSUME DOMAIN acc \subseteq S, NEW g \in S PROVE policy.age # NoLimit /\ g < at - policy.age
  <2> DEFINE m == Max(DOMAIN acc)
  <2>1. m \in DOMAIN acc /\ \A k \in DOMAIN acc : k <= m
    BY <1>1, <1>4, NewestOf DEF Account
  <2> HIDE DEF m
  <2>2. m \in Expired(policy, acc, at)
    BY <1>1, <1>4, <2>1, NewestExpires
  <2>3. policy.age # NoLimit /\ m < at - policy.age
    BY <2>2 DEF Expired
  <2>4. policy.age \in Nat /\ g <= m /\ g \in Nat /\ m \in Nat
    BY <1>1, <1>2, <2>1, <2>3, HistoryAssumption DEF HistoryAssumption
  <2> QED BY <2>3, <2>4
<1> QED BY <1>1, <1>3, <1>4
(* The accounting *)

At(rs, a) == {r \in rs : r[2] = a}

\* What Accounted says, of any rows and accounts.
Covers(rs, acc, exact) ==
    /\ rs \subseteq Tags \X Times /\ Account(acc)
    /\ \A r \in rs : r[2] \in DOMAIN acc
    /\ \A a \in DOMAIN acc : /\ acc[a] >= Cardinality(At(rs, a))
                             /\ exact => acc[a] = Cardinality(At(rs, a))

\* Accounted in these terms.
LEMMA AccountedMeans ==
  /\ Accounted => HistoryTypeOK /\ Covers(rows, accounts, tags = Tags)
  /\ HistoryTypeOK /\ Covers(rows, accounts, tags = Tags) => Accounted
<1>1. HistoryTypeOK => tags \subseteq Tags /\ rows \subseteq Tags \X Times /\ Account(accounts)
  BY DEF HistoryTypeOK, Account
<1>2. \A a : At(rows, a) = RowsAt(a)
  BY DEF At, RowsAt
<1>3. ({r[2] : r \in rows} \subseteq DOMAIN accounts) <=> \A r \in rows : r[2] \in DOMAIN accounts
  OBVIOUS
<1> QED BY <1>1, <1>2, <1>3 DEF Accounted, Covers

\* There are finitely many rows, so their number is one.
LEMMA RowsAreFinite ==
  ASSUME NEW rs, rs \subseteq Tags \X Times, NEW a
  PROVE  IsFiniteSet(rs) /\ IsFiniteSet(At(rs, a)) /\ Cardinality(At(rs, a)) \in Nat
<1>1. IsFiniteSet(Tags) /\ IsFiniteSet(Times)
  BY HistoryAssumption, TimesAreFinite DEF HistoryAssumption
<1>2. IsFiniteSet(Tags \X Times)
  BY <1>1, FS_Product
<1>3. IsFiniteSet(rs) /\ At(rs, a) \subseteq rs
  BY <1>2, FS_Subset DEF At
<1> QED BY <1>3, FS_Subset, FS_CardinalityType

\* Batches go with their rows and their accounting.
LEMMA DeletingKeeps ==
  ASSUME NEW rs, NEW acc, NEW exact, Covers(rs, acc, exact), NEW S, NEW rs2, NEW acc2,
         rs2 = {r \in rs : r[2] \notin S}, acc2 = Restrict(acc, DOMAIN acc \ S)
  PROVE  rs2 \subseteq rs /\ DOMAIN acc2 = DOMAIN acc \ S /\ Covers(rs2, acc2, exact)
<1>1. DOMAIN acc2 = DOMAIN acc \ S /\ \A a \in DOMAIN acc2 : acc2[a] = acc[a]
  BY DEF Restrict
<1>2. \A a \in DOMAIN acc2 : At(rs2, a) = At(rs, a)
  BY <1>1 DEF At
<1>3. Account(acc2)
  BY <1>1 DEF Covers, Account
<1>4. rs2 \subseteq Tags \X Times /\ \A r \in rs2 : r[2] \in DOMAIN acc2
  BY <1>1 DEF Covers
<1> QED BY <1>1, <1>2, <1>3, <1>4 DEF Covers

\* Rows go and the accounting stays: it is no longer exact.
LEMMA FewerRows ==
  ASSUME NEW rs, NEW acc, NEW exact, Covers(rs, acc, exact), NEW rs2 \in SUBSET rs
  PROVE  Covers(rs2, acc, FALSE)
<1>1. rs2 \subseteq Tags \X Times /\ rs \subseteq Tags \X Times
  BY DEF Covers
<1>2. ASSUME NEW a \in DOMAIN acc PROVE acc[a] >= Cardinality(At(rs2, a))
  <2>1. At(rs2, a) \subseteq At(rs, a)
    BY DEF At
  <2>2. /\ Cardinality(At(rs2, a)) \in Nat /\ Cardinality(At(rs, a)) \in Nat
        /\ IsFiniteSet(At(rs, a))
    BY <1>1, RowsAreFinite
  <2>3. Cardinality(At(rs2, a)) <= Cardinality(At(rs, a))
    BY <2>1, <2>2, FS_Subset
  <2>4. acc[a] >= Cardinality(At(rs, a)) /\ acc[a] \in Nat
    BY DEF Covers, Account
  <2> QED BY <2>2, <2>3, <2>4
<1> QED BY <1>1, <1>2 DEF Covers

\* A batch is written: its rows, and what they are counted as.
LEMMA WritingKeeps ==
  ASSUME NEW exact, Covers(rows, accounts, exact), NEW rs, rs \subseteq Tags \X Times,
         rows \subseteq rs, \A r \in rs \ rows : r[2] = job.at, job.at \in Times
  PROVE  /\ Covers(rs, refreshBatchStorage(rs), exact)
         /\ DOMAIN refreshBatchStorage(rs) = DOMAIN accounts \cup {job.at}
<1> DEFINE acc == refreshBatchStorage(rs)
           n == Cardinality(At(rs, job.at))
<1>1. n \in Nat
  BY RowsAreFinite
<1>2. At(rs, job.at) = {r \in rs : r[2] = job.at}
  BY DEF At
<1>3. /\ DOMAIN acc = DOMAIN accounts \cup {job.at} /\ acc[job.at] = n
      /\ \A a \in DOMAIN accounts \ {job.at} : acc[a] = accounts[a]
  BY <1>2 DEF refreshBatchStorage
<1> HIDE DEF acc
<1>4. \A a \in DOMAIN accounts \ {job.at} : At(rs, a) = At(rows, a)
  BY DEF At
<1>5. Account(acc)
  BY <1>1, <1>3 DEF Covers, Account
<1>6. \A r \in rs : r[2] \in DOMAIN acc
  BY <1>3 DEF Covers
<1>7. \A a \in DOMAIN acc : /\ acc[a] >= Cardinality(At(rs, a))
                            /\ exact => acc[a] = Cardinality(At(rs, a))
  <2>1. acc[job.at] >= Cardinality(At(rs, job.at)) /\ acc[job.at] = Cardinality(At(rs, job.at))
    BY <1>1, <1>3
  <2>2. ASSUME NEW a \in DOMAIN accounts \ {job.at}
        PROVE  acc[a] >= Cardinality(At(rs, a)) /\ (exact => acc[a] = Cardinality(At(rs, a)))
    BY <1>3, <1>4 DEF Covers
  <2> QED BY <1>3, <2>1, <2>2
<1>8. Covers(rs, acc, exact)
  BY <1>5, <1>6, <1>7 DEF Covers
<1> QED BY <1>3, <1>8 DEF acc

(* The steps *)

\* What NewestKept says of the batches D that a step leaves.
OldestGo(D) ==
    \A g \in DOMAIN accounts \ D :
       /\ \A k \in D : g < k
       /\ g = Max(DOMAIN accounts \cup D) =>
             logger.policy.age # NoLimit /\ g < now - logger.policy.age

\* The retention of one transaction removes the oldest.
LEMMA RemovingOldest ==
  ASSUME HistoryTypeOK, NEW acc, Account(acc), DOMAIN accounts \subseteq DOMAIN acc,
         NEW at \in 0 .. now, NEW n \in Nat, ~LimitTooSmall(logger.policy, acc, at)
  PROVE  OldestGo(DOMAIN acc \ Oldest(Candidates(logger.policy, acc, at), n))
<1> DEFINE S == Oldest(Candidates(logger.policy, acc, at), n)
           D == DOMAIN acc \ S
<1>1. logger.policy \in Policies /\ now \in Nat /\ at \in Nat
  BY DEF HistoryTypeOK, Times
<1>2. /\ S \subseteq DOMAIN acc
      /\ \A g \in S, k \in DOMAIN acc \ S : g < k
      /\ DOMAIN acc \subseteq S =>
            \A g \in S : logger.policy.age # NoLimit /\ g < at - logger.policy.age
  <2> DEFINE p == logger.policy
  <2>1. p \in Policies /\ ~LimitTooSmall(p, acc, at)
    BY <1>1
  <2>2. S = Oldest(Candidates(p, acc, at), n)
    OBVIOUS
  <2> HIDE DEF p, S
  <2>3. /\ S \subseteq DOMAIN acc
        /\ \A g \in S, k \in DOMAIN acc \ S : g < k
        /\ DOMAIN acc \subseteq S => \A g \in S : p.age # NoLimit /\ g < at - p.age
    BY <1>1, <2>1, <2>2, RetentionKeeps
  <2> QED BY <2>3 DEF p
<1>3. \A x \in DOMAIN acc : x \in Nat
  BY DEF Account, Times
<1> HIDE DEF S
<1>4. ASSUME NEW g \in DOMAIN accounts \ D, g = Max(DOMAIN accounts \cup D)
      PROVE  logger.policy.age # NoLimit /\ g < now - logger.policy.age
  <2>1. DOMAIN accounts \cup D \in SUBSET Times
    BY DEF Account
  <2>2. \A k \in D : k <= g
    BY <1>4, <2>1, NewestOf
  <2>3. D = {}
    BY <1>2, <1>3, <2>2
  <2>4. logger.policy.age # NoLimit /\ g < at - logger.policy.age
    BY <1>2, <2>3
  <2>5. logger.policy.age \in Nat /\ g \in Nat
    BY <1>1, <1>3, <2>4, HistoryAssumption DEF HistoryAssumption
  <2> QED BY <1>1, <2>4, <2>5
<1> QED BY <1>2, <1>4 DEF OldestGo, S

\* NewestKept in these terms.
LEMMA KeptMeans ==
  ASSUME OldestGo(DOMAIN accounts') \/ ~logger'.exists PROVE NewestKept
BY DEF OldestGo, NewestKept

\* A step that leaves the rows and the accounts alone.
LEMMA OthersKeep ==
  ASSUME Accounted, HistoryTypeOK', UNCHANGED <<tags, rows, accounts>>
  PROVE  Accounted' /\ NewestKept
<1>1. Accounted'
  BY DEF Accounted, RowsAt
<1>2. OldestGo(DOMAIN accounts')
  BY DEF OldestGo
<1> QED BY <1>1, <1>2, KeptMeans

\* The history begins empty and accounted.
LEMMA BeginsAccounted == ASSUME HistoryInit PROVE Accounted
<1>1. /\ now \in Times /\ 0 \in 0 .. now /\ 1 \in 1 .. now + 1
      /\ 0 \in 0 .. MaxUpdates /\ 0 \in 0 .. MaxCrashes
  BY HistoryAssumption DEF HistoryInit, HistoryAssumption, Times
<1>2. NoRequest \in Updates /\ NoRequest.step = "idle"
  BY DEF NoRequest, Updates
<1>3. /\ DOMAIN accounts = {} /\ accounts \in [DOMAIN accounts -> Nat]
      /\ Len(sub.queue) = 0 /\ sub \in [open : BOOLEAN, lagged : BOOLEAN, queue : Seq(Times)]
  BY DEF HistoryInit
<1>4. logger \in [exists : BOOLEAN, policy : Policies, selected : SUBSET tags]
  BY DEF HistoryInit
<1>5. HistoryTypeOK
  BY <1>1, <1>2, <1>3, <1>4, HistoryAssumption DEF HistoryInit, HistoryTypeOK, HistoryAssumption
<1>6. Covers(rows, accounts, tags = Tags)
  BY <1>3 DEF HistoryInit, Covers, Account
<1> QED BY <1>5, <1>6, AccountedMeans

\* A request that goes on to a next step stays typed.
LEMMA RequestsTyped ==
  ASSUME HistoryTypeOK, NEW c \in Clients, NEW u \in Updates,
         u.step # "idle" => u.policy \in Policies,
         request' = [request EXCEPT ![c] = u]
  PROVE  /\ request' \in [Clients -> Updates]
         /\ \A d \in Clients : request'[d].step # "idle" => request'[d].policy \in Policies
<1>1. request \in [Clients -> Updates]
  BY DEF HistoryTypeOK
<1>2. \A d \in Clients : request'[d] = IF d = c THEN u ELSE request[d]
  BY <1>1
<1>3. request' \in [Clients -> Updates]
  BY <1>1
<1> QED BY <1>2, <1>3 DEF HistoryTypeOK

\* The capture of a batch leaves the job waiting for the next one.
LEMMA JobGoesOn ==
  ASSUME HistoryTypeOK, job.phase \in {"capturing", "publishing"}, UNCHANGED now
  PROVE  /\ job.at \in Times /\ job.at <= now /\ captureDone.phase = "waiting"
         /\ captureDone \in [phase : {"off", "waiting", "capturing", "publishing"},
                             at : 1 .. now + 1, tags : SUBSET Tags]
         /\ [job EXCEPT !.phase = "publishing"]
                 \in [phase : {"off", "waiting", "capturing", "publishing"},
                      at : 1 .. now + 1, tags : SUBSET Tags]
<1>1. /\ job.at \in 1 .. now + 1 /\ job.at <= now /\ now \in 1 .. MaxTime /\ MaxTime \in Nat
      /\ job.tags \in SUBSET Tags
      /\ job \in [phase : {"off", "waiting", "capturing", "publishing"},
                 at : 1 .. now + 1, tags : SUBSET Tags]
  BY HistoryAssumption DEF HistoryTypeOK, Times, HistoryAssumption
<1>2. job.at \in Times /\ job.at + 1 \in 1 .. now + 1
  BY <1>1 DEF Times
<1>3. captureDone = [job EXCEPT !.phase = "waiting", !.at = job.at + 1]
  BY DEF captureDone
<1>4. /\ captureDone.phase = "waiting"
      /\ captureDone \in [phase : {"off", "waiting", "capturing", "publishing"},
                          at : 1 .. now + 1, tags : SUBSET Tags]
  BY <1>1, <1>2, <1>3
<1>5. [job EXCEPT !.phase = "publishing"]
         \in [phase : {"off", "waiting", "capturing", "publishing"},
              at : 1 .. now + 1, tags : SUBSET Tags]
  BY <1>1
<1> QED BY <1>1, <1>2, <1>4, <1>5

\* The job, whose transaction also applies the retention.
LEMMA CaptureKeeps ==
  ASSUME Accounted, Capturing PROVE Accounted' /\ NewestKept
<1>0. HistoryTypeOK /\ Covers(rows, accounts, tags = Tags) /\ now \in Nat
  BY AccountedMeans DEF HistoryTypeOK, Times
<1>1. CASE Wake
  <2>1. /\ job' = [job EXCEPT !.phase = "capturing", !.at = now]
        /\ UNCHANGED <<now, tags, logger, rows, accounts, cleaner, request, updates, crashes, sub>>
    BY <1>1 DEF Wake
  <2>2. job \in [phase : {"off", "waiting", "capturing", "publishing"},
                at : 1 .. now + 1, tags : SUBSET Tags] /\ now \in 1 .. now + 1
    BY <1>0 DEF HistoryTypeOK, Times
  <2>3. /\ job' \in [phase : {"off", "waiting", "capturing", "publishing"},
                     at : 1 .. now + 1, tags : SUBSET Tags]
        /\ job'.at <= now
    <3>1. [job EXCEPT !.phase = "capturing", !.at = now].at = now
      BY <2>2
    <3>2. [job EXCEPT !.phase = "capturing", !.at = now]
             \in [phase : {"off", "waiting", "capturing", "publishing"},
                  at : 1 .. now + 1, tags : SUBSET Tags]
      BY ONLY <2>2
    <3> QED BY <1>0, <2>1, <3>1, <3>2
  <2>4. HistoryTypeOK'
    BY <1>0, <2>1, <2>3 DEF HistoryTypeOK
  <2> QED BY <1>1, <2>4, OthersKeep DEF Wake
<1>2. CASE WriteBatchFails
  <2>1. HistoryTypeOK'
    BY <1>0, <1>2, JobGoesOn DEF WriteBatchFails, HistoryTypeOK
  <2> QED BY <1>2, <2>1, OthersKeep DEF WriteBatchFails
<1>3. CASE PublishCommittedBatch
  <2>1. job.at \in Times
    BY <1>0, <1>3, JobGoesOn DEF PublishCommittedBatch
  <2>2. /\ sub' \in [open : BOOLEAN, lagged : BOOLEAN, queue : Seq(Times)]
        /\ Len(sub'.queue) <= Buffer
    <3>1. /\ sub \in [open : BOOLEAN, lagged : BOOLEAN, queue : Seq(Times)]
          /\ Len(sub.queue) <= Buffer /\ Buffer \in Nat
      BY <1>0, HistoryAssumption DEF HistoryTypeOK, HistoryAssumption
    <3>2. CASE sub' = sub
      BY <3>1, <3>2
    <3>3. CASE Len(sub.queue) < Buffer /\ sub' = [sub EXCEPT !.queue = Append(@, job.at)]
      <4>1. /\ Append(sub.queue, job.at) \in Seq(Times)
            /\ Len(Append(sub.queue, job.at)) = Len(sub.queue) + 1 /\ Len(sub.queue) \in Nat
        BY <2>1, <3>1
      <4> QED BY <3>1, <3>3, <4>1
    <3>4. CASE sub' = [closeSubscription(sub) EXCEPT !.lagged = TRUE]
      BY <3>1, <3>4 DEF closeSubscription
    <3> QED BY <1>3, <3>2, <3>3, <3>4 DEF PublishCommittedBatch
  <2>3. HistoryTypeOK'
    BY <1>0, <1>3, <2>2, JobGoesOn DEF PublishCommittedBatch, HistoryTypeOK
  <2> QED BY <1>3, <2>3, OthersKeep DEF PublishCommittedBatch
<1>4. CASE WriteBatch
  <2> DEFINE rs == rows \cup insertRawBatch
             acc == refreshBatchStorage(rs)
             S == Oldest(Candidates(logger.policy, acc, now), WriteLimit)
  <2>1. /\ job.at \in Times /\ rs \subseteq tags \X Times /\ tags \subseteq Tags
        /\ \A r \in rs \ rows : r[2] = job.at
    <3>1. job.at \in Times
      BY <1>0, <1>4, JobGoesOn DEF WriteBatch
    <3>2. job.tags \subseteq tags /\ rows \subseteq tags \X Times /\ tags \subseteq Tags
      BY <1>0, <1>4 DEF WriteBatch, validateSelectedRawTags, HistoryTypeOK
    <3> QED BY <3>1, <3>2 DEF insertRawBatch
  <2>2. /\ Covers(rs, acc, tags = Tags) /\ DOMAIN acc = DOMAIN accounts \cup {job.at}
    <3> DEFINE exact == tags = Tags
    <3>1. Covers(rows, accounts, exact) /\ rs \subseteq Tags \X Times /\ rows \subseteq rs
      BY <1>0, <2>1
    <3> HIDE DEF exact, rs
    <3>2. Covers(rs, acc, exact) /\ DOMAIN acc = DOMAIN accounts \cup {job.at}
      BY <2>1, <3>1, WritingKeeps
    <3> QED BY <3>2 DEF exact
  <2>3. /\ ~LimitTooSmall(logger.policy, acc, now)
        /\ rows' = {r \in rs : r[2] \notin S} /\ accounts' = Restrict(acc, DOMAIN acc \ S)
    BY <1>4 DEF WriteBatch, enforceRetention, deleteRetentionBatches
  <2> HIDE DEF rs, acc, S
  <2>4. /\ rows' \subseteq rs /\ DOMAIN accounts' = DOMAIN acc \ S
        /\ Covers(rows', accounts', tags = Tags)
    <3> DEFINE exact == tags = Tags
    <3>1. Covers(rs, acc, exact)
      BY <2>2
    <3> HIDE DEF exact
    <3>2. /\ rows' \subseteq rs /\ DOMAIN accounts' = DOMAIN acc \ S
          /\ Covers(rows', accounts', exact)
      BY <2>3, <3>1, DeletingKeeps
    <3> QED BY <3>2 DEF exact
  <2>5. OldestGo(DOMAIN acc \ S)
    <3>1. WriteLimit \in Nat /\ now \in 0 .. now
      BY <1>0, HistoryAssumption DEF HistoryAssumption
    <3>2. Account(acc) /\ DOMAIN accounts \subseteq DOMAIN acc
      BY <2>2 DEF Covers
    <3> QED BY <1>0, <2>3, <3>1, <3>2, RemovingOldest DEF S
  <2>6. HistoryTypeOK'
    <3>1. rows' \subseteq tags \X Times /\ Account(accounts')
      BY <2>1, <2>4 DEF Covers
    <3>2. DOMAIN accounts' \subseteq Times /\ accounts' \in [DOMAIN accounts' -> Nat]
      <4>1. accounts' = [a \in DOMAIN acc \ S |-> acc[a]]
        BY <2>3 DEF Restrict
      <4> QED BY <3>1, <4>1 DEF Account
    <3>3. /\ UNCHANGED <<now, tags, logger, cleaner, request, updates, crashes, sub>>
          /\ job' = captureDone \/ job' = [job EXCEPT !.phase = "publishing"]
          /\ job.phase = "capturing"
      BY <1>4 DEF WriteBatch
    <3>4. /\ job' \in [phase : {"off", "waiting", "capturing", "publishing"},
                       at : 1 .. now + 1, tags : SUBSET Tags]
          /\ job'.phase \in {"capturing", "publishing"} => job'.at <= now
      BY <1>0, <3>3, JobGoesOn DEF HistoryTypeOK
    <3> QED BY <1>0, <3>1, <3>2, <3>3, <3>4 DEF HistoryTypeOK
  <2>7. Covers(rows, accounts, tags = Tags)'
    BY <1>4, <2>4 DEF WriteBatch
  <2>8. Accounted'
    BY <2>6, <2>7, AccountedMeans, PTL
  <2> QED BY <2>4, <2>5, <2>8, KeptMeans
<1> QED BY <1>1, <1>2, <1>3, <1>4 DEF Capturing

\* Retention with a limit, on the history as it is.
LEMMA RetentionStep ==
  ASSUME Accounted, NEW at \in 0 .. now, NEW n \in Nat,
         ~LimitTooSmall(logger.policy, accounts, at),
         deleteRetentionBatches(rows, accounts,
            Oldest(Candidates(logger.policy, accounts, at), n))
  PROVE  /\ rows' \subseteq rows /\ DOMAIN accounts' \subseteq Times
         /\ accounts' \in [DOMAIN accounts' -> Nat]
         /\ Covers(rows', accounts', tags = Tags) /\ OldestGo(DOMAIN accounts')
<1> DEFINE S == Oldest(Candidates(logger.policy, accounts, at), n)
<1>1. HistoryTypeOK /\ Covers(rows, accounts, tags = Tags)
  BY AccountedMeans
<1>2. OldestGo(DOMAIN accounts \ S)
  BY <1>1, RemovingOldest DEF Covers
<1>3. rows' = {r \in rows : r[2] \notin S} /\ accounts' = Restrict(accounts, DOMAIN accounts \ S)
  BY DEF deleteRetentionBatches
<1> HIDE DEF S
<1>4. /\ rows' \subseteq rows /\ DOMAIN accounts' = DOMAIN accounts \ S
      /\ Covers(rows', accounts', tags = Tags)
  <2> DEFINE exact == tags = Tags
  <2>1. Covers(rows, accounts, exact)
    BY <1>1
  <2> HIDE DEF exact
  <2>2. /\ rows' \subseteq rows /\ DOMAIN accounts' = DOMAIN accounts \ S
        /\ Covers(rows', accounts', exact)
    <3> DEFINE rs == rows
               acc == accounts
    <3>1. /\ rows' = {r \in rs : r[2] \notin S} /\ accounts' = Restrict(acc, DOMAIN acc \ S)
          /\ Covers(rs, acc, exact)
      BY <1>3, <2>1
    <3> HIDE DEF rs, acc
    <3>2. /\ rows' \subseteq rs /\ DOMAIN accounts' = DOMAIN acc \ S
          /\ Covers(rows', accounts', exact)
      BY ONLY <3>1, DeletingKeeps
    <3> QED BY <3>2 DEF rs, acc
  <2> QED BY <2>2 DEF exact
<1>5. DOMAIN accounts' \subseteq Times /\ accounts' \in [DOMAIN accounts' -> Nat]
  <2>1. accounts' = [a \in DOMAIN accounts \ S |-> accounts[a]]
    BY <1>3 DEF Restrict
  <2> QED BY <1>4, <2>1 DEF Covers, Account
<1> QED BY <1>2, <1>4, <1>5

\* An update, at each of its steps.
LEMMA UpdatingKeeps ==
  ASSUME Accounted, NEW c \in Clients, Updating(c) PROVE Accounted' /\ NewestKept
<1>0. /\ HistoryTypeOK /\ Covers(rows, accounts, tags = Tags) /\ now \in Nat
      /\ request[c] \in Updates
      /\ request[c].step # "idle" => request[c].policy \in Policies
  BY AccountedMeans DEF HistoryTypeOK, Times
<1>1. NoRequest \in Updates /\ NoRequest.step = "idle"
  BY DEF NoRequest, Updates
<1>2. CASE UpdateFind(c)
  <2>1. PICK p \in Policies, s \in {logger.selected, tags} \ {{}} :
           request' = [request EXCEPT ![c] = [step |-> "found", policy |-> p, selected |-> s]]
    BY <1>2 DEF UpdateFind
  <2>2. [step |-> "found", policy |-> p, selected |-> s] \in Updates
    BY <1>0 DEF HistoryTypeOK, Updates
  <2>3. /\ request' \in [Clients -> Updates]
        /\ \A d \in Clients : request'[d].step # "idle" => request'[d].policy \in Policies
    BY <1>0, <2>1, <2>2, RequestsTyped
  <2>4. updates' \in 0 .. MaxUpdates
    BY <1>0, <1>2, HistoryAssumption DEF UpdateFind, HistoryTypeOK, HistoryAssumption
  <2>5. HistoryTypeOK'
    BY <1>0, <1>2, <2>3, <2>4 DEF UpdateFind, HistoryTypeOK
  <2> QED BY <1>2, <2>5, OthersKeep DEF UpdateFind
<1>3. CASE UpdateValidate(c)
  <2> DEFINE u == IF ValidateStorageLimit(request[c].policy.size)
                  THEN [request[c] EXCEPT !.step = "validated"] ELSE NoRequest
  <2>1. u \in Updates /\ (u.step # "idle" => u.policy \in Policies)
    <3>1. [request[c] EXCEPT !.step = "validated"] \in Updates
      BY <1>0 DEF Updates
    <3>2. [request[c] EXCEPT !.step = "validated"].policy = request[c].policy
      BY <1>0 DEF Updates
    <3> QED BY <1>0, <1>1, <1>3, <3>1, <3>2 DEF UpdateValidate
  <2>2. request' = [request EXCEPT ![c] = u]
    BY <1>3 DEF UpdateValidate
  <2> HIDE DEF u
  <2>3. /\ request' \in [Clients -> Updates]
        /\ \A d \in Clients : request'[d].step # "idle" => request'[d].policy \in Policies
    BY <1>0, <2>1, <2>2, RequestsTyped
  <2>4. HistoryTypeOK'
    BY <1>0, <1>3, <2>3 DEF UpdateValidate, HistoryTypeOK
  <2> QED BY <1>3, <2>4, OthersKeep DEF UpdateValidate
<1>4. CASE UpdateCommit(c)
  <2> DEFINE kept == logger.exists /\ request[c].selected \subseteq tags
             u == IF kept THEN [request[c] EXCEPT !.step = "committed"] ELSE NoRequest
  <2>1. u \in Updates /\ (u.step # "idle" => u.policy \in Policies)
    <3>1. /\ [request[c] EXCEPT !.step = "committed"] \in Updates
          /\ [request[c] EXCEPT !.step = "committed"].policy = request[c].policy
      BY <1>0 DEF Updates
    <3> QED BY <1>0, <1>1, <1>4, <3>1 DEF UpdateCommit
  <2>2. request' = [request EXCEPT ![c] = u]
    BY <1>4 DEF UpdateCommit
  <2>3. logger' \in [exists : BOOLEAN, policy : Policies, selected : SUBSET tags]
    <3>1. logger \in [exists : BOOLEAN, policy : Policies, selected : SUBSET tags]
      BY <1>0 DEF HistoryTypeOK
    <3>2. CASE kept
      <4>1. logger' = [logger EXCEPT !.policy = request[c].policy,
                                     !.selected = request[c].selected]
        BY <1>4, <3>2 DEF UpdateCommit
      <4>2. request[c].policy \in Policies
        BY <1>0, <1>4 DEF UpdateCommit
      <4> QED BY <3>1, <3>2, <4>1, <4>2
    <3>3. CASE ~kept
      BY <1>4, <3>1, <3>3 DEF UpdateCommit
    <3> QED BY <3>2, <3>3
  <2> HIDE DEF u
  <2>4. /\ request' \in [Clients -> Updates]
        /\ \A d \in Clients : request'[d].step # "idle" => request'[d].policy \in Policies
    BY <1>0, <2>1, <2>2, RequestsTyped
  <2>5. HistoryTypeOK'
    BY <1>0, <1>4, <2>3, <2>4 DEF UpdateCommit, HistoryTypeOK
  <2> QED BY <1>4, <2>5, OthersKeep DEF UpdateCommit
<1>5. CASE UpdateEnforce(c)
  <2>1. request' = [request EXCEPT ![c] = NoRequest]
    BY <1>5 DEF UpdateEnforce
  <2>2. /\ request' \in [Clients -> Updates]
        /\ \A d \in Clients : request'[d].step # "idle" => request'[d].policy \in Policies
    BY <1>0, <1>1, <2>1, RequestsTyped
  <2>3. CASE UNCHANGED <<rows, accounts>>
    <3>1. HistoryTypeOK'
      BY <1>0, <1>5, <2>2, <2>3 DEF UpdateEnforce, HistoryTypeOK
    <3> QED BY <1>5, <2>3, <3>1, OthersKeep DEF UpdateEnforce
  <2>4. CASE enforceRetention(rows, accounts)
    <3>1. /\ now \in 0 .. now /\ WriteLimit \in Nat
          /\ ~LimitTooSmall(logger.policy, accounts, now)
          /\ deleteRetentionBatches(rows, accounts,
                Oldest(Candidates(logger.policy, accounts, now), WriteLimit))
      BY <1>0, <2>4, HistoryAssumption DEF enforceRetention, HistoryAssumption
    <3>2. /\ rows' \subseteq rows /\ DOMAIN accounts' \subseteq Times
          /\ accounts' \in [DOMAIN accounts' -> Nat]
          /\ Covers(rows', accounts', tags = Tags) /\ OldestGo(DOMAIN accounts')
      BY <3>1, RetentionStep
    <3>3. HistoryTypeOK'
      BY <1>0, <1>5, <2>2, <3>2 DEF UpdateEnforce, HistoryTypeOK
    <3>4. Covers(rows, accounts, tags = Tags)'
      BY <1>5, <3>2 DEF UpdateEnforce
    <3>5. Accounted'
      BY <3>3, <3>4, AccountedMeans, PTL
    <3> QED BY <3>2, <3>5, KeptMeans
  <2> QED BY <1>5, <2>3, <2>4 DEF UpdateEnforce, EnforceRetention
<1> QED BY <1>2, <1>3, <1>4, <1>5 DEF Updating

\* The logger goes with its history, or a tag with its rows.
LEMMA DeletingHistoryKeeps ==
  ASSUME Accounted, Delete \/ \E t \in Tags : DeleteTag(t) PROVE Accounted' /\ NewestKept
<1>0. /\ HistoryTypeOK /\ Covers(rows, accounts, tags = Tags)
      /\ logger \in [exists : BOOLEAN, policy : Policies, selected : SUBSET tags]
  BY AccountedMeans DEF HistoryTypeOK
<1>1. CASE Delete
  <2>1. /\ logger' \in [exists : BOOLEAN, policy : Policies, selected : SUBSET tags]
        /\ ~logger'.exists
    BY <1>0, <1>1 DEF Delete
  <2>2. /\ DOMAIN accounts' = {} /\ accounts' \in [DOMAIN accounts' -> Nat] /\ rows' = {}
    BY <1>1 DEF Delete
  <2>3. HistoryTypeOK'
    BY <1>0, <1>1, <2>1, <2>2 DEF Delete, HistoryTypeOK
  <2>4. Covers(rows, accounts, tags = Tags)'
    BY <2>2 DEF Covers, Account
  <2>5. Accounted'
    BY <2>3, <2>4, AccountedMeans, PTL
  <2> QED BY <2>1, <2>5, KeptMeans
<1>2. ASSUME NEW t \in Tags, DeleteTag(t) PROVE Accounted' /\ NewestKept
  <2>1. /\ t \in tags /\ tags' = tags \ {t} /\ rows' = {r \in rows : r[1] # t}
        /\ logger' = [logger EXCEPT !.selected = logger.selected \ {t}]
        /\ UNCHANGED <<now, accounts, job, cleaner, request, updates, crashes, sub>>
    BY <1>2 DEF DeleteTag
  <2>2. logger' \in [exists : BOOLEAN, policy : Policies, selected : SUBSET tags']
    BY <1>0, <2>1
  <2>3. rows' \subseteq tags' \X Times /\ rows' \in SUBSET rows
    BY <1>0, <2>1 DEF HistoryTypeOK
  <2>4. HistoryTypeOK'
    BY <1>0, <2>1, <2>2, <2>3 DEF HistoryTypeOK
  <2>5. Covers(rows', accounts, FALSE)
    <3> DEFINE exact == tags = Tags
               rs == rows
    <3>1. Covers(rs, accounts, exact) /\ rows' \in SUBSET rs
      BY <1>0, <2>3
    <3> HIDE DEF exact, rs
    <3> QED BY ONLY <3>1, FewerRows
  <2>6. tags' # Tags
    BY <2>1
  <2>7. Covers(rows, accounts, tags = Tags)'
    BY <2>1, <2>5, <2>6 DEF Covers
  <2>8. Accounted'
    BY <2>4, <2>7, AccountedMeans, PTL
  <2>9. OldestGo(DOMAIN accounts')
    BY <2>1 DEF OldestGo
  <2> QED BY <2>8, <2>9, KeptMeans
<1> QED BY <1>1, <1>2

\* The retention runtime, which judges by the time it read before.
LEMMA CleaningKeeps ==
  ASSUME Accounted, ListRetention \/ CleanupRetention PROVE Accounted' /\ NewestKept
<1>0. /\ HistoryTypeOK /\ Covers(rows, accounts, tags = Tags) /\ now \in Nat
      /\ cleaner \in [step : {"idle", "listed"}, at : 0 .. now]
  BY AccountedMeans DEF HistoryTypeOK, Times
<1>1. CASE ListRetention
  <2>1. cleaner' \in [step : {"idle", "listed"}, at : 0 .. now]
    <3>1. cleaner' = [cleaner EXCEPT !.step = "listed", !.at = now] /\ now \in 0 .. now
      BY <1>0, <1>1 DEF ListRetention
    <3> QED BY <1>0, <3>1
  <2>2. HistoryTypeOK'
    BY <1>0, <1>1, <2>1 DEF ListRetention, HistoryTypeOK
  <2> QED BY <1>1, <2>2, OthersKeep DEF ListRetention
<1>2. CASE CleanupRetention
  <2>1. cleaner' \in [step : {"idle", "listed"}, at : 0 .. now]
    <3>1. cleaner' = [cleaner EXCEPT !.step = "idle"]
      BY <1>2 DEF CleanupRetention
    <3> QED BY <1>0, <3>1
  <2>2. CASE UNCHANGED <<rows, accounts>>
    <3>1. HistoryTypeOK'
      BY <1>0, <1>2, <2>1, <2>2 DEF CleanupRetention, HistoryTypeOK
    <3> QED BY <1>2, <2>2, <3>1, OthersKeep DEF CleanupRetention
  <2>3. CASE /\ ~LimitTooSmall(logger.policy, accounts, cleaner.at)
             /\ deleteRetentionBatches(rows, accounts,
                   Oldest(Candidates(logger.policy, accounts, cleaner.at), BatchLimit))
    <3>1. cleaner.at \in 0 .. now /\ BatchLimit \in Nat
      BY <1>0, HistoryAssumption DEF HistoryAssumption
    <3>2. /\ rows' \subseteq rows /\ DOMAIN accounts' \subseteq Times
          /\ accounts' \in [DOMAIN accounts' -> Nat]
          /\ Covers(rows', accounts', tags = Tags) /\ OldestGo(DOMAIN accounts')
      BY <2>3, <3>1, RetentionStep
    <3>3. HistoryTypeOK'
      BY <1>0, <1>2, <2>1, <3>2 DEF CleanupRetention, HistoryTypeOK
    <3>4. Covers(rows, accounts, tags = Tags)'
      BY <1>2, <3>2 DEF CleanupRetention
    <3>5. Accounted'
      BY <3>3, <3>4, AccountedMeans, PTL
    <3> QED BY <3>2, <3>5, KeptMeans
  <2> QED BY <1>2, <2>2, <2>3 DEF CleanupRetention
<1> QED BY <1>1, <1>2

\* Every step.
LEMMA HistoryStep ==
  ASSUME Accounted, [HistoryNext]_historyVars PROVE Accounted' /\ NewestKept
<1>0. /\ HistoryTypeOK /\ now \in 1 .. MaxTime /\ MaxTime \in Nat
      /\ logger \in [exists : BOOLEAN, policy : Policies, selected : SUBSET tags]
      /\ tags \subseteq Tags /\ cleaner \in [step : {"idle", "listed"}, at : 0 .. now]
      /\ job \in [phase : {"off", "waiting", "capturing", "publishing"},
                  at : 1 .. now + 1, tags : SUBSET Tags]
      /\ job.phase \in {"capturing", "publishing"} => job.at <= now
  BY AccountedMeans, HistoryAssumption DEF HistoryTypeOK, Times, HistoryAssumption
<1>1. CASE Reconcile
  <2>1. /\ job' = [job EXCEPT !.phase = IF logger.selected = {} THEN "off" ELSE "waiting",
                              !.at = now, !.tags = logger.selected]
        /\ UNCHANGED <<now, tags, logger, rows, accounts, cleaner, request, updates,
                       crashes, sub>>
    BY <1>1 DEF Reconcile
  <2>2. now \in 1 .. now + 1 /\ logger.selected \subseteq Tags
    BY <1>0
  <2>3. /\ job' \in [phase : {"off", "waiting", "capturing", "publishing"},
                     at : 1 .. now + 1, tags : SUBSET Tags]
        /\ job'.phase \notin {"capturing", "publishing"}
    BY <1>0, <2>1, <2>2
  <2>4. HistoryTypeOK'
    BY <1>0, <2>1, <2>3 DEF HistoryTypeOK
  <2> QED BY <2>1, <2>4, OthersKeep
<1>2. CASE Tick
  <2>1. now' \in 1 .. MaxTime /\ now' = now + 1
    BY <1>0, <1>2 DEF Tick
  <2>2. /\ job.at \in 1 .. now' + 1 /\ cleaner.at \in 0 .. now'
        /\ job.phase \in {"capturing", "publishing"} => job.at <= now'
    BY <1>0, <2>1
  <2>3. /\ job \in [phase : {"off", "waiting", "capturing", "publishing"},
                    at : 1 .. now' + 1, tags : SUBSET Tags]
        /\ cleaner \in [step : {"idle", "listed"}, at : 0 .. now']
    BY <1>0, <2>2
  <2>4. HistoryTypeOK'
    BY <1>0, <1>2, <2>1, <2>2, <2>3 DEF Tick, HistoryTypeOK, Times
  <2> QED BY <1>2, <2>4, OthersKeep DEF Tick
<1>3. CASE Receive
  <2>1. /\ sub \in [open : BOOLEAN, lagged : BOOLEAN, queue : Seq(Times)] /\ sub.queue # <<>>
        /\ Len(sub.queue) <= Buffer /\ Buffer \in Nat
        /\ sub' = [sub EXCEPT !.queue = Tail(sub.queue)]
    BY <1>0, <1>3, HistoryAssumption DEF Receive, HistoryTypeOK, HistoryAssumption
  <2>2. /\ Tail(sub.queue) \in Seq(Times) /\ Len(Tail(sub.queue)) = Len(sub.queue) - 1
        /\ Len(sub.queue) \in Nat
    BY <2>1
  <2>3. /\ sub' \in [open : BOOLEAN, lagged : BOOLEAN, queue : Seq(Times)]
        /\ Len(sub'.queue) <= Buffer
    <3> DEFINE q == Tail(sub.queue)
    <3>1. /\ sub' = [sub EXCEPT !.queue = q] /\ q \in Seq(Times)
          /\ Len(q) = Len(sub.queue) - 1
      BY <2>1, <2>2
    <3> HIDE DEF q
    <3>2. sub'.queue = q /\ sub' \in [open : BOOLEAN, lagged : BOOLEAN, queue : Seq(Times)]
      BY <2>1, <3>1
    <3> QED BY <2>1, <2>2, <3>1, <3>2
  <2>4. HistoryTypeOK'
    BY <1>0, <1>3, <2>3 DEF Receive, history, HistoryTypeOK
  <2> QED BY <1>3, <2>4, OthersKeep DEF Receive, history
<1>4. CASE Crash
  <2>1. /\ job' = [phase |-> IF logger.selected = {} THEN "off" ELSE "waiting",
                   at |-> now, tags |-> logger.selected]
        /\ cleaner' = [cleaner EXCEPT !.step = "idle"]
        /\ request' = [c \in Clients |-> NoRequest]
        /\ crashes < MaxCrashes /\ crashes' = crashes + 1
        /\ UNCHANGED <<now, tags, logger, rows, accounts, updates>>
        /\ sub' = [sub EXCEPT !.queue = <<>>]
    BY <1>4 DEF Crash, CrashHistory
  <2>2. now \in 1 .. now + 1 /\ logger.selected \subseteq Tags
    BY <1>0
  <2>3. /\ job' \in [phase : {"off", "waiting", "capturing", "publishing"},
                     at : 1 .. now + 1, tags : SUBSET Tags]
        /\ job'.phase \notin {"capturing", "publishing"}
    BY <2>1, <2>2
  <2>4. cleaner' \in [step : {"idle", "listed"}, at : 0 .. now]
    BY <1>0, <2>1
  <2>5. /\ request' \in [Clients -> Updates]
        /\ \A d \in Clients : request'[d].step = "idle"
    BY <2>1 DEF NoRequest, Updates
  <2>6. crashes' \in 0 .. MaxCrashes
    BY <1>0, <2>1, HistoryAssumption DEF HistoryTypeOK, HistoryAssumption
  <2>7. /\ sub' \in [open : BOOLEAN, lagged : BOOLEAN, queue : Seq(Times)]
        /\ Len(sub'.queue) <= Buffer
    <3> DEFINE q == <<>>
    <3>1. q \in Seq(Times) /\ Len(q) = 0 /\ Buffer \in Nat
      BY HistoryAssumption DEF HistoryAssumption
    <3>2. /\ sub \in [open : BOOLEAN, lagged : BOOLEAN, queue : Seq(Times)]
          /\ sub' = [sub EXCEPT !.queue = q]
      BY <1>0, <2>1 DEF HistoryTypeOK
    <3> HIDE DEF q
    <3>3. sub'.queue = q /\ sub' \in [open : BOOLEAN, lagged : BOOLEAN, queue : Seq(Times)]
      BY <3>1, <3>2
    <3> QED BY <3>1, <3>3
  <2>8. HistoryTypeOK'
    BY <1>0, <2>1, <2>3, <2>4, <2>5, <2>6, <2>7 DEF HistoryTypeOK
  <2> QED BY <2>1, <2>8, OthersKeep
<1>5. CASE UNCHANGED historyVars
  <2>1. HistoryTypeOK'
    BY <1>0, <1>5 DEF HistoryTypeOK, historyVars, history
  <2> QED BY <1>5, <2>1, OthersKeep DEF historyVars, history
<1> QED
  BY <1>1, <1>2, <1>3, <1>4, <1>5, CaptureKeeps, UpdatingKeeps, DeletingHistoryKeeps,
     CleaningKeeps DEF HistoryNext

(* The accounting that the retention decides on covers the rows, exactly as *)
(* long as no tag is deleted; and what a write, an update or a cleanup      *)
(* removes is older than everything it leaves, the newest batch of all only *)
(* when it is past its age: for every policy, batch size and interleaving.  *)
THEOREM HistoryIsKept == HistorySpec => HistoryKept
<1>1. HistoryInit => Accounted
  BY BeginsAccounted
<1>2. Accounted /\ [HistoryNext]_historyVars => Accounted' /\ NewestKept
  BY HistoryStep
<1>3. HistoryInit /\ [][HistoryNext]_historyVars => []Accounted
  BY <1>1, <1>2, PTL
<1>4. []Accounted /\ [][HistoryNext]_historyVars => [][NewestKept]_historyVars
  BY <1>2, PTL
<1> QED BY <1>3, <1>4, PTL DEF HistorySpec, HistoryKept
=============================================================================
