------------------------------- MODULE Assets -------------------------------
(***************************************************************************)
(* The asset hierarchy and the meters bound to its leaves.                 *)
(*                                                                         *)
(* asset/service.go, hierarchy.go, aggregation.go, semantic.go,            *)
(* postgres/repository.go and migration 000019.                            *)
(*                                                                         *)
(* A request reads what it needs and checks it, then runs one statement or *)
(* transaction.  The triggers of that statement look at the committed rows *)
(* and the commit follows later, so two transactions may each miss what    *)
(* the other writes: of an asset only its own row is locked.  Sites have   *)
(* no parent and every other asset has one; names, order, time zones,      *)
(* metadata and the switch of an asset do not matter to the tree and are   *)
(* left out, and with them the Update request.                             *)
(***************************************************************************)
EXTENDS Integers, FiniteSets, SequencesExt

CONSTANTS
    Assets,       \* ids of assets
    Site,         \* the site, the root of the hierarchy
    Planted,      \* the parents of the assets that exist at the start
    MeasurementSources,      \* tags and plugin outputs
    Units,        \* units of measurement
    Canonical,    \* the canonical unit of a unit
    UnitOf,       \* the unit of a source, "" when any fits
    Offers,       \* the sets of bindings that a request may submit
    AssetCallers,      \* API asked that may run at the same time
    NoAsset,        \* an asset that is not in the database
    MaxDepth,     \* MaxHierarchyDepth (16)
    MaxAsked   \* bound of all asked

VARIABLES
    parent,     \* assets.parent_id: NoAsset without a row; the site is its own
    bound,      \* measurement_bindings with measurement_binding_inputs
    calls,      \* the request of each caller
    asked,   \* asked made so far
    overlapped, \* two asked ran at the same time
    strayed     \* an asset was moved away from the boundary of its meters

assetVars == <<parent, bound, calls, asked, overlapped, strayed>>

AtRest == [at |-> "idle", asset |-> NoAsset, under |-> NoAsset, meters |-> {}]
Meter == [id : STRING, source : MeasurementSources, boundary : Assets, unit : Units,
          role : {"direct", "main", "submeter", "virtual"},
          policy : {"include", "exclude"}, inputs : SUBSET STRING]

(* What is saved: a meter with the asset that owns it.                      *)
Binding == [owner : Assets, id : STRING, source : MeasurementSources,
            boundary : Assets, unit : Units,
            role : {"direct", "main", "submeter", "virtual"},
            policy : {"include", "exclude"}, inputs : SUBSET STRING]
Places == {"idle", "insert", "inserting", "move", "moving", "delete", "bind", "binding"}
Call == [at : Places, asset : Assets \cup {NoAsset}, under : Assets \cup {NoAsset},
         meters : SUBSET Binding]

(* No assets are each other's ancestors: in every set of assets is one with *)
(* a parent outside of it.                                                  *)
NoCycle(up) == \A S \in SUBSET (Assets \ {Site}) : S # {} => \E a \in S : up[a] \notin S

ASSUME AssetsAssumption ==
    /\ Site \in Assets /\ NoAsset \notin Assets
    /\ Planted \in [Assets -> Assets \cup {NoAsset}] /\ Planted[Site] = Site
    /\ \A a \in Assets : Planted[a] # NoAsset => Planted[Planted[a]] # NoAsset
    /\ NoCycle(Planted)
    /\ \A offer \in Offers : offer \subseteq Meter
    /\ Canonical \in [Units -> Units] /\ DOMAIN UnitOf = MeasurementSources
    /\ MaxDepth \in Nat \ {0} /\ MaxAsked \in Nat

AssetsTypeOK ==
    /\ parent \in [Assets -> Assets \cup {NoAsset}]
    /\ bound \subseteq Binding
    /\ calls \in [AssetCallers -> Call]
    /\ asked \in 0 .. MaxAsked
    /\ overlapped \in BOOLEAN /\ strayed \in BOOLEAN

AssetsInit ==
    /\ parent = Planted
    /\ bound = {}
    /\ calls = [c \in AssetCallers |-> AtRest]
    /\ asked = 0
    /\ overlapped = FALSE /\ strayed = FALSE

Exists(a) == parent[a] # NoAsset
Children(a) == {b \in Assets \ {Site} : parent[b] = a}

(* The rows above a row, found by following parent_id: every set that has    *)
(* the parent of the row, and the parents of its members, has them.          *)
Parents(S) == {parent[b] : b \in S \ {Site}} \cap Assets
Ancestors(a) ==
    {b \in Assets : \A S \in SUBSET Assets : Parents({a} \cup S) \subseteq S => b \in S}

(* The recursive queries use UNION ALL: on a cycle they do not end *)
Ends(a) == \A b \in Ancestors(a) \cup {a} : b \notin Ancestors(b)

Subtree(a) == {a} \cup {b \in Assets : Exists(b) /\ a \in Ancestors(b)}

(* The depth and the cycle that a new parent would bring *)
ValidateAncestry(a, p) ==
    /\ Cardinality(Ancestors(p)) + 2 <= MaxDepth
    /\ a \notin Ancestors(p) \cup {p}

(***************************************************************************)
(* Which meters make up a total.                                           *)
(***************************************************************************)
aggregationGroup(m) == <<m.boundary, Canonical[m.unit]>>

ValidRole(m) == (m.role = "virtual") <=> (m.inputs # {})

virtualDependencyCycle(ms) ==
    \E loop \in SUBSET ms \ {{}} :
        \A m \in loop : \E n \in loop : n.id \in m.inputs

(* The meters counted before a virtual one replaces its inputs: a main    *)
(* meter alone counts for its group                                       *)
Mains(ms) == {m \in ms : m.role = "main" /\ m.policy = "include"}
CountedByMains(ms) ==
    {m \in ms : /\ m.policy = "include"
                /\ \A n \in Mains(ms) :
                       aggregationGroup(n) = aggregationGroup(m) => n = m}

(* One virtual meter of the last loop, which goes through a Go map *)
Substitute(ms, plan, m) ==
    LET inputs == {n \in ms : n.id \in m.inputs}
    IN  IF ~plan.ok \/ m \notin plan.counted THEN plan
        ELSE [ok |-> /\ Cardinality(inputs) = Cardinality(m.inputs)
                     /\ \A n \in inputs :
                            aggregationGroup(n) = aggregationGroup(m),
              counted |-> plan.counted \ inputs]

(* The results that the orders of the map give *)
BuildRollupPlan(ms) ==
    LET virtual == {m \in ms : m.role = "virtual"}
        start == [ok |-> TRUE, counted |-> CountedByMains(ms)]
    IN  IF \/ \E m, n \in ms : m # n /\ (m.id = n.id \/ m.source = n.source)
           \/ \E m \in ms : ~ValidRole(m)
           \/ virtualDependencyCycle(ms)
           \/ \E m, n \in Mains(ms) :
                  m # n /\ aggregationGroup(m) = aggregationGroup(n)
        THEN {[ok |-> FALSE, counted |-> {}]}
        ELSE {FoldLeft(LAMBDA p, m : Substitute(ms, p, m), start, order)
                : order \in SetToSeqs(virtual)}

Owned(a, offer) ==
    {[owner |-> a, id |-> m.id, source |-> m.source, boundary |-> m.boundary,
      unit |-> m.unit, role |-> m.role, policy |-> m.policy,
      inputs |-> m.inputs] : m \in offer}

(* Faulty variant: the total is checked without the meters of other assets *)
OwnCandidates(a, new, boundary) == {m \in new : m.boundary = boundary}

(* The meters that share a total with the new ones *)
HierarchyCandidates(a, new, boundary) ==
    {m \in new \cup {b \in bound : b.owner \in Subtree(boundary) \ {a}} :
        m.boundary = boundary}

(* validateHierarchyRollups for one order of each map *)
HierarchyRollups(a, new) ==
    \A boundary \in {m.boundary : m \in new} :
        LET ms == HierarchyCandidates(a, new, boundary)
        IN  /\ Ends(boundary)
            /\ \A m \in ms : Children(m.owner) = {}
            /\ \E plan \in BuildRollupPlan(ms) : plan.ok

HierarchyRollupsMayFail(a, new) ==
    \E boundary \in {m.boundary : m \in new} :
        LET ms == HierarchyCandidates(a, new, boundary)
        IN  \/ ~Ends(boundary)
            \/ \E m \in ms : Children(m.owner) # {}
            \/ \E plan \in BuildRollupPlan(ms) : ~plan.ok

validateSourceCompatibility(m) == UnitOf[m.source] \in {"", m.unit}

SubmittedBindings(a, new) ==
    /\ Children(a) = {} /\ Ends(a)
    /\ \A m \in new : /\ m.boundary \in Ancestors(a) \cup {a}
                      /\ validateSourceCompatibility(m)
                      /\ m.inputs \subseteq {n.id : n \in new}
    /\ \E plan \in BuildRollupPlan(new) : plan.ok

(***************************************************************************)
(* The asked.  The first step of each reads and checks.                 *)
(***************************************************************************)
BeginRequest(c) ==
    /\ calls[c] = AtRest /\ asked < MaxAsked
    /\ asked' = asked + 1
    /\ overlapped' = (overlapped \/ \E d \in AssetCallers : calls[d] # AtRest)
    /\ UNCHANGED <<parent, bound, strayed>>

Goes(c, call) == calls' = [calls EXCEPT ![c] = call]

CreateCheck(c, a, p) ==
    /\ a # Site /\ parent[a] = NoAsset /\ Exists(p) \* a site has no parent
    /\ \A d \in AssetCallers : \* a new id: no request knows it
           /\ a \notin {calls[d].asset, calls[d].under}
           /\ \A m \in calls[d].meters : m.boundary # a
    /\ BeginRequest(c)
    /\ Goes(c, IF Ends(p) /\ ValidateAncestry(a, p)
               THEN [AtRest EXCEPT !.at = "insert", !.asset = a, !.under = p]
               ELSE AtRest)

MoveCheck(c, a, p) ==
    /\ Exists(a) /\ a # Site /\ Exists(p)
    /\ BeginRequest(c)
    /\ Goes(c, IF Ends(p) /\ ValidateAncestry(a, p)
               THEN [AtRest EXCEPT !.at = "move", !.asset = a, !.under = p]
               ELSE AtRest)

DeleteCheck(c, a) ==
    /\ Exists(a)
    /\ BeginRequest(c)
    /\ Goes(c, IF Children(a) = {} /\ \A b \in bound : b.owner # a
               THEN [AtRest EXCEPT !.at = "delete", !.asset = a] ELSE AtRest)

BindingsCheck(c, a, offer) ==
    /\ Exists(a)
    /\ BeginRequest(c)
    /\ LET new == Owned(a, offer)
       IN  \/ /\ SubmittedBindings(a, new) /\ HierarchyRollups(a, new)
              /\ Goes(c, [AtRest EXCEPT !.at = "bind", !.asset = a,
                                      !.meters = new])
           \/ /\ ~SubmittedBindings(a, new) \/ HierarchyRollupsMayFail(a, new)
              /\ Goes(c, AtRest)

(***************************************************************************)
(* The statements.  A row that a transaction changes is its own until the  *)
(* commit; only the owner of bindings is locked against new children too.  *)
(***************************************************************************)
Holds(d, a) == calls[d].at \in {"moving", "binding"} /\ calls[d].asset = a
Free(c, a) == \A d \in AssetCallers \ {c} : ~Holds(d, a)
MayRefer(c, a) == \A d \in AssetCallers \ {c} : ~(Holds(d, a) /\ calls[d].at = "binding")

(* validate_asset_hierarchy *)
HierarchyTrigger(a, p) ==
    /\ Exists(p) /\ Ends(p) /\ \A b \in bound : b.owner # p
    /\ ValidateAncestry(a, p)

(* validate_measurement_binding *)
BindingTrigger(m) ==
    /\ Children(m.owner) = {}
    /\ m.boundary \in Ancestors(m.owner) \cup {m.owner}

tree == <<parent, bound, asked, overlapped, strayed>>

Insert(c) ==
    /\ calls[c].at = "insert"
    /\ IF HierarchyTrigger(calls[c].asset, calls[c].under)
       THEN Goes(c, [calls[c] EXCEPT !.at = "inserting"]) ELSE Goes(c, AtRest)
    /\ UNCHANGED tree

InsertCommit(c) ==
    /\ calls[c].at = "inserting" /\ MayRefer(c, calls[c].under)
    /\ parent' = IF Exists(calls[c].under)
                 THEN [parent EXCEPT ![calls[c].asset] = calls[c].under]
                 ELSE parent
    /\ Goes(c, AtRest)
    /\ UNCHANGED <<bound, asked, overlapped, strayed>>

Move(c) ==
    /\ calls[c].at = "move" /\ Free(c, calls[c].asset)
    /\ IF Exists(calls[c].asset) /\ HierarchyTrigger(calls[c].asset, calls[c].under)
       THEN Goes(c, [calls[c] EXCEPT !.at = "moving"]) ELSE Goes(c, AtRest)
    /\ UNCHANGED tree

Strays(a) == \E b \in bound : b.owner \in Subtree(a) /\ b.boundary \notin Subtree(a)

MoveCommit(c) ==
    /\ calls[c].at = "moving" /\ MayRefer(c, calls[c].under)
    /\ LET moved == Exists(calls[c].under)
       IN  /\ parent' = IF moved THEN [parent EXCEPT ![calls[c].asset] = calls[c].under]
                        ELSE parent
           /\ strayed' = (strayed \/ (moved /\ Strays(calls[c].asset)))
    /\ Goes(c, AtRest)
    /\ UNCHANGED <<bound, asked, overlapped>>

(* The foreign keys restrict the deletion of a row that others refer to *)
DeleteAsset(c) ==
    /\ calls[c].at = "delete" /\ Free(c, calls[c].asset)
    /\ parent' = IF /\ Children(calls[c].asset) = {}
                    /\ \A b \in bound : calls[c].asset \notin {b.owner, b.boundary}
                 THEN [parent EXCEPT ![calls[c].asset] = NoAsset] ELSE parent
    /\ Goes(c, AtRest)
    /\ UNCHANGED <<bound, asked, overlapped, strayed>>

ReplaceBindings(c) ==
    /\ calls[c].at = "bind" /\ Free(c, calls[c].asset)
    /\ IF Exists(calls[c].asset) /\ \A m \in calls[c].meters : BindingTrigger(m)
       THEN Goes(c, [calls[c] EXCEPT !.at = "binding"]) ELSE Goes(c, AtRest)
    /\ UNCHANGED tree

(* The unique indexes wait for other transactions and then refuse *)
ReplaceBindingsCommit(c) ==
    LET new == calls[c].meters
        others == {b \in bound : b.owner # calls[c].asset}
    IN  /\ calls[c].at = "binding"
        /\ \A m \in new : MayRefer(c, m.boundary)
        /\ bound' = IF /\ \A m \in new : Exists(m.boundary)
                       /\ \A m \in new, b \in others :
                              m.source # b.source /\ m.id # b.id
                    THEN others \cup new ELSE bound
        /\ Goes(c, AtRest)
        /\ UNCHANGED <<parent, asked, overlapped, strayed>>

AssetRequest(c) ==
    \/ \E a, p \in Assets : CreateCheck(c, a, p) \/ MoveCheck(c, a, p)
    \/ \E a \in Assets : DeleteCheck(c, a)
    \/ \E a \in Assets, offer \in Offers : BindingsCheck(c, a, offer)

Statement(c) ==
    \/ Insert(c) \/ InsertCommit(c) \/ Move(c) \/ MoveCommit(c) \/ DeleteAsset(c)
    \/ ReplaceBindings(c) \/ ReplaceBindingsCommit(c)

AssetsNext == \E c \in AssetCallers : AssetRequest(c) \/ Statement(c)

AssetsSpec == AssetsInit /\ [][AssetsNext]_assetVars

(***************************************************************************)
(* Properties.                                                             *)
(***************************************************************************)
(* Whatever asked run together, no asset or meter refers to an asset   *)
(* that is gone and no source is measured twice.                          *)
NothingDangles ==
    /\ \A a \in Assets : Exists(a) => Exists(parent[a])
    /\ \A b \in bound : Exists(b.owner) /\ Exists(b.boundary)
    /\ \A b, d \in bound : b.source = d.source => b = d

(* The trigger alone cannot keep the tree: a cycle, or a meter on an asset *)
(* with children, takes two asked that ran together.                    *)
TreeKept ==
    ~overlapped => NoCycle(parent) /\ \A b \in bound : Children(b.owner) = {}

(* A total has one main meter, unless two asked ran together or an     *)
(* asset was moved out of the boundary of its meters.                     *)
OneMainMeter ==
    ~overlapped /\ ~strayed =>
        \A m, n \in Mains(bound) :
            aggregationGroup(m) = aggregationGroup(n) => m = n

(* What the code promises about one hierarchy.                            *)
AssetsSound == AssetsTypeOK /\ NothingDangles /\ TreeKept /\ OneMainMeter

(* "measurement boundary must be its owner or an ancestor".  A move does  *)
(* not look at the meters below the asset.                                *)
BoundaryIsAncestor ==
    \A b \in bound : b.boundary \in Ancestors(b.owner) \cup {b.owner}
=============================================================================
