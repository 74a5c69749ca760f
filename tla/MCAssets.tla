------------------------------ MODULE MCAssets ------------------------------
(* A site s with two buildings b and n, and a meter m in b; one service    *)
(* call after the other.  Two measurement sources, offered as the main     *)
(* meter of the site, or as a direct and a virtual meter of b.             *)
EXTENDS Assets, TLC
CONSTANTS s, b, m, n, t1, t2, c

MCPlanted   == b :> s @@ m :> b @@ n :> s @@ s :> s
MCCanonical == [u \in {"kW", "W"} |-> "W"]
MCUnitOf    == t1 :> "" @@ t2 :> "kW"

MeterOf(id, source, role, boundary, inputs) ==
    [id |-> id, source |-> source, unit |-> "kW", boundary |-> boundary,
     role |-> role, policy |-> "include", inputs |-> inputs]
MCOffers ==
    {{}, {MeterOf("1", t1, "main", s, {})}, {MeterOf("2", t2, "main", s, {})},
     {MeterOf("1", t1, "direct", b, {}), MeterOf("2", t2, "virtual", b, {"1"})}}
=============================================================================
