--------------------------- MODULE MCDeviceMonitor ---------------------------
(* Two subscribers that come and go, a datasource with one or two          *)
(* configurations, and room for monitors that overlap.                     *)
EXTENDS DeviceMonitor, TLC
CONSTANTS n1, n2, c1, c2
Symmetry == Permutations({n1, n2})
=============================================================================
