------------------------- MODULE MCPublisherManager -------------------------
(* Two or three configurations: p listens on an address, q on the wildcard *)
(* of its port, so they conflict with each other and with themselves; m    *)
(* (MQTT) claims nothing.                                                  *)
EXTENDS PublisherManager
CONSTANTS p, q, m
MCConflicts == {<<p, p>>, <<q, q>>, <<p, q>>, <<q, p>>}
MCConfigs == {p, m}
MCOneConflict == {<<p, p>>}
=============================================================================
