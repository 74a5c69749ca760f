----------------------- MODULE MCAcquisitionRuntime -----------------------
(* One datasource with one reading r; average depends on sum, and both are *)
(* triggered by r; sum also reads the constant k, and triggers trend.  A   *)
(* cascade has room for two of the three, so that it is cut off before     *)
(* trend while average is enabled.  Room for an old and a new consumer,    *)
(* and for one event in the channel.                                       *)
EXTENDS AcquisitionRuntime
CONSTANTS d1, r, sum, average, trend, k, s1, s2
MCSource  == [t \in {r} |-> d1]
MCTrigger == [t \in {sum, average, trend} |-> IF t = trend THEN sum ELSE r]
MCDepends == [t \in {sum, average, trend} |->
                CASE t = sum     -> {r, k}
                  [] t = average -> {r, sum}
                  [] t = trend   -> {sum}]
MCInitial == {{r, sum, trend, k}}
=============================================================================
