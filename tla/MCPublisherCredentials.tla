----------------------- MODULE MCPublisherCredentials -----------------------
(* Two MQTT credential profiles and one publisher that an edit moves from  *)
(* one of them to the other while the manager runs.                        *)
EXTENDS PublisherCredentials, TLC
CONSTANTS f1, f2, pub, c, a, b
MCProfileType   == f1 :> "mqtt" @@ f2 :> "mqtt"
MCPublisherType == pub :> "mqtt"
MCSecretSlots(type)   == IF type = "mqtt" THEN {"u", "p"} ELSE {"k"}
MCNeeds(type)   == IF type = "mqtt" THEN <<"u", "p">> ELSE <<"k">>
=============================================================================
