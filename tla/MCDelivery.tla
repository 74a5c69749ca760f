----------------------------- MODULE MCDelivery ------------------------------
(***************************************************************************)
(* Model checking instance of the services that connect, deliver and       *)
(* authenticate: each part of the system below runs by itself.             *)
(*                                                                         *)
(* These parts share no state that one of them would change under another, *)
(* so a behaviour has one of them: part says which, and the others stay as *)
(* they begin.  Sessions, gateways, the two transports, the managers of    *)
(* publishers and of plugins, the secrets of publishers, their feeds and   *)
(* the values have variables of their own, which the proofs are about too; *)
(* the state of the other parts is in the slots x1, x2, ...                *)
(***************************************************************************)
EXTENDS Sessions, MQTTTransport, Gateway, HTTPSnapshot, PublisherManager,
        PluginManager, PublisherCredentials, SourceSubscription, MemoryValueStore

CONSTANT Parts

VARIABLES part, x1, x2, x3, x4, x5, x6, x7, x8, x9, x10, x11, x12, x13, x14,
          x15, x16, x17, x18, x19

slots == <<x1, x2, x3, x4, x5, x6, x7, x8, x9, x10, x11, x12, x13, x14, x15,
           x16, x17, x18, x19>>
all   == <<part, sessionVars, mqttVars, gatewayVars, httpVars, vars, pluginVars,
           credentialVars, feedVars, memoryVars, slots>>

\* What clients of the HTTP server send, by what is wrong with it.
HTTPRequests == {{}, {"credentials"}, {"body", "path"}, {"body"}}
HTTPSnapshots == {{"good"}, {"good", "missing"}, {"good", "partial"}}

\* Publishers with configuration p listen on one address.
ListenerConflicts == {<<"p", "p">>}

\* One MQTT profile, and a publisher that reads its user name and its password.
CredentialType == [f \in {"f"} |-> "mqtt"]
CredentialPublisher == [p \in {"p"} |-> "mqtt"]
CredentialSlots(type) == IF type = "mqtt" THEN {"u", "p"} ELSE {"k"}
CredentialNeeds(type) == IF type = "mqtt" THEN <<"u", "p">> ELSE <<"k">>

PayloadCall(helper, alias, arg) ==
    [helper |-> helper, alias |-> alias, arg |-> arg, text |-> <<>>]
PayloadTexts ==
    {<<"[">>, <<"]">>, <<"q">>, <<",">>, <<"{", "q", "t", "q", ":">>, <<"}">>,
     <<"-">>, <<"0">>}
PayloadCalls ==
    {PayloadCall("value", "a", None), PayloadCall("value", "b", None),
     PayloadCall("round", "a", 2), PayloadCall("round", "a", 12),
     PayloadCall("default", "a", "zero"), PayloadCall("scale", "a", "times"),
     PayloadCall("scale", "b", "times"), PayloadCall("sequence", "a", None),
     PayloadCall("coverage", "b", None), PayloadCall("period_start", "a", None),
     PayloadCall("publisher_id", None, None)}

PublisherMQTT ==
    [scheme |-> "mqtts", acknowledged |-> FALSE, tls |-> "valid",
     username |-> TRUE, password |-> TRUE, topic |-> "plain", qos |-> 1,
     diagnostics |-> <<[label |-> "valid", filter |-> <<"word", "#">>, qos |-> 0]>>,
     reconnectMin |-> 1, reconnectMax |-> 2, queue |-> 1]
PublisherHTTP ==
    [bind |-> "loopback", port |-> 1, path |-> "clean", access |-> "api_key",
     header |-> "", acknowledged |-> FALSE, policy |-> "strict", connections |-> 1]
PublisherConfig(type, trigger, transport, uses) ==
    [type |-> type, trigger |-> trigger, transport |-> transport, uses |-> uses]
Interval(n) == [mode |-> "interval", alias |-> "", interval |-> n, coalesce |-> 0]
OnChange(a) == [mode |-> "on_change", alias |-> a, interval |-> 0, coalesce |-> 0]
PublisherConfigs ==
    {PublisherConfig("mqtt", trigger, PublisherMQTT, {"a"}) :
        trigger \in {Interval(0), Interval(18), Interval(9), OnChange("b")}}
    \cup {PublisherConfig("mqtt", Interval(2), [PublisherMQTT EXCEPT !.username = FALSE], {}),
          PublisherConfig("http_server", OnChange("a"), PublisherHTTP, {"b"}),
          PublisherConfig("http_server", Interval(0),
                          [PublisherHTTP EXCEPT !.access = "anonymous"], {})}
PublisherSelections ==
    {<<[alias |-> "a", tag |-> "t"]>>,
     <<[alias |-> "a", tag |-> "t"], [alias |-> "b", tag |-> "u"]>>,
     <<[alias |-> "a", tag |-> "t"], [alias |-> "b", tag |-> "t"]>>}

-----------------------------------------------------------------------------
Payload == INSTANCE JSONPayload WITH
    Aliases <- {"a", "b"},
    DataType <- [x \in {"a", "b"} |-> IF x = "a" THEN "float" ELSE "string"],
    Windowed <- {"b"}, TagTypes <- {"int", "float"},
    Texts <- PayloadTexts, Calls <- PayloadCalls,
    MaxLength <- 3, MaxDepth <- 2, MaxActions <- 1, MaxTokens <- 10,
    NULL <- None,
    template <- x1, stage <- x2, current <- x3, snapshot <- x4, rendered <- x5

Publishing == INSTANCE PublisherService WITH
    Publishers <- {"p", "q"},
    PublisherType <- [x \in {"p", "q"} |-> IF x = "p" THEN "mqtt" ELSE "http_server"],
    ConfigVersion <- [x \in {"mqtt", "http_server"} |-> IF x = "mqtt" THEN 3 ELSE 4],
    Tags <- {"t", "u"}, Aliases <- {"a", "b"}, Configs <- PublisherConfigs,
    Selections <- PublisherSelections, Callers <- {"c", "d"}, Unit <- 4,
    Wrap <- 64, MinInterval <- 1, MaxInterval <- 4, DefaultInterval <- 2,
    MinCoalesce <- 1, MaxCoalesce <- 3, DefaultCoalesce <- 1, MaxSources <- 2,
    MaxDiagnostics <- 1, MaxQueue <- 1, MaxRequests <- 2, MaxChanges <- 1,
    None <- None,
    row <- x1, tag <- x2, request <- x3, requests <- x4, changes <- x5

Stream == INSTANCE MeasurementStream WITH
    Bound <- {"a"}, Types <- {"x", "y"}, FeedBuffer <- 1, Buffer <- 1,
    MaxValues <- 2, MaxRetypes <- 1, Nothing <- None,
    dataType <- x1, latest <- x2, put <- x3, retyped <- x4, page <- x5,
    descriptor <- x6, shown <- x7, from <- x8, feed <- x9, feedOpen <- x10,
    sent <- x11, sentClosed <- x12, done <- x13, at <- x14, closing <- x15,
    inHand <- x16, gone <- x17, got <- x18, panicked <- x19

-----------------------------------------------------------------------------
(* The slots a part does not need. *)

Above5 == <<x6, x7, x8, x9, x10, x11, x12, x13, x14, x15, x16, x17, x18, x19>>
Above4 == <<x5, Above5>>
Free5 ==
    /\ x6 = None /\ x7 = None /\ x8 = None /\ x9 = None /\ x10 = None /\ x11 = None
    /\ x12 = None /\ x13 = None /\ x14 = None /\ x15 = None /\ x16 = None
    /\ x17 = None /\ x18 = None /\ x19 = None
Free4 == x5 = None /\ Free5
Free0 == x1 = None /\ x2 = None /\ x3 = None /\ x4 = None /\ Free4

\* A part that does not run has one initial state.
MCInit ==
    /\ part \in Parts
    /\ SessionsInit /\ MQTTInit
    /\ GatewayInit /\ (part # "gateway" => row = NoRow)
    /\ HTTPInit /\ (part # "http" => mode = "anonymous" /\ policy = "strict")
    /\ Init /\ (part # "manager" => db = [p \in Pubs |-> Disabled])
    /\ PluginInit
    /\ IF part = "plugins" THEN rows["j"] = NoInstance
       ELSE rows = [i \in Instances |-> NoInstance]
    /\ CredentialsInit
    /\ part # "credentials" => key = "a" /\ publisher = [p \in Publishers |-> None]
    /\ FeedInit /\ MemoryInit
    /\ CASE part = "payload" -> Payload!PayloadInit /\ Free5
         [] part = "publishers" -> Publishing!PublisherInit /\ Free5
         [] part = "stream" -> Stream!StreamInit
         [] OTHER -> Free0

OwnNext ==
    \/ /\ part = "sessions" /\ SessionsNext
       /\ UNCHANGED <<mqttVars, gatewayVars, httpVars, vars, pluginVars, credentialVars, feedVars, memoryVars>>
    \/ /\ part = "mqtt" /\ MQTTNext
       /\ UNCHANGED <<sessionVars, gatewayVars, httpVars, vars, pluginVars, credentialVars, feedVars, memoryVars>>
    \/ /\ part = "gateway" /\ GatewayNext
       /\ UNCHANGED <<sessionVars, mqttVars, httpVars, vars, pluginVars, credentialVars, feedVars, memoryVars>>
    \/ /\ part = "http" /\ HTTPNext
       /\ UNCHANGED <<sessionVars, mqttVars, gatewayVars, vars, pluginVars, credentialVars, feedVars, memoryVars>>
    \/ /\ part = "manager" /\ Next
       /\ UNCHANGED <<sessionVars, mqttVars, gatewayVars, httpVars, pluginVars, credentialVars, feedVars, memoryVars>>
    \/ /\ part = "plugins" /\ PluginNext
       /\ UNCHANGED <<sessionVars, mqttVars, gatewayVars, httpVars, vars, credentialVars, feedVars, memoryVars>>
    \/ /\ part = "credentials" /\ CredentialsNext
       /\ UNCHANGED <<sessionVars, mqttVars, gatewayVars, httpVars, vars, pluginVars, feedVars, memoryVars>>
    \/ /\ part = "feed" /\ FeedNext
       /\ UNCHANGED <<sessionVars, mqttVars, gatewayVars, httpVars, vars, pluginVars, credentialVars, memoryVars>>
    \/ /\ part = "values" /\ MemoryNext
       /\ UNCHANGED <<sessionVars, mqttVars, gatewayVars, httpVars, vars, pluginVars, credentialVars, feedVars>>

SlotsNext ==
    \/ part = "payload" /\ Payload!PayloadNext /\ UNCHANGED Above5
    \/ part = "publishers" /\ Publishing!PublisherNext /\ UNCHANGED Above5
    \/ part = "stream" /\ Stream!StreamNext

MCNext ==
    \/ OwnNext /\ UNCHANGED <<part, slots>>
    \/ SlotsNext /\ UNCHANGED <<part, sessionVars, mqttVars, gatewayVars, httpVars, vars,
                                 pluginVars, credentialVars, feedVars, memoryVars>>

MCSpec == MCInit /\ [][MCNext]_all

-----------------------------------------------------------------------------
(* The properties of the parts in slots, which their modules explain; each  *)
(* holds the type invariant of its part.                                    *)

\* publisher/json_payload.go, service.go, trigger.go and the settings of the
\* transports: a template that was accepted renders whatever the sources hold, but
\* for sources that were redescribed, an overflow and a text that is too long;
\* and a stored publisher has settings that every check still accepts.
AcceptedCanRun ==
    /\ part = "payload" => Payload!PayloadTypeOK /\ Payload!AcceptedRenders
    /\ part = "publishers" => Publishing!PublisherTypeOK /\ Publishing!StoredCanRun

\* asset/measurement.go with asset/live/reader.go: who watches an asset gets every
\* value once and in order, or is told that the stream has ended.
StreamsAreWhole == part = "stream" => Stream!StreamTypeOK /\ Stream!StreamIsWhole
=============================================================================
