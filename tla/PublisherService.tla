-------------------------- MODULE PublisherService --------------------------
(***************************************************************************)
(* What the service lets be stored of a data publisher: its configuration, *)
(* the sources it selects and the trigger and template that name them.     *)
(*                                                                         *)
(* publisher/service.go, definition.go, trigger.go, mqtt_config.go,        *)
(* http_config.go, source.go, postgres/repository.go, http/handler.go and  *)
(* Manager.prepare, which checks all of it again before a publisher runs.  *)
(*                                                                         *)
(* A save reads the row, changes it, checks it and writes it in steps that *)
(* others interleave with; the tags selected may change between. Templates *)
(* are known by the aliases they compute with (see JSONPayload), strings   *)
(* by the class a check tells apart.                                       *)
(***************************************************************************)
EXTENDS Integers, Sequences, FiniteSets

CONSTANTS
    Publishers, PublisherType,   \* "mqtt" or "http_server" each
    ConfigVersion,               \* of each type
    Tags, Aliases,
    Configs,      \* configurations that requests carry, of both types
    Selections,   \* sequences of [alias, tag] that requests carry
    Callers,
    Unit, Wrap,   \* nanoseconds of a millisecond; 2^64, the width of a time.Duration
    MinInterval, MaxInterval, DefaultInterval, MinCoalesce, MaxCoalesce, DefaultCoalesce,
    MaxSources, MaxDiagnostics, MaxQueue,
    MaxRequests, MaxChanges,   \* bounds
    None

VARIABLES
    row,       \* data_publishers with data_publisher_sources: None or a row
    tag,       \* data type of each tag, or None
    request,   \* the save of each caller: None or the row it will write
    requests, changes   \* begun so far

publisherVars == <<row, tag, request, requests, changes>>

----------------------------------------------------------------------------
(* Triggers. *)

(* time.Duration(ms) * time.Millisecond, signed. *)
Duration(ms) == LET d == (ms * Unit) % Wrap IN IF d >= Wrap \div 2 THEN d - Wrap ELSE d

defaultIntervalTrigger == [mode |-> "interval", alias |-> "", interval |-> DefaultInterval, coalesce |-> 0]

(* None for a trigger that is refused. *)
normalizeTrigger(t) ==
    LET interval == [t EXCEPT !.interval = IF @ = 0 THEN DefaultInterval ELSE @]
        onChange == [t EXCEPT !.coalesce = IF @ = 0 THEN DefaultCoalesce ELSE @]
    IN CASE t.mode = "" -> defaultIntervalTrigger
         [] /\ t.mode = "interval" /\ t.alias = "" /\ t.coalesce = 0
            /\ Duration(interval.interval) \in (MinInterval * Unit)..(MaxInterval * Unit) -> interval
         [] /\ t.mode = "on_change" /\ t.alias \in Aliases /\ t.interval = 0
            /\ Duration(onChange.coalesce) \in (MinCoalesce * Unit)..(MaxCoalesce * Unit) -> onChange
         [] OTHER -> None

----------------------------------------------------------------------------
(* Configurations. *)

(* The levels of a topic filter: "word", "+", "#" or "mixed", one with a wildcard in a word. *)
validMQTTTopicFilter(levels) ==
    levels # <<>> /\ \A i \in DOMAIN levels : levels[i] # "mixed" /\ (levels[i] = "#" => i = Len(levels))

Distinct(s, Key(_)) == \A i, j \in DOMAIN s : Key(s[i]) = Key(s[j]) => i = j

validDiagnostics(s) ==
    /\ Len(s) <= MaxDiagnostics
    /\ \A i \in DOMAIN s : s[i].label = "valid" \/ s[i].label \in Aliases
    /\ \A i \in DOMAIN s : validMQTTTopicFilter(s[i].filter) /\ s[i].qos <= 1
    /\ Distinct(s, LAMBDA d : d.label) /\ Distinct(s, LAMBDA d : d.filter)

(* The broker's address with its plaintext acknowledgement and TLS settings. *)
validBroker(m) ==
    CASE m.scheme = "mqtt" -> m.acknowledged /\ m.tls = "none"
      [] m.scheme = "mqtts" -> ~m.acknowledged /\ m.tls \in {"none", "valid"}
      [] OTHER -> FALSE

normalizeMQTTTransportConfig(m) ==
    IF /\ validBroker(m)
       /\ m.password => m.username
       /\ m.topic = "plain" /\ m.qos <= 1
       /\ validDiagnostics(m.diagnostics)
       /\ m.reconnectMin <= m.reconnectMax /\ m.queue \in 1..MaxQueue
    THEN m ELSE None

validAccess(h) ==
    CASE h.access = "api_key" -> h.header # "Authorization" /\ ~h.acknowledged
      [] h.access \in {"basic", "bearer"} -> h.header = "" /\ ~h.acknowledged
      [] h.access = "anonymous" -> h.header = "" /\ h.acknowledged
      [] OTHER -> FALSE

normalizeHTTPServerConfig(h) ==
    IF /\ h.bind \in {"loopback", "any"} /\ h.port # 0
       /\ h.path = "clean" /\ validAccess(h)
       /\ h.policy \in {"payload", "strict"} /\ h.connections \in 1..MaxQueue
    THEN [h EXCEPT !.header = IF h.access = "api_key" /\ @ = "" THEN "X-Api-Key" ELSE @]
    ELSE None

(* The whole, as it is stored: [trigger, type, transport, uses]; an empty template uses None. *)
NormalizeConfig(type, config) ==
    LET trigger == normalizeTrigger(config.trigger)
        transport == IF type = "mqtt" THEN normalizeMQTTTransportConfig(config.transport)
                     ELSE normalizeHTTPServerConfig(config.transport)
    IN IF config.type # type \/ trigger = None \/ transport = None \/ None \in config.uses THEN None
       ELSE [config EXCEPT !.trigger = trigger, !.transport = transport]

----------------------------------------------------------------------------
(* Sources. *)

NormalizeSourceSelections(s) ==
    /\ Len(s) \in 1..MaxSources
    /\ \A i \in DOMAIN s : s[i].alias \in Aliases
    /\ Distinct(s, LAMBDA x : x.alias) /\ Distinct(s, LAMBDA x : x.tag)

Resolves(s) == \A i \in DOMAIN s : tag[s[i].tag] # None

validateTriggerSources(config, s) ==
    config.trigger.mode = "on_change" => \E i \in DOMAIN s : s[i].alias = config.trigger.alias

(* Compiling the template: what it computes with is selected and a number. *)
validateDefinitionSourceConfig(config, s) ==
    \A a \in config.uses : \E i \in DOMAIN s : s[i].alias = a /\ tag[s[i].tag] = "number"

Seen(s) == [i \in DOMAIN s |-> tag[s[i].tag]]

----------------------------------------------------------------------------
(* Saves. *)

Checked(type, config, s) ==
    /\ NormalizeSourceSelections(s) /\ Resolves(s)
    /\ validateTriggerSources(config, s)
    /\ validateDefinitionSourceConfig(config, s)

Idle(c) == request[c] = None /\ requests < MaxRequests
Begins(c, p, r, at) ==
    /\ requests' = requests + 1
    /\ request' = [request EXCEPT ![c] = [p |-> p, row |-> r, at |-> at]]
    /\ UNCHANGED <<row, tag, changes>>

Create(c, p, config, s, enabled) ==
    /\ row[p] = None /\ Idle(c)
    /\ LET normalized == NormalizeConfig(PublisherType[p], config)
       IN /\ normalized # None /\ Checked(PublisherType[p], normalized, s)
          /\ Begins(c, p, [enabled |-> enabled, version |-> ConfigVersion[PublisherType[p]],
                           config |-> normalized, sources |-> s, seen |-> Seen(s)], "create")

(* config and s are None when the request leaves them as they are; a configuration that is kept *)
(* must be of the version of today, and is normalized again, when the publisher will be enabled. *)
Update(c, p, config, s, enabled) ==
    /\ row[p] # None /\ Idle(c)
    /\ LET type == PublisherType[p]
           old == row[p]
           again == config # None \/ enabled
           normalized == IF config # None THEN NormalizeConfig(type, config)
                         ELSE IF enabled THEN NormalizeConfig(type, old.config) ELSE old.config
           version == IF config # None THEN ConfigVersion[type] ELSE old.version
           sources == IF s = None THEN old.sources ELSE s
       IN /\ config = None /\ enabled => old.version = ConfigVersion[type]
          /\ normalized # None
          /\ again \/ NormalizeConfig(type, normalized) # None
          /\ Checked(type, normalized, sources)
          /\ Begins(c, p, [enabled |-> enabled, version |-> version, config |-> normalized,
                           sources |-> sources, seen |-> Seen(sources)], "update")

(* SetEnabled(false): the row is written as it was read. *)
Disable(c, p) ==
    /\ row[p] # None /\ Idle(c)
    /\ Begins(c, p, [row[p] EXCEPT !.enabled = FALSE], "update")

(* Faulty variant: only what the request names is written. *)
ChangedColumns(old, new) == IF old = None THEN new ELSE [new EXCEPT !.sources = old.sources, !.seen = old.seen]
(* The columns and the selections, in one transaction. *)
WholeRow(old, new) == new

(* The write: the sources must still exist, and the row of an update. *)
Save(c) ==
    /\ request[c] # None
    /\ LET p == request[c].p   new == request[c].row
       IN row' = IF Resolves(new.sources) /\ (request[c].at = "create" <=> row[p] = None)
                   THEN [row EXCEPT ![p] = WholeRow(row[p], new)] ELSE row
    /\ request' = [request EXCEPT ![c] = None]
    /\ UNCHANGED <<tag, requests, changes>>

(* Deleting cascades to the selections. *)
Delete(c, p) ==
    /\ row[p] # None /\ Idle(c) /\ requests' = requests + 1
    /\ row' = [row EXCEPT ![p] = None]
    /\ UNCHANGED <<tag, request, changes>>

(* Tags are made, given another type, and deleted unless a publisher selects them. *)
ChangeTag(t, type) ==
    /\ changes < MaxChanges /\ changes' = changes + 1
    /\ tag[t] # type
    /\ type = None => \A p \in Publishers : row[p] # None => \A i \in DOMAIN row[p].sources : row[p].sources[i].tag # t
    /\ tag' = [tag EXCEPT ![t] = type]
    /\ UNCHANGED <<row, request, requests>>

----------------------------------------------------------------------------
(* The manager, before it runs a publisher. *)

prepare(p) ==
    /\ row[p].version = ConfigVersion[PublisherType[p]]
    /\ LET config == NormalizeConfig(PublisherType[p], row[p].config)
       IN config # None /\ Checked(PublisherType[p], config, row[p].sources)

PublisherInit ==
    /\ row = [p \in Publishers |-> None]
    /\ tag \in [Tags -> {"number", "text"}]
    /\ request = [c \in Callers |-> None] /\ requests = 0 /\ changes = 0

(* The program is replaced by one with another version of a type's configuration: here, a row *)
(* that was stored under an older one.                                                        *)
Outdate(p) ==
    /\ row[p] # None /\ changes < MaxChanges /\ changes' = changes + 1
    /\ row' = [row EXCEPT ![p].version = @ - 1]
    /\ request' = [c \in Callers |-> None]
    /\ UNCHANGED <<tag, requests>>

PublisherNext ==
    \/ \E c \in Callers, p \in Publishers :
         \/ \E config \in Configs, s \in Selections, e \in BOOLEAN : Create(c, p, config, s, e)
         \/ \E config \in Configs \cup {None}, s \in Selections \cup {None}, e \in BOOLEAN :
              Update(c, p, config, s, e)
         \/ Disable(c, p) \/ Delete(c, p)
    \/ \E c \in Callers : Save(c)
    \/ \E t \in Tags, type \in {"number", "text", None} : ChangeTag(t, type)
    \/ \E p \in Publishers : Outdate(p)

PublisherSpec == PublisherInit /\ [][PublisherNext]_publisherVars

----------------------------------------------------------------------------

PublisherTypeOK ==
    /\ \A p \in Publishers : row[p] # None => row[p].enabled \in BOOLEAN /\ Len(row[p].sources) \in 1..MaxSources
    /\ \A t \in Tags : tag[t] \in {"number", "text", None}

(* What was stored can be run: whatever saves of one publisher overlapped, *)
(* its configuration, trigger, template and sources were checked together, *)
(* so the manager, which checks them again, starts it; unless the program  *)
(* or the type of one of its tags changed since. And the period of its     *)
(* timer is within the limits whatever number was given for it.            *)
StoredCanRun ==
    \A p \in Publishers :
        (/\ row[p] # None /\ row[p].version = ConfigVersion[PublisherType[p]]
         /\ row[p].seen = Seen(row[p].sources)) =>
            /\ prepare(p)
            /\ LET t == row[p].config.trigger
               IN t.mode = "interval" => Duration(t.interval) \in (MinInterval * Unit)..(MaxInterval * Unit)
=============================================================================
