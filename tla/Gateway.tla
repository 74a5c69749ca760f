------------------------------- MODULE Gateway -------------------------------
(***************************************************************************)
(* One vGateway: its row in PostgreSQL, the runtimes that hold its client, *)
(* and the API requests that change, connect and delete it.                *)
(*                                                                         *)
(* vgateway/{crud,connection,runtime,status}.go, vgateway/http/handler.go, *)
(* vgateway/postgres/repository.go.                                        *)
(*                                                                         *)
(* A request first reads the row, without a lock, and then waits for the   *)
(* operationMu of the runtime it looked up.  What it does while it holds   *)
(* that lock is one step, except where it waits: Connect for the network,  *)
(* and Delete for the database.  A configuration is a version number; the  *)
(* name, the description and the counters are left out.                    *)
(***************************************************************************)
EXTENDS Integers, FiniteSets

CONSTANTS
    Callers,      \* API requests that may run at the same time
    NoRow,        \* the gateway is not in the database
    NoClient,     \* a runtime without a client
    MaxVersions,  \* bound of the configurations
    MaxRuntimes,  \* bound of the runtimes ever allocated
    MaxMade       \* bound of the requests each caller makes

Client == [config : 1 .. MaxVersions, up : BOOLEAN]

ASSUME GatewayAssumption ==
    /\ MaxVersions \in Nat \ {0} /\ MaxRuntimes \in Nat \ {0}
    /\ MaxMade \in Nat
    /\ NoClient \notin Client

VARIABLES
    row,       \* the row of the gateway: whether enabled, and its config
    runtimes,  \* every vGatewayRuntime allocated, reachable or not
    registry,  \* s.runtimes[id]: the number of a runtime, or 0
    requests,  \* the request of each caller
    made       \* requests each caller has made

gatewayVars == <<row, runtimes, registry, requests, made>>

Heap == DOMAIN runtimes
Status == {"disconnected", "connecting", "connected", "error", "stopped"}
NewRuntime == [client |-> NoClient, status |-> "disconnected",
               connectedAt |-> FALSE, holder |-> {}]

(* What a service call returns, as handleServiceError answers it. *)
Answer(err) ==
    IF err \in {"invalid name", "invalid config", "unsupported type"} THEN 400
    ELSE IF err = "not found" THEN 404
    ELSE IF err \in {"disabled", "name exists"} THEN 409
    ELSE 500

Idle(reply) == [op |-> "none", at |-> "idle", seen |-> NoRow,
                input |-> NoRow, rt |-> 0, reply |-> reply]

GatewayTypeOK ==
    /\ row = NoRow \/ row \in [enabled : BOOLEAN, config : 1 .. MaxVersions]
    /\ Cardinality(Heap) <= MaxRuntimes
    /\ \A r \in Heap : /\ runtimes[r].client \in Client \cup {NoClient}
                       /\ runtimes[r].status \in Status
                       /\ Cardinality(runtimes[r].holder) <= 1
    /\ registry \in Heap \cup {0}
    /\ made \in [Callers -> 0 .. MaxMade]

GatewayInit ==
    /\ row \in {NoRow} \cup [enabled : BOOLEAN, config : {1}]
    /\ runtimes = << >>
    /\ registry = 0
    /\ requests = [c \in Callers |-> Idle(0)]
    /\ made = [c \in Callers |-> 0]

----------------------------------------------------------------------------
(* The steps of a request. *)

Finish(c, reply) == requests' = [requests EXCEPT ![c] = Idle(reply)]
Fail(c, err) == Finish(c, Answer(err))
Free(r) == runtimes[r].holder = {}
Holds(c, r) == runtimes[r].holder = {c}

Begin(c) ==
    /\ requests[c].at = "idle" /\ made[c] < MaxMade
    /\ made' = [made EXCEPT ![c] = @ + 1]

\* The id or the body cannot be parsed, or the database fails.
Refuse(c) ==
    /\ Begin(c)
    /\ \E reply \in {400, 500} : Finish(c, reply)
    /\ UNCHANGED <<row, runtimes, registry>>

\* Create: one INSERT, which the unique index on the name may refuse.  An id is
\* given once, so that a gateway is only created while nothing knows of it.
Create(c, enabled) ==
    /\ Begin(c)
    /\ row = NoRow /\ runtimes = << >>
    /\ \A d \in Callers : requests[d].at = "idle"
    /\ \/ /\ row' = [enabled |-> enabled, config |-> 1]
          /\ Finish(c, 201)
       \/ /\ \E err \in {"invalid name", "invalid config", "unsupported type",
                         "name exists"} : Fail(c, err)
          /\ UNCHANGED row
    /\ UNCHANGED <<runtimes, registry>>

\* FindByID, the first call of every request but Create and Delete.
Find(c, op) ==
    /\ Begin(c)
    /\ \/ row = NoRow /\ Fail(c, "not found")
       \/ /\ row # NoRow
          /\ requests' = [requests EXCEPT
                ![c] = [Idle(0) EXCEPT !.op = op, !.at = "found", !.seen = row]]
    /\ UNCHANGED <<row, runtimes, registry>>

\* s.runtimes[id], for the requests that do not allocate a runtime.
Lookup(c, r, at) ==
    requests' = [requests EXCEPT ![c].rt = r, ![c].at = at]

----------------------------------------------------------------------------
(* Connect *)

\* runtimeForGateway: the registered runtime, or a new one that is registered.
RuntimeFor(r) ==
    IF registry # 0
    THEN r = registry /\ UNCHANGED <<runtimes, registry>>
    ELSE /\ Cardinality(Heap) < MaxRuntimes
         /\ r = Cardinality(Heap) + 1
         /\ runtimes' = [h \in 1 .. r |->
                            IF h = r THEN NewRuntime ELSE runtimes[h]]
         /\ registry' = r

ConnectFound(c) ==
    /\ requests[c].op = "connect" /\ requests[c].at = "found"
    /\ \/ /\ ~requests[c].seen.enabled
          /\ Fail(c, "disabled")
          /\ UNCHANGED <<runtimes, registry>>
       \/ /\ requests[c].seen.enabled
          /\ \E r \in 1 .. MaxRuntimes : RuntimeFor(r) /\ Lookup(c, r, "lock")
    /\ UNCHANGED <<row, made>>

\* Under operationMu: a connected client is kept; otherwise the client of the
\* runtime is used again, or made from the config that was read.
ConnectLocked(c) ==
    LET r == requests[c].rt
        client == runtimes[r].client
    IN  /\ requests[c].op = "connect" /\ requests[c].at = "lock"
        /\ Free(r)
        /\ \/ /\ client # NoClient /\ client.up
              /\ runtimes' = [runtimes EXCEPT ![r].status = "connected",
                                              ![r].connectedAt = TRUE]
              /\ Finish(c, 200)
           \/ /\ client # NoClient => ~client.up
              /\ runtimes' = [runtimes EXCEPT
                    ![r].status = "connecting",
                    ![r].holder = {c},
                    ![r].client = IF client # NoClient THEN client
                                  ELSE [config |-> requests[c].seen.config,
                                        up |-> FALSE]]
              /\ requests' = [requests EXCEPT ![c].at = "dial"]
           \/ /\ client = NoClient     \* NewClient fails
              /\ runtimes' = [runtimes EXCEPT ![r].status = "error",
                                              ![r].connectedAt = FALSE]
              /\ Fail(c, "client")
        /\ UNCHANGED <<row, registry, made>>

\* client.Connect returns; recordRuntimeConnectionError keeps the client.
Dialled(c) ==
    LET r == requests[c].rt
    IN  /\ requests[c].at = "dial"
        /\ \/ /\ runtimes' = [runtimes EXCEPT
                    ![r].status = "connected", ![r].connectedAt = TRUE,
                    ![r].holder = {},
                    ![r].client = IF @ = NoClient THEN NoClient
                                  ELSE [@ EXCEPT !.up = TRUE]]
              /\ Finish(c, 200)
           \/ /\ runtimes' = [runtimes EXCEPT
                    ![r].status = "error", ![r].connectedAt = FALSE,
                    ![r].holder = {}]
              /\ Fail(c, "network")
        /\ UNCHANGED <<row, registry, made>>

----------------------------------------------------------------------------
(* Disconnect, Update and Delete: each closes the client under operationMu. *)

\* Faulty variant: a client that could not be closed is kept.
ClosedUnlessFailed(r, status, failed) ==
    [runtimes EXCEPT ![r].client = IF failed THEN @ ELSE NoClient,
                     ![r].connectedAt = FALSE,
                     ![r].status = IF failed THEN "error" ELSE status]

\* client.Disconnect, which drops the connection also when it fails.
Closed(r, status, failed) ==
    [runtimes EXCEPT ![r].client = NoClient, ![r].connectedAt = FALSE,
                     ![r].status = IF failed THEN "error" ELSE status]
CanFail(r) == IF runtimes[r].client = NoClient THEN {FALSE} ELSE BOOLEAN

DisconnectFound(c) ==
    /\ requests[c].op = "disconnect" /\ requests[c].at = "found"
    /\ IF registry = 0 THEN Finish(c, 200) ELSE Lookup(c, registry, "lock")
    /\ UNCHANGED <<row, runtimes, registry, made>>

DisconnectLocked(c) ==
    LET r == requests[c].rt
    IN  /\ requests[c].op = "disconnect" /\ requests[c].at = "lock"
        /\ Free(r)
        /\ \E failed \in CanFail(r) :
              /\ runtimes' = Closed(r, IF requests[c].seen.enabled
                                       THEN "disconnected" ELSE "stopped", failed)
              /\ IF failed THEN Fail(c, "network") ELSE Finish(c, 200)
        /\ UNCHANGED <<row, registry, made>>

\* The values of the request are checked before the row is written; the whole
\* row that was read is written, with the fields of the request changed.
UpdateFound(c) ==
    /\ requests[c].op = "update" /\ requests[c].at = "found"
    /\ \/ /\ \E err \in {"invalid name", "invalid config", "name exists"} :
                Fail(c, err)
          /\ UNCHANGED row
       \/ /\ row = NoRow /\ Fail(c, "not found")
          /\ UNCHANGED row
       \/ /\ Finish(c, 200)     \* a request that changes nothing
          /\ UNCHANGED row
       \/ /\ row # NoRow
          /\ \E enabled \in BOOLEAN, config \in 1 .. MaxVersions :
                LET new == [enabled |-> enabled, config |-> config]
                IN  /\ row' = new
                    /\ IF new = requests[c].seen THEN Finish(c, 200)
                       ELSE requests' = [requests EXCEPT ![c].input = new,
                                                         ![c].at = "saved"]
    /\ UNCHANGED <<runtimes, registry, made>>

ReconcileLookup(c) ==
    /\ requests[c].at = "saved"
    /\ IF registry = 0 THEN Finish(c, 200) ELSE Lookup(c, registry, "lock")
    /\ UNCHANGED <<row, runtimes, registry, made>>

reconcileRuntimeAfterUpdate(c) ==
    LET r == requests[c].rt
    IN  /\ requests[c].op = "update" /\ requests[c].at = "lock"
        /\ Free(r)
        /\ \E failed \in CanFail(r) :
              runtimes' = IF requests[c].input.enabled
                          THEN Closed(r, "disconnected", failed)
                          ELSE Closed(r, "stopped", FALSE)
        /\ Finish(c, 200)
        /\ UNCHANGED <<row, registry, made>>

Delete(c) ==
    /\ Begin(c)
    /\ requests' = [requests EXCEPT
          ![c] = [Idle(0) EXCEPT !.op = "delete", !.rt = registry,
                  !.at = IF registry = 0 THEN "delete" ELSE "lock"]]
    /\ UNCHANGED <<row, runtimes, registry>>

\* A client that cannot be closed ends the request: the row is kept.
DeleteLocked(c) ==
    LET r == requests[c].rt
    IN  /\ requests[c].op = "delete" /\ requests[c].at = "lock"
        /\ Free(r)
        /\ \E failed \in CanFail(r) :
              IF failed
              THEN runtimes' = Closed(r, "error", TRUE) /\ Fail(c, "network")
              ELSE /\ runtimes' = [Closed(r, "disconnected", FALSE)
                                      EXCEPT ![r].holder = {c}]
                   /\ requests' = [requests EXCEPT ![c].at = "delete"]
        /\ UNCHANGED <<row, registry, made>>

\* The row goes, then the runtime leaves the registry if it is still that one;
\* the deferred unlock of operationMu runs on every path.
DeleteRow(c) ==
    LET r == requests[c].rt
    IN  /\ requests[c].at = "delete"
        /\ \/ /\ row # NoRow
              /\ row' = NoRow
              /\ registry' = IF r # 0 /\ registry = r THEN 0 ELSE registry
              /\ Finish(c, 204)
           \/ /\ row = NoRow /\ Fail(c, "not found")
              /\ UNCHANGED <<row, registry>>
           \/ /\ Fail(c, "database")
              /\ UNCHANGED <<row, registry>>
        /\ runtimes' = IF r = 0 THEN runtimes
                       ELSE [runtimes EXCEPT ![r].holder = {}]
        /\ UNCHANGED made

----------------------------------------------------------------------------
(* Reads and what happens without a request *)

\* statusForGateway: what Get, List and Status show of a gateway.
statusForGateway(enabled) ==
    IF ~enabled THEN "stopped"
    ELSE IF registry = 0 THEN "disconnected" ELSE runtimes[registry].status

ReadStatus(c) ==
    /\ requests[c].op = "status" /\ requests[c].at = "found"
    /\ Finish(c, statusForGateway(requests[c].seen.enabled))
    /\ UNCHANGED <<row, runtimes, registry, made>>

\* TestConnection: a client of its own, always disconnected before the reply,
\* which is 200 also when the connection fails.
TestConnection(c) ==
    /\ requests[c].op = "test" /\ requests[c].at = "found"
    /\ \/ Finish(c, 200)
       \/ \E err \in {"invalid config", "unsupported type"} : Fail(c, err)
    /\ UNCHANGED <<row, runtimes, registry, made>>

\* A read of one of its datasources is recorded under the id of the gateway,
\* also of one that was deleted meanwhile.
RecordGatewayRequest ==
    /\ registry = 0
    /\ \E r \in 1 .. MaxRuntimes : RuntimeFor(r)
    /\ UNCHANGED <<row, requests, made>>

\* The other end closes the connection.
ConnectionLost ==
    /\ \E r \in Heap :
          /\ runtimes[r].client # NoClient /\ runtimes[r].client.up
          /\ runtimes' = [runtimes EXCEPT ![r].client.up = FALSE]
    /\ UNCHANGED <<row, registry, requests, made>>

GatewayNext ==
    \/ \E c \in Callers :
          \/ Refuse(c)
          \/ \E enabled \in BOOLEAN : Create(c, enabled)
          \/ \E op \in {"connect", "disconnect", "update", "status", "test"} :
                Find(c, op)
          \/ ConnectFound(c) \/ ConnectLocked(c) \/ Dialled(c)
          \/ DisconnectFound(c) \/ DisconnectLocked(c)
          \/ UpdateFound(c) \/ ReconcileLookup(c) \/ reconcileRuntimeAfterUpdate(c)
          \/ Delete(c) \/ DeleteLocked(c) \/ DeleteRow(c)
          \/ ReadStatus(c) \/ TestConnection(c)
    \/ RecordGatewayRequest
    \/ ConnectionLost

GatewaySpec == GatewayInit /\ [][GatewayNext]_gatewayVars

----------------------------------------------------------------------------
(* Properties *)

\* Outside an operation the status of a runtime says what its client does: a
\* live connection is shown as connected, "connected" has a client and a time of
\* connection, and a runtime shown as disconnected or stopped has no client.
\* The operationMu of the four operations that write both is what this rests on.
StatusTruthful ==
    \A r \in Heap : Free(r) =>
        LET rt == runtimes[r]
            live == rt.client # NoClient /\ rt.client.up
        IN  /\ live => rt.status = "connected"
            /\ rt.status = "connected" => rt.client # NoClient /\ rt.connectedAt
            /\ rt.status \in {"disconnected", "stopped"} => rt.client = NoClient
            /\ rt.status # "connecting"

\* When no request is under way, a gateway that is disabled or deleted has no
\* live connection, and a live connection uses the config of the row
\* (update_test.go, TestVGatewayServiceUpdateReconcilesEnabledState).  Connect
\* reads the row before it waits for operationMu, so an Update or a Delete may
\* run in between and this does not hold.
ConnectedAsConfigured ==
    (\A c \in Callers : requests[c].at = "idle") =>
        \A r \in Heap : runtimes[r].client # NoClient /\ runtimes[r].client.up =>
            /\ row # NoRow /\ row.enabled
            /\ runtimes[r].client.config = row.config
=============================================================================
