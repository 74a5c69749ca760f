---------------------------- MODULE HTTPSnapshot ----------------------------
(***************************************************************************)
(* The HTTP server of a publisher: it answers every request with the       *)
(* latest snapshot, under a limit of connections, until it is closed.      *)
(*                                                                         *)
(* publisher/http_transport.go.                                            *)
(*                                                                         *)
(* The server of net/http is external: one goroutine accepts, one serves   *)
(* each connection; a connection that ends is closed by its goroutine, and *)
(* Shutdown closes the idle ones itself, so those are closed twice.  A     *)
(* request is the set of things wrong with it, a snapshot the set of the   *)
(* qualities of its samples ("missing" for one that is not available).     *)
(***************************************************************************)
EXTENDS Integers, FiniteSets

CONSTANTS
    Clients,         \* each has one connection at most
    MaxConnections,  \* HTTPServerConfig.MaxConnections
    Modes,           \* access modes: "anonymous" and those with a secret
    Policies,        \* subset of {"payload", "strict"}
    Requests,        \* subsets of {"path", "method", "body", "credentials"}
    QualitySets,       \* non-empty sets of qualities
    MaxPublished, MaxRequests   \* bounds

ASSUME HTTPAssumption ==
    /\ IsFiniteSet(Clients)
    /\ Requests \subseteq SUBSET {"path", "method", "body", "credentials"}
    /\ MaxConnections \in Nat \ {0}
    /\ Policies \subseteq {"payload", "strict"}
    /\ \A s \in QualitySets : s # {}
    /\ MaxPublished \in Nat /\ MaxRequests \in Nat

VARIABLES
    mode, policy,  \* of the configuration
    access,        \* the verifier: "set", or "cleared" (hashes zeroed)
    listening,     \* the listener is open
    serve,         \* the goroutine of serve: "accepting", "exited"
    failure,       \* the channel failures holds an error
    closing,       \* Close: "no", "shutdown", "waiting", "closed"
    closeErr,      \* closeErr is not nil
    permits,       \* taken places of the connection limit
    conn,          \* the connection of each client
    active,        \* activeConnections
    external,      \* externalRequests (the other counters are left out)
    snapshot,      \* the current snapshot, and its number
    answer         \* history: the last response

httpVars == <<mode, policy, access, listening, serve, failure, closing, closeErr, permits,
              conn, active, external, snapshot, answer>>
config  == <<mode, policy>>
server  == <<access, listening, serve, failure, closing, closeErr>>
metrics == <<active, external>>

NoConn == [at |-> "none", wrong |-> {}, floor |-> 0, snap |-> [n |-> 0, has |-> {}],
           open |-> FALSE]
NoAnswer == [status |-> 0, wrong |-> {}, floor |-> 0, n |-> 0, has |-> {}]

HTTPTypeOK ==
    /\ access \in {"set", "cleared"} /\ listening \in BOOLEAN
    /\ serve \in {"accepting", "exited"} /\ failure \in BOOLEAN
    /\ closing \in {"no", "shutdown", "waiting", "closed"} /\ closeErr \in BOOLEAN
    /\ permits \in 0..MaxConnections
    /\ \A c \in Clients : conn[c].at \in {"none", "backlog", "accepted", "idle", "request",
                                          "admitted", "answering", "ending"}

(* NewResolvedTransport returned: the secrets are resolved before the address is taken, and *)
(* cleared again when that fails; then there is no transport.                               *)
HTTPInit ==
    /\ mode \in Modes /\ policy \in Policies
    /\ access = "set" /\ listening = TRUE
    /\ serve = "accepting" /\ failure = FALSE
    /\ closing = "no" /\ closeErr = FALSE
    /\ permits = 0 /\ conn = [c \in Clients |-> NoConn]
    /\ active = 0 /\ external = 0
    /\ snapshot = [n |-> 0, has |-> {}]
    /\ answer = NoAnswer

----------------------------------------------------------------------------
(* Publish and the quality of a snapshot. *)

Publish(s) ==
    /\ snapshot.n < MaxPublished
    /\ snapshot' = [n |-> snapshot.n + 1, has |-> s]
    /\ UNCHANGED <<config, server, permits, conn, metrics, answer>>

(* Faulty variant: a sample that is not available does not count. *)
QualityOfTheAvailable(s) ==
    IF s \cap {"bad", "unavailable"} # {} THEN "unavailable"
    ELSE IF s \subseteq {"good", "missing"} THEN "good" ELSE "degraded"
httpSnapshotQuality(s) ==
    IF s \cap {"missing", "bad", "unavailable"} # {} THEN "unavailable"
    ELSE IF s \subseteq {"good"} THEN "good" ELSE "degraded"

----------------------------------------------------------------------------
(* Connections. *)

Dial(c) ==
    /\ listening /\ conn[c].at = "none"
    /\ conn' = [conn EXCEPT ![c] = [NoConn EXCEPT !.at = "backlog"]]
    /\ UNCHANGED <<config, server, permits, metrics, snapshot, answer>>

(* Accept: a place of the limit is taken, or the connection closed. *)
Accept(c) ==
    /\ listening /\ serve = "accepting" /\ conn[c].at = "backlog"
    /\ \A d \in Clients : conn[d].at # "accepted"   \* one goroutine accepts and registers
    /\ IF permits < MaxConnections
         THEN /\ permits' = permits + 1
              /\ conn' = [conn EXCEPT ![c] = [NoConn EXCEPT !.at = "accepted", !.open = TRUE]]
         ELSE /\ conn' = [conn EXCEPT ![c] = NoConn]
              /\ UNCHANGED permits
    /\ UNCHANGED <<config, server, active, external, snapshot, answer>>

(* StateNew: the server knows the connection. *)
Register(c) ==
    /\ conn[c].at = "accepted"
    /\ conn' = [conn EXCEPT ![c].at = "idle"]
    /\ active' = active + 1
    /\ UNCHANGED <<config, server, permits, external, snapshot, answer>>

(* releaseOnce: the first Close of a connection gives its place back. *)
PermitsAfterClose(c) == IF conn[c].open THEN permits - 1 ELSE permits

(* The client hangs up, a time-out ends, or the goroutine sees that Shutdown closed it. *)
HangUp(c) ==
    /\ conn[c].at = "idle"
    /\ permits' = PermitsAfterClose(c)
    /\ conn' = [conn EXCEPT ![c].at = "ending", ![c].open = FALSE]
    /\ UNCHANGED <<config, server, metrics, snapshot, answer>>

(* StateClosed. *)
Forget(c) ==
    /\ conn[c].at = "ending"
    /\ conn' = [conn EXCEPT ![c] = NoConn]
    /\ active' = active - 1
    /\ UNCHANGED <<config, server, permits, external, snapshot, answer>>

----------------------------------------------------------------------------
(* handle. *)

Request(c, wrong) ==
    /\ conn[c].at = "idle" /\ conn[c].open /\ external < MaxRequests
    /\ conn' = [conn EXCEPT ![c].at = "request", ![c].wrong = wrong, ![c].floor = snapshot.n]
    /\ external' = external + 1
    /\ UNCHANGED <<config, server, permits, active, snapshot, answer>>

(* The response is written; the connection stays unless the request had a body or the *)
(* server is shutting down.                                                           *)
Answered(c, status) ==
    /\ answer' = [status |-> status, wrong |-> conn[c].wrong, floor |-> conn[c].floor,
                  n |-> conn[c].snap.n, has |-> conn[c].snap.has]
    /\ IF closing # "no" \/ status = 413
         THEN /\ permits' = PermitsAfterClose(c)
              /\ conn' = [conn EXCEPT ![c].at = "ending", ![c].open = FALSE]
         ELSE /\ conn' = [conn EXCEPT ![c] = [NoConn EXCEPT !.at = "idle", !.open = conn[c].open]]
              /\ UNCHANGED permits

(* A hash that was zeroed matches nothing. *)
authorized(c) ==
    mode = "anonymous" \/ (access = "set" /\ "credentials" \notin conn[c].wrong)

(* Path, method, body and credentials, in this order. *)
Check(c) ==
    /\ conn[c].at = "request"
    /\ LET w == conn[c].wrong
           status == IF "path" \in w THEN 404
                     ELSE IF "method" \in w THEN 405
                     ELSE IF "body" \in w THEN 413
                     ELSE IF ~authorized(c) THEN 401
                     ELSE 0
       IN IF status # 0
            THEN Answered(c, status)
            ELSE /\ conn' = [conn EXCEPT ![c].at = "admitted"]
                 /\ UNCHANGED <<permits, answer>>
    /\ UNCHANGED <<config, server, active, external, snapshot>>

(* Under snapshotMu: the snapshot is copied. *)
ReadSnapshot(c) ==
    /\ conn[c].at = "admitted"
    /\ IF snapshot.n = 0
         THEN Answered(c, 503)
         ELSE /\ conn' = [conn EXCEPT ![c].at = "answering", ![c].snap = snapshot]
              /\ UNCHANGED <<permits, answer>>
    /\ UNCHANGED <<config, server, active, external, snapshot>>

(* The payload is rendered, which may fail, and sent. *)
Respond(c, renders) ==
    /\ conn[c].at = "answering"
    /\ LET refused == policy = "strict" /\ httpSnapshotQuality(conn[c].snap.has) # "good"
       IN Answered(c, IF renders /\ ~refused THEN 200 ELSE 503)
    /\ UNCHANGED <<config, server, active, external, snapshot>>

----------------------------------------------------------------------------
(* The end of serve, and Close. *)

(* serve: Accept fails, because the listener was closed or by itself. *)
ServeExits ==
    /\ serve = "accepting" /\ \A c \in Clients : conn[c].at # "accepted"
    /\ serve' = "exited" /\ listening' = FALSE
    /\ failure' = (failure \/ closing = "no")
    /\ conn' = [c \in Clients |-> IF conn[c].at = "backlog" THEN NoConn ELSE conn[c]]
    /\ UNCHANGED <<config, access, closing, closeErr, permits, metrics, snapshot, answer>>

(* Close, once: Shutdown closes the listener, *)
Close ==
    /\ closing = "no"
    /\ closing' = "shutdown" /\ listening' = FALSE
    /\ conn' = [c \in Clients |-> IF conn[c].at = "backlog" THEN NoConn ELSE conn[c]]
    /\ UNCHANGED <<config, access, serve, failure, closeErr, permits, metrics, snapshot, answer>>

(* closes the idle connections, *)
CloseIdle(c) ==
    /\ closing = "shutdown" /\ conn[c].at = "idle" /\ conn[c].open
    /\ permits' = PermitsAfterClose(c)
    /\ conn' = [conn EXCEPT ![c].open = FALSE]
    /\ UNCHANGED <<config, server, metrics, snapshot, answer>>

(* and returns when there is none that it knows, or the context ends; *)
ShutdownReturns(expired) ==
    /\ closing = "shutdown"
    /\ expired \/ \A c \in Clients : conn[c].at \in {"none", "accepted"}
    /\ closing' = "waiting" /\ closeErr' = expired
    /\ UNCHANGED <<config, access, listening, serve, failure, permits, conn, metrics, snapshot, answer>>

(* then Close waits for serve, or for the end of the context, and clears the hashes. *)
CloseReturns(expired) ==
    /\ closing = "waiting" /\ (expired \/ serve = "exited")
    /\ closing' = "closed" /\ access' = "cleared"
    /\ closeErr' = (closeErr \/ (expired /\ serve # "exited"))
    /\ UNCHANGED <<config, listening, serve, failure, permits, conn, metrics, snapshot, answer>>

HTTPNext ==
    \/ \E s \in QualitySets : Publish(s)
    \/ \E c \in Clients :
         \/ Dial(c) \/ Accept(c) \/ Register(c) \/ HangUp(c) \/ Forget(c)
         \/ \E wrong \in Requests : Request(c, wrong)
         \/ Check(c) \/ ReadSnapshot(c)
         \/ \E renders \in BOOLEAN : Respond(c, renders)
         \/ CloseIdle(c)
    \/ ServeExits \/ Close
    \/ \E expired \in BOOLEAN : ShutdownReturns(expired) \/ CloseReturns(expired)

HTTPSpec == HTTPInit /\ [][HTTPNext]_httpVars

----------------------------------------------------------------------------
(* A place of the connection limit is held by exactly the connections that *)
(* are open, whichever of the client, a time-out and Shutdown closes them  *)
(* and however often, and the gauge counts those the server knows.         *)
PlacesMatchConnections ==
    /\ permits = Cardinality({c \in Clients : conn[c].open})
    /\ active = Cardinality({c \in Clients : conn[c].at \notin {"none", "backlog", "accepted"}})

(* A payload goes only to a request that is right in everything, with a    *)
(* snapshot no older than the request, under the strict policy a good one; *)
(* also for the requests that Close could not wait for.                    *)
PayloadIsDue ==
    answer.status = 200 =>
        /\ answer.wrong \subseteq (IF mode = "anonymous" THEN {"credentials"} ELSE {})
        /\ answer.n >= answer.floor /\ answer.n > 0
        /\ policy = "strict" => answer.has = {"good"}

SnapshotServed == PlacesMatchConnections /\ PayloadIsDue

=============================================================================
