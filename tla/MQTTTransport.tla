---------------------------- MODULE MQTTTransport ----------------------------
(***************************************************************************)
(* Delivery of one MQTT publisher: the bounded queue of rendered messages, *)
(* the goroutine that publishes them one at a time, and the callbacks that *)
(* tell it of the connection.                                              *)
(*                                                                         *)
(* publisher/mqtt_transport.go; the client library is external: it         *)
(* reports a loss before it connects again, and a publication ends with an *)
(* acknowledgement, an error, or the timeout of the transport.             *)
(*                                                                         *)
(* Messages are numbered in the order in which they are published.  The    *)
(* diagnostic subscriptions matter only for when a connection is ready.    *)
(***************************************************************************)
EXTENDS Integers, Sequences

CONSTANTS
    QueueCapacity,        \* queue_capacity
    Diagnostics,     \* whether the publisher has diagnostic subscriptions
    MaxMessages, MaxConnects, MaxFailures   \* bounds

ASSUME MQTTAssumption ==
    /\ QueueCapacity \in Nat \ {0} /\ Diagnostics \in BOOLEAN
    /\ MaxMessages \in Nat /\ MaxConnects \in Nat /\ MaxFailures \in Nat

VARIABLES
    queue,       \* transport.queue.items
    notify,      \* the token in queue.notify
    flight,      \* the message the goroutine holds, if any
    run,         \* where run() stands
    connected,   \* transport.connected
    ready,       \* the token in transport.ready
    generation,  \* transport.generation
    waiting,     \* connections whose subscriptions are not finished
    checked,     \* connections that markReady found to be the newest
    wire,        \* the connection to the broker
    lossTold,    \* onConnectionLost has run for the last loss
    closed,      \* transport.closed
    pushed, acked, dropped, failures

wireVars == <<wire, lossTold, generation, waiting, checked>>
mqttVars == <<queue, notify, flight, run, connected, ready, generation, waiting, checked,
              wire, lossTold, closed, pushed, acked, dropped, failures>>

Points == {"loop", "wait_ready", "wait_work", "publish", "failed", "mark", "backoff", "done"}

MQTTTypeOK ==
    /\ queue \in Seq(1..MaxMessages) /\ Len(queue) <= QueueCapacity
    /\ flight \in Seq(1..MaxMessages) /\ Len(flight) <= 1
    /\ run \in Points /\ wire \in {"down", "up", "off"}
    /\ generation \in 0..MaxConnects /\ waiting \cup checked \subseteq 1..MaxConnects
    /\ notify \in BOOLEAN /\ ready \in BOOLEAN /\ connected \in BOOLEAN

MQTTInit ==
    /\ queue = <<>> /\ notify = FALSE /\ flight = <<>> /\ run = "loop"
    /\ connected = FALSE /\ ready = FALSE
    /\ generation = 0 /\ waiting = {} /\ checked = {}
    /\ wire = "down" /\ lossTold = TRUE /\ closed = FALSE
    /\ pushed = 0 /\ acked = <<>> /\ dropped = 0 /\ failures = 0

----------------------------------------------------------------------------
(* The queue *)

Full == Len(queue) = QueueCapacity
Drop(full) == dropped' = IF full THEN dropped + 1 ELSE dropped

\* A full queue loses its oldest message.
Push(m) ==
    /\ queue' = Append(IF Full THEN Tail(queue) ELSE queue, m)
    /\ Drop(Full) /\ notify' = TRUE

\* Faulty variant: a message that failed goes to the end of the queue.
PushBack(m) == Push(m)

\* A message that failed is first again; a full queue loses its newest message.
PushFront(m) ==
    /\ queue' = <<m>> \o (IF Full THEN SubSeq(queue, 1, QueueCapacity - 1) ELSE queue)
    /\ Drop(Full) /\ notify' = TRUE

\* Publish, called by the one goroutine of the publisher's job.
PublishMQTT ==
    /\ ~closed /\ pushed < MaxMessages
    /\ pushed' = pushed + 1
    /\ Push(pushed')
    /\ UNCHANGED <<wireVars, flight, run, connected, ready, closed, acked, failures>>

----------------------------------------------------------------------------
(* run() *)

\* The top of the loop: wait for a connection, take a message, or wait for one.
Loop ==
    /\ run = "loop"
    /\ IF ~connected THEN run' = "wait_ready" /\ UNCHANGED <<queue, flight>>
       ELSE IF queue = <<>> THEN run' = "wait_work" /\ UNCHANGED <<queue, flight>>
       ELSE run' = "publish" /\ flight' = <<Head(queue)>> /\ queue' = Tail(queue)
    /\ UNCHANGED <<wireVars, notify, connected, ready, closed, pushed, acked, dropped, failures>>

WakeReady ==
    /\ run \in {"wait_ready", "wait_work"} /\ ready
    /\ ready' = FALSE /\ run' = "loop"
    /\ UNCHANGED <<wireVars, queue, notify, flight, connected, closed, pushed, acked, dropped,
                   failures>>

WakeNotify ==
    /\ run = "wait_work" /\ notify
    /\ notify' = FALSE /\ run' = "loop"
    /\ UNCHANGED <<wireVars, queue, flight, connected, ready, closed, pushed, acked, dropped,
                   failures>>

\* The token is done without an error.
Acknowledged ==
    /\ run = "publish" /\ wire = "up"
    /\ acked' = acked \o flight /\ flight' = <<>> /\ run' = "loop"
    /\ UNCHANGED <<wireVars, queue, notify, connected, ready, closed, pushed, dropped, failures>>

\* The token is done with an error, or not in time.
PublishFails ==
    /\ run = "publish" /\ failures < MaxFailures
    /\ failures' = failures + 1
    /\ PushFront(flight[1]) /\ flight' = <<>> /\ run' = "failed"
    /\ UNCHANGED <<wireVars, connected, ready, closed, pushed, acked>>

\* afterPublishFailure: IsConnectionOpen ...
LookAtConnection ==
    /\ run = "failed" /\ run' = IF wire = "up" THEN "backoff" ELSE "mark"
    /\ UNCHANGED <<wireVars, queue, notify, flight, connected, ready, closed, pushed, acked,
                   dropped, failures>>

\* ... and then what it saw is noted, whatever has happened since.
MarkDown ==
    /\ run = "mark" /\ connected' = FALSE /\ run' = "loop"
    /\ UNCHANGED <<wireVars, queue, notify, flight, ready, closed, pushed, acked, dropped,
                   failures>>

BackoffEnds ==
    /\ run = "backoff" /\ run' = "loop"
    /\ UNCHANGED <<wireVars, queue, notify, flight, connected, ready, closed, pushed, acked,
                   dropped, failures>>

\* Every select of run() also waits for stop.
Stops ==
    /\ closed /\ run \in {"wait_ready", "wait_work", "publish", "backoff"}
    /\ run' = IF run = "backoff" THEN "loop" ELSE "done"
    /\ UNCHANGED <<wireVars, queue, notify, flight, connected, ready, closed, pushed, acked,
                   dropped, failures>>

----------------------------------------------------------------------------
(* The connection *)

\* connectInitial, or the library, connects; onConnected starts a goroutine for the
\* subscriptions of this connection.
onConnected ==
    /\ wire = "down" /\ lossTold /\ ~closed /\ generation < MaxConnects
    /\ wire' = "up" /\ generation' = generation + 1
    /\ IF Diagnostics THEN waiting' = waiting \cup {generation'} /\ UNCHANGED checked
       ELSE checked' = checked \cup {generation'} /\ UNCHANGED waiting
    /\ UNCHANGED <<queue, notify, flight, run, connected, ready, lossTold, closed, pushed, acked,
                   dropped, failures>>

\* The subscriptions end, with an error in which case nothing follows; markReady
\* looks whether the connection is still the newest.
subscribeDiagnostics(g) ==
    /\ g \in waiting /\ waiting' = waiting \ {g}
    /\ \/ UNCHANGED checked
       \/ ~closed /\ g = generation /\ checked' = checked \cup {g}
    /\ UNCHANGED <<queue, notify, flight, run, connected, ready, generation, wire, lossTold,
                   closed, pushed, acked, dropped, failures>>

markReady(g) ==
    /\ g \in checked /\ checked' = checked \ {g}
    /\ connected' = TRUE /\ ready' = TRUE
    /\ UNCHANGED <<queue, notify, flight, run, generation, waiting, wire, lossTold, closed,
                   pushed, acked, dropped, failures>>

ConnectionDrops ==
    /\ wire = "up" /\ wire' = "down" /\ lossTold' = FALSE
    /\ UNCHANGED <<queue, notify, flight, run, connected, ready, generation, waiting, checked,
                   closed, pushed, acked, dropped, failures>>

\* onConnectionLost, and onReconnecting before each attempt.
onConnectionLost ==
    /\ ~lossTold /\ lossTold' = TRUE /\ connected' = FALSE
    /\ UNCHANGED <<queue, notify, flight, run, ready, generation, waiting, checked, wire, closed,
                   pushed, acked, dropped, failures>>

CloseMQTT ==
    /\ ~closed /\ closed' = TRUE /\ connected' = FALSE /\ wire' = "off"
    /\ UNCHANGED <<queue, notify, flight, run, ready, generation, waiting, checked, lossTold,
                   pushed, acked, dropped, failures>>

----------------------------------------------------------------------------
RunStep == \/ Loop \/ WakeReady \/ WakeNotify \/ Acknowledged \/ PublishFails
           \/ LookAtConnection \/ MarkDown \/ BackoffEnds \/ Stops
Callback == \/ \E g \in 1..MaxConnects : subscribeDiagnostics(g) \/ markReady(g)
            \/ onConnectionLost

MQTTNext == PublishMQTT \/ RunStep \/ Callback \/ onConnected \/ ConnectionDrops \/ CloseMQTT

\* The goroutines run when they can.  The broker is not assumed to be reachable, nor
\* a publication to fail; one that is under way on an open connection ends.
MQTTFairness ==
    /\ WF_mqttVars(Loop \/ WakeReady \/ WakeNotify \/ LookAtConnection \/ MarkDown
                     \/ BackoffEnds \/ Stops)
    /\ WF_mqttVars(Acknowledged)
    /\ WF_mqttVars(Callback)

MQTTSpec == MQTTInit /\ [][MQTTNext]_mqttVars /\ MQTTFairness

----------------------------------------------------------------------------
(* Safety *)

\* What was acknowledged, what is in flight and what is queued are in the order of
\* publication, however often publications fail and connections change, and every
\* other message was counted as dropped.
DeliveryAccounted ==
    LET all == acked \o flight \o queue
    IN  /\ \A i \in 1..Len(all) - 1 : all[i] < all[i + 1]
        /\ Len(all) + dropped = pushed

(* Liveness *)

\* A connection that stays open is seen as connected, and what is queued is then
\* delivered.  It does not hold: afterPublishFailure may mark the connection as
\* lost when the next one is up, and nothing then marks that one as connected.
ConnectionIsUsed ==
    <>[](wire = "up") => []<>(queue = <<>> /\ flight = <<>>)

=============================================================================
