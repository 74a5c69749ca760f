--------------------------- MODULE DurableLatest ---------------------------
(***************************************************************************)
(* What a write-behind store of latest values promises, said without its   *)
(* queue, its goroutine and its retries: a current value per tag that its  *)
(* clients read, and a durable one that a restart brings back.             *)
(***************************************************************************)
EXTENDS Naturals

CONSTANTS Tags, DataTypes

VARIABLES phase,     \* "down", "up", or how the store was closed
          existing,  \* the tags that exist
          types,     \* the data type of each tag
          current,   \* the latest value of each tag
          durable    \* the value of each tag that survives a crash

vars == <<phase, existing, types, current, durable>>

None  == [seq |-> 0, type |-> CHOOSE d \in DataTypes : TRUE]
Empty == [t \in Tags |-> None]

Init ==
  /\ phase = "down"
  /\ existing = Tags
  /\ types \in [Tags -> DataTypes]
  /\ current = Empty
  /\ durable = Empty

\* A process starts from the durable values that still have their tag's type.
Open ==
  /\ phase = "down"
  /\ phase' = "up"
  /\ current' = [t \in Tags |-> IF t \in existing /\ durable[t].type = types[t]
                                THEN durable[t] ELSE None]
  /\ UNCHANGED <<existing, types, durable>>

\* A value becomes current, newer than those of all tags. Its type is up to the
\* caller, which may not know yet that the tag's type has changed.
Put(t) ==
  /\ phase = "up"
  /\ current' = [current EXCEPT ![t] = current'[t]]
  /\ current'[t].type \in DataTypes
  /\ \A u \in Tags : current[u].seq < current'[t].seq
  /\ UNCHANGED <<phase, existing, types, durable>>

\* A newer value becomes durable, the current one or one it has replaced.
Persist(t) ==
  /\ phase = "up" /\ t \in existing
  /\ durable' = [durable EXCEPT ![t] = durable'[t]]
  /\ durable[t].seq < durable'[t].seq
  /\ \/ durable'[t] = current[t]
     \/ durable'[t].seq < current[t].seq
  /\ UNCHANGED <<phase, existing, types, current>>

\* An orderly end: nothing newer than the durable values remains.
Drain ==
  /\ phase = "up" /\ phase' = "drained"
  /\ \A t \in existing : current[t].seq <= durable[t].seq
  /\ UNCHANGED <<existing, types, current, durable>>

\* The store gives up on values it could not make durable in time.
Abandon ==
  /\ phase = "up" /\ phase' = "abandoned"
  /\ UNCHANGED <<existing, types, current, durable>>

\* The process exits.
Crash ==
  /\ phase # "down" /\ phase' = "down"
  /\ current' = Empty
  /\ UNCHANGED <<existing, types, durable>>

Delete(t) ==
  /\ t \in existing
  /\ existing' = existing \ {t}
  /\ durable' = [durable EXCEPT ![t] = None]
  /\ UNCHANGED <<phase, types, current>>

Retype(t, d) ==
  /\ t \in existing
  /\ types' = [types EXCEPT ![t] = d]
  /\ UNCHANGED <<phase, existing, current, durable>>

Next ==
  \/ Open \/ Drain \/ Abandon \/ Crash
  \/ \E t \in Tags : Put(t) \/ Persist(t) \/ Delete(t)
  \/ \E t \in Tags, d \in DataTypes : Retype(t, d)

Spec == Init /\ [][Next]_vars

=============================================================================
