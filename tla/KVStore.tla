-------------------------------- MODULE KVStore --------------------------------
(***************************************************************************)
(* What turbo-persistence promises to its callers: a persistent map that   *)
(* is changed by whole write batches, one at a time.  A batch first        *)
(* becomes visible to readers and then durable.  The visible map is at     *)
(* most one batch ahead of the durable one, and a restart comes back with  *)
(* the durable map or, when the batch was just being made durable, with    *)
(* the visible one -- never with part of a batch.                          *)
(***************************************************************************)
CONSTANTS
    Key,        \* the keys
    Value,      \* the values
    NotFound    \* the answer for a key that is not in the store

VARIABLES
    store,      \* what readers see
    durable,    \* what survives a crash
    up          \* TRUE iff the database is open

vars == <<store, durable, up>>

Map == [Key -> Value \cup {NotFound}]

Init == /\ store = [k \in Key |-> NotFound]
        /\ durable = store
        /\ up = FALSE

(* The database is opened.                                                 *)
Open == /\ ~up
        /\ up' = TRUE
        /\ UNCHANGED <<store, durable>>

(* A batch becomes visible as a whole.                                     *)
Write == /\ up
         /\ store = durable
         /\ store' \in Map
         /\ UNCHANGED <<durable, up>>

(* The visible batch becomes durable.                                      *)
Persist == /\ up
           /\ durable' = store
           /\ UNCHANGED <<store, up>>

(* The process or the machine stops.                                       *)
Crash == /\ up' = FALSE
         /\ store' \in {durable, store}
         /\ durable' = store'

Next == Open \/ Write \/ Persist \/ Crash

Spec == Init /\ [][Next]_vars
=============================================================================
