---------------------------- MODULE TurboTasksTaskCache ----------------------------
(***************************************************************************)
(* How the turbo-tasks backend (turbopack/crates/turbo-tasks-backend)      *)
(* names its tasks: get_or_create_persistent_task of backend/mod.rs, the   *)
(* ids of turbo-tasks/src/id_factory.rs, and the part of a snapshot that   *)
(* saves the names and the next free id (kv_backing_storage.rs).           *)
(*                                                                         *)
(* Threads call a function (its type with the arguments is a Type) and get *)
(* the id of its task.  A call is no operation: a snapshot does not wait   *)
(* for it, and only the connect_child at its end is suspended.  What an    *)
(* operation logs under an id is kept as <<type, id>>, with the type that  *)
(* the thread had called, so that data of one task under the id of another *)
(* shows.                                                                  *)
(***************************************************************************)
EXTENDS Integers

CONSTANTS
    Thread,
    Type,           \* the CachedTaskTypes that are called
    MaxCalls,       \* bound: how many calls are made
    MaxSnapshots,   \* bound: how many snapshots are requested
    MaxFailures,    \* bound: how many of them are not saved
    MaxStops        \* bound: how often the process stops and starts

Id == Nat \ {0}     \* a TaskId is a NonZero
NoId == 0

VARIABLES
    next_id, free_ids,   \* persisted_task_id_factory
    task_cache,          \* the forward map of the BiMap; the reverse one is its inverse
    task_cache_log,      \* the names not taken by a snapshot
    data_log,            \* the data not taken by a snapshot, under an id
    call,                \* what each thread does, the type it called and the id it has
    snapshot,            \* where the snapshot thread is
    taken,               \* the data and the names it saves
    database,            \* names (both task cache key spaces), data, next free task id
    forgotten,           \* history: ids with saved data and no saved name, at a stop
    calls, snapshots, failures, stops   \* counters for the bounds

factory == <<next_id, free_ids>>
logs    == <<task_cache_log, data_log>>
bounds  == <<calls, snapshots, failures, stops>>
vars    == <<factory, task_cache, logs, call, snapshot, taken, database, forgotten, bounds>>

idle == [pc |-> "idle"]

(* Thread t goes to where, with an id for the type it called.              *)
goto(t, where, id) ==
    call' = [call EXCEPT ![t] = [pc |-> where, type |-> call[t].type, id |-> id]]

Init ==
    /\ next_id = 1 /\ free_ids = {}
    /\ task_cache = [type \in Type |-> NoId]
    /\ task_cache_log = {} /\ data_log = {}
    /\ call = [t \in Thread |-> idle]
    /\ snapshot = "idle"
    /\ taken = [data |-> {}, names |-> {}]
    /\ database = [names |-> {}, data |-> {}, next |-> 1]
    /\ forgotten = {}
    /\ calls = 0 /\ snapshots = 0 /\ failures = 0 /\ stops = 0

-----------------------------------------------------------------------------
(* get_or_create_persistent_task                                           *)

(* task_cache.lookup_forward: a hit connects the child, a miss goes on.    *)
lookup_forward(t, type) ==
    /\ call[t].pc = "idle"
    /\ calls < MaxCalls
    /\ calls' = calls + 1
    /\ call' = [call EXCEPT ![t] = [pc |-> IF task_cache[type] = NoId THEN "missed" ELSE "connecting",
                                    type |-> type, id |-> task_cache[type]]]
    /\ UNCHANGED <<factory, task_cache, logs, snapshot, taken, database, forgotten,
                   snapshots, failures, stops>>

(* backing_storage.forward_lookup_task_cache                               *)
forward_lookup_task_cache(t) ==
    /\ call[t].pc = "missed"
    /\ \/ \E name \in database.names :
             name[1] = call[t].type /\ goto(t, "found", name[2])
       \/ /\ \A name \in database.names : name[1] # call[t].type
          /\ goto(t, "unknown", NoId)
    /\ UNCHANGED <<factory, task_cache, logs, snapshot, taken, database, forgotten, bounds>>

(* The saved name enters the cache, whose answer is ignored.               *)
insert_found(t) ==
    /\ call[t].pc = "found"
    /\ LET type == call[t].type
       IN  task_cache' = [task_cache EXCEPT ![type] = IF @ = NoId THEN call[t].id ELSE @]
    /\ goto(t, "connecting", call[t].id)
    /\ UNCHANGED <<factory, logs, snapshot, taken, database, forgotten, bounds>>

(* persisted_task_id_factory.get: an id that is free again, or a new one.  *)
(* The queue of free ids is a set: nothing depends on its order.           *)
create_id(t) ==
    /\ call[t].pc = "unknown"
    /\ \/ \E id \in free_ids :
             /\ free_ids' = free_ids \ {id}
             /\ goto(t, "created", id)
             /\ UNCHANGED next_id
       \/ /\ free_ids = {}
          /\ next_id' = next_id + 1
          /\ goto(t, "created", next_id)
          /\ UNCHANGED free_ids
    /\ UNCHANGED <<task_cache, logs, snapshot, taken, database, forgotten, bounds>>

(* Mutant: the thread that lost the race keeps its own id.                 *)
try_insert_own(t) ==
    /\ call[t].pc = "created"
    /\ LET type == call[t].type
           id   == call[t].id
       IN  /\ task_cache' = [task_cache EXCEPT ![type] = IF @ = NoId THEN id ELSE @]
           /\ goto(t, "inserted", id)
    /\ UNCHANGED <<factory, logs, snapshot, taken, database, forgotten, bounds>>

(* Mutant: the id of the other thread's task is freed.                     *)
try_insert_reuse_existing(t) ==
    /\ call[t].pc = "created"
    /\ LET type     == call[t].type
           id       == call[t].id
           existing == task_cache[type]
       IN  IF existing = NoId
             THEN /\ task_cache' = [task_cache EXCEPT ![type] = id]
                  /\ goto(t, "inserted", id)
                  /\ UNCHANGED free_ids
             ELSE /\ free_ids' = free_ids \cup {existing}
                  /\ goto(t, "inserted", existing)
                  /\ UNCHANGED task_cache
    /\ UNCHANGED <<next_id, logs, snapshot, taken, database, forgotten, bounds>>

(* Mutant: only a call that finds the name taken logs it.                  *)
try_insert_log_existing(t) ==
    /\ call[t].pc = "created"
    /\ LET type     == call[t].type
           id       == call[t].id
           existing == task_cache[type]
       IN  IF existing = NoId
             THEN /\ task_cache' = [task_cache EXCEPT ![type] = id]
                  /\ goto(t, "connecting", id)
                  /\ UNCHANGED free_ids
             ELSE /\ free_ids' = free_ids \cup {id}
                  /\ goto(t, "inserted", existing)
                  /\ UNCHANGED task_cache
    /\ UNCHANGED <<next_id, logs, snapshot, taken, database, forgotten, bounds>>

(* task_cache.try_insert; when another thread was first, the new id is     *)
(* reused and the id in the cache taken.                                   *)
try_insert(t) ==
    /\ call[t].pc = "created"
    /\ LET type     == call[t].type
           id       == call[t].id
           existing == task_cache[type]
       IN  IF existing = NoId
             THEN /\ task_cache' = [task_cache EXCEPT ![type] = id]
                  /\ goto(t, "inserted", id)
                  /\ UNCHANGED free_ids
             ELSE /\ free_ids' = free_ids \cup {id}
                  /\ goto(t, "inserted", existing)
                  /\ UNCHANGED task_cache
    /\ UNCHANGED <<next_id, logs, snapshot, taken, database, forgotten, bounds>>

(* The name is pushed to persisted_task_cache_log.                         *)
push_name(t) ==
    /\ call[t].pc = "inserted"
    /\ task_cache_log' = task_cache_log \cup {<<call[t].type, call[t].id>>}
    /\ goto(t, "connecting", call[t].id)
    /\ UNCHANGED <<factory, task_cache, data_log, snapshot, taken, database, forgotten, bounds>>

(* connect_child is an operation: it does not run while the logs are taken *)
(* (see TurboTasksSnapshot).  It logs data under the id of the child, or   *)
(* nothing if the parent had connected it before.                          *)
connect_child(t) ==
    /\ call[t].pc = "connecting"
    /\ snapshot \notin {"taking", "data_taken", "taken"}
    /\ data_log' \in {data_log, data_log \cup {<<call[t].type, call[t].id>>}}
    /\ call' = [call EXCEPT ![t] = idle]
    /\ UNCHANGED <<factory, task_cache, task_cache_log, snapshot, taken, database, forgotten,
                   bounds>>

-----------------------------------------------------------------------------
(* The snapshot thread: the operations are suspended, the logs are taken   *)
(* one after the other, the operations go on, and what was taken is saved. *)

suspend_operations ==
    /\ snapshot = "idle"
    /\ snapshots < MaxSnapshots
    /\ snapshots' = snapshots + 1
    /\ snapshot' = "taking"
    /\ UNCHANGED <<factory, task_cache, logs, call, taken, database, forgotten, calls,
                   failures, stops>>

take_data_log ==
    /\ snapshot = "taking"
    /\ taken' = [taken EXCEPT !.data = data_log]
    /\ data_log' = {}
    /\ snapshot' = "data_taken"
    /\ UNCHANGED <<factory, task_cache, task_cache_log, call, database, forgotten, bounds>>

take_task_cache_log ==
    /\ snapshot = "data_taken"
    /\ taken' = [taken EXCEPT !.names = task_cache_log]
    /\ task_cache_log' = {}
    /\ snapshot' = "taken"
    /\ UNCHANGED <<factory, task_cache, data_log, call, database, forgotten, bounds>>

resume_operations ==
    /\ snapshot = "taken"
    /\ snapshot' = "saving"
    /\ UNCHANGED <<factory, task_cache, logs, call, taken, database, forgotten, bounds>>

nothing_taken == [data |-> {}, names |-> {}]

(* A name that is put replaces the one the type had.                       *)
put(old, new) == {n \in old : \A m \in new : m[1] # n[1]} \cup new

(* What the next free id may become: the one that is saved, or the one     *)
(* above an id that gets a name.                                           *)
next_ids == {database.next} \cup {name[2] + 1 : name \in taken.names}

(* save_snapshot: one batch, with the next free id of the storage raised   *)
(* above every id that gets a name.                                        *)
save_snapshot ==
    /\ snapshot = "saving"
    /\ IF taken = nothing_taken
         THEN UNCHANGED database
         ELSE \E next \in next_ids :
                /\ \A id \in next_ids : id <= next
                /\ database' = [names |-> put(database.names, taken.names),
                                data  |-> database.data \cup taken.data,
                                next  |-> next]
    /\ taken' = nothing_taken
    /\ snapshot' = "idle"
    /\ UNCHANGED <<factory, task_cache, logs, call, forgotten, bounds>>

save_fails ==
    /\ snapshot = "saving"
    /\ taken # nothing_taken
    /\ failures < MaxFailures
    /\ failures' = failures + 1
    /\ taken' = nothing_taken
    /\ snapshot' = "idle"
    /\ UNCHANGED <<factory, task_cache, logs, call, database, forgotten, calls, snapshots, stops>>

-----------------------------------------------------------------------------
named_ids == {name[2] : name \in database.names}

(* Mutant: the new backend begins with id 1.                               *)
restart_from_one ==
    /\ stops < MaxStops
    /\ stops' = stops + 1
    /\ next_id' = 1 /\ free_ids' = {}
    /\ task_cache' = [type \in Type |-> NoId]
    /\ task_cache_log' = {} /\ data_log' = {}
    /\ call' = [t \in Thread |-> idle]
    /\ snapshot' = "idle"
    /\ taken' = nothing_taken
    /\ forgotten' = forgotten \cup ({d[2] : d \in database.data} \ named_ids)
    /\ UNCHANGED <<database, calls, snapshots, failures>>

(* The process stops, and a new backend begins with next_free_task_id.     *)
restart ==
    /\ stops < MaxStops
    /\ stops' = stops + 1
    /\ next_id' = database.next /\ free_ids' = {}
    /\ task_cache' = [type \in Type |-> NoId]
    /\ task_cache_log' = {} /\ data_log' = {}
    /\ call' = [t \in Thread |-> idle]
    /\ snapshot' = "idle"
    /\ taken' = nothing_taken
    /\ forgotten' = forgotten \cup ({d[2] : d \in database.data} \ named_ids)
    /\ UNCHANGED <<database, calls, snapshots, failures>>

-----------------------------------------------------------------------------
get_or_create_persistent_task(t) ==
    \/ \E type \in Type : lookup_forward(t, type)
    \/ forward_lookup_task_cache(t)
    \/ insert_found(t)
    \/ create_id(t)
    \/ try_insert(t)
    \/ push_name(t)
    \/ connect_child(t)

take_snapshot ==
    \/ suspend_operations
    \/ take_data_log
    \/ take_task_cache_log
    \/ resume_operations
    \/ save_snapshot
    \/ save_fails

Next == \/ \E t \in Thread : get_or_create_persistent_task(t)
        \/ take_snapshot
        \/ restart

Spec == Init /\ [][Next]_vars

-----------------------------------------------------------------------------
Called == [pc : {"missed", "unknown"}, type : Type, id : {NoId}]
            \cup [pc : {"found", "created", "inserted", "connecting"}, type : Type, id : Id]

Logged == [data : SUBSET (Type \X Id), names : SUBSET (Type \X Id)]
Saved  == [data : SUBSET (Type \X Id), names : SUBSET (Type \X Id), next : Id]

TypeOK ==
    /\ next_id \in Id
    /\ free_ids \subseteq Id
    /\ task_cache \in [Type -> Id \cup {NoId}]
    /\ task_cache_log \subseteq Type \X Id
    /\ data_log \subseteq Type \X Id
    /\ call \in [Thread -> Called \cup {idle}]
    /\ snapshot \in {"idle", "taking", "data_taken", "taken", "saving"}
    /\ taken \in Logged /\ database \in Saved
    /\ forgotten \subseteq Id
    /\ calls \in Nat /\ snapshots \in Nat /\ failures \in Nat /\ stops \in Nat

-----------------------------------------------------------------------------
(* Properties.                                                             *)

cached_names == {<<type, task_cache[type]>> : type \in {u \in Type : task_cache[u] # NoId}}

(* What is known or will be saved of the tasks' names ...                  *)
names == cached_names \cup task_cache_log \cup taken.names \cup database.names

(* ... all data, in memory and saved ...                                   *)
data == data_log \cup taken.data \cup database.data

(* ... the names the calls answer with, and the ids they just created.     *)
answers == {<<call[t].type, call[t].id>> :
               t \in {u \in Thread : call[u].pc \in {"found", "inserted", "connecting"}}}
created(t) == IF call[t].pc = "created" THEN {call[t].id} ELSE {}

(* A task has one id and an id has one task, across the cache, the logs,   *)
(* the storage, and the calls that answer with an id, over restarts.       *)
NamesAreUnique == \A m, n \in names \cup answers : m[1] = n[1] <=> m[2] = n[2]

(* An id that will be handed out names nothing and nobody has it; two      *)
(* calls never have the same new id (id_factory.rs: "It must be ensured    *)
(* that the id is no longer used").                                        *)
FreeIdsAreFree ==
    LET used == {n[2] : n \in names \cup answers} \cup ({d[2] : d \in data} \ forgotten)
        new  == UNION {created(t) : t \in Thread}
    IN  /\ \A id \in used \cup new : id < next_id /\ id \notin free_ids
        /\ used \cap new = {}
        /\ \A t, u \in Thread : t # u => created(t) \cap created(u) = {}

(* Data is kept under the id of its own task, unless a stop had left data  *)
(* under that id without a name.                                           *)
OwnData ==
    \A d \in data : d[2] \notin forgotten =>
        \A n \in names \cup answers : n[2] = d[2] => n[1] = d[1]

(* A task that has data has a name that is saved or will be, unless the    *)
(* call that put it into the cache has not logged it yet, or a snapshot    *)
(* was not saved.                                                          *)
DataIsNamed ==
    failures = 0 =>
        \A d \in data :
            \/ d \in task_cache_log \cup taken.names \cup database.names
            \/ d[2] \in forgotten
            \/ \E t \in Thread :
                  call[t].pc = "inserted" /\ <<call[t].type, call[t].id>> = d

(* A task that was saved keeps its id in the storage, and the ids below    *)
(* the next free one stay taken, whatever is saved later in whatever life  *)
(* of the process.                                                         *)
SavedNamesStay ==
    [][database.names \subseteq database'.names /\ database.next <= database'.next]_vars
=============================================================================
