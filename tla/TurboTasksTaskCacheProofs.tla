------------------------ MODULE TurboTasksTaskCacheProofs ------------------------
(***************************************************************************)
(* Theorems about TurboTasksTaskCache, for every set of threads and of     *)
(* types and any number of calls, snapshots, failures and stops.           *)
(*                                                                         *)
(* The argument: a type gets a new name only when the cache has none, so   *)
(* neither have the logs, which the cache covers (CacheIsComplete), and    *)
(* the storage was asked before (LookedUp).  The id of the new name is one *)
(* that no name, no data and no other call has (CreatedIsNew), because     *)
(* such ids are below next_id and not free (Below).                        *)
(***************************************************************************)
EXTENDS TurboTasksTaskCache, TLAPS

-----------------------------------------------------------------------------
LEMMA TypesInit == Init => TypeOK
BY DEF Init, TypeOK, Id, NoId, Logged, Saved, idle

(* A call that goes somewhere stays a call, with or without an id.         *)
LEMMA GotoTyped ==
    ASSUME NEW t \in Thread, NEW where, NEW id,
           call \in [Thread -> Called \cup {idle}], call[t].type \in Type, goto(t, where, id),
           \/ where \in {"found", "created", "inserted", "connecting"} /\ id \in Id
           \/ where \in {"missed", "unknown"} /\ id = NoId
    PROVE  call' \in [Thread -> Called \cup {idle}]
<1>1. [pc |-> where, type |-> call[t].type, id |-> id] \in Called
  BY DEF Called
<1> QED  BY <1>1 DEF goto

LEMMA TypesStep == TypeOK /\ [Next]_vars => TypeOK'
<1> SUFFICES ASSUME TypeOK, [Next]_vars PROVE TypeOK'
  OBVIOUS
<1> USE DEF TypeOK, Id, NoId, bounds, logs, factory
<1>1. ASSUME NEW t \in Thread, NEW type \in Type, lookup_forward(t, type) PROVE TypeOK'
  BY <1>1 DEF lookup_forward, Called
<1>2. ASSUME NEW t \in Thread, forward_lookup_task_cache(t) PROVE TypeOK'
  <2>1. call[t].type \in Type
    BY <1>2 DEF forward_lookup_task_cache, idle, Called
  <2>2. \A name \in database.names : name[2] \in Id
    BY DEF Saved
  <2>3. call' \in [Thread -> Called \cup {idle}]
    BY <1>2, <2>1, <2>2, GotoTyped DEF forward_lookup_task_cache
  <2> QED  BY <1>2, <2>3 DEF forward_lookup_task_cache
<1>3. ASSUME NEW t \in Thread, insert_found(t) PROVE TypeOK'
  <2>1. call[t].type \in Type /\ call[t].id \in Id
    BY <1>3 DEF insert_found, idle, Called
  <2>2. call' \in [Thread -> Called \cup {idle}]
    BY <1>3, <2>1, GotoTyped DEF insert_found
  <2> QED  BY <1>3, <2>1, <2>2 DEF insert_found
<1>4. ASSUME NEW t \in Thread, create_id(t) PROVE TypeOK'
  <2>1. call[t].type \in Type
    BY <1>4 DEF create_id, idle, Called
  <2>2. call' \in [Thread -> Called \cup {idle}]
    BY <1>4, <2>1, GotoTyped DEF create_id
  <2>3. next_id' \in Id /\ free_ids' \subseteq Id
    <3>1. next_id \in Nat /\ next_id # 0 /\ free_ids \subseteq Nat \ {0}
      OBVIOUS
    <3>2. \/ next_id' = next_id /\ free_ids' \subseteq free_ids
          \/ next_id' = next_id + 1 /\ free_ids' = free_ids
      BY <1>4 DEF create_id
    <3> HIDE DEF TypeOK
    <3>3. next_id + 1 \in Nat /\ next_id + 1 # 0
      BY <3>1
    <3>4. next_id' \in Id
      BY <3>1, <3>2, <3>3
    <3>5. free_ids' \subseteq Id
      BY <3>1, <3>2
    <3> QED  BY <3>4, <3>5
  <2>4. UNCHANGED <<task_cache, logs, snapshot, taken, database, forgotten, bounds>>
    BY <1>4 DEF create_id
  <2> QED  BY <2>2, <2>3, <2>4
<1>5. ASSUME NEW t \in Thread, try_insert(t) PROVE TypeOK'
  <2>1. call[t].type \in Type /\ call[t].id \in Id
    BY <1>5 DEF try_insert, idle, Called
  <2>2. call' \in [Thread -> Called \cup {idle}]
    BY <1>5, <2>1, GotoTyped DEF try_insert
  <2>3. task_cache' \in [Type -> Id \cup {NoId}] /\ free_ids' \subseteq Id
    <3> HIDE DEF Id
    <3> QED  BY <1>5, <2>1 DEF try_insert
  <2>4. UNCHANGED <<next_id, logs, snapshot, taken, database, forgotten, bounds>>
    BY <1>5 DEF try_insert
  <2> QED  BY <2>2, <2>3, <2>4
<1>6. ASSUME NEW t \in Thread, push_name(t) PROVE TypeOK'
  <2>1. call[t].type \in Type /\ call[t].id \in Id
    BY <1>6 DEF push_name, idle, Called
  <2>2. call' \in [Thread -> Called \cup {idle}]
    BY <1>6, <2>1, GotoTyped DEF push_name
  <2>3. task_cache_log' \subseteq Type \X Id
    <3> HIDE DEF Id
    <3> QED  BY <1>6, <2>1 DEF push_name
  <2> QED  BY <1>6, <2>2, <2>3 DEF push_name
<1>7. ASSUME NEW t \in Thread, connect_child(t) PROVE TypeOK'
  <2>1. call[t].type \in Type /\ call[t].id \in Id
    BY <1>7 DEF connect_child, idle, Called
  <2> QED  BY <1>7, <2>1 DEF connect_child
<1>8. CASE suspend_operations
  BY <1>8 DEF suspend_operations
<1>9. CASE take_data_log
  BY <1>9 DEF take_data_log, Logged
<1>10. CASE take_task_cache_log
  BY <1>10 DEF take_task_cache_log, Logged
<1>11. CASE resume_operations
  BY <1>11 DEF resume_operations
<1>12. CASE save_snapshot
  BY <1>12 DEF save_snapshot, nothing_taken, put, next_ids, Logged, Saved
<1>13. CASE save_fails
  BY <1>13 DEF save_fails, nothing_taken, Logged
<1>14. CASE restart
  <2>1. database.data \subseteq Type \X Id /\ forgotten \subseteq Id
    BY DEF Saved
  <2>2. \A d \in database.data : d[2] \in Id
    BY <2>1
  <2>3. forgotten' = forgotten \cup ({d[2] : d \in database.data} \ named_ids)
    BY <1>14 DEF restart
  <2>4. forgotten' \subseteq Id
    <3> HIDE DEF Id, TypeOK
    <3> QED  BY <2>1, <2>2, <2>3
  <2> QED  BY <1>14, <2>4 DEF restart, nothing_taken, Logged, Saved, idle
<1>15. CASE UNCHANGED vars
  BY <1>15 DEF vars
<1> QED
  BY <1>1, <1>2, <1>3, <1>4, <1>5, <1>6, <1>7, <1>8, <1>9, <1>10, <1>11, <1>12, <1>13, <1>14, <1>15
  DEF Next, get_or_create_persistent_task, take_snapshot

-----------------------------------------------------------------------------
all == names \cup answers

(* What is in use is below next_id and not free, and what is saved is      *)
(* below the saved next free id.                                           *)
Below ==
    /\ \A n \in all : n[2] < next_id /\ n[2] \notin free_ids
    /\ \A d \in data : d[2] \in forgotten \/ (d[2] < next_id /\ d[2] \notin free_ids)
    /\ \A id \in free_ids : id < next_id
    /\ \A n \in database.names : n[2] < database.next
    /\ database.next <= next_id

(* A new id that is not in the cache yet is used nowhere.                  *)
CreatedIsNew ==
    \A t \in Thread : call[t].pc = "created" =>
        /\ call[t].id < next_id /\ call[t].id \notin free_ids
        /\ \A n \in all : n[2] # call[t].id
        /\ \A d \in data : d[2] = call[t].id => d[2] \in forgotten
        /\ \A u \in Thread : call[u].pc = "created" /\ call[u].id = call[t].id => u = t

(* The cache never forgets: it has all names of the logs, and what calls   *)
(* inserted.                                                               *)
CacheIsComplete ==
    /\ \A n \in task_cache_log \cup taken.names : task_cache[n[1]] = n[2]
    /\ \A t \in Thread : call[t].pc \in {"inserted", "connecting"} =>
          task_cache[call[t].type] = call[t].id

(* What a call knows about the storage stays true until it inserts.        *)
LookedUp ==
    \A t \in Thread :
        /\ call[t].pc = "found" => <<call[t].type, call[t].id>> \in database.names
        /\ call[t].pc \in {"unknown", "created"} =>
              \/ task_cache[call[t].type] # NoId
              \/ \A n \in database.names : n[1] # call[t].type

(* The inductive invariant.                                                *)
Inv == /\ TypeOK
       /\ NamesAreUnique
       /\ Below
       /\ CreatedIsNew
       /\ CacheIsComplete
       /\ LookedUp
       /\ OwnData

-----------------------------------------------------------------------------
LEMMA InitInv == Init => Inv
<1> SUFFICES ASSUME Init PROVE Inv
  OBVIOUS
<1>1. names = {} /\ data = {} /\ answers = {}
  BY DEF Init, names, data, answers, cached_names, idle
<1> QED  BY <1>1, TypesInit DEF Init, Inv, NamesAreUnique, Below, CreatedIsNew, CacheIsComplete,
                               LookedUp, OwnData, all, idle, Id

LEMMA Typed ==
    ASSUME TypeOK
    PROVE  /\ all \subseteq Type \X Id
           /\ data \subseteq Type \X Id
           /\ \A t \in Thread : call[t].pc # "idle" => call[t].type \in Type
           /\ \A t \in Thread :
                call[t].pc \in {"found", "created", "inserted", "connecting"} => call[t].id \in Id
<1>1. \A t \in Thread : call[t].pc # "idle" => call[t] \in Called
  BY DEF TypeOK, idle
<1>2. answers \subseteq Type \X Id
  BY <1>1 DEF answers, Called
<1>3. cached_names \subseteq Type \X Id
  BY DEF cached_names, TypeOK, Id, NoId
<1>4. data \subseteq Type \X Id
  BY DEF TypeOK, data, Logged, Saved
<1>5. task_cache_log \cup taken.names \cup database.names \subseteq Type \X Id
  BY DEF TypeOK, Logged, Saved
<1> QED  BY <1>1, <1>2, <1>3, <1>4, <1>5 DEF all, names, Called

-----------------------------------------------------------------------------
(* A step that hands out no id and forgets none: it keeps names, makes     *)
(* data of them, and may end a call.                                       *)
Bounded == /\ \A n \in database.names : n[2] < database.next
           /\ database.next <= next_id

LEMMA Kept ==
    ASSUME TypeOK, NamesAreUnique, Below, CreatedIsNew, OwnData,
           all' \subseteq all, data' \subseteq data \cup all,
           UNCHANGED <<next_id, free_ids, forgotten>>,
           Bounded',
           \A t \in Thread : call'[t].pc = "created" =>
               call[t].pc = "created" /\ call'[t].id = call[t].id
    PROVE  NamesAreUnique' /\ Below' /\ CreatedIsNew' /\ OwnData'
<1>1. NamesAreUnique'
  BY DEF NamesAreUnique, all
<1>2. Below'
  <2>1. \A n \in all' : n[2] < next_id' /\ n[2] \notin free_ids'
    BY DEF Below
  <2>2. \A d \in data' : d[2] \in forgotten' \/ (d[2] < next_id' /\ d[2] \notin free_ids')
    BY DEF Below
  <2> QED  BY <2>1, <2>2 DEF Below, Bounded
<1>3. CreatedIsNew'
  BY DEF CreatedIsNew
<1>4. OwnData'
  <2>1. \A d, n \in all : n[2] = d[2] => n[1] = d[1]
    BY DEF NamesAreUnique, all
  <2>2. \A d \in data : d[2] \notin forgotten => \A n \in all : n[2] = d[2] => n[1] = d[1]
    BY DEF OwnData, all
  <2> QED  BY <2>1, <2>2 DEF OwnData, all
<1> QED  BY <1>1, <1>2, <1>3, <1>4

-----------------------------------------------------------------------------
(* What goto does to the calls' answers, and to the other threads.         *)
LEMMA GotoAnswers ==
    ASSUME TypeOK, NEW t \in Thread, NEW where, NEW id, goto(t, where, id)
    PROVE  /\ answers' \subseteq answers \cup {<<call[t].type, id>>}
           /\ where \notin {"found", "inserted", "connecting"} => answers' \subseteq answers
           /\ call'[t].pc = where /\ call'[t].type = call[t].type /\ call'[t].id = id
           /\ \A u \in Thread \ {t} : call'[u] = call[u]
<1>1. /\ call'[t].pc = where /\ call'[t].type = call[t].type /\ call'[t].id = id
      /\ \A u \in Thread \ {t} : call'[u] = call[u]
  BY DEF goto, TypeOK
<1> QED  BY <1>1 DEF answers

LEMMA LookupForwardInv ==
    ASSUME Inv, TypeOK', NEW t \in Thread, NEW type \in Type, lookup_forward(t, type) PROVE Inv'
<1> USE DEF Inv
<1>1. /\ call'[t].pc = IF task_cache[type] = NoId THEN "missed" ELSE "connecting"
      /\ call'[t].type = type /\ call'[t].id = task_cache[type]
      /\ \A u \in Thread \ {t} : call'[u] = call[u]
  BY DEF lookup_forward, TypeOK
<1>2. /\ names' = names /\ data' = data
      /\ UNCHANGED <<next_id, free_ids, forgotten, task_cache, task_cache_log, taken, database>>
  BY DEF lookup_forward, factory, logs, names, cached_names, data
<1>3. all' \subseteq all
  <2>1. answers' \subseteq answers \cup cached_names
    BY <1>1 DEF answers, cached_names
  <2> QED  BY <2>1, <1>2 DEF all, names
<1>4. NamesAreUnique' /\ Below' /\ CreatedIsNew' /\ OwnData'
  BY <1>1, <1>2, <1>3, Kept DEF Bounded, Below
<1>5. CacheIsComplete'
  BY <1>1, <1>2 DEF CacheIsComplete
<1>6. LookedUp'
  BY <1>1, <1>2 DEF LookedUp
<1> QED  BY <1>4, <1>5, <1>6

LEMMA ForwardLookupInv ==
    ASSUME Inv, TypeOK', NEW t \in Thread, forward_lookup_task_cache(t) PROVE Inv'
<1> USE DEF Inv
<1>1. /\ names' = names /\ data' = data
      /\ UNCHANGED <<next_id, free_ids, forgotten, task_cache, task_cache_log, taken, database>>
  BY DEF forward_lookup_task_cache, factory, logs, names, cached_names, data
<1>2. CASE \E name \in database.names : name[1] = call[t].type /\ goto(t, "found", name[2])
  <2>1. PICK name \in database.names : name[1] = call[t].type /\ goto(t, "found", name[2])
    BY <1>2
  <2>2. name = <<call[t].type, name[2]>>
    BY <2>1 DEF TypeOK, Saved
  <2>3. all' \subseteq all
    BY <1>1, <2>1, <2>2, GotoAnswers DEF all, names
  <2>4. /\ call'[t].pc = "found" /\ call'[t].type = call[t].type /\ call'[t].id = name[2]
        /\ \A u \in Thread \ {t} : call'[u] = call[u]
    BY <2>1, GotoAnswers
  <2>5. NamesAreUnique' /\ Below' /\ CreatedIsNew' /\ OwnData'
    BY <1>1, <2>3, <2>4, Kept DEF Bounded, Below
  <2>6. CacheIsComplete'
    BY <1>1, <2>4 DEF CacheIsComplete
  <2>7. LookedUp'
    BY <1>1, <2>2, <2>4 DEF LookedUp
  <2> QED  BY <2>5, <2>6, <2>7
<1>3. CASE (\A name \in database.names : name[1] # call[t].type) /\ goto(t, "unknown", NoId)
  <2>1. /\ call'[t].pc = "unknown" /\ call'[t].type = call[t].type
        /\ \A u \in Thread \ {t} : call'[u] = call[u]
    BY <1>3, GotoAnswers
  <2>2. all' \subseteq all
    BY <1>1, <1>3, GotoAnswers DEF all
  <2>3. NamesAreUnique' /\ Below' /\ CreatedIsNew' /\ OwnData'
    BY <1>1, <2>1, <2>2, Kept DEF Bounded, Below
  <2>4. CacheIsComplete'
    BY <1>1, <2>1 DEF CacheIsComplete
  <2>5. LookedUp'
    BY <1>1, <1>3, <2>1 DEF LookedUp
  <2> QED  BY <2>3, <2>4, <2>5
<1> QED  BY <1>2, <1>3 DEF forward_lookup_task_cache

LEMMA InsertFoundInv ==
    ASSUME Inv, TypeOK', NEW t \in Thread, insert_found(t) PROVE Inv'
<1> USE DEF Inv
<1> DEFINE type == call[t].type  id == call[t].id
<1>1. /\ type \in Type /\ id \in Id /\ call[t].pc = "found"
      /\ <<type, id>> \in database.names
  BY Typed DEF insert_found, LookedUp
<1>2. /\ data' = data /\ goto(t, "connecting", id)
      /\ task_cache' = [task_cache EXCEPT ![type] = IF @ = NoId THEN id ELSE @]
      /\ UNCHANGED <<next_id, free_ids, forgotten, task_cache_log, taken, database>>
  BY DEF insert_found, factory, logs, data
<1>3. /\ call'[t].pc = "connecting" /\ call'[t].type = type /\ call'[t].id = id
      /\ \A u \in Thread \ {t} : call'[u] = call[u]
  BY <1>2, GotoAnswers
(* If the type is in the cache already, it is there with this id.          *)
<1>4. task_cache[type] = NoId \/ task_cache[type] = id
  <2> SUFFICES ASSUME task_cache[type] # NoId PROVE task_cache[type] = id
    OBVIOUS
  <2>1. <<type, task_cache[type]>> \in names
    BY <1>1 DEF names, cached_names
  <2>2. <<type, id>> \in names
    BY <1>1 DEF names
  <2> QED  BY <2>1, <2>2 DEF NamesAreUnique
<1>5. task_cache' = [task_cache EXCEPT ![type] = id]
  BY <1>2, <1>4
<1>6. \A u \in Type : task_cache'[u] = IF u = type THEN id ELSE task_cache[u]
  BY <1>5 DEF TypeOK
<1>7. all' \subseteq all
  <2>1. cached_names' \subseteq cached_names \cup {<<type, id>>}
    BY <1>6 DEF cached_names
  <2>2. answers' \subseteq answers \cup {<<type, id>>}
    BY <1>2, GotoAnswers
  <2> QED  BY <1>1, <1>2, <2>1, <2>2 DEF all, names
<1>8. NamesAreUnique' /\ Below' /\ CreatedIsNew' /\ OwnData'
  BY <1>2, <1>3, <1>7, Kept DEF Bounded, Below
<1>9. CacheIsComplete'
  <2>1. \A n \in task_cache_log \cup taken.names : task_cache'[n[1]] = n[2]
    <3> TAKE n \in task_cache_log \cup taken.names
    <3>1. n[1] \in Type /\ task_cache[n[1]] = n[2] /\ n[2] # NoId
      BY DEF TypeOK, Logged, CacheIsComplete, Id, NoId
    <3> QED  BY <1>4, <1>6, <3>1
  <2>2. \A u \in Thread : call'[u].pc \in {"inserted", "connecting"} =>
          task_cache'[call'[u].type] = call'[u].id
    <3> SUFFICES ASSUME NEW u \in Thread, u # t, call[u].pc \in {"inserted", "connecting"}
                 PROVE  task_cache'[call[u].type] = call[u].id
      BY <1>1, <1>3, <1>6
    <3>1. call[u].type \in Type /\ call[u].id \in Id /\ task_cache[call[u].type] = call[u].id
      BY Typed DEF CacheIsComplete
    <3> QED  BY <1>4, <1>6, <3>1 DEF Id, NoId
  <2> QED  BY <1>2, <2>1, <2>2 DEF CacheIsComplete
<1>10. LookedUp'
  <2> SUFFICES ASSUME NEW u \in Thread
               PROVE  /\ call'[u].pc = "found" => <<call'[u].type, call'[u].id>> \in database.names
                      /\ call'[u].pc \in {"unknown", "created"} =>
                            \/ task_cache'[call'[u].type] # NoId
                            \/ \A n \in database.names : n[1] # call'[u].type
    BY <1>2 DEF LookedUp
  <2>1. CASE u = t
    BY <1>3, <2>1
  <2>2. CASE u # t
    <3>1. call[u].pc \in {"unknown", "created"} => call[u].type \in Type
      BY Typed
    <3> QED  BY <1>1, <1>3, <1>6, <2>2, <3>1 DEF LookedUp, Id, NoId
  <2> QED  BY <2>1, <2>2
<1> QED  BY <1>8, <1>9, <1>10

LEMMA PushNameInv ==
    ASSUME Inv, TypeOK', NEW t \in Thread, push_name(t) PROVE Inv'
<1> USE DEF Inv
<1>1. /\ data' = data /\ goto(t, "connecting", call[t].id) /\ call[t].pc = "inserted"
      /\ task_cache_log' = task_cache_log \cup {<<call[t].type, call[t].id>>}
      /\ UNCHANGED <<next_id, free_ids, forgotten, task_cache, taken, database>>
  BY DEF push_name, factory, data
<1>2. <<call[t].type, call[t].id>> \in answers
  BY <1>1 DEF answers
<1>3. /\ call'[t].pc = "connecting" /\ call'[t].type = call[t].type /\ call'[t].id = call[t].id
      /\ \A u \in Thread \ {t} : call'[u] = call[u]
  BY <1>1, GotoAnswers
<1>4. all' \subseteq all
  BY <1>1, <1>2, GotoAnswers DEF all, names, cached_names
<1>5. NamesAreUnique' /\ Below' /\ CreatedIsNew' /\ OwnData'
  BY <1>1, <1>3, <1>4, Kept DEF Bounded, Below
<1>6. CacheIsComplete'
  BY <1>1, <1>3 DEF CacheIsComplete
<1>7. LookedUp'
  BY <1>1, <1>3 DEF LookedUp
<1> QED  BY <1>5, <1>6, <1>7

LEMMA ConnectChildInv ==
    ASSUME Inv, TypeOK', NEW t \in Thread, connect_child(t) PROVE Inv'
<1> USE DEF Inv
<1>1. /\ call[t].pc = "connecting" /\ names' = names
      /\ UNCHANGED <<next_id, free_ids, forgotten, task_cache, task_cache_log, taken, database>>
  BY DEF connect_child, factory, names, cached_names
<1>2. call'[t] = idle /\ \A u \in Thread \ {t} : call'[u] = call[u]
  BY DEF connect_child, TypeOK
<1>3. <<call[t].type, call[t].id>> \in answers
  BY <1>1 DEF answers
<1>4. data' \subseteq data \cup all
  BY <1>1, <1>3 DEF connect_child, data, all
<1>5. all' \subseteq all
  BY <1>1, <1>2 DEF all, answers, idle
<1>6. NamesAreUnique' /\ Below' /\ CreatedIsNew' /\ OwnData'
  BY <1>1, <1>2, <1>4, <1>5, Kept DEF Bounded, Below, idle
<1>7. CacheIsComplete'
  BY <1>1, <1>2 DEF CacheIsComplete, idle
<1>8. LookedUp'
  BY <1>1, <1>2 DEF LookedUp, idle
<1> QED  BY <1>6, <1>7, <1>8

LEMMA CreateIdInv ==
    ASSUME Inv, TypeOK', NEW t \in Thread, create_id(t) PROVE Inv'
<1> USE DEF Inv
<1> DEFINE id == call'[t].id
<1>1. /\ data' = data /\ names' = names /\ call[t].pc = "unknown" /\ goto(t, "created", id)
      /\ UNCHANGED <<forgotten, task_cache, task_cache_log, taken, database>>
  <2>1. \E new : goto(t, "created", new)
    BY DEF create_id
  <2>2. goto(t, "created", id)
    BY <2>1, GotoAnswers
  <2> QED  BY <2>2 DEF create_id, logs, data, names, cached_names
<1>2. /\ call'[t].pc = "created" /\ call'[t].type = call[t].type
      /\ \A u \in Thread \ {t} : call'[u] = call[u]
  BY <1>1, GotoAnswers
<1>3. all' \subseteq all
  BY <1>1, GotoAnswers DEF all
<1>4. next_id \in Nat /\ next_id' \in Nat /\ next_id <= next_id'
  BY DEF create_id, TypeOK, Id
<1>5. free_ids' \subseteq free_ids
  BY DEF create_id
(* Nobody has the new id.                                                  *)
<1>6. /\ id < next_id' /\ id \notin free_ids'
      /\ id \in free_ids \/ id = next_id
  <2>1. CASE \E new \in free_ids : free_ids' = free_ids \ {new} /\ goto(t, "created", new)
                                   /\ UNCHANGED next_id
    BY <2>1, GotoAnswers DEF Below
  <2>2. CASE free_ids = {} /\ next_id' = next_id + 1 /\ goto(t, "created", next_id)
             /\ UNCHANGED free_ids
    BY <1>4, <2>2, GotoAnswers
  <2> QED  BY <2>1, <2>2 DEF create_id
<1>7. /\ \A n \in all : n[2] # id
      /\ \A d \in data : d[2] = id => d[2] \in forgotten
      /\ \A u \in Thread \ {t} : call[u].pc = "created" => call[u].id # id
  BY <1>4, <1>6 DEF Below, CreatedIsNew
<1>8. NamesAreUnique'
  BY <1>3 DEF NamesAreUnique, all
<1>9. OwnData'
  BY <1>1, <1>3 DEF OwnData, all
<1>10. Below'
  <2>1. \A n \in all : n[2] \in Nat
    BY Typed DEF Id
  <2>2. \A n \in all' : n[2] < next_id' /\ n[2] \notin free_ids'
    BY <1>3, <1>4, <1>5, <2>1 DEF Below
  <2>3. \A d \in data : d[2] \in Nat
    BY Typed DEF Id
  <2>4. \A d \in data' : d[2] \in forgotten' \/ (d[2] < next_id' /\ d[2] \notin free_ids')
    BY <1>1, <1>4, <1>5, <2>3 DEF Below
  <2>5. \A other \in free_ids' : other < next_id'
    BY <1>4, <1>5 DEF Below, TypeOK, Id
  <2>6. database'.next <= next_id'
    BY <1>1, <1>4 DEF Below, TypeOK, Saved, Id
  <2>7. \A n \in database'.names : n[2] < database'.next
    BY <1>1 DEF Below
  <2> QED  BY <2>2, <2>4, <2>5, <2>6, <2>7 DEF Below
<1>11. CreatedIsNew'
  <2>1. \A u \in Thread \ {t} : call[u].pc = "created" => call[u].id < next_id'
    <3> SUFFICES ASSUME NEW u \in Thread \ {t}, call[u].pc = "created" PROVE call[u].id < next_id'
      OBVIOUS
    <3>1. call[u].id \in Nat /\ call[u].id < next_id
      BY Typed DEF CreatedIsNew, Id
    <3> QED  BY <1>4, <3>1
  <2> QED  BY <1>1, <1>2, <1>3, <1>5, <1>6, <1>7, <2>1 DEF CreatedIsNew
<1>12. CacheIsComplete'
  BY <1>1, <1>2 DEF CacheIsComplete
<1>13. LookedUp'
  BY <1>1, <1>2 DEF LookedUp
<1> QED  BY <1>8, <1>9, <1>10, <1>11, <1>12, <1>13

LEMMA TryInsertInv ==
    ASSUME Inv, TypeOK', NEW t \in Thread, try_insert(t) PROVE Inv'
<1> USE DEF Inv
<1> DEFINE type == call[t].type  id == call[t].id  existing == task_cache[type]
<1>1. /\ call[t].pc = "created" /\ type \in Type /\ id \in Id
      /\ data' = data
      /\ UNCHANGED <<next_id, forgotten, task_cache_log, taken, database>>
  BY Typed DEF try_insert, logs, data
<1>2. /\ id < next_id /\ id \notin free_ids
      /\ \A n \in all : n[2] # id
      /\ \A d \in data : d[2] = id => d[2] \in forgotten
      /\ \A u \in Thread \ {t} : call[u].pc = "created" => call[u].id # id
  BY <1>1 DEF CreatedIsNew
<1>3. CASE existing # NoId
  <2>1. /\ free_ids' = free_ids \cup {id} /\ goto(t, "inserted", existing)
        /\ task_cache' = task_cache /\ names' = names
    BY <1>1, <1>3 DEF try_insert, names, cached_names
  <2>2. /\ call'[t].pc = "inserted" /\ call'[t].type = type /\ call'[t].id = existing
        /\ \A u \in Thread \ {t} : call'[u] = call[u]
    BY <2>1, GotoAnswers
  <2>3. all' \subseteq all
    BY <1>1, <1>3, <2>1, GotoAnswers DEF all, names, cached_names
  <2>4. NamesAreUnique'
    BY <2>3 DEF NamesAreUnique, all
  <2>5. OwnData'
    BY <1>1, <2>3 DEF OwnData, all
  <2>6. Below'
    BY <1>1, <1>2, <2>1, <2>3 DEF Below
  <2>7. CreatedIsNew'
    BY <1>1, <1>2, <2>1, <2>2, <2>3 DEF CreatedIsNew
  <2>8. CacheIsComplete'
    BY <1>1, <2>1, <2>2 DEF CacheIsComplete
  <2>9. LookedUp'
    BY <1>1, <2>1, <2>2 DEF LookedUp
  <2> QED  BY <2>4, <2>5, <2>6, <2>7, <2>8, <2>9
<1>4. CASE existing = NoId
  <2>1. /\ task_cache' = [task_cache EXCEPT ![type] = id] /\ goto(t, "inserted", id)
        /\ free_ids' = free_ids
    BY <1>4 DEF try_insert
  <2>2. /\ call'[t].pc = "inserted" /\ call'[t].type = type /\ call'[t].id = id
        /\ \A u \in Thread \ {t} : call'[u] = call[u]
    BY <2>1, GotoAnswers
  <2>3. \A u \in Type : task_cache'[u] = IF u = type THEN id ELSE task_cache[u]
    BY <2>1 DEF TypeOK
  <2>4. all' \subseteq all \cup {<<type, id>>}
    <3>1. cached_names' \subseteq cached_names \cup {<<type, id>>}
      BY <2>3 DEF cached_names
    <3>2. answers' \subseteq answers \cup {<<type, id>>}
      BY <2>1, GotoAnswers
    <3> QED  BY <1>1, <3>1, <3>2 DEF all, names
  (* The type has no other name: not in the cache, so not in the logs, and *)
  (* not in the storage, which was asked.                                  *)
  <2>5. \A n \in all : n[1] # type
    <3>1. \A n \in cached_names : n[1] # type
      BY <1>4 DEF cached_names
    <3>2. \A n \in task_cache_log \cup taken.names : n[1] # type
      BY <1>4 DEF CacheIsComplete, TypeOK, Logged, Id, NoId
    <3>3. \A n \in database.names : n[1] # type
      BY <1>1, <1>4 DEF LookedUp
    <3>4. \A n \in answers : n[1] # type
      <4> SUFFICES ASSUME NEW u \in Thread, call[u].pc \in {"found", "inserted", "connecting"}
                   PROVE  call[u].type # type
        BY DEF answers
      <4>1. CASE call[u].pc = "found"
        BY <3>3, <4>1 DEF LookedUp
      <4>2. CASE call[u].pc \in {"inserted", "connecting"}
        BY <1>4, <4>2, Typed DEF CacheIsComplete, Id, NoId
      <4> QED  BY <4>1, <4>2
    <3> QED  BY <3>1, <3>2, <3>3, <3>4 DEF all, names
  <2>6. NamesAreUnique'
    BY <1>2, <2>4, <2>5 DEF NamesAreUnique, all
  <2>7. OwnData'
    BY <1>1, <1>2, <2>4 DEF OwnData, all
  <2>8. Below'
    BY <1>1, <1>2, <2>1, <2>4 DEF Below
  <2>9. CreatedIsNew'
    BY <1>1, <1>2, <2>1, <2>2, <2>4 DEF CreatedIsNew
  <2>10. CacheIsComplete'
    <3>1. \A n \in task_cache_log \cup taken.names : task_cache'[n[1]] = n[2]
      <4>1. \A n \in task_cache_log \cup taken.names : n[1] \in Type /\ n \in all
        BY DEF TypeOK, Logged, all, names
      <4> QED  BY <2>3, <2>5, <4>1 DEF CacheIsComplete
    <3>2. \A u \in Thread : call'[u].pc \in {"inserted", "connecting"} =>
            task_cache'[call'[u].type] = call'[u].id
      <4> SUFFICES ASSUME NEW u \in Thread, u # t, call[u].pc \in {"inserted", "connecting"}
                   PROVE  task_cache'[call[u].type] = call[u].id
        BY <1>1, <2>2, <2>3
      <4>1. call[u].type \in Type /\ <<call[u].type, call[u].id>> \in all
        BY Typed DEF all, answers
      <4> QED  BY <2>3, <2>5, <4>1 DEF CacheIsComplete
    <3> QED  BY <1>1, <3>1, <3>2 DEF CacheIsComplete
  <2>11. LookedUp'
    <3> SUFFICES ASSUME NEW u \in Thread, u # t
                 PROVE  /\ call[u].pc = "found" => <<call[u].type, call[u].id>> \in database.names
                        /\ call[u].pc \in {"unknown", "created"} =>
                              \/ task_cache'[call[u].type] # NoId
                              \/ \A n \in database.names : n[1] # call[u].type
      BY <1>1, <2>2 DEF LookedUp
    <3>1. call[u].pc \in {"unknown", "created"} => call[u].type \in Type
      BY Typed
    <3> QED  BY <1>1, <2>3, <3>1 DEF LookedUp, Id, NoId
  <2> QED  BY <2>6, <2>7, <2>8, <2>9, <2>10, <2>11
<1> QED  BY <1>3, <1>4

-----------------------------------------------------------------------------
(* Steps of the snapshot thread that only move names and data, or drop     *)
(* them.                                                                   *)
LEMMA MoveInv ==
    ASSUME Inv, TypeOK', UNCHANGED <<factory, task_cache, call, database, forgotten>>,
           task_cache_log' \cup taken.names' \subseteq task_cache_log \cup taken.names,
           data' \subseteq data
    PROVE  Inv'
<1> USE DEF Inv
<1>1. UNCHANGED <<next_id, free_ids, answers, cached_names>>
  BY DEF factory, answers, cached_names
<1>2. all' \subseteq all
  BY <1>1 DEF all, names
<1>3. NamesAreUnique' /\ Below' /\ CreatedIsNew' /\ OwnData'
  BY <1>1, <1>2, Kept DEF Bounded, Below
<1>4. CacheIsComplete'
  BY DEF CacheIsComplete
<1>5. LookedUp'
  BY DEF LookedUp
<1> QED  BY <1>3, <1>4, <1>5

(* The saved names replace none, as they are unique, and stay below the    *)
(* next free id.                                                           *)
LEMMA SaveKeeps ==
    ASSUME Inv, save_snapshot
    PROVE  /\ database.names \subseteq database'.names
           /\ database'.names \subseteq database.names \cup taken.names
           /\ database'.data \subseteq database.data \cup taken.data
           /\ database.next <= database'.next
           /\ Bounded'
<1> USE DEF Inv
<1>1. next_id' = next_id /\ database.next \in Nat /\ next_id \in Nat
  BY DEF save_snapshot, factory, TypeOK, Saved, Id
<1>2. CASE UNCHANGED database
  BY <1>1, <1>2 DEF Below, Bounded
<1>3. CASE taken # nothing_taken
  <2>1. PICK next \in next_ids :
          /\ \A id \in next_ids : id <= next
          /\ database' = [names |-> put(database.names, taken.names),
                          data  |-> database.data \cup taken.data,
                          next  |-> next]
    BY <1>3 DEF save_snapshot
  <2>2. /\ database'.names = put(database.names, taken.names)
        /\ database'.data = database.data \cup taken.data
        /\ database'.next = next
    BY <2>1
  <2>3. database.names \subseteq database'.names
    <3> SUFFICES ASSUME NEW n \in database.names, NEW m \in taken.names, m[1] = n[1]
                 PROVE  n \in taken.names
      BY <2>2 DEF put
    <3>1. n = <<n[1], n[2]>> /\ m = <<m[1], m[2]>>
      BY DEF TypeOK, Saved, Logged
    <3>2. m[2] = n[2]
      BY DEF NamesAreUnique, names
    <3> QED  BY <3>1, <3>2
  <2>4. \A n \in taken.names : n[2] \in Nat /\ n[2] < next_id
    BY DEF TypeOK, Logged, Id, Below, all, names
  <2>5. \A id \in next_ids : id \in Nat /\ id <= next_id
    BY <1>1, <2>4 DEF next_ids, Below
  <2>6. database.next <= next /\ next <= next_id
    BY <2>1, <2>5 DEF next_ids
  <2>7. \A n \in database'.names : n[2] < next
    <3>1. \A n \in taken.names : n[2] + 1 <= next
      BY <2>1 DEF next_ids
    <3>2. \A n \in taken.names : n[2] < next
      BY <2>1, <2>4, <2>5, <3>1
    <3>3. \A n \in database.names : n[2] \in Nat /\ n[2] < database.next
      BY DEF Below, TypeOK, Saved, Id
    <3>4. \A n \in database.names : n[2] < next
      BY <1>1, <2>1, <2>5, <2>6, <3>3
    <3> QED  BY <2>2, <3>2, <3>4 DEF put
  <2> QED  BY <1>1, <2>2, <2>3, <2>6, <2>7 DEF put, Bounded
<1> QED  BY <1>2, <1>3 DEF save_snapshot

LEMMA SaveInv == ASSUME Inv, TypeOK', save_snapshot PROVE Inv'
<1> USE DEF Inv
<1>1. /\ UNCHANGED <<next_id, free_ids, forgotten, task_cache, task_cache_log, data_log, call>>
      /\ taken' = nothing_taken
  BY DEF save_snapshot, factory, logs
<1>2. UNCHANGED <<answers, cached_names>>
  BY <1>1 DEF answers, cached_names
<1>3. all' \subseteq all
  BY <1>1, <1>2, SaveKeeps DEF all, names, nothing_taken
<1>4. data' \subseteq data
  BY <1>1, SaveKeeps DEF data, nothing_taken
<1>5. NamesAreUnique' /\ Below' /\ CreatedIsNew' /\ OwnData'
  BY <1>1, <1>3, <1>4, SaveKeeps, Kept
<1>6. CacheIsComplete'
  BY <1>1 DEF CacheIsComplete, nothing_taken
<1>7. LookedUp'
  <2>1. \A n \in taken.names : task_cache[n[1]] # NoId
    BY DEF CacheIsComplete, TypeOK, Logged, Id, NoId
  <2> QED  BY <1>1, <2>1, SaveKeeps DEF LookedUp
<1> QED  BY <1>5, <1>6, <1>7

LEMMA RestartInv == ASSUME Inv, TypeOK', restart PROVE Inv'
<1> USE DEF Inv
<1>1. /\ next_id' = database.next /\ free_ids' = {} /\ task_cache_log' = {} /\ data_log' = {}
      /\ taken' = nothing_taken /\ database' = database
      /\ \A type \in Type : task_cache'[type] = NoId
      /\ \A t \in Thread : call'[t] = idle
      /\ forgotten' = forgotten \cup ({d[2] : d \in database.data} \ named_ids)
  BY DEF restart
<1>2. answers' = {} /\ cached_names' = {}
  BY <1>1 DEF answers, cached_names, idle
<1>3. all' = database.names /\ names' = database.names /\ data' = database.data
  BY <1>1, <1>2 DEF all, names, data, nothing_taken
<1>4. NamesAreUnique'
  BY <1>2, <1>3 DEF NamesAreUnique, names
<1>5. Below'
  <2>1. \A d \in database.data : d[2] \in forgotten' \/ d[2] < database.next
    BY <1>1 DEF named_ids, Below
  <2> QED  BY <1>1, <1>3, <2>1 DEF Below, TypeOK, Saved, Id
<1>6. CreatedIsNew'
  BY <1>1 DEF CreatedIsNew, idle
<1>7. CacheIsComplete'
  BY <1>1 DEF CacheIsComplete, idle, nothing_taken
<1>8. LookedUp'
  BY <1>1 DEF LookedUp, idle
<1>9. OwnData'
  BY <1>1, <1>2, <1>3 DEF OwnData, names, data
<1> QED  BY <1>4, <1>5, <1>6, <1>7, <1>8, <1>9

-----------------------------------------------------------------------------
LEMMA StepInv == Inv /\ [Next]_vars => Inv'
<1> SUFFICES ASSUME Inv, [Next]_vars PROVE Inv'
  OBVIOUS
<1>1. TypeOK'
  BY TypesStep DEF Inv
<1>2. ASSUME NEW t \in Thread, get_or_create_persistent_task(t) PROVE Inv'
  BY <1>1, <1>2, LookupForwardInv, ForwardLookupInv, InsertFoundInv, CreateIdInv, TryInsertInv,
     PushNameInv, ConnectChildInv DEF get_or_create_persistent_task
<1>3. CASE suspend_operations \/ resume_operations
  BY <1>1, <1>3, MoveInv DEF suspend_operations, resume_operations, logs, data
<1>4. CASE take_data_log
  <2>1. taken'.data = data_log /\ taken'.names = taken.names
    BY <1>4 DEF take_data_log, Inv, TypeOK, Logged
  <2> QED  BY <1>1, <1>4, <2>1, MoveInv DEF take_data_log, data
<1>5. CASE take_task_cache_log
  <2>1. taken'.data = taken.data /\ taken'.names = task_cache_log
    BY <1>5 DEF take_task_cache_log, Inv, TypeOK, Logged
  <2> QED  BY <1>1, <1>5, <2>1, MoveInv DEF take_task_cache_log, data
<1>6. CASE save_fails
  BY <1>1, <1>6, MoveInv DEF save_fails, nothing_taken, logs, data
<1>7. CASE UNCHANGED vars
  BY <1>1, <1>7, MoveInv DEF vars, logs, data
<1> QED
  BY <1>1, <1>2, <1>3, <1>4, <1>5, <1>6, <1>7, SaveInv, RestartInv DEF Next, take_snapshot

LEMMA Invariance == Spec => []Inv
<1> QED  BY InitInv, StepInv, PTL DEF Spec

(* A task keeps one id and an id one task, across threads, snapshots,      *)
(* failures and restarts (get_or_create_persistent_task, try_insert).      *)
THEOREM UniqueNames == Spec => []NamesAreUnique
<1>1. Inv => NamesAreUnique
  BY DEF Inv
<1> QED  BY <1>1, Invariance, PTL

(* No id that is in use is handed out, by reuse or after a restart.        *)
THEOREM FreeIds == Spec => []FreeIdsAreFree
<1>1. Inv => FreeIdsAreFree
  <2> SUFFICES ASSUME Inv PROVE FreeIdsAreFree
    OBVIOUS
  <2> DEFINE used == {n[2] : n \in names \cup answers} \cup ({d[2] : d \in data} \ forgotten)
             new  == UNION {created(t) : t \in Thread}
  <2>1. \A id \in used : id < next_id /\ id \notin free_ids
    BY DEF Inv, Below, all
  <2>2. \A id \in new : \E t \in Thread : call[t].pc = "created" /\ id = call[t].id
    BY DEF created
  <2>3. \A id \in new : id < next_id /\ id \notin free_ids /\ id \notin used
    BY <2>2 DEF Inv, CreatedIsNew, all
  <2>4. \A t, u \in Thread : t # u => created(t) \cap created(u) = {}
    BY DEF Inv, CreatedIsNew, created
  <2> QED  BY <2>1, <2>3, <2>4 DEF FreeIdsAreFree
<1> QED  BY <1>1, Invariance, PTL

(* Data is kept under the id of the task it belongs to.                    *)
THEOREM OwnDataOnly == Spec => []OwnData
<1>1. Inv => OwnData
  BY DEF Inv
<1> QED  BY <1>1, Invariance, PTL

(* What save_snapshot saved as a name or as the next free id stays.        *)
THEOREM SavedStays == Spec => SavedNamesStay
<1>1. Inv /\ [Next]_vars =>
        [database.names \subseteq database'.names /\ database.next <= database'.next]_vars
  <2> SUFFICES ASSUME Inv, [Next]_vars
               PROVE  database.names \subseteq database'.names /\ database.next <= database'.next
    OBVIOUS
  <2>1. CASE save_snapshot
    BY <2>1, SaveKeeps
  <2>2. CASE database' = database
    BY <2>2 DEF Inv, TypeOK, Saved, Id
  <2> QED  BY <2>1, <2>2 DEF Next, get_or_create_persistent_task, take_snapshot, lookup_forward,
       forward_lookup_task_cache, insert_found, create_id, try_insert, push_name, connect_child,
       suspend_operations, take_data_log, take_task_cache_log, resume_operations, save_fails,
       restart, vars
<1> QED  BY <1>1, Invariance, PTL DEF Spec, SavedNamesStay

-----------------------------------------------------------------------------
(* Data has a name: until a snapshot fails, all names that the cache has   *)
(* and calls answer with are logged, taken, saved, or about to be pushed.  *)

pushing == {<<call[t].type, call[t].id>> : t \in {u \in Thread : call[u].pc = "inserted"}}
logged  == task_cache_log \cup taken.names \cup database.names \cup pushing

(* What is taken is saved before the next snapshot takes more.             *)
TakenIsSaved == snapshot \in {"idle", "taking", "data_taken"} => taken.names = {}

NamesAreLogged == failures = 0 => cached_names \cup answers \subseteq logged
DataIsLogged   == failures = 0 => \A d \in data : d \in logged \/ d[2] \in forgotten

LogInv == TakenIsSaved /\ NamesAreLogged /\ DataIsLogged

LEMMA LogInit == Init => LogInv
<1> SUFFICES ASSUME Init PROVE LogInv
  OBVIOUS
<1>1. data = {} /\ answers = {} /\ cached_names = {} /\ taken.names = {}
  BY DEF Init, data, answers, cached_names, idle
<1> QED  BY <1>1 DEF LogInv, TakenIsSaved, NamesAreLogged, DataIsLogged

(* A step after which what was logged still is, and so is what is new.     *)
LEMMA LogKept ==
    ASSUME LogInv, failures' = failures, forgotten' = forgotten, logged \subseteq logged',
           cached_names' \cup answers' \subseteq cached_names \cup answers \cup logged',
           data' \subseteq data \cup answers
    PROVE  NamesAreLogged' /\ DataIsLogged'
BY DEF LogInv, NamesAreLogged, DataIsLogged

(* goto, for the call of t that had nothing to push.                       *)
LEMMA GotoPushing ==
    ASSUME TypeOK, NEW t \in Thread, NEW where, NEW id, goto(t, where, id)
    PROVE  /\ call[t].pc # "inserted" => pushing \subseteq pushing'
           /\ pushing \subseteq pushing' \cup {<<call[t].type, call[t].id>>}
           /\ where = "inserted" => <<call[t].type, id>> \in pushing'
<1>1. /\ call'[t].pc = where /\ call'[t].type = call[t].type /\ call'[t].id = id
      /\ \A u \in Thread \ {t} : call'[u] = call[u]
  BY GotoAnswers
<1> QED  BY <1>1 DEF pushing

LEMMA CallLog ==
    ASSUME Inv, LogInv, NEW t \in Thread, get_or_create_persistent_task(t)
    PROVE  LogInv'
<1> USE DEF factory, logs, bounds
<1>0. TypeOK
  BY DEF Inv
<1>1. TakenIsSaved'
  <2>1. taken' = taken /\ snapshot' = snapshot
    BY DEF get_or_create_persistent_task, lookup_forward, forward_lookup_task_cache, insert_found,
           create_id, try_insert, push_name, connect_child
  <2> QED  BY <2>1 DEF LogInv, TakenIsSaved
<1>2. ASSUME NEW type \in Type, lookup_forward(t, type) PROVE NamesAreLogged' /\ DataIsLogged'
  <2>1. /\ call'[t].pc = IF task_cache[type] = NoId THEN "missed" ELSE "connecting"
        /\ call'[t].type = type /\ call'[t].id = task_cache[type]
        /\ \A u \in Thread \ {t} : call'[u] = call[u]
    BY <1>0, <1>2 DEF lookup_forward, TypeOK
  <2>2. UNCHANGED <<task_cache_log, taken, database, forgotten, failures, data, cached_names>>
    BY <1>2 DEF lookup_forward, data, cached_names
  <2>3. answers' \subseteq answers \cup cached_names
    BY <2>1 DEF answers, cached_names
  <2>4. pushing \subseteq pushing'
    BY <1>2, <2>1 DEF pushing, lookup_forward
  <2> QED  BY <2>2, <2>3, <2>4, LogKept DEF logged
<1>3. CASE forward_lookup_task_cache(t)
  <2>1. UNCHANGED <<task_cache_log, taken, database, forgotten, failures, data, cached_names>>
    BY <1>3 DEF forward_lookup_task_cache, data, cached_names
  <2>2. answers' \subseteq answers \cup database.names
    <3>1. ASSUME NEW name \in database.names, name[1] = call[t].type, goto(t, "found", name[2])
          PROVE  answers' \subseteq answers \cup database.names
      <4>1. name = <<call[t].type, name[2]>>
        BY <1>0, <3>1 DEF TypeOK, Saved
      <4> QED  BY <1>0, <3>1, <4>1, GotoAnswers
    <3>2. CASE goto(t, "unknown", NoId)
      BY <1>0, <3>2, GotoAnswers
    <3> QED  BY <1>3, <3>1, <3>2 DEF forward_lookup_task_cache
  <2>3. pushing \subseteq pushing'
    BY <1>0, <1>3, GotoPushing DEF forward_lookup_task_cache
  <2> QED  BY <2>1, <2>2, <2>3, LogKept, <1>1 DEF logged, LogInv
<1>4. CASE insert_found(t)
  <2> DEFINE type == call[t].type  id == call[t].id
  <2>1. /\ UNCHANGED <<task_cache_log, taken, database, forgotten, failures, data>>
        /\ goto(t, "connecting", id) /\ call[t].pc = "found" /\ type \in Type
        /\ <<type, id>> \in database.names
    BY <1>0, <1>4, Typed DEF insert_found, data, Inv, LookedUp
  <2>2. cached_names' \subseteq cached_names \cup {<<type, id>>}
    <3>1. \A u \in Type : task_cache'[u] \in {task_cache[u]} \/ (u = type /\ task_cache'[u] = id)
      BY <1>0, <1>4, <2>1 DEF insert_found, TypeOK
    <3> QED  BY <3>1 DEF cached_names
  <2>3. answers' \subseteq answers \cup {<<type, id>>} /\ pushing \subseteq pushing'
    BY <1>0, <2>1, GotoAnswers, GotoPushing
  <2> QED  BY <2>1, <2>2, <2>3, LogKept, <1>1 DEF logged, LogInv
<1>5. CASE create_id(t)
  <2>1. UNCHANGED <<task_cache_log, taken, database, forgotten, failures, data, cached_names>>
    BY <1>5 DEF create_id, data, cached_names
  <2>2. PICK id : goto(t, "created", id)
    BY <1>5 DEF create_id
  <2>3. answers' \subseteq answers /\ pushing \subseteq pushing'
    <3>1. call[t].pc # "inserted"
      BY <1>5 DEF create_id
    <3>2. answers' \subseteq answers
      BY <1>0, <2>2, GotoAnswers
    <3>3. pushing \subseteq pushing'
      BY <1>0, <2>2, <3>1, GotoPushing
    <3> QED  BY <3>2, <3>3
  <2> QED  BY <2>1, <2>3, LogKept, <1>1 DEF logged, LogInv
<1>6. CASE try_insert(t)
  <2> DEFINE type == call[t].type
  <2>1. /\ UNCHANGED <<task_cache_log, taken, database, forgotten, failures, data>>
        /\ call[t].pc = "created" /\ type \in Type
    BY <1>0, <1>6, Typed DEF try_insert, data
  <2>2. PICK id : /\ goto(t, "inserted", id)
                  /\ \/ task_cache' = task_cache
                     \/ task_cache' = [task_cache EXCEPT ![type] = id]
    BY <1>6 DEF try_insert
  <2>3. cached_names' \subseteq cached_names \cup {<<type, id>>}
    <3>1. \A u \in Type : task_cache'[u] \in {task_cache[u]} \/ (u = type /\ task_cache'[u] = id)
      BY <1>0, <2>2 DEF TypeOK
    <3> QED  BY <3>1 DEF cached_names
  <2>4. /\ answers' \subseteq answers \cup {<<type, id>>} /\ pushing \subseteq pushing'
        /\ <<type, id>> \in pushing'
    BY <1>0, <2>1, <2>2, GotoAnswers, GotoPushing
  <2> QED  BY <2>1, <2>3, <2>4, LogKept, <1>1 DEF logged, LogInv
<1>7. CASE push_name(t)
  <2> DEFINE new == <<call[t].type, call[t].id>>
  <2>1. /\ UNCHANGED <<taken, database, forgotten, failures, data, cached_names>>
        /\ task_cache_log' = task_cache_log \cup {new} /\ goto(t, "connecting", call[t].id)
    BY <1>7 DEF push_name, data, cached_names
  <2>2. answers' \subseteq answers \cup {new} /\ pushing \subseteq pushing' \cup {new}
    BY <1>0, <2>1, GotoAnswers, GotoPushing
  <2> QED  BY <2>1, <2>2, LogKept, <1>1 DEF logged, LogInv
<1>8. CASE connect_child(t)
  <2> DEFINE child == <<call[t].type, call[t].id>>
  <2>1. /\ UNCHANGED <<task_cache_log, taken, database, forgotten, failures, cached_names>>
        /\ data_log' \subseteq data_log \cup {child}
        /\ call[t].pc = "connecting" /\ call' = [call EXCEPT ![t] = idle]
    BY <1>8 DEF connect_child, cached_names
  <2>2. child \in answers
    BY <2>1 DEF answers
  <2>3. answers' \subseteq answers /\ pushing \subseteq pushing'
    <3>1. \A u \in Thread : call'[u] = IF u = t THEN idle ELSE call[u]
      BY <1>0, <2>1 DEF TypeOK
    <3> QED  BY <2>1, <3>1 DEF answers, pushing, idle
  <2>4. data' \subseteq data \cup answers
    BY <2>1, <2>2 DEF data
  <2> QED  BY <2>1, <2>3, <2>4, LogKept, <1>1 DEF logged, LogInv
<1> QED  BY <1>1, <1>2, <1>3, <1>4, <1>5, <1>6, <1>7, <1>8 DEF LogInv, get_or_create_persistent_task

LEMMA SnapshotLog == ASSUME Inv, LogInv, take_snapshot PROVE LogInv'
<1> USE DEF factory, logs, bounds
<1>0. TypeOK
  BY DEF Inv
<1>1. CASE suspend_operations \/ resume_operations
  <2>1. /\ UNCHANGED <<logged, taken, forgotten, failures, data, cached_names, answers>>
        /\ \/ snapshot = "idle" /\ snapshot' = "taking"
           \/ snapshot' = "saving"
    BY <1>1 DEF suspend_operations, resume_operations, logged, pushing, data, cached_names, answers
  <2>2. TakenIsSaved'
    BY <2>1 DEF LogInv, TakenIsSaved
  <2> QED  BY <2>1, <2>2, LogKept DEF LogInv
<1>2. CASE take_data_log
  <2>1. taken'.data = data_log /\ taken'.names = taken.names
    BY <1>0, <1>2 DEF take_data_log, TypeOK, Logged
  <2>2. /\ UNCHANGED <<logged, forgotten, failures, cached_names, answers>>
        /\ data' \subseteq data /\ snapshot = "taking"
    BY <1>2, <2>1 DEF take_data_log, logged, pushing, data, cached_names, answers
  <2>3. TakenIsSaved'
    BY <2>1, <2>2 DEF LogInv, TakenIsSaved
  <2> QED  BY <2>2, <2>3, LogKept DEF LogInv
<1>3. CASE take_task_cache_log
  <2>1. taken'.data = taken.data /\ taken'.names = task_cache_log
    BY <1>0, <1>3 DEF take_task_cache_log, TypeOK, Logged
  <2>2. taken.names = {}
    BY <1>3 DEF LogInv, TakenIsSaved, take_task_cache_log
  <2>3. /\ UNCHANGED <<forgotten, failures, cached_names, answers, data, pushing, database>>
        /\ task_cache_log' = {} /\ snapshot' = "taken"
    BY <1>3, <2>1 DEF take_task_cache_log, pushing, data, cached_names, answers
  <2>4. logged \subseteq logged'
    BY <2>1, <2>2, <2>3 DEF logged
  <2>5. TakenIsSaved'
    BY <2>3 DEF TakenIsSaved
  <2> QED  BY <2>3, <2>4, <2>5, LogKept DEF LogInv
<1>4. CASE save_snapshot
  <2>1. /\ UNCHANGED <<forgotten, failures, cached_names, answers, pushing, task_cache_log, data_log>>
        /\ taken' = nothing_taken
    BY <1>4 DEF save_snapshot, pushing, cached_names, answers
  <2>2. database.names \cup taken.names \subseteq database'.names
    <3>1. CASE taken = nothing_taken
      BY <1>4, <3>1 DEF save_snapshot, nothing_taken
    <3>2. CASE taken # nothing_taken
      <4>1. database'.names = put(database.names, taken.names)
        BY <1>4, <3>2 DEF save_snapshot
      <4> QED  BY <1>4, <4>1, SaveKeeps DEF put
    <3> QED  BY <3>1, <3>2
  <2>3. database'.data \subseteq database.data \cup taken.data
    BY <1>4 DEF save_snapshot
  <2>4. logged \subseteq logged' /\ data' \subseteq data
    BY <2>1, <2>2, <2>3 DEF logged, data, nothing_taken
  <2>5. TakenIsSaved'
    BY <2>1 DEF TakenIsSaved, nothing_taken
  <2> QED  BY <2>1, <2>4, <2>5, LogKept DEF LogInv
<1>5. CASE save_fails
  <2>1. failures' # 0 /\ taken'.names = {}
    BY <1>0, <1>5 DEF save_fails, nothing_taken, TypeOK
  <2> QED  BY <2>1 DEF LogInv, TakenIsSaved, NamesAreLogged, DataIsLogged
<1> QED  BY <1>1, <1>2, <1>3, <1>4, <1>5 DEF take_snapshot

(* A stop takes the memory.  Data that is saved has its name saved, or its *)
(* id is forgotten now; a name with its id is its own (OwnData).           *)
LEMMA RestartLog == ASSUME Inv, LogInv, restart PROVE LogInv'
<1>1. /\ taken' = nothing_taken /\ database' = database /\ data_log' = {}
      /\ \A type \in Type : task_cache'[type] = NoId
      /\ \A t \in Thread : call'[t] = idle
      /\ forgotten' = forgotten \cup ({d[2] : d \in database.data} \ named_ids)
  BY DEF restart
<1>2. answers' = {} /\ cached_names' = {} /\ data' = database.data
  BY <1>1 DEF answers, cached_names, idle, data, nothing_taken
<1>3. ASSUME NEW d \in database.data, d[2] \notin forgotten' PROVE d \in database.names
  <2>1. PICK n \in database.names : n[2] = d[2]
    BY <1>1, <1>3 DEF named_ids
  <2>2. n[1] = d[1]
    BY <1>1, <1>3, <2>1 DEF Inv, OwnData, names, data
  <2>3. n = <<n[1], n[2]>> /\ d = <<d[1], d[2]>>
    BY DEF Inv, TypeOK, Saved
  <2> QED  BY <2>1, <2>2, <2>3
<1>4. DataIsLogged'
  BY <1>1, <1>2, <1>3 DEF DataIsLogged, logged
<1> QED  BY <1>1, <1>2, <1>4 DEF LogInv, TakenIsSaved, NamesAreLogged, nothing_taken

LEMMA LogStep == Inv /\ LogInv /\ [Next]_vars => LogInv'
<1> SUFFICES ASSUME Inv, LogInv, [Next]_vars PROVE LogInv'
  OBVIOUS
<1>1. CASE UNCHANGED vars
  <2>1. UNCHANGED <<logged, taken, snapshot, forgotten, failures, data, cached_names, answers>>
    BY <1>1 DEF vars, logs, bounds, logged, pushing, data, cached_names, answers
  <2> QED  BY <2>1, LogKept DEF LogInv, TakenIsSaved
<1> QED  BY <1>1, CallLog, SnapshotLog, RestartLog DEF Next

(* Until a snapshot fails, a task whose data is kept has a name that is    *)
(* saved or will be (connect_child, persisted_task_cache_log).             *)
THEOREM DataAlwaysNamed == Spec => []DataIsNamed
<1>1. LogInv => DataIsNamed
  BY DEF LogInv, DataIsLogged, logged, pushing, DataIsNamed
<1> QED  BY <1>1, LogInit, LogStep, Invariance, PTL DEF Spec
=============================================================================
