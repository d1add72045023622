-------------------------------- MODULE WriteBatch --------------------------------
(***************************************************************************)
(* A write batch of turbo-persistence (write_batch.rs, collector.rs).      *)
(*                                                                         *)
(* Threads put entries into a collector of their own and write it to a     *)
(* file when it is full.  finish merges what the collectors hold pairwise, *)
(* in whatever order rayon picks, and writes the merged collectors in      *)
(* parallel.  Collectors are reused: within the batch, and by the next     *)
(* batch, for which the same WriteBatch is reset.                          *)
(*                                                                         *)
(* Keys of one batch do not conflict, so a collector is a set of entries.  *)
(* One family is modelled, and a collector is full by its number of        *)
(* entries.  Creating a file is two steps, the number and the contents,    *)
(* because other threads take numbers in between.                          *)
(***************************************************************************)
EXTENDS Integers, Sequences, FiniteSets, SequencesExt

CONSTANTS
    Thread,       \* the threads that fill the batch
    Entry,        \* the entries they may put
    Large,        \* the entries whose value goes to a blob file
    MaxEntries,   \* MAX_ENTRIES_PER_INITIAL_FILE
    MaxBatches    \* bound: how often the batch is used

ASSUME MaxEntriesAssumption == MaxEntries \in Nat \ {0}
ASSUME EntryAssumption == IsFiniteSet(Entry) /\ Large \subseteq Entry

VARIABLES
    current_sequence_number,
    collectors,        \* of each thread: a set of entries, {} when it has none
    new_sst_files,     \* of each thread: a set of <<number, entries>>
    new_blob_files,    \* the numbers of the blob files
    idle_collectors,   \* a stack of collectors
    creating,          \* the file each thread creates: what, the entry it is for, the number
    phase,             \* "filling", "merging", "finished" or "failed"
    merging,           \* the collectors finish has to merge
    spawned,           \* the collectors whose file is to be created by a spawned task
    writing,           \* the files tasks are writing: <<number, entries>>
    shared_new_sst_files,
    shared_error,
    result,            \* the files finish returns, in the order it returns them
    entries,           \* the entries put into this batch
    first,             \* the sequence number this batch started from
    batches            \* counter for the bound

threads == <<collectors, new_sst_files, new_blob_files, creating>>
tasks   == <<merging, spawned, writing, shared_new_sst_files, shared_error>>
vars    == <<current_sequence_number, threads, idle_collectors, phase, tasks, result,
             entries, first, batches>>

Nothing == [what |-> "nothing"]
Creating(what, e, n) == [what |-> what, entry |-> e, number |-> n]

Init ==
    /\ current_sequence_number = 0 /\ first = 0
    /\ collectors = [t \in Thread |-> {}]
    /\ new_sst_files = [t \in Thread |-> {}]
    /\ new_blob_files = {}
    /\ idle_collectors = << >>
    /\ creating = [t \in Thread |-> Nothing]
    /\ phase = "filling"
    /\ merging = {} /\ spawned = {} /\ writing = {}
    /\ shared_new_sst_files = {} /\ shared_error = FALSE
    /\ result = << >>
    /\ entries = {}
    /\ batches = 1

is_full(c) == Cardinality(c) >= MaxEntries

(* A collector from the stack, or a new one.                               *)
idle_collector == IF idle_collectors = << >> THEN {} ELSE Last(idle_collectors)
popped == IF idle_collectors = << >> THEN << >> ELSE Front(idle_collectors)

(* fetch_add(1) + 1                                                        *)
next_number == current_sequence_number + 1

-----------------------------------------------------------------------------
(* put and delete, with collector_mut.                                     *)

(* What a thread does with its entry once its collector has room: it is in *)
(* the collector, or in a blob file first.                                 *)
add(t, c, e, number) ==
    IF e \in Large
      THEN /\ collectors' = [collectors EXCEPT ![t] = c]
           /\ creating' = [creating EXCEPT ![t] = Creating("blob", e, number + 1)]
           /\ current_sequence_number' = number + 1
      ELSE /\ collectors' = [collectors EXCEPT ![t] = c \cup {e}]
           /\ creating' = [creating EXCEPT ![t] = Nothing]
           /\ current_sequence_number' = number

put(t, e) ==
    /\ phase = "filling"
    /\ creating[t] = Nothing
    /\ e \notin entries
    /\ entries' = entries \cup {e}
    /\ LET c == IF collectors[t] = {} THEN idle_collector ELSE collectors[t]
       IN  IF is_full(c)
             THEN /\ collectors' = [collectors EXCEPT ![t] = c]
                  /\ creating' = [creating EXCEPT ![t] = Creating("sst", e, next_number)]
                  /\ current_sequence_number' = next_number
             ELSE add(t, c, e, current_sequence_number)
    /\ idle_collectors' = IF collectors[t] = {} THEN popped ELSE idle_collectors
    /\ UNCHANGED <<new_sst_files, new_blob_files, phase, tasks, result, first, batches>>

(* The file of the full collector is written; the collector is cleared.    *)
create_full_sst_file(t) ==
    /\ creating[t].what = "sst"
    /\ new_sst_files' = [new_sst_files EXCEPT ![t] =
                           @ \cup {<<creating[t].number, collectors[t]>>}]
    /\ add(t, {}, creating[t].entry, current_sequence_number)
    /\ UNCHANGED <<new_blob_files, idle_collectors, phase, tasks, result, entries, first, batches>>

create_blob(t) ==
    /\ creating[t].what = "blob"
    /\ new_blob_files' = new_blob_files \cup {creating[t].number}
    /\ collectors' = [collectors EXCEPT ![t] = @ \cup {creating[t].entry}]
    /\ creating' = [creating EXCEPT ![t] = Nothing]
    /\ UNCHANGED <<current_sequence_number, new_sst_files, idle_collectors, phase, tasks,
                   result, entries, first, batches>>

(* A file cannot be created: the caller gives the batch up.                *)
create_fails(t) ==
    /\ phase = "filling"
    /\ creating[t] # Nothing
    /\ phase' = "failed"
    /\ creating' = [u \in Thread |-> Nothing]
    /\ UNCHANGED <<current_sequence_number, collectors, new_sst_files, new_blob_files,
                   idle_collectors, tasks, result, entries, first, batches>>

-----------------------------------------------------------------------------
(* finish.                                                                 *)

(* What the threads hold is gathered.  finish takes &mut self: no thread   *)
(* is in a put.                                                            *)
finish ==
    /\ phase = "filling"
    /\ \A t \in Thread : creating[t] = Nothing
    /\ phase' = "merging"
    /\ merging' = {collectors[t] : t \in Thread} \ {{}}
    /\ shared_new_sst_files' = UNION {new_sst_files[t] : t \in Thread}
    /\ collectors' = [t \in Thread |-> {}]
    /\ new_sst_files' = [t \in Thread |-> {}]
    /\ shared_error' = FALSE
    /\ UNCHANGED <<current_sequence_number, new_blob_files, creating, idle_collectors, spawned,
                   writing, result, entries, first, batches>>

(* Mutant: an entry that finds the collector full goes to neither.         *)
drain_losing_one(a, b) ==
    \E drained \in SUBSET b : \E e \in b \ drained :
        /\ Cardinality(drained) = MaxEntries - Cardinality(a)
        /\ merging' = (merging \ {a, b}) \cup {idle_collector \cup (b \ (drained \cup {e}))}
        /\ spawned' = spawned \cup {a \cup drained}
        /\ idle_collectors' = Append(popped, {})

(* The entries of b move one by one into a.  When a is full it is handed   *)
(* to a task, and another collector takes its place.                       *)
drain_beyond(a, b) ==
    \E drained \in SUBSET b :
        /\ Cardinality(drained) = MaxEntries - Cardinality(a)
        /\ merging' = (merging \ {a, b}) \cup {idle_collector \cup (b \ drained)}
        /\ spawned' = spawned \cup {a \cup drained}
        /\ idle_collectors' = Append(popped, {})

drain(a, b) ==
    /\ merging' = (merging \ {a, b}) \cup {a \cup b}
    /\ idle_collectors' = Append(idle_collectors, {})
    /\ UNCHANGED spawned

(* Two collectors are merged into the larger one; the other one is empty   *)
(* then and can be reused.                                                 *)
reduce(a, b) ==
    /\ phase = "merging"
    /\ {a, b} \subseteq merging /\ a # b
    /\ Cardinality(a) >= Cardinality(b)
    /\ IF Cardinality(a) + Cardinality(b) <= MaxEntries THEN drain(a, b) ELSE drain_beyond(a, b)
    /\ UNCHANGED <<current_sequence_number, threads, phase, writing, shared_new_sst_files,
                   shared_error, result, entries, first, batches>>

(* Mutant: the last collector is kept when it is not full.                 *)
spawn_final_full ==
    /\ phase = "merging"
    /\ Cardinality(merging) = 1
    /\ \A c \in merging : is_full(c)
    /\ spawned' = spawned \cup merging
    /\ merging' = {}
    /\ UNCHANGED <<current_sequence_number, threads, idle_collectors, phase, writing,
                   shared_new_sst_files, shared_error, result, entries, first, batches>>

(* The last collector is handed to a task.                                 *)
spawn_final ==
    /\ phase = "merging"
    /\ Cardinality(merging) = 1
    /\ spawned' = spawned \cup merging
    /\ merging' = {}
    /\ UNCHANGED <<current_sequence_number, threads, idle_collectors, phase, writing,
                   shared_new_sst_files, shared_error, result, entries, first, batches>>

(* A task takes a number for its collector ...                             *)
take_number(c) ==
    /\ c \in spawned
    /\ spawned' = spawned \ {c}
    /\ writing' = writing \cup {<<next_number, c>>}
    /\ current_sequence_number' = next_number
    /\ UNCHANGED <<threads, idle_collectors, phase, merging, shared_new_sst_files,
                   shared_error, result, entries, first, batches>>

(* ... writes the file, and returns the cleared collector.                 *)
create_sst_file(w) ==
    /\ w \in writing
    /\ writing' = writing \ {w}
    /\ shared_new_sst_files' = shared_new_sst_files \cup {w}
    /\ idle_collectors' = Append(idle_collectors, {})
    /\ UNCHANGED <<current_sequence_number, threads, phase, merging, spawned, shared_error,
                   result, entries, first, batches>>

create_sst_file_fails(w) ==
    /\ w \in writing
    /\ writing' = writing \ {w}
    /\ shared_error' = TRUE
    /\ UNCHANGED <<current_sequence_number, threads, idle_collectors, phase, merging, spawned,
                   shared_new_sst_files, result, entries, first, batches>>

(* The files sorted by their numbers.                                      *)
in_order(files) == {s \in [1 .. Cardinality(files) -> files] :
                      /\ ToSet(s) = files
                      /\ \A i, j \in DOMAIN s : i < j => s[i][1] <= s[j][1]}

(* The scope ends when all tasks have: finish returns the files in the     *)
(* order of their numbers, or the error.                                   *)
finished ==
    /\ phase = "merging"
    /\ merging = {} /\ spawned = {} /\ writing = {}
    /\ IF shared_error
         THEN /\ phase' = "failed"
              /\ UNCHANGED result
         ELSE /\ phase' = "finished"
              /\ result' \in in_order(shared_new_sst_files)
    /\ UNCHANGED <<current_sequence_number, threads, idle_collectors, tasks, entries, first,
                   batches>>

(* The database committed the batch and keeps it for the next one.         *)
reset ==
    /\ phase = "finished"
    /\ batches < MaxBatches
    /\ batches' = batches + 1
    /\ phase' = "filling"
    /\ first' = current_sequence_number
    /\ new_blob_files' = {} /\ shared_new_sst_files' = {} /\ result' = << >>
    /\ entries' = {}
    /\ UNCHANGED <<current_sequence_number, collectors, new_sst_files, creating,
                   idle_collectors, merging, spawned, writing, shared_error>>

-----------------------------------------------------------------------------
fill(t) == \/ \E e \in Entry : put(t, e)
           \/ create_full_sst_file(t)
           \/ create_blob(t)
           \/ create_fails(t)

write_remaining ==
    \/ \E a, b \in merging : reduce(a, b)
    \/ spawn_final
    \/ \E c \in spawned : take_number(c)
    \/ \E w \in writing : create_sst_file(w) \/ create_sst_file_fails(w)
    \/ finished

Next == (\E t \in Thread : fill(t)) \/ finish \/ write_remaining \/ reset

Spec == Init /\ [][Next]_vars

(* finish runs until it returns.                                           *)
LiveSpec == Spec /\ WF_vars(write_remaining)

-----------------------------------------------------------------------------
Files == (SUBSET Entry) \ {{}}

TypeOK ==
    /\ current_sequence_number \in Nat /\ first \in Nat /\ batches \in Nat
    /\ collectors \in [Thread -> SUBSET Entry]
    /\ new_sst_files \in [Thread -> SUBSET (Nat \X Files)]
    /\ new_blob_files \subseteq Nat
    /\ idle_collectors \in Seq({{}})
    /\ creating \in [Thread -> {Nothing} \cup [what : {"sst", "blob"}, entry : Entry, number : Nat]]
    /\ phase \in {"filling", "merging", "finished", "failed"}
    /\ merging \subseteq Files /\ spawned \subseteq Files
    /\ writing \subseteq Nat \X Files /\ shared_new_sst_files \subseteq Nat \X Files
    /\ shared_error \in BOOLEAN
    /\ result \in Seq(Nat \X Files)
    /\ entries \subseteq Entry

(* README.md:5: "multiple threads can fill the transaction with            *)
(* (non-conflicting) data concurrently".  The files finish returns hold    *)
(* every entry of the batch, each in one file only, and none of an earlier *)
(* batch, whatever collectors were merged and reused on the way.           *)
EveryEntryInOneFile ==
    phase = "finished" =>
        /\ UNION {w[2] : w \in ToSet(result)} = entries
        /\ \A v, w \in ToSet(result) : v # w => v[2] \cap w[2] = {}

(* The numbers of the new files are the ones after the current sequence    *)
(* number, each used once, and the files come in the order of them: what   *)
(* commit and the list of readers build on.                                *)
NumbersAreConsecutive ==
    phase = "finished" =>
        LET number(i) == result[i][1]
        IN  /\ \A i, j \in DOMAIN result : i < j => number(i) < number(j)
            /\ {number(i) : i \in DOMAIN result} \cap new_blob_files = {}
            /\ {number(i) : i \in DOMAIN result} \cup new_blob_files
                   = first + 1 .. current_sequence_number

(* finish returns.                                                         *)
FinishReturns == phase = "merging" ~> phase \in {"finished", "failed"}

(* The files of a batch are those that its commit may publish.             *)
FilesAreExact == TypeOK /\ EveryEntryInOneFile /\ NumbersAreConsecutive
=============================================================================
