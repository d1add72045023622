---------------------------- MODULE TurboPersistence ----------------------------
(***************************************************************************)
(* The turbo-persistence database (turbopack/crates/turbo-persistence):    *)
(* one directory of immutable SST and blob files, each with a sequence     *)
(* number, a CURRENT file with the last committed sequence number and      *)
(* *.del files that list superseded files.                                 *)
(*                                                                         *)
(* The model has one key family: files of different families never         *)
(* influence each other.  A key is the position of its hash.               *)
(*                                                                         *)
(* The list static_sorted_files is kept in ascending order of sequence     *)
(* numbers: load_directory sorts it, and commit appends files, sorted,     *)
(* that are all newer than the ones it keeps.  It is a set here, and       *)
(* `older' and `newer' compare the numbers.                                *)
(*                                                                         *)
(* The file system: unlinking a file and creating a directory entry are    *)
(* durable at once; the content of a file is durable once it was synced,   *)
(* and a crash may lose the files that were not.                           *)
(***************************************************************************)
EXTENDS Integers, FiniteSets, FiniteSetsExt, Functions, CompactionSelector

CONSTANTS
    Key,            \* the keys, in the order of their hashes
    Value,          \* the values
    Deleted,        \* the tombstone
    NotFound,       \* the answer of get for a key that is not found
    Writes,         \* bound: the contents of the SST files batches write
    MaxCoverage,    \* compaction does nothing up to this total spread
    MaxMerge,       \* how many files a merge job takes at most
    MaxSeq,         \* bound: the largest sequence number
    MaxBatchFiles   \* bound: how many SST and blob files a batch writes

ASSUME KeyAssumption == Key \subseteq Nat /\ IsFiniteSet(Key)
ASSUME ValueAssumption == /\ Deleted \notin Value /\ NotFound \notin Value
                          /\ \A v \in Value \cup {Deleted} : v \notin [blob : Nat]
ASSUME BoundAssumption == /\ MaxSeq \in Nat
                          /\ MaxBatchFiles \in Nat
                          /\ MaxMerge \in Nat \ {0, 1}
                          /\ MaxCoverage \in Nat

VARIABLES
    (* the directory *)
    sst,                        \* the SST files: sequence number -> entries
    blob,                       \* the blob files: sequence number -> value
    del,                        \* the del files: sequence number -> superseded files
    unsynced,                   \* the sequence numbers of the files not synced yet
    CURRENT,                    \* the content of the CURRENT file
    syncedCurrent,              \* the content of CURRENT that is durable
    (* the open database *)
    phase,                      \* closed, opening, open or failed
    static_sorted_files,        \* the SST files readers look into
    current_sequence_number,
    (* load_directory *)
    entries,                    \* the directory entries not visited yet
    sst_files,                  \* the SST files found so far
    deleted_files,              \* the files named by a del file so far
    (* the write operation *)
    active_write_operation,     \* the flag that admits one write operation
    writer,                     \* what the write operation does next
    seq,                        \* its counter of sequence numbers
    new_sst_files,              \* the SST files it created and did not sync yet
    new_blob_files,             \* the blob files it created and did not sync yet
    created,                    \* the SST files it created
    outputs,                    \* compaction: the contents still to be written
    move_jobs,                  \* compaction: the files still to be moved
    removed_ssts                \* the files it supersedes, and then has to unlink

disk   == <<sst, blob, del, unsynced, CURRENT, syncedCurrent>>
inner  == <<static_sorted_files, current_sequence_number>>
loader == <<entries, sst_files, deleted_files>>
job    == <<seq, new_sst_files, new_blob_files, created, outputs, move_jobs, removed_ssts>>
vars   == <<disk, phase, inner, loader, active_write_operation, writer, job>>

(* CURRENT before the directory is initialized, and between its creation   *)
(* and the write of its four bytes.                                        *)
ABSENT == -2
EMPTY  == -1

BlobRef(s) == [blob |-> s]
Entry == Value \cup {Deleted} \cup [blob : Nat]

(* The contents of an SST file: a partial map from keys to entries.        *)
IsContent(c) == DOMAIN c \subseteq Key /\ c \in [DOMAIN c -> Entry]

NoFiles == [s \in {} |-> {}]
With(files, s, content) == [t \in DOMAIN files \cup {s} |->
                              IF t = s THEN content ELSE files[t]]
Without(files, S) == [t \in DOMAIN files \ S |-> files[t]]

-----------------------------------------------------------------------------
(* Reading.  The newest file with an entry for the key decides.            *)

holding(files, k) == {s \in files : k \in DOMAIN sst[s]}

resolve(entry) ==
    CASE entry = Deleted   -> NotFound
      [] entry \in Value   -> entry
      [] OTHER             -> IF entry.blob \in DOMAIN blob THEN blob[entry.blob]
                                                            ELSE Deleted

(* get: what a reader of these files finds under the key.  A blob file     *)
(* that is missing makes get fail, which Deleted stands for here.          *)
get(files, k) == IF holding(files, k) = {} THEN NotFound
                 ELSE resolve(sst[Max(holding(files, k))][k])

contents(files) == [k \in Key |-> get(files, k)]

(* The files load_directory ends with when CURRENT holds c: all SST files  *)
(* up to c that no del file up to c names.                                 *)
recoverable(c) == {s \in DOMAIN sst : s <= c}
                    \ UNION {del[d] : d \in {d \in DOMAIN del : d <= c}}

-----------------------------------------------------------------------------
Init ==
    /\ sst = NoFiles /\ blob = NoFiles /\ del = NoFiles
    /\ unsynced = {}
    /\ CURRENT = ABSENT /\ syncedCurrent = ABSENT
    /\ phase = "closed"
    /\ static_sorted_files = {} /\ current_sequence_number = 0
    /\ entries = {} /\ sst_files = {} /\ deleted_files = {}
    /\ active_write_operation = FALSE
    /\ writer = "idle"
    /\ seq = 0
    /\ new_sst_files = {} /\ new_blob_files = {} /\ created = {}
    /\ outputs = {} /\ move_jobs = {} /\ removed_ssts = {}

-----------------------------------------------------------------------------
(* Opening the database (open_directory, init_directory, load_directory).  *)

directory_entries == {<<"sst", s>> : s \in DOMAIN sst}
                        \cup {<<"blob", s>> : s \in DOMAIN blob}
                        \cup {<<"del", s>> : s \in DOMAIN del}

(* init_directory creates CURRENT ...                                      *)
create_current ==
    /\ phase = "closed"
    /\ CURRENT = ABSENT
    /\ phase' = "initializing"
    /\ CURRENT' = EMPTY /\ syncedCurrent' = EMPTY
    /\ UNCHANGED <<sst, blob, del, unsynced, inner, loader,
                   active_write_operation, writer, job>>

(* ... and writes 0 to it, without syncing it.                             *)
init_current ==
    /\ phase = "initializing"
    /\ CURRENT' = 0
    /\ phase' = "open"
    /\ UNCHANGED <<sst, blob, del, unsynced, syncedCurrent, inner, loader,
                   active_write_operation, writer, job>>

(* load_directory reads CURRENT.  A file of less than four bytes is an     *)
(* error.                                                                  *)
read_current ==
    /\ phase = "closed"
    /\ CURRENT # ABSENT
    /\ phase' = IF CURRENT = EMPTY THEN "failed" ELSE "opening"
    /\ entries' = IF CURRENT = EMPTY THEN {} ELSE directory_entries
    /\ sst_files' = {} /\ deleted_files' = {}
    /\ UNCHANGED <<disk, inner, active_write_operation, writer, job>>

(* One directory entry is visited; read_dir lists them in any order.       *)
visit_entry(e) ==
    LET ext == e[1]
        s   == e[2]
    IN  /\ phase = "opening"
        /\ e \in entries
        /\ entries' = entries \ {e}
        /\ \/ (* named by a del file that was visited before *)
              /\ s \in deleted_files
              /\ UNCHANGED <<sst, blob, del, sst_files, deleted_files>>
           \/ (* newer than CURRENT: left over by a write that did not commit *)
              /\ s \notin deleted_files /\ s > CURRENT
              /\ sst'  = IF ext = "sst"  THEN Without(sst, {s})  ELSE sst
              /\ blob' = IF ext = "blob" THEN Without(blob, {s}) ELSE blob
              /\ del'  = IF ext = "del"  THEN Without(del, {s})  ELSE del
              /\ UNCHANGED <<sst_files, deleted_files>>
           \/ /\ s \notin deleted_files /\ s <= CURRENT /\ ext = "sst"
              /\ sst_files' = sst_files \cup {s}
              /\ UNCHANGED <<sst, blob, del, deleted_files>>
           \/ (* the deletes are executed again; the del file itself goes   *)
              (* when none of its files was left                            *)
              /\ s \notin deleted_files /\ s <= CURRENT /\ ext = "del"
              /\ deleted_files' = deleted_files \cup del[s]
              /\ sst'  = Without(sst, del[s])
              /\ blob' = Without(blob, del[s])
              /\ del'  = IF del[s] \cap (DOMAIN sst \cup DOMAIN blob) = {}
                           THEN Without(del, {s}) ELSE del
              /\ UNCHANGED sst_files
           \/ (* blob files are read when needed *)
              /\ s \notin deleted_files /\ s <= CURRENT /\ ext = "blob"
              /\ UNCHANGED <<sst, blob, del, sst_files, deleted_files>>
        /\ UNCHANGED <<unsynced, CURRENT, syncedCurrent, phase, inner,
                       active_write_operation, writer, job>>

(* The remaining SST files are opened.                                     *)
finish_open ==
    /\ phase = "opening"
    /\ entries = {}
    /\ IF sst_files \ deleted_files \subseteq DOMAIN sst
         THEN /\ phase' = "open"
              /\ static_sorted_files' = sst_files \ deleted_files
              /\ current_sequence_number' = CURRENT
         ELSE /\ phase' = "failed"
              /\ UNCHANGED inner
    /\ sst_files' = {} /\ deleted_files' = {}
    /\ UNCHANGED <<disk, entries, active_write_operation, writer, job>>

-----------------------------------------------------------------------------
(* Write batches (write_batch, WriteBatch, commit_write_batch).            *)

write_batch ==
    /\ phase = "open"
    /\ ~active_write_operation
    /\ current_sequence_number < MaxSeq
    /\ active_write_operation' = TRUE
    /\ writer' = "batch"
    /\ seq' = current_sequence_number
    /\ UNCHANGED <<disk, phase, inner, loader, new_sst_files, new_blob_files,
                   created, outputs, move_jobs, removed_ssts>>

has_room == /\ seq < MaxSeq
            /\ Cardinality(new_sst_files \cup new_blob_files) < MaxBatchFiles

(* put with a large value: the value goes to a blob file of its own.       *)
create_blob(v) ==
    /\ writer = "batch"
    /\ seq + 1 < MaxSeq
    /\ Cardinality(new_sst_files \cup new_blob_files) + 1 < MaxBatchFiles
    /\ seq' = seq + 1
    /\ blob' = With(blob, seq', v)
    /\ unsynced' = unsynced \cup {seq'}
    /\ new_blob_files' = new_blob_files \cup {seq'}
    /\ UNCHANGED <<sst, del, CURRENT, syncedCurrent, phase, inner, loader, writer,
                   active_write_operation, new_sst_files, created, outputs, move_jobs,
                   removed_ssts>>

(* A file with the given contents and the next sequence number.            *)
create_sst(content) ==
    /\ seq' = seq + 1
    /\ sst' = With(sst, seq', content)
    /\ unsynced' = unsynced \cup {seq'}
    /\ new_sst_files' = new_sst_files \cup {seq'}
    /\ created' = created \cup {seq'}

(* What a batch may write: values, tombstones and references to the blob   *)
(* files it created.                                                       *)
BatchEntries == {c \in Writes :
                    /\ IsContent(c) /\ DOMAIN c # {}
                    /\ \A k \in DOMAIN c : c[k] \in Value \cup {Deleted}
                                                 \cup {BlobRef(s) : s \in new_blob_files}}

(* A collector is written to an SST file: it is full, or the batch is      *)
(* finished.                                                               *)
create_sst_file(content) ==
    /\ writer = "batch"
    /\ has_room
    /\ create_sst(content)
    /\ UNCHANGED <<blob, del, CURRENT, syncedCurrent, phase, inner, loader, writer,
                   active_write_operation, new_blob_files, outputs, move_jobs,
                   removed_ssts>>

(* finish: everything is written, and every blob file is referenced by an  *)
(* SST file of the batch.                                                  *)
finish ==
    /\ writer = "batch"
    /\ \A b \in new_blob_files : \E s \in new_sst_files :
            \E k \in DOMAIN sst[s] : sst[s][k] = BlobRef(b)
    /\ writer' = "sync"
    /\ UNCHANGED <<disk, phase, inner, loader, active_write_operation, job>>

-----------------------------------------------------------------------------
(* Compaction (compact, compact_internal).                                 *)

is_first(s, S) == s \in S /\ \A t \in S : s <= t
in_order(S) == [i \in 1 .. Cardinality(S) |->
                  CHOOSE s \in S : Cardinality({t \in S : t <= s}) = i]
range_of(s) == <<Min(DOMAIN sst[s]), Max(DOMAIN sst[s])>>

(* The files of positions in the list of SST files.                        *)
files_at(positions) == {s \in static_sorted_files :
                          Cardinality({t \in static_sorted_files : t <= s}) \in positions}

(* The entries of the merged files; under an equal key the newest wins.    *)
merged(S) == [k \in UNION {DOMAIN sst[s] : s \in S} |-> sst[Max(holding(S, k))][k]]

(* A merge that grows too large is continued in another file: the result   *)
(* is cut after some of the keys.                                          *)
chunks(content, cuts) ==
    {Restrict(content, {k \in DOMAIN content : Cardinality({c \in cuts : c < k}) = n}) :
        n \in {Cardinality({c \in cuts : c < k}) : k \in DOMAIN content}}

(* These groups of files are to be merged and these files to be moved.     *)
start_compact(groups, moves, cuts) ==
    LET parts == UNION {chunks(merged(g), cuts) : g \in groups}
    IN  /\ phase = "open"
        /\ ~active_write_operation
        /\ current_sequence_number + Cardinality(parts) + Cardinality(moves) < MaxSeq
        /\ active_write_operation' = TRUE
        /\ writer' = "compact"
        /\ seq' = current_sequence_number
        /\ outputs' = parts
        /\ move_jobs' = moves
        /\ removed_ssts' = moves \cup UNION groups
        /\ UNCHANGED <<disk, phase, inner, loader, new_sst_files, new_blob_files, created>>

compact(cuts) ==
    LET files  == in_order(static_sorted_files)
        ranges == [i \in DOMAIN files |-> range_of(files[i])]
        jobs   == IF total_spread(ranges) <= MaxCoverage THEN [merge |-> << >>, move |-> {}]
                  ELSE get_compaction_jobs(ranges, MaxMerge)
    IN  start_compact({files_at(ToSet(j)) : j \in ToSet(jobs.merge)}, files_at(jobs.move), cuts)

(* The merge jobs run in parallel and take sequence numbers in any order.  *)
write_merged(content) ==
    /\ writer = "compact"
    /\ content \in outputs
    /\ create_sst(content)
    /\ outputs' = outputs \ {content}
    /\ UNCHANGED <<blob, del, CURRENT, syncedCurrent, phase, inner, loader, writer,
                   active_write_operation, new_blob_files, move_jobs, removed_ssts>>

(* After all merges, the moved files are linked under the next numbers, in *)
(* their order.                                                            *)
move_file(s) ==
    /\ writer = "compact"
    /\ outputs = {} /\ is_first(s, move_jobs)
    /\ create_sst(sst[s])
    /\ move_jobs' = move_jobs \ {s}
    /\ UNCHANGED <<blob, del, CURRENT, syncedCurrent, phase, inner, loader, writer,
                   active_write_operation, new_blob_files, outputs, removed_ssts>>

finish_compact ==
    /\ writer = "compact"
    /\ outputs = {} /\ move_jobs = {}
    /\ writer' = "sync"
    /\ UNCHANGED <<disk, phase, inner, loader, active_write_operation, job>>

-----------------------------------------------------------------------------
(* Commit of a write batch or a compaction (commit).                       *)

(* The new SST files are synced in order, then the blob files.             *)
sync_file(s) ==
    /\ writer = "sync"
    /\ is_first(s, IF new_sst_files # {} THEN new_sst_files ELSE new_blob_files)
    /\ unsynced' = unsynced \ {s}
    /\ new_sst_files' = new_sst_files \ {s}
    /\ new_blob_files' = new_blob_files \ {s}
    /\ UNCHANGED <<sst, blob, del, CURRENT, syncedCurrent, phase, inner, loader, writer,
                   active_write_operation, seq, created, outputs, move_jobs, removed_ssts>>

(* Mutant: the files are published, and then committed, without a sync.    *)
publish_unsynced ==
    /\ writer = "sync"
    /\ seq' = IF removed_ssts = {} THEN seq ELSE seq + 1
    /\ current_sequence_number' = seq'
    /\ static_sorted_files' = (static_sorted_files \ removed_ssts) \cup created
    /\ writer' = IF removed_ssts = {} THEN "current" ELSE "del"
    /\ UNCHANGED <<disk, phase, loader, active_write_operation, new_sst_files,
                   new_blob_files, created, outputs, move_jobs, removed_ssts>>

(* Mutant: no del file is written.                                         *)
publish_without_del ==
    /\ writer = "sync"
    /\ new_sst_files \cup new_blob_files = {}
    /\ current_sequence_number' = seq
    /\ static_sorted_files' = (static_sorted_files \ removed_ssts) \cup created
    /\ writer' = "current"
    /\ UNCHANGED <<disk, phase, loader, active_write_operation, job>>

(* Mutant: the next write operation starts from the old sequence number.   *)
publish_old_number ==
    /\ writer = "sync"
    /\ new_sst_files \cup new_blob_files = {}
    /\ seq' = IF removed_ssts = {} THEN seq ELSE seq + 1
    /\ static_sorted_files' = (static_sorted_files \ removed_ssts) \cup created
    /\ writer' = IF removed_ssts = {} THEN "current" ELSE "del"
    /\ UNCHANGED <<disk, phase, loader, current_sequence_number, active_write_operation,
                   new_sst_files, new_blob_files, created, outputs, move_jobs, removed_ssts>>

(* Under the write lock, readers get the new list of files.                *)
publish ==
    /\ writer = "sync"
    /\ new_sst_files \cup new_blob_files = {}
    /\ seq' = IF removed_ssts = {} THEN seq ELSE seq + 1
    /\ current_sequence_number' = seq'
    /\ static_sorted_files' = (static_sorted_files \ removed_ssts) \cup created
    /\ writer' = IF removed_ssts = {} THEN "current" ELSE "del"
    /\ UNCHANGED <<disk, phase, loader, active_write_operation, new_sst_files,
                   new_blob_files, created, outputs, move_jobs, removed_ssts>>

write_del ==
    /\ writer = "del"
    /\ seq \notin DOMAIN del
    /\ del' = With(del, seq, removed_ssts)
    /\ unsynced' = unsynced \cup {seq}
    /\ UNCHANGED <<sst, blob, CURRENT, syncedCurrent, phase, inner, loader, writer,
                   active_write_operation, job>>

sync_del ==
    /\ writer = "del"
    /\ seq \in DOMAIN del
    /\ unsynced' = unsynced \ {seq}
    /\ writer' = "current"
    /\ UNCHANGED <<sst, blob, del, CURRENT, syncedCurrent, phase, inner, loader,
                   active_write_operation, job>>

(* Mutant: the superseded files are unlinked before CURRENT is synced.     *)
write_current_unsynced ==
    /\ writer = "current"
    /\ CURRENT' = seq
    /\ writer' = "remove"
    /\ UNCHANGED <<sst, blob, del, unsynced, syncedCurrent, phase, inner, loader,
                   active_write_operation, job>>

write_current ==
    /\ writer = "current"
    /\ CURRENT' = seq
    /\ writer' = "sync_current"
    /\ UNCHANGED <<sst, blob, del, unsynced, syncedCurrent, phase, inner, loader,
                   active_write_operation, job>>

sync_current ==
    /\ writer = "sync_current"
    /\ syncedCurrent' = CURRENT
    /\ writer' = "remove"
    /\ UNCHANGED <<sst, blob, del, unsynced, CURRENT, phase, inner, loader,
                   active_write_operation, job>>

remove_file(s) ==
    /\ writer = "remove"
    /\ is_first(s, removed_ssts)
    /\ sst' = Without(sst, {s})
    /\ removed_ssts' = removed_ssts \ {s}
    /\ UNCHANGED <<blob, del, unsynced, CURRENT, syncedCurrent, phase, inner, loader,
                   writer, active_write_operation, seq, new_sst_files, new_blob_files,
                   created, outputs, move_jobs>>

(* The write operation is over: the next one is admitted.                  *)
release ==
    /\ writer = "remove"
    /\ removed_ssts = {}
    /\ writer' = "idle"
    /\ active_write_operation' = FALSE
    /\ created' = {}
    /\ UNCHANGED <<disk, phase, inner, loader, seq, new_sst_files, new_blob_files,
                   outputs, move_jobs, removed_ssts>>

(* A step of the write operation returns an error, or the batch is dropped *)
(* without a commit.  Nothing resets active_write_operation.               *)
fail ==
    /\ writer \notin {"idle", "failed"}
    /\ writer' = "failed"
    /\ UNCHANGED <<disk, phase, inner, loader, active_write_operation, job>>

-----------------------------------------------------------------------------
(* The process or the machine stops.  Any of the files that were not       *)
(* synced may be gone, and CURRENT may have its old content.               *)
crash ==
    /\ phase # "closed"
    /\ \E lost \in SUBSET unsynced :
          /\ sst'  = Without(sst, lost)
          /\ blob' = Without(blob, lost)
          /\ del'  = Without(del, lost)
    /\ unsynced' = {}
    /\ CURRENT' \in {CURRENT, syncedCurrent}
    /\ syncedCurrent' = CURRENT'
    /\ phase' = "closed"
    /\ static_sorted_files' = {} /\ current_sequence_number' = 0
    /\ entries' = {} /\ sst_files' = {} /\ deleted_files' = {}
    /\ active_write_operation' = FALSE
    /\ writer' = "idle"
    /\ seq' = 0
    /\ new_sst_files' = {} /\ new_blob_files' = {} /\ created' = {}
    /\ outputs' = {} /\ move_jobs' = {} /\ removed_ssts' = {}

-----------------------------------------------------------------------------
open == \/ create_current
        \/ init_current
        \/ read_current
        \/ \E e \in entries : visit_entry(e)
        \/ finish_open

(* What a write operation does once it was started.                        *)
batch == \/ \E v \in Value : create_blob(v)
         \/ \E content \in BatchEntries : create_sst_file(content)

progress == \/ finish
            \/ \E content \in outputs : write_merged(content)
            \/ \E s \in move_jobs : move_file(s)
            \/ finish_compact
            \/ \E s \in new_sst_files \cup new_blob_files : sync_file(s)
            \/ publish
            \/ write_del
            \/ sync_del
            \/ write_current
            \/ sync_current
            \/ \E s \in removed_ssts : remove_file(s)
            \/ release

Next == \/ open
        \/ write_batch
        \/ batch
        \/ \E cuts \in SUBSET Key : compact(cuts)
        \/ progress
        \/ fail
        \/ crash

Spec == Init /\ [][Next]_vars

-----------------------------------------------------------------------------
TypeOK ==
    /\ IsFiniteSet(DOMAIN sst) /\ DOMAIN sst \subseteq Nat
    /\ \A s \in DOMAIN sst : IsContent(sst[s])
    /\ DOMAIN blob \subseteq Nat /\ \A s \in DOMAIN blob : blob[s] \in Value
    /\ DOMAIN del \subseteq Nat /\ \A s \in DOMAIN del : del[s] \subseteq Nat
    /\ unsynced \subseteq Nat
    /\ CURRENT \in {ABSENT, EMPTY} \cup Nat
    /\ syncedCurrent \in {ABSENT, EMPTY} \cup Nat
    /\ phase \in {"closed", "initializing", "opening", "open", "failed"}
    /\ static_sorted_files \subseteq Nat
    /\ current_sequence_number \in Nat
    /\ entries \subseteq {"sst", "blob", "del"} \X Nat
    /\ sst_files \subseteq Nat
    /\ deleted_files \subseteq Nat
    /\ active_write_operation \in BOOLEAN
    /\ writer \in {"idle", "batch", "compact", "sync", "del", "current",
                   "sync_current", "remove", "failed"}
    /\ seq \in Nat
    /\ new_sst_files \subseteq Nat
    /\ new_blob_files \subseteq Nat
    /\ created \subseteq Nat
    /\ \A c \in outputs : IsContent(c)
    /\ move_jobs \subseteq Nat
    /\ removed_ssts \subseteq Nat

-----------------------------------------------------------------------------
(* Properties.                                                             *)

(* Once the database is open and no write operation runs, the directory    *)
(* holds exactly the SST files readers use: what an interrupted write or a *)
(* half-finished removal left over is gone (load_directory).               *)
NoLeftoverFiles ==
    phase = "open" /\ writer = "idle" => DOMAIN sst = static_sorted_files

(* Whichever content of CURRENT a crash leaves, the files it makes         *)
(* load_directory use are synced, and so are the blob files they refer to: *)
(* commit syncs in the right order and never unlinks too early.            *)
CommittedFilesIntact ==
    \A c \in {CURRENT, syncedCurrent} : \A s \in recoverable(c) :
        /\ s \notin unsynced
        /\ \A k \in DOMAIN sst[s] :
              sst[s][k] \in [blob : Nat] => sst[s][k].blob \in DOMAIN blob \ unsynced

(* What readers of the open database see is what they would see after a    *)
(* restart, except while a commit or a failed one is under way: no restart *)
(* revives a superseded file or loses a committed one.                     *)
RestartKeepsFiles ==
    phase = "open" /\ writer \in {"idle", "batch", "compact", "sync", "remove"} =>
        recoverable(syncedCurrent) = static_sorted_files

(* A file is never written again: a sequence number that was used by a     *)
(* file still in the directory is not used for another one.                *)
FilesAreImmutable ==
    [][/\ \A s \in DOMAIN sst \cap DOMAIN sst' : sst'[s] = sst[s]
       /\ \A s \in DOMAIN blob \cap DOMAIN blob' : blob'[s] = blob[s]
       /\ DOMAIN sst' \cap DOMAIN blob' = {}]_vars

(* A compaction does not change what readers find (README.md:174: "items   *)
(* in these SST files might be overriden in later SST file and we don't    *)
(* want to change that").                                                  *)
CompactionKeepsContents ==
    [][removed_ssts # {} /\ static_sorted_files' # static_sorted_files /\ phase' = "open"
         => contents(static_sorted_files') = contents(static_sorted_files)]_vars

(* The database implements the key-value store: batches are atomic, also   *)
(* across crashes, and a restart changes nothing.  While the database is   *)
(* not open, the store is what a restart would find.                       *)
KV == INSTANCE KVStore
        WITH store   <- IF phase = "open" THEN contents(static_sorted_files)
                                          ELSE contents(recoverable(syncedCurrent)),
             durable <- contents(recoverable(syncedCurrent)),
             up      <- phase = "open"
ImplementsKVStore == KV!Spec

(* What is on disk is exact: everything that a restart would need, and     *)
(* once the database is open nothing else.                                 *)
DirectoryIsExact == NoLeftoverFiles /\ CommittedFilesIntact
=============================================================================
