------------------------ MODULE TurboPersistenceProofs ------------------------
(***************************************************************************)
(* Proofs about TurboPersistence, for every set of keys and values, every  *)
(* client and every number of files, and about the jobs CompactionSelector *)
(* chooses, for every list of files and every merge limit.                 *)
(***************************************************************************)
EXTENDS TurboPersistence, MCCompactionSelector, FiniteSetTheorems, WellFoundedInduction, TLAPS

(***************************************************************************)
(* Sequence numbers.  FilesAreImmutable holds because a write operation    *)
(* only takes numbers above those of all files in the directory.  The      *)
(* invariant has to follow this through a restart: whatever is left above  *)
(* CURRENT when the database is opened is still to be visited, and is then *)
(* removed.                                                                *)
(***************************************************************************)
Files == DOMAIN sst \cup DOMAIN blob \cup DOMAIN del

NumberTypes ==
    /\ Files \subseteq Nat
    /\ CURRENT \in {ABSENT, EMPTY} \cup Nat
    /\ syncedCurrent \in {ABSENT, EMPTY} \cup Nat
    /\ current_sequence_number \in Nat
    /\ seq \in Nat
    /\ phase \in {"closed", "initializing", "opening", "open", "failed"}
    /\ writer \in {"idle", "batch", "compact", "sync", "del", "current",
                   "sync_current", "remove", "failed"}
    /\ entries \subseteq {"sst", "blob", "del"} \X Nat

(* The kinds of files do not share numbers, and a del file only names      *)
(* older files.                                                            *)
NumberKinds ==
    /\ DOMAIN sst \cap DOMAIN blob = {}
    /\ DOMAIN sst \cap DOMAIN del = {}
    /\ \A d \in DOMAIN del : del[d] \cap DOMAIN del = {}
    /\ \A d \in DOMAIN del : \A s \in del[d] : s \in Nat /\ s < d

(* The directory before it has a CURRENT with a number in it.              *)
NumberFresh ==
    /\ CURRENT = ABSENT <=> syncedCurrent = ABSENT
    /\ CURRENT = ABSENT => Files = {} /\ phase = "closed"
    /\ phase = "initializing" => Files = {}

(* The files left to visit while the directory is loaded.                  *)
NumberLoading ==
    phase = "opening" =>
        /\ CURRENT \in Nat
        /\ \A s \in DOMAIN sst : s > CURRENT => <<"sst", s>> \in entries
        /\ \A s \in DOMAIN blob : s > CURRENT => <<"blob", s>> \in entries
        /\ \A s \in DOMAIN del : s > CURRENT => <<"del", s>> \in entries
        /\ \A e \in entries : e[1] = "del" => e[2] \in DOMAIN del
        /\ \A s \in deleted_files : s \in Nat /\ s <= CURRENT
        /\ \A s \in sst_files : s \in Nat /\ s <= CURRENT
        /\ deleted_files \cap DOMAIN del = {}

(* The write operation holds the flag, and its counter is above all files. *)
NumberWriting ==
    /\ phase # "open" => /\ writer = "idle" /\ ~active_write_operation
                         /\ static_sorted_files = {}
                         /\ current_sequence_number = 0
    /\ writer = "idle" => created = {}
    /\ writer \in {"idle", "batch"} => removed_ssts = {}
    /\ phase = "open" =>
        /\ active_write_operation <=> writer # "idle"
        /\ writer = "idle" => \A s \in Files : s <= current_sequence_number
        /\ writer # "idle" => /\ \A s \in Files : s <= seq
                              /\ current_sequence_number <= seq
        /\ writer \in {"del", "current", "sync_current", "remove"} =>
              current_sequence_number = seq
        /\ \A s \in static_sorted_files : s \in Nat /\ s <= current_sequence_number
        /\ \A s \in created : s \in Nat /\ s <= seq
        /\ writer \in {"compact", "sync"} =>
              \A s \in removed_ssts : s \in Nat /\ s <= current_sequence_number
        /\ writer = "del" => \A s \in removed_ssts \cup static_sorted_files
                                       \cup created \cup DOMAIN sst :
                                s \in Nat /\ s < seq
        /\ (static_sorted_files \cup created \cup removed_ssts) \cap DOMAIN del = {}

NumberInv == NumberTypes /\ NumberKinds /\ NumberFresh /\ NumberLoading /\ NumberWriting

LEMMA NumberInvInit == Init => NumberInv
  BY DEF Init, NumberInv, NumberTypes, NumberKinds, NumberFresh, NumberLoading,
         NumberWriting, Files, NoFiles, ABSENT, EMPTY

LEMMA NumberInvNext == NumberInv /\ [Next]_vars => NumberInv'
<1> SUFFICES ASSUME NumberInv, [Next]_vars
             PROVE  NumberInv'
  OBVIOUS
<1> USE DEF NumberInv, NumberTypes, NumberKinds, NumberFresh, NumberLoading,
            NumberWriting, Files, ABSENT, EMPTY
<1>1. CASE create_current
  BY <1>1 DEF create_current, inner, loader, job
<1>2. CASE init_current
  BY <1>2 DEF init_current, inner, loader, job
<1>3. CASE read_current
  BY <1>3 DEF read_current, directory_entries, disk, inner, job
<1>4. ASSUME NEW e \in entries, visit_entry(e)
      PROVE  NumberInv'
  BY <1>4 DEF visit_entry, Without, disk, inner, job
<1>5. CASE finish_open
  BY <1>5 DEF finish_open, disk, inner, job
<1>6. CASE write_batch
  BY <1>6 DEF write_batch, disk, inner, loader
<1>7. ASSUME NEW v \in Value, create_blob(v)
      PROVE  NumberInv'
  BY <1>7 DEF create_blob, With, inner, loader
<1>8. ASSUME NEW content \in BatchEntries, create_sst_file(content)
      PROVE  NumberInv'
  BY <1>8 DEF create_sst_file, create_sst, With, inner, loader
<1>9. CASE finish
  BY <1>9 DEF finish, disk, inner, loader, job
<1>10. ASSUME NEW cuts \in SUBSET Key, compact(cuts)
       PROVE  NumberInv'
  <2>1. removed_ssts' \subseteq static_sorted_files
    BY <1>10 DEF compact, start_compact, files_at
  <2>2. /\ UNCHANGED <<disk, phase, inner, loader, created>>
        /\ phase = "open" /\ ~active_write_operation
        /\ active_write_operation' = TRUE
        /\ writer' = "compact"
        /\ seq' = current_sequence_number
    BY <1>10 DEF compact, start_compact
  <2> QED
    BY <2>1, <2>2 DEF disk, inner, loader
<1>11. ASSUME NEW content \in outputs, write_merged(content)
       PROVE  NumberInv'
  BY <1>11 DEF write_merged, create_sst, With, inner, loader
<1>12. ASSUME NEW s \in move_jobs, move_file(s)
       PROVE  NumberInv'
  BY <1>12 DEF move_file, create_sst, With, inner, loader
<1>13. CASE finish_compact
  BY <1>13 DEF finish_compact, disk, inner, loader, job
<1>14. ASSUME NEW s \in new_sst_files \cup new_blob_files, sync_file(s)
       PROVE  NumberInv'
  BY <1>14 DEF sync_file, inner, loader
<1>15. CASE publish
  BY <1>15 DEF publish, disk, loader
<1>16. CASE write_del
  BY <1>16 DEF write_del, With, inner, loader, job
<1>17. CASE sync_del
  BY <1>17 DEF sync_del, inner, loader, job
<1>18. CASE write_current
  BY <1>18 DEF write_current, inner, loader, job
<1>19. CASE sync_current
  BY <1>19 DEF sync_current, inner, loader, job
<1>20. ASSUME NEW s \in removed_ssts, remove_file(s)
       PROVE  NumberInv'
  BY <1>20 DEF is_first,  remove_file, Without, inner, loader
<1>21. CASE release
  BY <1>21 DEF release, disk, inner, loader
<1>22. CASE fail
  BY <1>22 DEF fail, disk, inner, loader, job
<1>23. CASE crash
  BY <1>23 DEF crash, Without
<1>24. CASE UNCHANGED vars
  BY <1>24 DEF vars, disk, inner, loader, job
<1> QED
  BY <1>1, <1>2, <1>3, <1>4, <1>5, <1>6, <1>7, <1>8, <1>9, <1>10, <1>11, <1>12, <1>13,
     <1>14, <1>15, <1>16, <1>17, <1>18, <1>19, <1>20, <1>21, <1>22, <1>23, <1>24
     DEF Next, open, batch, progress
(* No step changes the contents of a file that stays in the directory.     *)
LEMMA KeptFiles ==
    ASSUME NumberInv, [Next]_vars
    PROVE  /\ \A s \in DOMAIN sst \cap DOMAIN sst' : sst'[s] = sst[s]
           /\ \A s \in DOMAIN blob \cap DOMAIN blob' : blob'[s] = blob[s]
           /\ DOMAIN sst' \cap DOMAIN blob' = {}
<1>1. DOMAIN sst' \cap DOMAIN blob' = {}
  BY NumberInvNext DEF NumberInv, NumberKinds
<1>2. ASSUME writer # "idle", NEW c, create_sst(c)
      PROVE  \A s \in DOMAIN sst \cap DOMAIN sst' : sst'[s] = sst[s]
  <2>1. phase = "open" /\ \A s \in DOMAIN sst : s # seq + 1
    BY <1>2 DEF NumberInv, NumberTypes, NumberWriting, Files
  <2> QED
    BY <1>2, <2>1 DEF create_sst, With
<1>3. ASSUME NEW v, create_blob(v)
      PROVE  \A s \in DOMAIN blob \cap DOMAIN blob' : blob'[s] = blob[s]
  <2>1. phase = "open" /\ \A s \in DOMAIN blob : s # seq + 1
    BY <1>3 DEF NumberInv, NumberTypes, NumberWriting, Files, create_blob
  <2> QED
    BY <1>3, <2>1 DEF create_blob, With
<1>4. \A s \in DOMAIN sst \cap DOMAIN sst' : sst'[s] = sst[s]
  <2>1. ASSUME NEW S, sst' = Without(sst, S)
        PROVE  \A s \in DOMAIN sst \cap DOMAIN sst' : sst'[s] = sst[s]
    BY <2>1 DEF Without
  <2>2. \/ UNCHANGED sst
        \/ \E S : sst' = Without(sst, S)
        \/ writer # "idle" /\ \E c : create_sst(c)
    BY DEF Next, open, batch, progress, vars, disk, inner, loader, job,
       create_current, init_current, read_current, visit_entry, finish_open,
       write_batch, create_blob, create_sst_file, finish, compact, start_compact, write_merged,
       move_file, finish_compact, sync_file, publish, write_del, sync_del,
       write_current, sync_current, remove_file, release, fail, crash
  <2> QED
    BY <1>2, <2>1, <2>2
<1>5. \A s \in DOMAIN blob \cap DOMAIN blob' : blob'[s] = blob[s]
  <2>1. ASSUME NEW S, blob' = Without(blob, S)
        PROVE  \A s \in DOMAIN blob \cap DOMAIN blob' : blob'[s] = blob[s]
    BY <2>1 DEF Without
  <2>2. \/ UNCHANGED blob
        \/ \E S : blob' = Without(blob, S)
        \/ \E v : create_blob(v)
    BY DEF Next, open, batch, progress, vars, disk, inner, loader, job,
       create_current, init_current, read_current, visit_entry, finish_open,
       write_batch, create_sst_file, finish, compact, start_compact, write_merged,
       move_file, finish_compact, sync_file, publish, write_del, sync_del,
       write_current, sync_current, remove_file, release, fail, crash
  <2> QED
    BY <1>3, <2>1, <2>2
<1> QED
  BY <1>1, <1>4, <1>5

(* FilesAreImmutable: no step changes the contents of a file that stays in *)
(* the directory, whatever the client writes and wherever a crash hits.    *)
THEOREM Immutable == Spec => FilesAreImmutable
<1>1. NumberInv /\ [Next]_vars =>
         [/\ \A s \in DOMAIN sst \cap DOMAIN sst' : sst'[s] = sst[s]
          /\ \A s \in DOMAIN blob \cap DOMAIN blob' : blob'[s] = blob[s]
          /\ DOMAIN sst' \cap DOMAIN blob' = {}]_vars
  BY KeptFiles
<1>2. Spec => []NumberInv
  BY NumberInvInit, NumberInvNext, PTL DEF Spec
<1> QED
  BY <1>1, <1>2, PTL DEF Spec, FilesAreImmutable
-----------------------------------------------------------------------------
(***************************************************************************)
(* Recovery.  RestartKeepsFiles compares what readers use with what a      *)
(* restart would find.  While a write operation runs the two differ by the *)
(* files it created and the files it supersedes; the invariant says which  *)
(* of the two sides already has them.                                      *)
(***************************************************************************)

(* The directory while it is loaded: an SST file that belongs to the       *)
(* database was found or is still to be visited, and so is every del file. *)
RecoverLoading ==
    phase = "opening" =>
        /\ \A s \in DOMAIN sst : s <= CURRENT => <<"sst", s>> \in entries \/ s \in sst_files
        /\ \A s \in sst_files : s \in DOMAIN sst \/ s \in deleted_files
        /\ deleted_files \cap DOMAIN sst = {}
        /\ \A d \in DOMAIN del : d <= CURRENT =>
              <<"del", d>> \in entries \/ del[d] \subseteq deleted_files
        /\ \A f \in entries : f[1] = "sst" => f[2] \in DOMAIN sst \cup deleted_files

(* Before the files are published, and after the superseded ones are       *)
(* recorded, readers and a restart agree.                                  *)
RecoverAgreeing ==
    /\ writer \in {"idle", "batch", "compact", "sync"} =>
          /\ recoverable(syncedCurrent) = static_sorted_files
          /\ syncedCurrent <= current_sequence_number
          /\ \A d \in DOMAIN del : d <= syncedCurrent
    /\ writer = "remove" =>
          /\ recoverable(syncedCurrent) = static_sorted_files
          /\ syncedCurrent = seq
          /\ \A d \in DOMAIN del : d <= syncedCurrent
          /\ \A s \in DOMAIN sst : s <= syncedCurrent
          /\ \A s \in removed_ssts : \E d \in DOMAIN del : s \in del[d]

(* In between, the synced CURRENT and the del file decide.                 *)
RecoverCommitting ==
    /\ writer \in {"del", "current", "sync_current"} =>
          /\ static_sorted_files = (recoverable(syncedCurrent) \ removed_ssts) \cup created
          /\ syncedCurrent <= seq
          /\ \A d \in DOMAIN del : d <= syncedCurrent \/ (d = seq /\ del[d] = removed_ssts)
    /\ writer = "del" => syncedCurrent < seq
    /\ writer \in {"current", "sync_current"} =>
          removed_ssts = {} \/ (seq \in DOMAIN del /\ del[seq] = removed_ssts)
    /\ writer = "sync_current" => CURRENT = seq

RecoverInv ==
    /\ phase \in {"closed", "opening", "failed"} => CURRENT = syncedCurrent
    /\ phase = "initializing" => syncedCurrent = EMPTY
    /\ RecoverLoading
    /\ phase = "open" => /\ RecoverAgreeing /\ RecoverCommitting
                         /\ writer \notin {"remove", "failed"} =>
                               /\ created = {s \in DOMAIN sst : s > syncedCurrent}
                               /\ created \cap removed_ssts = {}
LEMMA RecoverInvInit == Init => RecoverInv
  BY DEF Init, RecoverInv, RecoverLoading, RecoverAgreeing, RecoverCommitting,
         ABSENT, EMPTY

LEMMA RecoverInvNext == NumberInv /\ RecoverInv /\ [Next]_vars => RecoverInv'
<1> SUFFICES ASSUME NumberInv, RecoverInv, [Next]_vars
             PROVE  RecoverInv'
  OBVIOUS
<1> USE DEF NumberInv, NumberTypes, NumberKinds, NumberFresh, NumberLoading,
            NumberWriting, Files, RecoverInv, RecoverLoading, RecoverAgreeing,
            RecoverCommitting, recoverable, ABSENT, EMPTY
<1>1. CASE create_current
  BY <1>1 DEF create_current, inner, loader, job
<1>2. CASE init_current
  BY <1>2 DEF init_current, inner, loader, job
<1>3. CASE read_current
  BY <1>3 DEF read_current, directory_entries, disk, inner, job
<1>4. ASSUME NEW e \in entries, visit_entry(e)
      PROVE  RecoverInv'
  <2> PICK ext \in {"sst", "blob", "del"}, s \in Nat : e = <<ext, s>>
    OBVIOUS
  <2>1. /\ phase = "opening" /\ phase' = "opening"
        /\ UNCHANGED <<CURRENT, syncedCurrent>>
        /\ entries' = entries \ {<<ext, s>>}
    BY <1>4 DEF visit_entry
  <2>2. SUFFICES RecoverLoading'
    BY <2>1
  <2>3. CASE s \in deleted_files
    <3>1. UNCHANGED <<sst, del, sst_files, deleted_files>>
      BY <1>4, <2>3 DEF visit_entry
    <3> QED
      BY <2>1, <2>3, <3>1
  <2>4. CASE s \notin deleted_files /\ s > CURRENT
    <3>1. /\ DOMAIN sst' \subseteq DOMAIN sst
          /\ \A t \in DOMAIN sst : t <= CURRENT => t \in DOMAIN sst'
          /\ \A t \in DOMAIN sst : t \in DOMAIN sst' \/ (ext = "sst" /\ t = s)
      <4>1. sst' = IF ext = "sst" THEN Without(sst, {s}) ELSE sst
        BY <1>4, <2>4 DEF visit_entry
      <4> QED
        BY <2>4, <4>1 DEF Without
    <3>2. \A d \in DOMAIN del' : d \in DOMAIN del /\ del'[d] = del[d]
      BY <1>4, <2>4 DEF visit_entry, Without
    <3>3. UNCHANGED <<sst_files, deleted_files>>
      BY <1>4, <2>4 DEF visit_entry
    <3>4. \A t \in DOMAIN sst' : t <= CURRENT' =>
              <<"sst", t>> \in entries' \/ t \in sst_files'
      BY <2>1, <2>4, <3>1, <3>3
    <3>5. /\ \A t \in sst_files' : t \in DOMAIN sst' \/ t \in deleted_files'
          /\ deleted_files' \cap DOMAIN sst' = {}
      BY <2>1, <3>1, <3>3
    <3>6. \A d \in DOMAIN del' : d <= CURRENT' =>
              <<"del", d>> \in entries' \/ del'[d] \subseteq deleted_files'
      BY <2>1, <2>4, <3>2, <3>3
    <3>7. \A f \in entries' : f[1] = "sst" => f[2] \in DOMAIN sst' \cup deleted_files'
      BY <2>1, <3>1, <3>3
    <3> QED
      BY <2>1, <3>4, <3>5, <3>6, <3>7
  <2>5. CASE s \notin deleted_files /\ s <= CURRENT /\ ext = "sst"
    <3>1. /\ UNCHANGED <<sst, del, deleted_files>>
          /\ sst_files' = sst_files \cup {s}
      BY <1>4, <2>5 DEF visit_entry
    <3> QED
      BY <2>1, <2>5, <3>1
  <2>6. CASE s \notin deleted_files /\ s <= CURRENT /\ ext = "del"
    <3>1. DOMAIN sst' = DOMAIN sst \ del[s]
      BY <1>4, <2>6 DEF visit_entry, Without
    <3>2. \A d \in DOMAIN del' : d \in DOMAIN del /\ del'[d] = del[d]
      BY <1>4, <2>6 DEF visit_entry, Without
    <3>3. /\ UNCHANGED sst_files
          /\ deleted_files' = deleted_files \cup del[s]
      BY <1>4, <2>6 DEF visit_entry
    <3>4. \A t \in DOMAIN sst' : t <= CURRENT' =>
              <<"sst", t>> \in entries' \/ t \in sst_files'
      BY <2>1, <2>6, <3>1, <3>3
    <3>5. \A t \in sst_files' : t \in DOMAIN sst' \/ t \in deleted_files'
      BY <2>1, <3>1, <3>3
    <3>6. deleted_files' \cap DOMAIN sst' = {}
      BY <2>1, <3>1, <3>3
    <3>7. \A d \in DOMAIN del' : d <= CURRENT' =>
              <<"del", d>> \in entries' \/ del'[d] \subseteq deleted_files'
      BY <2>1, <2>6, <3>2, <3>3
    <3>8. \A f \in entries' : f[1] = "sst" => f[2] \in DOMAIN sst' \cup deleted_files'
      BY <2>1, <3>1, <3>3
    <3> QED
      BY <2>1, <3>4, <3>5, <3>6, <3>7, <3>8
  <2>7. CASE s \notin deleted_files /\ s <= CURRENT /\ ext = "blob"
    <3>1. UNCHANGED <<sst, del, sst_files, deleted_files>>
      BY <1>4, <2>7 DEF visit_entry
    <3> QED
      BY <2>1, <2>7, <3>1
  <2> QED
    BY <1>4, <2>1, <2>3, <2>4, <2>5, <2>6, <2>7
<1>5. CASE finish_open
  BY <1>5 DEF finish_open, disk, inner, job
<1>6. CASE write_batch
  BY <1>6 DEF write_batch, disk, inner, loader
<1>7. ASSUME NEW v \in Value, create_blob(v)
      PROVE  RecoverInv'
  BY <1>7 DEF create_blob, With, inner, loader
<1>8. ASSUME NEW content \in BatchEntries, create_sst_file(content)
      PROVE  RecoverInv'
  BY <1>8 DEF create_sst_file, create_sst, With, inner, loader
<1>9. CASE finish
  BY <1>9 DEF finish, disk, inner, loader, job
<1>10. ASSUME NEW cuts \in SUBSET Key, compact(cuts)
       PROVE  RecoverInv'
  BY <1>10 DEF compact, start_compact, files_at, disk, inner, loader
<1>11. ASSUME NEW content \in outputs, write_merged(content)
       PROVE  RecoverInv'
  BY <1>11 DEF write_merged, create_sst, With, inner, loader
<1>12. ASSUME NEW s \in move_jobs, move_file(s)
       PROVE  RecoverInv'
  BY <1>12 DEF move_file, create_sst, With, inner, loader
<1>13. CASE finish_compact
  BY <1>13 DEF finish_compact, disk, inner, loader, job
<1>14. ASSUME NEW s \in new_sst_files \cup new_blob_files, sync_file(s)
       PROVE  RecoverInv'
  BY <1>14 DEF sync_file, inner, loader
<1>15. CASE publish
  BY <1>15 DEF publish, disk, loader
<1>16. CASE write_del
  BY <1>16 DEF write_del, With, inner, loader, job
<1>17. CASE sync_del
  BY <1>17 DEF sync_del, inner, loader, job
<1>18. CASE write_current
  BY <1>18 DEF write_current, inner, loader, job
<1>19. CASE sync_current
  BY <1>19 DEF sync_current, inner, loader, job
<1>20. ASSUME NEW s \in removed_ssts, remove_file(s)
       PROVE  RecoverInv'
  BY <1>20 DEF is_first,  remove_file, Without, inner, loader
<1>21. CASE release
  BY <1>21 DEF release, disk, inner, loader
<1>22. CASE fail
  BY <1>22 DEF fail, disk, inner, loader, job
<1>23. CASE crash
  BY <1>23 DEF crash, Without
<1>24. CASE UNCHANGED vars
  BY <1>24 DEF vars, disk, inner, loader, job
<1> QED
  BY <1>1, <1>2, <1>3, <1>4, <1>5, <1>6, <1>7, <1>8, <1>9, <1>10, <1>11, <1>12, <1>13,
     <1>14, <1>15, <1>16, <1>17, <1>18, <1>19, <1>20, <1>21, <1>22, <1>23, <1>24
     DEF Next, open, batch, progress

(* RestartKeepsFiles: whenever the database is open and no commit is under *)
(* way, a restart would find exactly the files readers use, whichever      *)
(* batches, compactions and crashes came before.                           *)
THEOREM Recovery == Spec => []RestartKeepsFiles
<1>1. NumberInv /\ RecoverInv => RestartKeepsFiles
  BY DEF RecoverInv, RecoverAgreeing, RestartKeepsFiles
<1>2. Spec => []NumberInv
  BY NumberInvInit, NumberInvNext, PTL DEF Spec
<1>3. Spec => []RecoverInv
  BY <1>2, RecoverInvInit, RecoverInvNext, PTL DEF Spec
<1> QED
  BY <1>1, <1>2, <1>3, PTL
-----------------------------------------------------------------------------
(***************************************************************************)
(* The files readers use exist.  finish_open checks it for the files it    *)
(* found; commit replaces the superseded files before it unlinks them.     *)
(***************************************************************************)
ReadableInv ==
    phase = "open" =>
        /\ static_sorted_files \subseteq DOMAIN sst
        /\ created \subseteq DOMAIN sst \ removed_ssts
        /\ writer = "compact" => move_jobs \subseteq static_sorted_files
        /\ writer \in {"del", "current", "sync_current", "remove"} =>
              removed_ssts \cap static_sorted_files = {}

LEMMA ReadableInvNext == NumberInv /\ ReadableInv /\ [Next]_vars => ReadableInv'
<1> SUFFICES ASSUME NumberInv, ReadableInv, [Next]_vars
             PROVE  ReadableInv'
  OBVIOUS
<1> USE DEF NumberInv, NumberTypes, NumberWriting, Files, ReadableInv
<1>1. CASE open
  BY <1>1 DEF open, create_current, init_current, read_current, visit_entry, finish_open,
              disk, inner, job
<1>2. CASE write_batch
  BY <1>2 DEF write_batch, disk, inner, loader
<1>3. CASE batch
  BY <1>3 DEF batch, create_blob, create_sst_file, create_sst, With, inner, loader
<1>4. ASSUME NEW cuts \in SUBSET Key, compact(cuts)
      PROVE  ReadableInv'
  <2>1. move_jobs' \subseteq static_sorted_files
    BY <1>4 DEF compact, start_compact, files_at
  <2>2. /\ UNCHANGED <<disk, phase, inner, created>> /\ writer' = "compact"
        /\ phase = "open" /\ ~active_write_operation
    BY <1>4 DEF compact, start_compact
  <2> QED
    BY <2>1, <2>2 DEF disk, inner
<1>5. CASE progress
  <2>1. CASE publish
    BY <1>5, <2>1 DEF publish, disk, loader
  <2>2. ASSUME NEW s \in removed_ssts, remove_file(s)
        PROVE  ReadableInv'
    BY <2>2 DEF remove_file, Without, inner, loader
  <2>3. ASSUME NEW content \in outputs, write_merged(content)
        PROVE  ReadableInv'
    BY <2>3 DEF write_merged, create_sst, With, inner, loader
  <2>4. ASSUME NEW s \in move_jobs, move_file(s)
        PROVE  ReadableInv'
    BY <2>4 DEF move_file, create_sst, With, inner, loader
  <2>5. CASE \/ finish \/ finish_compact \/ write_del \/ sync_del \/ write_current
             \/ sync_current \/ release
             \/ \E s \in new_sst_files \cup new_blob_files : sync_file(s)
    BY <2>5 DEF finish, finish_compact, write_del, sync_del, write_current, sync_current,
                release, sync_file, disk, inner, loader, job
  <2> QED
    BY <1>5, <2>1, <2>2, <2>3, <2>4, <2>5 DEF progress
<1>6. CASE fail
  BY <1>6 DEF fail, disk, inner, loader, job
<1>7. CASE crash
  BY <1>7 DEF crash
<1>8. CASE UNCHANGED vars
  BY <1>8 DEF vars, disk, inner, loader, job
<1> QED
  BY <1>1, <1>2, <1>3, <1>4, <1>5, <1>6, <1>7, <1>8 DEF Next

-----------------------------------------------------------------------------
(***************************************************************************)
(* Types.                                                                  *)
(***************************************************************************)
(* The maximum of a finite set of numbers.                                 *)
LEMMA MaxInSet ==
    ASSUME NEW S, S \subseteq Int, IsFiniteSet(S), S # {}
    PROVE  Max(S) \in S /\ \A y \in S : Max(S) >= y
<1> DEFINE HasMax(T) == \E x \in T : \A y \in T : x >= y
           NoMax == {T \in SUBSET S : T # {} /\ ~HasMax(T)}
<1>1. SUFFICES HasMax(S)
  BY <1>1 DEF Max
<1>2. SUFFICES ASSUME NoMax # {}
               PROVE  FALSE
  OBVIOUS
<1>3. NoMax \subseteq FiniteSubsetsOf(S)
  BY FS_FiniteSubsetsOfFinite
<1>4. PICK T \in NoMax : \A U \in NoMax : <<U, T>> \notin StrictSubsetOrdering(S)
  BY <1>2, <1>3, FS_StrictSubsetOrderingWellFounded, WFMin
<1>5. PICK x \in T : TRUE
  OBVIOUS
<1>6. T \ {x} \notin NoMax
  BY <1>4, <1>5 DEF StrictSubsetOrdering
<1>7. CASE T \ {x} = {}
  BY <1>5, <1>7
<1>8. CASE HasMax(T \ {x})
  <2>1. PICK m \in T \ {x} : \A y \in T \ {x} : m >= y
    BY <1>8
  <2>2. m \in Int /\ x \in Int /\ T \subseteq Int
    OBVIOUS
  <2>3. \A y \in T : y = x \/ m >= y
    BY <2>1
  <2>4. (\A y \in T : x >= y) \/ (\A y \in T : m >= y)
    BY <2>2, <2>3
  <2> QED
    BY <2>1, <2>4, <1>5
<1> QED
  BY <1>6, <1>7, <1>8

LEMMA MergedContent ==
    ASSUME TypeOK, NEW S \in SUBSET DOMAIN sst
    PROVE  IsContent(merged(S))
<1>1. ASSUME NEW k \in DOMAIN merged(S)
      PROVE  k \in Key /\ merged(S)[k] \in Entry
  <2>1. /\ holding(S, k) # {}
        /\ holding(S, k) \subseteq DOMAIN sst
        /\ holding(S, k) \subseteq Int
    BY <1>1 DEF merged, holding, TypeOK
  <2>2. Max(holding(S, k)) \in holding(S, k)
    BY <2>1, MaxInSet, FS_Subset DEF TypeOK
  <2>3. PICK s \in DOMAIN sst : s = Max(holding(S, k)) /\ k \in DOMAIN sst[s]
    BY <2>1, <2>2 DEF holding
  <2>4. merged(S)[k] = sst[s][k]
    BY <1>1, <2>3 DEF merged
  <2>5. IsContent(sst[s])
    BY DEF TypeOK
  <2> QED
    BY <2>3, <2>4, <2>5 DEF IsContent
<1>2. merged(S) = [k \in DOMAIN merged(S) |-> merged(S)[k]]
  BY DEF merged
<1> QED
  BY <1>1, <1>2 DEF IsContent

LEMMA ChunkContent ==
    ASSUME NEW content, IsContent(content), NEW cuts, NEW c \in chunks(content, cuts)
    PROVE  IsContent(c)
<1>1. PICK K \in SUBSET DOMAIN content : c = [k \in K |-> content[k]]
  BY DEF chunks, Restrict
<1> QED
  BY <1>1 DEF IsContent

TypeInv == NumberInv /\ ReadableInv /\ TypeOK

LEMMA TypeInvInit == Init => TypeInv
<1> SUFFICES ASSUME Init PROVE TypeInv
  OBVIOUS
<1>1. NumberInv
  BY NumberInvInit
<1>2. ReadableInv
  BY DEF Init, ReadableInv
<1>3. TypeOK
  BY FS_EmptySet DEF Init, TypeOK, NoFiles, ABSENT, EMPTY
<1> QED
  BY <1>1, <1>2, <1>3 DEF TypeInv

LEMMA CreateSstTypes ==
    ASSUME TypeInv, NEW content, IsContent(content), create_sst(content)
    PROVE  /\ IsFiniteSet(DOMAIN sst') /\ DOMAIN sst' \subseteq Nat
           /\ \A s \in DOMAIN sst' : IsContent(sst'[s])
           /\ seq' \in Nat
           /\ unsynced' \subseteq Nat
           /\ new_sst_files' \subseteq Nat
           /\ created' \subseteq Nat
<1>1. /\ DOMAIN sst' = DOMAIN sst \cup {seq'}
      /\ \A s \in DOMAIN sst' : sst'[s] = content \/ (s \in DOMAIN sst /\ sst'[s] = sst[s])
  BY DEF create_sst, With
<1>2. IsFiniteSet(DOMAIN sst')
  BY <1>1, FS_AddElement DEF TypeInv, TypeOK
<1> QED
  BY <1>1, <1>2 DEF create_sst, TypeInv, TypeOK

LEMMA WithoutTypes ==
    ASSUME TypeOK, NEW S
    PROVE  /\ IsFiniteSet(DOMAIN Without(sst, S)) /\ DOMAIN Without(sst, S) \subseteq Nat
           /\ \A s \in DOMAIN Without(sst, S) : IsContent(Without(sst, S)[s])
           /\ DOMAIN Without(blob, S) \subseteq Nat
           /\ \A s \in DOMAIN Without(blob, S) : Without(blob, S)[s] \in Value
           /\ DOMAIN Without(del, S) \subseteq Nat
           /\ \A s \in DOMAIN Without(del, S) : Without(del, S)[s] \subseteq Nat
<1>1. DOMAIN Without(sst, S) = DOMAIN sst \ S
  BY DEF Without
<1>2. IsFiniteSet(DOMAIN Without(sst, S))
  BY <1>1, FS_Difference DEF TypeOK
<1> QED
  BY <1>2 DEF Without, TypeOK

LEMMA TypeOKNext == TypeInv /\ [Next]_vars => TypeOK'
<1> SUFFICES ASSUME TypeInv, [Next]_vars
             PROVE  TypeOK'
  OBVIOUS
<1>0. NumberInv /\ ReadableInv /\ TypeOK
  BY DEF TypeInv
<1>1. CASE create_current \/ init_current
  <2>1. /\ CURRENT' \in {EMPTY, 0} /\ syncedCurrent' \in {EMPTY, syncedCurrent}
        /\ phase' \in {"initializing", "open"}
        /\ UNCHANGED <<sst, blob, del, unsynced, inner, loader,
                       active_write_operation, writer, job>>
    BY <1>1 DEF create_current, init_current
  <2> QED
    BY <1>0, <2>1 DEF inner, loader, job, TypeOK
<1>2. CASE read_current
  BY <1>0, <1>2 DEF read_current, directory_entries, disk, inner, job, TypeOK
<1>3. ASSUME NEW e \in entries, visit_entry(e)
      PROVE  TypeOK'
  <2>1. /\ entries' \subseteq entries
        /\ UNCHANGED <<unsynced, CURRENT, syncedCurrent, phase, inner,
                       active_write_operation, writer, job>>
    BY <1>3 DEF visit_entry
  <2>2. /\ \/ sst' = sst
           \/ \E S : sst' = Without(sst, S)
        /\ \/ blob' = blob
           \/ \E S : blob' = Without(blob, S)
        /\ \/ del' = del
           \/ \E S : del' = Without(del, S)
    BY <1>3 DEF visit_entry
  <2>3. sst_files' \subseteq Nat /\ deleted_files' \subseteq Nat
    BY <1>0, <1>3 DEF visit_entry, TypeOK, NumberInv, NumberLoading
  <2>4. /\ IsFiniteSet(DOMAIN sst') /\ DOMAIN sst' \subseteq Nat
        /\ \A s \in DOMAIN sst' : IsContent(sst'[s])
    BY <1>0, <2>2, WithoutTypes DEF TypeOK
  <2>5. /\ DOMAIN blob' \subseteq Nat /\ \A s \in DOMAIN blob' : blob'[s] \in Value
        /\ DOMAIN del' \subseteq Nat /\ \A s \in DOMAIN del' : del'[s] \subseteq Nat
    BY <1>0, <2>2, WithoutTypes DEF TypeOK
  <2> QED
    BY <1>0, <2>1, <2>3, <2>4, <2>5 DEF TypeOK, inner, job
<1>4. CASE finish_open
  BY <1>0, <1>4 DEF finish_open, disk, inner, job, TypeOK, NumberInv, NumberLoading
<1>5. CASE write_batch
  BY <1>0, <1>5 DEF write_batch, disk, inner, loader, TypeOK
<1>6. ASSUME NEW v \in Value, create_blob(v)
      PROVE  TypeOK'
  BY <1>0, <1>6 DEF create_blob, With, inner, loader, TypeOK
<1>7. ASSUME NEW content \in BatchEntries, create_sst_file(content)
      PROVE  TypeOK'
  <2>1. create_sst(content) /\ IsContent(content)
    BY <1>7 DEF create_sst_file, BatchEntries
  <2> QED
    BY <1>0, <1>7, <2>1, CreateSstTypes DEF create_sst_file, inner, loader, TypeOK
<1>8. ASSUME NEW cuts \in SUBSET Key, compact(cuts)
      PROVE  TypeOK'
  <2>1. PICK groups : /\ \A g \in groups : g \subseteq static_sorted_files
                      /\ outputs' = UNION {chunks(merged(g), cuts) : g \in groups}
                      /\ removed_ssts' \cup move_jobs' \subseteq static_sorted_files
    <3>1. \A positions : files_at(positions) \subseteq static_sorted_files
      BY DEF files_at
    <3>2. \E groups, moves :
              /\ groups = {} \/ \E J : groups = {files_at(ToSet(j)) : j \in J}
              /\ moves = {} \/ \E j : moves = files_at(j)
              /\ outputs' = UNION {chunks(merged(g), cuts) : g \in groups}
              /\ removed_ssts' = moves \cup UNION groups
              /\ move_jobs' = moves
      BY <1>8, Zenon DEF compact, start_compact
    <3> QED
      BY <3>1, <3>2
  <2>2. static_sorted_files \subseteq DOMAIN sst
    BY <1>0, <1>8 DEF compact, start_compact, ReadableInv
  <2>3. \A g \in groups : IsContent(merged(g))
    BY <1>0, <2>1, <2>2, MergedContent
  <2>4. \A c \in outputs' : IsContent(c)
    BY <2>1, <2>3, ChunkContent
  <2>5. /\ seq' = current_sequence_number /\ writer' = "compact"
        /\ active_write_operation' = TRUE
        /\ UNCHANGED <<disk, phase, inner, loader, new_sst_files, new_blob_files, created>>
    BY <1>8 DEF compact, start_compact
  <2> QED
    BY <1>0, <2>1, <2>4, <2>5 DEF disk, inner, loader, TypeOK
<1>9. ASSUME NEW content \in outputs, write_merged(content)
      PROVE  TypeOK'
  <2>1. create_sst(content) /\ IsContent(content)
    BY <1>0, <1>9 DEF write_merged, TypeOK
  <2> QED
    BY <1>0, <1>9, <2>1, CreateSstTypes DEF write_merged, inner, loader, TypeOK
<1>10. ASSUME NEW s \in move_jobs, move_file(s)
       PROVE  TypeOK'
  <2>1. phase = "open"
    BY <1>0, <1>10 DEF move_file, NumberInv, NumberWriting
  <2>2. s \in DOMAIN sst
    BY <1>0, <1>10, <2>1 DEF move_file, ReadableInv
  <2>3. create_sst(sst[s]) /\ IsContent(sst[s])
    BY <1>0, <1>10, <2>2 DEF move_file, TypeOK
  <2> QED
    BY <1>0, <1>10, <2>3, CreateSstTypes DEF move_file, inner, loader, TypeOK
<1>11. CASE finish \/ finish_compact \/ sync_del \/ write_current \/ sync_current \/ release
  BY <1>0, <1>11 DEF finish, finish_compact, sync_del, write_current, sync_current, release,
                     disk, inner, loader, job, TypeOK
<1>12. ASSUME NEW s \in new_sst_files \cup new_blob_files, sync_file(s)
       PROVE  TypeOK'
  BY <1>0, <1>12 DEF sync_file, inner, loader, TypeOK
<1>13. CASE publish
  BY <1>0, <1>13 DEF publish, disk, loader, TypeOK
<1>14. CASE write_del
  BY <1>0, <1>14 DEF write_del, With, inner, loader, job, TypeOK
<1>15. ASSUME NEW s \in removed_ssts, remove_file(s)
       PROVE  TypeOK'
  BY <1>0, <1>15, WithoutTypes DEF remove_file, inner, loader, TypeOK
<1>16. CASE fail
  BY <1>0, <1>16 DEF fail, disk, inner, loader, job, TypeOK
<1>17. CASE crash
  <2>1. PICK lost \in SUBSET unsynced :
              sst' = Without(sst, lost) /\ blob' = Without(blob, lost) /\ del' = Without(del, lost)
    BY <1>17 DEF crash
  <2>2. CURRENT' \in {CURRENT, syncedCurrent}
    BY <1>17 DEF crash
  <2> QED
    BY <1>0, <1>17, <2>1, <2>2, WithoutTypes DEF crash, TypeOK
<1>18. CASE UNCHANGED vars
  BY <1>0, <1>18 DEF vars, disk, inner, loader, job, TypeOK
<1> QED
  BY <1>1, <1>2, <1>3, <1>4, <1>5, <1>6, <1>7, <1>8, <1>9, <1>10, <1>11, <1>12, <1>13,
     <1>14, <1>15, <1>16, <1>17, <1>18 DEF Next, open, batch, progress

(* TypeOK.  A compaction merges files that exist, so the contents it       *)
(* writes are contents of SST files again.                                 *)
THEOREM TypeCorrect == Spec => []TypeOK
<1>1. TypeInv /\ [Next]_vars => TypeInv'
  BY NumberInvNext, ReadableInvNext, TypeOKNext DEF TypeInv
<1>2. TypeInv => TypeOK
  BY DEF TypeInv
<1> QED
  BY <1>1, <1>2, TypeInvInit, PTL DEF Spec

-----------------------------------------------------------------------------
(***************************************************************************)
(* The directory.  Nothing is left over, because what a del file names is  *)
(* unlinked before the writer is released, or while the directory is       *)
(* loaded.  What CURRENT commits to is synced, because CURRENT is written  *)
(* when nothing is unsynced; and a file that is not synced is newer than   *)
(* both contents CURRENT may have after a crash.                           *)
(***************************************************************************)

(* Only a writer on its way from publication to the last unlink has files  *)
(* that a del file names.  A del file does not name blob files.            *)
Unlinked ==
    /\ \A d \in DOMAIN del : del[d] \cap DOMAIN blob = {}
    /\ phase = "open" /\ writer # "failed" =>
        /\ removed_ssts \subseteq DOMAIN sst
        /\ \A d \in DOMAIN del :
              \/ del[d] \cap DOMAIN sst = {}
              \/ /\ writer \in {"del", "current", "sync_current", "remove"}
                 /\ del[d] \cap DOMAIN sst \subseteq removed_ssts

Synced ==
    /\ \A u \in unsynced : u \in Nat /\ CURRENT < u /\ syncedCurrent < u
    /\ phase # "open" => unsynced = {}
    /\ phase = "open" =>
        /\ CURRENT <= current_sequence_number
        /\ writer \in {"idle", "current", "sync_current", "remove"} => unsynced = {}
        /\ writer \in {"batch", "compact", "sync"} =>
              unsynced \subseteq new_sst_files \cup new_blob_files
        /\ writer = "del" => unsynced \subseteq {seq} /\ CURRENT < seq

(* The blob files that some contents of an SST file refer to.              *)
refs(content) == {content[k].blob : k \in {j \in DOMAIN content : content[j] \in [blob : Nat]}}

(* They exist, for the files a restart finds and for those of the writer.  *)
RefsCommitted ==
    \A c \in {CURRENT, syncedCurrent} : \A s \in recoverable(c) :
        \A b \in refs(sst[s]) : b \in DOMAIN blob /\ b <= c

RefsWritten ==
    /\ phase # "open" => new_blob_files = {}
    /\ phase = "open" /\ writer # "failed" => new_blob_files \subseteq DOMAIN blob
    /\ phase = "open" /\ writer \in {"idle", "batch", "compact", "sync", "del", "current"} =>
          \A s \in created : refs(sst[s]) \subseteq DOMAIN blob
    /\ phase = "open" /\ writer = "compact" =>
          \A content \in outputs : refs(content) \subseteq DOMAIN blob

DirectoryInv == Unlinked /\ Synced /\ RefsCommitted /\ RefsWritten

(* What is known of the numbers, of recovery and of the types.             *)
BaseInv == TypeInv /\ RecoverInv

LEMMA BaseAlways == Spec => []BaseInv
<1>1. BaseInv /\ [Next]_vars => BaseInv'
  BY NumberInvNext, ReadableInvNext, TypeOKNext, RecoverInvNext DEF BaseInv, TypeInv
<1>2. Init => BaseInv
  BY TypeInvInit, RecoverInvInit DEF BaseInv
<1> QED
  BY <1>1, <1>2, PTL DEF Spec

LEMMA DirectoryInit == Init => DirectoryInv
BY DEF Init, DirectoryInv, Unlinked, Synced, RefsCommitted, RefsWritten, recoverable, NoFiles,
       ABSENT, EMPTY

LEMMA UnlinkedNext == BaseInv /\ Unlinked /\ [Next]_vars => Unlinked'
<1> SUFFICES ASSUME BaseInv, Unlinked, [Next]_vars
             PROVE  Unlinked'
  OBVIOUS
<1>0. NumberInv /\ ReadableInv /\ RecoverInv /\ TypeOK
  BY DEF BaseInv, TypeInv
<1> USE DEF Unlinked
<1>1. CASE create_current \/ init_current
  BY <1>0, <1>1 DEF create_current, init_current, inner, loader, job, NumberInv, NumberFresh,
     NumberWriting, Files
<1>2. CASE read_current
  BY <1>2 DEF read_current, disk, inner, job
<1>3. ASSUME NEW e \in entries, visit_entry(e)
      PROVE  Unlinked'
  <2>1. /\ \A d \in DOMAIN del' : d \in DOMAIN del /\ del'[d] = del[d]
        /\ DOMAIN blob' \subseteq DOMAIN blob
        /\ phase' # "open"
    BY <1>3 DEF visit_entry, Without
  <2> QED
    BY <2>1
<1>4. CASE finish_open
  <2>1. UNCHANGED disk /\ UNCHANGED writer /\ UNCHANGED job
    BY <1>4 DEF finish_open
  <2>2. \A d \in DOMAIN del : d <= CURRENT
    BY <1>0, <1>4 DEF finish_open, NumberInv, NumberTypes, NumberLoading, Files
  <2>3. \A d \in DOMAIN del : del[d] \cap DOMAIN sst = {}
    BY <1>0, <1>4, <2>2 DEF finish_open, RecoverInv, RecoverLoading
  <2>4. removed_ssts = {}
    BY <1>0, <1>4 DEF finish_open, NumberInv, NumberWriting
  <2> QED
    BY <2>1, <2>3, <2>4 DEF disk, job
<1>5. CASE write_batch
  BY <1>0, <1>5 DEF write_batch, disk, NumberInv, NumberWriting
<1>6. ASSUME NEW v \in Value, create_blob(v)
      PROVE  Unlinked'
  <2>1. \A d \in DOMAIN del : seq + 1 \notin del[d]
    BY <1>0, <1>6 DEF create_blob, NumberInv, NumberTypes, NumberKinds, NumberWriting, Files
  <2> QED
    BY <1>6, <2>1 DEF create_blob, With, inner, loader
<1>7. ASSUME NEW content, create_sst(content), writer \in {"batch", "compact"},
             UNCHANGED <<blob, del, phase, writer, removed_ssts>>
      PROVE  Unlinked'
  <2>1. phase = "open" => \A d \in DOMAIN del : seq + 1 \notin del[d]
    BY <1>0, <1>7 DEF NumberInv, NumberTypes, NumberKinds, NumberWriting, Files
  <2>2. phase = "open"
    BY <1>0, <1>7 DEF NumberInv, NumberWriting
  <2>3. DOMAIN sst' = DOMAIN sst \cup {seq + 1}
    BY <1>7 DEF create_sst, With
  <2> QED
    BY <1>7, <2>1, <2>2, <2>3
<1>8. ASSUME NEW content \in BatchEntries, create_sst_file(content)
      PROVE  Unlinked'
  BY <1>7, <1>8 DEF create_sst_file
<1>9. ASSUME NEW content \in outputs, write_merged(content)
      PROVE  Unlinked'
  BY <1>7, <1>9 DEF write_merged
<1>10. ASSUME NEW s \in move_jobs, move_file(s)
       PROVE  Unlinked'
  BY <1>7, <1>10 DEF move_file
<1>11. ASSUME NEW cuts \in SUBSET Key, compact(cuts)
       PROVE  Unlinked'
  <2>1. removed_ssts' \subseteq static_sorted_files
    BY <1>11 DEF compact, start_compact, files_at
  <2>2. phase = "open" /\ ~active_write_operation /\ writer' = "compact" /\ UNCHANGED <<disk, phase>>
    BY <1>11 DEF compact, start_compact
  <2>3. static_sorted_files \subseteq DOMAIN sst /\ writer = "idle"
    BY <1>0, <2>2 DEF ReadableInv, NumberInv, NumberWriting
  <2> QED
    BY <2>1, <2>2, <2>3 DEF disk
<1>12. CASE finish \/ finish_compact
  BY <1>12 DEF finish, finish_compact, disk, job
<1>13. ASSUME NEW s \in new_sst_files \cup new_blob_files, sync_file(s)
       PROVE  Unlinked'
  BY <1>13 DEF sync_file
<1>14. CASE publish
  BY <1>14 DEF publish, disk
<1>15. CASE write_del
  <2>1. phase = "open" /\ removed_ssts \cap DOMAIN blob = {}
    BY <1>0, <1>15 DEF write_del, NumberInv, NumberKinds, NumberWriting
  <2>2. /\ DOMAIN del' = DOMAIN del \cup {seq} /\ del'[seq] = removed_ssts
        /\ \A d \in DOMAIN del : del'[d] = del[d]
    BY <1>15 DEF write_del, With
  <2> QED
    BY <1>15, <2>1, <2>2 DEF write_del, job
<1>16. CASE sync_del \/ write_current \/ sync_current
  BY <1>16 DEF sync_del, write_current, sync_current, job
<1>17. ASSUME NEW s \in removed_ssts, remove_file(s)
       PROVE  Unlinked'
  BY <1>17 DEF remove_file, Without
<1>18. CASE release
  BY <1>18 DEF release, disk
<1>19. CASE fail
  BY <1>19 DEF fail, disk, job
<1>20. CASE crash
  BY <1>20 DEF crash, Without
<1>21. CASE UNCHANGED vars
  BY <1>21 DEF vars, disk, job
<1> QED
  BY <1>1, <1>2, <1>3, <1>4, <1>5, <1>6, <1>8, <1>9, <1>10, <1>11, <1>12, <1>13, <1>14,
     <1>15, <1>16, <1>17, <1>18, <1>19, <1>20, <1>21 DEF Next, open, batch, progress

LEMMA SyncedNext == BaseInv /\ Synced /\ [Next]_vars => Synced'
<1> SUFFICES ASSUME BaseInv, Synced, [Next]_vars
             PROVE  Synced'
  OBVIOUS
<1>0. NumberInv /\ RecoverInv /\ TypeOK
  BY DEF BaseInv, TypeInv
<1> USE DEF Synced
<1>1. CASE create_current \/ init_current
  <2>1. phase # "open" /\ unsynced' = unsynced /\ writer' = writer /\ current_sequence_number' = current_sequence_number
    BY <1>1 DEF create_current, init_current, inner
  <2>2. unsynced' = {} /\ writer' = "idle" /\ current_sequence_number' = 0
    BY <1>0, <2>1 DEF NumberInv, NumberWriting
  <2>3. phase' = "open" => CURRENT' = 0
    BY <1>1 DEF create_current, init_current
  <2> QED  BY <2>2, <2>3
<1>2. CASE read_current
  BY <1>0, <1>2 DEF read_current, disk, inner, job
<1>3. ASSUME NEW e \in entries, visit_entry(e)
      PROVE  Synced'
  BY <1>3 DEF visit_entry, inner, job
<1>4. CASE finish_open
  <2>1. CURRENT \in Nat
    BY <1>0, <1>4 DEF finish_open, NumberInv, NumberLoading
  <2>2. UNCHANGED <<unsynced, CURRENT, syncedCurrent, writer>> /\ unsynced = {}
    BY <1>4 DEF finish_open, disk
  <2>3. writer = "idle"
    BY <1>0, <1>4 DEF finish_open, NumberInv, NumberWriting
  <2>4. phase' = "open" => current_sequence_number' = CURRENT
    BY <1>4 DEF finish_open
  <2> QED
    BY <2>1, <2>2, <2>3, <2>4
<1>5. CASE write_batch
  BY <1>0, <1>5 DEF write_batch, disk, inner, loader, NumberInv, NumberWriting
<1>6. ASSUME seq' = seq + 1, unsynced' = unsynced \cup {seq'}, writer \in {"batch", "compact"},
             seq' \in new_sst_files' \cup new_blob_files',
             new_sst_files \cup new_blob_files \subseteq new_sst_files' \cup new_blob_files',
             UNCHANGED <<CURRENT, syncedCurrent, phase, inner, writer>>
      PROVE  Synced'
  <2>1. phase = "open"
    BY <1>0, <1>6 DEF NumberInv, NumberWriting
  <2>2. seq' \in Nat /\ CURRENT < seq' /\ syncedCurrent < seq'
    <3>1. /\ seq \in Nat /\ current_sequence_number \in Nat /\ current_sequence_number <= seq
          /\ CURRENT <= current_sequence_number /\ syncedCurrent <= current_sequence_number
      BY <1>0, <1>6, <2>1 DEF NumberInv, NumberTypes, NumberWriting, RecoverInv, RecoverAgreeing
    <3>2. CURRENT \in Int /\ syncedCurrent \in Int
      BY <1>0 DEF TypeOK, ABSENT, EMPTY
    <3> QED
      BY <1>6, <3>1, <3>2
  <2> QED
    BY <1>6, <2>1, <2>2 DEF inner
<1>7. ASSUME NEW v \in Value, create_blob(v)
      PROVE  Synced'
  BY <1>6, <1>7 DEF create_blob
<1>8. ASSUME NEW content \in BatchEntries, create_sst_file(content)
      PROVE  Synced'
  BY <1>6, <1>8 DEF create_sst_file, create_sst
<1>9. ASSUME NEW content \in outputs, write_merged(content)
      PROVE  Synced'
  BY <1>6, <1>9 DEF write_merged, create_sst
<1>10. ASSUME NEW s \in move_jobs, move_file(s)
       PROVE  Synced'
  BY <1>6, <1>10 DEF move_file, create_sst
<1>11. ASSUME NEW cuts \in SUBSET Key, compact(cuts)
       PROVE  Synced'
  BY <1>0, <1>11 DEF compact, start_compact, disk, inner, loader, NumberInv, NumberWriting
<1>12. CASE finish \/ finish_compact
  BY <1>12 DEF finish, finish_compact, disk, inner, loader, job
<1>13. ASSUME NEW s \in new_sst_files \cup new_blob_files, sync_file(s)
       PROVE  Synced'
  BY <1>13 DEF sync_file, inner, loader
<1>14. CASE publish
  <2>1. phase = "open" /\ seq \in Nat /\ current_sequence_number \in Nat
        /\ current_sequence_number <= seq /\ CURRENT <= current_sequence_number
    BY <1>0, <1>14 DEF publish, NumberInv, NumberTypes, NumberWriting
  <2>2. CURRENT \in Int
    BY <1>0 DEF TypeOK, ABSENT, EMPTY
  <2>3. unsynced = {} /\ UNCHANGED <<unsynced, CURRENT, syncedCurrent, phase>>
    BY <1>14, <2>1 DEF publish, disk
  <2>4. /\ seq' = IF removed_ssts = {} THEN seq ELSE seq + 1
        /\ current_sequence_number' = seq'
        /\ writer' = IF removed_ssts = {} THEN "current" ELSE "del"
    BY <1>14 DEF publish
  <2> QED
    BY <2>1, <2>2, <2>3, <2>4
<1>15. CASE write_del
  <2>1. phase = "open" /\ seq \in Nat /\ CURRENT < seq /\ syncedCurrent < seq
    BY <1>0, <1>15 DEF write_del, NumberInv, NumberTypes, NumberWriting, RecoverInv,
       RecoverCommitting
  <2> QED
    BY <1>15, <2>1 DEF write_del, inner, loader, job
<1>16. CASE sync_del
  BY <1>16 DEF sync_del, inner, loader, job
<1>17. CASE write_current
  BY <1>0, <1>17 DEF write_current, inner, loader, job, NumberInv, NumberWriting, NumberTypes
<1>18. CASE sync_current
  BY <1>18 DEF sync_current, inner, loader, job
<1>19. ASSUME NEW s \in removed_ssts, remove_file(s)
       PROVE  Synced'
  BY <1>19 DEF remove_file, inner, loader
<1>20. CASE release
  BY <1>20 DEF release, disk, inner, loader
<1>21. CASE fail
  BY <1>21 DEF fail, disk, inner, loader, job
<1>22. CASE crash
  BY <1>22 DEF crash
<1>23. CASE UNCHANGED vars
  BY <1>23 DEF vars, disk, inner, loader, job
<1> QED
  BY <1>1, <1>2, <1>3, <1>4, <1>5, <1>7, <1>8, <1>9, <1>10, <1>11, <1>12, <1>13, <1>14,
     <1>15, <1>16, <1>17, <1>18, <1>19, <1>20, <1>21, <1>22, <1>23 DEF Next, open, batch, progress

(* A restart finds no other files when no file appears up to c, no del     *)
(* file up to c goes whose files are still there, and none changes.        *)
LEMMA RecoverableShrinks ==
    ASSUME NEW c \in Int, TypeOK,
           \A s \in DOMAIN sst' : s \in Nat /\ (s <= c => s \in DOMAIN sst),
           \A d \in DOMAIN del : d <= c =>
               del[d] \cap DOMAIN sst' = {} \/ (d \in DOMAIN del' /\ del'[d] = del[d])
    PROVE  recoverable(c)' \subseteq recoverable(c)
BY DEF recoverable, TypeOK

(* What a restart finds stays complete while blob files up to c stay.      *)
LEMMA RefsKept ==
    ASSUME NEW c \in Int, TypeOK, recoverable(c)' \subseteq recoverable(c),
           \A s \in recoverable(c) : \A b \in refs(sst[s]) : b \in DOMAIN blob /\ b <= c,
           \A s \in DOMAIN sst \cap DOMAIN sst' : sst'[s] = sst[s],
           \A b \in DOMAIN blob : b <= c => b \in DOMAIN blob'
    PROVE  \A s \in recoverable(c)' : \A b \in refs(sst'[s]) : b \in DOMAIN blob' /\ b <= c
<1>1. \A s \in recoverable(c)' : s \in DOMAIN sst'
  BY DEF recoverable
<1>2. \A s \in recoverable(c) : s \in DOMAIN sst
  BY DEF recoverable
<1> QED  BY <1>1, <1>2

LEMMA RefsCommittedNext == BaseInv /\ DirectoryInv /\ [Next]_vars => RefsCommitted'
<1> SUFFICES ASSUME BaseInv, DirectoryInv, [Next]_vars
             PROVE  RefsCommitted'
  OBVIOUS
<1>0. NumberInv /\ ReadableInv /\ RecoverInv /\ TypeOK /\ Unlinked /\ Synced /\ RefsCommitted
      /\ RefsWritten
  BY DEF BaseInv, TypeInv, DirectoryInv
<1>1. CURRENT \in Int /\ syncedCurrent \in Int
  BY <1>0 DEF TypeOK, ABSENT, EMPTY
(* The steps that leave CURRENT alone or take it back.                     *)
<1>2. ASSUME {CURRENT', syncedCurrent'} \subseteq {CURRENT, syncedCurrent},
             \A s \in DOMAIN sst \cap DOMAIN sst' : sst'[s] = sst[s],
             \A c \in {CURRENT', syncedCurrent'} :
                /\ recoverable(c)' \subseteq recoverable(c)
                /\ \A b \in DOMAIN blob : b <= c => b \in DOMAIN blob'
      PROVE  RefsCommitted'
  <2>1. \A c \in {CURRENT', syncedCurrent'} :
           \A s \in recoverable(c)' : \A b \in refs(sst'[s]) : b \in DOMAIN blob' /\ b <= c
    <3> SUFFICES ASSUME NEW c \in {CURRENT', syncedCurrent'}
                 PROVE  \A s \in recoverable(c)' : \A b \in refs(sst'[s]) : b \in DOMAIN blob' /\ b <= c
      OBVIOUS
    <3>1. c \in {CURRENT, syncedCurrent} /\ c \in Int
      BY <1>1, <1>2
    <3>2. \A s \in recoverable(c) : \A b \in refs(sst[s]) : b \in DOMAIN blob /\ b <= c
      BY <1>0, <3>1 DEF RefsCommitted
    <3> QED  BY <1>0, <1>2, <3>1, <3>2, RefsKept
  <2> QED
    BY <2>1 DEF RefsCommitted
<1>3. ASSUME UNCHANGED <<sst, blob, del, CURRENT, syncedCurrent>>
      PROVE  RefsCommitted'
  BY <1>0, <1>3 DEF RefsCommitted, recoverable
<1>4. CASE create_current \/ init_current
  <2>1. DOMAIN sst = {} /\ UNCHANGED sst
    BY <1>0, <1>4 DEF create_current, init_current, NumberInv, NumberFresh, Files
  <2> QED
    BY <2>1 DEF RefsCommitted, recoverable
<1>5. ASSUME NEW e \in entries, visit_entry(e)
      PROVE  RefsCommitted'
  <2> PICK ext \in {"sst", "blob", "del"}, s \in Nat : e = <<ext, s>>
    BY <1>0 DEF TypeOK
  <2>1. phase = "opening" /\ UNCHANGED <<CURRENT, syncedCurrent>> /\ CURRENT = syncedCurrent
    BY <1>0, <1>5 DEF visit_entry, RecoverInv
  <2>2. CASE \/ s \in deleted_files
             \/ s \notin deleted_files /\ s <= CURRENT /\ ext \in {"sst", "blob"}
    <3>1. s <= CURRENT
      BY <1>0, <2>1, <2>2 DEF NumberInv, NumberLoading
    <3>2. UNCHANGED <<sst, blob, del>>
      BY <1>1, <1>5, <2>2, <3>1 DEF visit_entry
    <3> QED
      BY <1>3, <2>1, <3>2
  <2>3. CASE s \notin deleted_files /\ s > CURRENT
    <3>1. /\ sst'  = IF ext = "sst"  THEN Without(sst, {s})  ELSE sst
          /\ blob' = IF ext = "blob" THEN Without(blob, {s}) ELSE blob
          /\ del'  = IF ext = "del"  THEN Without(del, {s})  ELSE del
      BY <1>1, <1>5, <2>3 DEF visit_entry
    <3>2. /\ \A t \in DOMAIN sst' : t \in DOMAIN sst /\ sst'[t] = sst[t]
          /\ \A d \in DOMAIN del : d <= CURRENT => d \in DOMAIN del' /\ del'[d] = del[d]
          /\ \A b \in DOMAIN blob : b <= CURRENT => b \in DOMAIN blob'
      BY <1>1, <2>3, <3>1 DEF Without
    <3>3. recoverable(CURRENT)' \subseteq recoverable(CURRENT)
      BY <1>0, <1>1, <2>1, <3>2, RecoverableShrinks DEF TypeOK
    <3> QED
      BY <1>2, <2>1, <3>2, <3>3
  <2>4. CASE s \notin deleted_files /\ s <= CURRENT /\ ext = "del"
    <3>1. /\ sst'  = Without(sst, del[s])
          /\ blob' = Without(blob, del[s])
          /\ \A d \in DOMAIN del : d = s \/ (d \in DOMAIN del' /\ del'[d] = del[d])
      BY <1>1, <1>5, <2>4 DEF visit_entry, Without
    <3>2. s \in DOMAIN del
      BY <1>0, <2>1, <2>4 DEF NumberInv, NumberLoading
    <3>3. /\ \A t \in DOMAIN sst' : t \in DOMAIN sst /\ sst'[t] = sst[t]
          /\ del[s] \cap DOMAIN sst' = {}
          /\ \A b \in DOMAIN blob : b \in DOMAIN blob'
      BY <1>0, <3>1, <3>2 DEF Without, Unlinked
    <3>4. recoverable(CURRENT)' \subseteq recoverable(CURRENT)
      BY <1>0, <1>1, <2>1, <3>1, <3>3, RecoverableShrinks DEF TypeOK
    <3> QED
      BY <1>2, <2>1, <3>3, <3>4
  <2> QED
    BY <1>1, <2>2, <2>3, <2>4
<1>6. ASSUME NEW v \in Value, create_blob(v)
      PROVE  RefsCommitted'
  <2>1. UNCHANGED <<sst, del, CURRENT, syncedCurrent>> /\ DOMAIN blob \subseteq DOMAIN blob'
    BY <1>6 DEF create_blob, With
  <2>2. \A c : recoverable(c)' = recoverable(c)
    BY <2>1 DEF recoverable
  <2> QED
    BY <1>2, <2>1, <2>2
<1>7. ASSUME NEW content, create_sst(content), writer \in {"batch", "compact"},
             UNCHANGED <<blob, del, CURRENT, syncedCurrent>>
      PROVE  RefsCommitted'
  <2>1. phase = "open"
    BY <1>0, <1>7 DEF NumberInv, NumberWriting
  <2>2. /\ seq \in Nat /\ CURRENT < seq + 1 /\ syncedCurrent < seq + 1
        /\ \A s \in DOMAIN sst : s # seq + 1
    <3>1. /\ seq \in Nat /\ current_sequence_number \in Nat /\ current_sequence_number <= seq
          /\ CURRENT <= current_sequence_number /\ syncedCurrent <= current_sequence_number
          /\ \A s \in DOMAIN sst : s \in Nat /\ s <= seq
      BY <1>0, <1>7, <2>1 DEF NumberInv, NumberTypes, NumberWriting, Files, RecoverInv,
         RecoverAgreeing, Synced
    <3> QED
      BY <1>1, <3>1
  <2>3. DOMAIN sst' = DOMAIN sst \cup {seq + 1} /\ \A s \in DOMAIN sst : sst'[s] = sst[s]
    BY <1>7, <2>2 DEF create_sst, With
  <2>4. ASSUME NEW c \in {CURRENT, syncedCurrent}
        PROVE  recoverable(c)' \subseteq recoverable(c)
    <3>1. \A s \in DOMAIN sst' : s \in Nat /\ (s <= c => s \in DOMAIN sst)
      BY <1>0, <1>1, <2>2, <2>3 DEF TypeOK
    <3> QED
      BY <1>0, <1>1, <1>7, <3>1, RecoverableShrinks
  <2> QED
    BY <1>2, <1>7, <2>3, <2>4
<1>8. ASSUME NEW content \in BatchEntries, create_sst_file(content)
      PROVE  RefsCommitted'
  BY <1>7, <1>8 DEF create_sst_file
<1>9. ASSUME NEW content \in outputs, write_merged(content)
      PROVE  RefsCommitted'
  BY <1>7, <1>9 DEF write_merged
<1>10. ASSUME NEW s \in move_jobs, move_file(s)
       PROVE  RefsCommitted'
  BY <1>7, <1>10 DEF move_file
<1>11. CASE \/ read_current \/ finish_open \/ write_batch \/ finish \/ finish_compact \/ publish
            \/ sync_del \/ release \/ fail \/ UNCHANGED vars
            \/ \E cuts \in SUBSET Key : compact(cuts)
            \/ \E s \in new_sst_files \cup new_blob_files : sync_file(s)
  BY <1>3, <1>11 DEF read_current, finish_open, write_batch, finish, finish_compact, publish,
     sync_del, release, fail, vars, disk, compact, start_compact, sync_file
<1>12. CASE write_del
  <2>1. /\ UNCHANGED <<sst, blob, CURRENT, syncedCurrent>>
        /\ \A d \in DOMAIN del : d \in DOMAIN del' /\ del'[d] = del[d]
    BY <1>12 DEF write_del, With
  <2>2. \A c \in Int : recoverable(c)' \subseteq recoverable(c)
    BY <1>0, <2>1, RecoverableShrinks DEF TypeOK
  <2> QED
    BY <1>1, <1>2, <2>1, <2>2
(* The commit: the synced files and those of the writer.                   *)
<1>13. CASE write_current
  <2>1. phase = "open" /\ CURRENT' = seq /\ UNCHANGED <<sst, blob, del, syncedCurrent>>
    BY <1>0, <1>13 DEF write_current, NumberInv, NumberWriting
  <2>2. /\ seq \in Nat /\ syncedCurrent <= seq
        /\ \A b \in DOMAIN blob : b \in Nat /\ b <= seq
        /\ created = {s \in DOMAIN sst : s > syncedCurrent}
        /\ \A s \in created : refs(sst[s]) \subseteq DOMAIN blob
    BY <1>0, <1>13, <2>1 DEF write_current, NumberInv, NumberTypes, NumberWriting, Files, RecoverInv,
       RecoverCommitting, RefsWritten
  <2>3. ASSUME NEW s \in recoverable(seq), NEW b \in refs(sst[s])
        PROVE  b \in DOMAIN blob /\ b <= seq
    <3>1. s \in DOMAIN sst /\ s \in Nat
      BY <1>0 DEF recoverable, TypeOK
    <3>2. CASE s <= syncedCurrent
      <4>1. s \in recoverable(syncedCurrent)
        BY <1>0, <1>1, <2>2, <2>3, <3>2 DEF recoverable, TypeOK
      <4> QED
        BY <1>0, <1>1, <2>2, <4>1 DEF RefsCommitted
    <3>3. CASE s > syncedCurrent
      BY <2>2, <3>1, <3>3
    <3> QED
      BY <1>1, <3>1, <3>2, <3>3
  <2>4. \A c : recoverable(c)' = recoverable(c)
    BY <2>1 DEF recoverable
  <2> QED
    BY <1>0, <2>1, <2>3, <2>4 DEF RefsCommitted
<1>14. CASE sync_current
  <2>1. UNCHANGED <<sst, blob, del, CURRENT>> /\ syncedCurrent' = CURRENT
    BY <1>14 DEF sync_current
  <2>2. \A c : recoverable(c)' = recoverable(c)
    BY <2>1 DEF recoverable
  <2> QED
    BY <1>2, <2>1, <2>2
<1>15. ASSUME NEW s \in removed_ssts, remove_file(s)
       PROVE  RefsCommitted'
  <2>1. /\ UNCHANGED <<blob, del, CURRENT, syncedCurrent>>
        /\ \A t \in DOMAIN sst' : t \in DOMAIN sst /\ sst'[t] = sst[t]
    BY <1>15 DEF remove_file, Without
  <2>2. \A c \in Int : recoverable(c)' \subseteq recoverable(c)
    BY <1>0, <2>1, RecoverableShrinks DEF TypeOK
  <2> QED
    BY <1>1, <1>2, <2>1, <2>2
<1>16. CASE crash
  <2>1. PICK lost \in SUBSET unsynced :
              sst' = Without(sst, lost) /\ blob' = Without(blob, lost) /\ del' = Without(del, lost)
    BY <1>16 DEF crash
  <2>2. {CURRENT', syncedCurrent'} \subseteq {CURRENT, syncedCurrent}
    BY <1>16 DEF crash
  <2>3. \A t \in DOMAIN sst' : t \in DOMAIN sst /\ sst'[t] = sst[t]
    BY <2>1 DEF Without
  <2>4. ASSUME NEW c \in {CURRENT, syncedCurrent}
        PROVE  /\ recoverable(c)' \subseteq recoverable(c)
               /\ \A b \in DOMAIN blob : b <= c => b \in DOMAIN blob'
    <3>1. \A u \in lost : u \in Nat /\ c < u
      BY <1>0 DEF Synced
    <3>2. \A d \in DOMAIN del : d <= c => d \in DOMAIN del' /\ del'[d] = del[d]
      BY <1>0, <1>1, <2>1, <3>1 DEF Without, TypeOK
    <3>3. \A b \in DOMAIN blob : b <= c => b \in DOMAIN blob'
      BY <1>0, <1>1, <2>1, <3>1 DEF Without, TypeOK
    <3> QED
      BY <1>0, <1>1, <2>3, <3>2, <3>3, RecoverableShrinks DEF TypeOK
  <2> QED
    BY <1>2, <2>2, <2>3, <2>4
<1> QED
  BY <1>4, <1>5, <1>6, <1>8, <1>9, <1>10, <1>11, <1>12, <1>13, <1>14, <1>15, <1>16
     DEF Next, open, batch, progress

(* A merge refers to the blob files its files refer to.                    *)
LEMMA MergedRefs ==
    ASSUME TypeOK, NEW S \in SUBSET DOMAIN sst, \A s \in S : refs(sst[s]) \subseteq DOMAIN blob
    PROVE  refs(merged(S)) \subseteq DOMAIN blob
<1> SUFFICES ASSUME NEW k \in DOMAIN merged(S), merged(S)[k] \in [blob : Nat]
             PROVE  merged(S)[k].blob \in DOMAIN blob
  BY DEF refs
<1>1. /\ holding(S, k) # {} /\ holding(S, k) \subseteq DOMAIN sst /\ holding(S, k) \subseteq Int
  BY DEF merged, holding, TypeOK
<1>2. Max(holding(S, k)) \in holding(S, k)
  BY <1>1, MaxInSet, FS_Subset DEF TypeOK
<1>3. PICK s \in S : s = Max(holding(S, k)) /\ k \in DOMAIN sst[s]
  BY <1>2 DEF holding
<1>4. merged(S)[k] = sst[s][k]
  BY <1>3 DEF merged
<1> QED  BY <1>3, <1>4 DEF refs

LEMMA ChunkRefs ==
    ASSUME NEW content, NEW cuts, NEW c \in chunks(content, cuts)
    PROVE  refs(c) \subseteq refs(content)
<1>1. PICK K \in SUBSET DOMAIN content : c = [k \in K |-> content[k]]
  BY DEF chunks, Restrict
<1> QED  BY <1>1 DEF refs

(* A file the writer adds refers to files that exist.                      *)
LEMMA CreatedRefs ==
    ASSUME BaseInv, RefsWritten, NEW content, create_sst(content), refs(content) \subseteq DOMAIN blob,
           writer \in {"batch", "compact"}, outputs' \subseteq outputs,
           UNCHANGED <<blob, phase, writer, new_blob_files>>
    PROVE  RefsWritten'
<1>1. phase = "open" /\ \A s \in DOMAIN sst : s # seq + 1
  BY DEF BaseInv, TypeInv, NumberInv, NumberTypes, NumberWriting, Files
<1>2. created \subseteq DOMAIN sst
  BY <1>1 DEF BaseInv, TypeInv, ReadableInv
<1>3. /\ created' = created \cup {seq + 1} /\ sst'[seq + 1] = content
      /\ \A s \in DOMAIN sst : sst'[s] = sst[s]
  BY <1>1 DEF create_sst, With
<1>4. \A s \in created' : refs(sst'[s]) \subseteq DOMAIN blob
  BY <1>1, <1>2, <1>3 DEF RefsWritten
<1> QED  BY <1>1, <1>4 DEF RefsWritten

LEMMA RefsWrittenNext == BaseInv /\ DirectoryInv /\ [Next]_vars => RefsWritten'
<1> SUFFICES ASSUME BaseInv, DirectoryInv, [Next]_vars
             PROVE  RefsWritten'
  OBVIOUS
<1>0. NumberInv /\ ReadableInv /\ RecoverInv /\ TypeOK /\ RefsCommitted /\ RefsWritten
  BY DEF BaseInv, TypeInv, DirectoryInv
<1>1. CASE open
  <2>1. UNCHANGED <<writer, job>> /\ (phase' = "open" => phase # "open")
    BY <1>1 DEF open, create_current, init_current, read_current, visit_entry, finish_open
  <2>2. phase' = "open" => writer = "idle" /\ created = {} /\ new_blob_files = {}
    BY <1>0, <2>1 DEF NumberInv, NumberWriting, RefsWritten
  <2>3. phase # "open"
    BY <1>0, <1>1 DEF open, create_current, init_current, read_current, visit_entry, finish_open
  <2> QED
    BY <1>0, <2>1, <2>2, <2>3 DEF RefsWritten, job
<1>2. CASE write_batch
  BY <1>0, <1>2 DEF write_batch, disk, RefsWritten, NumberInv, NumberWriting
<1>3. ASSUME NEW v \in Value, create_blob(v)
      PROVE  RefsWritten'
  <2>1. phase = "open"
    BY <1>0, <1>3 DEF create_blob, NumberInv, NumberWriting
  <2>2. /\ DOMAIN blob' = DOMAIN blob \cup {seq'} /\ new_blob_files' = new_blob_files \cup {seq'}
        /\ UNCHANGED <<sst, phase, writer, created>> /\ writer = "batch"
    BY <1>3 DEF create_blob, With
  <2>3. \A s \in created : refs(sst'[s]) \subseteq DOMAIN blob'
    BY <1>0, <2>1, <2>2 DEF RefsWritten
  <2> QED
    BY <1>0, <2>1, <2>2, <2>3 DEF RefsWritten
<1>4. ASSUME NEW content \in BatchEntries, create_sst_file(content)
      PROVE  RefsWritten'
  <2>1. phase = "open" /\ new_blob_files \subseteq DOMAIN blob
    BY <1>0, <1>4 DEF create_sst_file, NumberInv, NumberWriting, RefsWritten
  <2>2. ASSUME NEW k \in DOMAIN content, content[k] \in [blob : Nat]
        PROVE  content[k].blob \in DOMAIN blob
    <3>1. content[k] \in {BlobRef(s) : s \in new_blob_files}
      BY <2>2, ValueAssumption DEF BatchEntries
    <3> QED
      BY <2>1, <3>1 DEF BlobRef
  <2>3. refs(content) \subseteq DOMAIN blob
    BY <2>2 DEF refs
  <2> QED
    BY <1>0, <1>4, <2>3, CreatedRefs DEF create_sst_file
<1>5. ASSUME NEW cuts \in SUBSET Key, compact(cuts)
      PROVE  RefsWritten'
  <2>1. PICK groups : /\ \A g \in groups : g \subseteq static_sorted_files
                      /\ outputs' = UNION {chunks(merged(g), cuts) : g \in groups}
    <3>1. \A positions : files_at(positions) \subseteq static_sorted_files
      BY DEF files_at
    <3>2. \E groups :
              /\ groups = {} \/ \E J : groups = {files_at(ToSet(j)) : j \in J}
              /\ outputs' = UNION {chunks(merged(g), cuts) : g \in groups}
      BY <1>5, Zenon DEF compact, start_compact
    <3> QED
      BY <3>1, <3>2
  <2>2. /\ phase = "open" /\ ~active_write_operation /\ writer' = "compact"
        /\ UNCHANGED <<disk, phase, new_blob_files, created>>
    BY <1>5 DEF compact, start_compact
  <2>3. writer = "idle" /\ static_sorted_files \subseteq DOMAIN sst
        /\ static_sorted_files = recoverable(syncedCurrent)
    BY <1>0, <2>2 DEF NumberInv, NumberWriting, ReadableInv, RecoverInv, RecoverAgreeing
  <2>4. \A s \in static_sorted_files : refs(sst[s]) \subseteq DOMAIN blob
    BY <1>0, <2>3 DEF RefsCommitted
  <2>5. ASSUME NEW g \in groups PROVE refs(merged(g)) \subseteq DOMAIN blob
    BY <1>0, <2>1, <2>3, <2>4, MergedRefs
  <2>6. \A c \in outputs' : refs(c) \subseteq DOMAIN blob
    BY <2>1, <2>5, ChunkRefs
  <2> QED
    BY <1>0, <2>2, <2>3, <2>6 DEF RefsWritten, disk
<1>6. ASSUME NEW content \in outputs, write_merged(content)
      PROVE  RefsWritten'
  <2>1. phase = "open" /\ refs(content) \subseteq DOMAIN blob
    BY <1>0, <1>6 DEF write_merged, NumberInv, NumberWriting, RefsWritten
  <2> QED
    BY <1>0, <1>6, <2>1, CreatedRefs DEF write_merged
<1>7. ASSUME NEW s \in move_jobs, move_file(s)
      PROVE  RefsWritten'
  <2>1. phase = "open"
    BY <1>0, <1>7 DEF move_file, NumberInv, NumberWriting
  <2>2. s \in recoverable(syncedCurrent)
    BY <1>0, <1>7, <2>1 DEF move_file, ReadableInv, RecoverInv, RecoverAgreeing
  <2>3. refs(sst[s]) \subseteq DOMAIN blob
    BY <1>0, <2>2 DEF RefsCommitted
  <2> QED
    BY <1>0, <1>7, <2>3, CreatedRefs DEF move_file
<1>8. CASE \/ finish \/ finish_compact \/ write_del \/ sync_del \/ write_current
           \/ sync_current
  BY <1>0, <1>8 DEF finish, finish_compact, write_del, sync_del, write_current, sync_current, disk,
     job, RefsWritten
<1>9. ASSUME NEW s \in new_sst_files \cup new_blob_files, sync_file(s)
      PROVE  RefsWritten'
  BY <1>0, <1>9 DEF sync_file, RefsWritten
<1>10. CASE publish
  BY <1>0, <1>10 DEF publish, disk, RefsWritten
<1>11. ASSUME NEW s \in removed_ssts, remove_file(s)
       PROVE  RefsWritten'
  BY <1>0, <1>11 DEF remove_file, RefsWritten
<1>12. CASE release
  BY <1>0, <1>12 DEF release, disk, RefsWritten
<1>13. CASE fail
  BY <1>0, <1>13 DEF fail, disk, job, RefsWritten
<1>14. CASE crash
  BY <1>14 DEF crash, RefsWritten
<1>15. CASE UNCHANGED vars
  BY <1>0, <1>15 DEF vars, disk, job, RefsWritten
<1> QED
  BY <1>1, <1>2, <1>3, <1>4, <1>5, <1>6, <1>7, <1>8, <1>9, <1>10, <1>11, <1>12, <1>13, <1>14, <1>15
     DEF Next, batch, progress

(* DirectoryIsExact.  Once the database is open and no write operation     *)
(* runs the directory holds the files readers use and no others, and at    *)
(* any time what a crash may leave in CURRENT commits to files that are    *)
(* synced, with the blob files they refer to (commit and load_directory in *)
(* db.rs).                                                                 *)
THEOREM ExactDirectory == Spec => []DirectoryIsExact
<1>1. BaseInv /\ DirectoryInv /\ [Next]_vars => DirectoryInv'
  BY UnlinkedNext, SyncedNext, RefsCommittedNext, RefsWrittenNext DEF DirectoryInv
<1>2. BaseInv /\ DirectoryInv => DirectoryIsExact
  <2> SUFFICES ASSUME BaseInv, DirectoryInv PROVE NoLeftoverFiles /\ CommittedFilesIntact
    BY DEF DirectoryIsExact
  <2>0. NumberInv /\ RecoverInv /\ TypeOK /\ Unlinked /\ Synced /\ RefsCommitted
    BY DEF BaseInv, TypeInv, DirectoryInv
  <2>1. ASSUME phase = "open", writer = "idle" PROVE DOMAIN sst = static_sorted_files
    <3>1. /\ created = {} /\ created = {s \in DOMAIN sst : s > syncedCurrent}
          /\ recoverable(syncedCurrent) = static_sorted_files
      BY <2>0, <2>1 DEF NumberInv, NumberWriting, RecoverInv, RecoverAgreeing
    <3>2. \A d \in DOMAIN del : del[d] \cap DOMAIN sst = {}
      BY <2>0, <2>1 DEF Unlinked
    <3>3. \A s \in DOMAIN sst : s <= syncedCurrent
      <4>1. syncedCurrent \in Int /\ DOMAIN sst \subseteq Nat
        BY <2>0 DEF TypeOK, ABSENT, EMPTY
      <4> QED
        BY <3>1, <4>1
    <3> QED
      BY <3>1, <3>2, <3>3 DEF recoverable
  <2>2. ASSUME NEW c \in {CURRENT, syncedCurrent}, NEW s \in recoverable(c)
        PROVE  /\ s \notin unsynced
               /\ \A k \in DOMAIN sst[s] :
                     sst[s][k] \in [blob : Nat] => sst[s][k].blob \in DOMAIN blob \ unsynced
    <3>1. c \in Int /\ \A u \in unsynced : u \in Nat /\ c < u
      BY <2>0 DEF TypeOK, Synced, ABSENT, EMPTY
    <3>2. s \in Nat /\ s <= c
      BY <2>0 DEF recoverable, TypeOK
    <3>3. \A b \in refs(sst[s]) : b \in DOMAIN blob /\ b \in Nat /\ b <= c
      BY <2>0 DEF RefsCommitted, TypeOK
    <3>4. \A n \in Nat : n <= c => n \notin unsynced
      BY <3>1
    <3> QED
      BY <3>2, <3>3, <3>4 DEF refs
  <2> QED
    BY <2>1, <2>2 DEF NoLeftoverFiles, CommittedFilesIntact
<1> QED
  BY <1>1, <1>2, BaseAlways, DirectoryInit, PTL DEF Spec
-----------------------------------------------------------------------------
(***************************************************************************)
(* The key-value store.  Recovery says which files a restart finds, and    *)
(* DirectoryInv that they have what they refer to; what is missing is that *)
(* readers never see a reference to a blob file that is not there, and     *)
(* which files a restart finds with the CURRENT that is not yet synced.    *)
(***************************************************************************)

(* What these files contain, in a directory with the SST files ss and the  *)
(* blob files bb.                                                          *)
Resolved(bb, entry) ==
    CASE entry = Deleted   -> NotFound
      [] entry \in Value   -> entry
      [] OTHER             -> IF entry.blob \in DOMAIN bb THEN bb[entry.blob]
                                                          ELSE Deleted
View(ss, bb, files) ==
    [k \in Key |-> IF {s \in files : k \in DOMAIN ss[s]} = {} THEN NotFound
                   ELSE Resolved(bb, ss[Max({s \in files : k \in DOMAIN ss[s]})][k])]

Shown == View(sst, blob, static_sorted_files)
Found == View(sst, blob, recoverable(syncedCurrent))

LEMMA Views ==
    /\ contents(static_sorted_files) = Shown
    /\ contents(recoverable(syncedCurrent)) = Found
BY DEF contents, get, holding, resolve, Shown, Found, View, Resolved

LEMMA EntryCases ==
    ASSUME NEW content, IsContent(content), NEW k \in DOMAIN content
    PROVE  \/ content[k] = Deleted
           \/ content[k] \in Value
           \/ /\ content[k] \in [blob : Nat] /\ content[k].blob \in refs(content)
              /\ content[k] # Deleted /\ content[k] \notin Value
<1>1. content[k] \in Value \cup {Deleted} \cup [blob : Nat]
  BY DEF IsContent, Entry
<1>2. content[k] \in [blob : Nat] => content[k].blob \in refs(content)
  BY DEF refs
<1> QED  BY <1>1, <1>2

(* The newest file with an entry for k is one of the files.                *)
LEMMA Newest ==
    ASSUME NEW S, IsFiniteSet(S), S \subseteq Nat, NEW files \in SUBSET S, NEW ss, NEW k,
           {s \in files : k \in DOMAIN ss[s]} # {}
    PROVE  /\ Max({s \in files : k \in DOMAIN ss[s]}) \in files
           /\ k \in DOMAIN ss[Max({s \in files : k \in DOMAIN ss[s]})]
<1> DEFINE H == {s \in files : k \in DOMAIN ss[s]}
<1>0. H # {}
  OBVIOUS
<1>1. H \subseteq S /\ H \subseteq Int
  <2>1. files \subseteq Int
    OBVIOUS
  <2> QED  BY <2>1
<1>2. IsFiniteSet(H)
  BY <1>1, FS_Subset
<1>3. Max(H) \in H
  <2> HIDE DEF H
  <2> QED  BY <1>0, <1>1, <1>2, MaxInSet
<1> QED  BY <1>3

(* Files that stay as they are, with the blob files they refer to, contain *)
(* what they did.                                                          *)
LEMMA SameView ==
    ASSUME NEW ss, NEW ss2, NEW bb, NEW bb2, NEW files \in SUBSET DOMAIN ss,
           IsFiniteSet(DOMAIN ss), DOMAIN ss \subseteq Nat, \A s \in files : IsContent(ss[s]),
           \A s \in files : ss2[s] = ss[s],
           \A s \in files : \A b \in refs(ss[s]) :
               b \in DOMAIN bb /\ b \in DOMAIN bb2 /\ bb2[b] = bb[b]
    PROVE  View(ss2, bb2, files) = View(ss, bb, files)
<1> SUFFICES ASSUME NEW k \in Key
             PROVE  View(ss2, bb2, files)[k] = View(ss, bb, files)[k]
  BY DEF View
<1> DEFINE H == {s \in files : k \in DOMAIN ss[s]}
           H2 == {s \in files : k \in DOMAIN ss2[s]}
<1>1. H2 = H
  OBVIOUS
<1>2. CASE H = {}
  BY <1>1, <1>2 DEF View
<1>3. CASE H # {}
  <2>1. PICK m \in files : m = Max(H) /\ k \in DOMAIN ss[m]
    BY <1>3, Newest
  <2>2. Resolved(bb2, ss[m][k]) = Resolved(bb, ss[m][k])
    BY <2>1, EntryCases DEF Resolved
  <2>3. View(ss, bb, files)[k] = Resolved(bb, ss[m][k])
    BY <1>3, <2>1 DEF View
  <2>4. View(ss2, bb2, files)[k] = Resolved(bb2, ss2[Max(H2)][k])
    BY <1>1, <1>3 DEF View
  <2> QED  BY <1>1, <2>1, <2>2, <2>3, <2>4
<1> QED  BY <1>2, <1>3

(* They are a map when the blob files are there.                           *)
LEMMA ViewIsMap ==
    ASSUME NEW ss, NEW bb, NEW files \in SUBSET DOMAIN ss,
           IsFiniteSet(DOMAIN ss), DOMAIN ss \subseteq Nat, \A s \in files : IsContent(ss[s]),
           \A s \in files : \A b \in refs(ss[s]) : b \in DOMAIN bb,
           \A b \in DOMAIN bb : bb[b] \in Value
    PROVE  View(ss, bb, files) \in [Key -> Value \cup {NotFound}]
<1> SUFFICES ASSUME NEW k \in Key
             PROVE  View(ss, bb, files)[k] \in Value \cup {NotFound}
  BY DEF View
<1> DEFINE H == {s \in files : k \in DOMAIN ss[s]}
<1>1. CASE H = {}
  BY <1>1 DEF View
<1>2. CASE H # {}
  <2>1. PICK m \in files : m = Max(H) /\ k \in DOMAIN ss[m]
    BY <1>2, Newest
  <2>2. Resolved(bb, ss[m][k]) \in Value \cup {NotFound}
    BY <2>1, EntryCases DEF Resolved
  <2>3. View(ss, bb, files)[k] = Resolved(bb, ss[m][k])
    BY <1>2, <2>1 DEF View
  <2> QED  BY <2>2, <2>3
<1> QED  BY <1>1, <1>2

(* What a crash may find with the CURRENT that is not synced is what it    *)
(* finds without, or what readers see.                                     *)
CrashFinds ==
    \/ recoverable(CURRENT) = recoverable(syncedCurrent)
    \/ phase = "open" /\ recoverable(CURRENT) = static_sorted_files

(* Readers find every blob file.                                           *)
ShownRefs ==
    phase = "open" => \A s \in static_sorted_files : refs(sst[s]) \subseteq DOMAIN blob

ViewInv == CrashFinds /\ ShownRefs

(* All that is known.                                                      *)
Known == BaseInv /\ DirectoryInv

LEMMA KnownNext == Known /\ [Next]_vars => Known'
BY NumberInvNext, ReadableInvNext, TypeOKNext, RecoverInvNext,
   UnlinkedNext, SyncedNext, RefsCommittedNext, RefsWrittenNext
   DEF Known, BaseInv, TypeInv, DirectoryInv

LEMMA Agreeing ==
    ASSUME Known, phase = "open", writer \in {"idle", "batch", "compact", "sync", "remove"}
    PROVE  recoverable(syncedCurrent) = static_sorted_files
BY DEF Known, BaseInv, RecoverInv, RecoverAgreeing

(* Between publication and the sync of CURRENT, a restart with the number  *)
(* that is written to CURRENT would find what was published.               *)
LEMMA Committing ==
    ASSUME Known, phase = "open", writer \in {"current", "sync_current"}
    PROVE  recoverable(seq) = static_sorted_files
<1>1. /\ static_sorted_files = (recoverable(syncedCurrent) \ removed_ssts) \cup created
      /\ syncedCurrent <= seq
      /\ \A d \in DOMAIN del : d <= syncedCurrent \/ (d = seq /\ del[d] = removed_ssts)
      /\ removed_ssts = {} \/ (seq \in DOMAIN del /\ del[seq] = removed_ssts)
      /\ created = {s \in DOMAIN sst : s > syncedCurrent} /\ created \cap removed_ssts = {}
  BY DEF Known, BaseInv, RecoverInv, RecoverCommitting
<1>2. /\ \A s \in DOMAIN sst \cup DOMAIN del : s \in Nat /\ s <= seq
      /\ \A d \in DOMAIN del : \A s \in del[d] : s \in Nat /\ s < d
      /\ seq \in Int /\ syncedCurrent \in Int
  BY DEF Known, BaseInv, TypeInv, NumberInv, NumberWriting, NumberKinds, NumberTypes, Files, ABSENT, EMPTY
<1>3. ASSUME NEW s \in DOMAIN sst
      PROVE  s \in recoverable(seq) <=> s \in static_sorted_files
  <2>1. s \in recoverable(seq) <=> \A d \in DOMAIN del : s \notin del[d]
    BY <1>2 DEF recoverable
  <2>2. s \in recoverable(syncedCurrent) <=>
            s <= syncedCurrent /\ \A d \in DOMAIN del : d <= syncedCurrent => s \notin del[d]
    BY DEF recoverable
  <2>3. CASE s <= syncedCurrent
    <3>1. s \in static_sorted_files <=> s \in recoverable(syncedCurrent) /\ s \notin removed_ssts
      BY <1>1, <1>2, <2>3
    <3> QED  BY <1>1, <2>1, <2>2, <2>3, <3>1
  <2>4. CASE ~(s <= syncedCurrent)
    <3>1. s \in static_sorted_files /\ s \notin removed_ssts
      BY <1>1, <1>2, <2>4
    <3>2. \A d \in DOMAIN del : d <= syncedCurrent => s \notin del[d]
      BY <1>2, <2>4
    <3> QED  BY <1>1, <2>1, <3>1, <3>2
  <2> QED  BY <2>3, <2>4
<1>4. recoverable(seq) \subseteq DOMAIN sst /\ static_sorted_files \subseteq DOMAIN sst
  BY <1>1 DEF recoverable
<1> QED  BY <1>3, <1>4

(* A file with the next number is above both contents of CURRENT.          *)
LEMMA AddedFile ==
    ASSUME Known, Known', NEW content, create_sst(content),
           UNCHANGED <<del, CURRENT, syncedCurrent>>
    PROVE  /\ recoverable(CURRENT)' = recoverable(CURRENT)
           /\ recoverable(syncedCurrent)' = recoverable(syncedCurrent)
<1>1. DOMAIN sst' = DOMAIN sst \cup {seq'} /\ seq' \in unsynced'
  BY DEF create_sst, With
<1>2. seq' \in Nat /\ CURRENT < seq' /\ syncedCurrent < seq' /\ CURRENT \in Int /\ syncedCurrent \in Int
  BY <1>1 DEF Known, DirectoryInv, Synced, BaseInv, TypeInv, NumberInv, NumberTypes, ABSENT, EMPTY
<1> QED  BY <1>1, <1>2 DEF recoverable

LEMMA AddedDel ==
    ASSUME Known, Known', write_del
    PROVE  /\ recoverable(CURRENT)' = recoverable(CURRENT)
           /\ recoverable(syncedCurrent)' = recoverable(syncedCurrent)
<1>1. /\ DOMAIN del' = DOMAIN del \cup {seq} /\ seq \in unsynced'
      /\ \A d \in DOMAIN del : d # seq /\ del'[d] = del[d]
      /\ UNCHANGED <<sst, CURRENT, syncedCurrent>>
  BY DEF write_del, With
<1>2. CURRENT < seq /\ syncedCurrent < seq /\ CURRENT \in Int /\ syncedCurrent \in Int /\ seq \in Int
  BY <1>1 DEF Known, DirectoryInv, Synced, BaseInv, TypeInv, NumberInv, NumberTypes, ABSENT, EMPTY
<1>3. ASSUME NEW c \in {CURRENT, syncedCurrent}
      PROVE  {d \in DOMAIN del' : d <= c} = {d \in DOMAIN del : d <= c}
  BY <1>1, <1>2
<1>4. ASSUME NEW c \in {CURRENT, syncedCurrent}
      PROVE  UNION {del'[d] : d \in {d \in DOMAIN del' : d <= c}} =
             UNION {del[d] : d \in {d \in DOMAIN del : d <= c}}
  BY <1>1, <1>3
<1> QED  BY <1>1, <1>4 DEF recoverable

LEMMA CrashFindsNext ==
    ASSUME Known, Known', CrashFinds, [Next]_vars
    PROVE  CrashFinds'
<1>0. /\ NumberInv /\ RecoverInv /\ ReadableInv /\ NumberInv' /\ RecoverInv'
      /\ \A s \in DOMAIN sst : s \in Nat
  BY DEF Known, BaseInv, TypeInv, TypeOK
<1>1. CASE UNCHANGED <<sst, del, CURRENT, syncedCurrent, static_sorted_files, phase>>
  BY <1>1 DEF CrashFinds, recoverable
<1>2. CASE CURRENT' = syncedCurrent'
  BY <1>2 DEF CrashFinds, recoverable
<1>3. CASE phase' \in {"closed", "opening", "failed"}
  BY <1>0, <1>2, <1>3 DEF RecoverInv
<1>4. CASE create_current
  BY <1>2, <1>4 DEF create_current
<1>5. CASE init_current
  <2>1. DOMAIN sst = {} /\ UNCHANGED sst
    BY <1>0, <1>5 DEF init_current, NumberInv, NumberFresh, Files
  <2> QED  BY <2>1 DEF CrashFinds, recoverable
<1>6. CASE finish_open
  <2>1. CURRENT = syncedCurrent /\ UNCHANGED <<CURRENT, syncedCurrent>>
    BY <1>0, <1>6 DEF finish_open, RecoverInv, disk
  <2> QED  BY <1>2, <2>1
<1>7. ASSUME NEW content, create_sst(content),
             UNCHANGED <<del, CURRENT, syncedCurrent, static_sorted_files, phase>>
      PROVE  CrashFinds'
  BY <1>7, AddedFile DEF CrashFinds
<1>8. CASE publish
  <2>1. phase = "open" /\ recoverable(syncedCurrent) = static_sorted_files
    BY <1>0, <1>8, Agreeing DEF publish, NumberInv, NumberWriting
  <2>2. UNCHANGED <<sst, del, CURRENT, syncedCurrent>>
    BY <1>8 DEF publish, disk
  <2> QED  BY <2>1, <2>2 DEF CrashFinds, recoverable
<1>9. CASE write_del
  BY <1>9, AddedDel DEF CrashFinds, write_del, inner
<1>10. CASE write_current
  <2>1. phase = "open" /\ recoverable(seq) = static_sorted_files
    BY <1>0, <1>10, Committing DEF write_current, NumberInv, NumberWriting
  <2>2. CURRENT' = seq /\ UNCHANGED <<sst, del, phase, static_sorted_files>>
    BY <1>10 DEF write_current, inner
  <2> QED  BY <2>1, <2>2 DEF CrashFinds, recoverable
<1>11. CASE sync_current
  BY <1>2, <1>11 DEF sync_current
<1>12. ASSUME NEW s \in removed_ssts, remove_file(s)
       PROVE  CrashFinds'
  <2>1. /\ DOMAIN sst' = DOMAIN sst \ {s}
        /\ UNCHANGED <<del, CURRENT, syncedCurrent, static_sorted_files, phase>>
    BY <1>12 DEF remove_file, Without, inner
  <2>2. s \notin static_sorted_files
    BY <1>0, <1>12 DEF remove_file, NumberInv, NumberWriting, ReadableInv
  <2>3. /\ recoverable(CURRENT)' = recoverable(CURRENT) \ {s}
        /\ recoverable(syncedCurrent)' = recoverable(syncedCurrent) \ {s}
    BY <2>1 DEF recoverable
  <2> QED  BY <2>1, <2>2, <2>3 DEF CrashFinds
<1>13. ASSUME NEW e \in entries, visit_entry(e)
       PROVE  CrashFinds'
  BY <1>3, <1>13 DEF visit_entry
<1>14. CASE open
  <2>1. CASE read_current
    BY <1>3, <2>1 DEF read_current
  <2> QED  BY <1>4, <1>5, <1>6, <1>13, <1>14, <2>1 DEF open
<1>15. CASE batch
  <2>1. ASSUME NEW v \in Value, create_blob(v) PROVE CrashFinds'
    BY <1>1, <2>1 DEF create_blob, inner
  <2>2. ASSUME NEW content \in BatchEntries, create_sst_file(content) PROVE CrashFinds'
    BY <1>7, <2>2 DEF create_sst_file, inner
  <2> QED  BY <1>15, <2>1, <2>2 DEF batch
<1>16. CASE progress
  <2>1. CASE finish \/ finish_compact \/ sync_del \/ release
             \/ \E s \in new_sst_files \cup new_blob_files : sync_file(s)
    BY <1>1, <2>1 DEF finish, finish_compact, sync_del, release, sync_file, disk, inner
  <2>2. ASSUME NEW content \in outputs, write_merged(content) PROVE CrashFinds'
    BY <1>7, <2>2 DEF write_merged, inner
  <2>3. ASSUME NEW s \in move_jobs, move_file(s) PROVE CrashFinds'
    BY <1>7, <2>3 DEF move_file, inner
  <2> QED  BY <1>8, <1>9, <1>10, <1>11, <1>12, <1>16, <2>1, <2>2, <2>3 DEF progress
<1>17. CASE write_batch \/ fail \/ UNCHANGED vars
  BY <1>1, <1>17 DEF write_batch, fail, vars, disk, inner
<1>18. ASSUME NEW cuts \in SUBSET Key, compact(cuts) PROVE CrashFinds'
  BY <1>1, <1>18 DEF compact, start_compact, disk, inner
<1>19. CASE crash
  BY <1>3, <1>19 DEF crash
<1> QED  BY <1>14, <1>15, <1>16, <1>17, <1>18, <1>19 DEF Next

(* While the database stays open, only publication changes what readers    *)
(* use, and no blob file goes; when it is opened, no writer runs.          *)
LEMMA OpenSteps ==
    ASSUME Known, [Next]_vars, phase' = "open"
    PROVE  /\ phase = "open" => UNCHANGED static_sorted_files \/ publish
           /\ phase = "open" => DOMAIN blob \subseteq DOMAIN blob'
           /\ phase # "open" => init_current \/ finish_open
           /\ phase # "open" => writer' = "idle"
<1>1. phase # "open" => writer = "idle"
  BY DEF Known, BaseInv, TypeInv, NumberInv, NumberWriting
<1>2. CASE open
  BY <1>1, <1>2 DEF open, create_current, init_current, read_current, visit_entry, finish_open
<1>3. CASE batch
  <2>1. ASSUME NEW v \in Value, create_blob(v)
        PROVE  UNCHANGED <<phase, static_sorted_files, writer>> /\ DOMAIN blob \subseteq DOMAIN blob'
    BY <2>1 DEF create_blob, With, inner
  <2>2. ASSUME NEW content \in BatchEntries, create_sst_file(content)
        PROVE  UNCHANGED <<phase, static_sorted_files, writer, blob>>
    BY <2>2 DEF create_sst_file, inner
  <2>3. writer # "idle"
    BY <1>3 DEF batch, create_blob, create_sst_file
  <2> QED  BY <1>1, <1>3, <2>1, <2>2, <2>3 DEF batch
<1>4. CASE progress
  <2>1. writer # "idle"
    BY <1>4 DEF progress, finish, write_merged, move_file, finish_compact, sync_file, publish,
                write_del, sync_del, write_current, sync_current, remove_file, release
  <2>2. UNCHANGED static_sorted_files \/ publish
    BY <1>4 DEF progress, finish, write_merged, move_file, finish_compact, sync_file,
                write_del, sync_del, write_current, sync_current, remove_file, release, inner
  <2>3. UNCHANGED blob
    BY <1>4 DEF progress, finish, write_merged, move_file, finish_compact, sync_file, publish,
                write_del, sync_del, write_current, sync_current, remove_file, release, disk
  <2> QED  BY <1>1, <2>1, <2>2, <2>3
<1>5. CASE write_batch \/ fail \/ UNCHANGED vars
  BY <1>1, <1>5 DEF write_batch, fail, vars, disk, inner
<1>6. ASSUME NEW cuts \in SUBSET Key, compact(cuts)
      PROVE  UNCHANGED <<phase, static_sorted_files, blob>> /\ phase = "open"
  BY <1>6 DEF compact, start_compact, disk, inner
<1>7. CASE crash
  BY <1>7 DEF crash
<1> QED  BY <1>2, <1>3, <1>4, <1>5, <1>6, <1>7 DEF Next

LEMMA ShownRefsNext ==
    ASSUME Known, Known', ShownRefs, [Next]_vars
    PROVE  ShownRefs'
<1> SUFFICES ASSUME phase' = "open", NEW s \in static_sorted_files'
             PROVE  refs(sst'[s]) \subseteq DOMAIN blob'
  BY DEF ShownRefs
<1>1. s \in DOMAIN sst'
  BY DEF Known, BaseInv, TypeInv, ReadableInv
<1>2. CASE phase = "open" /\ s \in static_sorted_files
  <2>1. s \in DOMAIN sst /\ refs(sst[s]) \subseteq DOMAIN blob
    BY <1>2 DEF Known, BaseInv, TypeInv, ReadableInv, ShownRefs
  <2>2. sst'[s] = sst[s]
    BY <1>1, <2>1, KeptFiles DEF Known, BaseInv, TypeInv
  <2> QED  BY <1>2, <2>1, <2>2, OpenSteps
<1>3. CASE phase = "open" /\ s \notin static_sorted_files
  <2>1. publish
    BY <1>3, OpenSteps
  <2>2. s \in created /\ UNCHANGED <<sst, blob>>
    BY <1>3, <2>1 DEF publish, disk
  <2>3. refs(sst[s]) \subseteq DOMAIN blob
    BY <1>3, <2>1, <2>2 DEF publish, Known, DirectoryInv, RefsWritten
  <2> QED  BY <2>2, <2>3
<1>4. CASE phase # "open"
  <2>1. s \in recoverable(syncedCurrent)'
    BY <1>4, OpenSteps DEF Known, BaseInv, RecoverInv, RecoverAgreeing
  <2> QED  BY <2>1 DEF Known, DirectoryInv, RefsCommitted
<1> QED  BY <1>2, <1>3, <1>4

(* While a directory is loaded, visiting an entry changes nothing that     *)
(* another restart would find.                                             *)
LEMMA VisitKeeps ==
    ASSUME Known, NEW e \in entries, visit_entry(e)
    PROVE  recoverable(syncedCurrent)' = recoverable(syncedCurrent)
<1> DEFINE c == syncedCurrent
<1>1. /\ CURRENT = c /\ c \in Int /\ UNCHANGED syncedCurrent /\ phase = "opening"
      /\ DOMAIN sst \subseteq Int /\ DOMAIN del \subseteq Int
  BY DEF visit_entry, Known, BaseInv, TypeInv, TypeOK, RecoverInv, ABSENT, EMPTY
<1>2. /\ \A d \in DOMAIN del' : d \in DOMAIN del /\ del'[d] = del[d]
      /\ DOMAIN sst' \subseteq DOMAIN sst
  BY DEF visit_entry, Without
<1>3. ASSUME NEW s \in DOMAIN sst, s \notin DOMAIN sst'
      PROVE  s \notin recoverable(c)
  <2>1. \/ s > CURRENT
        \/ e[1] = "del" /\ e[2] <= CURRENT /\ s \in del[e[2]]
    BY <1>3 DEF visit_entry, Without
  <2>2. e[1] = "del" => e[2] \in DOMAIN del
    BY <1>1 DEF Known, BaseInv, TypeInv, NumberInv, NumberLoading
  <2> QED  BY <1>1, <2>1, <2>2 DEF recoverable
<1>4. ASSUME NEW d \in DOMAIN del, d \notin DOMAIN del', d <= c
      PROVE  del[d] \cap DOMAIN sst' = {}
  BY <1>1, <1>4 DEF visit_entry, Without
<1>5. ASSUME NEW s \in DOMAIN sst'
      PROVE  s \in recoverable(syncedCurrent)' <=> s \in recoverable(c)
  <2>1. s \in recoverable(syncedCurrent)' <=>
            s <= c /\ \A d \in DOMAIN del' : d <= c => s \notin del'[d]
    BY <1>1 DEF recoverable
  <2>2. s \in recoverable(c) <=> s <= c /\ \A d \in DOMAIN del : d <= c => s \notin del[d]
    BY <1>2 DEF recoverable
  <2> QED  BY <1>2, <1>4, <2>1, <2>2
<1>6. recoverable(c) \subseteq DOMAIN sst /\ recoverable(syncedCurrent)' \subseteq DOMAIN sst'
  BY DEF recoverable
<1> QED  BY <1>2, <1>3, <1>5, <1>6

(* Only the sync of CURRENT and a crash change what a restart finds.       *)
LEMMA FoundKept ==
    ASSUME Known, Known', [Next]_vars, ~sync_current, ~crash
    PROVE  recoverable(syncedCurrent)' = recoverable(syncedCurrent)
<1> DEFINE Kept == recoverable(syncedCurrent)' = recoverable(syncedCurrent)
           Agree == writer \in {"idle", "batch", "compact", "sync", "remove"}
<1>1. UNCHANGED <<sst, del, syncedCurrent>> => Kept
  BY DEF recoverable
<1>2. ASSUME phase = "open", phase' = "open", Agree, Agree', UNCHANGED static_sorted_files
      PROVE  Kept
  BY <1>2, Agreeing DEF Known, BaseInv, RecoverInv, RecoverAgreeing
<1>3. writer # "idle" => phase = "open"
  BY DEF Known, BaseInv, TypeInv, NumberInv, NumberWriting
<1>4. CASE open
  <2>1. CASE create_current
    <3>1. DOMAIN sst = {} /\ UNCHANGED sst
      BY <2>1 DEF create_current, Known, BaseInv, TypeInv, NumberInv, NumberFresh, Files
    <3> QED  BY <3>1 DEF recoverable
  <2>2. CASE init_current \/ read_current \/ finish_open
    BY <1>1, <2>2 DEF init_current, read_current, finish_open, disk
  <2> QED  BY <1>4, <2>1, <2>2, VisitKeeps DEF open
<1>5. CASE batch
  BY <1>2, <1>3, <1>5 DEF batch, create_blob, create_sst_file, inner
<1>6. CASE progress
  <2>1. CASE publish \/ sync_del \/ write_current \/ finish \/ finish_compact \/ release
             \/ \E s \in new_sst_files \cup new_blob_files : sync_file(s)
    BY <1>1, <2>1 DEF publish, sync_del, write_current, finish, finish_compact, release,
                      sync_file, disk
  <2>2. CASE write_del
    BY <2>2, AddedDel
  <2>3. CASE \/ \E content \in outputs : write_merged(content)
             \/ \E s \in move_jobs : move_file(s)
             \/ \E s \in removed_ssts : remove_file(s)
    BY <1>2, <1>3, <2>3 DEF write_merged, move_file, remove_file, inner
  <2> QED  BY <1>6, <2>1, <2>2, <2>3 DEF progress
<1>7. CASE write_batch \/ fail \/ UNCHANGED vars
  BY <1>1, <1>7 DEF write_batch, fail, vars, disk
<1>8. ASSUME NEW cuts \in SUBSET Key, compact(cuts) PROVE Kept
  BY <1>1, <1>8 DEF compact, start_compact, disk
<1> QED  BY <1>4, <1>5, <1>6, <1>7, <1>8 DEF Next

(* What a restart with c finds is there before and after a step, so it     *)
(* contains what it did.                                                   *)
LEMMA FoundView ==
    ASSUME Known, Known', [Next]_vars, NEW c \in {CURRENT, syncedCurrent},
           recoverable(syncedCurrent)' = recoverable(c)
    PROVE  Found' = View(sst, blob, recoverable(c))
<1> DEFINE files == recoverable(c)
<1>1. files \subseteq DOMAIN sst /\ recoverable(syncedCurrent)' \subseteq DOMAIN sst'
  BY DEF recoverable
<1>2. /\ \A s \in files : \A b \in refs(sst[s]) : b \in DOMAIN blob
      /\ \A s \in files : \A b \in refs(sst'[s]) : b \in DOMAIN blob'
  BY DEF Known, DirectoryInv, RefsCommitted
<1>3. \A s \in files : sst'[s] = sst[s]
  BY <1>1, KeptFiles DEF Known, BaseInv, TypeInv
<1>4. \A s \in files : \A b \in refs(sst[s]) :
         b \in DOMAIN blob /\ b \in DOMAIN blob' /\ blob'[b] = blob[b]
  BY <1>2, <1>3, KeptFiles DEF Known, BaseInv, TypeInv
<1>5. /\ IsFiniteSet(DOMAIN sst) /\ DOMAIN sst \subseteq Nat
      /\ \A s \in files : IsContent(sst[s])
  BY <1>1 DEF Known, BaseInv, TypeInv, TypeOK
<1>6. View(sst', blob', files) = View(sst, blob, files)
  <2> HIDE DEF files
  <2> QED  BY <1>1, <1>3, <1>4, <1>5, SameView
<1> QED  BY <1>6 DEF Found

(* So does what readers use, as long as they use the same files.           *)
LEMMA ShownKept ==
    ASSUME Known, Known', ShownRefs, ShownRefs', [Next]_vars, phase = "open", phase' = "open",
           UNCHANGED static_sorted_files
    PROVE  Shown' = Shown
<1> DEFINE files == static_sorted_files
<1>1. files \subseteq DOMAIN sst /\ files \subseteq DOMAIN sst'
  BY DEF Known, BaseInv, TypeInv, ReadableInv
<1>2. \A s \in files : refs(sst[s]) \subseteq DOMAIN blob /\ refs(sst'[s]) \subseteq DOMAIN blob'
  BY DEF ShownRefs
<1>3. \A s \in files : sst'[s] = sst[s]
  BY <1>1, KeptFiles DEF Known, BaseInv, TypeInv
<1>4. \A s \in files : \A b \in refs(sst[s]) :
         b \in DOMAIN blob /\ b \in DOMAIN blob' /\ blob'[b] = blob[b]
  BY <1>2, <1>3, KeptFiles DEF Known, BaseInv, TypeInv
<1>5. /\ IsFiniteSet(DOMAIN sst) /\ DOMAIN sst \subseteq Nat
      /\ \A s \in files : IsContent(sst[s])
  BY <1>1 DEF Known, BaseInv, TypeInv, TypeOK
<1>6. View(sst', blob', files) = View(sst, blob, files)
  <2> HIDE DEF files
  <2> QED  BY <1>1, <1>3, <1>4, <1>5, SameView
<1> QED  BY <1>6 DEF Shown

(* A crash removes only files that a restart would not find.               *)
LEMMA CrashKeeps ==
    ASSUME Known, crash, NEW c \in {CURRENT, syncedCurrent}, syncedCurrent' = c
    PROVE  recoverable(syncedCurrent)' = recoverable(c)
<1>1. PICK lost \in SUBSET unsynced : sst' = Without(sst, lost) /\ del' = Without(del, lost)
  BY DEF crash
<1>2. /\ c \in Int /\ DOMAIN sst \subseteq Int /\ DOMAIN del \subseteq Int
      /\ \A u \in unsynced : u \in Int /\ c < u
  BY DEF Known, BaseInv, TypeInv, TypeOK, DirectoryInv, Synced, ABSENT, EMPTY
<1>3. /\ {s \in DOMAIN sst' : s <= c} = {s \in DOMAIN sst : s <= c}
      /\ {d \in DOMAIN del' : d <= c} = {d \in DOMAIN del : d <= c}
      /\ \A d \in DOMAIN del' : del'[d] = del[d]
  BY <1>1, <1>2 DEF Without
<1>4. UNION {del'[d] : d \in {d \in DOMAIN del' : d <= c}} =
      UNION {del[d] : d \in {d \in DOMAIN del : d <= c}}
  BY <1>3
<1> QED  BY <1>3, <1>4 DEF recoverable

(* The store and the durable map of KVStore.                               *)
Store == IF phase = "open" THEN Shown ELSE Found

LEMMA StoreStep ==
    ASSUME Known, Known', ViewInv, ViewInv', [Next]_vars
    PROVE  \/ UNCHANGED <<Store, Found>> /\ (phase' = "open" <=> phase = "open")
           \/ UNCHANGED <<Store, Found>> /\ phase # "open" /\ phase' = "open"
           \/ /\ phase = "open" /\ phase' = "open" /\ Store = Found /\ UNCHANGED Found
              /\ Store' \in [Key -> Value \cup {NotFound}]
           \/ phase = "open" /\ phase' = "open" /\ Found' = Store /\ UNCHANGED Store
           \/ phase' # "open" /\ Store' \in {Found, Store} /\ Found' = Store'
<1>0. ShownRefs /\ ShownRefs' /\ CrashFinds
  BY DEF ViewInv
<1>1. CASE crash
  <2>1. PICK c \in {CURRENT, syncedCurrent} : syncedCurrent' = c
    BY <1>1 DEF crash
  <2>2. Found' = View(sst, blob, recoverable(c))
    BY <1>1, <2>1, CrashKeeps, FoundView
  <2>3. \/ recoverable(c) = recoverable(syncedCurrent)
        \/ phase = "open" /\ recoverable(c) = static_sorted_files
    BY <1>0 DEF CrashFinds
  <2>4. Found' \in {Found, Store}
    BY <2>2, <2>3 DEF Found, Shown, Store
  <2>5. phase' # "open"
    BY <1>1 DEF crash
  <2> QED  BY <2>4, <2>5 DEF Store
<1>2. CASE sync_current
  <2>1. phase = "open" /\ phase' = "open" /\ UNCHANGED static_sorted_files /\ writer' = "remove"
    BY <1>2 DEF sync_current, inner, Known, BaseInv, TypeInv, NumberInv, NumberWriting
  <2>2. Shown' = Shown
    BY <1>0, <2>1, ShownKept
  <2>3. recoverable(syncedCurrent)' = static_sorted_files'
    BY <2>1 DEF Known, BaseInv, RecoverInv, RecoverAgreeing
  <2>4. Found' = Shown'
    BY <2>3 DEF Found, Shown
  <2> QED  BY <2>1, <2>2, <2>4 DEF Store
<1>3. CASE ~crash /\ ~sync_current
  <2>1. Found' = Found
    BY <1>3, FoundKept, FoundView DEF Found
  <2>2. CASE phase' # "open" /\ phase # "open"
    BY <2>1, <2>2 DEF Store
  <2>3. CASE phase' = "open" /\ phase # "open"
    <3>1. recoverable(syncedCurrent)' = static_sorted_files'
      BY <2>3, OpenSteps DEF Known, BaseInv, RecoverInv, RecoverAgreeing
    <3>2. Shown' = Found'
      BY <3>1 DEF Shown, Found
    <3> QED  BY <2>1, <2>3, <3>2 DEF Store
  <2>4. CASE phase' = "open" /\ phase = "open" /\ UNCHANGED static_sorted_files
    BY <1>0, <2>1, <2>4, ShownKept DEF Store
  <2>5. CASE phase' = "open" /\ phase = "open" /\ publish
    <3>1. recoverable(syncedCurrent) = static_sorted_files
      BY <2>5, Agreeing DEF publish
    <3>2. Found = Shown
      BY <3>1 DEF Found, Shown
    <3>3. /\ static_sorted_files' \subseteq DOMAIN sst' /\ IsFiniteSet(DOMAIN sst')
          /\ DOMAIN sst' \subseteq Nat
          /\ \A s \in DOMAIN sst' : IsContent(sst'[s])
          /\ \A b \in DOMAIN blob' : blob'[b] \in Value
      BY <2>5 DEF Known, BaseInv, TypeInv, ReadableInv, TypeOK
    <3>4. \A s \in static_sorted_files' : \A b \in refs(sst'[s]) : b \in DOMAIN blob'
      BY <1>0, <2>5 DEF ShownRefs
    <3>5. View(sst', blob', static_sorted_files') \in [Key -> Value \cup {NotFound}]
      BY <3>3, <3>4, ViewIsMap
    <3>6. Shown' \in [Key -> Value \cup {NotFound}]
      BY <3>5 DEF Shown
    <3> QED  BY <2>1, <2>5, <3>2, <3>6 DEF Store
  <2>6. CASE phase' # "open" /\ phase = "open"
    BY <1>3, <2>6 DEF Next, open, create_current, init_current, read_current, visit_entry,
       finish_open, write_batch, batch, create_blob, create_sst_file, compact, start_compact,
       progress, finish, write_merged, move_file, finish_compact, sync_file, publish, write_del,
       sync_del, write_current, remove_file, release, fail, vars
  <2> QED  BY <2>2, <2>3, <2>4, <2>5, <2>6, OpenSteps
<1> QED  BY <1>1, <1>2, <1>3

(* The database implements the key-value store: a batch becomes visible as *)
(* a whole, then durable as a whole, and a restart comes back with one of  *)
(* the two maps (commit, load_directory).                                  *)
THEOREM Refinement == Spec => ImplementsKVStore
<1> DEFINE AllInv == Known /\ ViewInv
<1>1. Init => AllInv
  <2>1. Init => Known
    BY TypeInvInit, RecoverInvInit, DirectoryInit DEF Known, BaseInv
  <2>2. Init => ViewInv
    BY DEF Init, ViewInv, CrashFinds, ShownRefs
  <2> QED  BY <2>1, <2>2
<1>2. AllInv /\ [Next]_vars => AllInv'
  BY KnownNext, CrashFindsNext, ShownRefsNext DEF ViewInv
<1>3. Init => KV!Init
  <2>1. Init => phase # "open" /\ contents(recoverable(syncedCurrent)) = [k \in Key |-> NotFound]
    BY DEF Init, contents, get, holding, recoverable, NoFiles
  <2> QED  BY <2>1 DEF KV!Init
<1>4. AllInv /\ AllInv' /\ [Next]_vars => [KV!Next]_(KV!vars)
  <2> SUFFICES ASSUME AllInv, AllInv', [Next]_vars PROVE [KV!Next]_(KV!vars)
    OBVIOUS
  <2>1. /\ Store = IF phase = "open" THEN contents(static_sorted_files)
                                     ELSE contents(recoverable(syncedCurrent))
        /\ Found = contents(recoverable(syncedCurrent))
    BY Views DEF Store
  <2>2. /\ Store' = (IF phase = "open" THEN contents(static_sorted_files)
                                       ELSE contents(recoverable(syncedCurrent)))'
        /\ Found' = contents(recoverable(syncedCurrent))'
    BY DEF Store, Shown, Found, View, Resolved, contents, get, holding, resolve
  <2> QED
    BY <2>1, <2>2, StoreStep
       DEF KV!Next, KV!vars, KV!Open, KV!Write, KV!Persist, KV!Crash, KV!Map
<1> QED
  BY <1>1, <1>2, <1>3, <1>4, PTL DEF Spec, ImplementsKVStore, KV!Spec

-----------------------------------------------------------------------------
(***************************************************************************)
(* Compaction jobs, for every list of files.  The loops of the selector    *)
(* are recursive functions that call themselves only as their last act:    *)
(* such a function exists whether the loop ends or not (LoopExists), and   *)
(* it has the result an invariant of the loop gives where a pair of        *)
(* numbers decreases with every turn (LoopHolds).                          *)
(***************************************************************************)
(* The minimum of a finite set of numbers.                                 *)
LEMMA MinInSet ==
    ASSUME NEW S, S \subseteq Int, IsFiniteSet(S), S # {}
    PROVE  Min(S) \in S /\ \A y \in S : Min(S) <= y
<1> DEFINE T == {-x : x \in S}
<1>1. T \subseteq Int /\ IsFiniteSet(T) /\ T # {}
  <2> DEFINE f == [x \in S |-> -x]
  <2>1. f \in Surjection(S, T)
    BY DEF Surjection
  <2> HIDE DEF f, T
  <2>2. IsFiniteSet(T)
    BY <2>1, FS_Surjection
  <2> QED  BY <2>2 DEF T
<1>2. Max(T) \in T /\ \A y \in T : Max(T) >= y
  <2> HIDE DEF T
  <2> QED  BY <1>1, MaxInSet
<1>3. PICK x \in S : Max(T) = -x
  BY <1>2
<1>4. \A y \in S : x <= y
  <2> TAKE y \in S
  <2>1. -x >= -y /\ x \in Int /\ y \in Int
    BY <1>2, <1>3
  <2> QED  BY <2>1
<1> QED  BY <1>4 DEF Min

(* A nonempty set of natural numbers has a first one.                      *)
LEMMA FirstNatural ==
    ASSUME NEW M, M \subseteq Nat, M # {}
    PROVE  \E a \in M : \A b \in M : a <= b
<1>1. PICK a \in M : TRUE
  OBVIOUS
<1> DEFINE F == M \cap 0 .. a
<1>2. IsFiniteSet(F) /\ F \subseteq Int /\ a \in F
  <2>1. IsFiniteSet(0 .. a)
    BY FS_Interval
  <2> QED  BY <2>1, FS_Subset
<1>3. Min(F) \in F /\ \A b \in F : Min(F) <= b
  BY <1>2, MinInSet
<1>4. \A b \in M : Min(F) <= b
  <2> TAKE b \in M
  <2>1. b \in Nat /\ a \in Nat /\ Min(F) \in Nat /\ Min(F) <= a
    BY <1>3
  <2>2. CASE b <= a
    BY <1>3, <2>1, <2>2
  <2>3. CASE a < b
    BY <2>1, <2>3
  <2> QED  BY <2>1, <2>2, <2>3
<1> QED  BY <1>3, <1>4


(* A function that ends at the elements of stop with out, and goes on from *)
(* the others with nxt.                                                    *)
Loop(f, S, stop, out, nxt) == f = [s \in S |-> IF s \in stop THEN out[s] ELSE f[nxt[s]]]

(* There is such a function, whether the loop ends or not: the elements of *)
(* stop that a loop can end at are the same after a turn as before.        *)
LEMMA LoopExists ==
    ASSUME NEW S, NEW stop, NEW out, NEW nxt, \A s \in S \ stop : nxt[s] \in S
    PROVE  \E f : Loop(f, S, stop, out, nxt)
<1> DEFINE Closed(C) == \A s \in C : s \notin stop => nxt[s] \in C
           Ends(s) == {t \in S \cap stop : \A C \in SUBSET S : s \in C /\ Closed(C) => t \in C}
           value(E) == out[CHOOSE t \in E : TRUE]
           f == [s \in S |-> value(Ends(s))]
<1>1. ASSUME NEW s \in S, s \in stop PROVE Ends(s) = {s}
  <2>1. Closed({s})
    BY <1>1
  <2> QED  BY <1>1, <2>1
<1>2. ASSUME NEW s \in S, s \notin stop PROVE Ends(s) = Ends(nxt[s])
  <2>1. ASSUME NEW t \in Ends(s) PROVE t \in Ends(nxt[s])
    <3> SUFFICES ASSUME NEW C \in SUBSET S, nxt[s] \in C, Closed(C) PROVE t \in C
      OBVIOUS
    <3>1. Closed(C \cup {s}) /\ C \cup {s} \in SUBSET S
      OBVIOUS
    <3> QED  BY <1>2, <3>1
  <2>2. ASSUME NEW t \in Ends(nxt[s]) PROVE t \in Ends(s)
    BY <1>2
  <2> QED  BY <2>1, <2>2
<1>3. ASSUME NEW s \in S PROVE f[s] = IF s \in stop THEN out[s] ELSE f[nxt[s]]
  <2>1. CASE s \in stop
    <3>1. f[s] = value({s})
      BY <1>1, <2>1
    <3> QED  BY <2>1, <3>1
  <2>2. CASE s \notin stop
    <3>1. f[s] = value(Ends(s)) /\ f[nxt[s]] = value(Ends(nxt[s]))
      BY <2>2
    <3> HIDE DEF f, Ends, value
    <3> QED  BY <1>2, <2>2, <3>1
  <2> QED  BY <2>1, <2>2
<1>4. f = [s \in S |-> f[s]]
  OBVIOUS
<1>5. Loop(f, S, stop, out, nxt)
  <2> HIDE DEF f
  <2> QED  BY <1>3, <1>4 DEF Loop
<1> QED  BY <1>5

(* A nonempty set of pairs of numbers has a first one.                     *)
LEMMA FirstInSet ==
    ASSUME NEW Z, Z # {}, NEW m \in [Z -> Nat], NEW n \in [Z -> Nat]
    PROVE  \E s \in Z : \A t \in Z : m[s] < m[t] \/ (m[s] = m[t] /\ n[s] <= n[t])
<1> DEFINE M == {m[s] : s \in Z}
<1>1. PICK a \in M : \A b \in M : a <= b
  <2>1. M \in SUBSET Nat /\ M # {}
    OBVIOUS
  <2> HIDE DEF M
  <2> QED  BY <2>1, FirstNatural
<1> DEFINE N == {n[s] : s \in {s \in Z : m[s] = a}}
<1>2. PICK b \in N : \A c \in N : b <= c
  <2>1. N \in SUBSET Nat /\ N # {}
    BY <1>1
  <2> HIDE DEF N
  <2> QED  BY <2>1, FirstNatural
<1>3. PICK s \in Z : m[s] = a /\ n[s] = b
  BY <1>2
<1>4. ASSUME NEW t \in Z PROVE m[s] < m[t] \/ (m[s] = m[t] /\ n[s] <= n[t])
  <2>1. m[s] \in Nat /\ m[t] \in Nat /\ a <= m[t]
    BY <1>1, <1>3
  <2>2. m[t] = a => b <= n[t]
    BY <1>2
  <2> QED  BY <1>3, <2>1, <2>2
<1> QED  BY <1>4

(* From Inv the loop comes to an end: m, or else n, becomes smaller with   *)
(* every turn.                                                             *)
Descends(Inv, stop, nxt, m, n) ==
    /\ m \in [Inv -> Nat] /\ n \in [Inv -> Nat]
    /\ \A s \in Inv : s \notin stop =>
          /\ nxt[s] \in Inv
          /\ m[nxt[s]] < m[s] \/ (m[nxt[s]] = m[s] /\ n[nxt[s]] < n[s])

(* All elements of Inv at which the loop ends have a result in Post.       *)
EndsIn(Inv, stop, out, Post) == \A s \in Inv : s \in stop => out[s] \in Post

(* Then it has such a result from everywhere in Inv.                       *)
LEMMA LoopHolds ==
    ASSUME NEW S, NEW stop, NEW out, NEW nxt, NEW f, Loop(f, S, stop, out, nxt),
           NEW Inv \in SUBSET S, NEW Post, NEW m, NEW n,
           EndsIn(Inv, stop, out, Post), Descends(Inv, stop, nxt, m, n)
    PROVE  \A s \in Inv : f[s] \in Post
<1>0. /\ m \in [Inv -> Nat] /\ n \in [Inv -> Nat]
      /\ \A s \in Inv : s \in stop => out[s] \in Post
      /\ \A s \in Inv : s \notin stop =>
            /\ nxt[s] \in Inv
            /\ m[nxt[s]] < m[s] \/ (m[nxt[s]] = m[s] /\ n[nxt[s]] < n[s])
  BY DEF Descends, EndsIn
<1> DEFINE Z == {s \in Inv : f[s] \notin Post}
<1>1. SUFFICES ASSUME Z # {} PROVE FALSE
  OBVIOUS
<1> DEFINE mz == [s \in Z |-> m[s]]
           nz == [s \in Z |-> n[s]]
<1>2. PICK s \in Z : \A t \in Z : mz[s] < mz[t] \/ (mz[s] = mz[t] /\ nz[s] <= nz[t])
  <2>1. mz \in [Z -> Nat] /\ nz \in [Z -> Nat]
    BY <1>0
  <2> HIDE DEF Z, mz, nz
  <2> QED  BY <1>1, <2>1, FirstInSet
<1>3. s \in S /\ f[s] = IF s \in stop THEN out[s] ELSE f[nxt[s]]
  BY DEF Loop
<1>4. s \notin stop
  BY <1>0, <1>3
<1>5. nxt[s] \in Z
  BY <1>0, <1>3, <1>4
<1>6. m[s] < m[nxt[s]] \/ (m[s] = m[nxt[s]] /\ n[s] <= n[nxt[s]])
  BY <1>2, <1>5
<1>7. m[s] \in Nat /\ m[nxt[s]] \in Nat /\ n[s] \in Nat /\ n[nxt[s]] \in Nat
  BY <1>0, <1>5
<1>8. m[nxt[s]] < m[s] \/ (m[nxt[s]] = m[s] /\ n[nxt[s]] < n[s])
  BY <1>0, <1>4
<1> QED  BY <1>6, <1>7, <1>8

-----------------------------------------------------------------------------
(* Ranges.                                                                 *)

Ranges == {r \in Int \X Int : r[1] <= r[2]}
Covers(r, q) == r[1] <= q[1] /\ q[2] <= r[2]

(* Extending a range covers both, and meets only what one of the two, if   *)
(* they overlap, meets.                                                    *)
LEMMA ExtendedRange ==
    ASSUME NEW a \in Ranges, NEW b \in Ranges
    PROVE  LET r == extend_range(a, b) IN
           /\ r \in Ranges /\ r \in Int \X Int
           /\ r[1] <= a[1] /\ a[2] <= r[2] /\ r[1] <= b[1] /\ b[2] <= r[2]
           /\ r[1] \in {a[1], b[1]} /\ r[2] \in {a[2], b[2]}
           /\ r # a => spread(a) < spread(r)
           /\ is_overlapping(a, b) =>
                \A h \in Ranges : ~is_overlapping(h, a) /\ ~is_overlapping(h, b) => ~is_overlapping(h, r)
<1> DEFINE lo == IF b[1] < a[1] THEN b[1] ELSE a[1]
           hi == IF b[2] > a[2] THEN b[2] ELSE a[2]
           r == <<lo, hi>>
<1>1. a[1] \in Int /\ a[2] \in Int /\ b[1] \in Int /\ b[2] \in Int /\ a[1] <= a[2] /\ b[1] <= b[2] /\ a = <<a[1], a[2]>>
  BY DEF Ranges
<1>2. extend_range(a, b) = r
  BY DEF extend_range
<1>3. lo \in Int /\ hi \in Int /\ lo <= a[1] /\ a[2] <= hi /\ lo <= b[1] /\ b[2] <= hi /\ lo <= hi
      /\ lo \in {a[1], b[1]} /\ hi \in {a[2], b[2]}
  BY <1>1
<1>4. r[1] = lo /\ r[2] = hi
  OBVIOUS
<1> HIDE DEF lo, hi
<1>5. r \in Ranges /\ r \in Int \X Int
  BY <1>3 DEF Ranges
<1>6. r # a => spread(a) < spread(r)
  <2> SUFFICES ASSUME r # a PROVE spread(a) < spread(r)
    OBVIOUS
  <2>1. lo # a[1] \/ hi # a[2]
    BY <1>1
  <2> QED  BY <1>1, <1>3, <1>4, <2>1 DEF spread
<1>7. ASSUME is_overlapping(a, b), NEW h \in Ranges, ~is_overlapping(h, a), ~is_overlapping(h, b)
      PROVE  ~is_overlapping(h, r)
  <2>1. h[1] \in Int /\ h[2] \in Int /\ h[1] <= h[2]
    BY DEF Ranges
  <2>2. a[1] <= b[2] /\ b[1] <= a[2]
    BY <1>7 DEF is_overlapping
  <2>3. ~(h[1] <= a[2] /\ a[1] <= h[2]) /\ ~(h[1] <= b[2] /\ b[1] <= h[2])
    BY <1>7 DEF is_overlapping
  <2>4. ~(h[1] <= hi /\ lo <= h[2])
    BY <1>1, <1>3, <2>1, <2>2, <2>3
  <2> QED  BY <1>4, <2>4 DEF is_overlapping
<1> HIDE DEF r
<1> QED  BY <1>2, <1>3, <1>4, <1>5, <1>6, <1>7

(* Overlapping goes both ways, and up to what covers a range.              *)
LEMMA Overlapping ==
    ASSUME NEW a \in Ranges, NEW b \in Ranges, NEW r \in Ranges
    PROVE  /\ is_overlapping(a, b) <=> is_overlapping(b, a)
           /\ Covers(r, a) /\ is_overlapping(a, b) => is_overlapping(r, b)
           /\ Covers(r, r) /\ is_overlapping(r, r)
           /\ extend_range(a, b) = a => Covers(a, b)
<1>1. /\ a[1] \in Int /\ a[2] \in Int /\ b[1] \in Int /\ b[2] \in Int /\ r[1] \in Int /\ r[2] \in Int
      /\ a[1] <= a[2] /\ b[1] <= b[2] /\ r[1] <= r[2]
  BY DEF Ranges
<1>2. is_overlapping(a, b) <=> is_overlapping(b, a)
  BY <1>1 DEF is_overlapping
<1>3. Covers(r, a) /\ is_overlapping(a, b) => is_overlapping(r, b)
  BY <1>1 DEF is_overlapping, Covers
<1>4. Covers(r, r) /\ is_overlapping(r, r)
  BY <1>1 DEF is_overlapping, Covers
<1>5. extend_range(a, b) = a => Covers(a, b)
  BY ExtendedRange DEF Covers
<1> QED  BY <1>2, <1>3, <1>4, <1>5

-----------------------------------------------------------------------------
(* One merge job.                                                          *)

GrowLocals(files) == [i : DOMAIN files, range : Int \X Int, job : Seq(Nat), used : SUBSET Nat]

(* What was not used before a file of the job was added, and is older,     *)
(* does not overlap any file of the job so far.                            *)
PassedOver(files, start, s) ==
    \A n \in DOMAIN s.job : \A x \in DOMAIN files \ s.used :
        start <= x /\ x < s.job[n] =>
            \E r \in Ranges : /\ ~is_overlapping(r, files[x])
                              /\ \A k \in 1 .. n : Covers(r, files[s.job[k]])

InOrder(files, picked) ==
    \A m \in DOMAIN picked : \A n \in 1 .. m - 1 :
        picked[m] < picked[n] => ~is_overlapping(files[picked[m]], files[picked[n]])

(* The range only meets what one of the unused files meets.                *)
Connected(files, start, used, range) ==
    \A h \in Ranges : 
        (\A x \in DOMAIN files \ used : start <= x => ~is_overlapping(h, files[x]))
            => ~is_overlapping(h, range)

(* The files of the job are covered by the range and were not used before. *)
JobOK(files, start, used, s) ==
    /\ s.range \in Ranges
    /\ s.job # << >> /\ s.job[1] = start
    /\ \A n \in DOMAIN s.job : s.job[n] \in DOMAIN files \ used /\ start <= s.job[n]
    /\ IsInjective(s.job)
    /\ s.used = used \cup ToSet(s.job)
    /\ \A n \in DOMAIN s.job : Covers(s.range, files[s.job[n]])
    /\ PassedOver(files, start, s)
    /\ InOrder(files, s.job)
    /\ Connected(files, start, used, s.range)

(* The search at s.i: the files before it are used or do not overlap.      *)
Growing(files, limit, start, used, s) ==
    /\ s \in GrowLocals(files)
    /\ JobOK(files, start, used, s)
    /\ Len(s.job) < limit /\ start < s.i
    /\ \A x \in DOMAIN files \ s.used : start < x /\ x < s.i => ~is_overlapping(s.range, files[x])

(* A job that has been found.                                              *)
Grown(files, limit, start, used, s) ==
    /\ s \in GrowLocals(files)
    /\ JobOK(files, start, used, s)
    /\ Len(s.job) <= limit

(* The elements of a sequence with one more.                                *)
LEMMA AppendedSet ==
    ASSUME NEW T, NEW q \in Seq(T), NEW x \in T
    PROVE  ToSet(Append(q, x)) = ToSet(q) \cup {x}
<1> DEFINE L == Len(q)
           a == Append(q, x)
<1>1. L \in Nat /\ DOMAIN q = 1 .. L /\ DOMAIN a = 1 .. L + 1 /\ a[L + 1] = x /\ \A n \in 1 .. L : a[n] = q[n]
  OBVIOUS
<1> HIDE DEF L, a
<1>2. \A n \in 1 .. L + 1 : n \in 1 .. L \/ n = L + 1
  BY <1>1
<1>3. 1 .. L \subseteq 1 .. L + 1 /\ L + 1 \in 1 .. L + 1
  BY <1>1
<1>4. ASSUME NEW y \in ToSet(a) PROVE y \in ToSet(q) \cup {x}
  <2>1. PICK n \in 1 .. L + 1 : y = a[n]
    BY <1>1, <1>4 DEF ToSet
  <2> QED  BY <1>1, <1>2, <2>1 DEF ToSet
<1>5. ASSUME NEW y \in ToSet(q) PROVE y \in ToSet(a)
  <2>1. PICK n \in 1 .. L : y = q[n]
    BY <1>1, <1>5 DEF ToSet
  <2> QED  BY <1>1, <1>3, <2>1 DEF ToSet
<1>6. x \in ToSet(a)
  BY <1>1, <1>3 DEF ToSet
<1>7. ToSet(a) = ToSet(q) \cup {x}
  BY <1>4, <1>5, <1>6
<1> QED  BY <1>7 DEF a

(* A file that fits is added.                                              *)
LEMMA FileAdded ==
    ASSUME NEW files \in Seq(Ranges), NEW limit \in Nat, NEW start, NEW used,
           NEW s, Growing(files, limit, start, used, s), joins(files, s), ~extends(files, s)
    PROVE  /\ Grown(files, limit, start, used, add_file(s))
           /\ add_file(s).i = s.i /\ add_file(s).range = s.range
           /\ s.used \subseteq add_file(s).used /\ s.i \in add_file(s).used
           /\ Len(add_file(s).job) = Len(s.job) + 1
<1> DEFINE t == add_file(s)
           L == Len(s.job)
<1>1. /\ s \in GrowLocals(files) /\ s.i \in DOMAIN files /\ s.i \in Nat /\ s.job \in Seq(Nat) /\ s.used \in SUBSET Nat
      /\ s.range \in Ranges /\ s.i \notin s.used /\ L \in Nat /\ DOMAIN s.job = 1 .. L
  BY DEF Growing, GrowLocals, JobOK, joins
<1>2. /\ t.i = s.i /\ t.range = s.range /\ t.job = Append(s.job, s.i) /\ t.used = s.used \cup {s.i}
      /\ t \in GrowLocals(files)
  <2>1. Append(s.job, s.i) \in Seq(Nat) /\ s.used \cup {s.i} \in SUBSET Nat
    BY <1>1
  <2> QED  BY <1>1, <2>1 DEF add_file, GrowLocals
<1> HIDE DEF t
<1>3. /\ t.job \in Seq(Nat) /\ Len(t.job) = L + 1 /\ DOMAIN t.job = 1 .. L + 1
      /\ t.job[L + 1] = s.i /\ \A n \in 1 .. L : t.job[n] = s.job[n]
  BY <1>1, <1>2
<1> HIDE DEF L
<1>0. \A n \in 1 .. L + 1 : n \in 1 .. L \/ n = L + 1
  BY <1>1
<1>4. files[s.i] \in Ranges /\ \A x \in DOMAIN files : files[x] \in Ranges
  BY <1>1
<1>5. Covers(s.range, files[s.i])
  BY <1>1, <1>4, Overlapping DEF extends, extended_range
<1>6. /\ L # 0 /\ s.job # << >> /\ s.job[1] = start
      /\ \A n \in 1 .. L : s.job[n] \in DOMAIN files \ used /\ start <= s.job[n]
      /\ s.used = used \cup ToSet(s.job)
      /\ \A n \in 1 .. L : Covers(s.range, files[s.job[n]])
  BY <1>1 DEF Growing, JobOK, L
<1>7. t.job # << >> /\ t.job[1] = start
  BY <1>1, <1>3, <1>6
<1>8. \A n \in 1 .. L + 1 : t.job[n] \in DOMAIN files \ used /\ start <= t.job[n]
  <2>1. s.i \in DOMAIN files \ used /\ start <= s.i
    <3>1. start \in Nat /\ start < s.i
      BY <1>1, <1>6 DEF Growing
    <3> QED  BY <1>1, <1>6, <3>1
  <2> QED  BY <1>0, <1>3, <1>6, <2>1
<1>9. IsInjective(t.job)
  <2>1. \A n \in 1 .. L : s.job[n] # s.i
    BY <1>1, <1>6 DEF ToSet
  <2>2. \A m, n \in 1 .. L : s.job[m] = s.job[n] => m = n
    BY <1>1 DEF Growing, JobOK, IsInjective
  <2> SUFFICES ASSUME NEW m \in 1 .. L + 1, NEW n \in 1 .. L + 1, t.job[m] = t.job[n] PROVE m = n
    BY <1>3 DEF IsInjective
  <2>3. /\ m \in 1 .. L => t.job[m] = s.job[m]
        /\ n \in 1 .. L => t.job[n] = s.job[n]
    BY <1>3
  <2> QED  BY <1>0, <1>3, <2>1, <2>2, <2>3
<1>10. t.used = used \cup ToSet(t.job)
  <2>1. ToSet(t.job) = ToSet(s.job) \cup {s.i}
    <3>1. s.job \in Seq(Nat) /\ s.i \in Nat
      BY <1>1
    <3>2. ToSet(Append(s.job, s.i)) = ToSet(s.job) \cup {s.i}
      BY <3>1, AppendedSet
    <3> QED  BY <1>2, <3>2
  <2> QED  BY <1>2, <1>6, <2>1
<1>11. \A n \in 1 .. L + 1 : Covers(t.range, files[t.job[n]])
  BY <1>1, <1>2, <1>3, <1>5, <1>6
<1>12. PassedOver(files, start, t)
  <2> SUFFICES ASSUME NEW n \in 1 .. L + 1, NEW x \in DOMAIN files \ t.used, start <= x, x < t.job[n]
               PROVE  \E r \in Ranges : /\ ~is_overlapping(r, files[x])
                                        /\ \A k \in 1 .. n : Covers(r, files[t.job[k]])
    BY <1>3 DEF PassedOver
  <2>1. CASE n = L + 1
    <3>1. start < x
      <4>0. 1 \in DOMAIN s.job
        BY <1>1, <1>6
      <4>1. start \in ToSet(s.job)
        BY <1>6, <4>0 DEF ToSet
      <4>2. x # start
        BY <1>2, <1>6, <4>1
      <4> QED  BY <4>2, <1>1, <1>6
    <3>2. ~is_overlapping(s.range, files[x])
      BY <1>2, <1>3, <2>1, <3>1 DEF Growing
    <3> QED  BY <1>1, <1>2, <1>11, <2>1, <3>2
  <2>2. CASE n # L + 1
    <3>1. n \in 1 .. L /\ x \in DOMAIN files \ s.used /\ x < s.job[n]
      BY <1>1, <1>2, <1>3, <2>2
    <3>2. PICK r \in Ranges : ~is_overlapping(r, files[x]) /\ \A k \in 1 .. n : Covers(r, files[s.job[k]])
      BY <1>1, <3>1 DEF Growing, JobOK, PassedOver
    <3>3. \A k \in 1 .. n : t.job[k] = s.job[k]
      BY <1>1, <1>3, <3>1
    <3> QED  BY <3>2, <3>3
  <2> QED  BY <2>1, <2>2
<1>13. InOrder(files, t.job)
  <2> SUFFICES ASSUME NEW m \in 1 .. L + 1, NEW n \in 1 .. m - 1, t.job[m] < t.job[n]
               PROVE  ~is_overlapping(files[t.job[m]], files[t.job[n]])
    BY <1>3 DEF InOrder
  <2>0. n \in 1 .. L /\ t.job[n] = s.job[n]
    BY <1>1, <1>3
  <2>1. CASE m = L + 1
    <3>1. s.i \in DOMAIN files \ s.used /\ start <= s.i /\ s.i < s.job[n]
      BY <1>1, <1>3, <1>8, <2>0, <2>1
    <3>2. PICK r \in Ranges : ~is_overlapping(r, files[s.i]) /\ \A k \in 1 .. n : Covers(r, files[s.job[k]])
      BY <1>1, <2>0, <3>1 DEF Growing, JobOK, PassedOver
    <3>3. Covers(r, files[s.job[n]])
      BY <2>0, <3>2
    <3>4. files[s.job[n]] \in Ranges
      BY <1>4, <1>6, <2>0
    <3>5. ~is_overlapping(files[s.job[n]], files[s.i])
      BY <1>4, <3>2, <3>3, <3>4, Overlapping
    <3> QED  BY <1>3, <1>4, <2>0, <2>1, <3>4, <3>5, Overlapping
  <2>2. CASE m # L + 1
    <3>1. m \in 1 .. L /\ t.job[m] = s.job[m]
      BY <1>1, <1>3, <2>2
    <3> QED  BY <1>1, <2>0, <3>1 DEF Growing, JobOK, InOrder
  <2> QED  BY <2>1, <2>2
<1>14. Connected(files, start, used, t.range)
  BY <1>2 DEF Growing, JobOK
<1>15. JobOK(files, start, used, t)
  BY <1>1, <1>2, <1>3, <1>7, <1>8, <1>9, <1>10, <1>11, <1>12, <1>13, <1>14 DEF JobOK
<1>16. Len(t.job) <= limit
  BY <1>1, <1>3 DEF Growing, L
<1> QED  BY <1>2, <1>3, <1>15, <1>16 DEF Grown, t, L

(* The range is extended, and the search starts again.                     *)
LEMMA Restarted ==
    ASSUME NEW files \in Seq(Ranges), NEW limit \in Nat, NEW start \in Nat, start + 1 \in DOMAIN files, NEW used,
           NEW s, Growing(files, limit, start, used, s), extends(files, s)
    PROVE  /\ Growing(files, limit, start, used, restart(files, s, start))
           /\ restart(files, s, start).range = extend_range(s.range, files[s.i])
           /\ spread(s.range) < spread(restart(files, s, start).range)
<1> DEFINE t == restart(files, s, start)
<1>1. /\ s \in GrowLocals(files) /\ s.i \in DOMAIN files /\ s.range \in Ranges /\ s.i \notin s.used
      /\ is_overlapping(s.range, files[s.i]) /\ extended_range(files, s) # s.range
  BY DEF Growing, GrowLocals, JobOK, extends, joins
<1>2. files[s.i] \in Ranges /\ \A x \in DOMAIN files : files[x] \in Ranges
  BY <1>1
<1> DEFINE r == extend_range(s.range, files[s.i])
<1>3. /\ r \in Ranges /\ r \in Int \X Int /\ r[1] <= s.range[1] /\ s.range[2] <= r[2]
      /\ spread(s.range) < spread(r)
      /\ \A h \in Ranges : ~is_overlapping(h, s.range) /\ ~is_overlapping(h, files[s.i]) => ~is_overlapping(h, r)
  BY <1>1, <1>2, ExtendedRange DEF extended_range
<1>4. t.i = start + 1 /\ t.range = r /\ t.job = s.job /\ t.used = s.used /\ t \in GrowLocals(files)
  BY <1>1, <1>3 DEF restart, extended_range, GrowLocals
<1> HIDE DEF t, r
<1>5. \A n \in DOMAIN s.job : Covers(r, files[s.job[n]])
  <2> TAKE n \in DOMAIN s.job
  <2>1. Covers(s.range, files[s.job[n]]) /\ files[s.job[n]] \in Ranges
    BY <1>2 DEF Growing, JobOK
  <2> DEFINE q == files[s.job[n]]
  <2>2. /\ q[1] \in Int /\ q[2] \in Int /\ s.range[1] \in Int /\ s.range[2] \in Int /\ r[1] \in Int /\ r[2] \in Int
        /\ s.range[1] <= q[1] /\ q[2] <= s.range[2]
    BY <1>1, <1>3, <2>1 DEF Covers, Ranges
  <2>3. r[1] <= q[1] /\ q[2] <= r[2]
    BY <1>3, <2>2
  <2> QED  BY <2>3 DEF Covers
<1>6. Connected(files, start, used, r)
  <2> SUFFICES ASSUME NEW h \in Ranges,
                      \A x \in DOMAIN files \ used : start <= x => ~is_overlapping(h, files[x])
               PROVE  ~is_overlapping(h, r)
    BY DEF Connected
  <2>1. ~is_overlapping(h, s.range)
    BY DEF Growing, JobOK, Connected
  <2>2. s.i \in DOMAIN files \ used /\ start <= s.i
    BY <1>1 DEF Growing, JobOK
  <2> QED  BY <1>3, <2>1, <2>2
<1>7. PassedOver(files, start, t)
  BY <1>4 DEF Growing, JobOK, PassedOver
<1>8. JobOK(files, start, used, t)
  BY <1>3, <1>4, <1>5, <1>6, <1>7 DEF Growing, JobOK
<1>9. \A x \in DOMAIN files : ~(start < x /\ x < start + 1)
  OBVIOUS
<1> QED  BY <1>3, <1>4, <1>8, <1>9 DEF Growing, t, r

(* What the loops of a job do in one turn is Growing again, and ends.      *)
LEMMA JobGrown ==
    ASSUME NEW files \in Seq(Ranges), NEW limit \in Nat \ {0, 1}, NEW min_merge,
           NEW start \in DOMAIN files, start + 1 \in DOMAIN files, NEW used \in SUBSET Nat, start \notin used
    PROVE  Grown(files, limit, start, used, grow_merge_job(files, limit, min_merge, start, used))
<1> DEFINE S == GrowLocals(files)
           N == Len(files)
           stop == {s \in S : \/ extends(files, s) /\ doubles(files, s, min_merge)
                              \/ ~extends(files, s) /\ ends(files, visit(files, s), limit)}
           out == [s \in S |-> IF extends(files, s) THEN s ELSE visit(files, s)]
           turn(s) == IF extends(files, s) THEN restart(files, s, start)
                      ELSE [visit(files, s) EXCEPT !.i = @ + 1]
           nxt == [s \in S |-> turn(s)]
           s0 == [i |-> start + 1, range |-> files[start], job |-> <<start>>, used |-> used \cup {start}]
           P(g) == g = [s \in S |->
               CASE extends(files, s) /\ doubles(files, s, min_merge) -> s
                 [] extends(files, s) /\ ~doubles(files, s, min_merge) -> g[restart(files, s, start)]
                 [] ~extends(files, s) /\ ends(files, visit(files, s), limit) -> visit(files, s)
                 [] OTHER -> g[[visit(files, s) EXCEPT !.i = @ + 1]]]
           Post == {s \in S : Grown(files, limit, start, used, s)}
<1>1. /\ N \in Nat /\ DOMAIN files = 1 .. N /\ start \in Nat /\ start >= 1 /\ start + 1 <= N
      /\ \A x \in DOMAIN files : files[x] \in Ranges
  OBVIOUS
<1>2. grow_merge_job(files, limit, min_merge, start, used) = (CHOOSE g : P(g))[s0]
  BY DEF grow_merge_job, GrowLocals
<1>3. ASSUME NEW s \in S
      PROVE  /\ visit(files, s) \in S /\ visit(files, s).i = s.i
             /\ extends(files, s) => restart(files, s, start) \in S
             /\ ~ends(files, visit(files, s), limit) => [visit(files, s) EXCEPT !.i = @ + 1] \in S
  <2> DEFINE v == visit(files, s)
             r == extended_range(files, s)
  <2>1. s.i \in 1 .. N /\ s.range \in Int \X Int /\ s.job \in Seq(Nat) /\ s.used \in SUBSET Nat
    BY <1>1 DEF GrowLocals
  <2>2. v \in S /\ v.i = s.i
    <3>1. add_file(s) \in S /\ add_file(s).i = s.i
      <4>1. Append(s.job, s.i) \in Seq(Nat) /\ s.used \cup {s.i} \in SUBSET Nat
        BY <2>1
      <4> QED  BY <1>1, <2>1, <4>1 DEF GrowLocals, add_file
    <3> QED  BY <3>1 DEF visit
  <2>3. r \in Int \X Int
    <3>1. files[s.i] \in Int \X Int /\ files[s.i][1] \in Int /\ files[s.i][2] \in Int
          /\ s.range[1] \in Int /\ s.range[2] \in Int
      BY <1>1, <2>1 DEF Ranges
    <3> QED  BY <3>1 DEF extended_range, extend_range
  <2>4. restart(files, s, start) \in S
    BY <1>1, <2>1, <2>3 DEF GrowLocals, restart
  <2>5. ~ends(files, v, limit) => [v EXCEPT !.i = @ + 1] \in S
    <3> HIDE DEF v
    <3>1. v.i \in 1 .. N
      BY <2>1, <2>2
    <3>2. ~ends(files, v, limit) => v.i + 1 \in 1 .. N
      BY <1>1, <3>1 DEF ends
    <3> QED  BY <1>1, <2>2, <3>2 DEF GrowLocals
  <2> QED  BY <2>2, <2>4, <2>5
<1>4. \A s \in S \ stop : nxt[s] \in S
  BY <1>3
<1>5. \E g : Loop(g, S, stop, out, nxt)
  <2> HIDE DEF S, stop, out, nxt
  <2> QED  BY <1>4, LoopExists
<1>6. ASSUME NEW g PROVE P(g) <=> Loop(g, S, stop, out, nxt)
  <2> DEFINE body(s) ==
               CASE extends(files, s) /\ doubles(files, s, min_merge) -> s
                 [] extends(files, s) /\ ~doubles(files, s, min_merge) -> g[restart(files, s, start)]
                 [] ~extends(files, s) /\ ends(files, visit(files, s), limit) -> visit(files, s)
                 [] OTHER -> g[[visit(files, s) EXCEPT !.i = @ + 1]]
             loop(s) == IF s \in stop THEN out[s] ELSE g[nxt[s]]
  <2>1. ASSUME NEW s \in S PROVE body(s) = loop(s)
    <3>1. s \in stop <=> \/ extends(files, s) /\ doubles(files, s, min_merge)
                         \/ ~extends(files, s) /\ ends(files, visit(files, s), limit)
      BY <2>1
    <3>2. out[s] = (IF extends(files, s) THEN s ELSE visit(files, s)) /\ nxt[s] = turn(s)
      BY <2>1
    <3> HIDE DEF stop, out, nxt, S
    <3>3. CASE extends(files, s) /\ doubles(files, s, min_merge)
      BY <3>1, <3>2, <3>3
    <3>4. CASE extends(files, s) /\ ~doubles(files, s, min_merge)
      BY <3>1, <3>2, <3>4
    <3>5. CASE ~extends(files, s) /\ ends(files, visit(files, s), limit)
      BY <3>1, <3>2, <3>5
    <3>6. CASE ~extends(files, s) /\ ~ends(files, visit(files, s), limit)
      BY <3>1, <3>2, <3>6
    <3> QED  BY <3>3, <3>4, <3>5, <3>6
  <2>2. [s \in S |-> body(s)] = [s \in S |-> loop(s)]
    <3> HIDE DEF body, loop, S
    <3> QED  BY <2>1
  <2>3. P(g) <=> g = [s \in S |-> body(s)]
    OBVIOUS
  <2>4. Loop(g, S, stop, out, nxt) <=> g = [s \in S |-> loop(s)]
    BY DEF Loop
  <2> HIDE DEF P, body, loop, S, stop, out, nxt
  <2> QED  BY <2>2, <2>3, <2>4
<1> DEFINE grow == CHOOSE g : P(g)
<1>7. Loop(grow, S, stop, out, nxt)
  <2>1. \E g : P(g)
    BY <1>5, <1>6
  <2>2. P(grow)
    <3> HIDE DEF P
    <3> QED  BY <2>1
  <2> HIDE DEF P, grow, S, stop, out, nxt
  <2> QED  BY <1>6, <2>2
<1>8. PICK lo \in Int, hi \in Int : \A x \in DOMAIN files : lo <= files[x][1] /\ files[x][2] <= hi
  <2>1. \A x \in DOMAIN files : files[x][1] \in Int /\ files[x][2] \in Int
    BY <1>1 DEF Ranges
  <2> DEFINE f1 == [x \in DOMAIN files |-> files[x][1]]
             f2 == [x \in DOMAIN files |-> files[x][2]]
             L == {files[x][1] : x \in DOMAIN files}
             H == {files[x][2] : x \in DOMAIN files}
  <2>2. IsFiniteSet(DOMAIN files)
    BY <1>1, FS_Interval
  <2>3. IsFiniteSet(L) /\ IsFiniteSet(H)
    <3>1. f1 \in Surjection(DOMAIN files, L) /\ f2 \in Surjection(DOMAIN files, H)
      BY DEF Surjection
    <3> HIDE DEF f1, f2, L, H
    <3> QED  BY <2>2, <3>1, FS_Surjection
  <2>4. L \subseteq Int /\ H \subseteq Int /\ L # {} /\ H # {}
    BY <1>1, <2>1
  <2>5. (Min(L) \in L /\ \A y \in L : Min(L) <= y) /\ (Max(H) \in H /\ \A y \in H : Max(H) >= y)
    <3> HIDE DEF L, H
    <3> QED  BY <2>3, <2>4, MinInSet, MaxInSet
  <2>6. \A x \in DOMAIN files : Min(L) <= files[x][1] /\ files[x][2] <= Max(H)
    <3> TAKE x \in DOMAIN files
    <3>1. files[x][1] \in L /\ files[x][2] \in H
      OBVIOUS
    <3>2. Max(H) \in Int /\ files[x][2] \in Int
      BY <2>1, <2>4, <2>5
    <3> HIDE DEF L, H
    <3> QED  BY <2>5, <3>1, <3>2
  <2> QED  BY <2>4, <2>5, <2>6
<1> DEFINE Inv == {s \in S : Growing(files, limit, start, used, s) /\ lo <= s.range[1] /\ s.range[2] <= hi}
           m == [s \in Inv |-> (hi - lo) - spread(s.range)]
           n == [s \in Inv |-> N - s.i]
<1>9. ASSUME NEW s \in Inv
      PROVE  /\ s.i \in 1 .. N /\ s.range \in Ranges /\ Growing(files, limit, start, used, s)
             /\ s.range[1] \in Int /\ s.range[2] \in Int /\ lo <= s.range[1] /\ s.range[2] <= hi
             /\ s.range[1] <= s.range[2] /\ spread(s.range) \in Nat
  <2>1. s.range \in Ranges /\ s.i \in 1 .. N
    BY <1>1 DEF Growing, GrowLocals, JobOK
  <2>2. s.range[1] \in Int /\ s.range[2] \in Int /\ s.range[1] <= s.range[2]
    BY <2>1 DEF Ranges
  <2>3. spread(s.range) \in Nat
    BY <2>2 DEF spread
  <2> QED  BY <2>1, <2>2, <2>3
<1>10. m \in [Inv -> Nat] /\ n \in [Inv -> Nat]
  <2>1. ASSUME NEW s \in Inv PROVE (hi - lo) - spread(s.range) \in Nat /\ N - s.i \in Nat
    <3> DEFINE a == s.range[1]
               b == s.range[2]
    <3>1. a \in Int /\ b \in Int /\ lo <= a /\ b <= hi /\ s.i \in 1 .. N /\ spread(s.range) = b - a
      BY <1>9 DEF spread
    <3> HIDE DEF a, b, N, Inv
    <3>2. (hi - lo) - (b - a) \in Nat
      BY <3>1
    <3>3. N - s.i \in Nat
      BY <1>1, <3>1
    <3> QED  BY <3>1, <3>2, <3>3
  <2> HIDE DEF Inv
  <2> QED  BY <2>1
<1>11. s0 \in Inv
  <2>1. files[start] \in Ranges /\ files[start] \in Int \X Int /\ <<start>> \in Seq(Nat)
    BY <1>1 DEF Ranges
  <2>2. s0 \in S
    BY <1>1, <2>1 DEF GrowLocals
  <2>3. /\ s0.i = start + 1 /\ s0.range = files[start] /\ s0.job = <<start>> /\ s0.used = used \cup {start}
        /\ DOMAIN s0.job = {1} /\ s0.job[1] = start /\ Len(s0.job) = 1 /\ s0.job # << >>
    OBVIOUS
  <2> HIDE DEF s0
  <2>4. ToSet(s0.job) = {start} /\ IsInjective(s0.job)
    BY <2>3 DEF ToSet, IsInjective
  <2>5. Covers(files[start], files[start])
    BY <2>1, Overlapping
  <2>6. PassedOver(files, start, s0)
    BY <1>1, <2>3 DEF PassedOver
  <2>7. InOrder(files, s0.job)
    BY <2>3 DEF InOrder
  <2>8. Connected(files, start, used, files[start])
    BY <1>1 DEF Connected
  <2>9. JobOK(files, start, used, s0)
    BY <1>1, <2>1, <2>3, <2>4, <2>5, <2>6, <2>7, <2>8 DEF JobOK
  <2>10. Growing(files, limit, start, used, s0)
    BY <1>1, <2>2, <2>3, <2>9 DEF Growing
  <2> QED  BY <1>8, <2>2, <2>3, <2>10
<1>12. ASSUME NEW s \in Inv, ~extends(files, s)
       PROVE  LET v == visit(files, s) IN
              /\ Grown(files, limit, start, used, v) /\ v \in S /\ v.i = s.i /\ v.range = s.range
              /\ ~ends(files, v, limit) => Growing(files, limit, start, used, [v EXCEPT !.i = @ + 1])
  <2> DEFINE v == visit(files, s)
             w == [v EXCEPT !.i = @ + 1]
  <2>1. v \in S /\ (~ends(files, v, limit) => w \in S)
    BY <1>3
  <2>2. /\ Grown(files, limit, start, used, v) /\ v.i = s.i /\ v.range = s.range
        /\ s.used \subseteq v.used
        /\ joins(files, s) => s.i \in v.used
    <3>1. CASE joins(files, s)
      <4>1. Growing(files, limit, start, used, s)
        BY <1>9
      <4>2. v = add_file(s)
        BY <3>1 DEF visit
      <4> HIDE DEF v, w, Inv, S
      <4> QED  BY <1>12, <3>1, <4>1, <4>2, FileAdded
    <3>2. CASE ~joins(files, s)
      <4>1. v = s
        BY <3>2 DEF visit
      <4>2. Growing(files, limit, start, used, s) /\ Len(s.job) \in Nat
        BY <1>9 DEF Growing, GrowLocals
      <4> HIDE DEF v, w, Inv, S
      <4> QED  BY <3>2, <4>1, <4>2 DEF Grown, Growing
    <3> QED  BY <3>1, <3>2
  <2>3. ASSUME ~ends(files, v, limit) PROVE Growing(files, limit, start, used, w)
    <3>1. /\ w \in S /\ w.i = s.i + 1 /\ w.range = s.range /\ w.job = v.job /\ w.used = v.used
      BY <2>1, <2>2, <2>3 DEF GrowLocals
    <3> HIDE DEF v, w
    <3>2. JobOK(files, start, used, w)
      BY <2>2, <3>1 DEF Grown, JobOK, PassedOver
    <3>3. start < w.i /\ Len(w.job) < limit
      <4>1. start < s.i
        BY <1>9 DEF Growing
      <4>2. Len(v.job) \in Nat
        BY <2>1 DEF GrowLocals
      <4> QED  BY <1>1, <1>9, <2>3, <3>1, <4>1, <4>2 DEF ends, job_is_full
    <3>4. ASSUME NEW x \in DOMAIN files \ w.used, start < x, x < w.i PROVE ~is_overlapping(w.range, files[x])
      <4>1. CASE x < s.i
        BY <1>9, <2>2, <3>1, <3>4, <4>1 DEF Growing
      <4>2. CASE x = s.i
        BY <2>2, <3>1, <3>4, <4>2 DEF joins
      <4> QED  BY <1>1, <1>9, <3>1, <3>4, <4>1, <4>2
    <3> QED  BY <3>1, <3>2, <3>3, <3>4 DEF Growing
  <2> QED  BY <2>1, <2>2, <2>3
<1>13. \A s \in Inv : s \in stop => out[s] \in Post
  <2> SUFFICES ASSUME NEW s \in Inv, s \in stop PROVE out[s] \in Post
    OBVIOUS
  <2>1. CASE extends(files, s)
    <3>1. out[s] = s /\ s \in S
      BY <2>1
    <3>2. Len(s.job) \in Nat
      BY <3>1 DEF GrowLocals
    <3>3. Grown(files, limit, start, used, s)
      BY <1>9, <3>2 DEF Grown, Growing
    <3> QED  BY <3>1, <3>3
  <2>2. CASE ~extends(files, s)
    <3>1. out[s] = visit(files, s)
      BY <2>2
    <3>2. Grown(files, limit, start, used, visit(files, s)) /\ visit(files, s) \in S
      BY <1>12, <2>2
    <3> QED  BY <3>1, <3>2
  <2> QED  BY <2>1, <2>2
<1>14. \A s \in Inv : s \notin stop =>
           /\ nxt[s] \in Inv
           /\ m[nxt[s]] < m[s] \/ (m[nxt[s]] = m[s] /\ n[nxt[s]] < n[s])
  <2> SUFFICES ASSUME NEW s \in Inv, s \notin stop
               PROVE  /\ nxt[s] \in Inv
                      /\ m[nxt[s]] < m[s] \/ (m[nxt[s]] = m[s] /\ n[nxt[s]] < n[s])
    OBVIOUS
  <2>1. s \in S /\ nxt[s] = turn(s)
    OBVIOUS
  <2>2. CASE extends(files, s)
    <3> DEFINE t == restart(files, s, start)
    <3>1. nxt[s] = t /\ t \in S
      BY <1>3, <2>1, <2>2
    <3>2. /\ Growing(files, limit, start, used, t) /\ t.range = extend_range(s.range, files[s.i])
          /\ spread(s.range) < spread(t.range)
      <4>1. Growing(files, limit, start, used, s)
        BY <1>9
      <4> HIDE DEF t, Inv, S, stop
      <4> QED  BY <1>1, <2>2, <4>1, Restarted DEF t
    <3>3. t.range[1] \in {s.range[1], files[s.i][1]} /\ t.range[2] \in {s.range[2], files[s.i][2]}
      <4>1. s.range \in Ranges /\ files[s.i] \in Ranges
        BY <1>1, <1>9
      <4> HIDE DEF t
      <4> QED  BY <3>2, <4>1, ExtendedRange
    <3> HIDE DEF t
    <3>4. t \in Inv
      <4>1. lo <= files[s.i][1] /\ files[s.i][2] <= hi
        BY <1>1, <1>8, <1>9
      <4> QED  BY <1>9, <3>1, <3>2, <3>3, <4>1
    <3>5. m[t] = (hi - lo) - spread(t.range) /\ m[s] = (hi - lo) - spread(s.range)
      BY <3>4
    <3>6. spread(t.range) \in Nat /\ spread(s.range) \in Nat
      BY <1>9, <3>4
    <3>7. m[t] < m[s]
      BY <1>8, <3>2, <3>5, <3>6
    <3> QED  BY <3>1, <3>4, <3>7
  <2>3. CASE ~extends(files, s)
    <3> DEFINE v == visit(files, s)
               w == [v EXCEPT !.i = @ + 1]
    <3>1. ~ends(files, v, limit) /\ nxt[s] = w
      BY <2>1, <2>3
    <3>2. Growing(files, limit, start, used, w) /\ v.i = s.i /\ v.range = s.range /\ v \in S
      BY <1>12, <2>3, <3>1
    <3>3. w.i = s.i + 1 /\ w.range = s.range
      BY <3>2 DEF GrowLocals
    <3>4. w \in S
      BY <3>2 DEF Growing
    <3> HIDE DEF v, w
    <3>5. w \in Inv
      BY <1>9, <3>2, <3>3, <3>4
    <3>6. m[w] = m[s] /\ n[w] = N - w.i /\ n[s] = N - s.i
      BY <3>3, <3>5
    <3>7. n[w] < n[s]
      BY <1>1, <1>9, <3>3, <3>6
    <3> QED  BY <3>1, <3>5, <3>6, <3>7
  <2> QED  BY <2>2, <2>3
<1>15. grow[s0] \in Post
  <2>1. Inv \in SUBSET S
    OBVIOUS
  <2> HIDE DEF Inv, Post, S, stop, out, nxt, m, n, grow, s0
  <2>2. \A s \in Inv : grow[s] \in Post
    <3>1. EndsIn(Inv, stop, out, Post) /\ Descends(Inv, stop, nxt, m, n)
      BY <1>10, <1>13, <1>14 DEF EndsIn, Descends
    <3>2. Loop(grow, S, stop, out, nxt)
      BY <1>7
    <3> QED  BY <2>1, <3>1, <3>2, LoopHolds
  <2> QED  BY <1>11, <2>2
<1> QED  BY <1>2, <1>15

-----------------------------------------------------------------------------
(* All jobs of a selection.                                                *)

(* The hull of a job covers its files, and is covered by what covers them. *)
LEMMA HullCovers ==
    ASSUME NEW files \in Seq(Ranges), NEW picked \in Seq(Nat), picked # << >>,
           \A n \in DOMAIN picked : picked[n] \in DOMAIN files
    PROVE  LET H == hull(files, picked) IN
           /\ H \in Ranges
           /\ \A x \in ToSet(picked) : Covers(H, files[x])
           /\ \A r \in Ranges : (\A n \in DOMAIN picked : Covers(r, files[picked[n]])) => Covers(r, H)
<1> DEFINE X == ToSet(picked)
           f1 == [x \in X |-> files[x][1]]
           f2 == [x \in X |-> files[x][2]]
           L == {files[x][1] : x \in X}
           T == {files[x][2] : x \in X}
           H == hull(files, picked)
<1>1. /\ Len(picked) \in Nat /\ Len(picked) # 0 /\ DOMAIN picked = 1 .. Len(picked)
      /\ \A x \in DOMAIN files : files[x] \in Ranges
  OBVIOUS
<1>2. /\ X # {} /\ IsFiniteSet(X)
      /\ \A x \in X : x \in DOMAIN files /\ \E n \in DOMAIN picked : x = picked[n]
  <2>1. 1 \in DOMAIN picked
    BY <1>1
  <2>2. picked[1] \in X
    BY <2>1 DEF ToSet
  <2>3. picked \in Surjection(DOMAIN picked, X)
    BY <1>1 DEF Surjection, ToSet
  <2>4. IsFiniteSet(DOMAIN picked)
    BY <1>1, FS_Interval
  <2>5. IsFiniteSet(X)
    <3> HIDE DEF X
    <3> QED  BY <2>3, <2>4, FS_Surjection
  <2> QED  BY <2>2, <2>5 DEF ToSet
<1> HIDE DEF X
<1>3. \A x \in X : files[x][1] \in Int /\ files[x][2] \in Int /\ files[x][1] <= files[x][2]
  <2> TAKE x \in X
  <2>1. files[x] \in Ranges
    BY <1>1, <1>2
  <2> QED  BY <2>1 DEF Ranges
<1>4. L \subseteq Int /\ T \subseteq Int /\ L # {} /\ T # {} /\ IsFiniteSet(L) /\ IsFiniteSet(T)
  <2>1. f1 \in Surjection(X, L) /\ f2 \in Surjection(X, T)
    BY DEF Surjection
  <2>2. IsFiniteSet(L) /\ IsFiniteSet(T)
    <3> HIDE DEF f1, f2, L, T
    <3> QED  BY <1>2, <2>1, FS_Surjection
  <2> QED  BY <1>2, <1>3, <2>2
<1>5. Min(L) \in L /\ (\A y \in L : Min(L) <= y) /\ Max(T) \in T /\ (\A y \in T : Max(T) >= y)
  <2> HIDE DEF L, T
  <2> QED  BY <1>4, MinInSet, MaxInSet
<1>6. H = <<Min(L), Max(T)>>
  BY DEF hull, X
<1>7. PICK a \in X, b \in X : Min(L) = files[a][1] /\ Max(T) = files[b][2]
  BY <1>5
<1>8. \A x \in X : Min(L) <= files[x][1] /\ files[x][2] <= Max(T)
  <2> TAKE x \in X
  <2>1. files[x][1] \in L /\ files[x][2] \in T
    OBVIOUS
  <2> HIDE DEF L, T
  <2>2. Max(T) \in Int /\ files[x][2] \in Int
    BY <1>3, <1>4, <1>5
  <2> QED  BY <1>5, <2>1, <2>2
<1> HIDE DEF L, T, H
<1>9. H[1] = files[a][1] /\ H[2] = files[b][2] /\ H = <<H[1], H[2]>>
  BY <1>6, <1>7
<1>10. H \in Ranges
  <2>1. H[1] \in Int /\ H[2] \in Int /\ H[1] <= H[2]
    <3>1. files[a][1] <= files[a][2] /\ files[a][2] <= files[b][2]
      BY <1>3, <1>7, <1>8
    <3> QED  BY <1>3, <1>9, <3>1
  <2> QED  BY <1>9, <2>1 DEF Ranges
<1>11. \A x \in X : Covers(H, files[x])
  BY <1>7, <1>8, <1>9 DEF Covers
<1>12. ASSUME NEW r \in Ranges, \A n \in DOMAIN picked : Covers(r, files[picked[n]]) PROVE Covers(r, H)
  <2>1. Covers(r, files[a]) /\ Covers(r, files[b])
    BY <1>2, <1>12
  <2> QED  BY <1>9, <2>1 DEF Covers
<1> QED  BY <1>10, <1>11, <1>12 DEF H, X

SelectLocals == [used : SUBSET Nat, merge : Seq(Seq(Nat)), move : SUBSET Nat, offset : Nat]

(* A job that was taken.                                                   *)
Taken(files, limit, s, picked) ==
    /\ Len(picked) \in 2 .. limit
    /\ IsInjective(picked)
    /\ ToSet(picked) \subseteq s.used \ s.move
    /\ InOrder(files, picked)

(* A file that overlaps a file of the job and is newer moves with it.      *)
Follows(files, s, picked) ==
    \A a \in ToSet(picked) : \A f \in DOMAIN files :
        f > a /\ is_overlapping(files[f], files[a]) => f \in s.move \/ f \in ToSet(picked)

(* The jobs taken so far are apart from each other and from the files that *)
(* are free; and a free file does not overlap a newer one that was in a    *)
(* job that was skipped.                                                   *)
Selected(files, limit, start_index, s) ==
    /\ s \in SelectLocals
    /\ s.used \subseteq start_index .. Len(files)
    /\ s.move \subseteq s.used
    /\ s.move # {} => s.offset \in start_index + 1 .. Len(files)
    /\ \A j \in DOMAIN s.merge : Taken(files, limit, s, s.merge[j])
    /\ \A i, j \in DOMAIN s.merge : i # j => ~is_overlapping(hull(files, s.merge[i]), hull(files, s.merge[j]))
    /\ \A j \in DOMAIN s.merge : \A x \in unused(files, start_index, s) :
          ~is_overlapping(hull(files, s.merge[j]), files[x])
    /\ \A j \in DOMAIN s.merge : Follows(files, s, s.merge[j])
    /\ \A y \in s.used \ s.move : (\A j \in DOMAIN s.merge : y \notin ToSet(s.merge[j])) =>
          \A a \in unused(files, start_index, s) : a < y => ~is_overlapping(files[a], files[y])

(* A job that was taken has a hull.                                        *)
LEMMA TakenHull ==
    ASSUME NEW files \in Seq(Ranges), NEW limit \in Nat, NEW start_index \in Nat \ {0}, NEW s,
           Selected(files, limit, start_index, s), NEW j \in DOMAIN s.merge
    PROVE  LET H == hull(files, s.merge[j]) IN
           H \in Ranges /\ \A x \in ToSet(s.merge[j]) : Covers(H, files[x]) /\ x \in DOMAIN files
<1> DEFINE picked == s.merge[j]
<1>1. picked \in Seq(Nat)
  BY DEF Selected, SelectLocals
<1>2. picked # << >> /\ ToSet(picked) \subseteq start_index .. Len(files)
  BY <1>1 DEF Selected, Taken
<1>3. start_index .. Len(files) \subseteq DOMAIN files
  OBVIOUS
<1>4. \A n \in DOMAIN picked : picked[n] \in DOMAIN files
  BY <1>2, <1>3 DEF ToSet
<1> HIDE DEF picked
<1>5. hull(files, picked) \in Ranges /\ \A x \in ToSet(picked) : Covers(hull(files, picked), files[x])
  BY <1>1, <1>2, <1>4, HullCovers
<1> QED  BY <1>2, <1>3, <1>5 DEF picked

(* What a file of a job that was found overlaps.                           *)
Apart(files, start, used, g) ==
    LET H == hull(files, g.job) IN
    /\ g.job \in Seq(Nat) /\ g.job # << >> /\ Len(g.job) \in Nat /\ DOMAIN g.job = 1 .. Len(g.job)
    /\ g.used = used \cup ToSet(g.job)
    /\ ToSet(g.job) \subseteq DOMAIN files \ used /\ start \in ToSet(g.job)
    /\ \A x \in ToSet(g.job) : start <= x
    /\ Last(g.job) \in ToSet(g.job)
    /\ H \in Ranges /\ \A x \in ToSet(g.job) : Covers(H, files[x])
    /\ \A x \in DOMAIN files \ g.used : \A y \in ToSet(g.job) :
         start <= x /\ x < y => ~is_overlapping(files[y], files[x])
    /\ \A x \in DOMAIN files \ g.used : start <= x /\ x < Last(g.job) => ~is_overlapping(H, files[x])
    /\ \A h \in Ranges : (\A x \in DOMAIN files \ used : start <= x => ~is_overlapping(h, files[x]))
         => ~is_overlapping(h, H)

LEMMA GrownApart ==
    ASSUME NEW files \in Seq(Ranges), NEW limit \in Nat, NEW start \in DOMAIN files, NEW used \in SUBSET Nat,
           NEW g, Grown(files, limit, start, used, g)
    PROVE  Apart(files, start, used, g)
<1> DEFINE H == hull(files, g.job)
           L == Len(g.job)
<1>1. g.job \in Seq(Nat) /\ g.job # << >> /\ L \in Nat /\ DOMAIN g.job = 1 .. L /\ L \in 1 .. L /\ 1 \in 1 .. L
  BY DEF Grown, GrowLocals, JobOK
<1>2. /\ g.job[1] = start /\ g.range \in Ranges
      /\ \A n \in 1 .. L : g.job[n] \in DOMAIN files \ used /\ start <= g.job[n] /\ Covers(g.range, files[g.job[n]])
      /\ g.used = used \cup ToSet(g.job)
  BY <1>1 DEF Grown, JobOK
<1>3. /\ ToSet(g.job) = {g.job[n] : n \in 1 .. L} /\ Last(g.job) = g.job[L]
      /\ \A x \in DOMAIN files : files[x] \in Ranges
  BY <1>1 DEF ToSet, Last
<1> HIDE DEF L
<1>4. /\ ToSet(g.job) \subseteq DOMAIN files \ used /\ start \in ToSet(g.job)
      /\ \A x \in ToSet(g.job) : start <= x
      /\ Last(g.job) \in ToSet(g.job)
  BY <1>1, <1>2, <1>3
<1>5. /\ H \in Ranges /\ \A x \in ToSet(g.job) : Covers(H, files[x])
      /\ \A r \in Ranges : (\A n \in 1 .. L : Covers(r, files[g.job[n]])) => Covers(r, H)
  <2>1. \A n \in DOMAIN g.job : g.job[n] \in DOMAIN files
    BY <1>1, <1>2
  <2> QED  BY <1>1, <2>1, HullCovers
<1> HIDE DEF H
<1>6. ASSUME NEW x \in DOMAIN files \ g.used, NEW y \in ToSet(g.job), start <= x, x < y
      PROVE  ~is_overlapping(files[y], files[x])
  <2>1. PICK n \in 1 .. L : y = g.job[n]
    BY <1>3
  <2>2. PICK r \in Ranges : ~is_overlapping(r, files[x]) /\ \A k \in 1 .. n : Covers(r, files[g.job[k]])
    BY <1>1, <1>6, <2>1 DEF Grown, JobOK, PassedOver
  <2>3. n \in 1 .. n
    OBVIOUS
  <2>4. Covers(r, files[y]) /\ files[y] \in Ranges /\ files[x] \in Ranges
    BY <1>2, <1>3, <2>1, <2>2, <2>3
  <2> QED  BY <2>2, <2>4, Overlapping
<1>7. ASSUME NEW x \in DOMAIN files \ g.used, start <= x, x < Last(g.job) PROVE ~is_overlapping(H, files[x])
  <2>1. PICK r \in Ranges : ~is_overlapping(r, files[x]) /\ \A k \in 1 .. L : Covers(r, files[g.job[k]])
    BY <1>1, <1>3, <1>7 DEF Grown, JobOK, PassedOver
  <2>2. Covers(r, H)
    BY <1>5, <2>1
  <2> QED  BY <1>3, <1>5, <2>1, <2>2, Overlapping
<1>8. ASSUME NEW h \in Ranges, \A x \in DOMAIN files \ used : start <= x => ~is_overlapping(h, files[x])
      PROVE  ~is_overlapping(h, H)
  <2>1. ~is_overlapping(h, g.range)
    BY <1>8 DEF Grown, JobOK, Connected
  <2>2. Covers(g.range, H)
    BY <1>2, <1>5
  <2> QED  BY <1>2, <1>5, <2>1, <2>2, Overlapping
<1> QED  BY <1>1, <1>2, <1>4, <1>5, <1>6, <1>7, <1>8 DEF Apart, H, L

(* The next job starts at the first of the free files.                     *)
StartsAt(files, start_index, s, start) ==
    /\ start \in unused(files, start_index, s)
    /\ \A x \in unused(files, start_index, s) : start <= x

(* The files of the next job are free, and after it there are less.        *)
LEMMA JobFiles ==
    ASSUME NEW files \in Seq(Ranges), NEW limit \in Nat, NEW start_index \in Nat \ {0}, NEW s,
           Selected(files, limit, start_index, s), NEW start, StartsAt(files, start_index, s, start),
           NEW g, Grown(files, limit, start, s.used, g)
    PROVE  /\ start \in DOMAIN files /\ start \in Nat /\ start_index <= start
           /\ \A x \in DOMAIN files \ s.used : start <= x => x \in unused(files, start_index, s)
           /\ ToSet(g.job) \subseteq unused(files, start_index, s)
           /\ unused(files, start_index, s) \subseteq DOMAIN files /\ unused(files, start_index, s) \subseteq Nat
           /\ \A u : \A x \in (start_index .. Len(files)) \ (g.used \cup u) :
                x \in unused(files, start_index, s) /\ x \in DOMAIN files \ g.used /\ start <= x /\ x \notin u
           /\ g.used \subseteq start_index .. Len(files)
<1>1. start_index .. Len(files) \subseteq DOMAIN files /\ DOMAIN files = 1 .. Len(files) /\ Len(files) \in Nat
  OBVIOUS
<1>2. start \in DOMAIN files /\ start \in Nat /\ start_index <= start
  BY <1>1 DEF StartsAt, unused
<1>3. s.used \in SUBSET Nat /\ s.used \subseteq start_index .. Len(files)
  BY DEF Selected, SelectLocals
<1>4. /\ g.used = s.used \cup ToSet(g.job) /\ ToSet(g.job) \subseteq DOMAIN files \ s.used
      /\ \A x \in ToSet(g.job) : start <= x
  <2>1. Apart(files, start, s.used, g)
    BY <1>2, <1>3, GrownApart
  <2> QED  BY <2>1 DEF Apart
<1>5. \A x \in DOMAIN files \ s.used : start <= x => x \in unused(files, start_index, s)
  BY <1>1, <1>2 DEF unused
<1>6. ToSet(g.job) \subseteq unused(files, start_index, s)
  BY <1>4, <1>5
<1>7. unused(files, start_index, s) \subseteq DOMAIN files /\ unused(files, start_index, s) \subseteq Nat
      /\ unused(files, start_index, s) \subseteq start_index .. Len(files)
  BY <1>1 DEF unused
<1>8. \A u : \A x \in (start_index .. Len(files)) \ (g.used \cup u) :
          x \in unused(files, start_index, s) /\ x \in DOMAIN files \ g.used /\ start <= x /\ x \notin u
  BY <1>1, <1>4 DEF unused, StartsAt
<1> QED  BY <1>2, <1>3, <1>4, <1>5, <1>6, <1>7, <1>8

(* A job that is skipped leaves its files used: no free file before one of *)
(* them overlaps it.                                                       *)
LEMMA JobSkipped ==
    ASSUME NEW files \in Seq(Ranges), NEW limit \in Nat, NEW start_index \in Nat \ {0}, NEW s,
           Selected(files, limit, start_index, s), NEW start, StartsAt(files, start_index, s, start),
           NEW g, Grown(files, limit, start, s.used, g)
    PROVE  Selected(files, limit, start_index, [s EXCEPT !.used = g.used])
<1> DEFINE t == [s EXCEPT !.used = g.used]
           F == unused(files, start_index, s)
<1>1. /\ start \in DOMAIN files /\ s.used \in SUBSET Nat /\ s \in SelectLocals
      /\ \A x \in DOMAIN files : files[x] \in Ranges
  <2>1. start \in DOMAIN files /\ start \in Nat /\ start_index <= start
    BY JobFiles
  <2>2. s \in SelectLocals
    BY DEF Selected
  <2> QED  BY <2>1, <2>2 DEF SelectLocals
<1>2. /\ g.used = s.used \cup ToSet(g.job)
      /\ ToSet(g.job) \subseteq DOMAIN files \ s.used
      /\ \A x \in DOMAIN files \ g.used : \A y \in ToSet(g.job) :
           start <= x /\ x < y => ~is_overlapping(files[y], files[x])
  <2>1. Apart(files, start, s.used, g)
    BY <1>1, GrownApart
  <2> QED  BY <2>1 DEF Apart
<1>3. g.used \subseteq start_index .. Len(files) /\ g.used \in SUBSET Nat
      /\ unused(files, start_index, t) = (start_index .. Len(files)) \ (g.used \cup {})
      /\ \A x \in unused(files, start_index, t) : x \in F /\ x \in DOMAIN files \ g.used /\ start <= x
  <2>1. g.used \subseteq start_index .. Len(files)
    BY JobFiles
  <2>2. t.used = g.used
    BY <1>1 DEF SelectLocals
  <2>3. unused(files, start_index, t) = (start_index .. Len(files)) \ (g.used \cup {})
    BY <2>2 DEF unused
  <2>4. \A x \in unused(files, start_index, t) : x \in F /\ x \in DOMAIN files \ g.used /\ start <= x
    BY <2>3, JobFiles
  <2> QED  BY <2>1, <2>3, <2>4
<1>4. t.used = g.used /\ t.merge = s.merge /\ t.move = s.move /\ t.offset = s.offset /\ t \in SelectLocals
  BY <1>1, <1>3 DEF SelectLocals
<1> HIDE DEF t, F
<1>5. t.move \subseteq t.used /\ (t.move # {} => t.offset \in start_index + 1 .. Len(files))
  BY <1>2, <1>4 DEF Selected
<1>6. \A j \in DOMAIN t.merge : Taken(files, limit, t, t.merge[j])
  BY <1>2, <1>4 DEF Selected, Taken
<1>7. \A i, j \in DOMAIN t.merge : i # j => ~is_overlapping(hull(files, t.merge[i]), hull(files, t.merge[j]))
  BY <1>4 DEF Selected
<1>8. \A j \in DOMAIN t.merge : \A x \in unused(files, start_index, t) :
          ~is_overlapping(hull(files, t.merge[j]), files[x])
  BY <1>3, <1>4 DEF Selected, F
<1>9. \A j \in DOMAIN t.merge : Follows(files, t, t.merge[j])
  BY <1>4 DEF Selected, Follows
<1>10. ASSUME NEW y \in t.used \ t.move, \A j \in DOMAIN t.merge : y \notin ToSet(t.merge[j]),
              NEW a \in unused(files, start_index, t), a < y
       PROVE  ~is_overlapping(files[a], files[y])
  <2>1. CASE y \in s.used
    BY <1>3, <1>4, <1>10, <2>1 DEF Selected, F
  <2>2. CASE y \in ToSet(g.job)
    <3>1. ~is_overlapping(files[y], files[a])
      BY <1>2, <1>3, <1>10, <2>2
    <3>2. files[y] \in Ranges /\ files[a] \in Ranges
      BY <1>1, <1>2, <1>3, <2>2
    <3> QED  BY <3>1, <3>2, Overlapping
  <2> QED  BY <1>2, <1>4, <2>1, <2>2
<1>11. Selected(files, limit, start_index, t)
  BY <1>3, <1>4, <1>5, <1>6, <1>7, <1>8, <1>9, <1>10 DEF Selected
<1> QED  BY <1>11 DEF t

(* A job that is taken, and the files that move.                           *)
LEMMA JobMerged ==
    ASSUME NEW files \in Seq(Ranges), NEW limit \in Nat, NEW start_index \in Nat \ {0}, NEW s,
           Selected(files, limit, start_index, s), NEW start, StartsAt(files, start_index, s, start),
           NEW g, Grown(files, limit, start, s.used, g), Len(g.job) >= 2
    PROVE  Selected(files, limit, start_index, take_job(s, g, files_to_move(files, g.job, g.used)))
<1> DEFINE moved == files_to_move(files, g.job, g.used)
           t == take_job(s, g, moved)
           F == unused(files, start_index, s)
           J == ToSet(g.job)
           H == hull(files, g.job)
           K == Len(s.merge)
<1>1. /\ start \in DOMAIN files /\ start \in Nat /\ start_index <= start
      /\ s.used \in SUBSET Nat /\ s.move \in SUBSET Nat /\ s.merge \in Seq(Seq(Nat)) /\ s.offset \in Nat
      /\ \A x \in DOMAIN files : files[x] \in Ranges
  <2>1. start \in DOMAIN files /\ start \in Nat /\ start_index <= start
    BY JobFiles
  <2>2. s \in SelectLocals
    BY DEF Selected
  <2> QED  BY <2>1, <2>2 DEF SelectLocals
<1>2. /\ g.job \in Seq(Nat) /\ g.used = s.used \cup J /\ H \in Ranges
      /\ J \subseteq DOMAIN files \ s.used /\ start \in J
      /\ Last(g.job) \in J /\ \A x \in J : start <= x
      /\ \A x \in J : Covers(H, files[x])
      /\ \A x \in DOMAIN files \ g.used : start <= x /\ x < Last(g.job) => ~is_overlapping(H, files[x])
      /\ \A h \in Ranges : (\A x \in DOMAIN files \ s.used : start <= x => ~is_overlapping(h, files[x]))
            => ~is_overlapping(h, H)
  <2>1. Apart(files, start, s.used, g)
    BY <1>1, GrownApart
  <2> QED  BY <2>1 DEF Apart
<1>3. /\ \A x \in DOMAIN files \ s.used : start <= x => x \in F
      /\ J \subseteq F /\ F \subseteq DOMAIN files
      /\ \A x \in (start_index .. Len(files)) \ (g.used \cup moved) :
            x \in F /\ x \in DOMAIN files \ g.used /\ start <= x /\ x \notin moved
      /\ g.used \subseteq start_index .. Len(files)
  <2> HIDE DEF moved
  <2> QED  BY JobFiles
<1>4. /\ moved \subseteq DOMAIN files \ g.used /\ moved \subseteq start + 1 .. Len(files)
      /\ IsFiniteSet(moved)
      /\ \A x \in DOMAIN files \ g.used : x > Last(g.job) /\ x \notin moved => ~is_overlapping(H, files[x])
  <2>1. moved \subseteq DOMAIN files \ g.used
    BY DEF files_to_move
  <2>2. IsFiniteSet(DOMAIN files)
    BY FS_Interval
  <2>3. IsFiniteSet(moved)
    <3> HIDE DEF moved
    <3> QED  BY <2>1, <2>2, FS_Subset
  <2>4. \A x \in moved : x \in start + 1 .. Len(files)
    <3> TAKE x \in moved
    <3>1. x > Last(g.job) /\ x \in DOMAIN files /\ start <= Last(g.job) /\ Last(g.job) \in DOMAIN files
      BY <1>2 DEF files_to_move
    <3> QED  BY <1>1, <3>1
  <2> QED  BY <2>1, <2>3, <2>4 DEF files_to_move
<1> HIDE DEF moved, F, J, H, K
<1>5. /\ t.used = g.used \cup moved /\ t.merge = Append(s.merge, g.job) /\ t.move = s.move \cup moved
      /\ t.offset = IF s.move = {} /\ moved # {} THEN Min(moved) ELSE s.offset
  BY DEF take_job
<1>6. /\ K \in Nat /\ DOMAIN s.merge = 1 .. K /\ DOMAIN t.merge = 1 .. K + 1 /\ t.merge[K + 1] = g.job
      /\ \A j \in 1 .. K : t.merge[j] = s.merge[j]
      /\ t.merge \in Seq(Seq(Nat))
      /\ \A j \in 1 .. K + 1 : j \in 1 .. K \/ j = K + 1
  BY <1>1, <1>2, <1>5 DEF K
<1>7. moved # {} => Min(moved) \in moved
  BY <1>4, MinInSet
<1>8. t \in SelectLocals /\ t.used \subseteq start_index .. Len(files)
  <2>1. moved \subseteq start_index .. Len(files)
    BY <1>1, <1>4
  <2>2. start_index .. Len(files) \subseteq Nat
    OBVIOUS
  <2>3. t.used \subseteq Nat /\ t.move \subseteq Nat /\ t.offset \in Nat
    BY <1>1, <1>3, <1>5, <1>7, <2>1, <2>2
  <2>4. t = [used |-> t.used, merge |-> t.merge, move |-> t.move, offset |-> t.offset]
    BY DEF take_job
  <2> HIDE DEF t
  <2> QED  BY <1>3, <1>5, <1>6, <2>1, <2>3, <2>4 DEF SelectLocals
<1> HIDE DEF t
<1>9. unused(files, start_index, t) = (start_index .. Len(files)) \ (g.used \cup moved)
  BY <1>5 DEF unused
<1>10. t.move \subseteq t.used /\ (t.move # {} => t.offset \in start_index + 1 .. Len(files))
  <2>1. s.move \subseteq s.used /\ (s.move # {} => s.offset \in start_index + 1 .. Len(files))
    BY DEF Selected
  <2>2. moved \subseteq start_index + 1 .. Len(files)
    BY <1>1, <1>4
  <2> QED  BY <1>2, <1>5, <1>7, <2>1, <2>2
<1>11. /\ s.move \cap J = {} /\ moved \cap J = {} /\ moved \cap s.used = {}
       /\ s.used \subseteq t.used /\ J \subseteq t.used
  BY <1>2, <1>4, <1>5 DEF Selected
<1>12. \A j \in 1 .. K + 1 : Taken(files, limit, t, t.merge[j])
  <2>1. Taken(files, limit, t, g.job)
    <3>1. Len(g.job) \in 2 .. limit
      BY <1>2 DEF Grown
    <3>2. IsInjective(g.job) /\ InOrder(files, g.job)
      BY DEF Grown, JobOK
    <3> QED  BY <1>5, <1>11, <3>1, <3>2 DEF Taken, J
  <2>2. \A j \in 1 .. K : Taken(files, limit, t, s.merge[j])
    BY <1>5, <1>6, <1>11 DEF Selected, Taken
  <2> QED  BY <1>6, <2>1, <2>2
<1>13. \A j \in 1 .. K : ~is_overlapping(hull(files, s.merge[j]), H) /\ hull(files, s.merge[j]) \in Ranges
  <2> TAKE j \in 1 .. K
  <2>1. hull(files, s.merge[j]) \in Ranges
    BY <1>6, TakenHull
  <2>2. \A x \in F : ~is_overlapping(hull(files, s.merge[j]), files[x])
    BY <1>6 DEF Selected, F
  <2> QED  BY <1>2, <1>3, <2>1, <2>2
<1>14. \A i, j \in 1 .. K + 1 : i # j => ~is_overlapping(hull(files, t.merge[i]), hull(files, t.merge[j]))
  <2> SUFFICES ASSUME NEW i \in 1 .. K + 1, NEW j \in 1 .. K + 1, i # j
               PROVE  ~is_overlapping(hull(files, t.merge[i]), hull(files, t.merge[j]))
    OBVIOUS
  <2>1. CASE i \in 1 .. K /\ j \in 1 .. K
    BY <1>6, <2>1 DEF Selected
  <2>2. CASE i \in 1 .. K /\ j = K + 1
    BY <1>6, <1>13, <2>2 DEF H
  <2>3. CASE i = K + 1 /\ j \in 1 .. K
    <3>1. ~is_overlapping(H, hull(files, s.merge[j]))
      BY <1>2, <1>13, <2>3, Overlapping
    <3> QED  BY <1>6, <2>3, <3>1 DEF H
  <2> QED  BY <1>6, <2>1, <2>2, <2>3
<1>15. \A x \in unused(files, start_index, t) : ~is_overlapping(H, files[x])
  <2> TAKE x \in unused(files, start_index, t)
  <2>1. x \in DOMAIN files \ g.used /\ start <= x /\ x \notin moved
    BY <1>3, <1>9
  <2>2. x \notin J
    BY <1>2, <2>1
  <2>3. x < Last(g.job) \/ x > Last(g.job)
    <3>1. x # Last(g.job) /\ x \in Int /\ Last(g.job) \in Int
      BY <1>2, <2>1, <2>2
    <3> QED  BY <3>1
  <2> QED  BY <1>2, <1>4, <2>1, <2>3
<1>16. \A j \in 1 .. K + 1 : \A x \in unused(files, start_index, t) :
          ~is_overlapping(hull(files, t.merge[j]), files[x])
  <2>1. \A j \in 1 .. K : \A x \in unused(files, start_index, t) :
          ~is_overlapping(hull(files, s.merge[j]), files[x])
    BY <1>3, <1>6, <1>9 DEF Selected, F
  <2> QED  BY <1>6, <1>15, <2>1 DEF H
<1>17. ASSUME NEW a \in J, NEW f \in DOMAIN files, f > a, is_overlapping(files[f], files[a]),
              f \notin t.move, f \notin J
       PROVE  FALSE
  <2>1. a \in F /\ files[a] \in Ranges /\ files[f] \in Ranges /\ start <= f /\ Covers(H, files[a])
    <3>1. start <= a /\ a \in DOMAIN files
      BY <1>2
    <3>2. start <= f
      BY <1>1, <1>17, <3>1
    <3> QED  BY <1>1, <1>2, <1>3, <3>1, <3>2
  <2>2. CASE f \in s.used
    <3>1. CASE \E j \in DOMAIN s.merge : f \in ToSet(s.merge[j])
      <4>1. PICK j \in DOMAIN s.merge : f \in ToSet(s.merge[j])
        BY <3>1
      <4>2. hull(files, s.merge[j]) \in Ranges /\ Covers(hull(files, s.merge[j]), files[f])
        BY <4>1, TakenHull
      <4>3. is_overlapping(hull(files, s.merge[j]), files[a])
        BY <1>17, <2>1, <4>2, Overlapping
      <4> QED  BY <2>1, <4>3 DEF Selected, F
    <3>2. CASE ~\E j \in DOMAIN s.merge : f \in ToSet(s.merge[j])
      <4>1. f \in s.used \ s.move /\ a < f
        <5>1. a \in Int /\ f \in Int
          BY <1>2
        <5> QED  BY <1>5, <1>17, <2>2, <5>1
      <4>2. ~is_overlapping(files[a], files[f])
        BY <2>1, <3>2, <4>1 DEF Selected, F
      <4> QED  BY <1>17, <2>1, <4>2, Overlapping
    <3> QED  BY <3>1, <3>2
  <2>3. CASE f \notin s.used
    <3>1. f \in unused(files, start_index, t)
      <4>1. f \in start_index .. Len(files)
        BY <1>1, <2>1
      <4> QED  BY <1>2, <1>5, <1>9, <1>17, <2>3, <4>1
    <3>2. ~is_overlapping(H, files[f])
      BY <1>15, <3>1
    <3>3. is_overlapping(H, files[f])
      BY <1>2, <1>17, <2>1, Overlapping
    <3> QED  BY <3>2, <3>3
  <2> QED  BY <2>2, <2>3
<1>18. \A j \in 1 .. K + 1 : Follows(files, t, t.merge[j])
  <2>1. Follows(files, t, g.job)
    BY <1>17 DEF Follows, J
  <2>2. \A j \in 1 .. K : Follows(files, t, s.merge[j])
    BY <1>5, <1>6 DEF Selected, Follows
  <2> QED  BY <1>6, <2>1, <2>2
<1>19. ASSUME NEW y \in t.used \ t.move, \A j \in 1 .. K + 1 : y \notin ToSet(t.merge[j]),
              NEW a \in unused(files, start_index, t), a < y
       PROVE  ~is_overlapping(files[a], files[y])
  <2>1. y \notin J
    <3>1. K + 1 \in 1 .. K + 1
      BY <1>6
    <3> QED  BY <1>6, <1>19, <3>1 DEF J
  <2>2. y \in s.used \ s.move
    BY <1>2, <1>5, <2>1
  <2>3. \A j \in DOMAIN s.merge : y \notin ToSet(s.merge[j])
    <3> TAKE j \in DOMAIN s.merge
    <3>1. j \in 1 .. K + 1 /\ t.merge[j] = s.merge[j]
      BY <1>6
    <3> QED  BY <1>19, <3>1
  <2>4. a \in F
    BY <1>3, <1>9
  <2> QED  BY <1>19, <2>2, <2>3, <2>4 DEF Selected, F
<1>20. Selected(files, limit, start_index, t)
  BY <1>6, <1>8, <1>10, <1>12, <1>14, <1>16, <1>18, <1>19 DEF Selected
<1> QED  BY <1>20 DEF t, moved

(* So after each job the selection is as it has to be.                     *)
LEMMA JobTaken ==
    ASSUME NEW files \in Seq(Ranges), NEW limit \in Nat, NEW start_index \in Nat \ {0}, NEW s,
           Selected(files, limit, start_index, s), NEW start, StartsAt(files, start_index, s, start),
           NEW g, Grown(files, limit, start, s.used, g), NEW min_merge
    PROVE  /\ Selected(files, limit, start_index, after_job(files, min_merge, s, g))
           /\ s.used \subseteq after_job(files, min_merge, s, g).used
           /\ start \in after_job(files, min_merge, s, g).used
<1>1. s \in SelectLocals /\ start \in DOMAIN files /\ s.used \in SUBSET Nat
  <2>1. start \in DOMAIN files /\ start \in Nat /\ start_index <= start
    BY JobFiles
  <2>2. s \in SelectLocals
    BY DEF Selected
  <2> QED  BY <2>1, <2>2 DEF SelectLocals
<1>2. g.used = s.used \cup ToSet(g.job) /\ start \in ToSet(g.job) /\ Len(g.job) \in Nat
  <2>1. Apart(files, start, s.used, g)
    BY <1>1, GrownApart
  <2> QED  BY <2>1 DEF Apart
<1>3. CASE is_merge_job(files, min_merge, g.job)
  <2> DEFINE t == take_job(s, g, files_to_move(files, g.job, g.used))
  <2>1. after_job(files, min_merge, s, g) = t
    BY <1>3 DEF after_job
  <2>2. Len(g.job) >= 2
    BY <1>2, <1>3 DEF is_merge_job
  <2>3. t.used = g.used \cup files_to_move(files, g.job, g.used)
    BY DEF take_job
  <2>4. Selected(files, limit, start_index, t)
    BY <2>2, JobMerged
  <2> QED  BY <1>2, <2>1, <2>3, <2>4
<1>4. CASE ~is_merge_job(files, min_merge, g.job)
  <2> DEFINE t == [s EXCEPT !.used = g.used]
  <2>1. after_job(files, min_merge, s, g) = t
    BY <1>4 DEF after_job
  <2>2. t.used = g.used
    BY <1>1 DEF SelectLocals
  <2>3. Selected(files, limit, start_index, t)
    BY JobSkipped
  <2> QED  BY <1>2, <2>1, <2>2, <2>3
<1> QED  BY <1>3, <1>4

(* What the turn of the outer loop is about: a job from the first file     *)
(* that is free.                                                           *)
LEMMA NextJob ==
    ASSUME NEW files \in Seq(Ranges), NEW limit \in Nat \ {0, 1}, NEW start_index \in Nat \ {0}, NEW min_merge,
           NEW s \in SelectLocals, unused(files, start_index, s) \notin {{}, {Len(files)}}
    PROVE  LET start == Min(unused(files, start_index, s))
               g == grow_merge_job(files, limit, min_merge, start, s.used)
           IN  /\ StartsAt(files, start_index, s, start)
               /\ Grown(files, limit, start, s.used, g)
               /\ after_job(files, min_merge, s, g) \in SelectLocals
<1> DEFINE F == unused(files, start_index, s)
           start == Min(F)
           g == grow_merge_job(files, limit, min_merge, start, s.used)
           moved == files_to_move(files, g.job, g.used)
           t == after_job(files, min_merge, s, g)
<1>1. /\ Len(files) \in Nat /\ DOMAIN files = 1 .. Len(files)
      /\ s.used \in SUBSET Nat /\ s.merge \in Seq(Seq(Nat)) /\ s.move \in SUBSET Nat /\ s.offset \in Nat
  BY DEF SelectLocals
<1>2. F \subseteq 1 .. Len(files) /\ F \cap s.used = {} /\ IsFiniteSet(F)
  <2>1. F \subseteq 1 .. Len(files) /\ F \cap s.used = {}
    BY <1>1 DEF unused
  <2>2. IsFiniteSet(1 .. Len(files))
    BY <1>1, FS_Interval
  <2> HIDE DEF F
  <2> QED  BY <2>1, <2>2, FS_Subset
<1>3. start \in F /\ \A x \in F : start <= x
  <2> HIDE DEF F
  <2>1. F # {} /\ F \subseteq Int
    BY <1>2 DEF F
  <2> QED  BY <1>2, <2>1, MinInSet
<1>4. start \in 1 .. Len(files) /\ start # Len(files)
  <2>1. \A x \in F : x \in Int /\ start <= x /\ x <= Len(files)
    BY <1>2, <1>3
  <2>2. start = Len(files) => F = {Len(files)}
    <3> HIDE DEF F, start
    <3>1. ASSUME start = Len(files), NEW x \in F PROVE x = Len(files)
      BY <1>1, <2>1, <3>1
    <3> QED  BY <1>3, <3>1
  <2> QED  BY <1>2, <1>3, <2>2
<1> HIDE DEF start
<1>5. start \in DOMAIN files /\ start + 1 \in DOMAIN files /\ start \notin s.used
  <2>1. start \notin s.used
    <3> HIDE DEF F
    <3> QED  BY <1>2, <1>3
  <2>2. start \in 1 .. Len(files) /\ start + 1 \in 1 .. Len(files)
    BY <1>1, <1>4
  <2> QED  BY <1>1, <2>1, <2>2
<1>6. Grown(files, limit, start, s.used, g)
  BY <1>1, <1>5, JobGrown
<1> HIDE DEF g
<1>7. g.used \in SUBSET Nat /\ g.job \in Seq(Nat)
  BY <1>6 DEF Grown, GrowLocals
<1>8. moved \subseteq DOMAIN files /\ (moved # {} => Min(moved) \in moved)
  <2>1. moved \subseteq DOMAIN files
    BY DEF files_to_move
  <2>2. IsFiniteSet(DOMAIN files) /\ DOMAIN files \subseteq Int
    BY <1>1, FS_Interval
  <2> HIDE DEF moved
  <2>3. IsFiniteSet(moved) /\ moved \subseteq Int
    BY <2>1, <2>2, FS_Subset
  <2> QED  BY <2>1, <2>3, MinInSet
<1> HIDE DEF moved
<1>9. t \in SelectLocals
  <2>1. take_job(s, g, moved) \in SelectLocals
    <3>1. moved \subseteq Nat
      BY <1>1, <1>8
    <3>2. g.used \cup moved \in SUBSET Nat /\ s.move \cup moved \in SUBSET Nat
      BY <1>1, <1>7, <3>1
    <3>3. Append(s.merge, g.job) \in Seq(Seq(Nat))
      BY <1>1, <1>7
    <3>4. (IF s.move = {} /\ moved # {} THEN Min(moved) ELSE s.offset) \in Nat
      BY <1>1, <1>8, <3>1
    <3> DEFINE o == IF s.move = {} /\ moved # {} THEN Min(moved) ELSE s.offset
               q == Append(s.merge, g.job)
    <3>5. take_job(s, g, moved) = [used |-> g.used \cup moved, merge |-> q, move |-> s.move \cup moved, offset |-> o]
      BY DEF take_job
    <3> HIDE DEF o, q
    <3> QED  BY <3>2, <3>3, <3>4, <3>5 DEF SelectLocals, o, q
  <2>2. [s EXCEPT !.used = g.used] \in SelectLocals
    BY <1>1, <1>7 DEF SelectLocals
  <2> QED  BY <2>1, <2>2 DEF after_job, moved
<1> QED  BY <1>3, <1>6, <1>9 DEF StartsAt, start, g

(* The outer loop ends, at a selection that is as it has to be.            *)
LEMMA SelectionHolds ==
    ASSUME NEW files \in Seq(Ranges), NEW limit \in Nat \ {0, 1}, NEW start_index \in Nat \ {0}, NEW min_merge
    PROVE  Selected(files, limit, start_index, select_from(files, limit, min_merge, start_index))
<1> DEFINE S == SelectLocals
           N == Len(files)
           F(s) == unused(files, start_index, s)
           turn(s) == after_job(files, min_merge, s,
                          grow_merge_job(files, limit, min_merge, Min(F(s)), s.used))
           stop == {s \in S : F(s) \in {{}, {N}}}
           out == [s \in S |-> s]
           nxt == [s \in S |-> turn(s)]
           s0 == [used |-> {}, merge |-> << >>, move |-> {}, offset |-> 0]
           P(h) == h = [s \in S |-> IF F(s) \in {{}, {N}} THEN s ELSE h[turn(s)]]
           Inv == {s \in S : Selected(files, limit, start_index, s)}
           m == [s \in Inv |-> IF F(s) = {} THEN 0 ELSE N + 1 - Min(F(s))]
           n == [s \in Inv |-> 0]
<1>1. N \in Nat /\ DOMAIN files = 1 .. N
  OBVIOUS
<1>2. select_from(files, limit, min_merge, start_index) = (CHOOSE h : P(h))[s0]
  BY DEF select_from, SelectLocals
<1>3. ASSUME NEW s \in S, s \notin stop
      PROVE  /\ StartsAt(files, start_index, s, Min(F(s)))
             /\ Grown(files, limit, Min(F(s)), s.used, grow_merge_job(files, limit, min_merge, Min(F(s)), s.used))
             /\ turn(s) \in S
  <2>1. F(s) \notin {{}, {N}}
    BY <1>3
  <2> QED  BY <2>1, NextJob
<1>4. \E h : Loop(h, S, stop, out, nxt)
  <2>1. \A s \in S \ stop : nxt[s] \in S
    BY <1>3
  <2> HIDE DEF S, stop, out, nxt
  <2> QED  BY <2>1, LoopExists
<1>5. ASSUME NEW h PROVE P(h) <=> Loop(h, S, stop, out, nxt)
  <2> DEFINE body(s) == IF F(s) \in {{}, {N}} THEN s ELSE h[turn(s)]
             loop(s) == IF s \in stop THEN out[s] ELSE h[nxt[s]]
  <2>1. ASSUME NEW s \in S PROVE body(s) = loop(s)
    <3>1. (s \in stop <=> F(s) \in {{}, {N}}) /\ out[s] = s /\ nxt[s] = turn(s)
      BY <2>1
    <3> HIDE DEF stop, out, nxt, F, turn, S
    <3> QED  BY <3>1
  <2>2. [s \in S |-> body(s)] = [s \in S |-> loop(s)]
    <3> HIDE DEF body, loop, S
    <3> QED  BY <2>1
  <2>3. P(h) <=> h = [s \in S |-> body(s)]
    OBVIOUS
  <2>4. Loop(h, S, stop, out, nxt) <=> h = [s \in S |-> loop(s)]
    BY DEF Loop
  <2> HIDE DEF P, body, loop, S, stop, out, nxt
  <2> QED  BY <2>2, <2>3, <2>4
<1> DEFINE select == CHOOSE h : P(h)
<1>6. Loop(select, S, stop, out, nxt)
  <2>1. \E h : P(h)
    BY <1>4, <1>5
  <2>2. P(select)
    <3> HIDE DEF P
    <3> QED  BY <2>1
  <2> HIDE DEF P, select, S, stop, out, nxt
  <2> QED  BY <1>5, <2>2
<1>7. s0 \in Inv
  <2>1. s0 \in S
    BY DEF SelectLocals
  <2>2. /\ s0.used = {} /\ s0.move = {} /\ s0.merge = << >> /\ DOMAIN s0.merge = {}
    OBVIOUS
  <2> HIDE DEF s0
  <2>3. Selected(files, limit, start_index, s0)
    BY <2>1, <2>2 DEF Selected
  <2> QED  BY <2>1, <2>3
<1>8. \A s : F(s) \subseteq 1 .. N /\ (F(s) # {} => Min(F(s)) \in F(s) /\ \A x \in F(s) : Min(F(s)) <= x)
  <2> TAKE s
  <2> DEFINE X == F(s)
  <2>1. X \subseteq 1 .. N
    BY <1>1 DEF unused
  <2> HIDE DEF X
  <2>2. IsFiniteSet(1 .. N)
    BY <1>1, FS_Interval
  <2>3. IsFiniteSet(X) /\ X \subseteq Int
    <3>1. IsFiniteSet(X)
      BY <2>1, <2>2, FS_Subset
    <3> QED  BY <2>1, <3>1
  <2>4. X # {} => Min(X) \in X /\ \A x \in X : Min(X) <= x
    BY <2>3, MinInSet
  <2> QED  BY <2>1, <2>4 DEF X
<1> HIDE DEF F
<1>9. m \in [Inv -> Nat] /\ n \in [Inv -> Nat]
  <2>1. ASSUME NEW s \in Inv PROVE (IF F(s) = {} THEN 0 ELSE N + 1 - Min(F(s))) \in Nat
    <3>1. CASE F(s) = {}
      BY <3>1
    <3>2. CASE F(s) # {}
      <4>1. Min(F(s)) \in 1 .. N
        BY <1>8, <3>2
      <4>2. N + 1 - Min(F(s)) \in Nat
        BY <1>1, <4>1
      <4> QED  BY <3>2, <4>2
    <3> QED  BY <3>1, <3>2
  <2> HIDE DEF Inv
  <2> QED  BY <2>1
<1>10. EndsIn(Inv, stop, out, Inv)
  BY DEF EndsIn
<1>11. ASSUME NEW s \in Inv, s \notin stop PROVE nxt[s] \in Inv /\ m[nxt[s]] < m[s]
  <2> DEFINE a == Min(F(s))
             g == grow_merge_job(files, limit, min_merge, a, s.used)
             t == after_job(files, min_merge, s, g)
  <2>1. s \in S /\ Selected(files, limit, start_index, s) /\ nxt[s] = t
    OBVIOUS
  <2>2. StartsAt(files, start_index, s, a) /\ Grown(files, limit, a, s.used, g)
    BY <1>3, <1>11
  <2>3. t \in S
    BY <1>3, <1>11
  <2> HIDE DEF a, g, t, S, stop, nxt
  <2>4. Selected(files, limit, start_index, t) /\ s.used \subseteq t.used /\ a \in t.used
    BY <2>1, <2>2, JobTaken DEF t
  <2>5. t \in Inv
    BY <2>3, <2>4
  <2>6. F(t) \subseteq F(s) /\ a \notin F(t) /\ a \in F(s)
    BY <2>2, <2>4 DEF StartsAt, F, unused
  <2>7. m[s] = N + 1 - a /\ m[t] = IF F(t) = {} THEN 0 ELSE N + 1 - Min(F(t))
    BY <2>1, <2>5, <2>6 DEF a
  <2>8. a \in 1 .. N
    BY <1>8, <2>6
  <2>9. F(t) # {} => Min(F(t)) \in 1 .. N /\ a < Min(F(t))
    <3> SUFFICES ASSUME F(t) # {} PROVE Min(F(t)) \in 1 .. N /\ a < Min(F(t))
      OBVIOUS
    <3>1. Min(F(t)) \in F(t) /\ Min(F(t)) \in 1 .. N
      BY <1>8
    <3>2. a <= Min(F(t)) /\ a # Min(F(t))
      BY <1>8, <2>6, <3>1 DEF a
    <3> QED  BY <2>8, <3>1, <3>2
  <2>10. m[t] < m[s]
    <3>1. CASE F(t) = {}
      BY <1>1, <2>7, <2>8, <3>1
    <3>2. CASE F(t) # {}
      BY <1>1, <2>7, <2>8, <2>9, <3>2
    <3> QED  BY <3>1, <3>2
  <2> QED  BY <2>1, <2>5, <2>10
<1>12. Descends(Inv, stop, nxt, m, n)
  <2> HIDE DEF Inv, stop, nxt, m, n
  <2> QED  BY <1>9, <1>11 DEF Descends
<1>13. select[s0] \in Inv
  <2>1. Inv \in SUBSET S
    OBVIOUS
  <2> HIDE DEF Inv, S, stop, out, nxt, m, n, select, s0
  <2>2. \A s \in Inv : select[s] \in Inv
    BY <1>6, <1>10, <1>12, <2>1, LoopHolds
  <2> QED  BY <1>7, <2>2
<1> QED  BY <1>2, <1>13

(* A selection of which only the files to choose from are not given.       *)
SomeSelection(files, limit, jobs) ==
    \E start_index \in Nat \ {0} : Selected(files, limit, start_index, jobs)

(* The alternatives to a selection start at later files: there is a best   *)
(* for every file to start at, and it is a selection.                      *)
LEMMA BestHolds ==
    ASSUME NEW files \in Seq(Ranges), NEW limit \in Nat \ {0, 1}
    PROVE  SomeSelection(files, limit, get_compaction_jobs(files, limit))
<1> DEFINE N == Len(files)
           jobs(k) == select_from(files, limit, 2, k)
           value(b, k) == IF jobs(k).move = {} THEN jobs(k) ELSE better(files, jobs(k), b[jobs(k).offset])
           P(b) == b = [k \in 1 .. N + 1 |-> value(b, k)]
           From(K, b) == \A k \in K .. N + 1 : b[k] = value(b, k)
           None == {K \in 1 .. N + 1 : ~\E b : From(K, b)}
           best == CHOOSE b : P(b)
           Bad == {k \in 1 .. N + 1 : ~SomeSelection(files, limit, best[k])}
<1>1. N \in Nat
  OBVIOUS
<1>2. get_compaction_jobs(files, limit) = best[1]
  BY DEF get_compaction_jobs
<1>3. ASSUME NEW k \in 1 .. N + 1
      PROVE  /\ SomeSelection(files, limit, jobs(k))
             /\ jobs(k).move # {} => jobs(k).offset \in k + 1 .. N
  <2>1. k \in Nat \ {0}
    BY <1>1
  <2>2. Selected(files, limit, k, jobs(k))
    BY <2>1, SelectionHolds
  <2> HIDE DEF jobs
  <2> QED  BY <2>1, <2>2 DEF SomeSelection, Selected
<1> HIDE DEF N, jobs
<1>4. \A T \in SUBSET (1 .. N + 1) : T # {} => \E K \in T : \A y \in T : K >= y
  <2> TAKE T \in SUBSET (1 .. N + 1)
  <2>1. IsFiniteSet(1 .. N + 1)
    BY <1>1, FS_Interval
  <2>2. IsFiniteSet(T)
    BY <2>1, FS_Subset
  <2>3. T \subseteq Int
    OBVIOUS
  <2> QED  BY <2>2, <2>3, MaxInSet
<1>5. ASSUME NEW K \in 1 .. N + 1, \A y \in None : K >= y PROVE K \notin None
  <2>1. CASE K = N + 1
    <3> DEFINE b == [k \in {K} |-> jobs(k)]
    <3>1. jobs(K).move = {}
      BY <1>1, <1>3, <2>1
    <3>2. \A k \in K .. N + 1 : k = K /\ b[k] = jobs(k)
      BY <1>1, <2>1
    <3> HIDE DEF b
    <3>3. \A k \in K .. N + 1 : b[k] = value(b, k)
      BY <3>1, <3>2
    <3> QED  BY <3>3
  <2>2. CASE K # N + 1
    <3>1. K + 1 \in 1 .. N + 1 /\ ~(K >= K + 1)
      BY <1>1, <2>2
    <3>2. K + 1 \notin None
      <4> HIDE DEF None
      <4> QED  BY <1>5, <3>1
    <3>3. PICK b : From(K + 1, b)
      BY <3>1, <3>2
    <3> DEFINE c == [k \in K .. N + 1 |-> IF k = K THEN value(b, K) ELSE b[k]]
    <3>4. c[K] = value(b, K) /\ \A k \in K + 1 .. N + 1 : c[k] = b[k]
      BY <1>1
    <3> HIDE DEF c
    <3>5. ASSUME NEW k \in K .. N + 1 PROVE value(c, k) = value(b, k)
      <4>1. k \in 1 .. N + 1
        BY <1>1
      <4>2. jobs(k).move # {} => jobs(k).offset \in K + 1 .. N + 1
        <5> SUFFICES ASSUME jobs(k).move # {} PROVE jobs(k).offset \in K + 1 .. N + 1
          OBVIOUS
        <5>1. jobs(k).offset \in k + 1 .. N
          BY <1>3, <4>1
        <5> QED  BY <1>1, <5>1
      <4> QED  BY <3>4, <4>2
    <3>6. \A k \in K .. N + 1 : c[k] = value(c, k)
      <4> TAKE k \in K .. N + 1
      <4>1. CASE k = K
        BY <3>4, <3>5, <4>1
      <4>2. CASE k # K
        <5>1. k \in K + 1 .. N + 1
          BY <1>1, <4>2
        <5>2. b[k] = value(b, k) /\ c[k] = b[k]
          BY <3>3, <3>4, <5>1
        <5> HIDE DEF value
        <5> QED  BY <3>5, <5>2
      <4> QED  BY <4>1, <4>2
    <3> HIDE DEF value
    <3> QED  BY <3>6
  <2> QED  BY <2>1, <2>2
<1>6. P(best)
  <2>1. None = {}
    <3> SUFFICES ASSUME None # {} PROVE FALSE
      OBVIOUS
    <3>1. None \in SUBSET (1 .. N + 1)
      OBVIOUS
    <3> HIDE DEF None
    <3> QED  BY <1>4, <1>5, <3>1
  <2>2. 1 \in 1 .. N + 1
    BY <1>1
  <2>3. PICK b : From(1, b)
    BY <2>1, <2>2
  <2> DEFINE c == [k \in 1 .. N + 1 |-> b[k]]
  <2>4. \A k \in 1 .. N + 1 : c[k] = b[k]
    OBVIOUS
  <2>5. ASSUME NEW k \in 1 .. N + 1 PROVE c[k] = value(c, k)
    <3>1. jobs(k).move # {} => jobs(k).offset \in 1 .. N + 1
      <4> SUFFICES ASSUME jobs(k).move # {} PROVE jobs(k).offset \in 1 .. N + 1
        OBVIOUS
      <4>1. jobs(k).offset \in k + 1 .. N
        BY <1>3
      <4> QED  BY <1>1, <4>1
    <3> HIDE DEF c
    <3>2. value(c, k) = value(b, k)
      BY <2>4, <3>1
    <3>3. b[k] = value(b, k)
      BY <2>3
    <3> HIDE DEF value
    <3> QED  BY <2>4, <3>2, <3>3
  <2>6. c = [k \in 1 .. N + 1 |-> value(c, k)]
    <3>1. c = [k \in 1 .. N + 1 |-> c[k]]
      OBVIOUS
    <3> HIDE DEF c, value
    <3> QED  BY <2>5, <3>1
  <2>7. \E d : P(d)
    <3> HIDE DEF c, value
    <3> QED  BY <2>6
  <2> HIDE DEF P
  <2> QED  BY <2>7
<1>7. \A k \in 1 .. N + 1 : best[k] = value(best, k)
  <2> HIDE DEF best, value
  <2> QED  BY <1>6
<1> HIDE DEF best
<1>8. Bad = {}
  <2> SUFFICES ASSUME Bad # {} PROVE FALSE
    OBVIOUS
  <2>1. PICK K \in Bad : \A y \in Bad : K >= y
    <3>1. Bad \in SUBSET (1 .. N + 1)
      OBVIOUS
    <3> HIDE DEF Bad
    <3> QED  BY <1>4, <3>1
  <2>2. K \in 1 .. N + 1 /\ best[K] = value(best, K) /\ best[K] # jobs(K)
    <3> HIDE DEF value
    <3> QED  BY <1>3, <1>7
  <2>3. jobs(K).move # {} /\ best[K] = best[jobs(K).offset]
    BY <2>2 DEF better
  <2> DEFINE o == jobs(K).offset
  <2>4. o \in 1 .. N + 1 /\ ~(K >= o)
    <3>1. o \in K + 1 .. N
      BY <1>3, <2>2, <2>3
    <3> HIDE DEF o
    <3> QED  BY <1>1, <2>2, <3>1
  <2>5. o \in Bad
    BY <2>2, <2>3, <2>4
  <2> HIDE DEF Bad, o
  <2> QED  BY <2>1, <2>4, <2>5
<1>9. 1 \in 1 .. N + 1
  BY <1>1
<1> QED  BY <1>2, <1>8, <1>9

-----------------------------------------------------------------------------
(* The run of the selector, for every list of files.                       *)

(* The list holds ranges, and at least two files may be merged.            *)
SelectorTypeOK == compactables \in Seq(Ranges) /\ max_merge \in Nat \ {0, 1}

LEMMA SelectorTypes == SelectorSpec => []SelectorTypeOK
<1>1. SelectorInit => SelectorTypeOK
  BY SelectorAssumption DEF SelectorInit, SelectorTypeOK
<1>2. SelectorTypeOK /\ [append_file]_<<compactables, max_merge>> => SelectorTypeOK'
  <2> SUFFICES ASSUME SelectorTypeOK, [append_file]_<<compactables, max_merge>>
               PROVE  SelectorTypeOK'
    OBVIOUS
  <2>1. CASE append_file
    <3>0. PICK lo \in 0 .. MaxHash : \E hi \in lo .. MaxHash : compactables' = Append(compactables, <<lo, hi>>)
      BY <2>1 DEF append_file
    <3>1. PICK hi \in lo .. MaxHash : compactables' = Append(compactables, <<lo, hi>>)
      BY <3>0
    <3>2. <<lo, hi>> \in Ranges
      BY SelectorAssumption DEF Ranges
    <3> QED  BY <2>1, <3>1, <3>2 DEF append_file, SelectorTypeOK
  <2>2. CASE UNCHANGED <<compactables, max_merge>>
    BY <2>2 DEF SelectorTypeOK
  <2> QED  BY <2>1, <2>2
<1> QED  BY <1>1, <1>2, PTL DEF SelectorSpec

(* What is selected for a list of ranges.                                  *)
LEMMA JobsSelected ==
    ASSUME SelectorTypeOK
    PROVE  JobsAreDisjoint /\ MergesKeepOrder
<1> DEFINE jobs == compaction_jobs
<1>1. compactables \in Seq(Ranges) /\ max_merge \in Nat \ {0, 1} /\ jobs = get_compaction_jobs(compactables, max_merge)
  BY DEF SelectorTypeOK, compaction_jobs
<1>2. PICK start_index \in Nat \ {0} : Selected(compactables, max_merge, start_index, jobs)
  BY <1>1, BestHolds DEF SomeSelection
<1> HIDE DEF jobs
<1>3. /\ \A j \in DOMAIN jobs.merge : Taken(compactables, max_merge, jobs, jobs.merge[j])
      /\ \A i, j \in DOMAIN jobs.merge : i # j =>
            ~is_overlapping(hull(compactables, jobs.merge[i]), hull(compactables, jobs.merge[j]))
      /\ \A j \in DOMAIN jobs.merge : Follows(compactables, jobs, jobs.merge[j])
  BY <1>2 DEF Selected
<1>4. ASSUME NEW i \in DOMAIN jobs.merge, NEW j \in DOMAIN jobs.merge, i # j,
             NEW x \in ToSet(jobs.merge[i]), x \in ToSet(jobs.merge[j])
      PROVE  FALSE
  <2> DEFINE hi == hull(compactables, jobs.merge[i])
             hj == hull(compactables, jobs.merge[j])
  <2>1. /\ hi \in Ranges /\ Covers(hi, compactables[x]) /\ x \in DOMAIN compactables
        /\ hj \in Ranges /\ Covers(hj, compactables[x])
    BY <1>1, <1>2, <1>4, TakenHull
  <2>2. ~is_overlapping(hi, hj)
    BY <1>3, <1>4
  <2> HIDE DEF hi, hj
  <2>3. compactables[x] \in Ranges
    BY <1>1, <2>1
  <2>4. is_overlapping(hi, compactables[x]) /\ is_overlapping(compactables[x], hi)
    BY <2>1, <2>3, Overlapping
  <2>5. is_overlapping(hj, hi)
    BY <2>1, <2>3, <2>4, Overlapping
  <2> QED  BY <2>1, <2>2, <2>5, Overlapping
<1>5. EachFileOnce(jobs)
  <2>1. \A j \in DOMAIN jobs.merge :
          /\ Len(jobs.merge[j]) \in 2 .. max_merge
          /\ IsInjective(jobs.merge[j])
          /\ ToSet(jobs.merge[j]) \cap jobs.move = {}
    BY <1>3 DEF Taken
  <2>2. \A i, j \in DOMAIN jobs.merge : i # j => ToSet(jobs.merge[i]) \cap ToSet(jobs.merge[j]) = {}
    BY <1>4
  <2> QED  BY <2>1, <2>2 DEF EachFileOnce
<1>6. MergesAreDisjoint(jobs)
  BY <1>3 DEF MergesAreDisjoint
<1>7. NewestWinsInMerge(jobs)
  BY <1>3 DEF NewestWinsInMerge, Taken, InOrder
<1>8. NewerThanMergedIsMoved(jobs)
  BY <1>3 DEF NewerThanMergedIsMoved, Follows
<1> QED  BY <1>5, <1>6, <1>7, <1>8 DEF JobsAreDisjoint, MergesKeepOrder, jobs

(* The jobs of one compaction can run at the same time: no file is in two  *)
(* of them, and no key.                                                    *)
THEOREM JobsDisjoint == SelectorSpec => []JobsAreDisjoint
<1>1. SelectorTypeOK => JobsAreDisjoint
  BY JobsSelected
<1> QED  BY <1>1, SelectorTypes, PTL

(* The files of a job that overlap are merged in the order of their age,   *)
(* and a newer file that overlaps a merged one is merged with it or moved  *)
(* behind the result.                                                      *)
THEOREM OrderKept == SelectorSpec => []MergesKeepOrder
<1>1. SelectorTypeOK => MergesKeepOrder
  BY JobsSelected
<1> QED  BY <1>1, SelectorTypes, PTL
=============================================================================
