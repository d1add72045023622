-------------------------- MODULE MCCompactionSelector --------------------------
(***************************************************************************)
(* The compaction selector over every list of files up to a bound: each    *)
(* step appends a file with some hash range, as a commit does, and the     *)
(* invariants judge the jobs selected for the list.                        *)
(***************************************************************************)
EXTENDS CompactionSelector

CONSTANTS MaxHash,      \* bound: hashes are 0 .. MaxHash
          MaxFiles,     \* bound: how many files the database has
          MergeLimits   \* the values tried for max_merge of CompactConfig

ASSUME SelectorAssumption ==
    MaxHash \in Nat /\ MaxFiles \in Nat /\ MergeLimits \subseteq Nat \ {0, 1}

VARIABLES compactables, \* the hash ranges of the files, oldest first
          max_merge     \* how many files a job may merge

SelectorInit == compactables = << >> /\ max_merge \in MergeLimits

append_file == /\ Len(compactables) < MaxFiles
               /\ \E lo \in 0 .. MaxHash : \E hi \in lo .. MaxHash :
                     compactables' = Append(compactables, <<lo, hi>>)
               /\ UNCHANGED max_merge

SelectorSpec == SelectorInit /\ [][append_file]_<<compactables, max_merge>>

compaction_jobs == get_compaction_jobs(compactables, max_merge)

(* A job merges between two and max_merge files, and no file is in two     *)
(* jobs or both merged and moved: used_compactables.                       *)
EachFileOnce(jobs) ==
    /\ \A j \in DOMAIN jobs.merge :
          /\ Len(jobs.merge[j]) \in 2 .. max_merge
          /\ IsInjective(jobs.merge[j])
          /\ ToSet(jobs.merge[j]) \cap jobs.move = {}
    /\ \A i, j \in DOMAIN jobs.merge :
          i # j => ToSet(jobs.merge[i]) \cap ToSet(jobs.merge[j]) = {}

(* README.md:179: merge operations run concurrently "when the key hash     *)
(* ranges are not overlapping".                                            *)
MergesAreDisjoint(jobs) ==
    \A i, j \in DOMAIN jobs.merge :
        i # j => ~is_overlapping(hull(compactables, jobs.merge[i]), hull(compactables, jobs.merge[j]))

(* Under an equal key MergeIter lets the later file of a job win, so files *)
(* that overlap have to be in a job in the order of their age.             *)
NewestWinsInMerge(jobs) ==
    \A j \in DOMAIN jobs.merge : LET job == jobs.merge[j] IN
        \A m \in DOMAIN job : \A n \in 1 .. m - 1 :
            job[m] < job[n] => ~is_overlapping(compactables[job[m]], compactables[job[n]])

(* The merged files get the newest sequence numbers.  A file that is newer *)
(* than a merged one and overlaps it must be moved behind the result, or   *)
(* be merged with it.                                                      *)
NewerThanMergedIsMoved(jobs) ==
    \A j \in DOMAIN jobs.merge : \A a \in ToSet(jobs.merge[j]) :
        \A f \in DOMAIN compactables :
            f > a /\ is_overlapping(compactables[f], compactables[a])
                => f \in jobs.move \/ f \in ToSet(jobs.merge[j])

(* The jobs of one compaction can run at the same time: no file is in two  *)
(* of them, and no key.                                                    *)
JobsAreDisjoint == EachFileOnce(compaction_jobs) /\ MergesAreDisjoint(compaction_jobs)

(* What a merge does to the order of files: the files of a job that        *)
(* overlap are merged in the order of their age, and a newer file that     *)
(* overlaps one of the merged files is merged with it or moved behind the  *)
(* result.  It says nothing of the files a moved file passes on its way,   *)
(* which may overlap it and be newer: see CompactionKeepsContents of       *)
(* TurboPersistence.                                                       *)
MergesKeepOrder == NewestWinsInMerge(compaction_jobs) /\ NewerThanMergedIsMoved(compaction_jobs)
=============================================================================
