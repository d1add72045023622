--------------------------- MODULE CompactionSelector ---------------------------
(***************************************************************************)
(* The choice of compaction jobs in turbo-persistence                      *)
(* (compaction/selector.rs).  A database is a list of SST files ordered    *)
(* from oldest to newest; of each file only its hash range matters here, a *)
(* pair <<min_hash, max_hash>>.  get_compaction_jobs picks files to merge  *)
(* into new files and files to move behind the merged ones.                *)
(*                                                                         *)
(* Positions are 1-based.  The nested loops of the source are recursive    *)
(* functions over the loops' local variables, so that modules about which  *)
(* theorems are proved may use this one.  The reduction estimate is an f32 *)
(* in the source and an integer here.                                      *)
(***************************************************************************)
EXTENDS Integers, FiniteSets, Sequences, SequencesExt

(* The hash range helpers.                                                 *)
is_overlapping(a, b) == a[1] <= b[2] /\ b[1] <= a[2]
spread(range) == range[2] - range[1]
extend_range(a, b) == << IF b[1] < a[1] THEN b[1] ELSE a[1],
                         IF b[2] > a[2] THEN b[2] ELSE a[2] >>

(* The sum the coverage is computed from; full_range divides it.           *)
total_spread(files) == FoldSeq(LAMBDA f, sum : spread(f) + sum, 0, files)

(* The smallest range that contains the ranges of all files of a job.      *)
hull(files, job) == << Min({files[i][1] : i \in ToSet(job)}), Max({files[i][2] : i \in ToSet(job)}) >>

(***************************************************************************)
(* One merge job: starting from the file `start', files overlapping the    *)
(* growing range are added until max_merge files are found, the list ends  *)
(* or the next file would more than double the range's spread.  A file     *)
(* that does not fit into the range extends it and restarts the search.    *)
(* s holds the loops' locals: the position i, range, job and used.         *)
(***************************************************************************)
job_is_full(s, max_merge) == Len(s.job) >= max_merge

add_file(s) == [s EXCEPT !.used = @ \cup {s.i}, !.job = Append(@, s.i)]

(* The file at i belongs to the job, for which the range has to grow       *)
(* unless it covers the file already.                                      *)
joins(files, s) == s.i \notin s.used /\ is_overlapping(s.range, files[s.i])
extended_range(files, s) == extend_range(s.range, files[s.i])
extends(files, s) == joins(files, s) /\ extended_range(files, s) # s.range

(* What is left of a turn of the loop when the range stays.                *)
visit(files, s) == IF joins(files, s) THEN add_file(s) ELSE s

(* Disallow doubling the range's spread.                                   *)
doubles(files, s, min_merge) ==
    /\ Len(s.job) >= min_merge
    /\ spread(extended_range(files, s)) - spread(s.range) > spread(s.range)

(* Mutant: the file that extends the range is added before the search is   *)
(* restarted, ahead of older files.                                        *)
restart_after_adding(files, s, start) ==
    [add_file(s) EXCEPT !.range = extended_range(files, s), !.i = start + 1]

restart(files, s, start) == [s EXCEPT !.range = extended_range(files, s), !.i = start + 1]

ends(files, s, max_merge) == s.i + 1 > Len(files) \/ job_is_full(s, max_merge)

grow_merge_job(files, max_merge, min_merge, start, used) ==
    LET Locals == [i : DOMAIN files, range : Int \X Int, job : Seq(Nat), used : SUBSET Nat]
        grow[s \in Locals] ==
            LET t == visit(files, s)
            IN  CASE extends(files, s) /\ doubles(files, s, min_merge) -> s
                  [] extends(files, s) /\ ~doubles(files, s, min_merge) -> grow[restart(files, s, start)]
                  [] ~extends(files, s) /\ ends(files, t, max_merge) -> t
                  [] OTHER -> grow[[t EXCEPT !.i = @ + 1]]
    IN  grow[[i |-> start + 1, range |-> files[start], job |-> <<start>>,
              used |-> used \cup {start}]]

(* A job is worth running when it has enough files and one of them         *)
(* overlaps the file it was started from.                                  *)
is_merge_job(files, min_merge, job) ==
    /\ Len(job) >= min_merge
    /\ \E n \in 2 .. Len(job) : is_overlapping(files[job[1]], files[job[n]])

(* Mutant: the search starts one file too late.                            *)
files_to_move_skip(files, job, used) ==
    {i \in DOMAIN files \ used : i > Last(job) + 1 /\ is_overlapping(hull(files, job), files[i])}

(* The unused files after the last one of the job whose range overlaps     *)
(* what the job merges: they have to be moved behind the merged files.     *)
files_to_move(files, job, used) ==
    {i \in DOMAIN files \ used : i > Last(job) /\ is_overlapping(hull(files, job), files[i])}

(* The estimated gain of a job, weighted by the age of its first file.     *)
reduction(files, job) ==
    (FoldSeq(LAMBDA i, sum : spread(files[i]) + sum, 0, job) - spread(hull(files, job)))
        * (Len(files) - job[1])

(* What a job leaves behind in the locals of the outer loop; offset is the *)
(* file that was to be moved first.  The files of a job that is skipped    *)
(* stay used.                                                              *)
take_job(s, g, moved) ==
    [used   |-> g.used \cup moved,
     merge  |-> Append(s.merge, g.job),
     move   |-> s.move \cup moved,
     offset |-> IF s.move = {} /\ moved # {} THEN Min(moved) ELSE s.offset]

after_job(files, min_merge, s, g) ==
    IF is_merge_job(files, min_merge, g.job)
      THEN take_job(s, g, files_to_move(files, g.job, g.used))
      ELSE [s EXCEPT !.used = g.used]

(* The outer loop: the first unused file starts the next job, until the    *)
(* last file is reached.                                                   *)
unused(files, start_index, s) == (start_index .. Len(files)) \ s.used

select_from(files, max_merge, min_merge, start_index) ==
    LET Locals == [used : SUBSET Nat, merge : Seq(Seq(Nat)), move : SUBSET Nat, offset : Nat]
        select[s \in Locals] ==
            LET free == unused(files, start_index, s)
            IN  IF free \in {{}, {Len(files)}} THEN s
                ELSE select[after_job(files, min_merge, s,
                              grow_merge_job(files, max_merge, min_merge, Min(free), s.used))]
    IN  select[[used |-> {}, merge |-> << >>, move |-> {}, offset |-> 0]]

(* What a selection promises: the gain of its last job.                    *)
gain(files, jobs) == IF jobs.merge = << >> THEN 0 ELSE reduction(files, Last(jobs.merge))

(***************************************************************************)
(* When files have to be moved, the selection that starts at the first of  *)
(* them is preferred if it promises more.                                  *)
(***************************************************************************)
better(files, jobs, alternative) ==
    IF gain(files, alternative) > gain(files, jobs) THEN alternative ELSE jobs

get_compaction_jobs(files, max_merge) ==
    LET best[start_index \in 1 .. Len(files) + 1] ==
            LET jobs == select_from(files, max_merge, 2, start_index)
            IN  IF jobs.move = {} THEN jobs ELSE better(files, jobs, best[jobs.offset])
    IN  best[1]
=============================================================================
