---------------------- MODULE TurboTasksExecutionProofs ----------------------
(***************************************************************************)
(* Theorems about TurboTasksExecution, for every set of tasks, whatever    *)
(* the code of the tasks reads and computes, and for any number of         *)
(* changes, lost cells and restarts.                                       *)
(*                                                                         *)
(* The argument: the InProgress of a task and the place of its job change  *)
(* together, so whoever schedules a task that has no InProgress finds its  *)
(* job idle.  Dirty goes away with InProgress, under one lock.  What has   *)
(* passed update_output without being stale has an output, and an output   *)
(* is never taken back.                                                    *)
(*                                                                         *)
(* For the edges: while an execution is not stale, the dependencies that   *)
(* are not outdated are the reads it has made, so what completing removes  *)
(* is what it has not read again.  An await reads twice, and finds the     *)
(* cell of the output it has read, or is told in between that there is     *)
(* none.                                                                   *)
(*                                                                         *)
(* For the values: what a task has read agrees with what was written last, *)
(* and goes on agreeing until somebody writes something else, who tells    *)
(* the readers in the same step.  Who is told stays told until it is dirty *)
(* and is going to read everything again.  A cell whose content is gone    *)
(* holds what its task would write: nobody has told it anything, so it     *)
(* reads, and writes, the same as last time.                               *)
(***************************************************************************)
EXTENDS TurboTasksExecution, TLAPS

-----------------------------------------------------------------------------
(* Jobs that move                                                          *)

Awake(j) == j.pc \notin {"idle", "start"}

(* In jobs no job has started or ended.                                    *)
Goes(jobs) ==
    /\ jobs \in [Task -> Job]
    /\ \A x \in Task : /\ jobs[x].pc = "idle" <=> job[x].pc = "idle"
                       /\ jobs[x].pc = "start" <=> job[x].pc = "start"

LEMMA ResumeAwake ==
    ASSUME NEW t \in Task, NEW values \in Seq(Read)
    PROVE  resume(t, values) \in Job /\ Awake(resume(t, values))
BY DEF resume, at, Job, Pc, Awake

LEMMA JobTo ==
    ASSUME NEW j \in Job, NEW pc \in Pc
    PROVE  [j EXCEPT !.pc = pc] \in Job
BY DEF Job

(* One job goes on as j.                                                   *)
LEMMA OneGoes ==
    ASSUME TypeOK, NEW t \in Task, Awake(job[t]), NEW j \in Job, Awake(j)
    PROVE  Goes([job EXCEPT ![t] = j])
<1>1. job \in [Task -> Job]
  BY DEF TypeOK
<1> QED
  BY <1>1 DEF Goes, Awake

LEMMA Moving ==
    ASSUME TypeOK, NEW t \in Task, Awake(job[t]), NEW pc \in Pc \ {"idle", "start"}
    PROVE  Goes(move(t, pc))
<1> DEFINE j == [job[t] EXCEPT !.pc = pc]
<1>1. job[t] \in Job
  BY DEF TypeOK
<1>2. j \in Job
  BY <1>1, JobTo
<1>3. Awake(j)
  BY <1>1 DEF Job, Awake
<1>4. move(t, pc) = [job EXCEPT ![t] = j]
  BY DEF move
<1> HIDE DEF j
<1> QED
  BY <1>2, <1>3, <1>4, OneGoes

LEMMA Receiving ==
    ASSUME TypeOK, NEW t \in Task, Awake(job[t]), NEW v \in Read
    PROVE  Goes(received(t, v))
<1>1. job[t].values \in Seq(Read)
  BY DEF TypeOK, Job
<1>2. Append(job[t].values, v) \in Seq(Read)
  BY <1>1
<1>3. resume(t, Append(job[t].values, v)) \in Job /\ Awake(resume(t, Append(job[t].values, v)))
  BY <1>2, ResumeAwake
<1> QED
  BY <1>3 DEF TypeOK, received, Goes, Awake

LEMMA Telling ==
    ASSUME TypeOK, NEW t \in Task, Awake(job[t]), NEW tasks \in SUBSET Task,
           NEW pc \in Pc \ {"idle", "start"}, NEW next \in Pc \ {"idle", "start"}
    PROVE  Goes(tell(t, pc, tasks, next))
<1> DEFINE to == IF tasks = {} THEN next ELSE pc
           j == [[job[t] EXCEPT !.pc = to] EXCEPT !.dependents = tasks]
<1>1. job[t] \in Job
  BY DEF TypeOK
<1>2. j \in Job
  BY <1>1 DEF Job
<1>3. Awake(j)
  BY <1>1 DEF Job, Awake
<1>4. tell(t, pc, tasks, next) = [job EXCEPT ![t] = j]
  BY <1>1 DEF tell, TypeOK, Job
<1> HIDE DEF j
<1> QED
  BY <1>2, <1>3, <1>4, OneGoes

LEMMA Remaining ==
    ASSUME TypeOK, NEW t \in Task, Awake(job[t]), NEW edge
    PROVE  Goes(remaining(t, edge))
<1> DEFINE left == job[t].old_edges \ {edge}
           j == [[job[t] EXCEPT !.pc = IF left = {} THEN "finish" ELSE "cleanup"]
                    EXCEPT !.old_edges = left]
<1>1. job[t] \in Job
  BY DEF TypeOK
<1>2. j \in Job
  BY <1>1 DEF Job, Pc
<1>3. Awake(j)
  BY <1>1 DEF Job, Awake
<1>4. remaining(t, edge) = [job EXCEPT ![t] = j]
  BY <1>1 DEF remaining, TypeOK, Job
<1> HIDE DEF j
<1> QED
  BY <1>2, <1>3, <1>4, OneGoes

LEMMA Notifying ==
    ASSUME NEW jobs \in [Task -> Job], NEW t \in Task,
           NEW from \in Pc \ {"idle", "start"}, NEW to \in Pc \ {"idle", "start"}
    PROVE  /\ notify(jobs, t, from, to) \in [Task -> Job]
           /\ \A x \in Task : /\ notify(jobs, t, from, to)[x].pc = "idle" <=> jobs[x].pc = "idle"
                              /\ notify(jobs, t, from, to)[x].pc = "start" <=> jobs[x].pc = "start"
<1>1. \A x \in Task : [jobs[x] EXCEPT !.pc = to] \in Job /\ [jobs[x] EXCEPT !.pc = to].pc = to
  <2> TAKE x \in Task
  <2>1. jobs[x] \in Job
    OBVIOUS
  <2>2. [jobs[x] EXCEPT !.pc = to] \in Job
    BY <2>1, JobTo
  <2> QED
    BY <2>1, <2>2 DEF Job
<1>2. \A x \in Task : notify(jobs, t, from, to)[x] \in {jobs[x], [jobs[x] EXCEPT !.pc = to]}
  BY DEF notify
<1>3. \A x \in Task : \/ notify(jobs, t, from, to)[x] = jobs[x]
                     \/ /\ jobs[x].pc = from
                        /\ notify(jobs, t, from, to)[x] = [jobs[x] EXCEPT !.pc = to]
  BY DEF notify
<1>4. notify(jobs, t, from, to) \in [Task -> Job]
  BY <1>1 DEF notify
<1> QED
  BY <1>1, <1>3, <1>4

LEMMA NotifyingDone ==
    ASSUME NEW jobs \in [Task -> Job], NEW t \in Task
    PROVE  /\ notify_done(jobs, t) \in [Task -> Job]
           /\ \A x \in Task : /\ notify_done(jobs, t)[x].pc = "idle" <=> jobs[x].pc = "idle"
                              /\ notify_done(jobs, t)[x].pc = "start" <=> jobs[x].pc = "start"
BY Notifying DEF notify_done, Pc

LEMMA NotifyingCell ==
    ASSUME NEW jobs \in [Task -> Job], NEW t \in Task
    PROVE  /\ notify_cell(jobs, t) \in [Task -> Job]
           /\ \A x \in Task : /\ notify_cell(jobs, t)[x].pc = "idle" <=> jobs[x].pc = "idle"
                              /\ notify_cell(jobs, t)[x].pc = "start" <=> jobs[x].pc = "start"
BY Notifying DEF notify_cell, Pc

-----------------------------------------------------------------------------
(* Tasks that are scheduled                                                *)

Inv == TypeOK /\ OneJob /\ DirtyIsScheduled

(* A task that has no InProgress has no job, so the new one is the only.   *)
LEMMA Scheduling ==
    ASSUME Inv, NEW u \in Task, NEW jobs, Goes(jobs), add_scheduled(u, jobs)
    PROVE  /\ in_progress' \in [Task -> InProgress] /\ job' \in [Task -> Job]
           /\ OneJob'
           /\ \A x \in Task : in_progress[x].state # "none" => in_progress'[x].state # "none"
           /\ in_progress'[u].state # "none"
<1>1. spawned \in Job /\ spawned.pc = "start"
  BY DEF spawned, at, Job, Pc
<1>2. scheduled \in InProgress /\ scheduled.state = "scheduled"
  BY DEF scheduled, InProgress
<1>3. CASE in_progress[u].state = "none"
  <2>1. /\ in_progress' = [in_progress EXCEPT ![u] = scheduled]
        /\ job' = [jobs EXCEPT ![u] = spawned]
    BY <1>3 DEF add_scheduled
  <2>2. in_progress' \in [Task -> InProgress] /\ job' \in [Task -> Job]
    BY <1>1, <1>2, <2>1 DEF Inv, TypeOK, Goes
  <2>3. /\ in_progress'[u].state = "scheduled" /\ job'[u].pc = "start"
        /\ \A x \in Task \ {u} : in_progress'[x] = in_progress[x] /\ job'[x] = jobs[x]
    BY <1>1, <1>2, <2>1 DEF Inv, TypeOK, Goes
  <2>4. OneJob'
    BY <2>3 DEF Inv, OneJob, Goes
  <2> QED
    BY <2>2, <2>3, <2>4
<1>4. CASE in_progress[u].state # "none"
  BY <1>4 DEF Inv, TypeOK, OneJob, Goes, add_scheduled
<1> QED
  BY <1>3, <1>4

(* An invalidated task executes or is going to.                            *)
LEMMA MakingDirty ==
    ASSUME Inv, NEW r \in Task, NEW jobs, Goes(jobs), make_task_dirty(r, jobs)
    PROVE  /\ in_progress' \in [Task -> InProgress] /\ job' \in [Task -> Job]
           /\ dirty' \subseteq Task
           /\ OneJob' /\ DirtyIsScheduled'
<1>1. dirty' = dirty \cup {r}
  BY DEF make_task_dirty
<1>2. CASE in_progress[r].state = "running"
  <2>1. in_progress' = [in_progress EXCEPT ![r].stale = TRUE] /\ job' = jobs
    BY <1>2 DEF make_task_dirty
  <2>2. in_progress \in [Task -> InProgress]
    BY DEF Inv, TypeOK
  <2>3. /\ in_progress' \in [Task -> InProgress]
        /\ \A x \in Task : in_progress'[x].state = in_progress[x].state
    BY <2>1, <2>2 DEF InProgress
  <2> QED
    BY <1>1, <1>2, <2>1, <2>3 DEF Inv, TypeOK, OneJob, DirtyIsScheduled, Goes
<1>3. CASE in_progress[r].state # "running" /\ r \in dirty
  BY <1>1, <1>3 DEF make_task_dirty, Inv, TypeOK, OneJob, DirtyIsScheduled, Goes
<1>4. CASE in_progress[r].state # "running" /\ r \notin dirty
  <2>1. add_scheduled(r, jobs)
    BY <1>4 DEF make_task_dirty
  <2> QED
    BY <1>1, <2>1, Scheduling DEF Inv, TypeOK, DirtyIsScheduled
<1> QED
  BY <1>2, <1>3, <1>4

-----------------------------------------------------------------------------
(* The steps of a job.  In all of them the job is awake before; they       *)
(* differ in what they change besides it.                                  *)

(* A step that moves one job and neither starts nor ends one.              *)
LEMMA JobGoes ==
    ASSUME Inv, Goes(job'), UNCHANGED <<in_progress, dirty>>
    PROVE  job' \in [Task -> Job] /\ OneJob' /\ DirtyIsScheduled'
BY DEF Inv, OneJob, DirtyIsScheduled, Goes

LEMMA InitInv == Init => Inv
<1> SUFFICES ASSUME Init PROVE Inv
  OBVIOUS
<1>1. /\ spawned \in Job /\ spawned.pc = "start"
      /\ idle \in Job /\ idle.pc = "idle"
  BY DEF spawned, idle, at, Job, Pc
<1>2. /\ none \in InProgress /\ none.state = "none"
      /\ scheduled \in InProgress /\ scheduled.state = "scheduled"
  BY DEF none, scheduled, InProgress
<1>3. in_progress \in [Task -> InProgress] /\ job \in [Task -> Job]
  BY <1>1, <1>2 DEF Init
<1>4. /\ changes \in 0..MaxChanges /\ drops \in 0..MaxDrops
      /\ seen \in [Task -> Seq(Read)]
  BY BoundAssumption DEF Init
<1>5. state \in [value : Value, invalidators : SUBSET Task, taken : SUBSET Task]
  BY DEF Init
<1>6. /\ dependent \in [Task -> SUBSET (Kind \X Task)]
      /\ dependency \in [Task -> SUBSET (Kind \X Task)]
      /\ outdated \in [Task -> SUBSET (Kind \X Task)]
  BY DEF Init
<1>7. TypeOK
  BY <1>3, <1>4, <1>5, <1>6 DEF Init, TypeOK
<1>8. OneJob /\ DirtyIsScheduled
  BY <1>1, <1>2 DEF Init, OneJob, DirtyIsScheduled
<1> QED
  BY <1>7, <1>8 DEF Inv

(* The start of a job.                                                     *)
LEMMA StartInv ==
    ASSUME Inv, NEW t \in Task, start(t)
    PROVE  Inv'
<1>1. CASE task_execution_canceled(t)
  <2> DEFINE jobs == [job EXCEPT ![t] = idle]
  <2>1. idle \in Job /\ idle.pc = "idle" /\ canceled \in InProgress /\ canceled.state = "canceled"
    BY DEF idle, at, Job, Pc, canceled, InProgress
  <2>2. jobs \in [Task -> Job] /\ jobs[t].pc = "idle" /\ \A x \in Task \ {t} : jobs[x] = job[x]
    BY <2>1 DEF Inv, TypeOK
  <2>3. /\ job' = notify_done(jobs, t)
        /\ in_progress' = [in_progress EXCEPT ![t] = canceled]
    BY <1>1 DEF task_execution_canceled
  <2> HIDE DEF jobs
  <2>4. /\ job' \in [Task -> Job] /\ job'[t].pc = "idle"
        /\ \A x \in Task \ {t} : /\ job'[x].pc = "idle" <=> job[x].pc = "idle"
                                 /\ job'[x].pc = "start" <=> job[x].pc = "start"
    BY <2>2, <2>3, NotifyingDone
  <2>5. /\ in_progress' \in [Task -> InProgress] /\ in_progress'[t].state = "canceled"
        /\ \A x \in Task \ {t} : in_progress'[x] = in_progress[x]
    BY <2>1, <2>3 DEF Inv, TypeOK
  <2>6. TypeOK'
    BY <1>1, <2>4, <2>5 DEF task_execution_canceled, cells, edges, bounds, Inv, TypeOK
  <2>7. OneJob'
    BY <2>4, <2>5 DEF Inv, OneJob
  <2>8. DirtyIsScheduled'
    BY <1>1, <2>5 DEF task_execution_canceled, Inv, DirtyIsScheduled, TypeOK
  <2> QED
    BY <2>6, <2>7, <2>8 DEF Inv
<1>2. CASE try_start_task_execution(t)
  <2>1. running \in InProgress /\ running.state = "running"
    BY DEF running, InProgress
  <2>2. resume(t, <<>>) \in Job /\ Awake(resume(t, <<>>))
    <3>1. <<>> \in Seq(Read)
      OBVIOUS
    <3> QED
      BY <3>1, ResumeAwake
  <2>3. /\ job' = [job EXCEPT ![t] = resume(t, <<>>)]
        /\ in_progress' = [in_progress EXCEPT ![t] = running]
    BY <1>2 DEF try_start_task_execution
  <2>4. /\ job' \in [Task -> Job] /\ Awake(job'[t]) /\ \A x \in Task \ {t} : job'[x] = job[x]
    BY <2>2, <2>3 DEF Inv, TypeOK
  <2>5. /\ in_progress' \in [Task -> InProgress] /\ in_progress'[t].state = "running"
        /\ \A x \in Task \ {t} : in_progress'[x] = in_progress[x]
    BY <2>1, <2>3 DEF Inv, TypeOK
  <2>6. outdated' \in [Task -> SUBSET (Kind \X Task)]
    BY <1>2 DEF try_start_task_execution, Inv, TypeOK
  <2>7. TypeOK'
    BY <1>2, <2>4, <2>5, <2>6 DEF try_start_task_execution, cells, bounds, Inv, TypeOK
  <2>8. OneJob'
    BY <2>4, <2>5 DEF Inv, OneJob, Awake
  <2>9. DirtyIsScheduled'
    BY <1>2, <2>5 DEF try_start_task_execution, Inv, DirtyIsScheduled, TypeOK
  <2> QED
    BY <2>7, <2>8, <2>9 DEF Inv
<1> QED
  BY <1>1, <1>2 DEF start

LEMMA DependencyTypes ==
    ASSUME TypeOK, NEW t \in Task, NEW u \in Task, NEW kind \in Kind, add_dependency(t, u, kind)
    PROVE  /\ dependent' \in [Task -> SUBSET (Kind \X Task)]
           /\ dependency' \in [Task -> SUBSET (Kind \X Task)]
           /\ outdated' \in [Task -> SUBSET (Kind \X Task)]
<1>1. <<kind, t>> \in Kind \X Task /\ <<kind, u>> \in Kind \X Task
  OBVIOUS
<1>2. dependent' \in [Task -> SUBSET (Kind \X Task)]
  BY <1>1 DEF add_dependency, TypeOK
<1>3. dependency' \in [Task -> SUBSET (Kind \X Task)]
  BY <1>1 DEF add_dependency, TypeOK
<1>4. outdated' \in [Task -> SUBSET (Kind \X Task)]
  BY <1>1 DEF add_dependency, TypeOK
<1> QED
  BY <1>2, <1>3, <1>4

(* The reads: the job goes on or waits, with or without a dependency.      *)
LEMMA ReadInv ==
    ASSUME Inv, NEW t \in Task, NEW u \in Task, read(t, u)
    PROVE  Inv'
<1> USE DEF Inv
<1>1. Err \in Read /\ Ok \in Read /\ "output" \in Kind /\ "cell" \in Kind
  BY DEF Read, Kind
<1>2. {"await_done", "read_output", "read", "await_cell"} \subseteq Pc \ {"idle", "start"}
  BY DEF Pc
<1>3. CASE connect_child(t, u)
  <2>1. Awake(job[t])
    BY <1>3 DEF connect_child, Awake
  <2>2. Goes(move(t, "read_output"))
    BY <1>2, <2>1, Moving
  <2>3. CASE output[u] = "none"
    <3>1. add_scheduled(u, move(t, "read_output"))
      BY <1>3, <2>3 DEF connect_child
    <3> QED
      BY <1>3, <2>2, <3>1, Scheduling
         DEF connect_child, cells, edges, bounds, TypeOK, DirtyIsScheduled
  <2>4. CASE output[u] # "none"
    <3>1. Goes(job') /\ UNCHANGED <<in_progress, dirty>>
      BY <1>3, <2>2, <2>4 DEF connect_child
    <3> QED
      BY <1>3, <3>1, JobGoes DEF connect_child, cells, edges, bounds, TypeOK
  <2> QED
    BY <2>3, <2>4
<1>4. CASE listen_to_done_event(t, u)
  <2>1. Awake(job[t])
    BY <1>4 DEF listen_to_done_event, reading_output, Awake
  <2>2. Goes(job')
    BY <1>2, <1>4, <2>1, Moving DEF listen_to_done_event
  <2> QED
    BY <1>4, <2>2, JobGoes DEF listen_to_done_event, cells, edges, bounds, TypeOK
<1>5. CASE read_canceled_output(t, u)
  <2>1. Awake(job[t])
    BY <1>5 DEF read_canceled_output, reading_output, Awake
  <2>2. Goes(job')
    BY <1>1, <1>5, <2>1, Receiving DEF read_canceled_output
  <2> QED
    BY <1>5, <2>2, JobGoes DEF read_canceled_output, cells, edges, bounds, TypeOK
<1>6. CASE try_read_task_output(t, u)
  <2>1. Awake(job[t])
    BY <1>6 DEF try_read_task_output, reading_output, Awake
  <2>2. job' \in {received(t, Err), received(t, Ok), move(t, "read")}
    BY <1>6 DEF try_read_task_output
  <2>3. Goes(job')
    BY <1>1, <1>2, <2>1, <2>2, Receiving, Moving
  <2>4. add_dependency(t, u, "output")
    BY <1>6 DEF try_read_task_output
  <2> QED
    BY <1>1, <1>6, <2>3, <2>4, JobGoes, DependencyTypes
       DEF try_read_task_output, cells, bounds, TypeOK
<1>7. CASE try_read_task_cell(t, u)
  <2>1. Awake(job[t])
    BY <1>7 DEF try_read_task_cell, reading_cell, Awake
  <2>2. cell[u] \in Read
    BY <1>7 DEF try_read_task_cell, TypeOK, Read
  <2>3. Goes(job')
    BY <1>7, <2>1, <2>2, Receiving DEF try_read_task_cell
  <2>4. add_dependency(t, u, "cell")
    BY <1>7 DEF try_read_task_cell
  <2> QED
    BY <1>1, <1>7, <2>3, <2>4, JobGoes, DependencyTypes
       DEF try_read_task_cell, cells, bounds, TypeOK
<1>8. CASE read_removed_cell(t, u)
  <2>1. Awake(job[t])
    BY <1>8 DEF read_removed_cell, reading_cell, Awake
  <2>2. Goes(job')
    BY <1>1, <1>8, <2>1, Receiving DEF read_removed_cell
  <2>3. add_dependency(t, u, "cell")
    BY <1>8 DEF read_removed_cell
  <2> QED
    BY <1>1, <1>8, <2>2, <2>3, JobGoes, DependencyTypes
       DEF read_removed_cell, cells, bounds, TypeOK
<1>9. CASE listen_to_cell(t, u)
  <2>1. Awake(job[t])
    BY <1>9 DEF listen_to_cell, reading_cell, Awake
  <2>2. Goes(move(t, "await_cell"))
    BY <1>2, <2>1, Moving
  <2>3. CASE u \in in_progress_cell
    <3>1. Goes(job') /\ UNCHANGED <<in_progress, dirty>>
      BY <1>9, <2>2, <2>3 DEF listen_to_cell
    <3> QED
      BY <1>9, <3>1, JobGoes DEF listen_to_cell, edges, bounds, TypeOK
  <2>4. CASE u \notin in_progress_cell
    <3>1. add_scheduled(u, move(t, "await_cell"))
      BY <1>9, <2>4 DEF listen_to_cell
    <3> QED
      BY <1>9, <2>2, <3>1, Scheduling DEF listen_to_cell, edges, bounds, TypeOK, DirtyIsScheduled
  <2> QED
    BY <2>3, <2>4
<1>10. CASE read_canceled_cell(t, u)
  <2>1. Awake(job[t])
    BY <1>10 DEF read_canceled_cell, reading_cell, Awake
  <2>2. Goes(job')
    BY <1>1, <1>10, <2>1, Receiving DEF read_canceled_cell
  <2> QED
    BY <1>10, <2>2, JobGoes DEF read_canceled_cell, edges, bounds, TypeOK
<1> QED
  BY <1>3, <1>4, <1>5, <1>6, <1>7, <1>8, <1>9, <1>10 DEF read

(* What an execution writes, and whom it tells.                            *)
LEMMA WriteInv ==
    ASSUME Inv, NEW t \in Task,
           \/ get(t) \/ update_output(t)
           \/ \E v \in Value : update_cell(t, v)
           \/ \E r \in Task : make_dependent_dirty(t, r)
    PROVE  Inv'
<1> USE DEF Inv
<1>1. CASE get(t)
  <2>1. Awake(job[t]) /\ state.value \in Read
    BY <1>1 DEF get, Awake, TypeOK, Read
  <2>2. Goes(job')
    BY <1>1, <2>1, Receiving DEF get
  <2>3. state' \in [value : Value, invalidators : SUBSET Task, taken : SUBSET Task]
    BY <1>1 DEF get, TypeOK
  <2> QED
    BY <1>1, <2>2, <2>3, JobGoes DEF get, cells, edges, bounds, TypeOK
<1>2. ASSUME NEW v \in Value, update_cell(t, v)
      PROVE  Inv'
  <2>1. Awake(job[t])
    BY <1>2 DEF update_cell, Awake
  <2>2. /\ {"update_output", "tell_cell_changed"} \subseteq Pc \ {"idle", "start"}
        /\ dependents(t, "cell") \in SUBSET Task
    BY DEF Pc, dependents
  <2>3. CASE t \in Compared /\ cell[t] = v
    <3>1. Goes(job')
      BY <1>2, <2>1, <2>2, <2>3, Moving DEF update_cell
    <3> QED
      BY <1>2, <2>3, <3>1, JobGoes DEF update_cell, cells, edges, bounds, TypeOK
  <2>4. CASE ~(t \in Compared /\ cell[t] = v)
    <3> DEFINE tasks == IF t \in dirty THEN dependents(t, "cell") ELSE {}
               jobs == tell(t, "tell_cell_changed", tasks, "update_output")
    <3>1. tasks \in SUBSET Task
      BY <2>2
    <3>2. Goes(jobs)
      <4> HIDE DEF tasks
      <4> QED
        BY <2>1, <2>2, <3>1, Telling
    <3>3. job' = notify_cell(jobs, t)
      BY <1>2, <2>4 DEF update_cell
    <3> HIDE DEF jobs
    <3>4. Goes(job')
      BY <3>2, <3>3, NotifyingCell DEF Goes
    <3>5. cell' = [cell EXCEPT ![t] = v]
      BY <1>2, <2>4 DEF update_cell
    <3>6. contents' \in [Task -> SUBSET (Value \cup {Missing})]
      <4>1. contents \in [Task -> SUBSET (Value \cup {Missing})]
        BY DEF Inv, TypeOK
      <4>2. PICK new : new = (IF t \in dirty THEN {v} ELSE contents[t] \cup {v}) /\ contents' = [contents EXCEPT ![t] = new]
        BY <1>2, <2>4 DEF update_cell
      <4> QED  BY <4>1, <4>2
    <3> QED
      BY <1>2, <2>4, <3>4, <3>5, <3>6, JobGoes DEF update_cell, edges, bounds, TypeOK
  <2> QED
    BY <2>3, <2>4
<1>3. CASE update_output(t)
  <2>1. Awake(job[t]) /\ in_progress[t].state # "none"
    BY <1>3 DEF update_output, Awake, OneJob
  <2>2. /\ {"complete", "tell_output_changed"} \subseteq Pc \ {"idle", "start"}
        /\ dependents(t, "output") \in SUBSET Task
    BY DEF Pc, dependents
  <2>3. Goes(job')
    BY <1>3, <2>1, <2>2, Moving, Telling DEF update_output
  <2>4. UNCHANGED in_progress /\ (dirty' = dirty \/ dirty' = dirty \cup {t})
    BY <1>3 DEF update_output
  <2>5. output' \in [Task -> {"none", "error", "cell"}]
    BY <1>3 DEF update_output, TypeOK
  <2>6. TypeOK'
    BY <1>3, <2>3, <2>4, <2>5 DEF update_output, cells, edges, bounds, TypeOK, Goes
  <2>7. OneJob' /\ DirtyIsScheduled'
    BY <2>1, <2>3, <2>4 DEF Goes, OneJob, DirtyIsScheduled
  <2> QED
    BY <2>6, <2>7
<1>4. ASSUME NEW r \in Task, make_dependent_dirty(t, r)
      PROVE  Inv'
  <2> DEFINE next == IF job[t].pc = "tell_cell_changed" THEN "update_output" ELSE "complete"
             jobs == tell(t, job[t].pc, job[t].dependents \ {r}, next)
  <2>1. /\ Awake(job[t]) /\ job[t].pc \in Pc \ {"idle", "start"}
        /\ next \in Pc \ {"idle", "start"} /\ job[t].dependents \ {r} \in SUBSET Task
    BY <1>4 DEF make_dependent_dirty, Awake, Pc, TypeOK, Job
  <2>2. Goes(jobs)
    <3> HIDE DEF next
    <3> QED
      BY <2>1, Telling
  <2>3. make_task_dirty(r, jobs)
    BY <1>4 DEF make_dependent_dirty
  <2> HIDE DEF jobs
  <2> QED
    BY <1>4, <2>2, <2>3, MakingDirty DEF make_dependent_dirty, cells, edges, bounds, TypeOK
<1> QED
  BY <1>1, <1>2, <1>3, <1>4

(* task_execution_completed.                                               *)
LEMMA Rescheduling ==
    ASSUME Inv, NEW t \in Task, in_progress[t].state # "none", reschedule(t)
    PROVE  /\ in_progress' \in [Task -> InProgress] /\ job' \in [Task -> Job]
           /\ OneJob'
           /\ \A x \in Task : in_progress[x].state # "none" => in_progress'[x].state # "none"
<1>1. spawned \in Job /\ spawned.pc = "start"
  BY DEF spawned, at, Job, Pc
<1>2. scheduled \in InProgress /\ scheduled.state = "scheduled"
  BY DEF scheduled, InProgress
<1>3. in_progress' \in [Task -> InProgress] /\ job' \in [Task -> Job]
  BY <1>1, <1>2 DEF reschedule, Inv, TypeOK
<1>4. /\ in_progress'[t].state = "scheduled" /\ job'[t].pc = "start"
      /\ \A x \in Task \ {t} : in_progress'[x] = in_progress[x] /\ job'[x] = job[x]
  BY <1>1, <1>2 DEF reschedule, Inv, TypeOK
<1> QED
  BY <1>3, <1>4 DEF Inv, OneJob

LEMMA CompleteInv ==
    ASSUME Inv, NEW t \in Task, complete(t)
    PROVE  Inv'
<1> USE DEF Inv
<1>1. Awake(job[t]) /\ in_progress[t].state # "none"
  BY DEF complete, Awake, OneJob
<1>2. CASE in_progress[t].stale
  <2>1. reschedule(t)
    BY <1>2 DEF complete
  <2> QED
    BY <1>1, <1>2, <2>1, Rescheduling DEF complete, edges, bounds, TypeOK, DirtyIsScheduled
<1>3. CASE ~in_progress[t].stale
  <2> DEFINE removed == result(t, job[t].values) = Err
             old == outdated[t] \cup
                    IF removed THEN {<<"removed", r>> : r \in dependents(t, "cell")} ELSE {}
             j == [[job[t] EXCEPT !.pc = IF old = {} THEN "finish" ELSE "cleanup"]
                      EXCEPT !.old_edges = old]
             jobs == [job EXCEPT ![t] = j]
  <2>1. old \in SUBSET ((Kind \cup {"removed"}) \X Task)
    <3>1. outdated[t] \in SUBSET (Kind \X Task) /\ dependents(t, "cell") \in SUBSET Task
      BY DEF TypeOK, dependents
    <3>2. {<<"removed", r>> : r \in dependents(t, "cell")} \in SUBSET ({"removed"} \X Task)
      BY <3>1
    <3> QED
      BY <3>1, <3>2
  <2>2. j \in Job /\ Awake(j)
    <3> HIDE DEF old
    <3>1. job[t] \in Job
      BY DEF TypeOK
    <3> QED
      BY <2>1, <3>1 DEF Job, Pc, Awake
  <2>3. Goes(jobs)
    <3> HIDE DEF j
    <3> QED
      BY <1>1, <2>2, OneGoes
  <2>4. job' = notify_done(jobs, t)
    <3>1. job' = notify_done([job EXCEPT ![t].pc = IF old = {} THEN "finish" ELSE "cleanup",
                                         ![t].old_edges = old], t)
      BY <1>3 DEF complete
    <3>2. [job EXCEPT ![t].pc = IF old = {} THEN "finish" ELSE "cleanup", ![t].old_edges = old]
            = jobs
      BY DEF TypeOK, Job
    <3> QED
      BY <3>1, <3>2
  <2>5. /\ in_progress' = [in_progress EXCEPT ![t].marked_as_completed = TRUE]
        /\ celled' = (IF removed THEN celled \ {t} ELSE celled \cup {t})
        /\ cell' = (IF removed THEN [cell EXCEPT ![t] = Missing] ELSE cell)
        /\ contents' = (IF removed THEN [contents EXCEPT ![t] = {}] ELSE contents)
    BY <1>3 DEF complete
  <2>6. /\ celled' \subseteq Task /\ cell' \in [Task -> Value \cup {Missing}]
        /\ contents' \in [Task -> SUBSET (Value \cup {Missing})]
    BY <2>5 DEF TypeOK
  <2> HIDE DEF jobs, removed
  <2>7. Goes(job')
    BY <2>3, <2>4, NotifyingDone DEF Goes
  <2>8. /\ in_progress' \in [Task -> InProgress]
        /\ \A x \in Task : in_progress'[x].state = in_progress[x].state
    <3>1. in_progress \in [Task -> InProgress]
      BY DEF Inv, TypeOK
    <3> QED  BY <2>5, <3>1 DEF InProgress
  <2>9. UNCHANGED <<dirty, output, in_progress_cell, edges, state, stopped, seen, bounds>>
    BY DEF complete
  <2>10. TypeOK'
    BY <2>6, <2>7, <2>8, <2>9 DEF edges, bounds, TypeOK, Goes
  <2>11. OneJob' /\ DirtyIsScheduled'
    BY <2>7, <2>8, <2>9 DEF Goes, OneJob, DirtyIsScheduled, TypeOK
  <2> QED
    BY <2>10, <2>11
<1> QED
  BY <1>2, <1>3

LEMMA CleanUpInv ==
    ASSUME Inv, NEW t \in Task, NEW u \in Task, clean_up(t, u)
    PROVE  Inv'
<1> USE DEF Inv
<1>1. ASSUME NEW kind \in {"output", "cell"}, remove_dependency(t, u, kind)
      PROVE  Inv'
  <2>1. Awake(job[t])
    BY <1>1 DEF remove_dependency, pops, Awake
  <2>2. Goes(job')
    BY <1>1, <2>1, Remaining DEF remove_dependency
  <2>3. /\ dependent' \in [Task -> SUBSET (Kind \X Task)]
        /\ dependency' \in [Task -> SUBSET (Kind \X Task)]
    BY <1>1 DEF remove_dependency, TypeOK
  <2> QED
    BY <1>1, <2>2, <2>3, JobGoes DEF remove_dependency, cells, bounds, TypeOK
<1>2. CASE removed_cell_dependent(t, u)
  <2> DEFINE jobs == remaining(t, <<"removed", u>>)
  <2>1. Awake(job[t])
    BY <1>2 DEF removed_cell_dependent, pops, Awake
  <2>2. Goes(jobs)
    BY <2>1, Remaining
  <2>3. make_task_dirty(u, jobs)
    BY <1>2 DEF removed_cell_dependent
  <2> HIDE DEF jobs
  <2> QED
    BY <1>2, <2>2, <2>3, MakingDirty DEF removed_cell_dependent, cells, edges, bounds, TypeOK
<1> QED
  BY <1>1, <1>2 DEF clean_up

(* Dirty and InProgress go away together, with the job.                    *)
LEMMA FinishInv ==
    ASSUME Inv, NEW t \in Task, finish(t)
    PROVE  Inv'
<1> USE DEF Inv
<1>1. CASE in_progress[t].stale
  <2>1. reschedule(t) /\ in_progress[t].state # "none"
    BY <1>1 DEF finish, OneJob
  <2> QED
    BY <1>1, <2>1, Rescheduling DEF finish, edges, bounds, TypeOK, DirtyIsScheduled
<1>2. CASE ~in_progress[t].stale
  <2> DEFINE jobs == [job EXCEPT ![t] = idle]
  <2>1. idle \in Job /\ idle.pc = "idle" /\ none \in InProgress /\ none.state = "none"
    BY DEF idle, at, Job, Pc, none, InProgress
  <2>2. jobs \in [Task -> Job] /\ jobs[t].pc = "idle" /\ \A x \in Task \ {t} : jobs[x] = job[x]
    BY <2>1 DEF TypeOK
  <2>3. /\ job' = notify_cell(jobs, t)
        /\ in_progress' = [in_progress EXCEPT ![t] = none]
        /\ dirty' = dirty \ {t} /\ in_progress_cell' = in_progress_cell \ {t}
        /\ seen' = [seen EXCEPT ![t] = job[t].values]
    BY <1>2 DEF finish
  <2> HIDE DEF jobs
  <2>4. /\ job' \in [Task -> Job] /\ job'[t].pc = "idle"
        /\ \A x \in Task \ {t} : /\ job'[x].pc = "idle" <=> job[x].pc = "idle"
                                 /\ job'[x].pc = "start" <=> job[x].pc = "start"
    BY <2>2, <2>3, NotifyingCell
  <2>5. /\ in_progress' \in [Task -> InProgress] /\ in_progress'[t].state = "none"
        /\ \A x \in Task \ {t} : in_progress'[x] = in_progress[x]
    BY <2>1, <2>3 DEF TypeOK
  <2>6. job[t].values \in Seq(Read)
    BY DEF TypeOK, Job
  <2>7. seen' \in [Task -> Seq(Read)]
    BY <2>3, <2>6 DEF TypeOK
  <2>8. TypeOK'
    BY <2>3, <2>4, <2>5, <2>7 DEF finish, edges, bounds, TypeOK
  <2>9. OneJob' /\ DirtyIsScheduled'
    BY <2>3, <2>4, <2>5 DEF OneJob, DirtyIsScheduled, TypeOK
  <2> QED
    BY <2>8, <2>9
<1> QED
  BY <1>1, <1>2

(* What happens outside of the tasks.                                      *)
LEMMA EnvironmentInv ==
    ASSUME Inv, environment \/ \E r \in Task : invalidate(r)
    PROVE  Inv'
<1> USE DEF Inv
<1>0. Goes(job)
  BY DEF Goes, TypeOK
<1>1. ASSUME NEW v \in Value, set(v)
      PROVE  Inv'
  <2>1. changes' \in 0..MaxChanges
    BY <1>1, BoundAssumption DEF set, TypeOK
  <2>2. state' \in [value : Value, invalidators : SUBSET Task, taken : SUBSET Task]
    BY <1>1 DEF set, TypeOK
  <2> QED
    BY <1>1, <2>1, <2>2 DEF set, cells, edges, TypeOK, OneJob, DirtyIsScheduled
<1>2. ASSUME NEW r \in Task, invalidate(r)
      PROVE  Inv'
  <2>1. state' \in [value : Value, invalidators : SUBSET Task, taken : SUBSET Task]
    BY <1>2 DEF invalidate, TypeOK
  <2>2. make_task_dirty(r, job)
    BY <1>2 DEF invalidate
  <2> QED
    BY <1>0, <1>2, <2>1, <2>2, MakingDirty DEF invalidate, cells, edges, bounds, TypeOK
<1>3. ASSUME NEW u \in Task, try_read_task_cell_untracked(u)
      PROVE  Inv'
  <2>1. add_scheduled(u, job)
    BY <1>3 DEF try_read_task_cell_untracked
  <2> QED
    BY <1>0, <1>3, <2>1, Scheduling
       DEF try_read_task_cell_untracked, edges, bounds, TypeOK, DirtyIsScheduled
<1>4. ASSUME NEW u \in Task, final_read(u)
      PROVE  Inv'
  <2>1. drops' \in 0..MaxDrops /\ changes' = changes
    BY <1>4, BoundAssumption DEF final_read, drop, TypeOK
  <2>2. cell' \in [Task -> Value \cup {Missing}] /\ contents' \in [Task -> SUBSET (Value \cup {Missing})]
    BY <1>4 DEF final_read, drop, TypeOK
  <2> QED
    BY <1>4, <2>1, <2>2 DEF final_read, edges, TypeOK, OneJob, DirtyIsScheduled
<1>5. CASE stop_and_wait
  BY <1>5 DEF stop_and_wait, cells, edges, bounds, TypeOK, OneJob, DirtyIsScheduled
<1>6. CASE restart
  <2>1. drops' \in 0..MaxDrops /\ changes' = changes
    BY <1>6, BoundAssumption DEF restart, drop, TypeOK
  <2>2. /\ cell' \in [Task -> Value \cup {Missing}] /\ outdated' \in [Task -> SUBSET (Kind \X Task)]
        /\ contents' \in [Task -> SUBSET (Value \cup {Missing})]
    BY <1>6 DEF restart, drop, TypeOK
  <2> QED
    BY <1>6, <2>1, <2>2 DEF restart, TypeOK, OneJob, DirtyIsScheduled
<1> QED
  BY <1>1, <1>2, <1>3, <1>4, <1>5, <1>6 DEF environment

LEMMA StepInv == Inv /\ [Next]_vars => Inv'
<1> SUFFICES ASSUME Inv, [Next]_vars
             PROVE  Inv'
  OBVIOUS
<1>1. CASE UNCHANGED vars
  BY <1>1 DEF vars, cells, edges, bounds, Inv, TypeOK, OneJob, DirtyIsScheduled
<1>2. ASSUME NEW t \in Task, execute(t)
      PROVE  Inv'
  BY <1>2, StartInv, ReadInv, WriteInv, CompleteInv, CleanUpInv, FinishInv DEF execute
<1>3. CASE environment \/ \E r \in Task : invalidate(r)
  BY <1>3, EnvironmentInv
<1> QED
  BY <1>1, <1>2, <1>3 DEF Next, work

THEOREM InvAlways == Spec => []Inv
<1>1. Init => Inv
  BY InitInv
<1>2. Inv /\ [Next]_vars => Inv'
  BY StepInv
<1> QED
  BY <1>1, <1>2, PTL DEF Spec

(* Every variable keeps its type, whatever the tasks compute.              *)
THEOREM TypeCorrect == Spec => []TypeOK
BY InvAlways, PTL DEF Inv

(* A task never has two jobs, and a job finds its task in the state it     *)
(* expects (the panics of task_execution_completed do not happen).         *)
THEOREM OneJobAlways == Spec => []OneJob
BY InvAlways, PTL DEF Inv

(* A dirty task executes or is going to, so make_task_dirty loses nothing  *)
(* when it does not schedule a task that is dirty already.                 *)
THEOREM DirtyIsScheduledAlways == Spec => []DirtyIsScheduled
BY InvAlways, PTL DEF Inv

-----------------------------------------------------------------------------
(* Outputs                                                                 *)

Calling == {"read_output", "await_done"}
Ending == {"tell_output_changed", "complete", "cleanup", "finish"}

(* The job of t is past update_output, and the execution was not stale.    *)
Ended(t) ==
    \/ job[t].pc \in Ending \ {"complete"}
    \/ job[t].pc = "complete" /\ ~in_progress[t].stale
    \/ in_progress[t].marked_as_completed

EndedHasOutput == \A t \in Task : Ended(t) => output[t] # "none"

CalledIsKnown ==
    \A t, u \in Task :
        job[t].pc \in Calling /\ access(t).task = u
            => in_progress[u].state # "none" \/ output[u] # "none"

OutputInv == EndedHasOutput /\ CalledIsKnown

(* What a step has to respect.                                             *)
LEMMA OutputStep ==
    ASSUME OutputInv,
           \A x \in Task : output[x] # "none" => output'[x] # "none",
           \A x, u \in Task :
               job'[x].pc \in Calling /\ NextRead(x, job'[x].values).task = u =>
                   \/ job[x].pc \in Calling /\ job'[x].values = job[x].values
                   \/ in_progress'[u].state # "none" \/ output'[u] # "none",
           \A x \in Task : in_progress[x].state # "none" =>
                              in_progress'[x].state # "none" \/ output'[x] # "none",
           \A x \in Task : Ended(x)' => Ended(x) \/ output'[x] # "none"
    PROVE  OutputInv'
<1>1. EndedHasOutput'
  BY DEF OutputInv, EndedHasOutput
<1>2. CalledIsKnown'
  BY DEF OutputInv, CalledIsKnown, access
<1> QED
  BY <1>1, <1>2 DEF OutputInv

(* In jobs no job has begun to call, or to end without an output.          *)
Plain(jobs) ==
    \A x \in Task :
        /\ jobs[x].pc \in Calling => job[x].pc \in Calling /\ jobs[x].values = job[x].values
        /\ jobs[x].pc \in Ending => jobs[x].pc = job[x].pc \/ output[x] # "none"

LEMMA PlainMove ==
    ASSUME TypeOK, NEW t \in Task, NEW pc, pc \notin Calling \cup Ending
    PROVE  Plain(move(t, pc))
<1>1. \A x \in Task : x # t => move(t, pc)[x] = job[x]
  BY DEF move, TypeOK
<1>2. move(t, pc)[t].pc = pc
  BY DEF move, TypeOK, Job
<1> QED
  BY <1>1, <1>2 DEF Plain

LEMMA PlainReceived ==
    ASSUME TypeOK, NEW t \in Task, NEW v
    PROVE  Plain(received(t, v))
<1> DEFINE j == resume(t, Append(job[t].values, v))
<1>1. j.pc \notin Calling \cup Ending
  BY DEF resume, at, Calling, Ending
<1>2. received(t, v) = [job EXCEPT ![t] = j]
  BY DEF received
<1> HIDE DEF j
<1> QED
  BY <1>1, <1>2 DEF Plain, TypeOK

LEMMA PlainNotify ==
    ASSUME NEW jobs \in [Task -> Job], Plain(jobs), NEW t \in Task
    PROVE  Plain(notify_done(jobs, t)) /\ Plain(notify_cell(jobs, t))
<1>1. ASSUME NEW from, NEW to,
             to \in Calling => from \in Calling, to \notin Ending
      PROVE  Plain(notify(jobs, t, from, to))
  <2>1. \A x \in Task : /\ [jobs[x] EXCEPT !.pc = to].pc = to
                       /\ [jobs[x] EXCEPT !.pc = to].values = jobs[x].values
    BY DEF Job
  <2>2. \A x \in Task : \/ notify(jobs, t, from, to)[x] = jobs[x]
                       \/ /\ jobs[x].pc = from
                          /\ notify(jobs, t, from, to)[x] = [jobs[x] EXCEPT !.pc = to]
    BY DEF notify
  <2> QED
    BY <1>1, <2>1, <2>2 DEF Plain
<1>2. Plain(notify(jobs, t, "await_done", "read_output"))
  BY <1>1 DEF Calling, Ending
<1>3. Plain(notify(jobs, t, "await_cell", "read"))
  BY <1>1 DEF Calling, Ending
<1> QED
  BY <1>2, <1>3 DEF notify_done, notify_cell

(* A plain move, with InProgress and the output as they were.              *)
LEMMA PlainOutput ==
    ASSUME OutputInv, Plain(job'), UNCHANGED <<in_progress, output>>
    PROVE  OutputInv'
BY OutputStep DEF Plain, Ended, Ending

LEMMA PlainSchedule ==
    ASSUME Inv, OutputInv, NEW u \in Task, NEW jobs \in [Task -> Job], Plain(jobs),
           add_scheduled(u, jobs), UNCHANGED output
    PROVE  OutputInv'
<1>1. CASE in_progress[u].state = "none"
  <2>1. spawned.pc = "start" /\ scheduled.state = "scheduled" /\ ~scheduled.marked_as_completed
    BY DEF spawned, at, scheduled
  <2>2. /\ job'[u] = spawned /\ in_progress'[u] = scheduled
        /\ \A x \in Task \ {u} : job'[x] = jobs[x] /\ in_progress'[x] = in_progress[x]
    BY <1>1 DEF add_scheduled, Inv, TypeOK
  <2>3. ~Ended(u)' /\ job'[u].pc \notin Calling
    BY <2>1, <2>2 DEF Ended, Ending, Calling
  <2>4. \A x \in Task : Ended(x)' => Ended(x) \/ output'[x] # "none"
    BY <2>2, <2>3 DEF Plain, Ended, Ending
  <2> QED
    BY <2>1, <2>2, <2>3, <2>4, OutputStep DEF Plain
<1>2. CASE in_progress[u].state # "none"
  BY <1>2, PlainOutput DEF add_scheduled
<1> QED
  BY <1>1, <1>2

LEMMA PlainDirty ==
    ASSUME Inv, OutputInv, NEW r \in Task, NEW jobs \in [Task -> Job], Plain(jobs),
           make_task_dirty(r, jobs), UNCHANGED output
    PROVE  OutputInv'
<1>1. CASE in_progress[r].state = "running"
  <2>1. in_progress' = [in_progress EXCEPT ![r].stale = TRUE] /\ job' = jobs
    BY <1>1 DEF make_task_dirty
  <2>2. \A x \in Task : /\ in_progress'[x].state = in_progress[x].state
                       /\ in_progress'[x].marked_as_completed = in_progress[x].marked_as_completed
                       /\ in_progress[x].stale => in_progress'[x].stale
    BY <2>1 DEF Inv, TypeOK, InProgress
  <2>3. \A x \in Task : Ended(x)' => Ended(x) \/ output'[x] # "none"
    BY <2>1, <2>2 DEF Plain, Ended, Ending
  <2> QED
    BY <2>1, <2>2, <2>3, OutputStep DEF Plain
<1>2. CASE in_progress[r].state # "running"
  <2>1. add_scheduled(r, jobs) \/ (job' = jobs /\ UNCHANGED in_progress)
    BY <1>2 DEF make_task_dirty
  <2> QED
    BY <2>1, PlainSchedule, PlainOutput
<1> QED
  BY <1>1, <1>2

LEMMA InitOutput == Init => OutputInv
BY DEF Init, OutputInv, EndedHasOutput, CalledIsKnown, Ended, Ending, Calling,
       spawned, idle, at, none, scheduled

(* The task of t takes the InProgress i, which is not marked, and its job  *)
(* goes to j.                                                              *)
LEMMA OutputRestart ==
    ASSUME Inv, OutputInv, NEW t \in Task, NEW i \in InProgress, NEW j \in Job,
           j.pc \notin Calling \cup Ending, ~i.marked_as_completed,
           i.state # "none" \/ output[t] # "none",
           in_progress' = [in_progress EXCEPT ![t] = i],
           \/ job' = [job EXCEPT ![t] = j]
           \/ job' = notify_done([job EXCEPT ![t] = j], t)
           \/ job' = notify_cell([job EXCEPT ![t] = j], t),
           UNCHANGED output
    PROVE  OutputInv'
<1> DEFINE jobs == [job EXCEPT ![t] = j]
<1>1. jobs \in [Task -> Job] /\ Plain(jobs)
  BY DEF Inv, TypeOK, Plain
<1>2. jobs[t].pc = j.pc
  BY DEF Inv, TypeOK
<1> HIDE DEF jobs
<1>3. Plain(job')
  BY <1>1, PlainNotify DEF jobs
<1>4. job'[t].pc \notin Ending
  <2>1. ASSUME NEW from, NEW to \in {"read_output", "read"}
        PROVE  notify(jobs, t, from, to)[t].pc \notin Ending
    BY <1>1, <1>2, <2>1 DEF notify, Ending, Job
  <2>2. /\ notify_done(jobs, t)[t].pc \notin Ending
        /\ notify_cell(jobs, t)[t].pc \notin Ending
    BY <2>1 DEF notify_done, notify_cell
  <2> QED
    BY <1>2, <2>2 DEF jobs
<1>5. in_progress'[t] = i /\ \A x \in Task \ {t} : in_progress'[x] = in_progress[x]
  BY DEF Inv, TypeOK
<1>6. \A x \in Task : Ended(x)' => Ended(x) \/ output'[x] # "none"
  BY <1>3, <1>4, <1>5 DEF Plain, Ended, Ending
<1> QED
  BY <1>3, <1>5, <1>6, OutputStep DEF Plain

LEMMA StartOutput ==
    ASSUME Inv, OutputInv, NEW t \in Task, start(t)
    PROVE  OutputInv'
<1>1. CASE task_execution_canceled(t)
  <2>1. /\ idle \in Job /\ idle.pc \notin Calling \cup Ending
        /\ canceled \in InProgress /\ ~canceled.marked_as_completed /\ canceled.state # "none"
    BY DEF idle, at, Job, Pc, Calling, Ending, canceled, InProgress
  <2> QED
    BY <1>1, <2>1, OutputRestart DEF task_execution_canceled
<1>2. CASE try_start_task_execution(t)
  <2>1. running \in InProgress /\ ~running.marked_as_completed /\ running.state # "none"
    BY DEF running, InProgress
  <2>2. <<>> \in Seq(Read)
    OBVIOUS
  <2>3. resume(t, <<>>) \in Job /\ resume(t, <<>>).pc \notin Calling \cup Ending
    BY <2>2, ResumeAwake DEF resume, at, Calling, Ending
  <2> QED
    BY <1>2, <2>1, <2>3, OutputRestart DEF try_start_task_execution
<1> QED
  BY <1>1, <1>2 DEF start

(* Who has called a task that has no output finds it scheduled.            *)
LEMMA CallOutput ==
    ASSUME Inv, OutputInv, NEW t \in Task, NEW u \in Task, connect_child(t, u)
    PROVE  OutputInv'
<1> DEFINE jobs == move(t, "read_output")
<1>1. job[t].pc = "connect_child" /\ access(t).task = u /\ UNCHANGED output
  BY DEF connect_child
<1>2. Goes(jobs)
  BY <1>1, Moving DEF Inv, Awake, Pc
<1>3. /\ jobs[t].pc = "read_output" /\ jobs[t].values = job[t].values
      /\ \A x \in Task \ {t} : jobs[x] = job[x]
  BY DEF move, Inv, TypeOK, Job
<1> HIDE DEF jobs
<1>4. CASE output[u] # "none"
  <2>1. job' = jobs /\ UNCHANGED in_progress
    BY <1>4 DEF connect_child, jobs
  <2> QED
    BY <1>1, <1>3, <1>4, <2>1, OutputStep DEF access, Ended, Ending
<1>5. CASE output[u] = "none"
  <2>1. add_scheduled(u, jobs)
    BY <1>5 DEF connect_child, jobs
  <2>2. in_progress'[u].state # "none"
    BY <1>2, <2>1, Scheduling
  <2>3. CASE in_progress[u].state = "none"
    <3>1. spawned.pc = "start" /\ scheduled.state = "scheduled" /\ ~scheduled.marked_as_completed
      BY DEF spawned, at, scheduled
    <3>2. /\ job'[u] = spawned /\ in_progress'[u] = scheduled
          /\ \A x \in Task \ {u} : job'[x] = jobs[x] /\ in_progress'[x] = in_progress[x]
      BY <1>2, <2>1, <2>3 DEF add_scheduled, Inv, TypeOK, Goes
    <3>3. ~Ended(u)' /\ job'[u].pc \notin Calling
      BY <3>1, <3>2 DEF Ended, Ending, Calling
    <3>4. \A x \in Task : Ended(x)' => Ended(x)
      BY <1>3, <3>2, <3>3 DEF Ended, Ending
    <3> QED
      BY <1>1, <1>3, <2>2, <3>1, <3>2, <3>3, <3>4, OutputStep DEF access
  <2>4. CASE in_progress[u].state # "none"
    <3>1. job' = jobs /\ UNCHANGED in_progress
      BY <2>1, <2>4 DEF add_scheduled
    <3> QED
      BY <1>1, <1>3, <2>2, <3>1, OutputStep DEF access, Ended, Ending
  <2> QED
    BY <2>3, <2>4
<1> QED
  BY <1>4, <1>5

LEMMA ReadOutput ==
    ASSUME Inv, OutputInv, NEW t \in Task, NEW u \in Task, read(t, u)
    PROVE  OutputInv'
<1> USE DEF Inv
<1>1. "read" \notin Calling \cup Ending /\ "await_cell" \notin Calling \cup Ending
  BY DEF Calling, Ending
<1>2. CASE listen_to_done_event(t, u)
  <2>1. job[t].pc = "read_output" /\ job' = move(t, "await_done")
    BY <1>2 DEF listen_to_done_event, reading_output
  <2>2. /\ job'[t].pc = "await_done" /\ job'[t].values = job[t].values
        /\ \A x \in Task \ {t} : job'[x] = job[x]
    BY <2>1 DEF move, TypeOK, Job
  <2>3. Plain(job')
    BY <2>1, <2>2 DEF Plain, Calling, Ending
  <2> QED
    BY <1>2, <2>3, PlainOutput DEF listen_to_done_event
<1>3. CASE read_canceled_output(t, u)
  BY <1>3, PlainReceived, PlainOutput DEF read_canceled_output
<1>4. CASE try_read_task_output(t, u)
  <2>1. job' \in {received(t, Err), received(t, Ok), move(t, "read")}
    BY <1>4 DEF try_read_task_output
  <2>2. Plain(job')
    BY <1>1, <2>1, PlainReceived, PlainMove
  <2> QED
    BY <1>4, <2>2, PlainOutput DEF try_read_task_output
<1>5. CASE try_read_task_cell(t, u)
  BY <1>5, PlainReceived, PlainOutput DEF try_read_task_cell
<1>6. CASE read_removed_cell(t, u)
  BY <1>6, PlainReceived, PlainOutput DEF read_removed_cell
<1>7. CASE listen_to_cell(t, u)
  <2>1. Awake(job[t])
    BY <1>7 DEF listen_to_cell, reading_cell, Awake
  <2>2. Goes(move(t, "await_cell"))
    BY <2>1, Moving DEF Pc
  <2>3. Plain(move(t, "await_cell"))
    BY <1>1, PlainMove
  <2>4. \/ add_scheduled(u, move(t, "await_cell"))
        \/ job' = move(t, "await_cell") /\ UNCHANGED in_progress
    BY <1>7 DEF listen_to_cell
  <2> QED
    BY <1>7, <2>2, <2>3, <2>4, PlainSchedule, PlainOutput DEF listen_to_cell, Goes
<1>8. CASE read_canceled_cell(t, u)
  BY <1>8, PlainReceived, PlainOutput DEF read_canceled_cell
<1> QED
  BY <1>2, <1>3, <1>4, <1>5, <1>6, <1>7, <1>8, CallOutput DEF read

(* What tells the dependents leaves output as it is, or sets it.           *)
LEMMA WriteOutput ==
    ASSUME Inv, OutputInv, NEW t \in Task,
           \/ get(t) \/ update_output(t)
           \/ \E v \in Value : update_cell(t, v)
           \/ \E r \in Task : make_dependent_dirty(t, r)
    PROVE  OutputInv'
<1> USE DEF Inv
<1>0. ASSUME NEW tasks, NEW pc, NEW next
      PROVE  /\ tell(t, pc, tasks, next)[t].pc \in {pc, next}
             /\ \A x \in Task \ {t} : tell(t, pc, tasks, next)[x] = job[x]
  <2>1. job[t] \in Job
    BY DEF TypeOK
  <2>2. tell(t, pc, tasks, next)[t] =
            [[job[t] EXCEPT !.pc = IF tasks = {} THEN next ELSE pc] EXCEPT !.dependents = tasks]
    BY DEF tell, TypeOK
  <2>3. tell(t, pc, tasks, next)[t].pc = IF tasks = {} THEN next ELSE pc
    BY <2>1, <2>2 DEF Job
  <2>4. \A x \in Task \ {t} : tell(t, pc, tasks, next)[x] = job[x]
    BY DEF tell, TypeOK
  <2> QED
    BY <2>3, <2>4
<1>1. CASE get(t)
  BY <1>1, PlainReceived, PlainOutput DEF get
<1>2. ASSUME NEW v \in Value, update_cell(t, v)
      PROVE  OutputInv'
  <2>1. CASE t \in Compared /\ cell[t] = v
    <3>1. job' = move(t, "update_output")
      BY <1>2, <2>1 DEF update_cell
    <3>2. Plain(job')
      BY <3>1, PlainMove DEF Calling, Ending
    <3> QED
      BY <1>2, <3>2, PlainOutput DEF update_cell
  <2>2. CASE ~(t \in Compared /\ cell[t] = v)
    <3> DEFINE tasks == IF t \in dirty THEN dependents(t, "cell") ELSE {}
               jobs == tell(t, "tell_cell_changed", tasks, "update_output")
    <3>1. jobs[t].pc \in {"tell_cell_changed", "update_output"} /\ \A x \in Task \ {t} : jobs[x] = job[x]
      BY <1>0
    <3>2. Goes(jobs)
      <4>1. Awake(job[t]) /\ tasks \in SUBSET Task
        BY <1>2 DEF update_cell, Awake, dependents
      <4> HIDE DEF tasks
      <4> QED
        BY <4>1, Telling DEF Pc
    <3>3. job' = notify_cell(jobs, t)
      BY <1>2, <2>2 DEF update_cell
    <3> HIDE DEF jobs
    <3>4. Plain(jobs)
      BY <3>1 DEF Plain, Calling, Ending
    <3>5. Plain(job')
      BY <3>2, <3>3, <3>4, PlainNotify DEF Goes
    <3> QED
      BY <1>2, <3>5, PlainOutput DEF update_cell
  <2> QED
    BY <2>1, <2>2
<1>3. CASE update_output(t)
  <2> DEFINE new == IF result(t, job[t].values) = Err THEN "error" ELSE "cell"
  <2>1. job[t].pc = "update_output" /\ UNCHANGED in_progress
    BY <1>3 DEF update_output
  <2>2. CASE in_progress[t].stale \/ (new = "cell" /\ output[t] = "cell")
    <3>1. job' = move(t, "complete") /\ UNCHANGED output
      BY <1>3, <2>2 DEF update_output
    <3>2. job'[t].pc = "complete" /\ \A x \in Task \ {t} : job'[x] = job[x]
      BY <3>1 DEF move, TypeOK, Job
    <3>3. \A x \in Task : Ended(x)' => Ended(x) \/ output'[x] # "none"
      BY <2>1, <2>2, <3>1, <3>2 DEF Ended, Ending
    <3> QED
      BY <2>1, <3>1, <3>2, <3>3, OutputStep DEF Calling
  <2>3. CASE ~(in_progress[t].stale \/ (new = "cell" /\ output[t] = "cell"))
    <3>1. /\ output' = [output EXCEPT ![t] = new]
          /\ job' = tell(t, "tell_output_changed", dependents(t, "output"), "complete")
      BY <1>3, <2>3 DEF update_output
    <3>2. output'[t] # "none" /\ \A x \in Task \ {t} : output'[x] = output[x]
      BY <3>1 DEF TypeOK
    <3>3. /\ job'[t].pc \in {"tell_output_changed", "complete"}
          /\ \A x \in Task \ {t} : job'[x] = job[x]
      BY <1>0, <3>1
    <3>4. \A x \in Task : Ended(x)' => Ended(x) \/ output'[x] # "none"
      BY <2>1, <3>2, <3>3 DEF Ended
    <3> QED
      BY <2>1, <3>2, <3>3, <3>4, OutputStep DEF Calling
  <2> QED
    BY <2>2, <2>3
<1>4. ASSUME NEW r \in Task, make_dependent_dirty(t, r)
      PROVE  OutputInv'
  <2> DEFINE next == IF job[t].pc = "tell_cell_changed" THEN "update_output" ELSE "complete"
             jobs == tell(t, job[t].pc, job[t].dependents \ {r}, next)
  <2>1. /\ job[t].pc \in {"tell_cell_changed", "tell_output_changed"}
        /\ job[t].dependents \ {r} \in SUBSET Task /\ UNCHANGED output
    BY <1>4 DEF make_dependent_dirty, TypeOK, Job
  <2>2. jobs[t].pc \in {job[t].pc, next} /\ \A x \in Task \ {t} : jobs[x] = job[x]
    BY <1>0
  <2>3. job[t].pc = "tell_output_changed" => output[t] # "none"
    BY DEF OutputInv, EndedHasOutput, Ended, Ending
  <2>4. Goes(jobs)
    <3>1. Awake(job[t]) /\ job[t].pc \in Pc \ {"idle", "start"} /\ next \in Pc \ {"idle", "start"}
      BY <2>1 DEF Awake, Pc
    <3> HIDE DEF next
    <3> QED
      BY <2>1, <3>1, Telling
  <2>5. make_task_dirty(r, jobs)
    BY <1>4 DEF make_dependent_dirty
  <2> HIDE DEF jobs
  <2>6. Plain(jobs)
    BY <2>1, <2>2, <2>3 DEF Plain, Calling, Ending
  <2> QED
    BY <2>1, <2>4, <2>5, <2>6, PlainDirty DEF Goes
<1> QED
  BY <1>1, <1>2, <1>3, <1>4

LEMMA RescheduleOutput ==
    ASSUME Inv, OutputInv, NEW t \in Task, reschedule(t), UNCHANGED output
    PROVE  OutputInv'
<1>1. /\ spawned \in Job /\ spawned.pc \notin Calling \cup Ending
      /\ scheduled \in InProgress /\ ~scheduled.marked_as_completed /\ scheduled.state # "none"
  BY DEF spawned, at, Job, Pc, Calling, Ending, scheduled, InProgress
<1> QED
  BY <1>1, OutputRestart DEF reschedule

LEMMA CompleteOutput ==
    ASSUME Inv, OutputInv, NEW t \in Task, complete(t)
    PROVE  OutputInv'
<1> USE DEF Inv
<1>1. CASE in_progress[t].stale
  BY <1>1, RescheduleOutput DEF complete
<1>2. CASE ~in_progress[t].stale
  <2>0. PICK pc \in {"finish", "cleanup"} : \E old :
             /\ in_progress' = [in_progress EXCEPT ![t].marked_as_completed = TRUE]
             /\ job' = notify_done([job EXCEPT ![t].pc = pc, ![t].old_edges = old], t)
    BY <1>2 DEF complete
  <2>1. PICK old :
             /\ in_progress' = [in_progress EXCEPT ![t].marked_as_completed = TRUE]
             /\ job' = notify_done([job EXCEPT ![t].pc = pc, ![t].old_edges = old], t)
    BY <2>0
  <2> DEFINE jobs == [job EXCEPT ![t].pc = pc, ![t].old_edges = old]
  <2>2. output[t] # "none" /\ UNCHANGED output
    BY <1>2 DEF complete, OutputInv, EndedHasOutput, Ended
  <2>3. jobs[t].pc = pc /\ \A x \in Task \ {t} : jobs[x] = job[x]
    BY DEF TypeOK, Job
  <2>4. \A x \in Task : notify_done(jobs, t)[x].pc \in Ending => jobs[x].pc \in Ending
    BY <2>3 DEF notify_done, notify, Ending, TypeOK, Job
  <2>5. \A x \in Task : notify_done(jobs, t)[x].pc \in Calling =>
            /\ job[x].pc \in Calling /\ notify_done(jobs, t)[x].values = job[x].values
    BY <2>3 DEF notify_done, notify, Calling, TypeOK, Job
  <2>6. \A x \in Task : notify_done(jobs, t)[x].pc \in Ending =>
            notify_done(jobs, t)[x].pc = job[x].pc \/ x = t
    BY <2>3 DEF notify_done, notify, Ending, TypeOK, Job
  <2> HIDE DEF jobs
  <2>7. job' = notify_done(jobs, t)
    BY <2>1 DEF jobs
  <2>8. /\ in_progress'[t].state = in_progress[t].state
        /\ \A x \in Task \ {t} : in_progress'[x] = in_progress[x]
    BY <2>1 DEF TypeOK, InProgress
  <2>9. \A x \in Task : Ended(x)' => Ended(x) \/ output'[x] # "none"
    BY <2>2, <2>6, <2>7, <2>8 DEF Ended, Ending
  <2> QED
    BY <2>2, <2>5, <2>7, <2>8, <2>9, OutputStep
<1> QED
  BY <1>1, <1>2

LEMMA CleanUpOutput ==
    ASSUME Inv, OutputInv, NEW t \in Task, NEW u \in Task, clean_up(t, u)
    PROVE  OutputInv'
<1> USE DEF Inv
<1>1. ASSUME NEW edge, job[t].pc = "cleanup"
      PROVE  Plain(remaining(t, edge)) /\ Goes(remaining(t, edge))
  <2>1. output[t] # "none"
    BY <1>1 DEF OutputInv, EndedHasOutput, Ended, Ending
  <2>2. /\ remaining(t, edge)[t].pc \in {"finish", "cleanup"}
        /\ \A x \in Task \ {t} : remaining(t, edge)[x] = job[x]
    <3>1. job[t] \in Job
      BY DEF TypeOK
    <3> DEFINE left == job[t].old_edges \ {edge}
               pc == IF left = {} THEN "finish" ELSE "cleanup"
    <3>2. remaining(t, edge)[t] = [[job[t] EXCEPT !.pc = pc] EXCEPT !.old_edges = left]
      BY DEF remaining, TypeOK
    <3>3. remaining(t, edge)[t].pc = pc
      BY <3>1, <3>2 DEF Job
    <3>4. \A x \in Task \ {t} : remaining(t, edge)[x] = job[x]
      BY DEF remaining, TypeOK
    <3> QED
      BY <3>3, <3>4
  <2>3. Goes(remaining(t, edge))
    BY <1>1, Remaining DEF Awake
  <2> QED
    BY <2>1, <2>2, <2>3 DEF Plain, Calling
<1>2. ASSUME NEW kind \in {"output", "cell"}, remove_dependency(t, u, kind)
      PROVE  OutputInv'
  BY <1>1, <1>2, PlainOutput DEF remove_dependency, pops
<1>3. CASE removed_cell_dependent(t, u)
  BY <1>1, <1>3, PlainDirty DEF removed_cell_dependent, pops, Goes
<1> QED
  BY <1>2, <1>3 DEF clean_up

LEMMA FinishOutput ==
    ASSUME Inv, OutputInv, NEW t \in Task, finish(t)
    PROVE  OutputInv'
<1>1. CASE in_progress[t].stale
  BY <1>1, RescheduleOutput DEF finish
<1>2. CASE ~in_progress[t].stale
  <2>1. /\ idle \in Job /\ idle.pc \notin Calling \cup Ending
        /\ none \in InProgress /\ ~none.marked_as_completed
    BY DEF idle, at, Job, Pc, Calling, Ending, none, InProgress
  <2>2. output[t] # "none"
    BY DEF finish, OutputInv, EndedHasOutput, Ended, Ending
  <2> QED
    BY <1>2, <2>1, <2>2, OutputRestart DEF finish
<1> QED
  BY <1>1, <1>2

LEMMA EnvironmentOutput ==
    ASSUME Inv, OutputInv, environment \/ \E r \in Task : invalidate(r)
    PROVE  OutputInv'
<1>1. Plain(job) /\ job \in [Task -> Job]
  BY DEF Plain, Inv, TypeOK
<1>2. ASSUME NEW r \in Task, invalidate(r)
      PROVE  OutputInv'
  BY <1>1, <1>2, PlainDirty DEF invalidate
<1>3. ASSUME NEW u \in Task, try_read_task_cell_untracked(u)
      PROVE  OutputInv'
  BY <1>1, <1>3, PlainSchedule DEF try_read_task_cell_untracked
<1>4. CASE \/ \E v \in Value : set(v)
           \/ \E u \in Task : final_read(u)
           \/ stop_and_wait \/ restart
  <2>1. UNCHANGED <<job, in_progress, output>>
    BY <1>4 DEF set, final_read, stop_and_wait, restart
  <2> QED
    BY <1>1, <2>1, PlainOutput DEF Plain
<1> QED
  BY <1>2, <1>3, <1>4 DEF environment

LEMMA StepOutput == Inv /\ OutputInv /\ [Next]_vars => OutputInv'
<1> SUFFICES ASSUME Inv, OutputInv, [Next]_vars
             PROVE  OutputInv'
  OBVIOUS
<1>1. CASE UNCHANGED vars
  BY <1>1 DEF vars, OutputInv, EndedHasOutput, CalledIsKnown, Ended, access
<1>2. ASSUME NEW t \in Task, execute(t)
      PROVE  OutputInv'
  BY <1>2, StartOutput, ReadOutput, WriteOutput, CompleteOutput, CleanUpOutput, FinishOutput
     DEF execute
<1>3. CASE environment \/ \E r \in Task : invalidate(r)
  BY <1>3, EnvironmentOutput
<1> QED
  BY <1>1, <1>2, <1>3 DEF Next, work

(* Who has called a task finds it in progress or with an output: the       *)
(* fallback of try_read_task_output, which would add a second InProgress   *)
(* to a task marked as completed, is not reached.                          *)
THEOREM CalledHasOutputAlways == Spec => []CalledHasOutput
<1>1. Init => OutputInv
  BY InitOutput
<1>2. Inv /\ OutputInv /\ [Next]_vars => OutputInv'
  BY StepOutput
<1>3. Inv /\ OutputInv => CalledHasOutput
  <2> SUFFICES ASSUME Inv, OutputInv, NEW t \in Task, NEW u \in Task,
                      reading_output(t, u), ~unfinished(u), in_progress[u].state # "canceled"
               PROVE  output[u] # "none"
    BY DEF CalledHasOutput
  <2>1. in_progress[u].state # "none" \/ output[u] # "none"
    BY DEF OutputInv, CalledIsKnown, reading_output, Calling
  <2>2. in_progress[u].state = "running" => in_progress[u].marked_as_completed
    BY DEF unfinished
  <2>3. in_progress[u].state \in {"none", "running"}
    BY DEF Inv, TypeOK, InProgress, unfinished
  <2> QED
    BY <2>1, <2>2, <2>3 DEF OutputInv, EndedHasOutput, Ended
<1> QED
  BY <1>1, <1>2, <1>3, InvAlways, PTL DEF Spec

-----------------------------------------------------------------------------
(* Edges                                                                   *)

(* The code of every task says what it reads, whatever it has read.        *)
CodeIsTyped == \A t \in Task, values \in Seq(Read) : NextRead(t, values) \in Access

(* The edges a read leaves, and those of all that was read.                *)
read_edges(a, v) ==
    {edge \in Kind \X Task :
        /\ a.task = edge[2] /\ a.how # "get"
        /\ IF edge[1] = "output" THEN a.how # "read"
           ELSE a.how = "read" \/ (a.how = "await" /\ v # Err)}
access_at(t, values, i) == NextRead(t, SubSeq(values, 1, i - 1))
values_edges(t, values) ==
    {edge \in Kind \X Task : \E i \in 1..Len(values) : edge \in read_edges(access_at(t, values, i), values[i])}
gets(t, values) == \E i \in 1..Len(values) : access_at(t, values, i).how = "get"

LEMMA EdgesOf ==
    ASSUME NEW t \in Task
    PROVE  edges_of(t) = values_edges(t, seen[t])
BY DEF edges_of, values_edges, read_edges, access_at, access_of

LEMMA NothingRead ==
    ASSUME NEW t \in Task
    PROVE  values_edges(t, <<>>) = {} /\ ~gets(t, <<>>)
BY DEF values_edges, gets

LEMMA OneMoreRead ==
    ASSUME NEW t \in Task, NEW values \in Seq(Read), NEW v \in Read
    PROVE  /\ values_edges(t, Append(values, v)) =
                  values_edges(t, values) \cup read_edges(NextRead(t, values), v)
           /\ gets(t, Append(values, v)) => gets(t, values) \/ NextRead(t, values).how = "get"
<1> DEFINE more == Append(values, v)
<1>1. more \in Seq(Read) /\ Len(more) = Len(values) + 1 /\ Len(values) \in Nat
  OBVIOUS
<1>2. ASSUME NEW i \in 1..Len(values)
      PROVE  more[i] = values[i] /\ access_at(t, more, i) = access_at(t, values, i)
  <2>1. more[i] = values[i]
    OBVIOUS
  <2>2. SubSeq(more, 1, i - 1) = SubSeq(values, 1, i - 1)
    OBVIOUS
  <2> QED  BY <2>1, <2>2 DEF access_at
<1>3. more[Len(values) + 1] = v /\ access_at(t, more, Len(values) + 1) = NextRead(t, values)
  <2>1. more[Len(values) + 1] = v
    OBVIOUS
  <2>2. SubSeq(more, 1, (Len(values) + 1) - 1) = values
    OBVIOUS
  <2> QED  BY <2>1, <2>2 DEF access_at
<1>4. \A i : i \in 1..Len(more) <=> i \in 1..Len(values) \/ i = Len(values) + 1
  BY <1>1
<1> HIDE DEF more
<1>5. values_edges(t, more) = values_edges(t, values) \cup read_edges(NextRead(t, values), v)
  <2>1. ASSUME NEW edge
        PROVE  edge \in values_edges(t, more) <=>
                  edge \in values_edges(t, values) \cup read_edges(NextRead(t, values), v)
    <3>1. read_edges(NextRead(t, values), v) \subseteq Kind \X Task
      BY DEF read_edges
    <3> QED  BY <1>2, <1>3, <1>4, <3>1 DEF values_edges
  <2> QED  BY <2>1
<1>6. gets(t, more) => gets(t, values) \/ NextRead(t, values).how = "get"
  BY <1>2, <1>3, <1>4 DEF gets
<1> QED  BY <1>5, <1>6 DEF more

-----------------------------------------------------------------------------
known(t) == t \in state.invalidators \cup state.taken
Fresh(t) == Awake(job[t]) /\ ~in_progress[t].stale

(* What an await has read of the output before it reads the cell, and the  *)
(* edges of the last execution that are still to go.                       *)
partial(t) ==
    IF job[t].pc \in {"read", "await_cell"} /\ access(t).how = "await" THEN {<<"output", access(t).task>>} ELSE {}
to_remove(t) ==
    CASE job[t].pc = "cleanup" -> job[t].old_edges
      [] job[t].pc = "finish" -> {}
      [] OTHER -> outdated[t]

AccessFits(t) ==
    /\ job[t].pc \in {"connect_child", "read_output", "await_done"} => access(t).how \in {"await", "resolve"}
    /\ job[t].pc \in {"read", "await_cell"} => access(t).how \in {"await", "read"}
    /\ job[t].pc = "get" => access(t).how = "get"
OutdatedHeld(t) == Awake(job[t]) /\ job[t].pc \notin {"cleanup", "finish"} => outdated[t] \subseteq dependency[t]
RunEdges(t) ==
    Fresh(t) => /\ dependency[t] \ to_remove(t) = values_edges(t, job[t].values) \cup partial(t)
                /\ gets(t, job[t].values) => known(t)
SettledEdges(t) ==
    settled(t) => /\ dependency[t] = values_edges(t, seen[t])
                  /\ gets(t, seen[t]) => known(t)
CellFollows(t) ==
    /\ in_progress[t].state = "none" \/ job[t].pc \in {"cleanup", "finish"} => (output[t] = "cell" => t \in celled)
    /\ Fresh(t) /\ job[t].pc \in {"tell_output_changed", "complete"} =>
          (output[t] = "cell" => result(t, job[t].values) # Err)
Mirror(t) == \A u \in Task, k \in Kind : <<k, t>> \in dependent[u] <=> <<k, u>> \in dependency[t]
CanceledStopped(t) == in_progress[t].state = "canceled" => stopped

Tidy(t) ==
    /\ AccessFits(t) /\ OutdatedHeld(t) /\ RunEdges(t) /\ SettledEdges(t)
    /\ CellFollows(t) /\ Mirror(t) /\ CanceledStopped(t)

(* The output that an await has read is still one with a cell when it      *)
(* reads the cell, or the task is being told that it is not.               *)
TellsOutput(u, t) == job[u].pc = "tell_output_changed" /\ t \in job[u].dependents
OutputHeld(t) ==
    Fresh(t) /\ job[t].pc \in {"read", "await_cell"} /\ access(t).how = "await" =>
        output[access(t).task] = "cell" \/ TellsOutput(access(t).task, t)

EdgesInv == ~stopped => \A t \in Task : Tidy(t) /\ OutputHeld(t)

-----------------------------------------------------------------------------
(* A task that a step of another one may wake, schedule or make stale.     *)
Woken(j, k) ==
    /\ k.values = j.values /\ k.dependents = j.dependents /\ k.old_edges = j.old_edges
    /\ \/ k.pc = j.pc
       \/ j.pc = "await_done" /\ k.pc = "read_output"
       \/ j.pc = "await_cell" /\ k.pc = "read"

Progress(x, j) ==
    \/ job'[x] = j /\ in_progress'[x] = in_progress[x]
    \/ /\ job[x].pc = "idle" /\ job'[x].pc = "start" /\ job'[x].values = <<>>
       /\ in_progress'[x].state = "scheduled"
    \/ /\ job'[x] = j /\ in_progress[x].state = "running"
       /\ in_progress'[x].state = "running" /\ in_progress'[x].stale

(* The execution of x starts over, or another one is going to start.       *)
Again(x) ==
    \/ in_progress'[x].state = "running" /\ in_progress'[x].stale
    \/ in_progress'[x].state \in {"scheduled", "canceled"}

LEMMA Runs ==
    ASSUME Inv, NEW t \in Task, Awake(job[t])
    PROVE  in_progress[t].state = "running"
BY DEF Inv, OneJob, TypeOK, InProgress, Awake

LEMMA Schedules ==
    ASSUME Inv, NEW u \in Task, NEW jobs, Goes(jobs), add_scheduled(u, jobs), NEW x \in Task
    PROVE  Progress(x, jobs[x])
<1>1. spawned.pc = "start" /\ spawned.values = <<>> /\ scheduled.state = "scheduled"
  BY DEF spawned, at, scheduled
<1>2. CASE in_progress[u].state = "none" /\ x = u
  <2>1. job[u].pc = "idle"
    BY <1>2 DEF Inv, OneJob
  <2>2. job'[u] = spawned /\ in_progress'[u] = scheduled
    BY <1>2 DEF add_scheduled, Goes, Inv, TypeOK
  <2> QED  BY <1>1, <1>2, <2>1, <2>2 DEF Progress
<1>3. CASE ~(in_progress[u].state = "none" /\ x = u)
  BY <1>3 DEF add_scheduled, Goes, Inv, TypeOK, Progress
<1> QED  BY <1>2, <1>3

LEMMA Dirties ==
    ASSUME Inv, NEW r \in Task, NEW jobs, Goes(jobs), make_task_dirty(r, jobs), NEW x \in Task
    PROVE  /\ Progress(x, jobs[x])
           /\ Again(r)
<1>1. CASE in_progress[r].state = "running"
  <2>1. in_progress' = [in_progress EXCEPT ![r].stale = TRUE] /\ job' = jobs
    BY <1>1 DEF make_task_dirty
  <2>2. in_progress'[r].stale /\ in_progress'[r].state = "running"
    BY <1>1, <2>1 DEF Inv, TypeOK, InProgress
  <2>3. x # r => in_progress'[x] = in_progress[x]
    BY <2>1 DEF Inv, TypeOK
  <2> QED  BY <1>1, <2>1, <2>2, <2>3 DEF Progress, Again
<1>2. CASE in_progress[r].state # "running" /\ r \in dirty
  <2>1. job' = jobs /\ UNCHANGED in_progress
    BY <1>2 DEF make_task_dirty
  <2>2. in_progress[r].state \in {"scheduled", "canceled"}
    BY <1>2 DEF Inv, DirtyIsScheduled, TypeOK, InProgress
  <2> QED  BY <2>1, <2>2 DEF Progress, Again
<1>3. CASE in_progress[r].state # "running" /\ r \notin dirty
  <2>1. add_scheduled(r, jobs)
    BY <1>3 DEF make_task_dirty
  <2>2. in_progress'[r].state \in {"scheduled", "canceled"}
    BY <1>3, <2>1 DEF add_scheduled, scheduled, Inv, TypeOK, InProgress
  <2> QED  BY <2>1, <2>2, Schedules DEF Again
<1> QED  BY <1>1, <1>2, <1>3

LEMMA Wakes ==
    ASSUME NEW jobs \in [Task -> Job], NEW t \in Task, NEW x \in Task
    PROVE  Woken(jobs[x], notify_done(jobs, t)[x]) /\ Woken(jobs[x], notify_cell(jobs, t)[x])
<1>1. ASSUME NEW from, NEW to,
             (from = "await_done" /\ to = "read_output") \/ (from = "await_cell" /\ to = "read")
      PROVE  Woken(jobs[x], notify(jobs, t, from, to)[x])
  <2>1. jobs[x] \in Job
    OBVIOUS
  <2>2. \/ notify(jobs, t, from, to)[x] = jobs[x]
        \/ jobs[x].pc = from /\ notify(jobs, t, from, to)[x] = [jobs[x] EXCEPT !.pc = to]
    BY DEF notify
  <2> QED  BY <1>1, <2>1, <2>2 DEF Woken, Job
<1> QED  BY <1>1 DEF notify_done, notify_cell

(* What such a step leaves alone.                                          *)
Bystander(x) ==
    /\ \E j : Woken(job[x], j) /\ Progress(x, j)
    /\ dependency'[x] = dependency[x] /\ output'[x] = output[x] /\ seen'[x] = seen[x]
    /\ x \in celled' <=> x \in celled
    /\ outdated'[x] = outdated[x] \/ job[x].pc = "idle"
    /\ known(x) => known(x)' \/ Again(x)
    /\ \A u \in Task, k \in Kind : <<k, x>> \in dependent'[u] <=> <<k, x>> \in dependent[u]

LEMMA BystanderTidy ==
    ASSUME Inv, Inv', NEW x \in Task, Tidy(x), Bystander(x), ~stopped, ~stopped'
    PROVE  Tidy(x)'
<1>1. PICK j : Woken(job[x], j) /\ Progress(x, j)
  BY DEF Bystander
<1>0. in_progress[x].state # "canceled"
  BY DEF Tidy, CanceledStopped
<1>2. CASE job[x].pc = "idle" /\ job'[x].pc = "start" /\ in_progress'[x].state = "scheduled"
  BY <1>2 DEF Tidy, AccessFits, OutdatedHeld, RunEdges, SettledEdges, CellFollows, Mirror, CanceledStopped,
     Fresh, Awake, settled, Bystander
<1>3. CASE /\ job'[x] = j
           /\ \/ in_progress'[x] = in_progress[x]
              \/ /\ in_progress[x].state = "running"
                 /\ in_progress'[x].state = "running" /\ in_progress'[x].stale
  <2>1. /\ Woken(job[x], job'[x]) /\ in_progress'[x].state = in_progress[x].state
        /\ ~in_progress'[x].stale => ~in_progress[x].stale
    BY <1>1, <1>3
  <2>2. Awake(job'[x]) <=> Awake(job[x])
    BY <2>1 DEF Woken, Awake
  <2>3. Awake(job[x]) => outdated'[x] = outdated[x]
    BY DEF Bystander, Awake
  <2>4. AccessFits(x)'
    BY <2>1 DEF Tidy, AccessFits, Woken, access
  <2>5. OutdatedHeld(x)'
    BY <2>1, <2>2, <2>3 DEF Tidy, OutdatedHeld, Woken, Bystander
  <2>6. RunEdges(x)'
    <3>1. SUFFICES ASSUME Fresh(x)'
                   PROVE  /\ dependency'[x] \ to_remove(x)' = values_edges(x, job'[x].values) \cup partial(x)'
                          /\ gets(x, job'[x].values) => known(x)'
      BY DEF RunEdges
    <3>2. Fresh(x) /\ in_progress'[x].state = "running" /\ ~in_progress'[x].stale
      BY <2>1, <2>2, <3>1, Runs DEF Fresh
    <3>3. partial(x)' = partial(x)
      BY <2>1 DEF partial, Woken, access
    <3>4. to_remove(x)' = to_remove(x)
      BY <2>1, <2>3, <3>2 DEF to_remove, Woken, Fresh
    <3> QED  BY <2>1, <3>2, <3>3, <3>4 DEF Tidy, RunEdges, Woken, Bystander, Again
  <2>7. SettledEdges(x)'
    <3>1. settled(x)' => settled(x) /\ in_progress'[x].state = "none"
      BY <2>1 DEF settled, Bystander
    <3> QED  BY <3>1 DEF Tidy, SettledEdges, Bystander, Again
  <2>8. CellFollows(x)'
    BY <2>1, <2>2 DEF Tidy, CellFollows, Woken, Bystander, Fresh
  <2>9. Mirror(x)' /\ CanceledStopped(x)'
    BY <1>0, <2>1 DEF Tidy, Mirror, CanceledStopped, Bystander
  <2> QED  BY <2>4, <2>5, <2>6, <2>7, <2>8, <2>9 DEF Tidy
<1> QED  BY <1>1, <1>2, <1>3 DEF Progress

(* The outputs that others have read stay, and so does who is being told.  *)
KeepsOutput(u) ==
    /\ output'[u] = output[u]
    /\ job[u].pc = "tell_output_changed" =>
          job'[u].pc = "tell_output_changed" /\ job'[u].dependents = job[u].dependents

LEMMA BystanderKeeps ==
    ASSUME NEW u \in Task, Bystander(u)
    PROVE  KeepsOutput(u)
BY DEF Bystander, Progress, Woken, KeepsOutput

LEMMA BystanderHeld ==
    ASSUME Inv, CodeIsTyped, NEW x \in Task, OutputHeld(x), AccessFits(x), Bystander(x), \A u \in Task : KeepsOutput(u)
    PROVE  OutputHeld(x)'
<1> DEFINE u == access(x).task
<1> SUFFICES ASSUME Fresh(x)', job'[x].pc \in {"read", "await_cell"}, access(x)'.how = "await"
             PROVE  \/ output'[access(x)'.task] = "cell"
                    \/ /\ job'[access(x)'.task].pc = "tell_output_changed"
                       /\ x \in job'[access(x)'.task].dependents
  BY DEF OutputHeld, TellsOutput
<1>1. /\ Fresh(x) /\ job[x].pc \in {"read", "await_cell"}
      /\ access(x)' = access(x)
  BY DEF Bystander, Progress, Woken, Fresh, Awake, access
<1>2. u \in Task
  BY DEF access, CodeIsTyped, Access, Inv, TypeOK, Job
<1>3. output[u] = "cell" \/ TellsOutput(u, x)
  BY <1>1 DEF OutputHeld
<1> HIDE DEF u
<1>4. output'[u] = "cell" \/ (job'[u].pc = "tell_output_changed" /\ x \in job'[u].dependents)
  BY <1>2, <1>3 DEF KeepsOutput, TellsOutput
<1> QED  BY <1>1, <1>4 DEF u

(* A step of the job of t, as far as t is concerned and the others.        *)
OwnStep(t) == Tidy(t)' /\ OutputHeld(t)' /\ \A x \in Task \ {t} : Bystander(x)

LEMMA OwnSteps ==
    ASSUME Inv, Inv', CodeIsTyped, EdgesInv, ~stopped, ~stopped', NEW t \in Task, OwnStep(t),
           job[t].pc # "tell_output_changed", output'[t] = output[t]
    PROVE  EdgesInv'
<1>1. \A u \in Task : KeepsOutput(u)
  BY BystanderKeeps DEF OwnStep, KeepsOutput
<1>2. ASSUME NEW x \in Task \ {t} PROVE Tidy(x)' /\ OutputHeld(x)'
  BY <1>1, BystanderTidy, BystanderHeld DEF EdgesInv, OwnStep, Tidy
<1> QED  BY <1>2 DEF EdgesInv, OwnStep

LEMMA OthersSteps ==
    ASSUME Inv, Inv', CodeIsTyped, EdgesInv, ~stopped, ~stopped', \A x \in Task : Bystander(x)
    PROVE  EdgesInv'
<1>1. \A u \in Task : KeepsOutput(u)
  BY BystanderKeeps
<1>2. ASSUME NEW x \in Task PROVE Tidy(x)' /\ OutputHeld(x)'
  BY <1>1, BystanderTidy, BystanderHeld DEF EdgesInv, Tidy
<1> QED  BY <1>2 DEF EdgesInv

-----------------------------------------------------------------------------
(* A job that has read what it has, and keeps its edges.                   *)
LEMMA Staying ==
    ASSUME Inv, NEW t \in Task, Tidy(t), ~stopped, Awake(job[t]), Awake(job'[t]),
           job'[t].values = job[t].values,
           in_progress'[t].state = "running", in_progress[t].stale => in_progress'[t].stale,
           UNCHANGED <<dependency, outdated, dependent>>, partial(t)' = partial(t),
           job[t].pc \notin {"cleanup", "finish"}, job'[t].pc \notin {"cleanup", "finish"},
           known(t) => known(t)', AccessFits(t)', CellFollows(t)'
    PROVE  Tidy(t)'
<1>1. OutdatedHeld(t)'
  BY DEF Tidy, OutdatedHeld
<1>2. RunEdges(t)'
  <2>1. to_remove(t) = outdated[t] /\ to_remove(t)' = outdated[t]
    BY DEF to_remove
  <2> QED  BY <2>1 DEF Tidy, RunEdges, Fresh
<1>3. SettledEdges(t)' /\ Mirror(t)' /\ CanceledStopped(t)'
  BY DEF Tidy, SettledEdges, settled, Mirror, CanceledStopped
<1> QED  BY <1>1, <1>2, <1>3 DEF Tidy

(* A job that has read one thing more.                                     *)
LEMMA ReceivedTidy ==
    ASSUME Inv, Inv', CodeIsTyped, NEW t \in Task, Tidy(t), ~stopped, Awake(job[t]), NEW v \in Read,
           job[t].pc \notin {"cleanup", "finish"},
           job' = received(t, v), in_progress' = in_progress,
           outdated'[t] \subseteq dependency'[t], Mirror(t)',
           ~in_progress[t].stale =>
               dependency'[t] \ outdated'[t] =
                   values_edges(t, job[t].values) \cup read_edges(access(t), v),
           known(t) => known(t)', access(t).how = "get" => known(t)'
    PROVE  Tidy(t)' /\ OutputHeld(t)'
<1> DEFINE values == job[t].values
           more == Append(values, v)
<1>0. values \in Seq(Read) /\ more \in Seq(Read)
  BY DEF Inv, TypeOK, Job
<1>1. job'[t] = resume(t, more)
  BY DEF received, Inv, TypeOK
<1>2. NextRead(t, more) \in Access
  BY <1>0 DEF CodeIsTyped
<1>3. job'[t].values = more /\ access(t)' = NextRead(t, more)
  BY <1>1 DEF resume, at, access
<1>4. job'[t].pc \in {"update_output", "update_cell", "connect_child", "read", "get"}
  BY <1>1 DEF resume, at
<1>5. AccessFits(t)' /\ partial(t)' = {} /\ (job'[t].pc = "read" => access(t)'.how = "read")
  <2>1. /\ job'[t].pc = "connect_child" => NextRead(t, more).how \in {"await", "resolve"}
        /\ job'[t].pc = "read" => NextRead(t, more).how = "read"
        /\ job'[t].pc = "get" => NextRead(t, more).how = "get"
    <3> HIDE DEF more
    <3> QED  BY <1>1, <1>2 DEF resume, at, Access
  <2> QED  BY <1>3, <1>4, <2>1 DEF AccessFits, partial
<1>6. OutdatedHeld(t)'
  BY DEF OutdatedHeld
<1>7. in_progress'[t].state = "running"
  BY Runs
<1>8. RunEdges(t)'
  <2>1. to_remove(t)' = outdated'[t]
    BY <1>4 DEF to_remove
  <2>2. /\ values_edges(t, more) = values_edges(t, values) \cup read_edges(access(t), v)
        /\ gets(t, more) => gets(t, values) \/ access(t).how = "get"
    BY <1>0, OneMoreRead DEF access
  <2>3. gets(t, more) /\ ~in_progress[t].stale => known(t)'
    BY <2>2 DEF Tidy, RunEdges, Fresh
  <2> HIDE DEF more, values
  <2>4. values_edges(t, job'[t].values) = values_edges(t, more)
    BY <1>3
  <2> QED  BY <1>3, <1>5, <2>1, <2>2, <2>3, <2>4 DEF RunEdges, Fresh, values
<1>9. SettledEdges(t)' /\ CanceledStopped(t)' /\ CellFollows(t)'
  BY <1>4, <1>7 DEF SettledEdges, settled, CanceledStopped, CellFollows
<1>10. OutputHeld(t)'
  BY <1>4, <1>5 DEF OutputHeld
<1> QED  BY <1>5, <1>6, <1>8, <1>9, <1>10 DEF Tidy

LEMMA ReceivedOthers ==
    ASSUME Inv, NEW t \in Task, NEW v, job' = received(t, v), in_progress' = in_progress, NEW x \in Task \ {t}
    PROVE  \E j : Woken(job[x], j) /\ Progress(x, j)
<1>1. job'[x] = job[x]
  BY DEF received, Inv, TypeOK
<1> QED  BY <1>1 DEF Woken, Progress

(* A dependency is added on both ends, and is not outdated.                *)
LEMMA AddedDependency ==
    ASSUME Inv, NEW t \in Task, NEW u \in Task, NEW kind \in Kind, outdated[t] \subseteq dependency[t],
           Mirror(t), add_dependency(t, u, kind)
    PROVE  /\ dependency'[t] \ outdated'[t] = (dependency[t] \ outdated[t]) \cup {<<kind, u>>}
           /\ outdated'[t] \subseteq dependency'[t] /\ Mirror(t)'
           /\ \A x \in Task \ {t} :
                 /\ dependency'[x] = dependency[x] /\ outdated'[x] = outdated[x]
                 /\ \A w \in Task, k \in Kind : <<k, x>> \in dependent'[w] <=> <<k, x>> \in dependent[w]
<1>1. /\ dependency'[t] = IF <<kind, u>> \in outdated[t] THEN dependency[t] ELSE dependency[t] \cup {<<kind, u>>}
      /\ outdated'[t] = outdated[t] \ {<<kind, u>>}
      /\ \A x \in Task \ {t} : dependency'[x] = dependency[x] /\ outdated'[x] = outdated[x]
  BY DEF add_dependency, Inv, TypeOK
<1>2. \A w \in Task : dependent'[w] = IF w = u THEN dependent[u] \cup {<<kind, t>>} ELSE dependent[w]
  BY DEF add_dependency, Inv, TypeOK
<1>3. <<kind, u>> \in dependency'[t] /\ dependency'[t] = dependency[t] \cup {<<kind, u>>}
  BY <1>1
<1>4. Mirror(t)'
  <2> SUFFICES ASSUME NEW w \in Task, NEW k \in Kind
               PROVE  <<k, t>> \in dependent'[w] <=> <<k, w>> \in dependency'[t]
    BY DEF Mirror
  <2>1. <<k, t>> \in dependent[w] <=> <<k, w>> \in dependency[t]
    BY DEF Mirror
  <2>2. <<k, t>> \in dependent'[w] <=> <<k, t>> \in dependent[w] \/ (w = u /\ k = kind)
    BY <1>2
  <2> QED  BY <1>3, <2>1, <2>2
<1>5. \A x \in Task \ {t}, w \in Task, k \in Kind : <<k, x>> \in dependent'[w] <=> <<k, x>> \in dependent[w]
  BY <1>2
<1> QED  BY <1>1, <1>3, <1>4, <1>5

-----------------------------------------------------------------------------
(* The steps of the job of t                                               *)

(* The others when only jobs, InProgress and the cell of t change.         *)
LEMMA OthersGo ==
    ASSUME NEW t \in Task, UNCHANGED <<dependency, dependent, outdated, output, seen, state>>,
           \A x \in Task \ {t} : /\ x \in celled' <=> x \in celled
                                 /\ \E j : Woken(job[x], j) /\ Progress(x, j)
    PROVE  \A x \in Task \ {t} : Bystander(x)
BY DEF Bystander, known

LEMMA Alone ==
    ASSUME NEW t \in Task, NEW jobs, \A x \in Task \ {t} : jobs[x] = job[x],
           \A x \in Task : Progress(x, jobs[x])
    PROVE  \A x \in Task \ {t} : \E j : Woken(job[x], j) /\ Progress(x, j)
BY DEF Woken

LEMMA MoveTo ==
    ASSUME Inv, NEW t \in Task, NEW pc
    PROVE  /\ move(t, pc)[t].pc = pc /\ move(t, pc)[t].values = job[t].values
           /\ move(t, pc)[t].dependents = job[t].dependents
           /\ \A x \in Task \ {t} : move(t, pc)[x] = job[x]
BY DEF move, Inv, TypeOK, Job

LEMMA TellTo ==
    ASSUME Inv, NEW t \in Task, NEW pc, NEW tasks, NEW next
    PROVE  /\ tell(t, pc, tasks, next)[t].pc = IF tasks = {} THEN next ELSE pc
           /\ tell(t, pc, tasks, next)[t].values = job[t].values
           /\ tell(t, pc, tasks, next)[t].dependents = tasks
           /\ \A x \in Task \ {t} : tell(t, pc, tasks, next)[x] = job[x]
<1>1. job[t] \in Job /\ job \in [Task -> Job]
  BY DEF Inv, TypeOK
<1>2. /\ tell(t, pc, tasks, next)[t] =
            [[job[t] EXCEPT !.pc = IF tasks = {} THEN next ELSE pc] EXCEPT !.dependents = tasks]
      /\ \A x \in Task \ {t} : tell(t, pc, tasks, next)[x] = job[x]
  BY <1>1 DEF tell
<1>3. job[t] = [pc |-> job[t].pc, values |-> job[t].values, dependents |-> job[t].dependents,
                old_edges |-> job[t].old_edges]
  BY <1>1 DEF Job
<1> QED  BY <1>2, <1>3

(* The task of t is running, whatever a step does to InProgress.           *)
LEMMA StillRuns ==
    ASSUME Inv, NEW t \in Task, Awake(job[t]), NEW j, Progress(t, j)
    PROVE  /\ job'[t] = j /\ in_progress'[t].state = "running"
           /\ in_progress[t].stale => in_progress'[t].stale
BY Runs DEF Progress, Awake

LEMMA StartEdges ==
    ASSUME Inv, Inv', CodeIsTyped, EdgesInv, ~stopped, ~stopped', NEW t \in Task, start(t)
    PROVE  EdgesInv'
<1>1. try_start_task_execution(t)
  BY DEF start, task_execution_canceled
<1>2. /\ in_progress' = [in_progress EXCEPT ![t] = running]
      /\ outdated' = [outdated EXCEPT ![t] = dependency[t]]
      /\ job' = [job EXCEPT ![t] = resume(t, <<>>)]
      /\ UNCHANGED <<dependent, dependency, output, celled, seen, state>>
      /\ job[t].pc = "start"
  BY <1>1 DEF try_start_task_execution, cells
<1>3. /\ job'[t] = resume(t, <<>>) /\ in_progress'[t] = running /\ outdated'[t] = dependency'[t]
      /\ \A x \in Task \ {t} : /\ job'[x] = job[x] /\ in_progress'[x] = in_progress[x]
                               /\ outdated'[x] = outdated[x]
  BY <1>2 DEF Inv, TypeOK
<1>4. running.state = "running" /\ ~running.stale
  BY DEF running
<1>5. /\ job'[t].values = <<>> /\ access(t)' = NextRead(t, <<>>)
      /\ job'[t].pc \in {"update_output", "update_cell", "connect_child", "read", "get"}
  BY <1>3 DEF resume, at, access
<1>6. /\ job'[t].pc = "connect_child" => NextRead(t, <<>>).how \in {"await", "resolve"}
      /\ job'[t].pc = "read" => NextRead(t, <<>>).how = "read"
      /\ job'[t].pc = "get" => NextRead(t, <<>>).how = "get"
  <2>1. NextRead(t, <<>>) \in Access
    <3>1. <<>> \in Seq(Read)
      OBVIOUS
    <3> QED  BY <3>1 DEF CodeIsTyped
  <2> QED  BY <1>3, <2>1 DEF resume, at, Access
<1>7. AccessFits(t)' /\ partial(t)' = {} /\ OutputHeld(t)'
  BY <1>5, <1>6 DEF AccessFits, partial, OutputHeld
<1>8. OutdatedHeld(t)' /\ RunEdges(t)'
  <2>1. to_remove(t)' = outdated'[t]
    BY <1>5 DEF to_remove
  <2> QED  BY <1>3, <1>5, <1>7, <2>1, NothingRead DEF OutdatedHeld, RunEdges
<1>9. SettledEdges(t)' /\ CellFollows(t)' /\ CanceledStopped(t)'
  BY <1>3, <1>4, <1>5 DEF SettledEdges, settled, CellFollows, CanceledStopped
<1>10. Mirror(t)'
  BY <1>2 DEF EdgesInv, Tidy, Mirror
<1>11. \A x \in Task \ {t} : Bystander(x)
  BY <1>2, <1>3 DEF Bystander, Woken, Progress, known
<1>12. OwnStep(t)
  BY <1>7, <1>8, <1>9, <1>10, <1>11 DEF OwnStep, Tidy
<1> QED  BY <1>2, <1>12, OwnSteps

LEMMA CallEdges ==
    ASSUME Inv, Inv', CodeIsTyped, EdgesInv, ~stopped, ~stopped', NEW t \in Task, NEW u \in Task,
           connect_child(t, u) \/ listen_to_done_event(t, u) \/ listen_to_cell(t, u)
    PROVE  EdgesInv'
<1>1. PICK pc : /\ \/ pc \in {"read_output", "await_done"} /\ job[t].pc \in {"connect_child", "read_output"}
                   \/ pc = "await_cell" /\ job[t].pc = "read"
                /\ \/ add_scheduled(u, move(t, pc))
                   \/ job' = move(t, pc) /\ UNCHANGED in_progress
  BY DEF connect_child, listen_to_done_event, reading_output, listen_to_cell, reading_cell
<1>2. UNCHANGED <<output, celled, dependency, dependent, outdated, state, seen>>
  BY DEF connect_child, listen_to_done_event, listen_to_cell, cells, edges
<1>3. Awake(job[t]) /\ job[t].pc \notin {"cleanup", "finish", "tell_output_changed"}
  BY <1>1 DEF Awake
<1>4. Goes(move(t, pc))
  BY <1>1, <1>3, Moving DEF Inv, Pc
<1>5. \A x \in Task : Progress(x, move(t, pc)[x])
  BY <1>1, <1>4, Schedules DEF Progress
<1>6. /\ job'[t].pc = pc /\ job'[t].values = job[t].values /\ Awake(job'[t])
      /\ in_progress'[t].state = "running"
      /\ in_progress[t].stale => in_progress'[t].stale
  BY <1>1, <1>3, <1>5, MoveTo, StillRuns DEF Awake
<1>7. access(t)' = access(t)
  BY <1>6 DEF access
<1>8. partial(t)' = partial(t) /\ AccessFits(t)'
  BY <1>1, <1>6, <1>7 DEF partial, AccessFits, EdgesInv, Tidy
<1>9. CellFollows(t)'
  BY <1>1, <1>6 DEF CellFollows
<1>10. Tidy(t)'
  BY <1>1, <1>2, <1>3, <1>6, <1>8, <1>9, Staying DEF EdgesInv, known
<1>11. \A x \in Task \ {t} : Bystander(x)
  BY <1>2, <1>5, MoveTo, Alone, OthersGo
<1>12. OutputHeld(t)'
  <2> DEFINE w == access(t).task
  <2> SUFFICES ASSUME Fresh(t)', pc = "await_cell", access(t).how = "await"
               PROVE  output'[w] = "cell" \/ (job'[w].pc = "tell_output_changed" /\ t \in job'[w].dependents)
    BY <1>1, <1>6, <1>7 DEF OutputHeld, TellsOutput
  <2>1. Fresh(t) /\ job[t].pc = "read" /\ w \in Task
    BY <1>1, <1>3, <1>6 DEF Fresh, access, CodeIsTyped, Access, Inv, TypeOK, Job
  <2>2. output[w] = "cell" \/ (job[w].pc = "tell_output_changed" /\ t \in job[w].dependents)
    BY <2>1 DEF EdgesInv, OutputHeld, TellsOutput
  <2>3. job[w].pc = "tell_output_changed" => KeepsOutput(w)
    BY <2>1, <1>11, BystanderKeeps
  <2> HIDE DEF w
  <2> QED  BY <1>2, <2>2, <2>3 DEF KeepsOutput
<1>13. OwnStep(t)
  BY <1>10, <1>11, <1>12 DEF OwnStep
<1> QED  BY <1>2, <1>3, <1>13, OwnSteps

(* A task that is canceled is so because the system has stopped.           *)
LEMMA NotCanceled ==
    ASSUME EdgesInv, ~stopped, NEW u \in Task
    PROVE  in_progress[u].state # "canceled"
BY DEF EdgesInv, Tidy, CanceledStopped

(* The others when t has read.                                             *)
LEMMA OthersRead ==
    ASSUME Inv, NEW t \in Task, UNCHANGED <<in_progress, output, celled, seen>>,
           \A x \in Task \ {t} :
               /\ job'[x] = job[x]
               /\ dependency'[x] = dependency[x] /\ outdated'[x] = outdated[x]
               /\ known(x) => known(x)'
               /\ \A w \in Task, k \in Kind : <<k, x>> \in dependent'[w] <=> <<k, x>> \in dependent[w]
    PROVE  \A x \in Task \ {t} : Bystander(x)
<1> SUFFICES ASSUME NEW x \in Task \ {t} PROVE Bystander(x)
  OBVIOUS
<1>1. Woken(job[x], job[x]) /\ Progress(x, job[x])
  BY DEF Woken, Progress
<1> QED  BY <1>1 DEF Bystander

LEMMA ReceivedFrame ==
    ASSUME Inv, NEW t \in Task, NEW v, job' = received(t, v)
    PROVE  \A x \in Task \ {t} : job'[x] = job[x]
BY DEF received, Inv, TypeOK

LEMMA OutputEdges ==
    ASSUME Inv, Inv', CodeIsTyped, EdgesInv, ~stopped, ~stopped', NEW t \in Task, NEW u \in Task,
           try_read_task_output(t, u)
    PROVE  EdgesInv'
<1>1. /\ job[t].pc = "read_output" /\ access(t).task = u /\ output[u] \in {"error", "cell"}
      /\ access(t).how \in {"await", "resolve"}
  BY DEF try_read_task_output, reading_output, EdgesInv, Tidy, AccessFits, Inv, TypeOK
<1>2. /\ add_dependency(t, u, "output")
      /\ UNCHANGED <<in_progress, output, celled, state, seen>>
  BY DEF try_read_task_output, cells
<1>3. /\ dependency'[t] \ outdated'[t] = (dependency[t] \ outdated[t]) \cup {<<"output", u>>}
      /\ outdated'[t] \subseteq dependency'[t] /\ Mirror(t)'
      /\ \A x \in Task \ {t} :
            /\ dependency'[x] = dependency[x] /\ outdated'[x] = outdated[x]
            /\ \A w \in Task, k \in Kind : <<k, x>> \in dependent'[w] <=> <<k, x>> \in dependent[w]
  <2>1. outdated[t] \subseteq dependency[t] /\ Mirror(t)
    BY <1>1 DEF EdgesInv, Tidy, OutdatedHeld, Awake
  <2> QED  BY <1>2, <2>1, AddedDependency DEF Kind
<1>4. Awake(job[t])
  BY <1>1 DEF Awake
<1>5. ~in_progress[t].stale =>
         dependency'[t] \ outdated'[t] = values_edges(t, job[t].values) \cup {<<"output", u>>}
  <2>1. to_remove(t) = outdated[t] /\ partial(t) = {}
    BY <1>1 DEF to_remove, partial
  <2> QED  BY <1>3, <1>4, <2>1 DEF EdgesInv, Tidy, RunEdges, Fresh
<1>6. CASE output[u] = "error" \/ access(t).how = "resolve"
  <2>1. PICK v \in {Err, Ok} : job' = received(t, v) /\ (v = Err \/ access(t).how = "resolve")
    BY <1>6 DEF try_read_task_output
  <2>2. v \in Read
    BY DEF Read
  <2>3. read_edges(access(t), v) = {<<"output", u>>}
    BY <1>1, <2>1 DEF read_edges, Kind
  <2>4. Tidy(t)' /\ OutputHeld(t)'
    BY <1>1, <1>2, <1>3, <1>4, <1>5, <2>1, <2>2, <2>3, ReceivedTidy DEF EdgesInv, known
  <2>5. \A x \in Task \ {t} : Bystander(x)
    BY <1>2, <1>3, <2>1, ReceivedFrame, OthersRead DEF known
  <2> QED  BY <1>1, <1>2, <2>4, <2>5, OwnSteps DEF OwnStep
<1>7. CASE output[u] = "cell" /\ access(t).how = "await"
  <2>1. job' = move(t, "read")
    BY <1>7 DEF try_read_task_output
  <2>2. /\ job'[t].pc = "read" /\ job'[t].values = job[t].values
        /\ \A x \in Task \ {t} : job'[x] = job[x]
    BY <2>1, MoveTo
  <2>3. access(t)' = access(t) /\ in_progress'[t].state = "running"
    BY <1>2, <1>4, <2>2, Runs DEF access
  <2>4. AccessFits(t)' /\ OutdatedHeld(t)' /\ SettledEdges(t)' /\ CellFollows(t)' /\ CanceledStopped(t)'
    BY <1>3, <1>7, <2>2, <2>3 DEF AccessFits, OutdatedHeld, SettledEdges, settled, CellFollows, CanceledStopped
  <2>5. RunEdges(t)'
    <3>1. to_remove(t)' = outdated'[t] /\ partial(t)' = {<<"output", u>>}
      BY <1>1, <1>7, <2>2, <2>3 DEF to_remove, partial
    <3> QED  BY <1>2, <1>4, <1>5, <2>2, <3>1 DEF EdgesInv, Tidy, RunEdges, Fresh, known
  <2>6. OutputHeld(t)'
    <3>1. output'[access(t)'.task] = "cell"
      BY <1>1, <1>2, <1>7, <2>3
    <3> QED  BY <3>1 DEF OutputHeld
  <2>7. Tidy(t)'
    BY <1>3, <2>4, <2>5 DEF Tidy
  <2>8. \A x \in Task \ {t} : Bystander(x)
    BY <1>2, <1>3, <2>2, OthersRead DEF known
  <2> QED  BY <1>1, <1>2, <2>6, <2>7, <2>8, OwnSteps DEF OwnStep
<1> QED  BY <1>1, <1>6, <1>7

(* An await finds the cell of an output that it has read, unless it is     *)
(* being made stale.                                                       *)
LEMMA CellEdges ==
    ASSUME Inv, Inv', CodeIsTyped, EdgesInv, ~stopped, ~stopped', NEW t \in Task, NEW u \in Task,
           try_read_task_cell(t, u) \/ read_removed_cell(t, u)
    PROVE  EdgesInv'
<1>1. /\ job[t].pc = "read" /\ access(t).task = u /\ access(t).how \in {"await", "read"}
      /\ add_dependency(t, u, "cell")
      /\ UNCHANGED <<in_progress, output, celled, state, seen>>
  BY DEF try_read_task_cell, read_removed_cell, reading_cell, EdgesInv, Tidy, AccessFits, cells
<1>2. PICK v \in Read : /\ job' = received(t, v)
                        /\ v = Err => u \notin celled /\ in_progress[u].state = "none"
  <2>1. CASE try_read_task_cell(t, u)
    BY <2>1, ValueAssumption DEF try_read_task_cell, Inv, TypeOK, Read
  <2>2. CASE read_removed_cell(t, u)
    <3>1. in_progress[u].state = "none"
      BY <2>2, NotCanceled DEF read_removed_cell, Inv, TypeOK, InProgress
    <3> QED  BY <2>2, <3>1 DEF read_removed_cell, Read
  <2> QED  BY <2>1, <2>2
<1>3. /\ dependency'[t] \ outdated'[t] = (dependency[t] \ outdated[t]) \cup {<<"cell", u>>}
      /\ outdated'[t] \subseteq dependency'[t] /\ Mirror(t)'
      /\ \A x \in Task \ {t} :
            /\ dependency'[x] = dependency[x] /\ outdated'[x] = outdated[x]
            /\ \A w \in Task, k \in Kind : <<k, x>> \in dependent'[w] <=> <<k, x>> \in dependent[w]
  <2>1. outdated[t] \subseteq dependency[t] /\ Mirror(t)
    BY <1>1 DEF EdgesInv, Tidy, OutdatedHeld, Awake
  <2> QED  BY <1>1, <2>1, AddedDependency DEF Kind
<1>4. Awake(job[t])
  BY <1>1 DEF Awake
<1>5. ASSUME ~in_progress[t].stale, access(t).how = "await"
      PROVE  v # Err
  <2>1. SUFFICES ASSUME v = Err PROVE FALSE
    OBVIOUS
  <2>2. u \notin celled /\ in_progress[u].state = "none"
    BY <1>2, <2>1
  <2>3. output[u] = "cell" \/ TellsOutput(u, t)
    BY <1>1, <1>4, <1>5 DEF EdgesInv, OutputHeld, Fresh
  <2>4. ~TellsOutput(u, t)
    BY <2>2 DEF TellsOutput, Inv, OneJob
  <2> QED  BY <2>2, <2>3, <2>4 DEF EdgesInv, Tidy, CellFollows
<1>6. ~in_progress[t].stale =>
         dependency'[t] \ outdated'[t] = values_edges(t, job[t].values) \cup read_edges(access(t), v)
  <2>1. SUFFICES ASSUME ~in_progress[t].stale
                 PROVE  dependency'[t] \ outdated'[t] =
                            values_edges(t, job[t].values) \cup read_edges(access(t), v)
    OBVIOUS
  <2>2. to_remove(t) = outdated[t]
    BY <1>1 DEF to_remove
  <2>3. dependency[t] \ outdated[t] = values_edges(t, job[t].values) \cup partial(t)
    BY <1>4, <2>1, <2>2 DEF EdgesInv, Tidy, RunEdges, Fresh
  <2>4. partial(t) = IF access(t).how = "await" THEN {<<"output", u>>} ELSE {}
    BY <1>1 DEF partial
  <2>5. read_edges(access(t), v) = partial(t) \cup {<<"cell", u>>}
    BY <1>1, <1>5, <2>1, <2>4 DEF read_edges, Kind
  <2> QED  BY <1>3, <2>3, <2>5
<1>7. Tidy(t)' /\ OutputHeld(t)'
  BY <1>1, <1>2, <1>3, <1>4, <1>6, ReceivedTidy DEF EdgesInv, known
<1>8. \A x \in Task \ {t} : Bystander(x)
  BY <1>1, <1>2, <1>3, ReceivedFrame, OthersRead DEF known
<1> QED  BY <1>1, <1>7, <1>8, OwnSteps DEF OwnStep

LEMMA GetEdges ==
    ASSUME Inv, Inv', CodeIsTyped, EdgesInv, ~stopped, ~stopped', NEW t \in Task, get(t)
    PROVE  EdgesInv'
<1>1. /\ job[t].pc = "get" /\ Awake(job[t]) /\ access(t).how = "get" /\ Tidy(t)
      /\ state' = [state EXCEPT !.invalidators = @ \cup {t}]
      /\ job' = received(t, state.value) /\ state.value \in Read
      /\ UNCHANGED <<in_progress, output, celled, dependency, dependent, outdated, seen>>
  BY DEF get, EdgesInv, Tidy, AccessFits, Awake, cells, edges, Inv, TypeOK, Read
<1>2. known(t)' /\ \A x \in Task : known(x) => known(x)'
  BY <1>1 DEF known, Inv, TypeOK
<1>3. outdated'[t] \subseteq dependency'[t] /\ Mirror(t)'
  BY <1>1 DEF Tidy, OutdatedHeld, Mirror
<1>4. ~in_progress[t].stale =>
         dependency'[t] \ outdated'[t] =
             values_edges(t, job[t].values) \cup read_edges(access(t), state.value)
  <2>1. to_remove(t) = outdated[t] /\ partial(t) = {} /\ read_edges(access(t), state.value) = {}
    BY <1>1 DEF to_remove, partial, read_edges
  <2> QED  BY <1>1, <2>1 DEF Tidy, RunEdges, Fresh
<1>5. Tidy(t)' /\ OutputHeld(t)'
  BY <1>1, <1>2, <1>3, <1>4, ReceivedTidy
<1>6. \A x \in Task \ {t} : Bystander(x)
  BY <1>1, <1>2, ReceivedFrame, OthersRead
<1> QED  BY <1>1, <1>5, <1>6, OwnSteps DEF OwnStep

(* A job that has read everything and has not completed yet.               *)
LEMMA WritingTidy ==
    ASSUME Inv, EdgesInv, ~stopped, NEW t \in Task, Awake(job[t]),
           job[t].pc \in {"update_cell", "tell_cell_changed", "update_output", "tell_output_changed"},
           job'[t].pc \in {"tell_cell_changed", "update_output", "tell_output_changed", "complete"},
           job'[t].values = job[t].values,
           in_progress'[t].state = "running", in_progress[t].stale => in_progress'[t].stale,
           UNCHANGED <<dependency, outdated, dependent, state>>, CellFollows(t)'
    PROVE  Tidy(t)' /\ OutputHeld(t)'
<1>1. partial(t) = {} /\ partial(t)' = {} /\ AccessFits(t)' /\ OutputHeld(t)' /\ Awake(job'[t])
  BY DEF partial, AccessFits, OutputHeld, Awake
<1> QED  BY <1>1, Staying DEF EdgesInv, known

LEMMA WriteEdges ==
    ASSUME Inv, Inv', CodeIsTyped, EdgesInv, ~stopped, ~stopped', NEW t \in Task, NEW v \in Value,
           update_cell(t, v)
    PROVE  EdgesInv'
<1>1. /\ job[t].pc = "update_cell" /\ Awake(job[t])
      /\ UNCHANGED <<in_progress, output, celled, dependency, dependent, outdated, seen, state>>
  BY DEF update_cell, Awake, cells, edges
<1>2. /\ job'[t].pc \in {"tell_cell_changed", "update_output"}
      /\ job'[t].values = job[t].values
      /\ \A x \in Task \ {t} : Woken(job[x], job'[x])
  <2>1. CASE t \in Compared /\ cell[t] = v
    <3>1. job' = move(t, "update_output")
      BY <2>1 DEF update_cell
    <3> QED  BY <3>1, MoveTo DEF Woken
  <2>2. CASE ~(t \in Compared /\ cell[t] = v)
    <3> DEFINE tasks == IF t \in dirty THEN dependents(t, "cell") ELSE {}
               jobs == tell(t, "tell_cell_changed", tasks, "update_output")
    <3>1. job' = notify_cell(jobs, t)
      BY <2>2 DEF update_cell
    <3>2. tasks \in SUBSET Task
      BY DEF dependents
    <3> HIDE DEF tasks
    <3>3. jobs \in [Task -> Job]
      BY <1>1, <3>2, Telling DEF Inv, Pc, Goes
    <3>4. /\ jobs[t].pc \in {"tell_cell_changed", "update_output"} /\ jobs[t].values = job[t].values
          /\ \A x \in Task \ {t} : jobs[x] = job[x]
      BY TellTo
    <3> HIDE DEF jobs
    <3>5. \A x \in Task : Woken(jobs[x], job'[x])
      BY <3>1, <3>3, Wakes
    <3> QED  BY <3>4, <3>5 DEF Woken
  <2> QED  BY <2>1, <2>2
<1>3. in_progress'[t].state = "running"
  BY <1>1, Runs
<1>4. CellFollows(t)'
  BY <1>2, <1>3 DEF CellFollows
<1>5. Tidy(t)' /\ OutputHeld(t)'
  BY <1>1, <1>2, <1>3, <1>4, WritingTidy
<1>6. \A x \in Task \ {t} : Woken(job[x], job'[x]) /\ Progress(x, job'[x])
  BY <1>1, <1>2 DEF Progress
<1>7. \A x \in Task \ {t} : Bystander(x)
  BY <1>1, <1>6, OthersGo
<1> QED  BY <1>1, <1>5, <1>7, OwnSteps DEF OwnStep

(* Who has read the output of t, and is going to read its cell, is a       *)
(* dependent of the output and is told when the output becomes an error.   *)
LEMMA PublishEdges ==
    ASSUME Inv, Inv', CodeIsTyped, EdgesInv, ~stopped, ~stopped', NEW t \in Task, update_output(t)
    PROVE  EdgesInv'
<1> DEFINE new == IF result(t, job[t].values) = Err THEN "error" ELSE "cell"
<1>1. /\ job[t].pc = "update_output" /\ Awake(job[t])
      /\ UNCHANGED <<in_progress, celled, dependency, dependent, outdated, seen, state>>
  BY DEF update_output, Awake, cells, edges
<1>2. in_progress'[t].state = "running"
  BY <1>1, Runs
<1>3. \/ /\ in_progress[t].stale \/ (new = "cell" /\ output[t] = "cell")
         /\ job' = move(t, "complete") /\ output' = output
      \/ /\ output' = [output EXCEPT ![t] = new]
         /\ job' = tell(t, "tell_output_changed", dependents(t, "output"), "complete")
  BY DEF update_output
<1>4. /\ job'[t].pc \in {"tell_output_changed", "complete"} /\ job'[t].values = job[t].values
      /\ \A x \in Task \ {t} : job'[x] = job[x] /\ output'[x] = output[x]
      /\ output'[t] = "cell" => in_progress[t].stale \/ new = "cell"
      /\ \/ output'[t] = output[t]
         \/ output'[t] = "cell"
         \/ /\ job'[t].dependents = dependents(t, "output")
            /\ dependents(t, "output") # {} => job'[t].pc = "tell_output_changed"
  <2>1. CASE job' = move(t, "complete") /\ output' = output
    BY <1>3, <2>1, MoveTo, TellTo DEF Inv, TypeOK
  <2>2. CASE /\ output' = [output EXCEPT ![t] = new]
             /\ job' = tell(t, "tell_output_changed", dependents(t, "output"), "complete")
    <3>1. output'[t] = new /\ \A x \in Task \ {t} : output'[x] = output[x]
      BY <2>2 DEF Inv, TypeOK
    <3> HIDE DEF new
    <3>2. /\ job'[t].pc = IF dependents(t, "output") = {} THEN "complete" ELSE "tell_output_changed"
          /\ job'[t].values = job[t].values /\ job'[t].dependents = dependents(t, "output")
          /\ \A x \in Task \ {t} : job'[x] = job[x]
      BY <2>2, TellTo
    <3> QED  BY <3>1, <3>2
  <2> HIDE DEF new
  <2> QED  BY <1>3, <2>1, <2>2
<1>5. CellFollows(t)'
  <2>1. Fresh(t)' /\ output'[t] = "cell" => result(t, job'[t].values) # Err
    BY <1>1, <1>4 DEF Fresh, result
  <2> QED  BY <1>2, <1>4, <2>1 DEF CellFollows
<1>6. Tidy(t)' /\ OutputHeld(t)'
  BY <1>1, <1>2, <1>4, <1>5, WritingTidy
<1>7. \A x \in Task \ {t} : Woken(job[x], job'[x]) /\ Progress(x, job'[x])
  BY <1>1, <1>4 DEF Progress, Woken
<1>8. \A x \in Task \ {t} : Bystander(x)
  <2>1. ASSUME NEW x \in Task \ {t} PROVE Bystander(x)
    BY <1>1, <1>4, <1>7 DEF Bystander, known
  <2> QED  BY <2>1
<1>9. ASSUME NEW x \in Task \ {t} PROVE Tidy(x)'
  BY <1>8, BystanderTidy DEF EdgesInv
<1>10. ASSUME NEW x \in Task \ {t} PROVE OutputHeld(x)'
  <2> DEFINE w == access(x).task
  <2>1. access(x)' = access(x) /\ (Fresh(x)' => Fresh(x))
    BY <1>1, <1>4 DEF access, Fresh
  <2>2. SUFFICES ASSUME Fresh(x), job[x].pc \in {"read", "await_cell"}, access(x).how = "await"
                 PROVE  output'[w] = "cell" \/ (job'[w].pc = "tell_output_changed" /\ x \in job'[w].dependents)
    BY <1>4, <2>1 DEF OutputHeld, TellsOutput
  <2>3. output[w] = "cell" \/ (job[w].pc = "tell_output_changed" /\ x \in job[w].dependents)
    BY <2>2 DEF EdgesInv, OutputHeld, TellsOutput
  <2>4. w \in Task
    BY DEF access, CodeIsTyped, Access, Inv, TypeOK, Job
  <2>5. <<"output", w>> \in dependency[x]
    BY <2>2 DEF EdgesInv, Tidy, RunEdges, partial
  <2>6. w = t => x \in dependents(t, "output")
    BY <2>5 DEF EdgesInv, Tidy, Mirror, dependents, Kind
  <2> HIDE DEF w
  <2> QED  BY <1>1, <1>4, <2>3, <2>4, <2>6
<1> QED  BY <1>6, <1>9, <1>10 DEF EdgesInv

(* A dependent r that has been told does not complete what it has read.    *)
LEMMA TellEdges ==
    ASSUME Inv, Inv', CodeIsTyped, EdgesInv, ~stopped, ~stopped', NEW t \in Task, NEW r \in Task,
           make_dependent_dirty(t, r)
    PROVE  EdgesInv'
<1> DEFINE next == IF job[t].pc = "tell_cell_changed" THEN "update_output" ELSE "complete"
           jobs == tell(t, job[t].pc, job[t].dependents \ {r}, next)
<1>1. /\ job[t].pc \in {"tell_cell_changed", "tell_output_changed"} /\ Awake(job[t])
      /\ make_task_dirty(r, jobs)
      /\ UNCHANGED <<output, celled, dependency, dependent, outdated, seen, state>>
  BY DEF make_dependent_dirty, Awake, cells, edges
<1>2. Goes(jobs)
  <2>1. next \in Pc \ {"idle", "start"} /\ job[t].pc \in Pc \ {"idle", "start"}
        /\ job[t].dependents \ {r} \in SUBSET Task
    BY <1>1 DEF Pc, Inv, TypeOK, Job
  <2> HIDE DEF next
  <2> QED  BY <1>1, <2>1, Telling DEF Inv
<1>3. /\ jobs[t].pc = IF job[t].dependents \ {r} = {} THEN next ELSE job[t].pc
      /\ jobs[t].values = job[t].values /\ jobs[t].dependents = job[t].dependents \ {r}
      /\ \A x \in Task \ {t} : jobs[x] = job[x]
  <2> HIDE DEF next
  <2> QED  BY TellTo
<1>4. (\A x \in Task : Progress(x, jobs[x])) /\ Again(r)
  <2> HIDE DEF jobs
  <2> QED  BY <1>1, <1>2, Dirties
<1>5. /\ job'[t] = jobs[t] /\ in_progress'[t].state = "running"
      /\ in_progress[t].stale => in_progress'[t].stale
  <2> HIDE DEF jobs
  <2> QED  BY <1>1, <1>4, StillRuns
<1>6. CellFollows(t)'
  BY <1>1, <1>3, <1>5 DEF EdgesInv, Tidy, CellFollows, Fresh
<1>7. Tidy(t)' /\ OutputHeld(t)'
  BY <1>1, <1>3, <1>5, <1>6, WritingTidy
<1>8. \A x \in Task \ {t} : Bystander(x)
  <2> HIDE DEF jobs
  <2> QED  BY <1>1, <1>3, <1>4, Alone, OthersGo
<1>9. ASSUME NEW x \in Task \ {t} PROVE Tidy(x)'
  BY <1>8, BystanderTidy DEF EdgesInv
<1>10. ASSUME NEW x \in Task \ {t} PROVE OutputHeld(x)'
  <2> DEFINE w == access(x).task
  <2> SUFFICES ASSUME Fresh(x)', job'[x].pc \in {"read", "await_cell"}, access(x)'.how = "await"
               PROVE  \/ output'[access(x)'.task] = "cell"
                      \/ /\ job'[access(x)'.task].pc = "tell_output_changed"
                         /\ x \in job'[access(x)'.task].dependents
    BY DEF OutputHeld, TellsOutput
  <2>1. Fresh(x) /\ job[x].pc \in {"read", "await_cell"} /\ access(x)' = access(x)
    BY <1>8 DEF Bystander, Progress, Woken, Fresh, Awake, access
  <2>2. x # r
    <3>1. in_progress'[x].state = "running" /\ ~in_progress'[x].stale
      BY Inv' DEF Inv, OneJob, TypeOK, InProgress, Fresh
    <3> QED  BY <1>4, <3>1 DEF Again
  <2>3. output[w] = "cell" \/ (job[w].pc = "tell_output_changed" /\ x \in job[w].dependents)
    BY <2>1 DEF EdgesInv, OutputHeld, TellsOutput
  <2>4. w \in Task
    BY DEF access, CodeIsTyped, Access, Inv, TypeOK, Job
  <2>5. w # t => KeepsOutput(w)
    BY <1>8, <2>4, BystanderKeeps
  <2> HIDE DEF w
  <2>6. output'[w] = "cell" \/ (job'[w].pc = "tell_output_changed" /\ x \in job'[w].dependents)
    <3>1. CASE w = t
      BY <1>1, <1>3, <1>5, <2>2, <2>3, <3>1
    <3> QED  BY <2>3, <2>5, <3>1 DEF KeepsOutput
  <2> QED  BY <2>1, <2>6 DEF w
<1> QED  BY <1>7, <1>9, <1>10 DEF EdgesInv

(* A stale execution starts over.                                          *)
LEMMA RestartEdges ==
    ASSUME Inv, Inv', CodeIsTyped, EdgesInv, ~stopped, ~stopped', NEW t \in Task, reschedule(t),
           job[t].pc \in {"complete", "finish"},
           UNCHANGED <<output, celled, dependency, dependent, outdated, seen, state>>
    PROVE  EdgesInv'
<1>1. spawned.pc = "start" /\ spawned.values = <<>> /\ scheduled.state = "scheduled"
  BY DEF spawned, at, scheduled
<1>2. /\ job'[t] = spawned /\ in_progress'[t] = scheduled
      /\ \A x \in Task \ {t} : job'[x] = job[x] /\ in_progress'[x] = in_progress[x]
  BY DEF reschedule, Inv, TypeOK
<1>3. Tidy(t)' /\ OutputHeld(t)'
  BY <1>1, <1>2 DEF EdgesInv, Tidy, AccessFits, OutdatedHeld, RunEdges, SettledEdges, CellFollows, Mirror,
     CanceledStopped, OutputHeld, Fresh, Awake, settled
<1>4. \A x \in Task \ {t} : Woken(job[x], job'[x]) /\ Progress(x, job'[x])
  BY <1>2 DEF Woken, Progress
<1>5. \A x \in Task \ {t} : Bystander(x)
  BY <1>4, OthersGo
<1> QED  BY <1>3, <1>5, OwnSteps DEF OwnStep

(* What is outdated when t completes is what it has not read again.        *)
LEMMA CompleteEdges ==
    ASSUME Inv, Inv', CodeIsTyped, EdgesInv, ~stopped, ~stopped', NEW t \in Task, complete(t)
    PROVE  EdgesInv'
<1>1. /\ job[t].pc = "complete" /\ Awake(job[t]) /\ Tidy(t)
      /\ UNCHANGED <<output, dependency, dependent, outdated, seen, state>>
  BY DEF complete, Awake, edges, EdgesInv
<1>2. CASE in_progress[t].stale
  BY <1>1, <1>2, RestartEdges DEF complete
<1>3. CASE ~in_progress[t].stale
  <2> DEFINE removed == result(t, job[t].values) = Err
             old == outdated[t] \cup
                    IF removed THEN {<<"removed", r>> : r \in dependents(t, "cell")} ELSE {}
             j == [[job[t] EXCEPT !.pc = IF old = {} THEN "finish" ELSE "cleanup"] EXCEPT !.old_edges = old]
             jobs == [job EXCEPT ![t] = j]
  <2>1. /\ job' = notify_done(jobs, t)
        /\ in_progress' = [in_progress EXCEPT ![t].marked_as_completed = TRUE]
        /\ celled' = IF removed THEN celled \ {t} ELSE celled \cup {t}
    <3>1. [job EXCEPT ![t].pc = IF old = {} THEN "finish" ELSE "cleanup", ![t].old_edges = old] = jobs
      BY DEF Inv, TypeOK, Job
    <3> QED  BY <1>3, <3>1 DEF complete
  <2>2. /\ \A edge \in Kind \X Task : edge \in old <=> edge \in outdated[t]
        /\ outdated[t] \subseteq old
    <3>1. \A edge \in Kind \X Task, r \in Task : edge # <<"removed", r>>
      BY DEF Kind
    <3> QED  BY <3>1 DEF dependents
  <2>3. old \in SUBSET ((Kind \cup {"removed"}) \X Task)
    <3>1. outdated[t] \in SUBSET (Kind \X Task) /\ dependents(t, "cell") \in SUBSET Task
      BY DEF Inv, TypeOK, dependents
    <3>2. {<<"removed", r>> : r \in dependents(t, "cell")} \in SUBSET ({"removed"} \X Task)
      BY <3>1
    <3> QED  BY <3>1, <3>2
  <2> HIDE DEF old
  <2>4. /\ j \in Job /\ j.pc = IF old = {} THEN "finish" ELSE "cleanup"
        /\ j.values = job[t].values /\ j.old_edges = old
    <3>1. job[t] \in Job
      BY DEF Inv, TypeOK
    <3> QED  BY <2>3, <3>1 DEF Job, Pc
  <2> HIDE DEF j
  <2>5. jobs \in [Task -> Job] /\ jobs[t] = j /\ \A x \in Task \ {t} : jobs[x] = job[x]
    BY <2>4 DEF Inv, TypeOK
  <2> HIDE DEF jobs, removed
  <2>6. \A x \in Task : Woken(jobs[x], job'[x])
    BY <2>1, <2>5, Wakes
  <2>7. /\ job'[t].pc = IF old = {} THEN "finish" ELSE "cleanup"
        /\ job'[t].values = job[t].values /\ job'[t].old_edges = old
    BY <2>4, <2>5, <2>6 DEF Woken
  <2>8. /\ in_progress'[t].state = "running" /\ in_progress'[t].stale = in_progress[t].stale
        /\ \A x \in Task \ {t} : in_progress'[x] = in_progress[x]
    <3>1. in_progress[t].state = "running"
      BY <1>1, Runs
    <3> QED  BY <2>1, <3>1 DEF Inv, TypeOK, InProgress
  <2>9. AccessFits(t)' /\ OutdatedHeld(t)' /\ SettledEdges(t)' /\ CanceledStopped(t)' /\ OutputHeld(t)'
    BY <2>7, <2>8 DEF AccessFits, OutdatedHeld, SettledEdges, settled, CanceledStopped, OutputHeld
  <2>10. Mirror(t)'
    BY <1>1 DEF Tidy, Mirror
  <2>11. RunEdges(t)'
    <3>1. partial(t) = {} /\ partial(t)' = {} /\ to_remove(t) = outdated[t]
      BY <1>1, <2>7 DEF partial, to_remove
    <3>2. to_remove(t)' = old
      BY <2>7 DEF to_remove
    <3>3. dependency[t] \ old = dependency[t] \ outdated[t]
      BY <2>2 DEF Inv, TypeOK
    <3> QED  BY <1>1, <1>3, <2>7, <3>1, <3>2, <3>3 DEF Tidy, RunEdges, Fresh, known
  <2>12. CellFollows(t)'
    <3>1. output[t] = "cell" => ~removed
      BY <1>1, <1>3 DEF Tidy, CellFollows, Fresh, removed
    <3> QED  BY <1>1, <2>1, <2>7, <2>8, <3>1 DEF CellFollows
  <2>13. Tidy(t)'
    BY <2>9, <2>10, <2>11, <2>12 DEF Tidy
  <2>14. \A x \in Task \ {t} : Woken(job[x], job'[x]) /\ Progress(x, job'[x])
    BY <2>5, <2>6, <2>8 DEF Progress
  <2>15. \A x \in Task \ {t} : x \in celled' <=> x \in celled
    BY <2>1
  <2>16. \A x \in Task \ {t} : Bystander(x)
    BY <1>1, <2>14, <2>15, OthersGo
  <2> QED  BY <1>1, <2>9, <2>13, <2>16, OwnSteps DEF OwnStep
<1> QED  BY <1>2, <1>3

LEMMA RemainingTo ==
    ASSUME Inv, NEW t \in Task, NEW edge
    PROVE  /\ remaining(t, edge)[t].pc = IF job[t].old_edges \ {edge} = {} THEN "finish" ELSE "cleanup"
           /\ remaining(t, edge)[t].old_edges = job[t].old_edges \ {edge}
           /\ remaining(t, edge)[t].values = job[t].values
           /\ \A x \in Task \ {t} : remaining(t, edge)[x] = job[x]
<1> DEFINE left == job[t].old_edges \ {edge}
<1>1. job[t] \in Job /\ job \in [Task -> Job]
  BY DEF Inv, TypeOK
<1>2. /\ remaining(t, edge)[t] =
            [[job[t] EXCEPT !.pc = IF left = {} THEN "finish" ELSE "cleanup"] EXCEPT !.old_edges = left]
      /\ \A x \in Task \ {t} : remaining(t, edge)[x] = job[x]
  BY <1>1 DEF remaining
<1>3. job[t] = [pc |-> job[t].pc, values |-> job[t].values, dependents |-> job[t].dependents,
                old_edges |-> job[t].old_edges]
  BY <1>1 DEF Job
<1> QED  BY <1>2, <1>3

(* A job that removes edge, and the edge from its dependencies.            *)
LEMMA RemovingTidy ==
    ASSUME Inv, NEW t \in Task, Tidy(t), ~stopped, NEW edge, job[t].pc = "cleanup",
           job'[t] = remaining(t, edge)[t],
           in_progress'[t].state = "running", in_progress[t].stale => in_progress'[t].stale,
           dependency'[t] \ (job[t].old_edges \ {edge}) = dependency[t] \ job[t].old_edges,
           UNCHANGED <<output, celled, state>>, Mirror(t)'
    PROVE  Tidy(t)' /\ OutputHeld(t)'
<1> DEFINE left == job[t].old_edges \ {edge}
<1>1. /\ job'[t].pc = IF left = {} THEN "finish" ELSE "cleanup"
      /\ job'[t].old_edges = left /\ job'[t].values = job[t].values
  BY RemainingTo
<1> HIDE DEF left
<1>2. partial(t) = {} /\ partial(t)' = {}
  BY <1>1 DEF partial
<1>3. AccessFits(t)' /\ OutdatedHeld(t)' /\ SettledEdges(t)' /\ CanceledStopped(t)' /\ OutputHeld(t)'
  BY <1>1 DEF AccessFits, OutdatedHeld, SettledEdges, settled, CanceledStopped, OutputHeld
<1>4. CellFollows(t)'
  BY <1>1 DEF Tidy, CellFollows
<1>5. RunEdges(t)'
  <2>1. to_remove(t) = job[t].old_edges
    BY DEF to_remove
  <2>2. to_remove(t)' = left
    BY <1>1 DEF to_remove
  <2>3. Fresh(t)' => Fresh(t)
    BY DEF Fresh, Awake
  <2> QED  BY <1>1, <1>2, <2>1, <2>2, <2>3 DEF Tidy, RunEdges, known, left
<1> QED  BY <1>3, <1>4, <1>5 DEF Tidy

LEMMA RemoveEdges ==
    ASSUME Inv, Inv', CodeIsTyped, EdgesInv, ~stopped, ~stopped', NEW t \in Task, NEW u \in Task,
           NEW kind \in {"output", "cell"}, remove_dependency(t, u, kind)
    PROVE  EdgesInv'
<1> DEFINE edge == <<kind, u>>
<1>1. /\ job[t].pc = "cleanup" /\ edge \in job[t].old_edges /\ Awake(job[t]) /\ Tidy(t)
      /\ dependent' = [dependent EXCEPT ![u] = @ \ {<<kind, t>>}]
      /\ dependency' = [dependency EXCEPT ![t] = @ \ {edge}]
      /\ job' = remaining(t, edge)
      /\ UNCHANGED <<in_progress, output, celled, outdated, state, seen>>
  BY DEF remove_dependency, pops, Awake, EdgesInv, cells
<1>2. in_progress'[t].state = "running"
  BY <1>1, Runs
<1>3. /\ dependency'[t] = dependency[t] \ {edge}
      /\ \A x \in Task \ {t} : dependency'[x] = dependency[x]
      /\ \A w \in Task : dependent'[w] = IF w = u THEN dependent[u] \ {<<kind, t>>} ELSE dependent[w]
  BY <1>1 DEF Inv, TypeOK
<1>4. dependency'[t] \ (job[t].old_edges \ {edge}) = dependency[t] \ job[t].old_edges
  BY <1>1, <1>3
<1>5. Mirror(t)'
  <2> SUFFICES ASSUME NEW w \in Task, NEW k \in Kind
               PROVE  <<k, t>> \in dependent'[w] <=> <<k, w>> \in dependency'[t]
    BY DEF Mirror
  <2>1. <<k, t>> \in dependent[w] <=> <<k, w>> \in dependency[t]
    BY <1>1 DEF Tidy, Mirror
  <2>2. <<k, t>> \in dependent'[w] <=> <<k, t>> \in dependent[w] /\ ~(w = u /\ k = kind)
    BY <1>3
  <2> QED  BY <1>3, <2>1, <2>2
<1> HIDE DEF edge
<1>6. Tidy(t)' /\ OutputHeld(t)'
  BY <1>1, <1>2, <1>4, <1>5, RemovingTidy
<1>7. \A x \in Task \ {t} : job'[x] = job[x]
  BY <1>1, RemainingTo
<1>8. \A x \in Task \ {t}, w \in Task, k \in Kind : <<k, x>> \in dependent'[w] <=> <<k, x>> \in dependent[w]
  BY <1>3
<1>9. \A x \in Task \ {t} : Bystander(x)
  BY <1>1, <1>3, <1>7, <1>8, OthersRead DEF known
<1> QED  BY <1>1, <1>6, <1>9, OwnSteps DEF OwnStep

LEMMA RemovedCellEdges ==
    ASSUME Inv, Inv', CodeIsTyped, EdgesInv, ~stopped, ~stopped', NEW t \in Task, NEW r \in Task,
           removed_cell_dependent(t, r)
    PROVE  EdgesInv'
<1> DEFINE edge == <<"removed", r>>
           jobs == remaining(t, edge)
<1>1. /\ job[t].pc = "cleanup" /\ Awake(job[t]) /\ Tidy(t)
      /\ make_task_dirty(r, jobs)
      /\ UNCHANGED <<output, celled, dependency, dependent, outdated, seen, state>>
  BY DEF removed_cell_dependent, pops, Awake, EdgesInv, cells, edges
<1>2. edge \notin dependency[t]
  <2>1. dependency[t] \in SUBSET (Kind \X Task)
    BY DEF Inv, TypeOK
  <2>2. edge \notin Kind \X Task
    BY DEF Kind
  <2> QED  BY <2>1, <2>2
<1>3. \A x \in Task \ {t} : jobs[x] = job[x]
  BY RemainingTo
<1> HIDE DEF edge
<1>4. Goes(jobs)
  BY <1>1, Remaining DEF Inv
<1>5. \A x \in Task : Progress(x, jobs[x])
  <2> HIDE DEF jobs
  <2> QED  BY <1>1, <1>4, Dirties
<1>6. /\ job'[t] = jobs[t] /\ in_progress'[t].state = "running"
      /\ in_progress[t].stale => in_progress'[t].stale
  <2> HIDE DEF jobs
  <2> QED  BY <1>1, <1>5, StillRuns
<1>7. Mirror(t)' /\ dependency'[t] \ (job[t].old_edges \ {edge}) = dependency[t] \ job[t].old_edges
  BY <1>1, <1>2 DEF Tidy, Mirror
<1>8. Tidy(t)' /\ OutputHeld(t)'
  BY <1>1, <1>6, <1>7, RemovingTidy
<1>9. \A x \in Task \ {t} : Bystander(x)
  <2> HIDE DEF jobs
  <2> QED  BY <1>1, <1>3, <1>5, Alone, OthersGo
<1> QED  BY <1>1, <1>8, <1>9, OwnSteps DEF OwnStep

LEMMA FinishEdges ==
    ASSUME Inv, Inv', CodeIsTyped, EdgesInv, ~stopped, ~stopped', NEW t \in Task, finish(t)
    PROVE  EdgesInv'
<1>1. /\ job[t].pc = "finish" /\ Awake(job[t]) /\ Tidy(t)
      /\ UNCHANGED <<output, celled, dependency, dependent, outdated, state>>
  BY DEF finish, Awake, EdgesInv, edges
<1>2. CASE in_progress[t].stale
  BY <1>1, <1>2, RestartEdges DEF finish
<1>3. CASE ~in_progress[t].stale
  <2> DEFINE jobs == [job EXCEPT ![t] = idle]
  <2>1. idle \in Job /\ idle.pc = "idle" /\ none.state = "none"
    BY DEF idle, at, Job, Pc, none
  <2>2. jobs \in [Task -> Job] /\ jobs[t].pc = "idle" /\ \A x \in Task \ {t} : jobs[x] = job[x]
    BY <2>1 DEF Inv, TypeOK
  <2>3. /\ job' = notify_cell(jobs, t) /\ in_progress' = [in_progress EXCEPT ![t] = none]
        /\ seen' = [seen EXCEPT ![t] = job[t].values]
    BY <1>3 DEF finish
  <2> HIDE DEF jobs
  <2>4. \A x \in Task : Woken(jobs[x], job'[x])
    BY <2>2, <2>3, Wakes
  <2>5. /\ job'[t].pc = "idle" /\ in_progress'[t].state = "none" /\ seen'[t] = job[t].values
        /\ \A x \in Task \ {t} : in_progress'[x] = in_progress[x] /\ seen'[x] = seen[x]
    BY <2>1, <2>2, <2>3, <2>4 DEF Woken, Inv, TypeOK
  <2>6. AccessFits(t)' /\ OutdatedHeld(t)' /\ RunEdges(t)' /\ CanceledStopped(t)' /\ OutputHeld(t)'
    BY <2>5 DEF AccessFits, OutdatedHeld, RunEdges, Fresh, Awake, CanceledStopped, OutputHeld
  <2>7. SettledEdges(t)'
    <3>1. to_remove(t) = {} /\ partial(t) = {} /\ Fresh(t)
      BY <1>1, <1>3 DEF to_remove, partial, Fresh
    <3> QED  BY <1>1, <2>5, <3>1 DEF Tidy, RunEdges, SettledEdges, known
  <2>8. CellFollows(t)' /\ Mirror(t)'
    BY <1>1, <2>5 DEF Tidy, CellFollows, Mirror, Fresh, Awake
  <2>9. Tidy(t)'
    BY <2>6, <2>7, <2>8 DEF Tidy
  <2>10. \A x \in Task \ {t} : Woken(job[x], job'[x]) /\ Progress(x, job'[x])
    BY <2>2, <2>4, <2>5 DEF Progress
  <2>11. \A x \in Task \ {t} : Bystander(x)
    <3>1. ASSUME NEW x \in Task \ {t} PROVE Bystander(x)
      BY <1>1, <2>5, <2>10 DEF Bystander, known
    <3> QED  BY <3>1
  <2> QED  BY <1>1, <2>6, <2>9, <2>11, OwnSteps DEF OwnStep
<1> QED  BY <1>2, <1>3

-----------------------------------------------------------------------------
(* The steps outside of the tasks                                          *)

LEMMA EnvironmentEdges ==
    ASSUME Inv, Inv', CodeIsTyped, EdgesInv, ~stopped, ~stopped',
           environment \/ \E r \in Task : invalidate(r)
    PROVE  EdgesInv'
<1>0. Goes(job)
  BY DEF Goes, Inv, TypeOK
<1>1. ASSUME NEW x \in Task PROVE Woken(job[x], job[x])
  BY DEF Woken
<1>2. CASE /\ UNCHANGED <<in_progress, job, output, celled, dependency, dependent, seen>>
           /\ \A x \in Task : known(x) => known(x)'
           /\ \A x \in Task : outdated'[x] = outdated[x] \/ job[x].pc = "idle"
  <2>1. ASSUME NEW x \in Task PROVE Bystander(x)
    <3>1. Woken(job[x], job[x]) /\ Progress(x, job[x])
      BY <1>1, <1>2 DEF Progress
    <3> QED  BY <1>2, <3>1 DEF Bystander
  <2> QED  BY <2>1, OthersSteps
<1>3. ASSUME NEW v \in Value, set(v) PROVE EdgesInv'
  <2>1. \A x \in Task : known(x) => known(x)'
    BY <1>3 DEF set, known, Inv, TypeOK
  <2> QED  BY <1>2, <1>3, <2>1 DEF set, cells, edges
<1>4. ASSUME NEW u \in Task, final_read(u) PROVE EdgesInv'
  BY <1>2, <1>4 DEF final_read, edges, known
<1>5. CASE restart
  BY <1>2, <1>5 DEF restart, quiet, known
<1>6. ASSUME NEW u \in Task, try_read_task_cell_untracked(u) PROVE EdgesInv'
  <2>1. \A x \in Task : Progress(x, job[x])
    BY <1>0, <1>6, Schedules DEF try_read_task_cell_untracked
  <2>2. \A x \in Task : Bystander(x)
    BY <1>1, <1>6, <2>1 DEF Bystander, try_read_task_cell_untracked, edges, known
  <2> QED  BY <2>2, OthersSteps
<1>7. ASSUME NEW r \in Task, invalidate(r) PROVE EdgesInv'
  <2>1. (\A x \in Task : Progress(x, job[x])) /\ Again(r)
    BY <1>0, <1>7, Dirties DEF invalidate
  <2>2. \A x \in Task \ {r} : known(x) => known(x)'
    BY <1>7 DEF invalidate, known, Inv, TypeOK
  <2>3. \A x \in Task : Bystander(x)
    BY <1>1, <1>7, <2>1, <2>2 DEF Bystander, invalidate, cells, edges
  <2> QED  BY <2>3, OthersSteps
<1> QED
  BY <1>3, <1>4, <1>5, <1>6, <1>7 DEF environment, stop_and_wait

LEMMA InitEdges == Init => EdgesInv
<1> SUFFICES ASSUME Init, NEW t \in Task PROVE Tidy(t) /\ OutputHeld(t)
  BY DEF EdgesInv
<1>1. /\ spawned.pc = "start" /\ spawned.values = <<>> /\ idle.pc = "idle" /\ idle.values = <<>>
      /\ scheduled.state = "scheduled" /\ none.state = "none"
  BY DEF spawned, idle, at, scheduled, none
<1>2. /\ job[t].pc \in {"start", "idle"} /\ in_progress[t].state \in {"scheduled", "none"}
      /\ output[t] = "none" /\ dependency[t] = {} /\ dependent = [u \in Task |-> {}]
  BY <1>1 DEF Init
<1>3. AccessFits(t) /\ OutdatedHeld(t) /\ RunEdges(t) /\ CellFollows(t) /\ CanceledStopped(t) /\ OutputHeld(t)
  BY <1>2 DEF AccessFits, OutdatedHeld, RunEdges, CellFollows, CanceledStopped, OutputHeld, Fresh, Awake
<1>4. SettledEdges(t) /\ Mirror(t)
  <2>1. ~settled(t)
    BY <1>2 DEF settled
  <2>2. \A u \in Task : dependent[u] = {}
    BY <1>2
  <2> QED  BY <1>2, <2>1, <2>2 DEF SettledEdges, Mirror
<1> QED  BY <1>3, <1>4 DEF Tidy

LEMMA StepEdges ==
    ASSUME CodeIsTyped, Inv, Inv', EdgesInv, [Next]_vars
    PROVE  EdgesInv'
<1>1. CASE UNCHANGED vars
  BY <1>1 DEF vars, cells, edges, bounds, EdgesInv, Tidy, OutputHeld, TellsOutput, AccessFits, OutdatedHeld,
     RunEdges, SettledEdges, CellFollows, Mirror, CanceledStopped, Fresh, partial, to_remove, known, access,
     settled
<1>2. CASE stopped'
  BY <1>2 DEF EdgesInv
<1>3. CASE Next /\ ~stopped'
  <2>1. CASE environment \/ \E r \in Task : invalidate(r)
    <3>1. ~stopped
      BY <1>3, <2>1 DEF environment, set, try_read_task_cell_untracked, final_read, stop_and_wait, restart,
         invalidate
    <3> QED  BY <1>3, <2>1, <3>1, EnvironmentEdges
  <2>2. ASSUME NEW t \in Task, execute(t)
        PROVE  EdgesInv'
    <3>1. CASE start(t)
      BY <1>3, <3>1, StartEdges DEF start, task_execution_canceled, try_start_task_execution
    <3>2. CASE get(t)
      BY <1>3, <3>2, GetEdges DEF get
    <3>3. ASSUME NEW v \in Value, update_cell(t, v) PROVE EdgesInv'
      BY <1>3, <3>3, WriteEdges DEF update_cell
    <3>4. CASE update_output(t)
      BY <1>3, <3>4, PublishEdges DEF update_output
    <3>5. CASE complete(t)
      BY <1>3, <3>5, CompleteEdges DEF complete
    <3>6. CASE finish(t)
      BY <1>3, <3>6, FinishEdges DEF finish
    <3>7. ASSUME NEW u \in Task, read(t, u) PROVE EdgesInv'
      <4>1. ~stopped
        BY <1>3, <3>7 DEF read, connect_child, listen_to_done_event, read_canceled_output, try_read_task_output,
           try_read_task_cell, read_removed_cell, listen_to_cell, read_canceled_cell
      <4>2. ~read_canceled_output(t, u) /\ ~read_canceled_cell(t, u)
        BY <4>1, NotCanceled DEF read_canceled_output, read_canceled_cell
      <4> QED  BY <1>3, <3>7, <4>1, <4>2, CallEdges, OutputEdges, CellEdges DEF read
    <3>8. ASSUME NEW r \in Task, make_dependent_dirty(t, r) PROVE EdgesInv'
      BY <1>3, <3>8, TellEdges DEF make_dependent_dirty
    <3>9. ASSUME NEW u \in Task, clean_up(t, u) PROVE EdgesInv'
      <4>1. ~stopped
        BY <1>3, <3>9 DEF clean_up, remove_dependency, removed_cell_dependent
      <4> QED  BY <1>3, <3>9, <4>1, RemoveEdges, RemovedCellEdges DEF clean_up
    <3> QED  BY <2>2, <3>1, <3>2, <3>3, <3>4, <3>5, <3>6, <3>7, <3>8, <3>9 DEF execute
  <2> QED  BY <1>3, <2>1, <2>2 DEF Next, work
<1> QED  BY <1>1, <1>2, <1>3

(* If the code of every task says what it reads, whatever it has read so   *)
(* far, then a settled task is known to exactly the tasks it has read, on  *)
(* both ends, and to the State it has read: the edges that are added with  *)
(* every read, and removed one by one when a task completes, add up.       *)
THEOREM EdgesAlwaysExact == ASSUME CodeIsTyped PROVE Spec => []EdgesAreExact
<1>1. Init => EdgesInv
  BY InitEdges
<1>2. Inv /\ Inv' /\ EdgesInv /\ [Next]_vars => EdgesInv'
  BY StepEdges
<1>3. Inv /\ EdgesInv => EdgesAreExact
  <2> SUFFICES ASSUME EdgesInv, ~stopped, NEW t \in Task, settled(t)
               PROVE  /\ dependency[t] = edges_of(t)
                      /\ \A u \in Task : \A k \in Kind : <<k, t>> \in dependent[u] <=> <<k, u>> \in edges_of(t)
                      /\ (\E i \in 1..Len(seen[t]) : access_of(t, i).how = "get")
                            => t \in state.invalidators \cup state.taken
    BY DEF EdgesAreExact
  <2>1. dependency[t] = edges_of(t) /\ (gets(t, seen[t]) => known(t)) /\ Mirror(t)
    BY EdgesOf DEF EdgesInv, Tidy, SettledEdges
  <2>2. (\E i \in 1..Len(seen[t]) : access_of(t, i).how = "get") <=> gets(t, seen[t])
    BY DEF gets, access_at, access_of
  <2> QED  BY <2>1, <2>2 DEF Mirror, known
<1> QED  BY <1>1, <1>2, <1>3, InvAlways, PTL DEF Spec

-----------------------------------------------------------------------------
(* What was read                                                           *)

(* The content of the cell of t was dropped.                               *)
Dropped(t) == Missing \in contents[t]

(* Who reads the cell of a ResolvedVc got it from a task that has an       *)
(* output.                                                                 *)
ResolvedFirst ==
    ~stopped => \A t \in Task : job[t].pc = "read" /\ access(t).how = "read" => output[access(t).task] # "none"

(* Where a job is before it has written anything, and after.               *)
Before == {"start", "connect_child", "read_output", "await_done", "read", "await_cell", "get", "update_cell"}
After == {"tell_cell_changed", "update_output", "tell_output_changed", "complete", "cleanup", "finish"}

Continues(t, values) == ~failed(values) /\ NextRead(t, values).how # "return"
Begun(t, values) == \A i \in 1..Len(values) : Continues(t, SubSeq(values, 1, i - 1))

(* What the last execution has read and written is what t is.              *)
Recalls(t) == output[t] # "none" /\ t \notin dirty /\ job[t].pc \notin After

JobFits(t) ==
    /\ job[t].pc \notin {"tell_cell_changed", "tell_output_changed"} => job[t].dependents = {}
    /\ job[t].pc # "cleanup" => job[t].old_edges = {}
    /\ in_progress[t].stale => t \in dirty
    /\ job[t].pc \in Before \ {"start", "update_cell"} => Continues(t, job[t].values)
    /\ job[t].pc \in After \cup {"update_cell"} => ~Continues(t, job[t].values)
    /\ job[t].pc = "update_cell" => ~failed(job[t].values)
    /\ Begun(t, job[t].values)
SeenFits(t) == Begun(t, seen[t]) /\ (Recalls(t) => ~Continues(t, seen[t]))

CellIs(t, v) ==
    /\ v # Missing /\ v \in contents[t]
    /\ cell[t] = v \/ (cell[t] = Missing /\ Dropped(t))
Removed(t) == t \notin celled /\ cell[t] = Missing /\ contents[t] = {}
Written(t) ==
    job[t].pc \in After /\ result(t, job[t].values) # Err => CellIs(t, result(t, job[t].values))
Published(t) ==
    Fresh(t) /\ job[t].pc \in Ending => (output[t] = "error" <=> result(t, job[t].values) = Err)
Completed(t) ==
    job[t].pc \in {"cleanup", "finish"} =>
        IF result(t, job[t].values) = Err THEN Removed(t) ELSE t \in celled
Recalled(t) ==
    Recalls(t) =>
        IF output[t] = "error" THEN result(t, seen[t]) = Err /\ Removed(t)
        ELSE result(t, seen[t]) # Err /\ t \in celled /\ CellIs(t, result(t, seen[t]))
Kept(t) ==
    /\ t \in celled => output[t] # "none" /\ (cell[t] = Missing => Dropped(t))
    /\ cell[t] # Missing => cell[t] \in contents[t]
(* A task that executes without being dirty does so for its cell, unless   *)
(* it has never executed.                                                  *)
RunsAgain(t) == Recalls(t) /\ job[t].pc # "idle" => Dropped(t) /\ t \in celled
Unwritten(t) == output[t] = "none" /\ t \notin dirty /\ job[t].pc \notin After => contents[t] = {}
Lost(t) == silent(t) => Dropped(t) /\ t \in celled

Sound(t) ==
    /\ JobFits(t) /\ SeenFits(t) /\ Written(t) /\ Published(t) /\ Completed(t)
    /\ Recalled(t) /\ Kept(t) /\ RunsAgain(t) /\ Unwritten(t) /\ Lost(t)

(* It reads the same again, but for what has changed silently.             *)
silently(t, values) == \E u \in Task : <<"cell", u>> \in values_edges(t, values) /\ silent(u)
begins(values, all) == Len(values) <= Len(all) /\ values = SubSeq(all, 1, Len(values))
Repeats(t) ==
    Recalls(t) /\ job[t].pc # "idle" /\ ~told(t) =>
        begins(job[t].values, seen[t]) \/ (Awake(job[t]) /\ silently(t, job[t].values))
RecallEdges(t) ==
    Recalls(t) => values_edges(t, seen[t]) \subseteq dependency[t] /\ (gets(t, seen[t]) => known(t))

(* A cell that has changed silently is going to be written by a dirty      *)
(* task, or removed, or it has changed because of another one.             *)
last(t) == IF job[t].pc \in After THEN job[t].values ELSE seen[t]
WillWrite(t) == told(t) \/ in_progress[t].stale \/ (t \in dirty /\ job[t].pc \in Before)
Fails(t) == job[t].pc \in After \ {"cleanup", "finish"} /\ result(t, job[t].values) = Err

Noticed(t) ==
    t \notin Compared /\ silent(t) /\ ~WillWrite(t) /\ ~Fails(t) => silently(t, last(t))

(* What a reader of the cell of u has read, and nobody is telling it.      *)
CellAgrees(u, v) == v # Missing /\ v \in contents[u]
Gone(u) ==
    cell[u] = Missing /\ u \notin celled /\ (job[u].pc \in After => result(u, job[u].values) = Err)
Agrees(a, v) ==
    IF a.how = "get" THEN v = state.value
    ELSE /\ output[a.task] # "none"
         /\ a.how # "read" => (v = Err <=> output[a.task] = "error")
         /\ a.how = "resolve" => v \in {Ok, Err}
         /\ a.how = "read" /\ v = Err => Gone(a.task)
         /\ a.how # "resolve" /\ v # Err => CellAgrees(a.task, v)
Hold(t, values) == \A i \in 1..Len(values) : Agrees(access_at(t, values, i), values[i])
Current(t) == ~told(t) => (Recalls(t) => Hold(t, seen[t])) /\ (Fresh(t) => Hold(t, job[t].values))

CurrentInv == ~stopped => \A t \in Task : Sound(t) /\ Repeats(t) /\ RecallEdges(t) /\ Current(t) /\ Noticed(t)

-----------------------------------------------------------------------------
(* A task that is not the one whose job makes the step.                    *)
Aside(x) ==
    /\ \/ Woken(job[x], job'[x]) /\ (in_progress[x].stale => in_progress'[x].stale)
       \/ /\ job[x].pc = "idle" /\ job'[x] = spawned
          /\ x \in dirty' \/ output[x] = "none" \/ (cell[x] = Missing /\ x \in celled)
    /\ in_progress'[x].stale => in_progress[x].stale \/ x \in dirty'
    /\ dependency'[x] = dependency[x] /\ output'[x] = output[x] /\ seen'[x] = seen[x]
    /\ x \in celled' <=> x \in celled
    /\ \/ cell'[x] = cell[x] /\ contents'[x] = contents[x]
       \/ cell[x] # Missing /\ cell'[x] = Missing /\ contents'[x] = contents[x] \cup {Missing}
    /\ x \in dirty => x \in dirty'
    /\ known(x) => known(x)' \/ x \in dirty'

(* Who is told executes again.                                             *)
Hit(x) == x \in dirty' /\ (in_progress'[x].stale \/ job'[x].pc = "start")
Tells == \A x \in Task : told(x) => told(x)' \/ Hit(x)

LEMMA AsideKeeps ==
    ASSUME NEW x \in Task, Aside(x)
    PROVE  /\ Recalls(x)' => Recalls(x)
           /\ Fresh(x)' => Fresh(x) /\ job'[x].values = job[x].values
           /\ job'[x].pc \in After <=> job[x].pc \in After
           /\ job[x].pc \in After => job'[x].pc = job[x].pc
           /\ job[x].pc \in After \cup Before => job'[x].values = job[x].values
<1>1. spawned.pc = "start"
  BY DEF spawned, at
<1> QED  BY <1>1 DEF Aside, Woken, Recalls, Fresh, Awake, After, Before

LEMMA AsideContents ==
    ASSUME NEW x \in Task, Aside(x)
    PROVE  /\ contents[x] \subseteq contents'[x]
           /\ silent(x)' => silent(x)
           /\ Dropped(x) => Dropped(x)'
           /\ \A v : CellIs(x, v) => CellIs(x, v)'
           /\ Removed(x) => Removed(x)'
<1>1. contents[x] \subseteq contents'[x] /\ contents'[x] \ {Missing} = contents[x] \ {Missing}
  BY DEF Aside
<1>2. cell'[x] = cell[x] \/ (cell'[x] = Missing /\ Dropped(x)')
  BY DEF Aside, Dropped
<1>3. silent(x)' => silent(x)
  BY <1>1 DEF silent
<1>4. Dropped(x) => Dropped(x)'
  BY <1>1 DEF Dropped
<1>5. \A v : CellIs(x, v) => CellIs(x, v)'
  BY <1>1, <1>2, <1>4 DEF CellIs
<1>6. Removed(x) => Removed(x)'
  BY DEF Removed, Aside
<1> QED  BY <1>1, <1>3, <1>4, <1>5, <1>6

LEMMA NothingBegun == ASSUME NEW t PROVE Begun(t, <<>>)
BY DEF Begun

LEMMA AsideFits ==
    ASSUME NEW x \in Task, Aside(x), JobFits(x), SeenFits(x)
    PROVE  JobFits(x)' /\ SeenFits(x)'
<1>1. spawned.pc = "start" /\ spawned.dependents = {} /\ spawned.old_edges = {} /\ spawned.values = <<>>
  BY DEF spawned, at
<1>2. CASE job[x].pc = "idle" /\ job'[x] = spawned
  <2>1. Begun(x, job'[x].values)
    BY <1>1, <1>2, NothingBegun
  <2>2. in_progress'[x].stale => x \in dirty'
    BY DEF Aside, JobFits
  <2>3. job'[x].pc = "start" /\ job'[x].dependents = {} /\ job'[x].old_edges = {}
    BY <1>1, <1>2
  <2>4. JobFits(x)'
    BY <2>1, <2>2, <2>3 DEF JobFits, Before, After
  <2> QED  BY <2>4, AsideKeeps DEF SeenFits, Aside
<1>3. CASE Woken(job[x], job'[x])
  <2>2. in_progress'[x].stale => x \in dirty'
    BY DEF Aside, JobFits
  <2>4. JobFits(x)'
    BY <1>3, <2>2 DEF JobFits, Before, After, Woken
  <2> QED  BY <2>4, AsideKeeps DEF SeenFits, Aside
<1> QED  BY <1>2, <1>3 DEF Aside

LEMMA AsideSound ==
    ASSUME NEW x \in Task, Aside(x), Sound(x)
    PROVE  Sound(x)'
<1>1. JobFits(x)' /\ SeenFits(x)'
  BY AsideFits DEF Sound
<1>2. Written(x)'
  BY AsideKeeps, AsideContents DEF Sound, Written, After, result, failed
<1>3. Published(x)'
  BY AsideKeeps DEF Sound, Published, Aside, After, Ending
<1>4. Completed(x)'
  BY AsideKeeps, AsideContents DEF Sound, Completed, Aside, After
<1>5. Recalled(x)'
  BY AsideKeeps, AsideContents DEF Sound, Recalled, Aside
<1>6. Kept(x)'
  BY AsideContents DEF Sound, Kept, Aside, Dropped
<1>7. RunsAgain(x)'
  <2>1. CASE job[x].pc = "idle" /\ job'[x] = spawned
    BY <2>1, AsideKeeps, AsideContents DEF Sound, RunsAgain, Aside, Kept, Recalls, Woken
  <2>2. CASE Woken(job[x], job'[x])
    BY <2>2, AsideKeeps, AsideContents DEF Sound, RunsAgain, Aside, Woken
  <2> QED  BY <2>1, <2>2 DEF Aside
<1>8. Unwritten(x)'
  BY AsideKeeps DEF Sound, Unwritten, Kept, Aside
<1>9. Lost(x)'
  BY AsideContents DEF Sound, Lost, Aside
<1> QED  BY <1>1, <1>2, <1>3, <1>4, <1>5, <1>6, <1>7, <1>8, <1>9 DEF Sound

-----------------------------------------------------------------------------
(* What is read stays, or the reader is told.                              *)
OutputSteady(u) ==
    output[u] # "none" =>
        /\ output'[u] # "none"
        /\ output'[u] = output[u] \/ \A x \in dependents(u, "output") : told(x)'
CellKeeps(u) == contents[u] \subseteq contents'[u] /\ (Gone(u) => Gone(u)')
CellSteady(u) == output[u] # "none" => CellKeeps(u) \/ \A x \in dependents(u, "cell") : told(x)'
StateSteady == state'.value = state.value \/ \A x \in Task : known(x) => told(x)'
Steady == StateSteady /\ \A u \in Task : OutputSteady(u) /\ CellSteady(u)

LEMMA AgreesSteady ==
    ASSUME NEW x \in Task, NEW a \in Access, NEW v, Agrees(a, v), a.how # "return", Steady, ~told(x)',
           a.how = "get" => known(x),
           a.how \in {"await", "resolve"} => x \in dependents(a.task, "output"),
           a.how = "read" \/ (a.how = "await" /\ v # Err) => x \in dependents(a.task, "cell")
    PROVE  Agrees(a, v)'
<1>1. CASE a.how = "get"
  BY <1>1 DEF Agrees, Steady, StateSteady
<1>2. CASE a.how # "get"
  <2> DEFINE u == a.task
  <2>1. u \in Task /\ a.how \in {"await", "resolve", "read"}
    BY <1>2 DEF Access
  <2>2. OutputSteady(u) /\ CellSteady(u) /\ output[u] # "none"
    BY <1>2, <2>1 DEF Steady, Agrees
  <2> HIDE DEF u
  <2>3. output'[u] # "none" /\ (a.how # "read" => output'[u] = output[u])
    BY <2>1, <2>2 DEF OutputSteady, u
  <2>4. a.how = "read" /\ v = Err => Gone(u)'
    BY <1>2, <2>1, <2>2 DEF CellSteady, CellKeeps, Agrees, u
  <2>5. a.how # "resolve" /\ v # Err => CellAgrees(u, v)'
    BY <1>2, <2>1, <2>2 DEF CellSteady, CellKeeps, CellAgrees, Agrees, u
  <2> QED  BY <1>2, <2>3, <2>4, <2>5 DEF Agrees, u
<1> QED  BY <1>1, <1>2

LEMMA AccessAt ==
    ASSUME CodeIsTyped, NEW x \in Task, NEW values \in Seq(Read), NEW i \in 1..Len(values)
    PROVE  access_at(x, values, i) \in Access
<1>1. SubSeq(values, 1, i - 1) \in Seq(Read)
  OBVIOUS
<1> QED  BY <1>1 DEF access_at, CodeIsTyped

(* Everything that x has read.                                             *)
LEMMA HoldSteady ==
    ASSUME CodeIsTyped, NEW x \in Task, NEW values \in Seq(Read), Begun(x, values), Hold(x, values),
           Mirror(x), values_edges(x, values) \subseteq dependency[x], gets(x, values) => known(x),
           Steady, ~told(x)'
    PROVE  Hold(x, values)'
<1> SUFFICES ASSUME NEW i \in 1..Len(values)
             PROVE  Agrees(access_at(x, values, i), values[i])'
  BY DEF Hold
<1> DEFINE a == access_at(x, values, i)
<1>1. a \in Access
  BY AccessAt
<1>2. a.how # "return" /\ Agrees(a, values[i]) /\ (a.how = "get" => known(x))
  BY DEF Begun, Continues, access_at, Hold, gets
<1>3. \A k \in Kind : <<k, a.task>> \in read_edges(a, values[i]) => x \in dependents(a.task, k)
  <2> SUFFICES ASSUME NEW k \in Kind, <<k, a.task>> \in read_edges(a, values[i])
               PROVE  x \in dependents(a.task, k)
    OBVIOUS
  <2>1. a.task \in Task
    BY <1>1 DEF Access
  <2>2. <<k, a.task>> \in values_edges(x, values)
    BY <2>1 DEF values_edges
  <2> HIDE DEF a
  <2> QED  BY <2>1, <2>2 DEF Mirror, dependents
<1> HIDE DEF a
<1>4. a.how \in {"await", "resolve"} => x \in dependents(a.task, "output")
  BY <1>1, <1>3 DEF read_edges, Kind, Access
<1>5. a.how = "read" \/ (a.how = "await" /\ values[i] # Err) => x \in dependents(a.task, "cell")
  BY <1>1, <1>3 DEF read_edges, Kind, Access
<1>6. Agrees(a, values[i])'
  BY <1>1, <1>2, <1>4, <1>5, AgreesSteady
<1> QED  BY <1>6 DEF a

LEMMA SeenHolds ==
    ASSUME Inv, CodeIsTyped, NEW x \in Task, Tidy(x), Sound(x), RecallEdges(x), Current(x), Steady,
           Recalls(x), ~told(x), ~told(x)', NEW values, values = seen[x]
    PROVE  Hold(x, values)'
<1>1. values \in Seq(Read)
  BY DEF Inv, TypeOK
<1> QED  BY <1>1, HoldSteady DEF Current, RecallEdges, Tidy, Sound, SeenFits

LEMMA ValuesHold ==
    ASSUME Inv, CodeIsTyped, NEW x \in Task, Tidy(x), Sound(x), Current(x), Steady,
           Fresh(x), ~told(x), ~told(x)', NEW values, values = job[x].values
    PROVE  Hold(x, values)'
<1>1. values \in Seq(Read)
  BY DEF Inv, TypeOK, Job
<1>2. values_edges(x, values) \subseteq dependency[x] /\ (gets(x, values) => known(x))
  BY DEF Tidy, RunEdges
<1> QED  BY <1>1, <1>2, HoldSteady DEF Current, Tidy, Sound, JobFits

LEMMA NotHit ==
    ASSUME NEW x \in Task, Tells, ~told(x)', Recalls(x)' \/ Fresh(x)'
    PROVE  ~told(x)
BY DEF Tells, Hit, Recalls, Fresh, Awake

LEMMA SeenKept ==
    ASSUME Inv, CodeIsTyped, NEW x \in Task, Tidy(x), Sound(x), RecallEdges(x), Current(x), Steady, Tells,
           ~told(x)', Recalls(x)', Recalls(x), seen'[x] = seen[x]
    PROVE  Hold(x, seen[x])'
<1>1. PICK values : values = seen[x]
  OBVIOUS
<1>2. Hold(x, values)'
  BY <1>1, SeenHolds, NotHit
<1> QED  BY <1>1, <1>2 DEF Hold, access_at

LEMMA CurrentKept ==
    ASSUME Inv, CodeIsTyped, NEW x \in Task, Tidy(x), Sound(x), RecallEdges(x), Current(x), Steady, Tells,
           Recalls(x)' => Recalls(x) /\ seen'[x] = seen[x],
           Fresh(x)' => Fresh(x) /\ job'[x].values = job[x].values
    PROVE  Current(x)'
<1> SUFFICES ASSUME ~told(x)'
             PROVE  /\ Recalls(x)' => Hold(x, seen[x])'
                    /\ Fresh(x)' => Hold(x, job[x].values)'
  BY DEF Current
<1>1. ASSUME Fresh(x)' PROVE Hold(x, job[x].values)'
  <2>1. PICK values : values = job[x].values
    OBVIOUS
  <2>2. Hold(x, values)'
    BY <1>1, <2>1, ValuesHold, NotHit
  <2> QED  BY <1>1, <2>1, <2>2 DEF Hold, access_at
<1> QED  BY <1>1, SeenKept

LEMMA IdleIsClean ==
    ASSUME Inv, EdgesInv, ~stopped, NEW x \in Task, job[x].pc = "idle"
    PROVE  x \notin dirty
BY NotCanceled DEF Inv, OneJob, DirtyIsScheduled

(* What has changed silently was changed before, for the same reason.      *)
Keeps(u) ==
    silent(u)' /\ ~WillWrite(u)' /\ ~Fails(u)' =>
        silent(u) /\ ~WillWrite(u) /\ ~Fails(u) /\ last(u)' = last(u)

LEMMA SilentlySteady ==
    ASSUME NEW x \in Task, NEW values, silently(x, values), \A u \in Task : Sound(u),
           Mirror(x), values_edges(x, values) \subseteq dependency[x], Steady, ~told(x)'
    PROVE  silently(x, values)'
<1>1. PICK u \in Task : <<"cell", u>> \in values_edges(x, values) /\ silent(u)
  BY DEF silently
<1>2. x \in dependents(u, "cell")
  BY <1>1 DEF Mirror, dependents, Kind
<1>3. output[u] # "none"
  BY <1>1 DEF Sound, Lost, Kept
<1>4. contents[u] \subseteq contents'[u]
  BY <1>2, <1>3 DEF Steady, CellSteady, CellKeeps
<1>5. silent(u)'
  BY <1>1, <1>4 DEF silent
<1>6. (<<"cell", u>> \in values_edges(x, values))'
  BY <1>1 DEF values_edges, read_edges, access_at
<1> QED  BY <1>5, <1>6 DEF silently

LEMMA NoticedKept ==
    ASSUME Inv, EdgesInv, ~stopped, CurrentInv, NEW x \in Task, Steady, Keeps(x)
    PROVE  Noticed(x)'
<1> SUFFICES ASSUME x \notin Compared, silent(x)', ~WillWrite(x)', ~Fails(x)'
             PROVE  silently(x, last(x))'
  BY DEF Noticed
<1>1. silent(x) /\ ~WillWrite(x) /\ ~Fails(x) /\ last(x)' = last(x)
  BY DEF Keeps
<1>2. Sound(x) /\ Tidy(x) /\ RecallEdges(x) /\ silently(x, last(x)) /\ \A u \in Task : Sound(u)
  BY <1>1 DEF CurrentInv, EdgesInv, Noticed
<1>3. PICK values : values = last(x)
  OBVIOUS
<1>4. values_edges(x, values) \subseteq dependency[x]
  <2>1. CASE job[x].pc \in After
    BY <1>1, <1>2, <1>3, <2>1 DEF last, Tidy, RunEdges, Fresh, Awake, After, WillWrite
  <2>2. CASE job[x].pc \notin After
    <3>1. job[x].pc \in Before \/ job[x].pc = "idle"
      BY <2>2 DEF Inv, TypeOK, Job, Pc, Before, After
    <3>2. x \notin dirty
      BY <1>1, <3>1, IdleIsClean DEF WillWrite
    <3>3. Recalls(x)
      BY <1>1, <1>2, <2>2, <3>2 DEF Recalls, Sound, Lost, Kept
    <3> QED  BY <1>2, <1>3, <2>2, <3>3 DEF last, RecallEdges
  <2> QED  BY <2>1, <2>2
<1>5. silently(x, values)
  BY <1>2, <1>3
<1>6. ~told(x)' /\ Mirror(x)
  BY <1>2 DEF WillWrite, Tidy
<1>7. silently(x, values)'
  BY <1>2, <1>4, <1>5, <1>6, SilentlySteady
<1> QED  BY <1>1, <1>3, <1>7 DEF silently, values_edges, access_at

(* What t has read so far, when it executes again for its cell.            *)
LEMMA RepeatsKept ==
    ASSUME Inv, EdgesInv, ~stopped, CurrentInv, NEW x \in Task, Steady, Recalls(x), Awake(job[x]), ~told(x)',
           NEW values, values = job[x].values, silently(x, values)
    PROVE  silently(x, values)'
<1>1. Fresh(x) /\ Tidy(x) /\ \A u \in Task : Sound(u)
  BY DEF Fresh, CurrentInv, EdgesInv, Sound, JobFits, Recalls
<1>2. values_edges(x, values) \subseteq dependency[x] /\ Mirror(x)
  BY <1>1 DEF Tidy, RunEdges
<1> QED  BY <1>1, <1>2, SilentlySteady

LEMMA AsideRecalls ==
    ASSUME Inv, EdgesInv, ~stopped, CurrentInv, NEW x \in Task, Aside(x), Tells, Steady
    PROVE  Repeats(x)' /\ RecallEdges(x)'
<1>1. RecallEdges(x)'
  BY AsideKeeps DEF RecallEdges, Aside, Recalls, CurrentInv
<1>2. Repeats(x)'
  <2>1. SUFFICES ASSUME Recalls(x)', job'[x].pc # "idle", ~told(x)'
                 PROVE  begins(job'[x].values, seen'[x]) \/ (Awake(job'[x]) /\ silently(x, job[x].values)')
    BY DEF Repeats
  <2>2. Recalls(x) /\ ~told(x)
    BY <2>1, AsideKeeps DEF Tells, Hit, Recalls
  <2>3. CASE job[x].pc = "idle" /\ job'[x] = spawned
    <3>1. seen'[x] \in Seq(Read)
      BY DEF Aside, Inv, TypeOK
    <3> QED  BY <2>3, <3>1 DEF spawned, at, begins
  <2>4. CASE Woken(job[x], job'[x])
    <3>1. begins(job[x].values, seen[x]) \/ (Awake(job[x]) /\ silently(x, job[x].values))
      BY <2>1, <2>2, <2>4 DEF Repeats, Woken, CurrentInv
    <3>2. CASE begins(job[x].values, seen[x])
      BY <2>4, <3>2 DEF Woken, Aside
    <3>3. CASE Awake(job[x]) /\ silently(x, job[x].values)
      <4>1. PICK values : values = job[x].values
        OBVIOUS
      <4>2. silently(x, values)'
        BY <2>1, <2>2, <3>3, <4>1, RepeatsKept
      <4>3. job'[x].values = values /\ Awake(job'[x])
        BY <2>4, <3>3, <4>1 DEF Woken, Awake
      <4> QED  BY <4>2, <4>3 DEF silently, values_edges, access_at
    <3> QED  BY <3>1, <3>2, <3>3
  <2> QED  BY <2>3, <2>4 DEF Aside
<1> QED  BY <1>1, <1>2

LEMMA AsideSteady ==
    ASSUME Inv, EdgesInv, ~stopped, NEW u \in Task, Aside(u), Sound(u), Tells
    PROVE  OutputSteady(u) /\ CellKeeps(u) /\ Keeps(u)
<1>1. last(u)' = last(u)
  BY AsideKeeps DEF last, Aside
<1>2. WillWrite(u) => WillWrite(u)'
  <2>1. CASE told(u)
    BY <2>1 DEF Tells, Hit, WillWrite, Before
  <2>2. CASE in_progress[u].stale
    BY <2>2, IdleIsClean DEF WillWrite, Aside, Sound, JobFits
  <2>3. CASE u \in dirty /\ job[u].pc \in Before
    BY <2>3 DEF WillWrite, Aside, Woken, Before
  <2> QED  BY <2>1, <2>2, <2>3 DEF WillWrite
<1>3. Fails(u) => Fails(u)'
  BY AsideKeeps DEF Fails, result, failed
<1>4. Gone(u) => Gone(u)'
  BY AsideKeeps DEF Gone, Aside, result, failed
<1>5. contents[u] \subseteq contents'[u] /\ (silent(u)' => silent(u))
  BY AsideContents
<1>6. Keeps(u)
  BY <1>1, <1>2, <1>3, <1>5 DEF Keeps
<1> QED  BY <1>4, <1>5, <1>6 DEF OutputSteady, CellKeeps, Aside

LEMMA AsideCurrent ==
    ASSUME Inv, Inv', CodeIsTyped, EdgesInv, ~stopped, NEW x \in Task, Aside(x), Tells, Steady, Sound(x), RecallEdges(x), Current(x)
    PROVE  Current(x)'
BY AsideKeeps, CurrentKept DEF Aside, EdgesInv

(* The step of the job of t, as far as t is concerned.                     *)
Own(t) ==
    /\ Sound(t)' /\ RecallEdges(t)'
    /\ Steady => Current(t)' /\ Repeats(t)'
    /\ Keeps(t) \/ Noticed(t)'

LEMMA CurrentStep ==
    ASSUME Inv, Inv', CodeIsTyped, EdgesInv, ~stopped, CurrentInv, Tells, StateSteady, NEW t \in Task,
           \A x \in Task \ {t} : Aside(x),
           OutputSteady(t) /\ CellSteady(t), Own(t)
    PROVE  CurrentInv'
<1>1. Steady
  BY AsideSteady DEF Steady, CellSteady, CurrentInv
<1>2. ASSUME NEW x \in Task \ {t}
      PROVE  Sound(x)' /\ Repeats(x)' /\ RecallEdges(x)' /\ Current(x)' /\ Noticed(x)'
  <2>1. Keeps(x)
    BY AsideSteady DEF CurrentInv
  <2> QED  BY <1>1, <2>1, AsideSound, AsideRecalls, AsideCurrent, NoticedKept DEF CurrentInv
<1>3. Noticed(t)'
  BY <1>1, NoticedKept DEF Own
<1> QED  BY <1>1, <1>2, <1>3 DEF CurrentInv, Own

LEMMA AsideStep ==
    ASSUME Inv, Inv', CodeIsTyped, EdgesInv, ~stopped, CurrentInv, Tells, StateSteady,
           \A x \in Task : Aside(x)
    PROVE  CurrentInv'
<1>1. Steady
  BY AsideSteady DEF Steady, CellSteady, CurrentInv
<1>2. ASSUME NEW x \in Task PROVE Sound(x)' /\ Repeats(x)' /\ RecallEdges(x)' /\ Current(x)' /\ Noticed(x)'
  <2>1. Keeps(x)
    BY AsideSteady DEF CurrentInv
  <2> QED  BY <1>1, <2>1, AsideSound, AsideRecalls, AsideCurrent, NoticedKept DEF CurrentInv
<1> QED  BY <1>2 DEF CurrentInv

-----------------------------------------------------------------------------
(* Who is told goes on being told, until it executes again.                *)
LEMMA AsideTelling ==
    ASSUME NEW x \in Task, Aside(x), JobFits(x)
    PROVE  job'[x].dependents = job[x].dependents /\ job'[x].old_edges = job[x].old_edges
<1>1. spawned.dependents = {} /\ spawned.old_edges = {}
  BY DEF spawned, at
<1>2. CASE job[x].pc = "idle" /\ job'[x] = spawned
  BY <1>1, <1>2 DEF JobFits
<1>3. CASE Woken(job[x], job'[x])
  BY <1>3 DEF Woken
<1> QED  BY <1>2, <1>3 DEF Aside

(* job t tells those it has told, or has told them.                        *)
TellsStill(t) ==
    \A x \in Task : /\ x \in job[t].dependents => x \in job'[t].dependents \/ Hit(x)
                    /\ <<"removed", x>> \in job[t].old_edges =>
                          <<"removed", x>> \in job'[t].old_edges \/ Hit(x)
TakenTold == \A x \in Task : x \in state.taken => x \in state'.taken \/ Hit(x)

LEMMA TellsOn ==
    ASSUME CurrentInv, ~stopped, NEW t \in Task, \A x \in Task \ {t} : Aside(x), TellsStill(t), TakenTold
    PROVE  Tells
<1>1. \A r \in Task : TellsStill(r)
  BY AsideTelling DEF TellsStill, CurrentInv, Sound
<1> QED  BY <1>1 DEF Tells, told, TellsStill, TakenTold

LEMMA TellsAside ==
    ASSUME CurrentInv, ~stopped, \A x \in Task : Aside(x), TakenTold
    PROVE  Tells
<1>1. \A r \in Task : TellsStill(r)
  BY AsideTelling DEF TellsStill, CurrentInv, Sound
<1> QED  BY <1>1 DEF Tells, told, TellsStill, TakenTold

(* Others, when nobody but t is scheduled or made dirty.                   *)
LEMMA AsideAlone ==
    ASSUME NEW x \in Task, Woken(job[x], job'[x]), in_progress'[x] = in_progress[x],
           x \in dirty => x \in dirty', dependency'[x] = dependency[x], output'[x] = output[x],
           seen'[x] = seen[x], x \in celled' <=> x \in celled, cell'[x] = cell[x], contents'[x] = contents[x], known(x) => known(x)'
    PROVE  Aside(x)
BY DEF Aside

LEMMA AsideScheduled ==
    ASSUME Inv, NEW u \in Task, NEW jobs, Goes(jobs), add_scheduled(u, jobs), NEW x \in Task, Woken(job[x], jobs[x]),
           x = u /\ in_progress[u].state = "none" => output[u] = "none" \/ (cell[u] = Missing /\ u \in celled),
           UNCHANGED <<dirty, output, cell, celled, contents, dependency, seen, state>>
    PROVE  Aside(x)
<1>1. CASE in_progress[u].state = "none" /\ x = u
  <2>1. job[u].pc = "idle" /\ job'[u] = spawned /\ in_progress'[u] = scheduled
    BY <1>1 DEF add_scheduled, Goes, Inv, TypeOK, OneJob
  <2> QED  BY <1>1, <2>1 DEF Aside, scheduled, known
<1>2. CASE ~(in_progress[u].state = "none" /\ x = u)
  <2>1. job'[x] = jobs[x] /\ in_progress'[x] = in_progress[x]
    BY <1>2 DEF add_scheduled, Goes, Inv, TypeOK
  <2> QED  BY <2>1, AsideAlone DEF known
<1> QED  BY <1>1, <1>2

LEMMA DirtyHits ==
    ASSUME Inv, EdgesInv, ~stopped, NEW r \in Task, NEW jobs, Goes(jobs), make_task_dirty(r, jobs)
    PROVE  Hit(r)
<1>1. r \in dirty'
  BY DEF make_task_dirty
<1>2. in_progress[r].state # "canceled"
  BY NotCanceled
<1>3. CASE in_progress[r].state = "running"
  BY <1>1, <1>3 DEF make_task_dirty, Hit, Inv, TypeOK, InProgress
<1>4. CASE in_progress[r].state = "scheduled"
  <2>1. job' = jobs
    BY <1>4 DEF make_task_dirty, add_scheduled
  <2> QED  BY <1>1, <1>4, <2>1 DEF Hit, Inv, OneJob, Goes
<1>5. CASE in_progress[r].state = "none"
  <2>1. add_scheduled(r, jobs)
    BY <1>5 DEF make_task_dirty, Inv, DirtyIsScheduled
  <2>2. job' = [jobs EXCEPT ![r] = spawned]
    BY <1>5, <2>1 DEF add_scheduled
  <2> QED  BY <1>1, <2>2 DEF Hit, Goes, spawned, at
<1> QED  BY <1>2, <1>3, <1>4, <1>5 DEF Inv, TypeOK, InProgress

LEMMA AsideDirtied ==
    ASSUME Inv, NEW r \in Task, NEW jobs, Goes(jobs), make_task_dirty(r, jobs), NEW x \in Task, Woken(job[x], jobs[x]),
           UNCHANGED <<output, cell, celled, contents, dependency, seen>>, known(x) => known(x)' \/ x = r
    PROVE  Aside(x)
<1>1. dirty' = dirty \cup {r}
  BY DEF make_task_dirty
<1>2. CASE x # r
  <2>1. job'[x] = jobs[x] /\ in_progress'[x] = in_progress[x]
    BY <1>2 DEF make_task_dirty, add_scheduled, Goes, Inv, TypeOK
  <2> QED  BY <1>1, <1>2, <2>1, AsideAlone
<1>3. CASE x = r
  <2>1. CASE in_progress[r].state = "none"
    <3>1. add_scheduled(r, jobs)
      BY <2>1 DEF make_task_dirty, Inv, DirtyIsScheduled
    <3>2. job[r].pc = "idle" /\ job'[r] = spawned /\ ~in_progress'[r].stale
      BY <2>1, <3>1 DEF add_scheduled, Goes, Inv, TypeOK, OneJob, scheduled
    <3> QED  BY <1>1, <1>3, <3>2 DEF Aside
  <2>2. CASE in_progress[r].state # "none"
    <3>1. job'[r] = jobs[r]
      BY <2>2 DEF make_task_dirty, add_scheduled
    <3>2. in_progress[r].stale => in_progress'[r].stale
      BY <2>2 DEF make_task_dirty, add_scheduled, Inv, TypeOK, InProgress
    <3> QED  BY <1>1, <1>3, <3>1, <3>2 DEF Aside
  <2> QED  BY <2>1, <2>2
<1> QED  BY <1>2, <1>3

-----------------------------------------------------------------------------
(* What a job reads, from the start to its end                             *)

LEMMA BeforeSteady ==
    ASSUME NEW u \in Task, Tells, output'[u] = output[u], cell'[u] = cell[u], contents'[u] = contents[u],
           u \in celled' <=> u \in celled,
           seen'[u] = seen[u], in_progress[u].stale => u \in dirty, u \in dirty => u \in dirty',
           job[u].pc \in Before,
           job'[u].pc \in Before \/ (job'[u].pc = "update_output" /\ result(u, job'[u].values) = Err)
    PROVE  OutputSteady(u) /\ CellKeeps(u) /\ Keeps(u)
<1>1. job[u].pc \notin After
  BY DEF Before, After
<1>2. CASE job'[u].pc \in Before
  <2>1. job'[u].pc \notin After
    BY <1>2 DEF Before, After
  <2>2. last(u)' = last(u) /\ ~Fails(u)
    BY <1>1, <2>1 DEF last, Fails
  <2>3. WillWrite(u) => WillWrite(u)'
    BY <1>2 DEF WillWrite, Tells, Hit
  <2>4. Gone(u) => Gone(u)'
    BY <2>1 DEF Gone
  <2>5. Keeps(u)
    BY <2>2, <2>3 DEF Keeps, silent
  <2> QED  BY <2>4, <2>5 DEF OutputSteady, CellKeeps
<1>3. CASE job'[u].pc = "update_output" /\ result(u, job'[u].values) = Err
  <2>1. Fails(u)'
    BY <1>3 DEF Fails, After, result, failed
  <2>2. Gone(u) => Gone(u)'
    BY <1>3 DEF Gone, result, failed
  <2> QED  BY <2>1, <2>2 DEF OutputSteady, CellKeeps, Keeps
<1> QED  BY <1>2, <1>3

LEMMA AfterSteady ==
    ASSUME NEW u \in Task, Tells, cell'[u] = cell[u], contents'[u] = contents[u],
           result(u, job[u].values) = Err => (u \in celled' <=> u \in celled),
           in_progress[u].stale => in_progress'[u].stale,
           seen'[u] = seen[u], job[u].pc \in After, job'[u].pc \in After, job'[u].values = job[u].values,
           Fails(u) => job'[u].pc \notin {"cleanup", "finish"}
    PROVE  CellKeeps(u) /\ Keeps(u)
<1>1. last(u)' = last(u)
  BY DEF last
<1>2. WillWrite(u) => WillWrite(u)'
  BY DEF WillWrite, Tells, Hit, Before, After
<1>3. Fails(u) => Fails(u)'
  BY DEF Fails, result, failed
<1>4. Gone(u) => Gone(u)'
  BY DEF Gone, result, failed
<1>5. Keeps(u)
  BY <1>1, <1>2, <1>3 DEF Keeps, silent
<1> QED  BY <1>4, <1>5 DEF CellKeeps

(* A step of a job that has written nothing yet.                           *)
ReadsOn(t) ==
    /\ t \in dirty' <=> t \in dirty
    /\ output'[t] = output[t] /\ cell'[t] = cell[t] /\ contents'[t] = contents[t] /\ seen'[t] = seen[t]
    /\ t \in celled' <=> t \in celled
    /\ in_progress'[t].stale => in_progress[t].stale
    /\ dependency[t] \subseteq dependency'[t] /\ (known(t) => known(t)')
    /\ job[t].pc \in Before \ {"update_cell"}
    /\ job'[t].pc \in (Before \ {"start"}) \cup {"update_output"}
    /\ job'[t].pc = "update_output" => result(t, job'[t].values) = Err
    /\ job'[t].pc = "update_cell" => ~failed(job'[t].values)
    /\ job'[t].pc \in Before \ {"update_cell"} <=> Continues(t, job'[t].values)
    /\ job'[t].dependents = {} /\ job'[t].old_edges = {}
    /\ Begun(t, job'[t].values)

LEMMA ReadsOnOwn ==
    ASSUME Inv, CodeIsTyped, EdgesInv, ~stopped, CurrentInv, NEW t \in Task, ReadsOn(t), Tells,
           Steady /\ Recalls(t) /\ ~told(t) /\ ~told(t)' =>
               begins(job'[t].values, seen[t]) \/ silently(t, job[t].values)',
           Steady /\ Fresh(t)' /\ ~told(t)' => Hold(t, job[t].values)'
    PROVE  Own(t) /\ OutputSteady(t) /\ CellKeeps(t)
<1>1. OutputSteady(t) /\ CellKeeps(t) /\ Keeps(t)
  BY BeforeSteady DEF ReadsOn, CurrentInv, Sound, JobFits
<1>2. Recalls(t)' => Recalls(t)
  BY DEF ReadsOn, Recalls, Before, After
<1>3. JobFits(t)'
  BY DEF ReadsOn, JobFits, CurrentInv, Sound, Before, After
<1>4. SeenFits(t)'
  BY <1>2 DEF ReadsOn, CurrentInv, Sound, SeenFits
<1>5. Written(t)'
  BY DEF ReadsOn, Written, Before, After
<1>6. Published(t)' /\ Completed(t)'
  BY DEF ReadsOn, Published, Completed, Before, Ending
<1>7. Recalled(t)' /\ Kept(t)'
  BY <1>2 DEF ReadsOn, CurrentInv, Sound, Recalled, Kept, CellIs, Removed, Dropped
<1>8. RunsAgain(t)' /\ Unwritten(t)' /\ Lost(t)'
  BY <1>2 DEF ReadsOn, CurrentInv, Sound, RunsAgain, Unwritten, Lost, silent, Dropped, Before, After
<1>9. RecallEdges(t)'
  BY <1>2 DEF ReadsOn, CurrentInv, RecallEdges
<1>10. ASSUME Steady PROVE Repeats(t)'
  <2>1. job'[t].pc # "start" /\ job'[t].pc # "idle"
    BY DEF ReadsOn, Before
  <2> QED  BY <1>2, <1>10, <2>1, NotHit DEF ReadsOn, Repeats, Awake
<1>11. ASSUME Steady PROVE Current(t)'
  BY <1>2, <1>11, SeenKept DEF Current, CurrentInv, EdgesInv, ReadsOn
<1> QED  BY <1>1, <1>3, <1>4, <1>5, <1>6, <1>7, <1>8, <1>9, <1>10, <1>11 DEF Own, Sound

LEMMA ResumeTo ==
    ASSUME CodeIsTyped, NEW t \in Task, NEW values \in Seq(Read)
    PROVE  /\ resume(t, values).values = values /\ resume(t, values).dependents = {}
           /\ resume(t, values).old_edges = {}
           /\ resume(t, values).pc \in {"update_output", "update_cell", "connect_child", "read", "get"}
           /\ resume(t, values).pc = "update_output" => result(t, values) = Err
           /\ resume(t, values).pc = "update_cell" => ~failed(values)
           /\ resume(t, values).pc \in Before \ {"update_cell"} <=> Continues(t, values)
<1>1. NextRead(t, values).how \in {"await", "resolve", "read", "get", "return"}
  BY DEF CodeIsTyped, Access
<1>2. CASE failed(values)
  BY <1>2 DEF resume, at, result, Before, Continues
<1>3. CASE ~failed(values) /\ NextRead(t, values).how = "return"
  BY <1>3 DEF resume, at, result, Before, Continues
<1>4. CASE ~failed(values) /\ NextRead(t, values).how # "return"
  BY <1>1, <1>4 DEF resume, at, result, Before, Continues
<1> QED  BY <1>2, <1>3, <1>4

LEMMA StartCurrent ==
    ASSUME Inv, Inv', CodeIsTyped, EdgesInv, ~stopped, CurrentInv, NEW t \in Task, try_start_task_execution(t)
    PROVE  CurrentInv'
<1>1. /\ job[t].pc = "start"
      /\ in_progress' = [in_progress EXCEPT ![t] = running]
      /\ job' = [job EXCEPT ![t] = resume(t, <<>>)]
      /\ UNCHANGED <<dirty, output, cell, celled, contents, dependency, seen, state>>
  BY DEF try_start_task_execution, cells
<1>2. /\ job'[t] = resume(t, <<>>) /\ ~in_progress'[t].stale
      /\ \A x \in Task \ {t} : job'[x] = job[x] /\ in_progress'[x] = in_progress[x]
  BY <1>1 DEF Inv, TypeOK, running
<1>3. PICK nothing \in Seq(Read) : nothing = <<>> /\ Len(nothing) = 0
  <2>1. <<>> \in Seq(Read) /\ Len(<<>>) = 0
    OBVIOUS
  <2> QED  BY <2>1
<1>4. \A x \in Task \ {t} : Aside(x)
  BY <1>1, <1>2, AsideAlone DEF Woken, known
<1>5. Tells
  <2>1. TellsStill(t) /\ TakenTold
    BY <1>1 DEF TellsStill, TakenTold, CurrentInv, Sound, JobFits
  <2> QED  BY <1>4, <2>1, TellsOn
<1>6. ReadsOn(t)
  <2>1. Begun(t, nothing)
    BY <1>3, NothingBegun
  <2>2. job'[t] = resume(t, nothing)
    BY <1>2, <1>3
  <2> QED  BY <1>1, <1>2, <2>1, <2>2, ResumeTo DEF ReadsOn, Before, known
<1>7. job'[t].values = <<>>
  <2>1. job'[t] = resume(t, nothing)
    BY <1>2, <1>3
  <2> QED  BY <1>3, <2>1, ResumeTo
<1>8. Own(t) /\ OutputSteady(t) /\ CellKeeps(t)
  <2>1. Hold(t, job[t].values)'
    BY <1>3, <1>7 DEF Hold
  <2>2. begins(job'[t].values, seen[t])
    <3>1. seen[t] \in Seq(Read)
      BY DEF Inv, TypeOK
    <3> QED  BY <1>7, <3>1 DEF begins
  <2> QED  BY <1>5, <1>6, <2>1, <2>2, ReadsOnOwn
<1> QED  BY <1>1, <1>4, <1>5, <1>8, CurrentStep DEF StateSteady, CellSteady

LEMMA BegunMore ==
    ASSUME NEW t \in Task, NEW values \in Seq(Read), NEW v \in Read, Begun(t, values), Continues(t, values)
    PROVE  Begun(t, Append(values, v))
<1> DEFINE more == Append(values, v)
<1>1. more \in Seq(Read) /\ Len(more) = Len(values) + 1 /\ Len(values) \in Nat
  OBVIOUS
<1>2. ASSUME NEW i \in 1..Len(values) PROVE SubSeq(more, 1, i - 1) = SubSeq(values, 1, i - 1)
  OBVIOUS
<1>3. SubSeq(more, 1, (Len(values) + 1) - 1) = values
  OBVIOUS
<1>4. \A i : i \in 1..Len(more) <=> i \in 1..Len(values) \/ i = Len(values) + 1
  BY <1>1
<1> HIDE DEF more
<1>5. Begun(t, more)
  BY <1>2, <1>3, <1>4 DEF Begun
<1> QED  BY <1>5 DEF more

LEMMA HoldMore ==
    ASSUME NEW t \in Task, NEW values \in Seq(Read), NEW v \in Read, NEW a, a = NextRead(t, values),
           Hold(t, values)', Agrees(a, v)'
    PROVE  Hold(t, Append(values, v))'
<1> DEFINE more == Append(values, v)
<1>1. more \in Seq(Read) /\ Len(more) = Len(values) + 1 /\ Len(values) \in Nat
  OBVIOUS
<1>2. ASSUME NEW i \in 1..Len(values)
      PROVE  more[i] = values[i] /\ access_at(t, more, i) = access_at(t, values, i)
  <2>1. more[i] = values[i] /\ SubSeq(more, 1, i - 1) = SubSeq(values, 1, i - 1)
    OBVIOUS
  <2> QED  BY <2>1 DEF access_at
<1>3. more[Len(values) + 1] = v /\ access_at(t, more, Len(values) + 1) = a
  <2>1. more[Len(values) + 1] = v /\ SubSeq(more, 1, (Len(values) + 1) - 1) = values
    OBVIOUS
  <2> QED  BY <2>1 DEF access_at
<1>4. \A i : i \in 1..Len(more) <=> i \in 1..Len(values) \/ i = Len(values) + 1
  BY <1>1
<1> HIDE DEF more
<1>5. Hold(t, more)'
  BY <1>2, <1>3, <1>4 DEF Hold
<1> QED  BY <1>5 DEF more

(* A job that repeats what it has read has not read everything yet.        *)
LEMMA NextSeen ==
    ASSUME Inv, NEW t \in Task, Sound(t), Current(t), Recalls(t), ~told(t),
           begins(job[t].values, seen[t]), Continues(t, job[t].values)
    PROVE  \E w \in Read : /\ Agrees(access(t), w)
                           /\ Len(job[t].values) + 1 <= Len(seen[t])
                           /\ Append(job[t].values, w) = SubSeq(seen[t], 1, Len(job[t].values) + 1)
<1> DEFINE n == Len(job[t].values)
<1>1. seen[t] \in Seq(Read) /\ job[t].values \in Seq(Read) /\ n \in Nat
  BY DEF Inv, TypeOK, Job
<1>2. n <= Len(seen[t]) /\ job[t].values = SubSeq(seen[t], 1, n)
  BY DEF begins
<1>3. n # Len(seen[t])
  <2>1. n = Len(seen[t]) => job[t].values = seen[t]
    BY <1>1, <1>2
  <2> QED  BY <2>1 DEF Sound, SeenFits
<1> HIDE DEF n
<1>4. n + 1 \in 1..Len(seen[t]) /\ n + 1 <= Len(seen[t])
  BY <1>1, <1>2, <1>3
<1>5. Agrees(access(t), seen[t][n + 1])
  <2>1. access_at(t, seen[t], n + 1) = access(t)
    <3>1. (n + 1) - 1 = n
      BY <1>1
    <3> QED  BY <1>2, <3>1 DEF access_at, access
  <2>2. Hold(t, seen[t])
    BY DEF Current
  <2>3. Agrees(access_at(t, seen[t], n + 1), seen[t][n + 1])
    BY <1>4, <2>2 DEF Hold
  <2> QED  BY <2>1, <2>3
<1>6. seen[t][n + 1] \in Read
  BY <1>1, <1>4
<1>7. Append(job[t].values, seen[t][n + 1]) = SubSeq(seen[t], 1, n + 1)
  <2>1. Append(SubSeq(seen[t], 1, n), seen[t][n + 1]) = SubSeq(seen[t], 1, n + 1)
    BY <1>1, <1>4
  <2> QED  BY <1>2, <2>1
<1> QED  BY <1>4, <1>5, <1>6, <1>7 DEF n

Reading == Before \ {"start", "update_cell"}

(* A job that has read one thing more: what there is now, and the same as  *)
(* before when it executes again for its cell.                             *)
LEMMA ReceivedCurrent ==
    ASSUME Inv, Inv', CodeIsTyped, EdgesInv, ~stopped, CurrentInv, NEW t \in Task, NEW v \in Read,
           NEW a, a = access(t), job[t].pc \in Reading, job' = received(t, v),
           UNCHANGED <<in_progress, dirty, output, cell, celled, contents, seen>>,
           dependency[t] \subseteq dependency'[t], \A x \in Task \ {t} : dependency'[x] = dependency[x],
           \A x \in Task : known(x) => known(x)', state'.value = state.value, state'.taken = state.taken,
           Fresh(t) /\ ~told(t) => Agrees(a, v),
           Recalls(t) /\ ~told(t) =>
               \A w \in Read : Agrees(a, w) =>
                  w = v \/ (a.task \in Task /\ <<"cell", a.task>> \in read_edges(a, v) /\ silent(a.task))
    PROVE  CurrentInv'
<1> PICK values : values = job[t].values
  OBVIOUS
<1> PICK more : more = Append(values, v)
  OBVIOUS
<1>1. values \in Seq(Read) /\ more \in Seq(Read) /\ Len(more) = Len(values) + 1
  BY DEF Inv, TypeOK, Job
<1>2. job'[t] = resume(t, more) /\ \A x \in Task \ {t} : job'[x] = job[x]
  BY DEF received, Inv, TypeOK
<1>3. /\ job'[t].values = more /\ job'[t].dependents = {} /\ job'[t].old_edges = {}
      /\ job'[t].pc \in {"update_output", "update_cell", "connect_child", "read", "get"}
      /\ job'[t].pc = "update_output" => result(t, more) = Err
      /\ job'[t].pc = "update_cell" => ~failed(more)
      /\ job'[t].pc \in Before \ {"update_cell"} <=> Continues(t, more)
  <2>1. PICK j : j = resume(t, more)
    OBVIOUS
  <2>2. /\ j.values = more /\ j.dependents = {} /\ j.old_edges = {}
        /\ j.pc \in {"update_output", "update_cell", "connect_child", "read", "get"}
        /\ j.pc = "update_output" => result(t, more) = Err
        /\ j.pc = "update_cell" => ~failed(more)
        /\ j.pc \in Before \ {"update_cell"} <=> Continues(t, more)
    BY <1>1, <2>1, ResumeTo
  <2>3. job'[t] = j
    BY <1>2, <2>1
  <2> QED  BY <2>2, <2>3
<1>4. Continues(t, values) /\ Begun(t, more) /\ Awake(job[t])
  BY <1>1, BegunMore DEF CurrentInv, Sound, JobFits, Reading, Before, Awake
<1>5. \A x \in Task \ {t} : Aside(x)
  BY <1>2, AsideAlone DEF Woken
<1>6. Tells
  <2>1. TellsStill(t) /\ TakenTold
    BY DEF TellsStill, TakenTold, CurrentInv, Sound, JobFits, Reading, Before
  <2> QED  BY <1>5, <2>1, TellsOn
<1>7. ReadsOn(t)
  BY <1>3, <1>4 DEF ReadsOn, Reading, Before
<1>8. \A u \in Task : CellKeeps(u)
  <2>1. CellKeeps(t)
    BY <1>6, <1>7, BeforeSteady DEF ReadsOn, CurrentInv, Sound, JobFits
  <2> QED  BY <1>5, <1>6, <2>1, AsideSteady DEF CurrentInv
<1>9. Fresh(t) /\ ~told(t) => Agrees(a, v)'
  <2>1. a \in Access
    BY DEF access, CodeIsTyped, Inv, TypeOK, Job
  <2> QED  BY <1>8, <2>1 DEF Agrees, CellAgrees, CellKeeps, Access
<1>10. Own(t) /\ OutputSteady(t) /\ CellKeeps(t)
  <2>1. ASSUME Steady, Recalls(t), ~told(t), ~told(t)'
        PROVE  begins(job'[t].values, seen[t]) \/ silently(t, job[t].values)'
    <3>1. begins(values, seen[t]) \/ silently(t, values)
      BY <1>4, <2>1 DEF CurrentInv, Repeats, Awake
    <3>2. a = NextRead(t, values)
      BY DEF access
    <3>3. values_edges(t, more) = values_edges(t, values) \cup read_edges(a, v)
      BY <1>1, <3>2, OneMoreRead
    <3>4. (values_edges(t, more))' = values_edges(t, more)
      BY DEF values_edges, read_edges, access_at
    <3>5. \A u \in Task : silent(u) => silent(u)'
      BY DEF silent
    <3>6. ASSUME silently(t, more) PROVE silently(t, job[t].values)'
      BY <1>3, <3>4, <3>5, <3>6 DEF silently, values_edges, read_edges, access_at
    <3>7. CASE silently(t, values)
      BY <3>3, <3>6, <3>7 DEF silently
    <3>8. CASE begins(values, seen[t])
      <4>1. PICK w \in Read : /\ Agrees(a, w)
                              /\ Len(values) + 1 <= Len(seen[t])
                              /\ Append(values, w) = SubSeq(seen[t], 1, Len(values) + 1)
        BY <1>4, <2>1, <3>8, NextSeen DEF CurrentInv
      <4>2. CASE w = v
        BY <1>1, <1>3, <4>1, <4>2 DEF begins
      <4>3. CASE w # v
        BY <2>1, <3>3, <3>6, <4>1, <4>3 DEF silently
      <4> QED  BY <4>2, <4>3
    <3> QED  BY <3>1, <3>7, <3>8
  <2>2. ASSUME Steady, Fresh(t)', ~told(t)'
        PROVE  Hold(t, job[t].values)'
    <3>1. Fresh(t) /\ ~told(t)
      BY <1>4, <1>6, <2>2, NotHit DEF Fresh
    <3>2. Hold(t, values)'
      BY <2>2, <3>1, ValuesHold DEF CurrentInv, EdgesInv
    <3>3. a = NextRead(t, values)
      BY DEF access
    <3>4. Hold(t, more)'
      BY <1>1, <1>9, <3>1, <3>2, <3>3, HoldMore
    <3> QED  BY <1>3, <3>4 DEF Hold, access_at
  <2> QED  BY <1>6, <1>7, <2>1, <2>2, ReadsOnOwn
<1> QED  BY <1>5, <1>6, <1>10, CurrentStep DEF StateSteady, CellSteady

(* A job that goes on with what it has read.                               *)
LEMMA MovedCurrent ==
    ASSUME Inv, Inv', CodeIsTyped, EdgesInv, ~stopped, CurrentInv, NEW t \in Task,
           job[t].pc \in Reading, job'[t].pc \in Reading, job'[t].values = job[t].values,
           job'[t].dependents = job[t].dependents, job'[t].old_edges = job[t].old_edges,
           in_progress'[t].stale <=> in_progress[t].stale,
           UNCHANGED <<dirty, output, cell, celled, contents, seen, state>>, dependency[t] \subseteq dependency'[t],
           \A x \in Task \ {t} : Aside(x)
    PROVE  CurrentInv'
<1>1. Awake(job[t]) /\ job[t].dependents = {} /\ job[t].old_edges = {} /\ Continues(t, job[t].values)
  BY DEF CurrentInv, Sound, JobFits, Reading, Before, Awake
<1>2. Tells
  <2>1. TellsStill(t) /\ TakenTold
    BY <1>1 DEF TellsStill, TakenTold
  <2> QED  BY <2>1, TellsOn
<1>3. ReadsOn(t)
  BY <1>1 DEF ReadsOn, Reading, Before, CurrentInv, Sound, JobFits, known
<1>4. ASSUME Steady, Fresh(t)', ~told(t)'
      PROVE  Hold(t, job[t].values)'
  <2>1. PICK values : values = job[t].values
    OBVIOUS
  <2>2. Fresh(t) /\ ~told(t)
    BY <1>1, <1>2, <1>4, NotHit DEF Fresh
  <2>3. Hold(t, values)'
    BY <1>4, <2>1, <2>2, ValuesHold DEF CurrentInv, EdgesInv
  <2> QED  BY <2>1, <2>3 DEF Hold, access_at
<1>5. ASSUME Steady, Recalls(t), ~told(t), ~told(t)'
      PROVE  begins(job'[t].values, seen[t]) \/ silently(t, job[t].values)'
  <2>1. PICK values : values = job[t].values
    OBVIOUS
  <2>2. begins(values, seen[t]) \/ silently(t, values)
    BY <1>1, <1>5, <2>1 DEF CurrentInv, Repeats, Awake
  <2>3. silently(t, values) => silently(t, values)'
    BY <1>1, <1>5, <2>1, RepeatsKept
  <2> QED  BY <2>1, <2>2, <2>3 DEF silently, values_edges, access_at
<1>6. Own(t) /\ OutputSteady(t) /\ CellKeeps(t)
  BY <1>2, <1>3, <1>4, <1>5, ReadsOnOwn
<1> QED  BY <1>2, <1>6, CurrentStep DEF StateSteady, CellSteady

(* t has read from u.                                                      *)
LEMMA DependencyAdded ==
    ASSUME Inv, NEW t \in Task, NEW u \in Task, NEW kind, add_dependency(t, u, kind)
    PROVE  /\ dependency[t] \subseteq dependency'[t]
           /\ \A x \in Task \ {t} : dependency'[x] = dependency[x]
BY DEF add_dependency, Inv, TypeOK

LEMMA OutputReadCurrent ==
    ASSUME Inv, Inv', CodeIsTyped, EdgesInv, ~stopped, CurrentInv, NEW t \in Task, NEW u \in Task,
           try_read_task_output(t, u)
    PROVE  CurrentInv'
<1>1. /\ job[t].pc = "read_output" /\ access(t).task = u /\ output[u] \in {"error", "cell"}
      /\ access(t).how \in {"await", "resolve"}
      /\ UNCHANGED <<in_progress, dirty, output, cell, celled, contents, seen, state>>
  BY DEF try_read_task_output, reading_output, EdgesInv, Tidy, AccessFits, Inv, TypeOK, cells
<1>2. /\ dependency[t] \subseteq dependency'[t]
      /\ \A x \in Task \ {t} : dependency'[x] = dependency[x]
  BY DependencyAdded DEF try_read_task_output
<1>3. CASE output[u] = "error" \/ access(t).how = "resolve"
  <2>1. PICK v \in {Err, Ok} : job' = received(t, v) /\ v = IF output[u] = "error" THEN Err ELSE Ok
    BY <1>3 DEF try_read_task_output
  <2>2. v \in Read /\ (v = Err <=> output[u] = "error")
    BY <2>1, ValueAssumption DEF Read
  <2>3. Agrees(access(t), v)
    BY <1>1, <1>3, <2>1, <2>2 DEF Agrees
  <2>4. \A w \in Read : Agrees(access(t), w) => w = v
    BY <1>1, <1>3, <2>1, <2>2 DEF Agrees
  <2>5. job[t].pc \in Reading /\ \A x \in Task : known(x) => known(x)'
    BY <1>1 DEF Reading, Before, known
  <2> QED  BY <1>1, <1>2, <2>1, <2>2, <2>3, <2>4, <2>5, ReceivedCurrent
<1>4. CASE output[u] = "cell" /\ access(t).how = "await"
  <2>1. job' = move(t, "read")
    BY <1>4 DEF try_read_task_output
  <2>2. /\ job'[t].pc = "read" /\ job'[t].values = job[t].values
        /\ job'[t].dependents = job[t].dependents /\ job'[t].old_edges = job[t].old_edges
        /\ \A x \in Task \ {t} : job'[x] = job[x]
    BY <2>1 DEF move, Inv, TypeOK, Job
  <2>3. \A x \in Task \ {t} : Aside(x)
    BY <1>1, <1>2, <2>2, AsideAlone DEF Woken, known
  <2>4. job[t].pc \in Reading /\ job'[t].pc \in Reading
    BY <1>1, <2>2 DEF Reading, Before
  <2> QED  BY <1>1, <1>2, <2>2, <2>3, <2>4, MovedCurrent
<1> QED  BY <1>1, <1>3, <1>4

(* What a cell contains.                                                   *)
LEMMA CellThere ==
    ASSUME Inv, EdgesInv, ~stopped, CurrentInv, NEW u \in Task, output[u] # "none", cell[u] # Missing
    PROVE  CellAgrees(u, cell[u])
BY DEF CellAgrees, CurrentInv, Sound, Kept

(* A task that executes for its cell is fresh.                             *)
LEMMA AgainFresh ==
    ASSUME ~stopped, CurrentInv, NEW t \in Task, Recalls(t), Awake(job[t])
    PROVE  Fresh(t)
BY DEF CurrentInv, Sound, JobFits, Recalls, Fresh

(* What is read of a cell was published.                                   *)
LEMMA OutputRead ==
    ASSUME Inv, CodeIsTyped, EdgesInv, ~stopped, ResolvedFirst, NEW t \in Task, Fresh(t), ~told(t),
           job[t].pc = "read", NEW u \in Task, u = access(t).task
    PROVE  /\ access(t).how \in {"await", "read"} => output[u] # "none"
           /\ access(t).how = "await" => output[u] = "cell"
<1>1. ~TellsOutput(u, t)
  BY DEF TellsOutput, told
<1>2. access(t).how = "await" => output[u] = "cell" \/ TellsOutput(u, t)
  BY DEF EdgesInv, OutputHeld
<1>3. access(t).how = "read" => output[u] # "none"
  BY DEF ResolvedFirst
<1> QED  BY <1>1, <1>2, <1>3

LEMMA CellReadCurrent ==
    ASSUME Inv, Inv', CodeIsTyped, EdgesInv, ~stopped, CurrentInv, ResolvedFirst,
           NEW t \in Task, NEW u \in Task, try_read_task_cell(t, u)
    PROVE  CurrentInv'
<1>1. /\ job[t].pc = "read" /\ access(t).task = u /\ access(t).how \in {"await", "read"}
      /\ cell[u] # Missing /\ job' = received(t, cell[u])
      /\ UNCHANGED <<in_progress, dirty, output, cell, celled, contents, seen, state>>
  BY DEF try_read_task_cell, reading_cell, EdgesInv, Tidy, AccessFits, cells
<1>2. /\ dependency[t] \subseteq dependency'[t]
      /\ \A x \in Task \ {t} : dependency'[x] = dependency[x]
  BY DependencyAdded DEF try_read_task_cell
<1>3. PICK v : v = cell[u]
  OBVIOUS
<1>4. v \in Value /\ v \in Read /\ v # Err
  BY <1>1, <1>3, ValueAssumption DEF Inv, TypeOK, Read
<1>5. Awake(job[t]) /\ job[t].pc \in Reading
  BY <1>1 DEF Awake, Reading, Before
<1>6. ASSUME Fresh(t), ~told(t) PROVE Agrees(access(t), v)
  <2>1. output[u] # "none" /\ (access(t).how = "await" => output[u] = "cell")
    BY <1>1, <1>6, OutputRead
  <2>2. CellAgrees(u, v)
    BY <1>1, <1>3, <2>1, CellThere
  <2> QED  BY <1>1, <1>4, <2>1, <2>2 DEF Agrees
<1>7. ASSUME Recalls(t), ~told(t), NEW w \in Read, Agrees(access(t), w)
      PROVE  w = v \/ (u \in Task /\ <<"cell", u>> \in read_edges(access(t), v) /\ silent(u))
  <2>1. Fresh(t)
    BY <1>5, <1>7, AgainFresh
  <2>2. access(t).how = "await" => output[u] = "cell"
    BY <1>1, <1>7, <2>1, OutputRead
  <2>3. w # Err
    BY <1>1, <1>7, <2>2 DEF Agrees, Gone
  <2>4. CellAgrees(u, w)
    BY <1>1, <1>7, <2>3 DEF Agrees
  <2>5. CellAgrees(u, v)
    BY <1>1, <1>3, <1>7, <2>1, OutputRead, CellThere
  <2>6. w = v \/ silent(u)
    BY <2>4, <2>5 DEF CellAgrees, silent
  <2>7. <<"cell", u>> \in read_edges(access(t), v)
    BY <1>1, <1>4 DEF read_edges, Kind
  <2> QED  BY <2>6, <2>7
<1>8. \A x \in Task : known(x) => known(x)'
  BY <1>1 DEF known
<1> QED  BY <1>1, <1>2, <1>3, <1>4, <1>5, <1>6, <1>7, <1>8, ReceivedCurrent

LEMMA RemovedReadCurrent ==
    ASSUME Inv, Inv', CodeIsTyped, EdgesInv, ~stopped, CurrentInv, ResolvedFirst,
           NEW t \in Task, NEW u \in Task, read_removed_cell(t, u)
    PROVE  CurrentInv'
<1>1. /\ job[t].pc = "read" /\ access(t).task = u /\ access(t).how \in {"await", "read"}
      /\ cell[u] = Missing /\ u \notin celled /\ job' = received(t, Err)
      /\ UNCHANGED <<in_progress, dirty, output, cell, celled, contents, seen, state>>
  BY DEF read_removed_cell, reading_cell, EdgesInv, Tidy, AccessFits, cells
<1>2. /\ dependency[t] \subseteq dependency'[t]
      /\ \A x \in Task \ {t} : dependency'[x] = dependency[x]
  BY DependencyAdded DEF read_removed_cell
<1>3. in_progress[u].state = "none" /\ job[u].pc = "idle"
  BY NotCanceled DEF read_removed_cell, Inv, TypeOK, InProgress, OneJob
<1>4. Awake(job[t]) /\ job[t].pc \in Reading /\ Err \in Read
  BY <1>1 DEF Awake, Reading, Before, Read
<1>5. output[u] # "cell"
  BY <1>1, <1>3 DEF EdgesInv, Tidy, CellFollows
<1>6. ASSUME Fresh(t), ~told(t) PROVE Agrees(access(t), Err) /\ access(t).how = "read"
  <2>1. output[u] # "none" /\ access(t).how = "read"
    BY <1>1, <1>5, <1>6, OutputRead
  <2>2. Gone(u)
    BY <1>1, <1>3 DEF Gone, After
  <2> QED  BY <1>1, <2>1, <2>2 DEF Agrees
<1>7. ASSUME Recalls(t), ~told(t), NEW w \in Read, Agrees(access(t), w) PROVE w = Err
  <2>1. w # Err => CellAgrees(u, w) /\ output[u] # "none"
    BY <1>1, <1>7 DEF Agrees
  <2>2. output[u] # "none" => contents[u] = {}
    <3>1. output[u] # "none" => Recalls(u) /\ output[u] = "error"
      BY <1>3, <1>5, IdleIsClean DEF Recalls, After, Inv, TypeOK
    <3> QED  BY <3>1 DEF CurrentInv, Sound, Recalled, Removed
  <2> QED  BY <2>1, <2>2 DEF CellAgrees
<1>8. \A x \in Task : known(x) => known(x)'
  BY <1>1 DEF known
<1> QED  BY <1>1, <1>2, <1>4, <1>6, <1>7, <1>8, ReceivedCurrent

LEMMA GetCurrent ==
    ASSUME Inv, Inv', CodeIsTyped, EdgesInv, ~stopped, CurrentInv, NEW t \in Task, get(t)
    PROVE  CurrentInv'
<1>1. /\ job[t].pc = "get" /\ job[t].pc \in Reading /\ access(t).how = "get"
      /\ state' = [state EXCEPT !.invalidators = @ \cup {t}]
      /\ UNCHANGED <<in_progress, dirty, output, cell, celled, contents, dependency, seen>>
  BY DEF get, EdgesInv, Tidy, AccessFits, Reading, Before, cells, edges
<1>2. PICK v : v = state.value
  OBVIOUS
<1>3. v \in Read /\ job' = received(t, v)
  BY <1>2 DEF get, Inv, TypeOK, Read
<1>4. /\ state'.value = state.value /\ state'.taken = state.taken
      /\ \A x \in Task : known(x) => known(x)'
  BY <1>1 DEF known, Inv, TypeOK
<1>5. \A w : Agrees(access(t), w) <=> w = v
  BY <1>1, <1>2 DEF Agrees
<1> QED  BY <1>1, <1>3, <1>4, <1>5, ReceivedCurrent

LEMMA CallCurrent ==
    ASSUME Inv, Inv', CodeIsTyped, EdgesInv, ~stopped, CurrentInv, NEW t \in Task, NEW u \in Task,
           connect_child(t, u) \/ listen_to_done_event(t, u) \/ listen_to_cell(t, u)
    PROVE  CurrentInv'
<1>1. PICK pc : /\ \/ pc \in {"read_output", "await_done"} /\ job[t].pc \in {"connect_child", "read_output"}
                   \/ pc = "await_cell" /\ job[t].pc = "read"
                /\ \/ /\ add_scheduled(u, move(t, pc))
                      /\ in_progress[u].state = "none" =>
                             output[u] = "none" \/ (cell[u] = Missing /\ u \in celled)
                   \/ job' = move(t, pc) /\ UNCHANGED in_progress
  BY DEF connect_child, listen_to_done_event, reading_output, listen_to_cell, reading_cell
<1>2. UNCHANGED <<dirty, output, cell, celled, contents, dependency, state, seen>>
  BY DEF connect_child, listen_to_done_event, listen_to_cell, cells, edges
<1>3. Awake(job[t]) /\ job[t].pc \in Reading /\ pc \in Reading
  BY <1>1 DEF Awake, Reading, Before
<1>4. Goes(move(t, pc))
  BY <1>1, <1>3, Moving DEF Inv, Pc
<1>5. \A x \in Task : Progress(x, move(t, pc)[x])
  BY <1>1, <1>4, Schedules DEF Progress
<1>6. /\ job'[t] = move(t, pc)[t] /\ move(t, pc)[t] = [job[t] EXCEPT !.pc = pc]
      /\ \A x \in Task \ {t} : move(t, pc)[x] = job[x]
  BY <1>3, <1>5, StillRuns DEF move, Inv, TypeOK
<1>7. /\ job'[t].pc = pc /\ job'[t].values = job[t].values
      /\ job'[t].dependents = job[t].dependents /\ job'[t].old_edges = job[t].old_edges
  BY <1>6 DEF Inv, TypeOK, Job
<1>8. in_progress'[t].stale <=> in_progress[t].stale
  <2>1. in_progress[t].state # "none"
    BY <1>3, Runs
  <2> QED  BY <1>1, <2>1 DEF add_scheduled, Inv, TypeOK
<1>9. \A x \in Task \ {t} : Aside(x)
  <2>1. \A x \in Task \ {t} : Woken(job[x], move(t, pc)[x])
    BY <1>6 DEF Woken
  <2>2. CASE job' = move(t, pc) /\ UNCHANGED in_progress
    BY <1>2, <2>1, <2>2, AsideAlone DEF known
  <2>3. CASE /\ add_scheduled(u, move(t, pc))
             /\ in_progress[u].state = "none" =>
                    output[u] = "none" \/ (cell[u] = Missing /\ u \in celled)
    BY <1>2, <1>4, <2>1, <2>3, AsideScheduled
  <2> QED  BY <1>1, <2>2, <2>3
<1> QED  BY <1>2, <1>3, <1>7, <1>8, <1>9, MovedCurrent

-----------------------------------------------------------------------------
(* What a job writes, and how it ends                                      *)

(* A job that has read everything goes on.                                 *)
LEMMA WritesOwn ==
    ASSUME Inv, CodeIsTyped, EdgesInv, ~stopped, CurrentInv, NEW t \in Task, Tells,
           job[t].pc \in After \cup {"update_cell"}, job'[t].pc \in After,
           job'[t].values = job[t].values, seen'[t] = seen[t],
           in_progress[t].stale => in_progress'[t].stale, in_progress'[t].stale => t \in dirty',
           job'[t].pc \notin {"tell_cell_changed", "tell_output_changed"} => job'[t].dependents = {},
           job'[t].pc # "cleanup" => job'[t].old_edges = {},
           Written(t)', Published(t)', Completed(t)', Kept(t)', Lost(t)', Keeps(t) \/ Noticed(t)'
    PROVE  Own(t)
<1>1. ~Recalls(t)' /\ job'[t].pc \notin Before /\ job'[t].pc # "update_cell"
  BY DEF Recalls, After, Before
<1>2. JobFits(t)'
  BY <1>1 DEF JobFits, CurrentInv, Sound
<1>3. SeenFits(t)' /\ Recalled(t)' /\ RunsAgain(t)' /\ Unwritten(t)' /\ Repeats(t)' /\ RecallEdges(t)'
  BY <1>1 DEF SeenFits, Recalled, RunsAgain, Unwritten, Repeats, RecallEdges, CurrentInv, Sound
<1>4. Fresh(t)' => Fresh(t)
  BY DEF Fresh, Awake, After
<1>5. ASSUME Steady PROVE Current(t)'
  BY <1>1, <1>4, <1>5, CurrentKept DEF CurrentInv, EdgesInv
<1> QED  BY <1>2, <1>3, <1>5 DEF Own, Sound

(* A job that has read what it has read before has read it all.            *)
LEMMA SameReads ==
    ASSUME Inv, NEW t \in Task, Sound(t), Recalls(t), begins(job[t].values, seen[t]), job[t].pc = "update_cell"
    PROVE  job[t].values = seen[t]
<1> DEFINE n == Len(job[t].values)
<1>1. seen[t] \in Seq(Read) /\ job[t].values \in Seq(Read) /\ n \in Nat
  BY DEF Inv, TypeOK, Job
<1>2. n <= Len(seen[t]) /\ job[t].values = SubSeq(seen[t], 1, n) /\ ~Continues(t, job[t].values)
  BY DEF begins, Sound, JobFits
<1>3. n + 1 \in 1..Len(seen[t]) => Continues(t, SubSeq(seen[t], 1, (n + 1) - 1))
  BY DEF Sound, SeenFits, Begun
<1>4. (n + 1) - 1 = n
  BY <1>1
<1>5. n + 1 \notin 1..Len(seen[t])
  BY <1>2, <1>3, <1>4
<1> HIDE DEF n
<1>6. n = Len(seen[t])
  BY <1>1, <1>2, <1>5
<1> QED  BY <1>1, <1>2, <1>6

LEMMA WriteCurrent ==
    ASSUME Inv, Inv', CodeIsTyped, EdgesInv, ~stopped, CurrentInv, NEW t \in Task,
           NEW v \in Value, update_cell(t, v)
    PROVE  CurrentInv'
<1>1. /\ job[t].pc = "update_cell" /\ Sound(t) /\ v = Compute(t, job[t].values)
      /\ UNCHANGED <<in_progress, dirty, output, celled, dependency, seen, state>>
  BY DEF update_cell, cells, edges, CurrentInv
<1>2. /\ v # Missing /\ ~failed(job[t].values) /\ result(t, job[t].values) = v /\ v # Err
  BY <1>1, ValueAssumption DEF Sound, JobFits, result
<1>3. /\ job'[t].pc = IF job'[t].dependents = {} THEN "update_output" ELSE "tell_cell_changed"
      /\ job'[t].values = job[t].values /\ job'[t].old_edges = {}
      /\ \A x \in Task \ {t} : Woken(job[x], job'[x]) /\ cell'[x] = cell[x] /\ contents'[x] = contents[x]
      /\ cell'[t] = v
      /\ \/ t \in Compared /\ cell[t] = v /\ job'[t].dependents = {} /\ contents'[t] = contents[t]
         \/ t \in dirty /\ job'[t].dependents = dependents(t, "cell") /\ contents'[t] = {v}
         \/ t \notin dirty /\ contents'[t] = contents[t] \cup {v}
  <2>0. job[t].dependents = {} /\ job[t].old_edges = {}
    BY <1>1 DEF Sound, JobFits
  <2>1. CASE t \in Compared /\ cell[t] = v
    <3>1. job' = move(t, "update_output") /\ cell' = cell /\ contents' = contents
      BY <2>1 DEF update_cell, cells
    <3>2. /\ job'[t].dependents = job[t].dependents /\ job'[t].old_edges = job[t].old_edges
          /\ job'[t].pc = "update_output" /\ job'[t].values = job[t].values
          /\ \A x \in Task \ {t} : job'[x] = job[x]
      BY <3>1 DEF move, Inv, TypeOK, Job
    <3> QED  BY <2>0, <2>1, <3>1, <3>2 DEF Woken
  <2>2. CASE ~(t \in Compared /\ cell[t] = v)
    <3> DEFINE tasks == IF t \in dirty THEN dependents(t, "cell") ELSE {}
               jobs == tell(t, "tell_cell_changed", tasks, "update_output")
    <3>1. /\ job' = notify_cell(jobs, t) /\ cell' = [cell EXCEPT ![t] = v]
          /\ contents' = [contents EXCEPT ![t] = IF t \in dirty THEN {v} ELSE @ \cup {v}]
      BY <2>2 DEF update_cell
    <3>2. tasks \in SUBSET Task /\ (t \in dirty => tasks = dependents(t, "cell"))
      BY DEF dependents
    <3> HIDE DEF tasks
    <3>3. jobs \in [Task -> Job]
      BY <1>1, <3>2, Telling DEF Inv, Pc, Goes, Awake
    <3>4. /\ jobs[t].pc = IF tasks = {} THEN "update_output" ELSE "tell_cell_changed"
          /\ jobs[t].values = job[t].values /\ jobs[t].dependents = tasks
          /\ \A x \in Task \ {t} : jobs[x] = job[x]
      BY TellTo
    <3>5. jobs[t].old_edges = job[t].old_edges
      BY DEF tell, Inv, TypeOK, Job
    <3> HIDE DEF jobs
    <3>6. \A x \in Task : Woken(jobs[x], job'[x])
      BY <3>1, <3>3, Wakes
    <3>7. /\ job'[t].pc = jobs[t].pc /\ job'[t].values = jobs[t].values
          /\ job'[t].dependents = jobs[t].dependents /\ job'[t].old_edges = jobs[t].old_edges
      BY <3>4, <3>6 DEF Woken
    <3>8. /\ cell'[t] = v /\ contents'[t] = IF t \in dirty THEN {v} ELSE contents[t] \cup {v}
          /\ \A x \in Task \ {t} : cell'[x] = cell[x] /\ contents'[x] = contents[x]
      BY <3>1 DEF Inv, TypeOK
    <3>9. \A x \in Task \ {t} : Woken(job[x], job'[x])
      BY <3>4, <3>6
    <3>10. t \in dirty => job'[t].dependents = dependents(t, "cell")
      BY <3>2, <3>4, <3>7
    <3> QED  BY <2>0, <3>4, <3>5, <3>7, <3>8, <3>9, <3>10
  <2> QED  BY <2>1, <2>2
<1>4. \A x \in Task \ {t} : Aside(x)
  BY <1>1, <1>3, AsideAlone DEF known
<1>5. Tells
  <2>1. TellsStill(t) /\ TakenTold
    BY <1>1 DEF TellsStill, TakenTold, Sound, JobFits
  <2> QED  BY <1>4, <2>1, TellsOn
<1>6. job'[t].pc \in {"update_output", "tell_cell_changed"} /\ job'[t].pc \in After
  BY <1>3 DEF After
<1>7. t \notin dirty => (output[t] = "none" /\ contents[t] = {}) \/ (Recalls(t) /\ Dropped(t) /\ t \in celled)
  BY <1>1 DEF Sound, Unwritten, RunsAgain, Recalls, After
<1>8. v \in contents'[t]
  BY <1>1, <1>2, <1>3 DEF Sound, Kept
<1>9. Written(t)' /\ Published(t)' /\ Completed(t)' /\ Kept(t)' /\ Lost(t)'
  <2>1. Written(t)'
    BY <1>2, <1>3, <1>8 DEF Written, CellIs, result, failed
  <2>2. Published(t)' /\ Completed(t)'
    BY <1>6 DEF Published, Completed, Ending
  <2>3. Kept(t)'
    BY <1>1, <1>2, <1>3, <1>8 DEF Sound, Kept
  <2>4. Lost(t)'
    <3>1. CASE contents'[t] = contents[t]
      BY <1>1, <3>1 DEF Sound, Lost, silent, Dropped
    <3>2. CASE contents'[t] = {v}
      BY <3>2 DEF Lost, silent
    <3>3. CASE t \notin dirty /\ contents'[t] = contents[t] \cup {v}
      BY <1>1, <1>7, <3>3 DEF Lost, silent, Dropped
    <3> QED  BY <1>3, <3>1, <3>2, <3>3
  <2> QED  BY <2>1, <2>2, <2>3, <2>4
<1>10. Noticed(t)'
  <2> SUFFICES ASSUME t \notin Compared, silent(t)', ~WillWrite(t)'
               PROVE  silently(t, last(t))'
    BY DEF Noticed
  <2>1. t \notin dirty /\ contents'[t] = contents[t] \cup {v}
    BY <1>3 DEF silent
  <2>2. Recalls(t)
    BY <1>7, <2>1 DEF silent
  <2>3. ~told(t) /\ ~WillWrite(t) /\ ~Fails(t)
    BY <1>1, <1>5, <2>1 DEF WillWrite, Fails, Tells, Hit, After
  <2>4. \A u \in Task : silent(u) => silent(u)'
    BY <1>3, <2>1 DEF silent
  <2>5. PICK values : values = job[t].values
    OBVIOUS
  <2>6. last(t)' = values
    BY <1>3, <1>6, <2>5 DEF last
  <2>7. silently(t, values)
    <3>1. CASE begins(values, seen[t])
      <4>1. values = seen[t]
        BY <1>1, <2>2, <2>5, <3>1, SameReads
      <4>2. CellIs(t, v)
        BY <1>1, <1>2, <2>2, <2>5, <4>1 DEF Sound, Recalled
      <4>3. silent(t)
        BY <2>1, <4>2 DEF CellIs, silent
      <4> QED  BY <1>1, <2>3, <4>1, <4>3 DEF CurrentInv, Noticed, last, After
    <3> QED  BY <1>1, <2>2, <2>3, <2>5, <3>1 DEF CurrentInv, Repeats
  <2>8. \A u \in Task : <<"cell", u>> \in values_edges(t, values) => (<<"cell", u>> \in values_edges(t, values))'
    BY DEF values_edges, read_edges, access_at
  <2>9. silently(t, values)'
    BY <2>4, <2>7, <2>8 DEF silently
  <2> QED  BY <2>6, <2>9 DEF silently, values_edges, access_at
<1>11. Own(t)
  BY <1>1, <1>3, <1>5, <1>6, <1>9, <1>10, WritesOwn DEF Sound, JobFits
<1>12. OutputSteady(t)
  BY <1>1 DEF OutputSteady
<1>13. ASSUME output[t] # "none", ~(\A x \in dependents(t, "cell") : told(x)') PROVE CellKeeps(t)
  <2>1. \A x \in job'[t].dependents : told(x)'
    BY DEF told
  <2>2. contents[t] \subseteq contents'[t]
    BY <1>3, <1>13, <2>1
  <2>3. ~Gone(t)
    BY <1>2, <1>3, <1>7, <1>13, <2>1 DEF Gone
  <2> QED  BY <2>2, <2>3 DEF CellKeeps
<1>14. StateSteady
  BY <1>1 DEF StateSteady
<1> QED  BY <1>4, <1>5, <1>11, <1>12, <1>13, <1>14, CurrentStep DEF CellSteady

LEMMA PublishCurrent ==
    ASSUME Inv, Inv', CodeIsTyped, EdgesInv, ~stopped, CurrentInv, NEW t \in Task, update_output(t)
    PROVE  CurrentInv'
<1> DEFINE new == IF result(t, job[t].values) = Err THEN "error" ELSE "cell"
<1>1. /\ job[t].pc = "update_output" /\ Sound(t)
      /\ job[t].dependents = {} /\ job[t].old_edges = {} /\ (in_progress[t].stale => t \in dirty)
      /\ UNCHANGED <<in_progress, cell, celled, contents, dependency, seen, state>>
  BY DEF update_output, cells, edges, CurrentInv, Sound, JobFits
<1>2. \/ /\ in_progress[t].stale \/ (new = "cell" /\ output[t] = "cell")
         /\ job' = move(t, "complete") /\ output' = output /\ dirty' = dirty
      \/ /\ output' = [output EXCEPT ![t] = new] /\ dirty' = dirty \cup {t}
         /\ job' = tell(t, "tell_output_changed", dependents(t, "output"), "complete")
  BY DEF update_output
<1>3. /\ job'[t].pc = IF job'[t].dependents = {} THEN "complete" ELSE "tell_output_changed"
      /\ job'[t].values = job[t].values /\ job'[t].old_edges = {}
      /\ \A x \in Task \ {t} : job'[x] = job[x] /\ output'[x] = output[x]
      /\ \A x \in Task : x \in dirty => x \in dirty'
      /\ ~in_progress[t].stale => output'[t] = new
      /\ output[t] # "none" => output'[t] # "none"
      /\ output'[t] = output[t] \/ job'[t].dependents = dependents(t, "output")
  <2> HIDE DEF new
  <2>1. CASE /\ in_progress[t].stale \/ (new = "cell" /\ output[t] = "cell")
             /\ job' = move(t, "complete") /\ output' = output /\ dirty' = dirty
    <3>1. /\ job'[t].dependents = job[t].dependents /\ job'[t].old_edges = job[t].old_edges
          /\ job'[t].pc = "complete" /\ job'[t].values = job[t].values
          /\ \A x \in Task \ {t} : job'[x] = job[x]
      BY <2>1 DEF move, Inv, TypeOK, Job
    <3> QED  BY <1>1, <2>1, <3>1
  <2>2. CASE /\ output' = [output EXCEPT ![t] = new] /\ dirty' = dirty \cup {t}
             /\ job' = tell(t, "tell_output_changed", dependents(t, "output"), "complete")
    <3>1. output'[t] = new /\ \A x \in Task \ {t} : output'[x] = output[x]
      BY <2>2 DEF Inv, TypeOK
    <3>2. /\ job'[t].pc = IF dependents(t, "output") = {} THEN "complete" ELSE "tell_output_changed"
          /\ job'[t].values = job[t].values /\ job'[t].dependents = dependents(t, "output")
          /\ \A x \in Task \ {t} : job'[x] = job[x]
      BY <2>2, TellTo
    <3>3. job'[t].old_edges = job[t].old_edges
      BY <2>2 DEF tell, Inv, TypeOK, Job
    <3>4. new # "none"
      BY DEF new
    <3> QED  BY <1>1, <2>2, <3>1, <3>2, <3>3, <3>4
  <2> QED  BY <1>2, <2>1, <2>2
<1>4. \A x \in Task \ {t} : Aside(x)
  BY <1>1, <1>3, AsideAlone DEF known, Woken
<1>5. Tells
  <2>1. TellsStill(t) /\ TakenTold
    BY <1>1 DEF TellsStill, TakenTold
  <2> QED  BY <1>4, <2>1, TellsOn
<1>6. job'[t].pc \in {"tell_output_changed", "complete"} /\ job[t].pc \in After /\ job'[t].pc \in After
  BY <1>1, <1>3 DEF After
<1>7. Written(t)' /\ Published(t)' /\ Completed(t)' /\ Kept(t)' /\ Lost(t)'
  <2>1. Written(t)'
    BY <1>1, <1>3, <1>6 DEF Sound, Written, CellIs, Dropped, result, failed
  <2>2. Published(t)'
    BY <1>1, <1>3 DEF Published, Fresh, result, failed
  <2>3. Completed(t)'
    BY <1>6 DEF Completed
  <2>4. Kept(t)' /\ Lost(t)'
    BY <1>1, <1>3 DEF Sound, Kept, Lost, silent, Dropped
  <2> QED  BY <2>1, <2>2, <2>3, <2>4
<1> HIDE DEF new
<1>8. CellKeeps(t) /\ Keeps(t)
  BY <1>1, <1>3, <1>5, <1>6, AfterSteady
<1>9. OutputSteady(t)
  BY <1>3 DEF OutputSteady, told
<1>10. Own(t)
  BY <1>1, <1>3, <1>5, <1>6, <1>7, <1>8, WritesOwn
<1>11. StateSteady
  BY <1>1 DEF StateSteady
<1> QED  BY <1>4, <1>5, <1>8, <1>9, <1>10, <1>11, CurrentStep DEF CellSteady

(* The job of t while it makes r dirty, which may be t itself.             *)
LEMMA MakesDirty ==
    ASSUME Inv, Inv', CodeIsTyped, EdgesInv, ~stopped, CurrentInv, NEW t \in Task, NEW r \in Task, NEW jobs,
           Goes(jobs), make_task_dirty(r, jobs), Awake(job[t]), job[t].pc \in After,
           \A x \in Task \ {t} : jobs[x] = job[x],
           jobs[t].values = job[t].values, jobs[t].pc \in After,
           jobs[t].pc \notin {"tell_cell_changed", "tell_output_changed"} => jobs[t].dependents = {},
           jobs[t].pc # "cleanup" => jobs[t].old_edges = {},
           job[t].pc \in {"cleanup", "finish"} <=> jobs[t].pc \in {"cleanup", "finish"},
           job[t].pc \in Ending <=> jobs[t].pc \in Ending,
           \A x \in Task : x \in job[t].dependents => x \in jobs[t].dependents \/ x = r,
           \A x \in Task : <<"removed", x>> \in job[t].old_edges =>
                              <<"removed", x>> \in jobs[t].old_edges \/ x = r,
           UNCHANGED <<output, cell, celled, contents, dependency, seen, state>>
    PROVE  CurrentInv'
<1>1. \A x \in Task : Progress(x, jobs[x])
  BY Dirties
<1>2. /\ job'[t] = jobs[t] /\ (in_progress[t].stale => in_progress'[t].stale)
  BY <1>1, StillRuns
<1>3. /\ dirty' = dirty \cup {r}
      /\ in_progress'[t].stale => in_progress[t].stale \/ t = r
  <2>1. in_progress[t].state # "none"
    BY Runs
  <2> QED  BY <2>1 DEF make_task_dirty, add_scheduled, Inv, TypeOK
<1>4. \A x \in Task \ {t} : Aside(x)
  <2>1. \A x \in Task \ {t} : Woken(job[x], jobs[x])
    BY DEF Woken
  <2> QED  BY <2>1, AsideDirtied DEF known
<1>5. Hit(r)
  BY DirtyHits
<1>6. Tells
  <2>1. TellsStill(t) /\ TakenTold
    BY <1>2, <1>5 DEF TellsStill, TakenTold
  <2> QED  BY <1>4, <2>1, TellsOn
<1>7. Sound(t) /\ (Fresh(t)' => Fresh(t))
  BY <1>2 DEF CurrentInv, Fresh
<1>8. Written(t)' /\ Published(t)' /\ Completed(t)' /\ Kept(t)' /\ Lost(t)'
  <2>1. Written(t)'
    BY <1>2, <1>7 DEF Sound, Written, CellIs, Dropped, result, failed
  <2>2. Published(t)'
    BY <1>2, <1>7 DEF Sound, Published, result, failed
  <2>3. Completed(t)'
    BY <1>2, <1>7 DEF Sound, Completed, Removed, result, failed
  <2>4. Kept(t)' /\ Lost(t)'
    BY <1>7 DEF Sound, Kept, Lost, silent, Dropped
  <2> QED  BY <2>1, <2>2, <2>3, <2>4
<1>9. CellKeeps(t) /\ Keeps(t)
  <2>1. Fails(t) => job'[t].pc \notin {"cleanup", "finish"}
    BY <1>2 DEF Fails
  <2> QED  BY <1>2, <1>6, <2>1, AfterSteady
<1>10. Own(t)
  <2>1. in_progress'[t].stale => t \in dirty'
    BY <1>3, <1>7 DEF Sound, JobFits
  <2> QED  BY <1>2, <1>6, <1>8, <1>9, <2>1, WritesOwn
<1> QED  BY <1>4, <1>6, <1>9, <1>10, CurrentStep DEF CellSteady, OutputSteady, StateSteady

LEMMA TellCurrent ==
    ASSUME Inv, Inv', CodeIsTyped, EdgesInv, ~stopped, CurrentInv, NEW t \in Task, NEW r \in Task,
           make_dependent_dirty(t, r)
    PROVE  CurrentInv'
<1> DEFINE next == IF job[t].pc = "tell_cell_changed" THEN "update_output" ELSE "complete"
           jobs == tell(t, job[t].pc, job[t].dependents \ {r}, next)
<1>1. /\ job[t].pc \in {"tell_cell_changed", "tell_output_changed"} /\ Awake(job[t])
      /\ make_task_dirty(r, jobs) /\ job[t].old_edges = {}
      /\ UNCHANGED <<output, cell, celled, contents, dependency, seen, state>>
  BY DEF make_dependent_dirty, Awake, cells, edges, CurrentInv, Sound, JobFits
<1>2. Goes(jobs)
  <2>1. next \in Pc \ {"idle", "start"} /\ job[t].pc \in Pc \ {"idle", "start"}
        /\ job[t].dependents \ {r} \in SUBSET Task
    BY <1>1 DEF Pc, Inv, TypeOK, Job
  <2> HIDE DEF next
  <2> QED  BY <1>1, <2>1, Telling DEF Inv
<1>3. /\ jobs[t].pc = IF job[t].dependents \ {r} = {} THEN next ELSE job[t].pc
      /\ jobs[t].values = job[t].values /\ jobs[t].dependents = job[t].dependents \ {r}
      /\ \A x \in Task \ {t} : jobs[x] = job[x]
  <2> HIDE DEF next
  <2> QED  BY TellTo
<1>4. jobs[t].old_edges = {}
  BY <1>1 DEF tell, Inv, TypeOK, Job
<1>5. /\ job[t].pc \in After /\ jobs[t].pc \in After
      /\ job[t].pc \notin {"cleanup", "finish"} /\ jobs[t].pc \notin {"cleanup", "finish"}
      /\ job[t].pc \in Ending <=> jobs[t].pc \in Ending
      /\ jobs[t].pc \notin {"tell_cell_changed", "tell_output_changed"} => jobs[t].dependents = {}
  BY <1>1, <1>3 DEF After, Ending
<1> HIDE DEF jobs
<1> QED  BY <1>1, <1>2, <1>3, <1>4, <1>5, MakesDirty

LEMMA RemovedCellCurrent ==
    ASSUME Inv, Inv', CodeIsTyped, EdgesInv, ~stopped, CurrentInv, NEW t \in Task, NEW r \in Task,
           removed_cell_dependent(t, r)
    PROVE  CurrentInv'
<1> DEFINE edge == <<"removed", r>>
           jobs == remaining(t, edge)
<1>1. /\ job[t].pc = "cleanup" /\ Awake(job[t]) /\ make_task_dirty(r, jobs) /\ job[t].dependents = {}
      /\ UNCHANGED <<output, cell, celled, contents, dependency, seen, state>>
  BY DEF removed_cell_dependent, pops, Awake, cells, edges, CurrentInv, Sound, JobFits
<1>2. \A x \in Task : <<"removed", x>> = edge => x = r
  OBVIOUS
<1> HIDE DEF edge
<1>3. Goes(jobs)
  BY <1>1, Remaining DEF Inv
<1>4. /\ jobs[t].pc = IF job[t].old_edges \ {edge} = {} THEN "finish" ELSE "cleanup"
      /\ jobs[t].old_edges = job[t].old_edges \ {edge} /\ jobs[t].values = job[t].values
      /\ \A x \in Task \ {t} : jobs[x] = job[x]
  BY RemainingTo
<1>5. jobs[t].dependents = {}
  BY <1>1 DEF remaining, Inv, TypeOK, Job
<1> HIDE DEF jobs
<1>6. /\ job[t].pc \in After /\ jobs[t].pc \in After
      /\ job[t].pc \in {"cleanup", "finish"} /\ jobs[t].pc \in {"cleanup", "finish"}
      /\ job[t].pc \in Ending <=> jobs[t].pc \in Ending
      /\ jobs[t].pc # "cleanup" => jobs[t].old_edges = {}
  BY <1>1, <1>4 DEF After, Ending
<1>7. \A x \in Task : <<"removed", x>> \in job[t].old_edges => <<"removed", x>> \in jobs[t].old_edges \/ x = r
  BY <1>2, <1>4
<1> QED  BY <1>1, <1>3, <1>4, <1>5, <1>6, <1>7, MakesDirty

LEMMA RemoveCurrent ==
    ASSUME Inv, Inv', CodeIsTyped, EdgesInv, ~stopped, CurrentInv, NEW t \in Task, NEW u \in Task,
           NEW kind \in {"output", "cell"}, remove_dependency(t, u, kind)
    PROVE  CurrentInv'
<1> DEFINE edge == <<kind, u>>
<1>1. /\ job[t].pc = "cleanup" /\ Sound(t) /\ job[t].dependents = {} /\ job' = remaining(t, edge)
      /\ dependency' = [dependency EXCEPT ![t] = @ \ {edge}]
      /\ UNCHANGED <<in_progress, dirty, output, cell, celled, contents, seen, state>>
  BY DEF remove_dependency, pops, cells, CurrentInv, Sound, JobFits
<1>2. \A x \in Task : <<"removed", x>> # edge
  OBVIOUS
<1> HIDE DEF edge
<1>3. /\ job'[t].pc = IF job[t].old_edges \ {edge} = {} THEN "finish" ELSE "cleanup"
      /\ job'[t].old_edges = job[t].old_edges \ {edge} /\ job'[t].values = job[t].values
      /\ \A x \in Task \ {t} : job'[x] = job[x] /\ dependency'[x] = dependency[x]
  <2>1. \A x \in Task \ {t} : dependency'[x] = dependency[x]
    BY <1>1 DEF Inv, TypeOK
  <2> QED  BY <1>1, <2>1, RemainingTo
<1>4. job'[t].dependents = {}
  BY <1>1 DEF remaining, Inv, TypeOK, Job
<1>5. \A x \in Task \ {t} : Aside(x)
  BY <1>1, <1>3, AsideAlone DEF known, Woken
<1>6. Tells
  <2>1. TellsStill(t) /\ TakenTold
    BY <1>1, <1>2, <1>3 DEF TellsStill, TakenTold
  <2> QED  BY <1>5, <2>1, TellsOn
<1>7. /\ job'[t].pc \in {"cleanup", "finish"} /\ job[t].pc \in After /\ job'[t].pc \in After
      /\ job'[t].pc # "cleanup" => job'[t].old_edges = {}
  BY <1>1, <1>3 DEF After
<1>8. Written(t)' /\ Published(t)' /\ Completed(t)' /\ Kept(t)' /\ Lost(t)'
  <2>1. Written(t)'
    BY <1>1, <1>3, <1>7 DEF Sound, Written, CellIs, Dropped, result, failed
  <2>2. Published(t)' /\ Completed(t)'
    BY <1>1, <1>3, <1>7 DEF Sound, Published, Completed, Removed, result, failed, Ending, Fresh, Awake
  <2>3. Kept(t)' /\ Lost(t)'
    BY <1>1 DEF Sound, Kept, Lost, silent, Dropped
  <2> QED  BY <2>1, <2>2, <2>3
<1>9. CellKeeps(t) /\ Keeps(t)
  <2>1. ~Fails(t)
    BY <1>1 DEF Fails
  <2> QED  BY <1>1, <1>3, <1>6, <1>7, <2>1, AfterSteady
<1>10. Own(t)
  BY <1>1, <1>3, <1>4, <1>6, <1>7, <1>8, <1>9, WritesOwn DEF Sound, JobFits
<1> QED  BY <1>1, <1>5, <1>6, <1>9, <1>10, CurrentStep DEF CellSteady, OutputSteady, StateSteady

(* A stale task is dirty, and will write its cell again.                   *)
LEMMA RescheduleCurrent ==
    ASSUME Inv, Inv', CodeIsTyped, EdgesInv, ~stopped, CurrentInv, NEW t \in Task, reschedule(t),
           job[t].pc \in {"complete", "finish"}, in_progress[t].stale,
           UNCHANGED <<dirty, output, cell, celled, contents, dependency, seen, state>>
    PROVE  CurrentInv'
<1>1. /\ spawned.pc = "start" /\ spawned.values = <<>> /\ spawned.dependents = {}
      /\ spawned.old_edges = {} /\ ~scheduled.stale
  BY DEF spawned, at, scheduled
<1>2. /\ job'[t] = spawned /\ in_progress'[t] = scheduled
      /\ \A x \in Task \ {t} : job'[x] = job[x] /\ in_progress'[x] = in_progress[x]
  BY DEF reschedule, Inv, TypeOK
<1>3. Sound(t) /\ t \in dirty /\ job[t].dependents = {} /\ job[t].old_edges = {}
  BY DEF CurrentInv, Sound, JobFits
<1>4. \A x \in Task \ {t} : Aside(x)
  BY <1>2, AsideAlone DEF Woken, known
<1>5. Tells
  <2>1. TellsStill(t) /\ TakenTold
    BY <1>3 DEF TellsStill, TakenTold
  <2> QED  BY <1>4, <2>1, TellsOn
<1>6. ~Recalls(t)' /\ ~Fresh(t)'
  BY <1>1, <1>2, <1>3 DEF Recalls, Fresh, Awake
<1>7. JobFits(t)'
  <2>1. Begun(t, job'[t].values)
    BY <1>1, <1>2, NothingBegun
  <2> QED  BY <1>1, <1>2, <2>1 DEF JobFits, Before, After
<1>8. SeenFits(t)' /\ Recalled(t)' /\ RunsAgain(t)' /\ Repeats(t)' /\ RecallEdges(t)' /\ Current(t)'
  BY <1>3, <1>6 DEF SeenFits, Recalled, RunsAgain, Repeats, RecallEdges, Current, Sound
<1>9. Written(t)' /\ Published(t)' /\ Completed(t)' /\ Kept(t)' /\ Unwritten(t)' /\ Lost(t)'
  BY <1>1, <1>2, <1>3 DEF Written, Published, Completed, Kept, Unwritten, Lost, silent, Dropped, Sound, After, Ending
<1>10. Own(t)
  <2>1. WillWrite(t)'
    BY <1>1, <1>2, <1>3 DEF WillWrite, Before
  <2> QED  BY <1>7, <1>8, <1>9, <2>1 DEF Own, Sound, Keeps
<1>11. CellKeeps(t)
  <2>1. job'[t].pc \notin After
    BY <1>1, <1>2 DEF After
  <2> QED  BY <2>1 DEF CellKeeps, Gone
<1> QED  BY <1>4, <1>5, <1>10, <1>11, CurrentStep DEF CellSteady, OutputSteady, StateSteady

LEMMA CompleteCurrent ==
    ASSUME Inv, Inv', CodeIsTyped, EdgesInv, OutputInv, ~stopped, CurrentInv, NEW t \in Task, complete(t)
    PROVE  CurrentInv'
<1>1. /\ job[t].pc = "complete" /\ Awake(job[t]) /\ Sound(t)
      /\ job[t].dependents = {} /\ job[t].old_edges = {} /\ (in_progress[t].stale => t \in dirty)
      /\ UNCHANGED <<dirty, output, dependency, dependent, seen, state>>
  BY DEF complete, Awake, edges, CurrentInv, Sound, JobFits
<1>2. CASE in_progress[t].stale
  BY <1>1, <1>2, RescheduleCurrent DEF complete
<1>3. CASE ~in_progress[t].stale
  <2> DEFINE removed == result(t, job[t].values) = Err
             old == outdated[t] \cup
                    IF removed THEN {<<"removed", r>> : r \in dependents(t, "cell")} ELSE {}
             j == [[job[t] EXCEPT !.pc = IF old = {} THEN "finish" ELSE "cleanup"] EXCEPT !.old_edges = old]
             jobs == [job EXCEPT ![t] = j]
  <2>1. /\ job' = notify_done(jobs, t)
        /\ in_progress' = [in_progress EXCEPT ![t].marked_as_completed = TRUE]
        /\ celled' = IF removed THEN celled \ {t} ELSE celled \cup {t}
        /\ cell' = IF removed THEN [cell EXCEPT ![t] = Missing] ELSE cell
        /\ contents' = IF removed THEN [contents EXCEPT ![t] = {}] ELSE contents
    <3>1. [job EXCEPT ![t].pc = IF old = {} THEN "finish" ELSE "cleanup", ![t].old_edges = old] = jobs
      BY DEF Inv, TypeOK, Job
    <3> QED  BY <1>3, <3>1 DEF complete
  <2>2. removed => \A r \in dependents(t, "cell") : <<"removed", r>> \in old
    OBVIOUS
  <2>3. old \in SUBSET ((Kind \cup {"removed"}) \X Task)
    <3>1. outdated[t] \in SUBSET (Kind \X Task) /\ dependents(t, "cell") \in SUBSET Task
      BY DEF Inv, TypeOK, dependents
    <3>2. {<<"removed", r>> : r \in dependents(t, "cell")} \in SUBSET ({"removed"} \X Task)
      BY <3>1
    <3> QED  BY <3>1, <3>2
  <2> HIDE DEF old
  <2>4. /\ j \in Job /\ j.pc = IF old = {} THEN "finish" ELSE "cleanup"
        /\ j.values = job[t].values /\ j.old_edges = old /\ j.dependents = {}
    <3>1. job[t] \in Job
      BY DEF Inv, TypeOK
    <3> QED  BY <1>1, <2>3, <3>1 DEF Job, Pc
  <2> HIDE DEF j
  <2>5. jobs \in [Task -> Job] /\ jobs[t] = j /\ \A x \in Task \ {t} : jobs[x] = job[x]
    BY <2>4 DEF Inv, TypeOK
  <2> HIDE DEF jobs, removed
  <2>6. \A x \in Task : Woken(jobs[x], job'[x])
    BY <2>1, <2>5, Wakes
  <2>7. /\ job'[t].pc = IF old = {} THEN "finish" ELSE "cleanup"
        /\ job'[t].values = job[t].values /\ job'[t].old_edges = old /\ job'[t].dependents = {}
    BY <2>4, <2>5, <2>6 DEF Woken
  <2>8. /\ ~in_progress'[t].stale
        /\ \A x \in Task \ {t} : /\ in_progress'[x] = in_progress[x] /\ cell'[x] = cell[x]
                                 /\ x \in celled' <=> x \in celled
                                 /\ contents'[x] = contents[x]
        /\ removed => t \notin celled' /\ cell'[t] = Missing /\ contents'[t] = {}
        /\ ~removed => t \in celled' /\ cell'[t] = cell[t] /\ contents'[t] = contents[t]
    BY <1>3, <2>1 DEF Inv, TypeOK, InProgress
  <2>9. \A x \in Task \ {t} : Aside(x)
    <3>1. ASSUME NEW x \in Task \ {t} PROVE Aside(x)
      <4>1. Woken(job[x], job'[x])
        BY <2>5, <2>6
      <4> QED  BY <1>1, <2>8, <4>1, AsideAlone DEF known
    <3> QED  BY <3>1
  <2>10. Tells
    <3>1. TellsStill(t) /\ TakenTold
      BY <1>1 DEF TellsStill, TakenTold
    <3> QED  BY <2>9, <3>1, TellsOn
  <2>11. job'[t].pc \in {"cleanup", "finish"} /\ job[t].pc \in After /\ job'[t].pc \in After
    BY <1>1, <2>7 DEF After
  <2>12. removed <=> result(t, job[t].values) = Err
    BY DEF removed
  <2>13. Written(t)' /\ Published(t)' /\ Completed(t)' /\ Kept(t)' /\ Lost(t)'
    <3>1. ~removed => CellIs(t, result(t, job[t].values))
      BY <1>1, <2>11, <2>12 DEF Sound, Written
    <3>2. output[t] # "none"
      BY <1>1, <1>3 DEF OutputInv, EndedHasOutput, Ended
    <3>3. Written(t)'
      BY <2>7, <2>8, <2>12, <3>1 DEF Written, CellIs, Dropped, result, failed
    <3>4. Published(t)'
      <4>1. output[t] = "error" <=> result(t, job[t].values) = Err
        BY <1>1, <1>3 DEF Sound, Published, Fresh, Ending
      <4> QED  BY <1>1, <2>7, <4>1 DEF Published, result, failed
    <3>5. Completed(t)'
      BY <2>7, <2>8, <2>12 DEF Completed, Removed, result, failed
    <3>6. Kept(t)'
      BY <1>1, <2>8, <3>1, <3>2 DEF Sound, Kept, CellIs, Dropped
    <3>7. Lost(t)'
      BY <1>1, <2>8 DEF Sound, Lost, silent, Dropped
    <3> QED  BY <3>3, <3>4, <3>5, <3>6, <3>7
  <2>14. Own(t)
    <3>1. job'[t].pc # "cleanup" => job'[t].old_edges = {}
      BY <2>7
    <3>2. Keeps(t)
      <4>1. CASE removed
        BY <2>8, <4>1 DEF Keeps, silent
      <4>2. CASE ~removed
        <5>1. ~Fails(t)
          BY <2>12, <4>2 DEF Fails
        <5> QED  BY <1>1, <1>3, <2>7, <2>8, <2>10, <2>11, <2>12, <4>2, <5>1, AfterSteady
      <4> QED  BY <4>1, <4>2
    <3> QED  BY <1>1, <1>3, <2>7, <2>8, <2>10, <2>11, <2>13, <3>1, <3>2, WritesOwn
  <2>15. CellSteady(t)
    <3>1. CASE removed
      <4>1. \A x \in dependents(t, "cell") : told(x)'
        BY <2>2, <2>7, <3>1 DEF told
      <4> QED  BY <4>1 DEF CellSteady
    <3>2. CASE ~removed
      <4>1. ~Fails(t)
        BY <2>12, <3>2 DEF Fails
      <4>2. CellKeeps(t)
        BY <1>1, <1>3, <2>7, <2>8, <2>10, <2>11, <2>12, <3>2, <4>1, AfterSteady
      <4> QED  BY <4>2 DEF CellSteady
    <3> QED  BY <3>1, <3>2
  <2> QED  BY <1>1, <2>9, <2>10, <2>14, <2>15, CurrentStep DEF OutputSteady, StateSteady
<1> QED  BY <1>2, <1>3

LEMMA FinishCurrent ==
    ASSUME Inv, Inv', CodeIsTyped, EdgesInv, OutputInv, ~stopped, CurrentInv, NEW t \in Task, finish(t)
    PROVE  CurrentInv'
<1>1. /\ job[t].pc = "finish" /\ Awake(job[t]) /\ Sound(t) /\ Tidy(t)
      /\ job[t].dependents = {} /\ job[t].old_edges = {}
      /\ UNCHANGED <<output, cell, celled, contents, dependency, dependent, state>>
  BY DEF finish, Awake, edges, EdgesInv, CurrentInv, Sound, JobFits
<1>2. CASE in_progress[t].stale
  BY <1>1, <1>2, RescheduleCurrent DEF finish
<1>3. CASE ~in_progress[t].stale
  <2> DEFINE jobs == [job EXCEPT ![t] = idle]
  <2>1. /\ idle \in Job /\ idle.pc = "idle" /\ idle.values = <<>> /\ idle.dependents = {}
        /\ idle.old_edges = {} /\ ~none.stale
    BY DEF idle, at, Job, Pc, none
  <2>2. jobs \in [Task -> Job] /\ jobs[t] = idle /\ \A x \in Task \ {t} : jobs[x] = job[x]
    BY <2>1 DEF Inv, TypeOK
  <2>3. /\ job' = notify_cell(jobs, t) /\ in_progress' = [in_progress EXCEPT ![t] = none]
        /\ seen' = [seen EXCEPT ![t] = job[t].values] /\ dirty' = dirty \ {t}
    BY <1>3 DEF finish
  <2> HIDE DEF jobs
  <2>4. \A x \in Task : Woken(jobs[x], job'[x])
    BY <2>2, <2>3, Wakes
  <2>5. /\ job'[t].pc = "idle" /\ job'[t].values = <<>> /\ job'[t].dependents = {}
        /\ job'[t].old_edges = {}
        /\ \A x \in Task \ {t} : Woken(job[x], job'[x])
    BY <2>1, <2>2, <2>4 DEF Woken
  <2>6. /\ ~in_progress'[t].stale /\ seen'[t] = job[t].values /\ t \notin dirty'
        /\ \A x \in Task \ {t} : /\ in_progress'[x] = in_progress[x] /\ seen'[x] = seen[x]
                                 /\ x \in dirty => x \in dirty'
    BY <2>1, <2>3 DEF Inv, TypeOK
  <2>7. \A x \in Task \ {t} : Aside(x)
    <3>1. ASSUME NEW x \in Task \ {t} PROVE Aside(x)
      BY <1>1, <2>5, <2>6, AsideAlone DEF known
    <3> QED  BY <3>1
  <2>8. Tells
    <3>1. TellsStill(t) /\ TakenTold
      BY <1>1 DEF TellsStill, TakenTold
    <3> QED  BY <2>7, <3>1, TellsOn
  <2>9. PICK values : values = job[t].values
    OBVIOUS
  <2>10. /\ job[t].pc \in After /\ job[t].pc \notin Before /\ job[t].pc \in Ending
         /\ Fresh(t) /\ output[t] # "none"
    BY <1>1, <1>3 DEF After, Before, Ending, Fresh, OutputInv, EndedHasOutput, Ended
  <2>11. /\ Begun(t, values) /\ ~Continues(t, values)
         /\ output[t] = "error" <=> result(t, values) = Err
         /\ IF result(t, values) = Err THEN Removed(t) ELSE t \in celled /\ CellIs(t, result(t, values))
    BY <1>1, <2>9, <2>10 DEF Sound, JobFits, Published, Completed, Written
  <2>12. JobFits(t)'
    <3>1. Begun(t, job'[t].values)
      BY <2>5, NothingBegun
    <3> QED  BY <2>5, <2>6, <3>1 DEF JobFits, Before, After
  <2>13. SeenFits(t)' /\ Recalled(t)'
    BY <1>1, <2>6, <2>9, <2>11 DEF SeenFits, Recalled, CellIs, Removed, Dropped, Begun, Continues, result, failed
  <2>14. /\ Written(t)' /\ Published(t)' /\ Completed(t)' /\ Kept(t)' /\ RunsAgain(t)' /\ Repeats(t)'
         /\ Unwritten(t)' /\ Lost(t)'
    BY <1>1, <2>5, <2>10
       DEF Written, Published, Completed, Kept, RunsAgain, Repeats, Unwritten, Lost, silent, Dropped, Sound, After, Ending
  <2>15. RecallEdges(t)'
    <3>1. to_remove(t) = {} /\ partial(t) = {}
      BY <1>1 DEF to_remove, partial
    <3>2. values_edges(t, values) \subseteq dependency[t] /\ (gets(t, values) => known(t))
      BY <1>1, <2>9, <2>10, <3>1 DEF Tidy, RunEdges
    <3> QED  BY <1>1, <2>6, <2>9, <3>2 DEF RecallEdges, known, values_edges, gets, access_at
  <2>16. ASSUME Steady PROVE Current(t)'
    <3>1. ~Fresh(t)' /\ Recalls(t)'
      BY <1>1, <2>5, <2>6, <2>10 DEF Fresh, Awake, Recalls, After
    <3>2. ASSUME ~told(t)' PROVE Hold(t, values)'
      BY <1>1, <2>8, <2>9, <2>10, <2>16, <3>1, <3>2, ValuesHold, NotHit DEF CurrentInv
    <3> QED  BY <2>6, <2>9, <3>1, <3>2 DEF Current, Hold, access_at
  <2>17. Keeps(t)
    <3>1. last(t)' = last(t)
      BY <2>5, <2>6, <2>10 DEF last, After
    <3>2. WillWrite(t) => WillWrite(t)'
      BY <1>3, <2>6, <2>8, <2>10 DEF WillWrite, Tells, Hit
    <3>3. ~Fails(t)
      BY <1>1 DEF Fails
    <3> QED  BY <1>1, <3>1, <3>2, <3>3 DEF Keeps, silent
  <2>18. Own(t)
    BY <2>12, <2>13, <2>14, <2>15, <2>16, <2>17 DEF Own, Sound
  <2>19. CellKeeps(t)
    BY <1>1, <2>5 DEF CellKeeps, Gone, After
  <2> QED  BY <1>1, <2>7, <2>8, <2>18, <2>19, CurrentStep DEF CellSteady, OutputSteady, StateSteady
<1> QED  BY <1>2, <1>3

-----------------------------------------------------------------------------
(* The steps outside of the tasks                                          *)

LEMMA EnvironmentCurrent ==
    ASSUME Inv, Inv', CodeIsTyped, EdgesInv, ~stopped, ~stopped', CurrentInv,
           environment \/ \E r \in Task : invalidate(r)
    PROVE  CurrentInv'
<1>0. Goes(job)
  BY DEF Goes, Inv, TypeOK
<1>1. ASSUME NEW x \in Task PROVE Woken(job[x], job[x])
  BY DEF Woken
<1>2. CASE /\ UNCHANGED <<in_progress, job, dirty, output, celled, dependency, seen>>
           /\ \A x \in Task : known(x) => known(x)'
           /\ \A x \in Task :
                 \/ cell'[x] = cell[x] /\ contents'[x] = contents[x]
                 \/ cell[x] # Missing /\ cell'[x] = Missing /\ contents'[x] = contents[x] \cup {Missing}
           /\ TakenTold /\ StateSteady
  <2>1. ASSUME NEW x \in Task PROVE Aside(x)
    BY <1>1, <1>2 DEF Aside
  <2>2. Tells
    BY <1>2, <2>1, TellsAside
  <2> QED  BY <1>2, <2>1, <2>2, AsideStep
<1>3. ASSUME NEW v \in Value, set(v) PROVE CurrentInv'
  <2>1. /\ state.taken = {} /\ state'.taken = state.invalidators
        /\ \A x \in Task : known(x) => x \in state'.taken
    BY <1>3 DEF set, known, Inv, TypeOK
  <2>2. TakenTold /\ StateSteady /\ \A x \in Task : known(x) => known(x)'
    BY <2>1 DEF TakenTold, StateSteady, known, told
  <2> QED  BY <1>2, <1>3, <2>2 DEF set, cells, edges
<1>4. ASSUME NEW tasks, drop(tasks), UNCHANGED <<in_progress, job, dirty, output, celled, dependency, seen, state>>
      PROVE  CurrentInv'
  <2>1. \A x \in Task :
           \/ cell'[x] = cell[x] /\ contents'[x] = contents[x]
           \/ cell[x] # Missing /\ cell'[x] = Missing /\ contents'[x] = contents[x] \cup {Missing}
    BY <1>4 DEF drop
  <2> QED  BY <1>2, <1>4, <2>1 DEF known, TakenTold, StateSteady
<1>5. CASE restart \/ \E u \in Task : final_read(u)
  BY <1>4, <1>5 DEF restart, final_read, edges
<1>6. ASSUME NEW u \in Task, try_read_task_cell_untracked(u) PROVE CurrentInv'
  <2>1. /\ add_scheduled(u, job)
        /\ in_progress[u].state = "none" => cell[u] = Missing /\ u \in celled
        /\ UNCHANGED <<dirty, output, cell, celled, contents, dependency, seen, state>>
    BY <1>6 DEF try_read_task_cell_untracked, edges
  <2>2. ASSUME NEW x \in Task PROVE Aside(x)
    BY <1>0, <1>1, <2>1, AsideScheduled
  <2>3. TakenTold /\ StateSteady
    BY <2>1 DEF TakenTold, StateSteady
  <2> QED  BY <2>2, <2>3, TellsAside, AsideStep
<1>7. ASSUME NEW r \in Task, invalidate(r) PROVE CurrentInv'
  <2>1. /\ make_task_dirty(r, job)
        /\ UNCHANGED <<output, cell, celled, contents, dependency, seen>>
        /\ state'.value = state.value /\ state'.taken = state.taken \ {r}
        /\ \A x \in Task : known(x) => known(x)' \/ x = r
    BY <1>7 DEF invalidate, cells, edges, known, Inv, TypeOK
  <2>2. ASSUME NEW x \in Task PROVE Aside(x)
    BY <1>0, <1>1, <2>1, AsideDirtied
  <2>3. Hit(r)
    BY <1>0, <2>1, DirtyHits
  <2>4. TakenTold /\ StateSteady
    BY <2>1, <2>3 DEF TakenTold, StateSteady
  <2> QED  BY <2>2, <2>4, TellsAside, AsideStep
<1> QED
  BY <1>3, <1>5, <1>6, <1>7 DEF environment, stop_and_wait

LEMMA InitCurrent == Init => CurrentInv
<1> SUFFICES ASSUME Init, NEW t \in Task
             PROVE  Sound(t) /\ Repeats(t) /\ RecallEdges(t) /\ Current(t) /\ Noticed(t)
  BY DEF CurrentInv
<1>1. /\ spawned.pc = "start" /\ spawned.values = <<>> /\ spawned.dependents = {} /\ spawned.old_edges = {}
      /\ idle.pc = "idle" /\ idle.values = <<>> /\ idle.dependents = {} /\ idle.old_edges = {}
      /\ ~scheduled.stale /\ ~none.stale
  BY DEF spawned, idle, at, scheduled, none
<1>2. /\ job[t].pc \in {"start", "idle"} /\ job[t].values = <<>>
      /\ job[t].dependents = {} /\ job[t].old_edges = {} /\ ~in_progress[t].stale
      /\ output[t] = "none" /\ t \notin celled /\ seen[t] = <<>> /\ cell[t] = Missing /\ contents[t] = {}
  BY <1>1 DEF Init
<1>3. ~Recalls(t) /\ ~Fresh(t) /\ job[t].pc \notin After
  BY <1>2 DEF Recalls, Fresh, Awake, After
<1>4. Begun(t, job[t].values) /\ Begun(t, seen[t])
  BY <1>2, NothingBegun
<1>5. JobFits(t) /\ SeenFits(t)
  BY <1>2, <1>3, <1>4 DEF JobFits, SeenFits, After, Before
<1>6. Sound(t)
  BY <1>2, <1>3, <1>5 DEF Sound, Written, Published, Completed, Recalled, Kept, RunsAgain, Unwritten, Lost, silent, After
<1> QED  BY <1>2, <1>3, <1>6 DEF Repeats, RecallEdges, Current, Noticed, silent

LEMMA StepCurrent ==
    ASSUME CodeIsTyped, Inv, Inv', EdgesInv, OutputInv, CurrentInv, ResolvedFirst, [Next]_vars
    PROVE  CurrentInv'
<1>1. CASE UNCHANGED vars
  <2>1. CASE stopped
    BY <1>1, <2>1 DEF vars, CurrentInv
  <2>2. CASE ~stopped
    <3>1. UNCHANGED <<in_progress, dirty, output, cell, celled, contents, dependency, job, state, seen>>
      BY <1>1 DEF vars, cells, edges
    <3>2. ASSUME NEW x \in Task PROVE Aside(x)
      BY <3>1, AsideAlone DEF Woken, known
    <3> QED  BY <2>2, <3>1, <3>2, TellsAside, AsideStep DEF TakenTold, StateSteady
  <2> QED  BY <2>1, <2>2
<1>2. CASE stopped'
  BY <1>2 DEF CurrentInv
<1>3. CASE Next /\ ~stopped'
  <2>1. CASE environment \/ \E r \in Task : invalidate(r)
    <3>1. ~stopped
      BY <1>3, <2>1 DEF environment, set, try_read_task_cell_untracked, final_read, stop_and_wait, restart,
         invalidate
    <3> QED  BY <1>3, <2>1, <3>1, EnvironmentCurrent
  <2>2. ASSUME NEW t \in Task, execute(t)
        PROVE  CurrentInv'
    <3>1. CASE start(t)
      BY <1>3, <3>1, StartCurrent DEF start, task_execution_canceled, try_start_task_execution
    <3>2. CASE get(t)
      BY <1>3, <3>2, GetCurrent DEF get
    <3>3. ASSUME NEW v \in Value, update_cell(t, v) PROVE CurrentInv'
      BY <1>3, <3>3, WriteCurrent DEF update_cell
    <3>4. CASE update_output(t)
      BY <1>3, <3>4, PublishCurrent DEF update_output
    <3>5. CASE complete(t)
      BY <1>3, <3>5, CompleteCurrent DEF complete
    <3>6. CASE finish(t)
      BY <1>3, <3>6, FinishCurrent DEF finish
    <3>7. ASSUME NEW u \in Task, read(t, u) PROVE CurrentInv'
      <4>1. ~stopped
        BY <1>3, <3>7 DEF read, connect_child, listen_to_done_event, read_canceled_output, try_read_task_output,
           try_read_task_cell, read_removed_cell, listen_to_cell, read_canceled_cell
      <4>2. ~read_canceled_output(t, u) /\ ~read_canceled_cell(t, u)
        BY <4>1, NotCanceled DEF read_canceled_output, read_canceled_cell
      <4> QED  BY <1>3, <3>7, <4>1, <4>2, CallCurrent, OutputReadCurrent, CellReadCurrent, RemovedReadCurrent DEF read
    <3>8. ASSUME NEW r \in Task, make_dependent_dirty(t, r) PROVE CurrentInv'
      BY <1>3, <3>8, TellCurrent DEF make_dependent_dirty
    <3>9. ASSUME NEW u \in Task, clean_up(t, u) PROVE CurrentInv'
      <4>1. ~stopped
        BY <1>3, <3>9 DEF clean_up, remove_dependency, removed_cell_dependent
      <4> QED  BY <1>3, <3>9, <4>1, RemoveCurrent, RemovedCellCurrent DEF clean_up
    <3> QED  BY <2>2, <3>1, <3>2, <3>3, <3>4, <3>5, <3>6, <3>7, <3>8, <3>9 DEF execute
  <2> QED  BY <1>3, <2>1, <2>2 DEF Next, work
<1> QED  BY <1>1, <1>2, <1>3

(* A settled task that nobody is telling has read the values that there    *)
(* are, and is what its code makes of them.                                *)
LEMMA SettledRecalls ==
    ASSUME Inv, EdgesInv, CurrentInv, ~stopped, NEW u \in Task, settled(u), ~told(u)
    PROVE  Recalls(u) /\ Sound(u) /\ ~WillWrite(u) /\ ~Fails(u) /\ last(u) = seen[u]
<1>1. job[u].pc = "idle" /\ Sound(u)
  BY DEF settled, Inv, OneJob, CurrentInv
<1>2. u \notin dirty /\ ~in_progress[u].stale
  BY <1>1, IdleIsClean DEF Sound, JobFits
<1> QED  BY <1>1, <1>2 DEF Recalls, settled, After, WillWrite, Fails, last

LEMMA CurrentNow ==
    ASSUME Inv, EdgesInv, CurrentInv, ~stopped, NEW u \in Task, settled(u), ~told(u), ~silent(u), NEW v,
           CellAgrees(u, v)
    PROVE  v \in cell_now(u)
<1>1. Recalls(u) /\ Sound(u) /\ v # Missing /\ v \in contents[u]
  BY SettledRecalls DEF CellAgrees
<1>2. u \in celled /\ CellIs(u, result(u, seen[u]))
  BY <1>1 DEF Sound, Recalled, Removed
<1>3. v = result(u, seen[u])
  BY <1>1, <1>2 DEF CellIs, silent
<1>4. v \in Value
  BY <1>1 DEF Inv, TypeOK
<1> QED  BY <1>2, <1>3, <1>4 DEF CellIs, cell_now

LEMMA CurrentReads ==
    ASSUME Inv, CodeIsTyped, EdgesInv, CurrentInv
    PROVE  ReadsAreCurrent
<1>0. ASSUME ~stopped, NEW t \in Task, silent(t) PROVE Missing \in contents[t]
  BY <1>0 DEF CurrentInv, Sound, Lost, Dropped
<1> SUFFICES ASSUME ~stopped, NEW t \in Task, settled(t), ~told(t)
             PROVE  /\ \A i \in 1..Len(seen[t]) :
                          \/ seen[t][i] \in now(access_of(t, i))
                          \/ \E u \in uses(t, i) :
                                ~settled(u) \/ told(u) \/ (silent(u) /\ seen[t][i] \in contents[u])
                    /\ IF output[t] = "error" THEN result(t, seen[t]) = Err
                       ELSE cell[t] \in {result(t, seen[t]), Missing}
                    /\ silent(t) =>
                          t \in Compared \/ \E i \in 1..Len(seen[t]) : \E u \in uses(t, i) : silent(u)
  BY <1>0 DEF ReadsAreCurrent
<1>1. Recalls(t) /\ Sound(t) /\ ~WillWrite(t) /\ ~Fails(t) /\ last(t) = seen[t]
  BY SettledRecalls
<1>2. IF output[t] = "error" THEN result(t, seen[t]) = Err ELSE cell[t] \in {result(t, seen[t]), Missing}
  BY <1>1 DEF Sound, Recalled, CellIs
<1>3. ASSUME NEW i \in 1..Len(seen[t]),
             \A u \in uses(t, i) : settled(u) /\ ~told(u) /\ ~(silent(u) /\ seen[t][i] \in contents[u])
      PROVE  seen[t][i] \in now(access_of(t, i))
  <2> DEFINE a == access_of(t, i)
             v == seen[t][i]
  <2>1. a = access_at(t, seen[t], i)
    BY DEF access_of, access_at
  <2>2. seen[t] \in Seq(Read)
    BY DEF Inv, TypeOK
  <2>3. a \in Access /\ Agrees(a, v) /\ a.how # "return"
    BY <1>1, <2>1, <2>2, AccessAt DEF CurrentInv, Current, Hold, Sound, SeenFits, Begun, Continues, access_at
  <2>4. a.how # "get" => /\ settled(a.task) /\ ~told(a.task) /\ a.task \in Task
                         /\ ~(silent(a.task) /\ v \in contents[a.task])
    BY <1>3, <2>3 DEF uses, Access
  <2> HIDE DEF a, v
  <2>5. a.how \notin {"get", "resolve"} /\ v # Err => v \in cell_now(a.task)
    <3> SUFFICES ASSUME a.how \notin {"get", "resolve"}, v # Err
                 PROVE  v \in cell_now(a.task)
      OBVIOUS
    <3>1. CellAgrees(a.task, v)
      BY <2>3 DEF Agrees
    <3>2. a.task \in Task /\ settled(a.task) /\ ~told(a.task) /\ ~silent(a.task)
      BY <2>4, <3>1 DEF CellAgrees
    <3> QED  BY <3>1, <3>2, CurrentNow
  <2>6. a.how = "read" /\ v = Err => v \in cell_now(a.task)
    BY <2>3 DEF Agrees, Gone, cell_now
  <2>7. a.how \in {"await", "resolve", "read", "get"}
    BY <2>3 DEF Access
  <2>8. v \in now(a)
    <3>1. CASE a.how = "get"
      BY <2>3, <3>1 DEF Agrees, now
    <3>2. CASE a.how = "read"
      BY <2>5, <2>6, <3>2 DEF now
    <3>3. CASE a.how = "resolve"
      BY <2>3, <3>3 DEF Agrees, now
    <3>4. CASE a.how = "await"
      BY <2>3, <2>5, <3>4 DEF Agrees, now
    <3> QED  BY <2>7, <3>1, <3>2, <3>3, <3>4
  <2> QED  BY <2>8 DEF a, v
<1>4. ASSUME silent(t), t \notin Compared
      PROVE  \E i \in 1..Len(seen[t]) : \E u \in uses(t, i) : silent(u)
  <2>1. silently(t, seen[t])
    BY <1>1, <1>4 DEF CurrentInv, Noticed
  <2>2. PICK u \in Task : <<"cell", u>> \in values_edges(t, seen[t]) /\ silent(u)
    BY <2>1 DEF silently
  <2>3. PICK i \in 1..Len(seen[t]) : <<"cell", u>> \in read_edges(access_at(t, seen[t], i), seen[t][i])
    BY <2>2 DEF values_edges
  <2>4. u \in uses(t, i)
    BY <2>3 DEF read_edges, uses, access_of, access_at
  <2> QED  BY <2>2, <2>4
<1> QED  BY <1>2, <1>3, <1>4

-----------------------------------------------------------------------------
(* Where a ResolvedVc comes from.  args gives each task those that its     *)
(* arguments contain, whoever calls it.                                    *)

(* The tasks t has a ResolvedVc of when it has read values: those it was   *)
(* given as arguments, and those it has resolved.                          *)
resolved(args, t, values) ==
    args[t] \cup {u \in Task : \E i \in 1..Len(values) : /\ access_at(t, values, i).how = "resolve"
                                                         /\ access_at(t, values, i).task = u}

(* A task reads the cell of, and passes on, what it has a ResolvedVc of.   *)
PassesResolved(args) ==
    /\ args[Root] = {}
    /\ \A t \in Task, values \in Seq(Read) :
          /\ NextRead(t, values).how = "read" => NextRead(t, values).task \in resolved(args, t, values)
          /\ NextRead(t, values).how \in {"await", "resolve"} =>
                 args[NextRead(t, values).task] \subseteq resolved(args, t, values)
VcsAreResolved == \E args \in [Task -> SUBSET Task] : PassesResolved(args)

Started(t) == in_progress[t].state # "none" \/ output[t] # "none"
Tied(t) == dependency[t] # {} \/ known(t) \/ told(t)
ArgsInv(args) ==
    ~stopped => \A t \in Task :
        /\ Tied(t) => Started(t)
        /\ Started(t) => \A u \in args[t] : output[u] # "none"
        /\ \A u \in resolved(args, t, job[t].values) \ args[t] : output[u] # "none"

(* How the job of r goes on as k.                                          *)
Follows(r, k) ==
    /\ \/ k.values \in {job[r].values, <<>>}
       \/ \E v \in Read : /\ k.values = Append(job[r].values, v)
                          /\ access(r).how = "resolve" => output[access(r).task] # "none"
    /\ \A x \in Task :
          x \in k.dependents \/ <<"removed", x>> \in k.old_edges =>
              \/ x \in job[r].dependents \/ <<"removed", x>> \in job[r].old_edges
              \/ x \in dependents(r, "output") \cup dependents(r, "cell")

LEMMA ResolvedMore ==
    ASSUME NEW args, NEW t \in Task, NEW values \in Seq(Read), NEW v \in Read, NEW u \in Task,
           u \in resolved(args, t, Append(values, v))
    PROVE  \/ u \in resolved(args, t, values)
           \/ NextRead(t, values).how = "resolve" /\ NextRead(t, values).task = u
<1> DEFINE more == Append(values, v)
<1>1. more \in Seq(Read) /\ Len(more) = Len(values) + 1 /\ Len(values) \in Nat
  OBVIOUS
<1>2. ASSUME NEW i \in 1..Len(values)
      PROVE  access_at(t, more, i) = access_at(t, values, i)
  <2>1. SubSeq(more, 1, i - 1) = SubSeq(values, 1, i - 1)
    OBVIOUS
  <2> QED  BY <2>1 DEF access_at
<1>3. access_at(t, more, Len(values) + 1) = NextRead(t, values)
  <2>1. SubSeq(more, 1, (Len(values) + 1) - 1) = values
    OBVIOUS
  <2> QED  BY <2>1 DEF access_at
<1>4. \A i : i \in 1..Len(more) <=> i \in 1..Len(values) \/ i = Len(values) + 1
  BY <1>1
<1>5. u \in resolved(args, t, more)
  OBVIOUS
<1> HIDE DEF more
<1> QED  BY <1>2, <1>3, <1>4, <1>5 DEF resolved

LEMMA ArgsStep ==
    ASSUME Inv, EdgesInv, ~stopped, NEW args \in [Task -> SUBSET Task], ArgsInv(args),
           \A u \in Task : output[u] # "none" => output'[u] # "none",
           \A x \in Task : Started(x) => Started(x)',
           \A x \in Task : Started(x)' => Started(x) \/ \A u \in args[x] : output[u] # "none",
           \A x \in Task : dependency'[x] # {} => dependency[x] # {} \/ Started(x),
           \A x \in Task : known(x)' => known(x) \/ Started(x),
           \A r \in Task : Follows(r, job'[r])
    PROVE  ArgsInv(args)'
<1> SUFFICES ASSUME NEW t \in Task
             PROVE  /\ Tied(t)' => Started(t)'
                    /\ Started(t)' => \A u \in args[t] : output'[u] # "none"
                    /\ \A u \in resolved(args, t, job'[t].values) \ args[t] : output'[u] # "none"
  BY DEF ArgsInv, resolved, access_at
<1>1. ASSUME Tied(t)' PROVE Started(t)'
  <2>1. Tied(t) => Started(t)
    BY DEF ArgsInv
  <2>2. \A r \in Task : t \in dependents(r, "output") \cup dependents(r, "cell") => dependency[t] # {}
    BY DEF dependents, EdgesInv, Tidy, Mirror, Kind
  <2>3. told(t)' => known(t)' \/ Tied(t)
    BY <2>2 DEF told, known, Follows, Tied
  <2> QED  BY <1>1, <2>1, <2>3 DEF Tied
<1>2. ASSUME Started(t)', NEW u \in args[t] PROVE output'[u] # "none"
  BY <1>2 DEF ArgsInv
<1>3. ASSUME NEW u \in resolved(args, t, job'[t].values) \ args[t] PROVE output'[u] # "none"
  <2>1. u \in Task /\ job[t].values \in Seq(Read)
    BY <1>3 DEF resolved, Inv, TypeOK, Job
  <2>2. CASE job'[t].values = job[t].values
    BY <1>3, <2>1, <2>2 DEF ArgsInv
  <2>3. CASE job'[t].values = <<>>
    BY <1>3, <2>3 DEF resolved
  <2>4. ASSUME NEW v \in Read, job'[t].values = Append(job[t].values, v),
               access(t).how = "resolve" => output[access(t).task] # "none"
        PROVE  output'[u] # "none"
    <3>1. u \in resolved(args, t, job[t].values) \/ (access(t).how = "resolve" /\ access(t).task = u)
      BY <1>3, <2>1, <2>4, ResolvedMore DEF access
    <3> QED  BY <1>3, <2>1, <2>4, <3>1 DEF ArgsInv
  <2> QED  BY <2>2, <2>3, <2>4 DEF Follows
<1> QED  BY <1>1, <1>2, <1>3

LEMMA WokenFollows ==
    ASSUME NEW x \in Task, NEW k, Woken(job[x], k)
    PROVE  Follows(x, k)
BY DEF Woken, Follows

(* The job of t, whose task is in progress, makes a step.                  *)
LEMMA ArgsAlone ==
    ASSUME Inv, EdgesInv, ~stopped, NEW args \in [Task -> SUBSET Task], ArgsInv(args), NEW t \in Task,
           job[t].pc # "idle", Started(t)', Follows(t, job'[t]),
           output[t] # "none" => output'[t] # "none",
           \A x \in Task \ {t} : /\ Woken(job[x], job'[x]) /\ in_progress'[x] = in_progress[x]
                                 /\ output'[x] = output[x] /\ dependency'[x] = dependency[x]
                                 /\ known(x)' => known(x)
    PROVE  ArgsInv(args)'
<1>1. Started(t)
  BY DEF Started, Inv, OneJob
<1>2. ASSUME NEW r \in Task \ {t} PROVE Follows(r, job'[r]) /\ (Started(r) <=> Started(r)')
  <2>1. Woken(job[r], job'[r]) /\ in_progress'[r] = in_progress[r] /\ output'[r] = output[r]
    OBVIOUS
  <2> QED  BY <2>1, WokenFollows DEF Started
<1>3. \A u \in Task : output[u] # "none" => output'[u] # "none"
  OBVIOUS
<1>4. \A x \in Task : /\ dependency'[x] # {} => dependency[x] # {} \/ Started(x)
                      /\ known(x)' => known(x) \/ Started(x)
  BY <1>1
<1>5. \A x \in Task : Follows(x, job'[x]) /\ (Started(x) <=> Started(x)')
  BY <1>1, <1>2
<1> QED  BY <1>3, <1>4, <1>5, ArgsStep

LEMMA SpawnedFollows == \A x \in Task : Follows(x, spawned)
BY DEF Follows, spawned, at

LEMMA ArgsScheduled ==
    ASSUME Inv, EdgesInv, ~stopped, NEW args \in [Task -> SUBSET Task], ArgsInv(args), NEW u \in Task, NEW jobs,
           Goes(jobs), add_scheduled(u, jobs), \A x \in Task : Follows(x, jobs[x]),
           in_progress[u].state = "none" => \A w \in args[u] : output[w] # "none",
           UNCHANGED <<output, dependency>>, \A x \in Task : known(x)' => known(x)
    PROVE  ArgsInv(args)'
<1>1. scheduled.state = "scheduled"
  BY DEF scheduled
<1>2. \A x \in Task : /\ Started(x) => Started(x)'
                      /\ Started(x)' => Started(x) \/ (x = u /\ in_progress[u].state = "none")
  BY <1>1 DEF Started, add_scheduled, Inv, TypeOK
<1>3. \A x \in Task : Follows(x, job'[x])
  BY SpawnedFollows DEF add_scheduled, Goes
<1> QED  BY <1>2, <1>3, ArgsStep

LEMMA ArgsDirtied ==
    ASSUME Inv, EdgesInv, ~stopped, NEW args \in [Task -> SUBSET Task], ArgsInv(args), NEW r \in Task, NEW jobs,
           Goes(jobs), make_task_dirty(r, jobs), \A x \in Task : Follows(x, jobs[x]), Tied(r),
           UNCHANGED <<output, dependency>>, \A x \in Task : known(x)' => known(x)
    PROVE  ArgsInv(args)'
<1>1. Started(r) /\ \A w \in args[r] : output[w] # "none"
  BY DEF ArgsInv
<1>2. CASE in_progress[r].state = "running"
  <2>1. job' = jobs /\ in_progress' = [in_progress EXCEPT ![r].stale = TRUE]
    BY <1>2 DEF make_task_dirty
  <2>2. \A x \in Task : in_progress'[x].state = in_progress[x].state
    BY <2>1 DEF Inv, TypeOK, InProgress
  <2> QED  BY <2>1, <2>2, ArgsStep DEF Started
<1>3. CASE in_progress[r].state # "running" /\ r \in dirty
  BY <1>3, ArgsStep DEF make_task_dirty, Started
<1>4. CASE in_progress[r].state # "running" /\ r \notin dirty
  BY <1>1, <1>4, ArgsScheduled DEF make_task_dirty
<1> QED  BY <1>2, <1>3, <1>4

(* Who starts: nobody has told anybody, and nothing is read yet.           *)
LEMMA FreshFollows ==
    ASSUME NEW t \in Task, NEW j, j.values = <<>>, j.dependents = {}, j.old_edges = {}
    PROVE  Follows(t, j)
BY DEF Follows

LEMMA ArgsStart ==
    ASSUME Inv, CodeIsTyped, EdgesInv, ~stopped, NEW args \in [Task -> SUBSET Task], ArgsInv(args), NEW t \in Task,
           try_start_task_execution(t)
    PROVE  ArgsInv(args)'
<1>1. /\ job[t].pc = "start" /\ in_progress' = [in_progress EXCEPT ![t] = running]
      /\ job' = [job EXCEPT ![t] = resume(t, <<>>)]
      /\ UNCHANGED <<output, dependency, state>>
  BY DEF try_start_task_execution
<1>2. /\ job'[t] = resume(t, <<>>) /\ in_progress'[t] = running
      /\ \A x \in Task \ {t} : job'[x] = job[x] /\ in_progress'[x] = in_progress[x]
  BY <1>1 DEF Inv, TypeOK
<1>3. Started(t)'
  BY <1>2 DEF Started, running
<1>4. Follows(t, job'[t])
  BY <1>2, FreshFollows DEF resume, at
<1> QED  BY <1>1, <1>2, <1>3, <1>4, ArgsAlone DEF Woken, known

(* t has read one thing more.                                              *)
LEMMA ArgsReceived ==
    ASSUME Inv, CodeIsTyped, EdgesInv, ~stopped, NEW args \in [Task -> SUBSET Task], ArgsInv(args), NEW t \in Task,
           NEW v \in Read, job' = received(t, v), Awake(job[t]), UNCHANGED <<in_progress, output>>,
           access(t).how = "resolve" => output[access(t).task] # "none",
           \A x \in Task \ {t} : dependency'[x] = dependency[x] /\ (known(x)' => known(x))
    PROVE  ArgsInv(args)'
<1>1. /\ job'[t] = resume(t, Append(job[t].values, v))
      /\ \A x \in Task \ {t} : job'[x] = job[x]
  BY DEF received, Inv, TypeOK
<1>2. Started(t)'
  BY Runs DEF Started
<1>3. Follows(t, job'[t])
  BY <1>1 DEF Follows, resume, at
<1> QED  BY <1>1, <1>2, <1>3, ArgsAlone DEF Woken, Awake

LEMMA MoveFollows ==
    ASSUME Inv, NEW t \in Task, NEW pc, NEW x \in Task
    PROVE  /\ Follows(x, move(t, pc)[x])
           /\ x # t => move(t, pc)[x] = job[x]
<1>1. /\ move(t, pc)[x].values = job[x].values
      /\ move(t, pc)[x].dependents = job[x].dependents
      /\ move(t, pc)[x].old_edges = job[x].old_edges
      /\ x # t => move(t, pc)[x] = job[x]
  BY DEF move, Inv, TypeOK, Job
<1> QED  BY <1>1 DEF Follows

LEMMA ArgsMoved ==
    ASSUME Inv, CodeIsTyped, EdgesInv, ~stopped, NEW args \in [Task -> SUBSET Task], ArgsInv(args), NEW t \in Task,
           NEW pc, job' = move(t, pc), Awake(job[t]), UNCHANGED <<in_progress, output, state>>,
           \A x \in Task \ {t} : dependency'[x] = dependency[x]
    PROVE  ArgsInv(args)'
<1>1. \A x \in Task : Follows(x, job'[x]) /\ (x # t => job'[x] = job[x])
  BY MoveFollows
<1>2. Started(t)'
  BY Runs DEF Started
<1> QED  BY <1>1, <1>2, ArgsAlone DEF Woken, Awake, known

LEMMA ArgsRead ==
    ASSUME Inv, CodeIsTyped, EdgesInv, ~stopped, CurrentInv, NEW args \in [Task -> SUBSET Task], ArgsInv(args),
           NEW t \in Task, NEW u \in Task,
           try_read_task_output(t, u) \/ try_read_task_cell(t, u) \/ read_removed_cell(t, u)
    PROVE  ArgsInv(args)'
<1>1. /\ Awake(job[t]) /\ access(t).task = u
      /\ access(t).how = "resolve" => output[u] # "none"
      /\ UNCHANGED <<in_progress, output, state>>
  BY DEF try_read_task_output, try_read_task_cell, read_removed_cell, reading_output, reading_cell, Awake,
     EdgesInv, Tidy, AccessFits
<1>2. \A x \in Task \ {t} : dependency'[x] = dependency[x]
  BY DependencyAdded DEF try_read_task_output, try_read_task_cell, read_removed_cell
<1>3. (\E v \in Read : job' = received(t, v)) \/ job' = move(t, "read")
  <2>1. Err \in Read /\ Ok \in Read
    BY DEF Read
  <2>2. cell[u] # Missing => cell[u] \in Read
    BY DEF Inv, TypeOK, Read
  <2> QED  BY <2>1, <2>2 DEF try_read_task_output, try_read_task_cell, read_removed_cell
<1> QED  BY <1>1, <1>2, <1>3, ArgsReceived, ArgsMoved DEF known

LEMMA ArgsGet ==
    ASSUME Inv, CodeIsTyped, EdgesInv, ~stopped, NEW args \in [Task -> SUBSET Task], ArgsInv(args),
           NEW t \in Task, get(t)
    PROVE  ArgsInv(args)'
<1>1. /\ Awake(job[t]) /\ access(t).how = "get"
      /\ UNCHANGED <<in_progress, output, dependency>>
      /\ \A x \in Task \ {t} : known(x)' => known(x)
  BY DEF get, Awake, EdgesInv, Tidy, AccessFits, edges, known, Inv, TypeOK
<1>2. PICK v \in Read : job' = received(t, v)
  BY DEF get, Inv, TypeOK, Read
<1> QED  BY <1>1, <1>2, ArgsReceived

(* A task is called with what its caller has ResolvedVcs of.               *)
LEMMA ArgsCall ==
    ASSUME Inv, CodeIsTyped, EdgesInv, ~stopped, CurrentInv, NEW args \in [Task -> SUBSET Task], ArgsInv(args),
           PassesResolved(args), NEW t \in Task, NEW u \in Task,
           connect_child(t, u) \/ listen_to_done_event(t, u) \/ listen_to_cell(t, u)
    PROVE  ArgsInv(args)'
<1>1. PICK pc : /\ job[t].pc \in {"connect_child", "read_output", "read"} /\ access(t).task = u
                /\ pc \in {"read_output", "await_done", "await_cell"}
                /\ \/ /\ add_scheduled(u, move(t, pc))
                      /\ in_progress[u].state = "none" => job[t].pc = "connect_child" \/ u \in celled
                   \/ job' = move(t, pc) /\ UNCHANGED in_progress
  BY DEF connect_child, listen_to_done_event, reading_output, listen_to_cell, reading_cell
<1>2. UNCHANGED <<output, dependency, state>>
  BY DEF connect_child, listen_to_done_event, listen_to_cell, edges
<1>3. Awake(job[t]) /\ pc \in Pc \ {"idle", "start"}
  BY <1>1 DEF Awake, Pc
<1>4. Goes(move(t, pc)) /\ \A x \in Task : Follows(x, move(t, pc)[x])
  BY <1>3, Moving, MoveFollows DEF Inv
<1>5. \A w \in resolved(args, t, job[t].values) : output[w] # "none"
  <2>1. Started(t)
    BY <1>3, Runs DEF Started
  <2> QED  BY <2>1 DEF ArgsInv
<1>6. ASSUME in_progress[u].state = "none", job[t].pc = "connect_child" \/ u \in celled, NEW w \in args[u]
      PROVE  output[w] # "none"
  <2>1. CASE job[t].pc = "connect_child"
    <3>1. access(t).how \in {"await", "resolve"} /\ job[t].values \in Seq(Read)
      BY <2>1 DEF EdgesInv, Tidy, AccessFits, Inv, TypeOK, Job
    <3>2. args[u] \subseteq resolved(args, t, job[t].values)
      BY <1>1, <3>1 DEF PassesResolved, access
    <3> QED  BY <1>5, <1>6, <3>2
  <2>2. CASE u \in celled
    BY <1>6, <2>2 DEF CurrentInv, Sound, Kept, ArgsInv, Started
  <2> QED  BY <1>6, <2>1, <2>2
<1>7. CASE job' = move(t, pc) /\ UNCHANGED in_progress
  BY <1>2, <1>3, <1>7, ArgsMoved
<1>8. CASE /\ add_scheduled(u, move(t, pc))
           /\ in_progress[u].state = "none" => job[t].pc = "connect_child" \/ u \in celled
  BY <1>2, <1>4, <1>6, <1>8, ArgsScheduled DEF known
<1> QED  BY <1>1, <1>7, <1>8

(* What is written does not change what anybody has a ResolvedVc of.       *)
LEMMA ArgsWrite ==
    ASSUME Inv, CodeIsTyped, EdgesInv, ~stopped, CurrentInv, NEW args \in [Task -> SUBSET Task], ArgsInv(args),
           NEW t \in Task, NEW v \in Value, update_cell(t, v)
    PROVE  ArgsInv(args)'
<1>1. /\ job[t].pc = "update_cell" /\ UNCHANGED <<in_progress, output, dependency, state>>
  BY DEF update_cell, edges
<1>2. Awake(job[t])
  BY <1>1 DEF Awake
<1>3. Started(t)'
  BY <1>1, <1>2, Runs DEF Started
<1>4. CASE job' = move(t, "update_output")
  BY <1>1, <1>2, <1>4, ArgsMoved
<1>5. CASE job' # move(t, "update_output")
  <2> DEFINE tasks == IF t \in dirty THEN dependents(t, "cell") ELSE {}
             jobs == tell(t, "tell_cell_changed", tasks, "update_output")
  <2>1. job' = notify_cell(jobs, t)
    BY <1>5 DEF update_cell
  <2>2. tasks \in SUBSET Task /\ tasks \subseteq dependents(t, "cell")
    BY DEF dependents
  <2> HIDE DEF tasks
  <2>3. jobs \in [Task -> Job]
    BY <1>2, <2>2, Telling DEF Inv, Pc, Goes
  <2>4. /\ jobs[t].values = job[t].values /\ jobs[t].dependents = tasks
        /\ \A x \in Task \ {t} : jobs[x] = job[x]
    BY TellTo
  <2>5. jobs[t].old_edges = job[t].old_edges
    BY DEF tell, Inv, TypeOK, Job
  <2> HIDE DEF jobs
  <2>6. \A x \in Task : Woken(jobs[x], job'[x])
    BY <2>1, <2>3, Wakes
  <2>7. Follows(t, job'[t])
    BY <2>2, <2>4, <2>5, <2>6 DEF Follows, Woken
  <2> QED  BY <1>1, <1>2, <1>3, <2>4, <2>6, <2>7, ArgsAlone DEF Awake, known
<1> QED  BY <1>4, <1>5

LEMMA ArgsPublish ==
    ASSUME Inv, CodeIsTyped, EdgesInv, ~stopped, NEW args \in [Task -> SUBSET Task], ArgsInv(args),
           NEW t \in Task, update_output(t)
    PROVE  ArgsInv(args)'
<1>1. /\ job[t].pc = "update_output" /\ UNCHANGED <<in_progress, dependency, state>>
  BY DEF update_output, edges
<1>2. Awake(job[t])
  BY <1>1 DEF Awake
<1>3. Started(t)'
  BY <1>1, <1>2, Runs DEF Started
<1>4. CASE job' = move(t, "complete") /\ output' = output
  BY <1>1, <1>2, <1>4, ArgsMoved
<1>5. CASE ~(job' = move(t, "complete") /\ output' = output)
  <2> DEFINE jobs == tell(t, "tell_output_changed", dependents(t, "output"), "complete")
  <2>1. PICK new \in {"error", "cell"} : output' = [output EXCEPT ![t] = new] /\ job' = jobs
    BY <1>5 DEF update_output
  <2>2. output'[t] # "none" /\ \A x \in Task \ {t} : output'[x] = output[x]
    BY <2>1 DEF Inv, TypeOK
  <2>3. /\ jobs[t].values = job[t].values /\ jobs[t].dependents = dependents(t, "output")
        /\ \A x \in Task \ {t} : jobs[x] = job[x]
    BY TellTo
  <2>4. jobs[t].old_edges = job[t].old_edges
    BY DEF tell, Inv, TypeOK, Job
  <2> HIDE DEF jobs
  <2>5. Follows(t, job'[t]) /\ \A x \in Task \ {t} : Woken(job[x], job'[x])
    BY <2>1, <2>3, <2>4 DEF Follows, Woken
  <2> QED  BY <1>1, <1>3, <2>2, <2>5, ArgsAlone DEF known
<1> QED  BY <1>4, <1>5

(* Who is made dirty has executed before.                                  *)
LEMMA ArgsTold ==
    ASSUME Inv, CodeIsTyped, EdgesInv, ~stopped, NEW args \in [Task -> SUBSET Task], ArgsInv(args),
           NEW t \in Task, NEW r \in Task, make_dependent_dirty(t, r) \/ removed_cell_dependent(t, r)
    PROVE  ArgsInv(args)'
<1>1. PICK jobs : /\ make_task_dirty(r, jobs) /\ Goes(jobs) /\ Tied(r)
                  /\ jobs[t].values = job[t].values
                  /\ jobs[t].dependents \subseteq job[t].dependents
                  /\ jobs[t].old_edges \subseteq job[t].old_edges
                  /\ \A x \in Task \ {t} : jobs[x] = job[x]
  <2>1. CASE make_dependent_dirty(t, r)
    <3> DEFINE next == IF job[t].pc = "tell_cell_changed" THEN "update_output" ELSE "complete"
               jobs == tell(t, job[t].pc, job[t].dependents \ {r}, next)
    <3>1. /\ job[t].pc \in {"tell_cell_changed", "tell_output_changed"} /\ Awake(job[t])
          /\ make_task_dirty(r, jobs) /\ r \in job[t].dependents
      BY <2>1 DEF make_dependent_dirty, Awake
    <3>2. next \in Pc \ {"idle", "start"} /\ job[t].pc \in Pc \ {"idle", "start"}
          /\ job[t].dependents \ {r} \in SUBSET Task
      BY <3>1 DEF Pc, Inv, TypeOK, Job
    <3> HIDE DEF next
    <3>3. Goes(jobs)
      BY <3>1, <3>2, Telling DEF Inv
    <3>4. /\ jobs[t].values = job[t].values /\ jobs[t].dependents = job[t].dependents \ {r}
          /\ \A x \in Task \ {t} : jobs[x] = job[x]
      BY TellTo
    <3>5. jobs[t].old_edges = job[t].old_edges
      BY DEF tell, Inv, TypeOK, Job
    <3> HIDE DEF jobs
    <3> QED  BY <3>1, <3>3, <3>4, <3>5 DEF Tied, told
  <2>2. CASE removed_cell_dependent(t, r)
    <3> DEFINE edge == <<"removed", r>>
               jobs == remaining(t, edge)
    <3>1. Awake(job[t]) /\ make_task_dirty(r, jobs) /\ edge \in job[t].old_edges
      BY <2>2 DEF removed_cell_dependent, pops, Awake
    <3>2. Tied(r)
      BY <3>1 DEF Tied, told
    <3> HIDE DEF edge
    <3>3. Goes(jobs)
      BY <3>1, Remaining DEF Inv
    <3>4. /\ jobs[t].old_edges = job[t].old_edges \ {edge} /\ jobs[t].values = job[t].values
          /\ \A x \in Task \ {t} : jobs[x] = job[x]
      BY RemainingTo
    <3>5. jobs[t].dependents = job[t].dependents
      BY DEF remaining, Inv, TypeOK, Job
    <3> HIDE DEF jobs
    <3> QED  BY <3>1, <3>2, <3>3, <3>4, <3>5
  <2> QED  BY <2>1, <2>2
<1>2. UNCHANGED <<output, dependency, state>>
  BY DEF make_dependent_dirty, removed_cell_dependent, edges
<1>3. \A x \in Task : Follows(x, jobs[x])
  BY <1>1 DEF Follows
<1> QED  BY <1>1, <1>2, <1>3, ArgsDirtied DEF known

LEMMA ArgsRemove ==
    ASSUME Inv, CodeIsTyped, EdgesInv, ~stopped, NEW args \in [Task -> SUBSET Task], ArgsInv(args),
           NEW t \in Task, NEW u \in Task, NEW kind \in {"output", "cell"}, remove_dependency(t, u, kind)
    PROVE  ArgsInv(args)'
<1> DEFINE edge == <<kind, u>>
<1>1. /\ Awake(job[t]) /\ job' = remaining(t, edge)
      /\ dependency' = [dependency EXCEPT ![t] = @ \ {edge}]
      /\ UNCHANGED <<in_progress, output, state>>
  BY DEF remove_dependency, pops, Awake
<1> HIDE DEF edge
<1>2. /\ job'[t].old_edges \subseteq job[t].old_edges /\ job'[t].values = job[t].values
      /\ \A x \in Task \ {t} : job'[x] = job[x] /\ dependency'[x] = dependency[x]
  <2>1. \A x \in Task \ {t} : dependency'[x] = dependency[x]
    BY <1>1 DEF Inv, TypeOK
  <2> QED  BY <1>1, <2>1, RemainingTo
<1>3. job'[t].dependents = job[t].dependents
  BY <1>1 DEF remaining, Inv, TypeOK, Job
<1>4. Started(t)' /\ Follows(t, job'[t])
  BY <1>1, <1>2, <1>3, Runs DEF Started, Follows
<1> QED  BY <1>1, <1>2, <1>4, ArgsAlone DEF Woken, Awake, known

LEMMA ArgsReschedule ==
    ASSUME Inv, CodeIsTyped, EdgesInv, ~stopped, NEW args \in [Task -> SUBSET Task], ArgsInv(args),
           NEW t \in Task, Awake(job[t]), reschedule(t), UNCHANGED <<output, dependency, state>>
    PROVE  ArgsInv(args)'
<1>1. /\ job'[t] = spawned /\ in_progress'[t] = scheduled
      /\ \A x \in Task \ {t} : job'[x] = job[x] /\ in_progress'[x] = in_progress[x]
  BY DEF reschedule, Inv, TypeOK
<1>2. Started(t)' /\ Follows(t, job'[t])
  BY <1>1, SpawnedFollows DEF Started, scheduled
<1> QED  BY <1>1, <1>2, ArgsAlone DEF Woken, Awake, known

LEMMA ArgsComplete ==
    ASSUME Inv, CodeIsTyped, EdgesInv, ~stopped, NEW args \in [Task -> SUBSET Task], ArgsInv(args),
           NEW t \in Task, complete(t)
    PROVE  ArgsInv(args)'
<1>1. Awake(job[t]) /\ UNCHANGED <<output, dependency, state>>
  BY DEF complete, Awake, edges
<1>2. CASE in_progress[t].stale
  BY <1>1, <1>2, ArgsReschedule DEF complete
<1>3. CASE ~in_progress[t].stale
  <2> DEFINE removed == result(t, job[t].values) = Err
             old == outdated[t] \cup
                    IF removed THEN {<<"removed", r>> : r \in dependents(t, "cell")} ELSE {}
             j == [[job[t] EXCEPT !.pc = IF old = {} THEN "finish" ELSE "cleanup"] EXCEPT !.old_edges = old]
             jobs == [job EXCEPT ![t] = j]
  <2>1. job' = notify_done(jobs, t) /\ in_progress' = [in_progress EXCEPT ![t].marked_as_completed = TRUE]
    <3>1. [job EXCEPT ![t].pc = IF old = {} THEN "finish" ELSE "cleanup", ![t].old_edges = old] = jobs
      BY DEF Inv, TypeOK, Job
    <3> QED  BY <1>3, <3>1 DEF complete
  <2>2. \A x \in Task : <<"removed", x>> \in old => x \in dependents(t, "cell")
    <3>1. \A x \in Task : <<"removed", x>> \notin outdated[t]
      <4>1. outdated[t] \subseteq Kind \X Task /\ "removed" \notin Kind
        BY DEF Inv, TypeOK, Kind
      <4> QED  BY <4>1
    <3> QED  BY <3>1
  <2>3. old \in SUBSET ((Kind \cup {"removed"}) \X Task)
    <3>1. outdated[t] \in SUBSET (Kind \X Task) /\ dependents(t, "cell") \in SUBSET Task
      BY DEF Inv, TypeOK, dependents
    <3>2. {<<"removed", r>> : r \in dependents(t, "cell")} \in SUBSET ({"removed"} \X Task)
      BY <3>1
    <3> QED  BY <3>1, <3>2
  <2> HIDE DEF old
  <2>4. /\ j \in Job /\ j.values = job[t].values /\ j.old_edges = old /\ j.dependents = job[t].dependents
    <3>1. job[t] \in Job
      BY DEF Inv, TypeOK
    <3> QED  BY <2>3, <3>1 DEF Job, Pc
  <2> HIDE DEF j
  <2>5. jobs \in [Task -> Job] /\ jobs[t] = j /\ \A x \in Task \ {t} : jobs[x] = job[x]
    BY <2>4 DEF Inv, TypeOK
  <2> HIDE DEF jobs
  <2>6. \A x \in Task : Woken(jobs[x], job'[x])
    BY <2>1, <2>5, Wakes
  <2>7. /\ job'[t].values = job[t].values /\ job'[t].old_edges = old
        /\ job'[t].dependents = job[t].dependents
    BY <2>4, <2>5, <2>6 DEF Woken
  <2>8. /\ in_progress'[t].state = in_progress[t].state
        /\ \A x \in Task \ {t} : in_progress'[x] = in_progress[x]
    BY <2>1 DEF Inv, TypeOK, InProgress
  <2>9. Follows(t, job'[t])
    BY <2>2, <2>7 DEF Follows
  <2>10. Started(t)'
    BY <1>1, <2>8, Runs DEF Started
  <2> QED  BY <1>1, <2>5, <2>6, <2>8, <2>9, <2>10, ArgsAlone DEF Awake, known
<1> QED  BY <1>2, <1>3

LEMMA ArgsFinish ==
    ASSUME Inv, CodeIsTyped, EdgesInv, OutputInv, ~stopped, NEW args \in [Task -> SUBSET Task], ArgsInv(args),
           NEW t \in Task, finish(t)
    PROVE  ArgsInv(args)'
<1>1. job[t].pc = "finish" /\ Awake(job[t]) /\ UNCHANGED <<output, dependency, state>>
  BY DEF finish, Awake, edges
<1>2. CASE in_progress[t].stale
  BY <1>1, <1>2, ArgsReschedule DEF finish
<1>3. CASE ~in_progress[t].stale
  <2> DEFINE jobs == [job EXCEPT ![t] = idle]
  <2>1. idle \in Job /\ idle.values = <<>> /\ idle.dependents = {} /\ idle.old_edges = {}
    BY DEF idle, at, Job, Pc
  <2>2. jobs \in [Task -> Job] /\ jobs[t] = idle /\ \A x \in Task \ {t} : jobs[x] = job[x]
    BY <2>1 DEF Inv, TypeOK
  <2>3. job' = notify_cell(jobs, t) /\ in_progress' = [in_progress EXCEPT ![t] = none]
    BY <1>3 DEF finish
  <2> HIDE DEF jobs
  <2>4. \A x \in Task : Woken(jobs[x], job'[x])
    BY <2>2, <2>3, Wakes
  <2>5. job'[t].values = <<>> /\ job'[t].dependents = {} /\ job'[t].old_edges = {}
    BY <2>1, <2>2, <2>4 DEF Woken
  <2>6. Follows(t, job'[t])
    BY <2>5, FreshFollows
  <2>7. Started(t)'
    BY <1>1 DEF Started, OutputInv, EndedHasOutput, Ended, Ending
  <2>8. \A x \in Task \ {t} : in_progress'[x] = in_progress[x]
    BY <2>3 DEF Inv, TypeOK
  <2> QED  BY <1>1, <2>2, <2>4, <2>6, <2>7, <2>8, ArgsAlone DEF Awake, known
<1> QED  BY <1>2, <1>3

LEMMA ArgsEnvironment ==
    ASSUME Inv, CodeIsTyped, EdgesInv, ~stopped, ~stopped', CurrentInv, NEW args \in [Task -> SUBSET Task],
           ArgsInv(args), environment \/ \E r \in Task : invalidate(r)
    PROVE  ArgsInv(args)'
<1>0. Goes(job)
  BY DEF Goes, Inv, TypeOK
<1>1. ASSUME NEW x \in Task PROVE Follows(x, job[x])
  BY DEF Follows
<1>2. CASE UNCHANGED <<in_progress, output, dependency, job>> /\ \A x \in Task : known(x)' => known(x)
  BY <1>1, <1>2, ArgsStep DEF Started
<1>3. ASSUME NEW v \in Value, set(v) PROVE ArgsInv(args)'
  BY <1>2, <1>3 DEF set, known, edges
<1>4. (\E u \in Task : final_read(u)) \/ restart => ArgsInv(args)'
  BY <1>2 DEF final_read, restart, edges, known
<1>5. ASSUME NEW u \in Task, try_read_task_cell_untracked(u) PROVE ArgsInv(args)'
  <2>1. add_scheduled(u, job) /\ UNCHANGED <<output, dependency, state>>
    BY <1>5 DEF try_read_task_cell_untracked, edges
  <2>2. in_progress[u].state = "none" => \A w \in args[u] : output[w] # "none"
    BY <1>5 DEF try_read_task_cell_untracked, CurrentInv, Sound, Kept, ArgsInv, Started
  <2> QED  BY <1>0, <1>1, <2>1, <2>2, ArgsScheduled DEF known
<1>6. ASSUME NEW r \in Task, invalidate(r) PROVE ArgsInv(args)'
  <2>1. /\ make_task_dirty(r, job) /\ Tied(r)
        /\ UNCHANGED <<output, dependency>> /\ \A x \in Task : known(x)' => known(x)
    BY <1>6 DEF invalidate, edges, known, Tied, Inv, TypeOK
  <2> QED  BY <1>0, <1>1, <2>1, ArgsDirtied
<1> QED
  BY <1>3, <1>4, <1>5, <1>6 DEF environment, stop_and_wait

LEMMA InitArgs == ASSUME NEW args, PassesResolved(args) PROVE Init => ArgsInv(args)
<1> SUFFICES ASSUME Init, NEW t \in Task
             PROVE  /\ Tied(t) => Started(t)
                    /\ Started(t) => \A u \in args[t] : output[u] # "none"
                    /\ \A u \in resolved(args, t, job[t].values) \ args[t] : output[u] # "none"
  BY DEF ArgsInv
<1>1. /\ spawned.values = <<>> /\ spawned.dependents = {} /\ spawned.old_edges = {}
      /\ idle.values = <<>> /\ idle.dependents = {} /\ idle.old_edges = {} /\ none.state = "none"
  BY DEF spawned, idle, at, none
<1>2. \A x \in Task : job[x].values = <<>> /\ job[x].dependents = {} /\ job[x].old_edges = {}
  BY <1>1 DEF Init
<1>3. ~Tied(t)
  BY <1>2 DEF Init, Tied, known, told
<1>4. Started(t) => t = Root
  BY <1>1 DEF Init, Started
<1> QED  BY <1>2, <1>3, <1>4 DEF PassesResolved, resolved

LEMMA StepArgs ==
    ASSUME CodeIsTyped, Inv, EdgesInv, OutputInv, CurrentInv, NEW args \in [Task -> SUBSET Task],
           PassesResolved(args), ArgsInv(args), [Next]_vars
    PROVE  ArgsInv(args)'
<1>1. CASE UNCHANGED vars
  <2>1. CASE stopped
    BY <1>1, <2>1 DEF vars, ArgsInv
  <2>2. CASE ~stopped
    <3>1. UNCHANGED <<in_progress, output, dependency, job, state>>
      BY <1>1 DEF vars, edges
    <3>2. \A x \in Task : Follows(x, job[x])
      BY DEF Follows
    <3> QED  BY <2>2, <3>1, <3>2, ArgsStep DEF Started, known
  <2> QED  BY <2>1, <2>2
<1>2. CASE stopped'
  BY <1>2 DEF ArgsInv
<1>3. CASE Next /\ ~stopped'
  <2>1. CASE environment \/ \E r \in Task : invalidate(r)
    <3>1. ~stopped
      BY <1>3, <2>1 DEF environment, set, try_read_task_cell_untracked, final_read, stop_and_wait, restart,
         invalidate
    <3> QED  BY <1>3, <2>1, <3>1, ArgsEnvironment
  <2>2. ASSUME NEW t \in Task, execute(t)
        PROVE  ArgsInv(args)'
    <3>1. CASE start(t)
      BY <1>3, <3>1, ArgsStart DEF start, task_execution_canceled, try_start_task_execution
    <3>2. CASE get(t)
      BY <1>3, <3>2, ArgsGet DEF get
    <3>3. ASSUME NEW v \in Value, update_cell(t, v) PROVE ArgsInv(args)'
      BY <1>3, <3>3, ArgsWrite DEF update_cell
    <3>4. CASE update_output(t)
      BY <1>3, <3>4, ArgsPublish DEF update_output
    <3>5. CASE complete(t)
      BY <1>3, <3>5, ArgsComplete DEF complete
    <3>6. CASE finish(t)
      BY <1>3, <3>6, ArgsFinish DEF finish
    <3>7. ASSUME NEW u \in Task, read(t, u) PROVE ArgsInv(args)'
      <4>1. ~stopped
        BY <1>3, <3>7 DEF read, connect_child, listen_to_done_event, read_canceled_output, try_read_task_output,
           try_read_task_cell, read_removed_cell, listen_to_cell, read_canceled_cell
      <4>2. ~read_canceled_output(t, u) /\ ~read_canceled_cell(t, u)
        BY <4>1, NotCanceled DEF read_canceled_output, read_canceled_cell
      <4> QED  BY <1>3, <3>7, <4>1, <4>2, ArgsCall, ArgsRead DEF read
    <3>8. ASSUME NEW r \in Task, make_dependent_dirty(t, r) PROVE ArgsInv(args)'
      BY <1>3, <3>8, ArgsTold DEF make_dependent_dirty
    <3>9. ASSUME NEW u \in Task, clean_up(t, u) PROVE ArgsInv(args)'
      <4>1. ~stopped
        BY <1>3, <3>9 DEF clean_up, remove_dependency, removed_cell_dependent
      <4> QED  BY <1>3, <3>9, <4>1, ArgsRemove, ArgsTold DEF clean_up
    <3> QED  BY <2>2, <3>1, <3>2, <3>3, <3>4, <3>5, <3>6, <3>7, <3>8, <3>9 DEF execute
  <2> QED  BY <1>3, <2>1, <2>2 DEF Next, work
<1> QED  BY <1>1, <1>2, <1>3

(* The cell that a job reads is the cell of a task that has an output.     *)
LEMMA ArgsResolved ==
    ASSUME Inv, NEW args, PassesResolved(args), ArgsInv(args)
    PROVE  ResolvedFirst
<1> SUFFICES ASSUME ~stopped, NEW t \in Task, job[t].pc = "read", access(t).how = "read"
             PROVE  output[access(t).task] # "none"
  BY DEF ResolvedFirst
<1>1. Started(t)
  BY Runs DEF Started, Awake
<1>2. access(t).task \in resolved(args, t, job[t].values)
  BY DEF PassesResolved, access, Inv, TypeOK, Job
<1> QED  BY <1>1, <1>2 DEF ArgsInv

(* No change is lost but those that UpdateCellOperation tells nobody:      *)
(* until the system is stopped, what a settled task has read is still the  *)
(* value there is, or the task is about to be told, or the task it was     *)
(* read from is at work, or its cell has contained the value and has       *)
(* changed since, written by a task that was not dirty, after its content  *)
(* was dropped.  The output and the cell of a settled task are what its    *)
(* code makes of what it has read.  A cell stays changed in that way only  *)
(* if its task compares it before it writes it, so that the dirty task     *)
(* that finds the new value there tells nobody either, or if the task has  *)
(* read another such cell.  It holds for every interleaving of reads,      *)
(* writes, invalidations, dropped cells and restarts, and whichever cells  *)
(* can be dropped or are compared.                                         *)
THEOREM ReadsAlwaysCurrent ==
    ASSUME CodeIsTyped, VcsAreResolved
    PROVE  Spec => []ReadsAreCurrent
<1>1. PICK args \in [Task -> SUBSET Task] : PassesResolved(args)
  BY DEF VcsAreResolved
<1> DEFINE All == EdgesInv /\ OutputInv /\ CurrentInv /\ ArgsInv(args)
<1>2. Init => All
  BY <1>1, InitEdges, InitOutput, InitCurrent, InitArgs
<1>3. Inv /\ Inv' /\ All /\ [Next]_vars => All'
  <2> SUFFICES ASSUME Inv, Inv', All, [Next]_vars PROVE All'
    OBVIOUS
  <2>1. ResolvedFirst
    BY <1>1, ArgsResolved
  <2>2. EdgesInv'
    BY StepEdges
  <2>3. OutputInv'
    BY StepOutput
  <2>4. CurrentInv'
    BY <2>1, StepCurrent
  <2>5. ArgsInv(args)'
    BY <1>1, StepArgs
  <2> QED  BY <2>2, <2>3, <2>4, <2>5
<1>4. Inv /\ All => ReadsAreCurrent
  BY CurrentReads
<1> HIDE DEF All
<1> QED  BY <1>2, <1>3, <1>4, InvAlways, PTL DEF Spec
=============================================================================
