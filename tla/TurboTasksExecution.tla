------------------------- MODULE TurboTasksExecution -------------------------
(***************************************************************************)
(* How turbo-tasks executes a task, what a task remembers of what it read, *)
(* and how a change finds its way to the tasks that have to execute again: *)
(* the job that TurboTasks::schedule spawns (turbo-tasks/src/manager.rs),  *)
(* try_start_task_execution, the reads, task_execution_result and          *)
(* task_execution_completed (turbo-tasks-backend/src/backend/mod.rs), the  *)
(* operations invalidate, update_cell, update_output, connect_child and    *)
(* cleanup_old_edges, and State (turbo-tasks/src/state.rs).                *)
(*                                                                         *)
(* The backend tracks dependencies, but neither children nor activeness    *)
(* (BackendOptions), so nothing is aggregated and a dirty task is always   *)
(* scheduled.  Every action is what happens under the lock of one task;    *)
(* the sets of dependencies of a task are changed by its own job only, so  *)
(* the second lock of a read or of a removed edge is part of the same      *)
(* action.  A task has one cell and returns it, or fails.                  *)
(***************************************************************************)
EXTENDS Naturals, Sequences

CONSTANTS
    Task,
    Root,            \* the task that is called from outside
    Value,           \* what a State or a cell contains
    Err, Ok,         \* a read failed; a Vc was resolved
    Missing,         \* no CellData
    NextRead(_, _),  \* the code of a task: what it reads after the given values
    Compute(_, _),   \* the code of a task: its value, or Err
    Compared,        \* tasks whose cell is written by compare_and_update, not by update
    Unserialized,    \* tasks whose cell is not in a snapshot (serialization = "none")
    Hinted,          \* tasks whose cell is read with final_read_hint
    MaxChanges,      \* bound: how often the State is set
    MaxDrops         \* bound: how often the content of cells is dropped

(* await reads the output of a task and its cell, resolve only its output, *)
(* read its cell (a ResolvedVc); get reads the State.                      *)
Access == [how : {"await", "resolve", "read", "get", "return"}, task : Task]

ASSUME RootAssumption == Root \in Task
ASSUME ValueAssumption == Missing \notin Value \cup {Err, Ok} /\ Err \notin Value \cup {Ok}
ASSUME BoundAssumption == MaxChanges \in Nat /\ MaxDrops \in Nat
ASSUME CodeAssumption ==
    \A t \in Task, values \in UNION {[1..n -> Value \cup {Err, Ok}] : n \in 0..3} :
        /\ NextRead(t, values) \in Access
        /\ Compute(t, values) \in Value \cup {Err}

VARIABLES
    in_progress,       \* InProgress of each task: its state, stale, marked_as_completed
    dirty,             \* tasks with Dirty
    output,            \* Output of each task
    cell,              \* CellData of each task
    celled,            \* tasks with a CellTypeMaxIndex
    in_progress_cell,  \* tasks with an InProgressCell
    dependent,         \* OutputDependent and CellDependent of each task
    dependency,        \* OutputDependency and CellDependency of each task
    outdated,          \* OutdatedOutputDependency and OutdatedCellDependency
    job,               \* where the spawned job of each task is
    state,             \* the State: its value, its invalidators, those being invalidated
    stopped,           \* TurboTasks::stopped
    seen,              \* history: the values the last completed execution read
    contents,          \* history: what each cell has contained since its dependents were last told
    changes, drops     \* counters for the bounds

edges  == <<dependent, dependency, outdated>>
cells  == <<cell, celled, in_progress_cell, contents>>
bounds == <<changes, drops>>
vars   == <<in_progress, dirty, output, cells, edges, job, state, stopped, seen, bounds>>

none      == [state |-> "none", stale |-> FALSE, marked_as_completed |-> FALSE]
scheduled == [state |-> "scheduled", stale |-> FALSE, marked_as_completed |-> FALSE]
running   == [state |-> "running", stale |-> FALSE, marked_as_completed |-> FALSE]
canceled  == [state |-> "canceled", stale |-> FALSE, marked_as_completed |-> FALSE]

(* A job with the values read so far, the dependents it has to invalidate  *)
(* and the edges it has to remove.                                         *)
at(pc, values) == [pc |-> pc, values |-> values, dependents |-> {}, old_edges |-> {}]
idle    == at("idle", <<>>)
spawned == at("start", <<>>)

access(t) == NextRead(t, job[t].values)

(* An error ends the function (the ? operator).                            *)
failed(values) == values # <<>> /\ values[Len(values)] = Err
result(t, values) == IF failed(values) THEN Err ELSE Compute(t, values)

(* Where the function goes on with the values it has read.                 *)
resume(t, values) ==
    LET how == NextRead(t, values).how
    IN  at(IF failed(values) THEN "update_output"
           ELSE IF how = "return" THEN IF Compute(t, values) = Err THEN "update_output" ELSE "update_cell"
           ELSE IF how \in {"await", "resolve"} THEN "connect_child"
           ELSE IF how = "read" THEN "read" ELSE "get", values)

(* The job of t goes to pc, or goes on with value v.                       *)
move(t, pc) == [job EXCEPT ![t].pc = pc]
received(t, v) == [job EXCEPT ![t] = resume(t, Append(job[t].values, v))]

(* jobs, where those that listen to the done event, or to the cell, of t   *)
(* try again.                                                              *)
notify(jobs, t, from, to) ==
    [r \in Task |-> IF jobs[r].pc = from /\ NextRead(r, jobs[r].values).task = t
                    THEN [jobs[r] EXCEPT !.pc = to] ELSE jobs[r]]
notify_done(jobs, t) == notify(jobs, t, "await_done", "read_output")
notify_cell(jobs, t) == notify(jobs, t, "await_cell", "read")

Init ==
    /\ in_progress = [t \in Task |-> IF t = Root THEN scheduled ELSE none]
    /\ dirty = {}
    /\ output = [t \in Task |-> "none"]
    /\ cell = [t \in Task |-> Missing]
    /\ celled = {} /\ in_progress_cell = {}
    /\ dependent = [t \in Task |-> {}]
    /\ dependency = [t \in Task |-> {}]
    /\ outdated = [t \in Task |-> {}]
    /\ job = [t \in Task |-> IF t = Root THEN spawned ELSE idle]
    /\ state \in [value : Value, invalidators : {{}}, taken : {{}}]
    /\ stopped = FALSE
    /\ seen = [t \in Task |-> <<>>]
    /\ contents = [t \in Task |-> {}]
    /\ changes = 0 /\ drops = 0

-----------------------------------------------------------------------------
(* Scheduling.  jobs is the job function after the actor's own move.       *)

(* Mutant: a new InProgress takes the place of one that is there, whose    *)
(* job goes on.                                                            *)
add_scheduled_anyway(t, jobs) ==
    /\ in_progress' = [in_progress EXCEPT ![t] = scheduled]
    /\ job' = IF in_progress[t].state = "none" THEN [jobs EXCEPT ![t] = spawned] ELSE jobs

(* add(new_scheduled), which fails when there is an InProgress, and        *)
(* schedule.                                                               *)
add_scheduled(t, jobs) ==
    IF in_progress[t].state = "none"
    THEN /\ in_progress' = [in_progress EXCEPT ![t] = scheduled]
         /\ job' = [jobs EXCEPT ![t] = spawned]
    ELSE job' = jobs /\ UNCHANGED in_progress

(* make_task_dirty: a running task becomes stale; a task that is dirty     *)
(* already is not scheduled again.                                         *)
make_task_dirty(t, jobs) ==
    /\ dirty' = dirty \cup {t}
    /\ IF in_progress[t].state = "running"
       THEN in_progress' = [in_progress EXCEPT ![t].stale = TRUE] /\ job' = jobs
       ELSE IF t \in dirty THEN job' = jobs /\ UNCHANGED in_progress
       ELSE add_scheduled(t, jobs)

-----------------------------------------------------------------------------
(* The start of a job                                                      *)

(* The job finds the system stopped.                                       *)
task_execution_canceled(t) ==
    /\ job[t].pc = "start" /\ stopped
    /\ in_progress' = [in_progress EXCEPT ![t] = canceled]
    /\ job' = notify_done([job EXCEPT ![t] = idle], t)
    /\ UNCHANGED <<dirty, output, cells, edges, state, stopped, seen, bounds>>

(* Mutant: the dependencies of the last execution are kept.                *)
try_start_keeping_dependencies(t) ==
    /\ job[t].pc = "start" /\ ~stopped
    /\ in_progress[t].state = "scheduled"
    /\ in_progress' = [in_progress EXCEPT ![t] = running]
    /\ job' = [job EXCEPT ![t] = resume(t, <<>>)]
    /\ UNCHANGED <<dirty, output, cells, edges, state, stopped, seen, bounds>>

(* The task is in progress, and all its dependencies are outdated until    *)
(* they are read again.                                                    *)
try_start_task_execution(t) ==
    /\ job[t].pc = "start" /\ ~stopped
    /\ in_progress[t].state = "scheduled"
    /\ in_progress' = [in_progress EXCEPT ![t] = running]
    /\ outdated' = [outdated EXCEPT ![t] = dependency[t]]
    /\ job' = [job EXCEPT ![t] = resume(t, <<>>)]
    /\ UNCHANGED <<dirty, output, cells, dependent, dependency, state, stopped, seen, bounds>>

-----------------------------------------------------------------------------
(* Calls and reads: t reads from u                                         *)

(* Mutant: a call does not schedule anything.                              *)
connect_child_only(t, u) ==
    /\ job[t].pc = "connect_child" /\ access(t).task = u
    /\ job' = move(t, "read_output")
    /\ UNCHANGED <<in_progress, dirty, output, cells, edges, state, stopped, seen, bounds>>

(* The call of a function whose task has no output schedules it.           *)
connect_child(t, u) ==
    /\ job[t].pc = "connect_child" /\ access(t).task = u
    /\ IF output[u] = "none"
       THEN add_scheduled(u, move(t, "read_output"))
       ELSE job' = move(t, "read_output") /\ UNCHANGED in_progress
    /\ UNCHANGED <<dirty, output, cells, edges, state, stopped, seen, bounds>>

(* The edge of kind from t to u, which is not outdated any more.           *)
add_dependency(t, u, kind) ==
    /\ dependent' = [dependent EXCEPT ![u] = @ \cup {<<kind, t>>}]
    /\ dependency' = [dependency EXCEPT ![t] =
                        IF <<kind, u>> \in outdated[t] THEN @ ELSE @ \cup {<<kind, u>>}]
    /\ outdated' = [outdated EXCEPT ![t] = @ \ {<<kind, u>>}]

reading_output(t, u) == job[t].pc = "read_output" /\ access(t).task = u
unfinished(u) ==
    \/ in_progress[u].state = "scheduled"
    \/ in_progress[u].state = "running" /\ ~in_progress[u].marked_as_completed

(* try_read_task_output listens to the done event of a task in progress.   *)
listen_to_done_event(t, u) ==
    /\ reading_output(t, u)
    /\ unfinished(u)
    /\ job' = move(t, "await_done")
    /\ UNCHANGED <<in_progress, dirty, output, cells, edges, state, stopped, seen, bounds>>

(* It fails, without a dependency, when the task was canceled.             *)
read_canceled_output(t, u) ==
    /\ reading_output(t, u)
    /\ in_progress[u].state = "canceled"
    /\ job' = received(t, Err)
    /\ UNCHANGED <<in_progress, dirty, output, cells, edges, state, stopped, seen, bounds>>

(* It returns the output, however old, of a task that is not in progress   *)
(* or marked as completed.                                                 *)
try_read_task_output(t, u) ==
    /\ reading_output(t, u)
    /\ ~unfinished(u) /\ in_progress[u].state # "canceled"
    /\ output[u] # "none"
    /\ add_dependency(t, u, "output")
    /\ job' = IF output[u] = "error" THEN received(t, Err)
              ELSE IF access(t).how = "resolve" THEN received(t, Ok)
              ELSE move(t, "read")
    /\ UNCHANGED <<in_progress, dirty, output, cells, state, stopped, seen, bounds>>

reading_cell(t, u) == job[t].pc = "read" /\ access(t).task = u

(* try_read_task_cell returns what is there, also while u is in progress.  *)
try_read_task_cell(t, u) ==
    /\ reading_cell(t, u)
    /\ cell[u] # Missing
    /\ add_dependency(t, u, "cell")
    /\ job' = received(t, cell[u])
    /\ UNCHANGED <<in_progress, dirty, output, cells, state, stopped, seen, bounds>>

(* The cell does not exist (any more).                                     *)
read_removed_cell(t, u) ==
    /\ reading_cell(t, u)
    /\ cell[u] = Missing /\ u \notin celled
    /\ in_progress[u].state \notin {"scheduled", "running"}
    /\ add_dependency(t, u, "cell")
    /\ job' = received(t, Err)
    /\ UNCHANGED <<in_progress, dirty, output, cells, state, stopped, seen, bounds>>

(* The cell is about to be written: it is being computed, or somebody      *)
(* waits for it already, or the task is scheduled to compute it again.     *)
listen_to_cell(t, u) ==
    /\ reading_cell(t, u)
    /\ cell[u] = Missing
    /\ u \in celled \/ in_progress[u].state \in {"scheduled", "running"}
    /\ u \in in_progress_cell \/ in_progress[u].state # "canceled"
    /\ in_progress_cell' = in_progress_cell \cup {u}
    /\ IF u \in in_progress_cell
       THEN job' = move(t, "await_cell") /\ UNCHANGED in_progress
       ELSE add_scheduled(u, move(t, "await_cell"))
    /\ UNCHANGED <<dirty, output, cell, celled, contents, edges, state, stopped, seen, bounds>>

(* A canceled task does not write its cell.  Who asks first gets an error  *)
(* and leaves an InProgressCell.                                           *)
read_canceled_cell(t, u) ==
    /\ reading_cell(t, u)
    /\ cell[u] = Missing /\ u \in celled
    /\ in_progress[u].state = "canceled" /\ u \notin in_progress_cell
    /\ in_progress_cell' = in_progress_cell \cup {u}
    /\ job' = received(t, Err)
    /\ UNCHANGED <<in_progress, dirty, output, cell, celled, contents, edges, state, stopped, seen, bounds>>

(* State::get waits for the mutex, which State::set holds while it         *)
(* invalidates.                                                            *)
get(t) ==
    /\ job[t].pc = "get"
    /\ state.taken = {}
    /\ state' = [state EXCEPT !.invalidators = @ \cup {t}]
    /\ job' = received(t, state.value)
    /\ UNCHANGED <<in_progress, dirty, output, cells, edges, stopped, seen, bounds>>

-----------------------------------------------------------------------------
(* What an execution writes                                                *)

dependents(t, kind) == {r \in Task : <<kind, r>> \in dependent[t]}
tell(t, pc, tasks, next) ==
    [job EXCEPT ![t].pc = IF tasks = {} THEN next ELSE pc, ![t].dependents = tasks]

(* CurrentCellRef::update or compare_and_update with UpdateCellOperation.  *)
(* Dependents are told only when the task is dirty: otherwise the value is *)
(* taken to be the one that was missing.                                   *)
update_cell(t, v) ==
    /\ job[t].pc = "update_cell" /\ v = Compute(t, job[t].values)
    /\ IF t \in Compared /\ cell[t] = v
       THEN job' = move(t, "update_output") /\ UNCHANGED cells
       ELSE /\ cell' = [cell EXCEPT ![t] = v]
            /\ in_progress_cell' = in_progress_cell \ {t}
            /\ UNCHANGED celled
            /\ contents' = [contents EXCEPT ![t] = IF t \in dirty THEN {v} ELSE @ \cup {v}]
            /\ job' = notify_cell(tell(t, "tell_cell_changed",
                                       IF t \in dirty THEN dependents(t, "cell") ELSE {},
                                       "update_output"), t)
    /\ UNCHANGED <<in_progress, dirty, output, edges, state, stopped, seen, bounds>>

(* UpdateOutputOperation: a stale execution publishes nothing.  A new      *)
(* output makes the task itself dirty and its dependents are told.         *)
update_output(t) ==
    LET new == IF result(t, job[t].values) = Err THEN "error" ELSE "cell"
    IN  /\ job[t].pc = "update_output"
        /\ IF in_progress[t].stale \/ (new = "cell" /\ output[t] = "cell")
           THEN job' = move(t, "complete") /\ UNCHANGED <<output, dirty>>
           ELSE /\ output' = [output EXCEPT ![t] = new]
                /\ dirty' = dirty \cup {t}
                /\ job' = tell(t, "tell_output_changed", dependents(t, "output"), "complete")
        /\ UNCHANGED <<in_progress, cells, edges, state, stopped, seen, bounds>>

(* InvalidateOperation, or MakeDependentTasksDirty: one dependent r.       *)
make_dependent_dirty(t, r) ==
    /\ job[t].pc \in {"tell_cell_changed", "tell_output_changed"}
    /\ r \in job[t].dependents
    /\ make_task_dirty(r, tell(t, job[t].pc, job[t].dependents \ {r},
                               IF job[t].pc = "tell_cell_changed" THEN "update_output" ELSE "complete"))
    /\ UNCHANGED <<output, cells, edges, state, stopped, seen, bounds>>

-----------------------------------------------------------------------------
(* task_execution_completed                                                *)

(* A stale task is scheduled again, and its job starts over.               *)
reschedule(t) ==
    /\ in_progress' = [in_progress EXCEPT ![t] = scheduled]
    /\ job' = [job EXCEPT ![t] = spawned]

(* Step 1: readers of the output may go on.  Without a cell its data is    *)
(* removed and its dependents are told.  What is still outdated goes.      *)
complete(t) ==
    LET removed == result(t, job[t].values) = Err
        old == outdated[t] \cup
               IF removed THEN {<<"removed", r>> : r \in dependents(t, "cell")} ELSE {}
    IN  /\ job[t].pc = "complete"
        /\ IF in_progress[t].stale
           THEN reschedule(t) /\ UNCHANGED <<cell, celled, contents>>
           ELSE /\ in_progress' = [in_progress EXCEPT ![t].marked_as_completed = TRUE]
                /\ celled' = IF removed THEN celled \ {t} ELSE celled \cup {t}
                /\ cell' = IF removed THEN [cell EXCEPT ![t] = Missing] ELSE cell
                /\ contents' = IF removed THEN [contents EXCEPT ![t] = {}] ELSE contents
                /\ job' = notify_done([job EXCEPT ![t].pc = IF old = {} THEN "finish" ELSE "cleanup",
                                                  ![t].old_edges = old], t)
        /\ UNCHANGED <<dirty, output, in_progress_cell, edges, state, stopped, seen, bounds>>

(* CleanupOldEdgesOperation takes the edge that was pushed last.           *)
pushed(edge) == IF edge[1] = "removed" THEN 3 ELSE IF edge[1] = "output" THEN 2 ELSE 1
remaining(t, edge) ==
    LET left == job[t].old_edges \ {edge}
    IN  [job EXCEPT ![t].pc = IF left = {} THEN "finish" ELSE "cleanup", ![t].old_edges = left]
pops(t, edge) ==
    /\ job[t].pc = "cleanup"
    /\ edge \in job[t].old_edges
    /\ \A other \in job[t].old_edges : pushed(other) <= pushed(edge)

remove_dependency(t, u, kind) ==
    /\ pops(t, <<kind, u>>)
    /\ dependent' = [dependent EXCEPT ![u] = @ \ {<<kind, t>>}]
    /\ dependency' = [dependency EXCEPT ![t] = @ \ {<<kind, u>>}]
    /\ job' = remaining(t, <<kind, u>>)
    /\ UNCHANGED <<in_progress, dirty, output, cells, outdated, state, stopped, seen, bounds>>

removed_cell_dependent(t, r) ==
    /\ pops(t, <<"removed", r>>)
    /\ make_task_dirty(r, remaining(t, <<"removed", r>>))
    /\ UNCHANGED <<output, cells, edges, state, stopped, seen, bounds>>

(* Mutant: stale is not looked at again.                                   *)
finish_stale(t) ==
    /\ job[t].pc = "finish"
    /\ in_progress' = [in_progress EXCEPT ![t] = none]
    /\ in_progress_cell' = in_progress_cell \ {t}
    /\ dirty' = dirty \ {t}
    /\ seen' = [seen EXCEPT ![t] = job[t].values]
    /\ job' = notify_cell([job EXCEPT ![t] = idle], t)
    /\ UNCHANGED <<output, cell, celled, contents, edges, state, stopped, bounds>>

(* Mutant: the task stays dirty.                                           *)
finish_dirty(t) ==
    /\ job[t].pc = "finish"
    /\ IF in_progress[t].stale
       THEN reschedule(t) /\ UNCHANGED <<in_progress_cell, seen>>
       ELSE /\ in_progress' = [in_progress EXCEPT ![t] = none]
            /\ in_progress_cell' = in_progress_cell \ {t}
            /\ seen' = [seen EXCEPT ![t] = job[t].values]
            /\ job' = notify_cell([job EXCEPT ![t] = idle], t)
    /\ UNCHANGED <<dirty, output, cell, celled, contents, edges, state, stopped, bounds>>

(* Mutant: nobody is woken, the cell having been written or not.           *)
finish_silently(t) ==
    /\ job[t].pc = "finish"
    /\ IF in_progress[t].stale
       THEN reschedule(t) /\ UNCHANGED <<in_progress_cell, dirty, seen>>
       ELSE /\ in_progress' = [in_progress EXCEPT ![t] = none]
            /\ in_progress_cell' = in_progress_cell \ {t}
            /\ dirty' = dirty \ {t}
            /\ seen' = [seen EXCEPT ![t] = job[t].values]
            /\ job' = [job EXCEPT ![t] = idle]
    /\ UNCHANGED <<output, cell, celled, contents, edges, state, stopped, bounds>>

(* Steps 2 and 3: nothing more to do, unless the task is stale.  Who waits *)
(* for its cell is woken, whether or not it was written.                   *)
finish(t) ==
    /\ job[t].pc = "finish"
    /\ IF in_progress[t].stale
       THEN reschedule(t) /\ UNCHANGED <<in_progress_cell, dirty, seen>>
       ELSE /\ in_progress' = [in_progress EXCEPT ![t] = none]
            /\ in_progress_cell' = in_progress_cell \ {t}
            /\ dirty' = dirty \ {t}
            /\ seen' = [seen EXCEPT ![t] = job[t].values]
            /\ job' = notify_cell([job EXCEPT ![t] = idle], t)
    /\ UNCHANGED <<output, cell, celled, contents, edges, state, stopped, bounds>>
-----------------------------------------------------------------------------
(* What happens outside of the tasks                                       *)

(* The content of the cells of tasks is dropped.                           *)
drop(tasks) ==
    /\ drops < MaxDrops /\ drops' = drops + 1 /\ UNCHANGED changes
    /\ cell' = [t \in Task |-> IF t \in tasks THEN Missing ELSE cell[t]]
    /\ contents' = [t \in Task |-> IF t \in tasks /\ cell[t] # Missing THEN contents[t] \cup {Missing}
                                   ELSE contents[t]]

(* State::set takes the invalidators and keeps the mutex ...               *)
set(v) ==
    /\ changes < MaxChanges /\ changes' = changes + 1
    /\ state.taken = {} /\ v # state.value
    /\ state' = [value |-> v, invalidators |-> {}, taken |-> state.invalidators]
    /\ UNCHANGED <<in_progress, dirty, output, cells, edges, job, stopped, seen, drops>>

(* ... until it has invalidated them all.                                  *)
invalidate(r) ==
    /\ r \in state.taken
    /\ state' = [state EXCEPT !.taken = @ \ {r}]
    /\ make_task_dirty(r, job)
    /\ UNCHANGED <<output, cells, edges, stopped, seen, bounds>>

(* An untracked read of the cell of u, which computes it when it is        *)
(* missing.                                                                *)
try_read_task_cell_untracked(u) ==
    /\ cell[u] = Missing
    /\ u \in celled \/ in_progress[u].state \in {"scheduled", "running"}
    /\ u \notin in_progress_cell
    /\ in_progress_cell' = in_progress_cell \cup {u}
    /\ add_scheduled(u, job)
    /\ UNCHANGED <<dirty, output, cell, celled, contents, edges, state, stopped, seen, bounds>>

(* A read that says that it is the last one removes the content.           *)
final_read(u) ==
    /\ u \in Hinted /\ cell[u] # Missing
    /\ drop({u})
    /\ UNCHANGED <<in_progress, dirty, output, celled, in_progress_cell, edges, job, state,
                   stopped, seen>>

(* stop_and_wait, up to the wait.                                          *)
stop_and_wait ==
    /\ ~stopped
    /\ stopped' = TRUE
    /\ UNCHANGED <<in_progress, dirty, output, cells, edges, job, state, seen, bounds>>

quiet == state.taken = {} /\ \A t \in Task : job[t].pc = "idle"

(* The process ends with everything saved and is started again.  What is   *)
(* not serialized is gone.                                                 *)
restart ==
    /\ quiet /\ ~stopped
    /\ drop(Unserialized)
    /\ outdated' = [t \in Task |-> {}]
    /\ UNCHANGED <<in_progress, dirty, output, celled, in_progress_cell, dependent, dependency, job,
                   state, stopped, seen>>

-----------------------------------------------------------------------------

start(t) == task_execution_canceled(t) \/ try_start_task_execution(t)

read(t, u) ==
    \/ connect_child(t, u)
    \/ listen_to_done_event(t, u) \/ read_canceled_output(t, u) \/ try_read_task_output(t, u)
    \/ try_read_task_cell(t, u) \/ read_removed_cell(t, u)
    \/ listen_to_cell(t, u) \/ read_canceled_cell(t, u)

clean_up(t, u) ==
    \/ \E kind \in {"output", "cell"} : remove_dependency(t, u, kind)
    \/ removed_cell_dependent(t, u)

(* What the spawned job of t does.                                         *)
execute(t) ==
    \/ start(t) \/ get(t)
    \/ \E v \in Value : update_cell(t, v)
    \/ update_output(t) \/ complete(t) \/ finish(t)
    \/ \E u \in Task : read(t, u) \/ make_dependent_dirty(t, u) \/ clean_up(t, u)

environment ==
    \/ \E v \in Value : set(v)
    \/ \E t \in Task : try_read_task_cell_untracked(t) \/ final_read(t)
    \/ stop_and_wait \/ restart

work == \E t \in Task : execute(t) \/ invalidate(t)
Next == work \/ environment

Spec == Init /\ [][Next]_vars

(* The runtime goes on with some job while one can go on, and State::set   *)
(* does not wait for anything while it invalidates.                        *)
LiveSpec == Spec /\ WF_vars(work)

-----------------------------------------------------------------------------
(* Properties                                                              *)

Kind == {"output", "cell"}
Read == Value \cup {Err, Ok}
Pc == {"idle", "start", "connect_child", "read_output", "await_done", "read", "await_cell", "get",
       "update_cell", "tell_cell_changed", "update_output", "tell_output_changed", "complete",
       "cleanup", "finish"}

InProgress == [state : {"none", "scheduled", "running", "canceled"},
               stale : BOOLEAN, marked_as_completed : BOOLEAN]
Job == [pc : Pc, values : Seq(Read), dependents : SUBSET Task,
        old_edges : SUBSET ((Kind \cup {"removed"}) \X Task)]

(* The type of every variable.                                             *)
TypeOK ==
    /\ in_progress \in [Task -> InProgress]
    /\ dirty \subseteq Task
    /\ output \in [Task -> {"none", "error", "cell"}]
    /\ cell \in [Task -> Value \cup {Missing}]
    /\ celled \subseteq Task /\ in_progress_cell \subseteq Task
    /\ dependent \in [Task -> SUBSET (Kind \X Task)]
    /\ dependency \in [Task -> SUBSET (Kind \X Task)]
    /\ outdated \in [Task -> SUBSET (Kind \X Task)]
    /\ job \in [Task -> Job]
    /\ state \in [value : Value, invalidators : SUBSET Task, taken : SUBSET Task]
    /\ stopped \in BOOLEAN
    /\ seen \in [Task -> Seq(Read)]
    /\ contents \in [Task -> SUBSET (Value \cup {Missing})]
    /\ changes \in 0..MaxChanges /\ drops \in 0..MaxDrops

(* A task that is neither idle nor canceled has exactly one job, which     *)
(* finds the task in the state it expects: none of the panics of           *)
(* task_execution_result and task_execution_completed ("Task execution     *)
(* completed, but task is not in progress") happens, and no second job is  *)
(* spawned for the task.                                                   *)
OneJob ==
    \A t \in Task :
        /\ job[t].pc = "idle" <=> in_progress[t].state \in {"none", "canceled"}
        /\ job[t].pc = "start" <=> in_progress[t].state = "scheduled"

(* A dirty task executes, or is going to: make_task_dirty does not         *)
(* schedule a task that is dirty already.                                  *)
DirtyIsScheduled == \A t \in dirty : in_progress[t].state # "none"

(* Who has called a task finds it in progress or with an output, so        *)
(* try_read_task_output never adds a second InProgress; in particular a    *)
(* task marked as completed has an output.                                 *)
CalledHasOutput ==
    \A t, u \in Task :
        reading_output(t, u) /\ ~unfinished(u) /\ in_progress[u].state # "canceled" => output[u] # "none"

(* The i-th read of the last execution of t, and the values it would give  *)
(* now.                                                                    *)
access_of(t, i) == NextRead(t, SubSeq(seen[t], 1, i - 1))
cell_now(u) == IF cell[u] # Missing THEN {cell[u]} ELSE IF u \in celled THEN Value ELSE {Err}
now(a) ==
    IF a.how = "get" THEN {state.value}
    ELSE IF a.how = "read" THEN cell_now(a.task)
    ELSE IF output[a.task] = "error" THEN {Err}
    ELSE IF a.how = "resolve" THEN {Ok} ELSE cell_now(a.task)

settled(t) == in_progress[t].state = "none" /\ output[t] # "none"
uses(t, i) == IF access_of(t, i).how = "get" THEN {} ELSE {access_of(t, i).task}

(* An invalidation of t is on its way.                                     *)
told(t) ==
    \/ t \in state.taken
    \/ \E r \in Task : t \in job[r].dependents \/ <<"removed", t>> \in job[r].old_edges

(* The cell of t has changed without its dependents being told:            *)
(* UpdateCellOperation takes a write of a task that is not dirty for the   *)
(* recomputation of what was there.                                        *)
silent(t) == \E v, w \in contents[t] \ {Missing} : v # w

(* Eventual consistency, as an invariant: a value that a settled task has  *)
(* read is still the value, or the task is about to be invalidated, or the *)
(* task it was read from is at work, or its cell has changed silently      *)
(* since it contained that value.  A cell changes silently only when its   *)
(* content was dropped, and it stays so, once its task is settled, only if *)
(* the task compares its cell before it writes it, or has read another     *)
(* cell that has changed silently.  When nothing runs, every task but the  *)
(* readers of such cells has the value its code gives for the present      *)
(* State.                                                                  *)
ReadsAreCurrent ==
    ~stopped => \A t \in Task :
        /\ silent(t) => Missing \in contents[t]
        /\ settled(t) /\ ~told(t) =>
              /\ \A i \in 1..Len(seen[t]) :
                    \/ seen[t][i] \in now(access_of(t, i))
                    \/ \E u \in uses(t, i) :
                          ~settled(u) \/ told(u) \/ (silent(u) /\ seen[t][i] \in contents[u])
              /\ IF output[t] = "error" THEN result(t, seen[t]) = Err
                 ELSE cell[t] \in {result(t, seen[t]), Missing}
              /\ silent(t) =>
                    t \in Compared \/ \E i \in 1..Len(seen[t]) : \E u \in uses(t, i) : silent(u)

(* The edges of a task.                                                    *)
edges_of(t) ==
    {edge \in Kind \X Task : \E i \in 1..Len(seen[t]) :
        LET a == access_of(t, i)
        IN  /\ a.task = edge[2] /\ a.how # "get"
            /\ IF edge[1] = "output" THEN a.how # "read"
               ELSE a.how = "read" \/ (a.how = "await" /\ seen[t][i] # Err)}

(* A settled task is known to exactly the tasks it has read, on both ends, *)
(* and to the State it has read: every later change finds it, and nothing  *)
(* that it has not read does.                                              *)
EdgesAreExact ==
    ~stopped => \A t \in Task : settled(t) =>
        /\ dependency[t] = edges_of(t)
        /\ \A u \in Task : \A k \in Kind : <<k, t>> \in dependent[u] <=> <<k, u>> \in edges_of(t)
        /\ (\E i \in 1..Len(seen[t]) : access_of(t, i).how = "get")
              => t \in state.invalidators \cup state.taken

(* A reader that waits for the cell of a canceled task is not woken.       *)
waits_for_canceled(t) ==
    job[t].pc = "await_cell" /\ in_progress[access(t).task].state = "canceled"

(* Every job ends: nobody sleeps through the event it waits for, and stale *)
(* executions do not start over for ever.                                  *)
JobsEnd == []<>(quiet \/ \E t \in Task : waits_for_canceled(t))
=============================================================================
