---------------------------- MODULE TurboTasksSnapshot ----------------------------
(***************************************************************************)
(* How the turbo-tasks backend (turbopack/crates/turbo-tasks-backend,      *)
(* backend/mod.rs) takes a snapshot while operations run.                  *)
(*                                                                         *)
(* An operation changes the task storage in steps and logs every change.   *)
(* The snapshot thread sets the highest bit of in_progress_operations and  *)
(* waits until every running operation is over or suspended between two    *)
(* steps; then it takes the log, lets the operations continue and saves    *)
(* the log together with the suspended operations, which a restart         *)
(* executes to their end.                                                  *)
(*                                                                         *)
(* The atomic counter is read and written without the mutex snapshot_      *)
(* request.  One action is what a thread does between two of the other     *)
(* threads' chances to interfere: an atomic operation, or a critical       *)
(* section of the mutex.  A critical section of the snapshot thread in     *)
(* which it touches the counter more than once is several actions, and     *)
(* `locked' holds between them.                                            *)
(***************************************************************************)
EXTENDS Integers, FiniteSets

CONSTANTS
    Operation,      \* the operations; each is executed once
    Steps,          \* how many steps with logged changes an operation has
    MaxSnapshots,   \* bound: how many snapshots are requested
    MaxFailures,    \* bound: how many of them the backing storage fails to save
    MaxCrashes      \* bound: how often the process stops

ASSUME StepsAssumption == Steps \in Nat
ASSUME OperationAssumption == IsFiniteSet(Operation)

VARIABLES
    in_progress_operations,   \* the counter, without its highest bit
    requested_bit,            \* its highest bit, SNAPSHOT_REQUESTED_BIT
    snapshot_requested,       \* protected by the mutex
    suspended_operations,     \* protected by the mutex
    pc,                       \* where each operation is
    step,                     \* how many steps each operation did
    log,                      \* the changes not taken by a snapshot: <<operation, step>>
    snapshot,                 \* where the snapshot thread is
    captured,                 \* the suspended operations it saves
    taken,                    \* the changes it saves
    saved_log,                \* the changes in the backing storage
    saved_operations,         \* the uncompleted operations in the backing storage
    uncompleted,              \* the operations executed at startup
    snapshots, failures, crashes   \* counters for the bounds

counter == <<in_progress_operations, requested_bit>>
request == <<snapshot_requested, suspended_operations>>
job     == <<captured, taken>>
storage == <<saved_log, saved_operations>>
bounds  == <<snapshots, failures, crashes>>
vars    == <<counter, request, pc, step, log, snapshot, job, storage, uncompleted, bounds>>

(* The snapshot thread is inside a critical section.                       *)
locked == snapshot \in {"requesting", "checking", "parking", "collecting", "resuming"}

goto(o, where) == pc' = [pc EXCEPT ![o] = where]

(* operations_suspended.notify_all: it only reaches a thread that waits.   *)
notify_suspended == snapshot' = IF snapshot = "parked" THEN "woken" ELSE snapshot

-----------------------------------------------------------------------------
Init ==
    /\ in_progress_operations = 0 /\ requested_bit = FALSE
    /\ snapshot_requested = FALSE /\ suspended_operations = {}
    /\ pc = [o \in Operation |-> "idle"]
    /\ step = [o \in Operation |-> 0]
    /\ log = {}
    /\ snapshot = "idle"
    /\ captured = {} /\ taken = {}
    /\ saved_log = {} /\ saved_operations = {}
    /\ uncompleted = {}
    /\ snapshots = 0 /\ failures = 0 /\ crashes = 0

(* startup executes the uncompleted operations one after the other, before *)
(* anything else starts and before the snapshot job is scheduled.          *)
starting_up == \E o \in uncompleted : pc[o] # "done"

-----------------------------------------------------------------------------
(* An operation: start_operation, operation_suspend_point, its steps, and  *)
(* the drop of its guard.                                                  *)

(* fetch_add, and what it returns.                                         *)
start_operation(o) ==
    /\ pc[o] = "idle"
    /\ starting_up => /\ o \in uncompleted
                      /\ \A p \in uncompleted : pc[p] \in {"idle", "done"}
    /\ in_progress_operations' = in_progress_operations + 1
    /\ goto(o, IF requested_bit THEN "starting" ELSE "at_suspend_point")
    /\ UNCHANGED <<requested_bit, request, step, log, snapshot, job, storage,
                   uncompleted, bounds>>

(* Mutant: the operation goes on although a snapshot is requested.         *)
wait_to_start_skipped(o) ==
    /\ pc[o] = "starting"
    /\ ~locked
    /\ goto(o, "at_suspend_point")
    /\ UNCHANGED <<counter, request, step, log, snapshot, job, storage, uncompleted, bounds>>

(* The critical section of start_operation up to its wait.                 *)
wait_to_start(o) ==
    /\ pc[o] = "starting"
    /\ ~locked
    /\ IF snapshot_requested
         THEN /\ in_progress_operations' = in_progress_operations - 1
              /\ goto(o, "waiting_to_start")
              /\ IF requested_bit /\ in_progress_operations' = 0
                   THEN notify_suspended ELSE UNCHANGED snapshot
         ELSE /\ goto(o, "at_suspend_point")
              /\ UNCHANGED <<in_progress_operations, snapshot>>
    /\ UNCHANGED <<requested_bit, request, step, log, job, storage, uncompleted, bounds>>

(* It was notified, and has the mutex again.                               *)
continue_start(o) ==
    /\ pc[o] = "notified_to_start"
    /\ ~locked
    /\ IF snapshot_requested
         THEN /\ goto(o, "waiting_to_start")
              /\ UNCHANGED in_progress_operations
         ELSE /\ in_progress_operations' = in_progress_operations + 1
              /\ goto(o, "at_suspend_point")
    /\ UNCHANGED <<requested_bit, request, step, log, snapshot, job, storage,
                   uncompleted, bounds>>

(* suspending_requested reads the bit.                                     *)
operation_suspend_point(o) ==
    /\ pc[o] = "at_suspend_point"
    /\ goto(o, IF requested_bit THEN "suspending" ELSE "working")
    /\ UNCHANGED <<counter, request, step, log, snapshot, job, storage, uncompleted, bounds>>

(* Mutant: the operation is not put among the suspended ones.              *)
suspend_unregistered(o) ==
    /\ pc[o] = "suspending"
    /\ ~locked
    /\ IF snapshot_requested
         THEN /\ in_progress_operations' = in_progress_operations - 1
              /\ goto(o, "suspended")
              /\ IF requested_bit /\ in_progress_operations' = 0
                   THEN notify_suspended ELSE UNCHANGED snapshot
         ELSE /\ goto(o, "working")
              /\ UNCHANGED <<in_progress_operations, snapshot>>
    /\ UNCHANGED <<requested_bit, request, step, log, job, storage, uncompleted, bounds>>

(* operation_suspend_point_cold up to its wait.                            *)
suspend(o) ==
    /\ pc[o] = "suspending"
    /\ ~locked
    /\ IF snapshot_requested
         THEN /\ suspended_operations' = suspended_operations \cup {o}
              /\ in_progress_operations' = in_progress_operations - 1
              /\ goto(o, "suspended")
              /\ IF requested_bit /\ in_progress_operations' = 0
                   THEN notify_suspended ELSE UNCHANGED snapshot
         ELSE /\ goto(o, "working")
              /\ UNCHANGED <<in_progress_operations, suspended_operations, snapshot>>
    /\ UNCHANGED <<requested_bit, snapshot_requested, step, log, job, storage,
                   uncompleted, bounds>>

(* It was notified, and has the mutex again.                               *)
continue(o) ==
    /\ pc[o] = "notified"
    /\ ~locked
    /\ IF snapshot_requested
         THEN /\ goto(o, "suspended")
              /\ UNCHANGED <<in_progress_operations, suspended_operations>>
         ELSE /\ in_progress_operations' = in_progress_operations + 1
              /\ suspended_operations' = suspended_operations \ {o}
              /\ goto(o, "working")
    /\ UNCHANGED <<requested_bit, snapshot_requested, step, log, snapshot, job, storage,
                   uncompleted, bounds>>

(* A step changes the storage and logs it; the next suspend point follows. *)
work(o) ==
    /\ pc[o] = "working"
    /\ step[o] < Steps
    /\ log' = log \cup {<<o, step[o]>>}
    /\ step' = [step EXCEPT ![o] = @ + 1]
    /\ goto(o, "at_suspend_point")
    /\ UNCHANGED <<counter, request, snapshot, job, storage, uncompleted, bounds>>

(* Mutant: the guard forgets to notify.                                    *)
drop_guard_silently(o) ==
    /\ pc[o] = "working"
    /\ step[o] = Steps
    /\ in_progress_operations' = in_progress_operations - 1
    /\ goto(o, "done")
    /\ UNCHANGED <<requested_bit, request, step, log, snapshot, job, storage, uncompleted,
                   bounds>>

(* The operation is over: its OperationGuard is dropped.  fetch_sub ...    *)
drop_guard(o) ==
    /\ pc[o] = "working"
    /\ step[o] = Steps
    /\ in_progress_operations' = in_progress_operations - 1
    /\ goto(o, IF requested_bit /\ in_progress_operations' = 0 THEN "notifying" ELSE "done")
    /\ UNCHANGED <<requested_bit, request, step, log, snapshot, job, storage, uncompleted,
                   bounds>>

(* ... and notify_all, without the mutex.                                  *)
notify(o) ==
    /\ pc[o] = "notifying"
    /\ notify_suspended
    /\ goto(o, "done")
    /\ UNCHANGED <<counter, request, step, log, job, storage, uncompleted, bounds>>

-----------------------------------------------------------------------------
(* The snapshot thread.                                                    *)

request_snapshot ==
    /\ snapshot = "idle"
    /\ ~starting_up
    /\ snapshots < MaxSnapshots
    /\ snapshots' = snapshots + 1
    /\ snapshot_requested' = TRUE
    /\ snapshot' = "requesting"
    /\ UNCHANGED <<counter, suspended_operations, pc, step, log, job, storage, uncompleted,
                   failures, crashes>>

(* Mutant: one operation in progress is taken for none.                    *)
set_bit_off_by_one ==
    /\ snapshot = "requesting"
    /\ requested_bit' = TRUE
    /\ snapshot' = IF in_progress_operations <= 1 THEN "collecting" ELSE "checking"
    /\ UNCHANGED <<in_progress_operations, request, pc, step, log, job, storage, uncompleted,
                   bounds>>

(* fetch_or, and what it returns.                                          *)
set_bit ==
    /\ snapshot = "requesting"
    /\ requested_bit' = TRUE
    /\ snapshot' = IF in_progress_operations = 0 THEN "collecting" ELSE "checking"
    /\ UNCHANGED <<in_progress_operations, request, pc, step, log, job, storage, uncompleted,
                   bounds>>

(* wait_while evaluates its condition ...                                  *)
check_suspended ==
    /\ snapshot = "checking"
    /\ snapshot' = IF in_progress_operations = 0 THEN "collecting" ELSE "parking"
    /\ UNCHANGED <<counter, request, pc, step, log, job, storage, uncompleted, bounds>>

(* ... and parks the thread, which releases the mutex.                     *)
park ==
    /\ snapshot = "parking"
    /\ snapshot' = "parked"
    /\ UNCHANGED <<counter, request, pc, step, log, job, storage, uncompleted, bounds>>

(* It was notified, and has the mutex again.                               *)
wake_up ==
    /\ snapshot = "woken"
    /\ snapshot' = "checking"
    /\ UNCHANGED <<counter, request, pc, step, log, job, storage, uncompleted, bounds>>

(* The suspended operations, each at the step it stopped at.               *)
collect_operations ==
    /\ snapshot = "collecting"
    /\ captured' = {<<o, step[o]>> : o \in suspended_operations}
    /\ snapshot' = "taking"
    /\ UNCHANGED <<counter, request, pc, step, log, taken, storage, uncompleted, bounds>>

take_log ==
    /\ snapshot = "taking"
    /\ taken' = log
    /\ log' = {}
    /\ snapshot' = "taken"
    /\ UNCHANGED <<counter, request, pc, step, captured, storage, uncompleted, bounds>>

(* It takes the mutex again.                                               *)
end_request ==
    /\ snapshot = "taken"
    /\ snapshot_requested' = FALSE
    /\ snapshot' = "resuming"
    /\ UNCHANGED <<counter, suspended_operations, pc, step, log, job, storage, uncompleted,
                   bounds>>

(* fetch_sub of the bit, and snapshot_completed.notify_all.                *)
clear_bit ==
    /\ snapshot = "resuming"
    /\ requested_bit' = FALSE
    /\ pc' = [o \in Operation |-> CASE pc[o] = "suspended"        -> "notified"
                                    [] pc[o] = "waiting_to_start" -> "notified_to_start"
                                    [] OTHER                      -> pc[o]]
    /\ snapshot' = "saving"
    /\ UNCHANGED <<in_progress_operations, request, step, log, job, storage, uncompleted,
                   bounds>>

(* save_snapshot commits both in one batch; nothing is saved when the log  *)
(* was empty.                                                              *)
save_snapshot ==
    /\ snapshot = "saving"
    /\ IF taken = {}
         THEN UNCHANGED storage
         ELSE /\ saved_log' = saved_log \cup taken
              /\ saved_operations' = captured
    /\ taken' = {} /\ captured' = {}
    /\ snapshot' = "idle"
    /\ UNCHANGED <<counter, request, pc, step, log, uncompleted, bounds>>

(* Persisting failed: the snapshot is given up.                            *)
save_fails ==
    /\ snapshot = "saving"
    /\ taken # {}
    /\ failures < MaxFailures
    /\ failures' = failures + 1
    /\ taken' = {} /\ captured' = {}
    /\ snapshot' = "idle"
    /\ UNCHANGED <<counter, request, pc, step, log, storage, uncompleted, snapshots, crashes>>

-----------------------------------------------------------------------------
(* The process stops and starts again.  The operations that were saved as  *)
(* uncompleted are to be executed from the step they were saved at, one    *)
(* with other saved changes is over, and the others may be started again.  *)
restart ==
    /\ crashes < MaxCrashes
    /\ crashes' = crashes + 1
    /\ in_progress_operations' = 0 /\ requested_bit' = FALSE
    /\ snapshot_requested' = FALSE /\ suspended_operations' = {}
    /\ log' = {} /\ captured' = {} /\ taken' = {}
    /\ snapshot' = "idle"
    /\ uncompleted' = {c[1] : c \in saved_operations}
    /\ step' = [o \in Operation |->
                  CASE o \in uncompleted' -> (CHOOSE c \in saved_operations : c[1] = o)[2]
                    [] o \notin uncompleted' /\ (\E c \in saved_log : c[1] = o) -> Steps
                    [] OTHER -> 0]
    /\ pc' = [o \in Operation |->
                IF o \notin uncompleted' /\ (\E c \in saved_log : c[1] = o)
                  THEN "done" ELSE "idle"]
    /\ UNCHANGED <<storage, snapshots, failures>>

-----------------------------------------------------------------------------
execute(o) == \/ wait_to_start(o)
              \/ continue_start(o)
              \/ operation_suspend_point(o)
              \/ suspend(o)
              \/ continue(o)
              \/ work(o)
              \/ drop_guard(o)
              \/ notify(o)

take_snapshot == \/ set_bit
                 \/ check_suspended
                 \/ park
                 \/ wake_up
                 \/ collect_operations
                 \/ take_log
                 \/ end_request
                 \/ clear_bit
                 \/ save_snapshot
                 \/ save_fails

Next == \/ \E o \in Operation : start_operation(o) \/ execute(o)
        \/ request_snapshot
        \/ take_snapshot
        \/ restart

Spec == Init /\ [][Next]_vars

(* Threads that are not blocked run; nobody has to start an operation or   *)
(* to request a snapshot.                                                  *)
Fairness == /\ \A o \in Operation : WF_vars(execute(o))
            /\ WF_vars(take_snapshot)

LiveSpec == Spec /\ Fairness

-----------------------------------------------------------------------------
TypeOK ==
    /\ in_progress_operations \in Nat
    /\ requested_bit \in BOOLEAN
    /\ snapshot_requested \in BOOLEAN
    /\ suspended_operations \subseteq Operation
    /\ pc \in [Operation -> {"idle", "starting", "waiting_to_start", "notified_to_start",
                             "at_suspend_point", "suspending", "suspended", "notified",
                             "working", "notifying", "done"}]
    /\ step \in [Operation -> 0 .. Steps]
    /\ log \subseteq Operation \X (0 .. Steps)
    /\ snapshot \in {"idle", "requesting", "checking", "parking", "parked", "woken",
                     "collecting", "taking", "taken", "resuming", "saving"}
    /\ captured \subseteq Operation \X (0 .. Steps)
    /\ taken \subseteq Operation \X (0 .. Steps)
    /\ saved_log \subseteq Operation \X (0 .. Steps)
    /\ saved_operations \subseteq Operation \X (0 .. Steps)
    /\ uncompleted \subseteq Operation
    /\ snapshots \in Nat /\ failures \in Nat /\ crashes \in Nat

-----------------------------------------------------------------------------
(* Properties.                                                             *)

(* While the snapshot thread collects the suspended operations and takes   *)
(* the log, no operation is between two suspend points (mod.rs:170:        *)
(* "operations should pause until the snapshot is completed").             *)
Quiescent ==
    snapshot \in {"collecting", "taking", "taken"} =>
        \A o \in Operation : pc[o] \notin {"at_suspend_point", "suspending", "working"}

(* A restart can complete what the backing storage holds: the saved        *)
(* changes of an operation are its first ones, and unless they are all or  *)
(* none of them the operation is saved at exactly the next step.  (When    *)
(* saving has failed, the changes it took out of the log are lost.)        *)
SavedIsResumable ==
    failures = 0 => \A o \in Operation : \E n \in 0 .. Steps :
        /\ {c \in saved_log : c[1] = o} = {o} \X (0 .. n - 1)
        /\ n \in {0, Steps} \/ <<o, n>> \in saved_operations
        /\ \A c \in saved_operations : c[1] = o => c[2] = n

(* Every change of an operation is waiting in the log, being saved, or in  *)
(* the backing storage (mod.rs:109: StorageMode::ReadWrite "Keeps a log of *)
(* all changes and regularly push them to the backing storage"), as long   *)
(* as saving does not fail.                                                *)
ChangesAreKept ==
    failures = 0 => \A o \in Operation : \A n \in 0 .. step[o] - 1 : <<o, n>> \in log \cup taken \cup saved_log

(* An operation that saw the bit finds the snapshot still requested when   *)
(* it has the mutex, and the bit still set, as the assertion of            *)
(* operation_suspend_point demands: the two are set and cleared one after  *)
(* the other, and the operation looks at them at two different times.      *)
SuspendsForSnapshot ==
    \A o \in Operation :
        pc[o] = "suspending" /\ ~locked => snapshot_requested /\ requested_bit

(* A snapshot thread that sleeps while operations are in progress is woken *)
(* by the last of them, whichever way that one leaves.                     *)
ParkedIsWoken == snapshot = "parked" /\ in_progress_operations > 0 ~> snapshot # "parked"

(* An operation that waits for a snapshot goes on (or is started again     *)
(* after the process stopped), if the snapshot thread does not sleep for   *)
(* ever, which it can: the drop of a guard notifies without the mutex, so  *)
(* maybe after the condition was checked and before the sleep.             *)
WaitingContinues ==
    []<>(snapshot # "parked") =>
        \A o \in Operation :
            pc[o] \in {"starting", "waiting_to_start", "suspending", "suspended"} ~>
                pc[o] \in {"idle", "at_suspend_point", "working", "done"}

(* Everyone who waits on a condition variable of a snapshot goes on.       *)
SnapshotsEnd == ParkedIsWoken /\ WaitingContinues

(* The storage holds what a restart needs: the changes, and the operations *)
(* that were not complete where the changes end.                           *)
SavedIsComplete == TypeOK /\ ChangesAreKept /\ SavedIsResumable
=============================================================================
