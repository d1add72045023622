------------------------- MODULE TurboTasksSnapshotProofs -------------------------
(***************************************************************************)
(* Theorems about TurboTasksSnapshot, for every finite set of operations   *)
(* and any number of steps, snapshots, failures and crashes.               *)
(*                                                                         *)
(* The argument: in_progress_operations counts exactly the operations that *)
(* may change the storage or are about to find out whether they may, so    *)
(* the snapshot thread, which goes on only when it is 0, goes on only when *)
(* there is none; and none can come back before snapshot_requested is      *)
(* cleared, which the snapshot thread does after it took the log.          *)
(***************************************************************************)
EXTENDS TurboTasksSnapshot, FiniteSetTheorems, TLAPS

-----------------------------------------------------------------------------
(* The types of the counter, the bit, the flag and the program counters.   *)
ControlTypes ==
    /\ in_progress_operations \in Nat
    /\ requested_bit \in BOOLEAN
    /\ snapshot_requested \in BOOLEAN
    /\ suspended_operations \subseteq Operation
    /\ pc \in [Operation -> {"idle", "starting", "waiting_to_start", "notified_to_start",
                             "at_suspend_point", "suspending", "suspended", "notified",
                             "working", "notifying", "done"}]
    /\ snapshot \in {"idle", "requesting", "checking", "parking", "parked", "woken",
                     "collecting", "taking", "taken", "resuming", "saving"}

running == {o \in Operation : pc[o] \in {"starting", "at_suspend_point", "suspending", "working"}}

(* The counter counts the operations that run.                             *)
CountsRunning == in_progress_operations = Cardinality(running)

(* What the snapshot thread has set, by where it is.                       *)
BitFollowsSnapshot ==
    requested_bit <=> snapshot \in {"checking", "parking", "parked", "woken", "collecting",
                                    "taking", "taken", "resuming"}
FlagFollowsSnapshot ==
    snapshot_requested <=> snapshot \in {"requesting", "checking", "parking", "parked", "woken",
                                         "collecting", "taking", "taken"}

(* Nothing happens between two suspend points while the log is taken, and  *)
(* an operation that saw the bit keeps the snapshot thread waiting.        *)
Quiet ==
    \A o \in Operation :
        /\ snapshot \in {"collecting", "taking", "taken", "resuming"} =>
             pc[o] \notin {"at_suspend_point", "suspending", "working"}
        /\ pc[o] = "suspending" => snapshot \in {"checking", "parking", "parked", "woken"}

(* The inductive invariant.                                                *)
Inv ==
    /\ ControlTypes
    /\ CountsRunning
    /\ BitFollowsSnapshot
    /\ FlagFollowsSnapshot
    /\ Quiet

-----------------------------------------------------------------------------
LEMMA RunningFinite == IsFiniteSet(running) /\ IsFiniteSet(running')
BY OperationAssumption, FS_Subset DEF running

(* An operation that begins to run adds one to the number of running       *)
(* operations.                                                             *)
LEMMA RunningGrows ==
    ASSUME NEW o \in Operation, ControlTypes, CountsRunning,
           o \notin running, running' = running \cup {o},
           in_progress_operations' = in_progress_operations + 1
    PROVE  CountsRunning'
<1>1. Cardinality(running \cup {o}) = Cardinality(running) + 1
  BY RunningFinite, FS_AddElement
<1> QED  BY <1>1 DEF CountsRunning

(* An operation that stops running takes one away; it is not the 0th.      *)
LEMMA RunningShrinks ==
    ASSUME NEW o \in Operation, ControlTypes, CountsRunning,
           o \in running, running' = running \ {o},
           in_progress_operations' = in_progress_operations - 1
    PROVE  CountsRunning' /\ in_progress_operations' \in Nat
<1>1. Cardinality(running \ {o}) = Cardinality(running) - 1
  BY RunningFinite, FS_RemoveElement
<1>2. Cardinality(running \ {o}) \in Nat
  BY RunningFinite, FS_RemoveElement, FS_CardinalityType
<1> QED  BY <1>1, <1>2 DEF CountsRunning

(* When the counter is 0, no operation runs.                               *)
LEMMA ZeroIsQuiet ==
    ASSUME CountsRunning, in_progress_operations = 0
    PROVE  \A o \in Operation :
             pc[o] \notin {"starting", "at_suspend_point", "suspending", "working"}
<1>1. running = {}
  BY RunningFinite, FS_EmptySet DEF CountsRunning
<1> QED  BY <1>1 DEF running

LEMMA InitInv == Init => Inv
<1> SUFFICES ASSUME Init PROVE Inv
  OBVIOUS
<1>1. running = {}
  BY DEF Init, running
<1>2. Cardinality({}) = 0
  BY FS_EmptySet
<1> QED  BY <1>1, <1>2 DEF Init, Inv, ControlTypes, CountsRunning, BitFollowsSnapshot,
                            FlagFollowsSnapshot, Quiet

-----------------------------------------------------------------------------
(* One lemma per way an operation's step touches the counter.              *)

LEMMA StartInv == ASSUME Inv, NEW o \in Operation, start_operation(o) PROVE Inv'
<1> USE DEF Inv, start_operation, goto
<1>1. ControlTypes'
  BY DEF ControlTypes, request
<1>2. o \notin running /\ running' = running \cup {o}
  BY DEF running, ControlTypes
<1>3. CountsRunning'
  BY <1>2, RunningGrows
<1>4. BitFollowsSnapshot' /\ FlagFollowsSnapshot'
  BY DEF BitFollowsSnapshot, FlagFollowsSnapshot, request
<1>5. Quiet'
  BY DEF Quiet, ControlTypes, BitFollowsSnapshot
<1> QED  BY <1>1, <1>3, <1>4, <1>5

LEMMA WaitToStartInv == ASSUME Inv, NEW o \in Operation, wait_to_start(o) PROVE Inv'
<1> USE DEF Inv, wait_to_start, goto
<1>1. CASE snapshot_requested
  <2>1. o \in running /\ running' = running \ {o}
    BY <1>1 DEF running, ControlTypes
  <2>2. CountsRunning' /\ in_progress_operations' \in Nat
    BY <1>1, <2>1, RunningShrinks
  <2>3. snapshot' = snapshot \/ (snapshot = "parked" /\ snapshot' = "woken")
    BY <1>1 DEF notify_suspended
  <2>4. ControlTypes'
    BY <1>1, <2>2, <2>3 DEF ControlTypes, request
  <2>5. BitFollowsSnapshot' /\ FlagFollowsSnapshot'
    BY <2>3 DEF BitFollowsSnapshot, FlagFollowsSnapshot, request
  <2>6. Quiet'
    BY <1>1, <2>3 DEF Quiet, ControlTypes
  <2> QED  BY <2>2, <2>4, <2>5, <2>6
<1>2. CASE ~snapshot_requested
  <2>1. ControlTypes'
    BY <1>2 DEF ControlTypes, request
  <2>2. running' = running
    BY <1>2 DEF running, ControlTypes
  <2>3. CountsRunning'
    BY <1>2, <2>2 DEF CountsRunning
  <2>4. BitFollowsSnapshot' /\ FlagFollowsSnapshot'
    BY <1>2 DEF BitFollowsSnapshot, FlagFollowsSnapshot, request
  <2>5. Quiet'
    BY <1>2 DEF Quiet, FlagFollowsSnapshot, ControlTypes, locked
  <2> QED  BY <2>1, <2>3, <2>4, <2>5
<1> QED  BY <1>1, <1>2

LEMMA ContinueStartInv == ASSUME Inv, NEW o \in Operation, continue_start(o) PROVE Inv'
<1> USE DEF Inv, continue_start, goto
<1>1. ControlTypes'
  BY DEF ControlTypes, request
<1>2. BitFollowsSnapshot' /\ FlagFollowsSnapshot'
  BY DEF BitFollowsSnapshot, FlagFollowsSnapshot, request
<1>3. CASE snapshot_requested
  <2>1. running' = running
    BY <1>3 DEF running, ControlTypes
  <2>2. CountsRunning' /\ Quiet'
    BY <1>3, <2>1 DEF CountsRunning, Quiet, ControlTypes
  <2> QED  BY <1>1, <1>2, <2>2
<1>4. CASE ~snapshot_requested
  <2>1. o \notin running /\ running' = running \cup {o}
    BY <1>4 DEF running, ControlTypes
  <2>2. CountsRunning'
    BY <1>4, <2>1, RunningGrows
  <2>3. Quiet'
    BY <1>4 DEF Quiet, FlagFollowsSnapshot, ControlTypes, locked
  <2> QED  BY <1>1, <1>2, <2>2, <2>3
<1> QED  BY <1>3, <1>4

LEMMA SuspendPointInv == ASSUME Inv, NEW o \in Operation, operation_suspend_point(o) PROVE Inv'
<1> USE DEF Inv, operation_suspend_point, goto
<1>1. ControlTypes'
  BY DEF ControlTypes, request, counter
<1>2. running' = running
  BY DEF running, ControlTypes
<1>3. CountsRunning'
  BY <1>2 DEF CountsRunning, counter
<1>4. BitFollowsSnapshot' /\ FlagFollowsSnapshot' /\ Quiet'
  BY DEF BitFollowsSnapshot, FlagFollowsSnapshot, Quiet, request, counter, ControlTypes
<1> QED  BY <1>1, <1>3, <1>4

LEMMA SuspendInv == ASSUME Inv, NEW o \in Operation, suspend(o) PROVE Inv'
<1> USE DEF Inv, suspend, goto
<1>1. CASE snapshot_requested
  <2>1. o \in running /\ running' = running \ {o}
    BY <1>1 DEF running, ControlTypes
  <2>2. CountsRunning' /\ in_progress_operations' \in Nat
    BY <1>1, <2>1, RunningShrinks
  <2>3. snapshot' = snapshot \/ (snapshot = "parked" /\ snapshot' = "woken")
    BY <1>1 DEF notify_suspended
  <2>4. ControlTypes'
    BY <1>1, <2>2, <2>3 DEF ControlTypes
  <2>5. BitFollowsSnapshot' /\ FlagFollowsSnapshot'
    BY <2>3 DEF BitFollowsSnapshot, FlagFollowsSnapshot
  <2>6. Quiet'
    BY <1>1, <2>3 DEF Quiet, ControlTypes
  <2> QED  BY <2>2, <2>4, <2>5, <2>6
<1>2. CASE ~snapshot_requested
  <2>1. ControlTypes'
    BY <1>2 DEF ControlTypes
  <2>2. running' = running
    BY <1>2 DEF running, ControlTypes
  <2>3. CountsRunning'
    BY <1>2, <2>2 DEF CountsRunning
  <2>4. BitFollowsSnapshot' /\ FlagFollowsSnapshot'
    BY <1>2 DEF BitFollowsSnapshot, FlagFollowsSnapshot
  <2>5. Quiet'
    BY <1>2 DEF Quiet, FlagFollowsSnapshot
  <2> QED  BY <2>1, <2>3, <2>4, <2>5
<1> QED  BY <1>1, <1>2

LEMMA ContinueInv == ASSUME Inv, NEW o \in Operation, continue(o) PROVE Inv'
<1> USE DEF Inv, continue, goto
<1>1. ControlTypes'
  BY DEF ControlTypes
<1>2. BitFollowsSnapshot' /\ FlagFollowsSnapshot'
  BY DEF BitFollowsSnapshot, FlagFollowsSnapshot
<1>3. CASE snapshot_requested
  <2>1. running' = running
    BY <1>3 DEF running, ControlTypes
  <2>2. CountsRunning' /\ Quiet'
    BY <1>3, <2>1 DEF CountsRunning, Quiet, ControlTypes
  <2> QED  BY <1>1, <1>2, <2>2
<1>4. CASE ~snapshot_requested
  <2>1. o \notin running /\ running' = running \cup {o}
    BY <1>4 DEF running, ControlTypes
  <2>2. CountsRunning'
    BY <1>4, <2>1, RunningGrows
  <2>3. Quiet'
    BY <1>4 DEF Quiet, FlagFollowsSnapshot, ControlTypes, locked
  <2> QED  BY <1>1, <1>2, <2>2, <2>3
<1> QED  BY <1>3, <1>4

LEMMA WorkInv == ASSUME Inv, NEW o \in Operation, work(o) PROVE Inv'
<1> USE DEF Inv, work, goto
<1>1. ControlTypes'
  BY DEF ControlTypes, request, counter
<1>2. running' = running
  BY DEF running, ControlTypes
<1>3. CountsRunning'
  BY <1>2 DEF CountsRunning, counter
<1>4. BitFollowsSnapshot' /\ FlagFollowsSnapshot' /\ Quiet'
  BY DEF BitFollowsSnapshot, FlagFollowsSnapshot, Quiet, request, counter, ControlTypes
<1> QED  BY <1>1, <1>3, <1>4

LEMMA DropGuardInv == ASSUME Inv, NEW o \in Operation, drop_guard(o) PROVE Inv'
<1> USE DEF Inv, drop_guard, goto
<1>1. o \in running /\ running' = running \ {o}
  BY DEF running, ControlTypes
<1>2. CountsRunning' /\ in_progress_operations' \in Nat
  BY <1>1, RunningShrinks
<1>3. ControlTypes'
  BY <1>2 DEF ControlTypes, request
<1>4. BitFollowsSnapshot' /\ FlagFollowsSnapshot' /\ Quiet'
  BY DEF BitFollowsSnapshot, FlagFollowsSnapshot, Quiet, request, ControlTypes
<1> QED  BY <1>2, <1>3, <1>4

LEMMA NotifyInv == ASSUME Inv, NEW o \in Operation, notify(o) PROVE Inv'
<1> USE DEF Inv, notify, goto
<1>1. snapshot' = snapshot \/ (snapshot = "parked" /\ snapshot' = "woken")
  BY DEF notify_suspended
<1>2. ControlTypes'
  BY <1>1 DEF ControlTypes, request, counter
<1>3. running' = running
  BY DEF running, ControlTypes
<1>4. CountsRunning'
  BY <1>3 DEF CountsRunning, counter
<1>5. BitFollowsSnapshot' /\ FlagFollowsSnapshot' /\ Quiet'
  BY <1>1 DEF BitFollowsSnapshot, FlagFollowsSnapshot, Quiet, request, counter, ControlTypes
<1> QED  BY <1>2, <1>4, <1>5

-----------------------------------------------------------------------------
(* The snapshot thread.  It leaves the operations alone, except when it    *)
(* notifies them, and only its checks of the counter make it collect.      *)
LEMMA SnapshotInv == ASSUME Inv, take_snapshot \/ request_snapshot PROVE Inv'
<1> USE DEF Inv
<1>1. CASE request_snapshot
  BY <1>1 DEF request_snapshot, counter, ControlTypes, CountsRunning, running,
              BitFollowsSnapshot, FlagFollowsSnapshot, Quiet
<1>2. CASE set_bit
  BY <1>2, ZeroIsQuiet DEF set_bit, request, ControlTypes, CountsRunning, running,
              BitFollowsSnapshot, FlagFollowsSnapshot, Quiet
<1>3. CASE check_suspended
  BY <1>3, ZeroIsQuiet DEF check_suspended, counter, request, ControlTypes, CountsRunning,
              running, BitFollowsSnapshot, FlagFollowsSnapshot, Quiet
<1>4. CASE park \/ wake_up
  BY <1>4 DEF park, wake_up, counter, request, ControlTypes, CountsRunning, running,
              BitFollowsSnapshot, FlagFollowsSnapshot, Quiet
<1>5. CASE collect_operations \/ take_log
  BY <1>5 DEF collect_operations, take_log, counter, request, ControlTypes, CountsRunning,
              running, BitFollowsSnapshot, FlagFollowsSnapshot, Quiet
<1>6. CASE end_request
  BY <1>6 DEF end_request, counter, ControlTypes, CountsRunning, running,
              BitFollowsSnapshot, FlagFollowsSnapshot, Quiet
<1>7. CASE clear_bit
  <2>1. ControlTypes'
    BY <1>7 DEF clear_bit, ControlTypes, request
  <2>2. running' = running
    BY <1>7 DEF clear_bit, running, ControlTypes
  <2>3. CountsRunning'
    BY <1>7, <2>2 DEF clear_bit, CountsRunning
  <2>4. BitFollowsSnapshot' /\ FlagFollowsSnapshot' /\ Quiet'
    BY <1>7 DEF clear_bit, request, BitFollowsSnapshot, FlagFollowsSnapshot, Quiet
  <2> QED  BY <2>1, <2>3, <2>4
<1>8. CASE save_snapshot \/ save_fails
  <2>1. UNCHANGED <<counter, request, pc>> /\ snapshot = "saving" /\ snapshot' = "idle"
    BY <1>8 DEF save_snapshot, save_fails
  <2> QED  BY <2>1 DEF counter, request, ControlTypes, CountsRunning, running,
                       BitFollowsSnapshot, FlagFollowsSnapshot, Quiet
<1> QED  BY <1>1, <1>2, <1>3, <1>4, <1>5, <1>6, <1>7, <1>8 DEF take_snapshot

LEMMA RestartInv == ASSUME Inv, restart PROVE Inv'
<1> USE DEF Inv, restart
<1>1. running' = {}
  BY DEF running
<1>2. Cardinality({}) = 0
  BY FS_EmptySet
<1>3. ControlTypes' /\ BitFollowsSnapshot' /\ FlagFollowsSnapshot' /\ Quiet'
  BY DEF ControlTypes, BitFollowsSnapshot, FlagFollowsSnapshot, Quiet
<1> QED  BY <1>1, <1>2, <1>3 DEF CountsRunning

LEMMA NextInv == Inv /\ [Next]_vars => Inv'
<1> SUFFICES ASSUME Inv, [Next]_vars PROVE Inv'
  OBVIOUS
<1>1. CASE Next
  <2>1. CASE request_snapshot \/ take_snapshot
    BY <2>1, SnapshotInv
  <2>2. CASE restart
    BY <2>2, RestartInv
  <2>3. ASSUME NEW o \in Operation, start_operation(o) \/ execute(o) PROVE Inv'
    BY <2>3, StartInv, WaitToStartInv, ContinueStartInv, SuspendPointInv, SuspendInv,
       ContinueInv, WorkInv, DropGuardInv, NotifyInv DEF execute
  <2> QED  BY <1>1, <2>1, <2>2, <2>3 DEF Next
<1>2. CASE UNCHANGED vars
  BY <1>2 DEF vars, counter, request, Inv, ControlTypes, CountsRunning, running,
              BitFollowsSnapshot, FlagFollowsSnapshot, Quiet
<1> QED  BY <1>1, <1>2

-----------------------------------------------------------------------------
(* While the snapshot thread collects the suspended operations and takes   *)
(* the log, no operation is between two suspend points, however many       *)
(* operations there are (snapshot, mod.rs:798-830).                        *)
THEOREM SnapshotQuiescent == Spec => []Quiescent
<1>1. Inv => Quiescent
  BY DEF Inv, Quiet, Quiescent
<1> QED  BY InitInv, NextInv, <1>1, PTL DEF Spec

(* An operation that saw the bit finds the snapshot requested when it has  *)
(* the mutex, and the assertion of operation_suspend_point (mod.rs:289)    *)
(* never fails.                                                            *)
THEOREM SuspendAssertion == Spec => []SuspendsForSnapshot
<1>1. Inv => SuspendsForSnapshot
  BY DEF Inv, Quiet, SuspendsForSnapshot, locked, BitFollowsSnapshot, FlagFollowsSnapshot
<1> QED  BY InitInv, NextInv, <1>1, PTL DEF Spec

-----------------------------------------------------------------------------
(* What is saved can be resumed: what a step changes is in the log until a *)
(* snapshot takes it, together with the operations it has to wait for, and *)
(* both are saved at once.                                                 *)

changes(S, o) == {c \in S : c[1] = o}

(* The changes S are the first ones of o, up to where C resumes it.        *)
resumable(S, C, o) ==
    \E n \in 0 .. Steps :
        /\ changes(S, o) = {o} \X (0 .. n - 1)
        /\ n \in {0, Steps} \/ <<o, n>> \in C
        /\ \A c \in C : c[1] = o => c[2] = n

(* An operation outside its steps did all or none of them, or it waits     *)
(* among the suspended ones; one that a restart resumes has to come first. *)
StepFollowsPc ==
    \A o \in Operation :
        /\ pc[o] \in {"idle", "starting", "waiting_to_start", "notified_to_start"} =>
             step[o] = 0 \/ o \in uncompleted
        /\ pc[o] \in {"notifying", "done"} => step[o] = Steps
        /\ o \in suspended_operations <=> pc[o] \in {"suspended", "notified"}

StartsUpFirst == snapshot # "idle" => ~starting_up

(* Between two snapshots nothing is taken.                                 *)
holding == {"taken", "resuming", "saving"}
TakenIsSaved == snapshot \notin holding => taken = {}

(* Every change is in one of three places, and nothing else is.            *)
EveryChange ==
    \A o \in Operation :
        changes(log \cup taken \cup saved_log, o) = {o} \X (0 .. step[o] - 1)

CapturedAreSuspended ==
    snapshot = "taking" => captured = {<<o, step[o]>> : o \in suspended_operations}

(* What is about to be saved can be resumed, and so can what is saved.     *)
CapturedIsResumable ==
    snapshot \in holding => \A o \in Operation : resumable(saved_log \cup taken, captured, o)
StorageIsResumable ==
    \A o \in Operation : resumable(saved_log, saved_operations, o)

LogInv ==
    /\ TypeOK
    /\ StepFollowsPc
    /\ StartsUpFirst
    /\ TakenIsSaved
    /\ failures = 0 => /\ EveryChange
                       /\ CapturedAreSuspended
                       /\ CapturedIsResumable
                       /\ StorageIsResumable

(* The types of what is changed and saved.                                 *)
DataTypes ==
    /\ step \in [Operation -> 0 .. Steps]
    /\ log \subseteq Operation \X (0 .. Steps)
    /\ captured \subseteq Operation \X (0 .. Steps)
    /\ taken \subseteq Operation \X (0 .. Steps)
    /\ saved_log \subseteq Operation \X (0 .. Steps)
    /\ saved_operations \subseteq Operation \X (0 .. Steps)
    /\ uncompleted \subseteq Operation
    /\ snapshots \in Nat /\ failures \in Nat /\ crashes \in Nat

LEMMA TypesSplit == TypeOK <=> ControlTypes /\ DataTypes
BY DEF TypeOK, ControlTypes, DataTypes

-----------------------------------------------------------------------------
LEMMA LogInit == Init => LogInv
<1> SUFFICES ASSUME Init PROVE LogInv
  OBVIOUS
<1>1. TypeOK
  <2>1. 0 \in 0 .. Steps
    BY StepsAssumption
  <2>2. ControlTypes
    BY InitInv DEF Inv
  <2>3. DataTypes
    BY <2>1 DEF Init, DataTypes
  <2> QED  BY <2>2, <2>3, TypesSplit
<1>2. StepFollowsPc /\ StartsUpFirst /\ TakenIsSaved /\ CapturedAreSuspended
  BY DEF Init, StepFollowsPc, StartsUpFirst, TakenIsSaved, CapturedAreSuspended
<1>3. \A o \in Operation : {o} \X (0 .. 0 - 1) = {}
  OBVIOUS
<1>4. \A o \in Operation : changes({}, o) = {} /\ resumable({}, {}, o)
  BY <1>3, StepsAssumption DEF changes, resumable
<1>5. EveryChange /\ CapturedIsResumable /\ StorageIsResumable
  BY <1>3, <1>4 DEF Init, EveryChange, CapturedIsResumable, StorageIsResumable
<1> QED  BY <1>1, <1>2, <1>5 DEF LogInv

(* A step that changes nothing of what is logged, taken or saved.          *)
LEMMA LogKept ==
    ASSUME LogInv, UNCHANGED <<step, log, job, storage, uncompleted, failures, crashes>>,
           snapshots' \in Nat,
           snapshot' \in holding <=> snapshot \in holding,
           snapshot' = "taking" => snapshot = "taking" /\ UNCHANGED suspended_operations,
           snapshot = "idle" /\ snapshot' # "idle" => ~starting_up,
           \A o \in uncompleted : pc[o] = "done" => pc'[o] = "done",
           ControlTypes', StepFollowsPc'
    PROVE  LogInv'
<1> USE DEF LogInv, job, storage, holding
<1>1. TypeOK'
  <2>1. DataTypes'
    BY TypesSplit DEF DataTypes
  <2> QED  BY <2>1, TypesSplit DEF TypeOK, ControlTypes, DataTypes
<1>2. StartsUpFirst' /\ TakenIsSaved'
  BY DEF StartsUpFirst, starting_up, TakenIsSaved
<1>3. ASSUME failures = 0
      PROVE  EveryChange' /\ CapturedAreSuspended' /\ CapturedIsResumable' /\ StorageIsResumable'
  <2>1. EveryChange'
    BY <1>3 DEF EveryChange, changes
  <2>2. CapturedAreSuspended'
    BY <1>3 DEF CapturedAreSuspended
  <2>3. CapturedIsResumable' /\ StorageIsResumable'
    BY <1>3 DEF CapturedIsResumable, StorageIsResumable, resumable, changes
  <2> QED  BY <2>1, <2>2, <2>3
<1> QED  BY <1>1, <1>2, <1>3

(* The steps of an operation other than work.                              *)
LEMMA ControlLog ==
    ASSUME Inv, LogInv, Inv', NEW o \in Operation,
           \/ start_operation(o) \/ wait_to_start(o) \/ continue_start(o)
           \/ operation_suspend_point(o) \/ suspend(o) \/ continue(o)
           \/ drop_guard(o) \/ notify(o)
    PROVE  LogInv'
<1> USE DEF Inv, LogInv
<1>1. UNCHANGED <<step, log, job, storage, uncompleted, bounds>>
  BY DEF start_operation, wait_to_start, continue_start, operation_suspend_point, suspend,
         continue, drop_guard, notify
<1>2. snapshot' = snapshot \/ (snapshot = "parked" /\ snapshot' = "woken")
  BY DEF start_operation, wait_to_start, continue_start, operation_suspend_point, suspend,
         continue, drop_guard, notify, notify_suspended
<1>3. snapshot = "taking" => UNCHANGED suspended_operations
  <2>1. snapshot = "taking" => pc[o] # "suspending" /\ snapshot_requested
    BY DEF Quiet, FlagFollowsSnapshot
  <2> QED
    BY <2>1 DEF start_operation, wait_to_start, continue_start, operation_suspend_point, suspend,
       continue, drop_guard, notify, request
<1>4. pc[o] # "done" /\ \A p \in Operation \ {o} : pc'[p] = pc[p]
  BY DEF ControlTypes, goto, start_operation, wait_to_start, continue_start,
         operation_suspend_point, suspend, continue, drop_guard, notify
<1>5. StepFollowsPc'
  <2>1. ASSUME NEW p \in Operation \ {o}
        PROVE  p \in suspended_operations' <=> p \in suspended_operations
    BY DEF start_operation, wait_to_start, continue_start, operation_suspend_point, suspend,
           continue, drop_guard, notify, request
  <2>2. ASSUME NEW p \in Operation \ {o}
        PROVE  /\ pc'[p] \in {"idle", "starting", "waiting_to_start", "notified_to_start"} =>
                    step'[p] = 0 \/ p \in uncompleted'
               /\ pc'[p] \in {"notifying", "done"} => step'[p] = Steps
               /\ p \in suspended_operations' <=> pc'[p] \in {"suspended", "notified"}
    BY <1>1, <1>4, <2>1 DEF StepFollowsPc
  <2>3. /\ pc'[o] \in {"idle", "starting", "waiting_to_start", "notified_to_start"} =>
             step'[o] = 0 \/ o \in uncompleted'
        /\ pc'[o] \in {"notifying", "done"} => step'[o] = Steps
        /\ o \in suspended_operations' <=> pc'[o] \in {"suspended", "notified"}
    <3>1. CASE start_operation(o) \/ operation_suspend_point(o) \/ notify(o)
      BY <3>1 DEF start_operation, operation_suspend_point, notify, goto, StepFollowsPc,
                  ControlTypes, request
    <3>2. CASE wait_to_start(o) \/ continue_start(o)
      BY <3>2 DEF wait_to_start, continue_start, goto, StepFollowsPc, ControlTypes, request
    <3>3. CASE suspend(o)
      BY <3>3 DEF suspend, goto, StepFollowsPc, ControlTypes
    <3>4. CASE continue(o)
      BY <3>4 DEF continue, goto, StepFollowsPc, ControlTypes
    <3>5. CASE drop_guard(o)
      BY <3>5 DEF drop_guard, goto, StepFollowsPc, ControlTypes, request
    <3> QED  BY <3>1, <3>2, <3>3, <3>4, <3>5
  <2> QED  BY <2>2, <2>3 DEF StepFollowsPc
<1>6. \A p \in uncompleted : pc[p] = "done" => pc'[p] = "done"
  BY <1>4, TypesSplit DEF DataTypes
<1>7. snapshots' \in Nat /\ UNCHANGED <<failures, crashes>>
  BY <1>1, TypesSplit DEF DataTypes, bounds
<1> QED  BY <1>1, <1>2, <1>3, <1>5, <1>6, <1>7, LogKept DEF holding

LEMMA WorkLog == ASSUME Inv, LogInv, Inv', NEW o \in Operation, work(o) PROVE LogInv'
<1> USE DEF Inv, LogInv
<1>1. /\ step[o] \in Nat /\ step[o] < Steps /\ step \in [Operation -> 0 .. Steps]
      /\ step' = [step EXCEPT ![o] = @ + 1] /\ log' = log \cup {<<o, step[o]>>}
      /\ UNCHANGED <<taken, captured, saved_log, saved_operations, uncompleted, failures,
                     snapshot, suspended_operations>>
      /\ pc[o] = "working" /\ pc' = [pc EXCEPT ![o] = "at_suspend_point"]
      /\ pc \in [Operation -> {"idle", "starting", "waiting_to_start", "notified_to_start",
                              "at_suspend_point", "suspending", "suspended", "notified",
                              "working", "notifying", "done"}]
  BY StepsAssumption DEF work, goto, TypeOK, job, storage, bounds, request
<1>2. TypeOK'
  <2>1. step[o] \in 0 .. Steps /\ step[o] + 1 \in 0 .. Steps
    BY <1>1, StepsAssumption
  <2>2. step' \in [Operation -> 0 .. Steps] /\ log' \subseteq Operation \X (0 .. Steps)
    BY <1>1, <2>1, TypesSplit DEF DataTypes
  <2>3. DataTypes'
    BY <1>1, <2>2, TypesSplit DEF DataTypes, work, bounds
  <2> QED  BY <2>3, TypesSplit DEF TypeOK, ControlTypes, DataTypes
<1>3. StepFollowsPc' /\ StartsUpFirst' /\ TakenIsSaved'
  BY <1>1 DEF StepFollowsPc, StartsUpFirst, starting_up, TakenIsSaved
<1>4. ASSUME failures = 0
      PROVE  EveryChange' /\ CapturedAreSuspended' /\ CapturedIsResumable' /\ StorageIsResumable'
  <2>1. ASSUME NEW p \in Operation \ {o}
        PROVE  changes(log' \cup taken' \cup saved_log', p) = {p} \X (0 .. step'[p] - 1)
    <3>1. changes(log' \cup taken' \cup saved_log', p) = changes(log \cup taken \cup saved_log, p)
      BY <1>1 DEF changes
    <3> QED  BY <1>1, <1>4, <3>1 DEF EveryChange
  <2>2. changes(log' \cup taken' \cup saved_log', o) = {o} \X (0 .. step'[o] - 1)
    <3>1. changes(log' \cup taken' \cup saved_log', o)
            = changes(log \cup taken \cup saved_log, o) \cup {<<o, step[o]>>}
      BY <1>1 DEF changes
    <3>2. 0 .. step'[o] - 1 = (0 .. step[o] - 1) \cup {step[o]}
      BY <1>1
    <3>3. changes(log \cup taken \cup saved_log, o) = {o} \X (0 .. step[o] - 1)
      BY <1>4 DEF EveryChange
    <3>4. {o} \X ((0 .. step[o] - 1) \cup {step[o]}) = ({o} \X (0 .. step[o] - 1)) \cup {<<o, step[o]>>}
      OBVIOUS
    <3> QED  BY <3>1, <3>2, <3>3, <3>4
  <2>3. EveryChange'
    BY <2>1, <2>2 DEF EveryChange
  <2>4. CapturedAreSuspended'
    BY <1>1 DEF CapturedAreSuspended, Quiet
  <2>5. CapturedIsResumable' /\ StorageIsResumable'
    BY <1>1, <1>4 DEF CapturedIsResumable, StorageIsResumable, resumable, changes
  <2> QED  BY <2>3, <2>4, <2>5
<1> QED  BY <1>1, <1>2, <1>3, <1>4

-----------------------------------------------------------------------------
(* The snapshot thread until it has the operations, and after it took the  *)
(* log.                                                                    *)
LEMMA ThreadLog ==
    ASSUME Inv, LogInv, Inv',
           \/ request_snapshot \/ set_bit \/ check_suspended \/ park \/ wake_up
           \/ end_request \/ clear_bit
    PROVE  LogInv'
<1> USE DEF Inv, LogInv, holding
<1>1. UNCHANGED <<step, log, job, storage, uncompleted, failures, crashes, suspended_operations>>
  BY DEF request_snapshot, set_bit, check_suspended, park, wake_up, end_request, clear_bit,
         bounds, request
<1>2. snapshots' \in Nat
  <2>1. snapshots \in Nat
    BY DEF TypeOK
  <2> QED
    BY <2>1 DEF request_snapshot, set_bit, check_suspended, park, wake_up, end_request,
       clear_bit, bounds
<1>3. /\ snapshot' \in holding <=> snapshot \in holding
      /\ snapshot' # "taking"
      /\ snapshot = "idle" => ~starting_up
  BY DEF request_snapshot, set_bit, check_suspended, park, wake_up, end_request, clear_bit
<1>4. StepFollowsPc' /\ \A o \in uncompleted : pc[o] = "done" => pc'[o] = "done"
  <2>1. CASE clear_bit
    <3>1. \A o \in Operation :
             /\ pc[o] = "suspended" => pc'[o] = "notified"
             /\ pc[o] = "waiting_to_start" => pc'[o] = "notified_to_start"
             /\ pc[o] \notin {"suspended", "waiting_to_start"} => pc'[o] = pc[o]
      BY <2>1 DEF clear_bit
    <3>2. \A o \in uncompleted : o \in Operation
      BY DEF TypeOK
    <3> QED  BY <1>1, <3>1, <3>2 DEF StepFollowsPc
  <2>2. CASE ~clear_bit
    <3>1. pc' = pc
      BY <2>2 DEF request_snapshot, set_bit, check_suspended, park, wake_up, end_request
    <3> QED  BY <1>1, <3>1 DEF StepFollowsPc
  <2> QED  BY <2>1, <2>2
<1> QED  BY <1>1, <1>2, <1>3, <1>4, LogKept

(* What the snapshot thread leaves alone while it takes and saves.         *)
LEMMA ControlKept ==
    ASSUME LogInv, UNCHANGED <<pc, step, suspended_operations, uncompleted>>,
           snapshot # "idle" \/ snapshot' = "idle"
    PROVE  StepFollowsPc' /\ StartsUpFirst'
BY DEF LogInv, StepFollowsPc, StartsUpFirst, starting_up

LEMMA CollectLog == ASSUME Inv, LogInv, Inv', collect_operations PROVE LogInv'
<1> USE DEF Inv, LogInv, collect_operations, request, storage, bounds, holding
<1>1. TypeOK'
  <2>1. captured' \subseteq Operation \X (0 .. Steps)
    BY TypesSplit DEF DataTypes, ControlTypes
  <2>2. DataTypes'
    BY <2>1, TypesSplit DEF DataTypes
  <2> QED  BY <2>2, TypesSplit DEF TypeOK, ControlTypes, DataTypes
<1>2. StepFollowsPc' /\ StartsUpFirst'
  BY ControlKept
<1>3. TakenIsSaved' /\ CapturedAreSuspended' /\ CapturedIsResumable'
  BY DEF TakenIsSaved, CapturedAreSuspended, CapturedIsResumable
<1>4. failures = 0 => EveryChange' /\ StorageIsResumable'
  BY DEF EveryChange, StorageIsResumable, resumable, changes
<1> QED  BY <1>1, <1>2, <1>3, <1>4

(* All changes are taken, and with them every operation between two steps. *)
LEMMA TakeLogLog == ASSUME Inv, LogInv, Inv', take_log PROVE LogInv'
<1> USE DEF Inv, LogInv, take_log, request, storage, bounds, holding
<1>1. TypeOK'
  <2>1. DataTypes'
    BY TypesSplit DEF DataTypes
  <2> QED  BY <2>1, TypesSplit DEF TypeOK, ControlTypes, DataTypes
<1>2. StepFollowsPc' /\ StartsUpFirst'
  BY ControlKept
<1>3. TakenIsSaved' /\ CapturedAreSuspended' /\ taken = {}
  BY DEF TakenIsSaved, CapturedAreSuspended
<1>4. ASSUME failures = 0
      PROVE  EveryChange' /\ CapturedIsResumable' /\ StorageIsResumable'
  <2>1. EveryChange'
    BY <1>3, <1>4 DEF EveryChange, changes
  <2>2. StorageIsResumable'
    BY <1>4 DEF StorageIsResumable, resumable, changes
  <2>3. ASSUME NEW o \in Operation PROVE resumable(saved_log' \cup taken', captured', o)
    <3>1. changes(saved_log' \cup taken', o) = {o} \X (0 .. step[o] - 1)
      BY <1>3, <1>4 DEF EveryChange, changes
    <3>2. step[o] \in 0 .. Steps
      BY DEF TypeOK
    <3>3. captured' = {<<p, step[p]>> : p \in suspended_operations}
      BY <1>4 DEF CapturedAreSuspended
    <3>4. step[o] \in {0, Steps} \/ o \in suspended_operations
      <4>1. pc[o] \in {"idle", "starting", "waiting_to_start", "notified_to_start", "suspended",
                       "notified", "notifying", "done"}
        BY DEF Quiet, ControlTypes
      <4>2. o \in uncompleted => pc[o] = "done"
        BY DEF StartsUpFirst, starting_up
      <4> QED  BY <4>1, <4>2 DEF StepFollowsPc
    <3>5. step[o] \in {0, Steps} \/ <<o, step[o]>> \in captured'
      BY <3>3, <3>4
    <3>6. \A c \in captured' : c[1] = o => c[2] = step[o]
      BY <3>3
    <3> HIDE DEF take_log
    <3> QED  BY <3>1, <3>2, <3>5, <3>6 DEF resumable
  <2>4. CapturedIsResumable'
    BY <2>3 DEF CapturedIsResumable
  <2> QED  BY <2>1, <2>2, <2>4
<1> QED  BY <1>1, <1>2, <1>3, <1>4

LEMMA SaveLog == ASSUME Inv, LogInv, Inv', save_snapshot \/ save_fails PROVE LogInv'
<1> USE DEF Inv, LogInv, request, storage, bounds, holding
<1>1. /\ UNCHANGED <<pc, step, log, uncompleted, suspended_operations>>
      /\ taken' = {} /\ captured' = {} /\ snapshot = "saving" /\ snapshot' = "idle"
  BY DEF save_snapshot, save_fails
<1>2. TypeOK'
  <2>1. DataTypes'
    BY TypesSplit DEF DataTypes, save_snapshot, save_fails
  <2> QED  BY <2>1, TypesSplit DEF TypeOK, ControlTypes, DataTypes
<1>3. StepFollowsPc' /\ StartsUpFirst'
  BY <1>1, ControlKept
<1>4. TakenIsSaved' /\ CapturedAreSuspended' /\ CapturedIsResumable'
  BY <1>1 DEF TakenIsSaved, CapturedAreSuspended, CapturedIsResumable
<1>5. CASE save_snapshot
  <2>1. saved_log' = saved_log \cup taken
    BY <1>5 DEF save_snapshot
  <2>2. ASSUME failures = 0 PROVE EveryChange'
    BY <1>1, <2>1, <2>2 DEF EveryChange, changes
  <2>3. ASSUME failures = 0 PROVE StorageIsResumable'
    <3>1. CASE taken = {}
      BY <1>5, <2>3, <3>1 DEF save_snapshot, StorageIsResumable, resumable, changes
    <3>2. CASE taken # {}
      BY <1>1, <1>5, <2>1, <2>3, <3>2 DEF save_snapshot, StorageIsResumable, CapturedIsResumable,
         resumable, changes
    <3> QED  BY <3>1, <3>2
  <2> QED  BY <1>2, <1>3, <1>4, <1>5, <2>2, <2>3 DEF save_snapshot
<1>6. CASE save_fails
  <2>1. failures' # 0
    BY <1>6 DEF save_fails, TypeOK
  <2> QED  BY <1>2, <1>3, <1>4, <2>1
<1> QED  BY <1>5, <1>6

-----------------------------------------------------------------------------
(* After a restart exactly the saved changes are done.                     *)
LEMMA RestartLog == ASSUME Inv, LogInv, Inv', restart PROVE LogInv'
<1> USE DEF Inv, LogInv, storage, holding
<1> DEFINE saved(o) == \E c \in saved_log : c[1] = o
           left(o)  == CHOOSE c \in saved_operations : c[1] = o
<1>1. /\ log' = {} /\ taken' = {} /\ captured' = {} /\ suspended_operations' = {}
      /\ snapshot' = "idle" /\ UNCHANGED <<saved_log, saved_operations, failures>>
      /\ uncompleted' = {c[1] : c \in saved_operations}
  BY DEF restart
<1>2. saved_log \subseteq Operation \X (0 .. Steps) /\ saved_operations \subseteq Operation \X (0 .. Steps)
  BY DEF TypeOK
<1>3. ASSUME NEW o \in Operation, o \in uncompleted'
      PROVE  left(o) \in saved_operations /\ left(o)[1] = o
  BY <1>1, <1>3
<1>4. ASSUME NEW o \in Operation
      PROVE  /\ o \in uncompleted' => step'[o] = left(o)[2] /\ pc'[o] = "idle"
             /\ o \notin uncompleted' /\ saved(o) => step'[o] = Steps /\ pc'[o] = "done"
             /\ o \notin uncompleted' /\ ~saved(o) => step'[o] = 0 /\ pc'[o] = "idle"
  BY DEF restart
<1>5. \A o \in Operation : step'[o] \in 0 .. Steps
  BY <1>2, <1>3, <1>4, StepsAssumption
<1>6. TypeOK'
  <2>1. step' = [o \in Operation |-> step'[o]]
    BY DEF restart
  <2>2. step' \in [Operation -> 0 .. Steps]
    BY <1>5, <2>1
  <2>3. uncompleted' \subseteq Operation
    BY <1>1, <1>2
  <2>4. crashes' \in Nat /\ snapshots' \in Nat /\ failures' \in Nat
    BY DEF restart, TypeOK
  <2>5. DataTypes'
    BY <1>1, <2>2, <2>3, <2>4, TypesSplit DEF DataTypes
  <2> QED  BY <2>5, TypesSplit DEF TypeOK, ControlTypes, DataTypes
<1>7. StepFollowsPc'
  BY <1>1, <1>4 DEF StepFollowsPc
<1>8. StartsUpFirst' /\ TakenIsSaved' /\ CapturedAreSuspended' /\ CapturedIsResumable'
  BY <1>1 DEF StartsUpFirst, TakenIsSaved, CapturedAreSuspended, CapturedIsResumable
<1>9. ASSUME failures = 0 PROVE EveryChange' /\ StorageIsResumable'
  <2>1. StorageIsResumable'
    BY <1>1, <1>9 DEF StorageIsResumable, resumable, changes
  <2>2. ASSUME NEW o \in Operation
        PROVE  changes(saved_log, o) = {o} \X (0 .. step'[o] - 1)
    <3>1. PICK n \in 0 .. Steps :
             /\ changes(saved_log, o) = {o} \X (0 .. n - 1)
             /\ n \in {0, Steps} \/ <<o, n>> \in saved_operations
             /\ \A c \in saved_operations : c[1] = o => c[2] = n
      BY <1>9 DEF StorageIsResumable, resumable
    <3>2. CASE o \in uncompleted'
      BY <1>3, <1>4, <3>1, <3>2
    <3>3. CASE o \notin uncompleted'
      <4>1. n \in {0, Steps}
        BY <1>1, <3>1, <3>3
      <4>2. CASE saved(o)
        <5>1. n # 0
          BY <3>1, <4>2 DEF changes
        <5> QED  BY <1>4, <3>1, <3>3, <4>1, <4>2, <5>1
      <4>3. CASE ~saved(o)
        <5>1. changes(saved_log, o) = {} /\ {o} \X (0 .. 0 - 1) = {}
          BY <4>3 DEF changes
        <5> QED  BY <1>4, <3>3, <4>3, <5>1
      <4> QED  BY <4>2, <4>3
    <3> QED  BY <3>2, <3>3
  <2>3. EveryChange'
    BY <1>1, <2>2 DEF EveryChange, changes
  <2> QED  BY <2>1, <2>3
<1> QED  BY <1>1, <1>6, <1>7, <1>8, <1>9

LEMMA LogStep == Inv /\ LogInv /\ Inv' /\ [Next]_vars => LogInv'
<1> SUFFICES ASSUME Inv, LogInv, Inv', [Next]_vars PROVE LogInv'
  OBVIOUS
<1>1. CASE UNCHANGED vars
  <2>1. ControlTypes' /\ StepFollowsPc'
    BY <1>1 DEF vars, counter, request, Inv, LogInv, ControlTypes, StepFollowsPc
  <2> QED
    BY <1>1, <2>1, LogKept DEF vars, counter, request, bounds, LogInv, TypeOK
<1>2. ASSUME NEW o \in Operation, start_operation(o) \/ execute(o) PROVE LogInv'
  BY <1>2, ControlLog, WorkLog DEF execute
<1>3. CASE request_snapshot \/ take_snapshot
  BY <1>3, ThreadLog, CollectLog, TakeLogLog, SaveLog DEF take_snapshot
<1>4. CASE restart
  BY <1>4, RestartLog
<1> QED  BY <1>1, <1>2, <1>3, <1>4 DEF Next

(* As long as no snapshot fails to be saved, a restart finds in the        *)
(* backing storage the first changes of every operation, and the operation *)
(* itself if it was not complete; and no change is in none of log,         *)
(* snapshot and storage (snapshot, mod.rs:798-953).                        *)
THEOREM SavedAlwaysComplete == Spec => []SavedIsComplete
<1>1. LogInv => SavedIsComplete
  <2> SUFFICES ASSUME LogInv PROVE ChangesAreKept /\ SavedIsResumable
    BY DEF LogInv, SavedIsComplete
  <2>1. SavedIsResumable
    BY DEF LogInv, StorageIsResumable, resumable, changes, SavedIsResumable
  <2>2. ASSUME failures = 0, NEW o \in Operation, NEW n \in 0 .. step[o] - 1
        PROVE  <<o, n>> \in log \cup taken \cup saved_log
    <3>1. <<o, n>> \in changes(log \cup taken \cup saved_log, o)
      BY <2>2 DEF LogInv, EveryChange
    <3> QED  BY <3>1 DEF changes
  <2> QED  BY <2>1, <2>2 DEF ChangesAreKept
<1> QED  BY InitInv, NextInv, LogInit, LogStep, <1>1, PTL DEF Spec
=============================================================================
