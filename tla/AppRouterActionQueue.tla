--------------------------- MODULE AppRouterActionQueue ---------------------------
(***************************************************************************)
(* The action queue of the app router (packages/next/src/client/           *)
(* components/app-router-instance.ts and use-action-queue.ts).             *)
(*                                                                         *)
(* An action is dispatched with a payload; the reducer's promise for it    *)
(* settles later.  Actions run one after the other, but a navigation or a  *)
(* restore takes the place of the pending action, which is discarded.      *)
(*                                                                         *)
(* JavaScript runs a handler to its end, so one step is one dispatch or    *)
(* one settled promise, with everything it calls.  Actions are numbered in *)
(* the order of their dispatch, and a router state is named by the action  *)
(* that produced it; 0 is null, or the initial state.                      *)
(***************************************************************************)
EXTENDS Integers, Sequences, FiniteSets

CONSTANTS
    MaxDispatches,    \* bound: how many actions the client dispatches
    MaxRejections     \* bound: how many reducer promises reject

ASSUME BoundsAssumption == MaxDispatches \in Nat /\ MaxRejections \in Nat

Types == {"navigate", "restore", "server-action", "refresh"}

VARIABLES
    queue,         \* state, pending, last and needsRefresh of AppRouterActionQueue
    nodes,         \* the ActionQueueNodes, each with its promise
    shown,         \* the action whose promise or state React was given last
    dispatches, rejections   \* counters for the bounds

vars == <<queue, nodes, shown, dispatches, rejections>>

(* A handler changes the queue, the nodes and what React shows; its parts  *)
(* are functions from one such record to the next.                         *)
router == [queue |-> queue, nodes |-> nodes, shown |-> shown]

become(r) == queue' = r.queue /\ nodes' = r.nodes /\ shown' = r.shown

Init ==
    /\ queue = [state |-> 0, pending |-> 0, last |-> 0, needsRefresh |-> FALSE]
    /\ nodes = << >>
    /\ shown = 0
    /\ dispatches = 0 /\ rejections = 0

-----------------------------------------------------------------------------
(* Mutant: the reducer is called with the state of the action's dispatch.  *)
run_action_on_stale(r, n) ==
    [r EXCEPT !.queue.pending   = n,
              !.nodes[n].status = "running"]

(* runAction: the reducer is called with the current state.                *)
run_action(r, n) ==
    [r EXCEPT !.queue.pending   = n,
              !.nodes[n].status = "running",
              !.nodes[n].base   = r.queue.state]

(* newAction; React is given its promise, unless it is a restore.          *)
new_action(r, type) ==
    [r EXCEPT !.nodes = Append(@, [type |-> type, next |-> 0, discarded |-> FALSE,
                                   status |-> "queued", base |-> r.queue.state]),
              !.shown = IF type = "restore" THEN @ ELSE Len(r.nodes) + 1]

(* The pending action is discarded, and the rest of the queue follows the  *)
(* navigation that takes its place.  last stays as it is.                  *)
preempt(r, n) ==
    LET p == r.queue.pending
    IN  run_action([r EXCEPT !.nodes[p].discarded = TRUE,
                             !.nodes[n].next = r.nodes[p].next,
                             !.queue.needsRefresh = @ \/ r.nodes[p].type = "server-action"],
                   n)

(* Mutant: the action is put in front of the queue.                        *)
append_in_front(r, n) ==
    [r EXCEPT !.nodes[n].next = r.nodes[r.queue.pending].next,
              !.nodes[r.queue.pending].next = n]

append(r, n) ==
    [r EXCEPT !.nodes[r.queue.last].next = n, !.queue.last = n]

(* dispatchAction                                                          *)
dispatch_action(r, type) ==
    LET n   == Len(r.nodes) + 1
        new == new_action(r, type)
    IN  IF r.queue.pending = 0
          THEN run_action([new EXCEPT !.queue.last = n], n)
          ELSE IF type \in {"navigate", "restore"} THEN preempt(new, n) ELSE append(new, n)

(* Mutant: the queue stays at its last action.                             *)
run_remaining_actions_stay(r) ==
    LET next == r.nodes[r.queue.pending].next
    IN  IF next # 0 THEN run_action(r, next) ELSE r

(* runRemainingActions                                                     *)
run_remaining_actions(r) ==
    IF r.queue.pending = 0 THEN r ELSE
    LET next == r.nodes[r.queue.pending].next
        rest == [r EXCEPT !.queue.pending = next]
    IN  IF next # 0 THEN run_action(rest, next)
        ELSE IF r.queue.needsRefresh
          THEN dispatch_action([rest EXCEPT !.queue.needsRefresh = FALSE], "refresh")
          ELSE rest

(* action.resolve: a restore shows its state now, the others' promise is   *)
(* resolved.                                                               *)
resolve(r, n) ==
    [r EXCEPT !.nodes[n].status = "resolved",
              !.shown = IF r.nodes[n].type = "restore" THEN n ELSE @]

-----------------------------------------------------------------------------
dispatch(type) ==
    /\ dispatches < MaxDispatches
    /\ dispatches' = dispatches + 1
    /\ become(dispatch_action(router, type))
    /\ UNCHANGED rejections

(* Mutant: the state of a discarded action is applied.                     *)
discard_result_applied(n) ==
    /\ nodes[n].status = "running" /\ nodes[n].discarded
    /\ become(resolve([router EXCEPT !.queue.state = n], n))
    /\ UNCHANGED <<dispatches, rejections>>

(* handleResult for a discarded action: its state is discarded too.        *)
discard_result(n) ==
    /\ nodes[n].status = "running" /\ nodes[n].discarded
    /\ nodes' = [nodes EXCEPT ![n].status = "resolved"]
    /\ UNCHANGED <<queue, shown, dispatches, rejections>>

(* handleResult                                                            *)
handle_result(n) ==
    /\ nodes[n].status = "running" /\ ~nodes[n].discarded
    /\ become(resolve(run_remaining_actions([router EXCEPT !.queue.state = n]), n))
    /\ UNCHANGED <<dispatches, rejections>>

(* Mutant: a rejection does not move the queue on.                         *)
handle_rejection_stop(n) ==
    /\ nodes[n].status = "running"
    /\ rejections < MaxRejections
    /\ rejections' = rejections + 1
    /\ nodes' = [nodes EXCEPT ![n].status = "rejected"]
    /\ UNCHANGED <<queue, shown, dispatches>>

(* The promise of an action rejects, whether it was discarded or not.      *)
handle_rejection(n) ==
    /\ nodes[n].status = "running"
    /\ rejections < MaxRejections
    /\ rejections' = rejections + 1
    /\ LET r == run_remaining_actions(router)
       IN  become([r EXCEPT !.nodes[n].status = "rejected"])
    /\ UNCHANGED dispatches

settle(n) == discard_result(n) \/ handle_result(n) \/ handle_rejection(n)

Next == \/ \E type \in Types : dispatch(type)
        \/ \E n \in DOMAIN nodes : settle(n)

Spec == Init /\ [][Next]_vars

(* Every promise of a reducer settles: a request is answered or fails.     *)
LiveSpec == Spec /\ WF_vars(\E n \in DOMAIN nodes : settle(n))

-----------------------------------------------------------------------------
Ids == 0 .. Len(nodes)

TypeOK ==
    /\ queue \in [state : Ids, pending : Ids, last : Ids, needsRefresh : BOOLEAN]
    /\ \A n \in DOMAIN nodes :
          nodes[n] \in [type : Types, next : Ids, discarded : BOOLEAN,
                        status : {"queued", "running", "resolved", "rejected"}, base : Ids]
    /\ shown \in Ids
    /\ dispatches \in Nat /\ rejections \in Nat

(* The actions behind the pending one: the least set closed under next.    *)
follows(S) ==
    \A m \in S \cup {queue.pending} :
        m # 0 /\ nodes[m].next # 0 => nodes[m].next \in S

waiting == {n \in DOMAIN nodes : \A S \in SUBSET DOMAIN nodes : follows(S) => n \in S}

discarded_rejected ==
    \E n \in DOMAIN nodes : nodes[n].discarded /\ nodes[n].status = "rejected"

(* The queue stands at an action that is running and counts: otherwise     *)
(* nothing would move it on.  In particular the refresh that a discarded   *)
(* server action asks for (needsRefresh) is not left behind.               *)
PendingMoves ==
    IF queue.pending = 0
      THEN ~queue.needsRefresh
      ELSE LET p == nodes[queue.pending] IN p.status = "running" /\ ~p.discarded

(* Actions run one at a time and in order: one that waits is overtaken     *)
(* only by navigations and restores, and of two that run one is discarded, *)
(* unless the promise of a discarded action rejected (its handler moves    *)
(* the queue on as well).                                                  *)
OneAtATime ==
    /\ \A a \in waiting : \A b \in DOMAIN nodes :
          a < b /\ nodes[b].type \notin {"navigate", "restore"} => nodes[b].status = "queued"
    /\ \/ discarded_rejected
       \/ Cardinality({n \in DOMAIN nodes : nodes[n].status = "running" /\ ~nodes[n].discarded}) <= 1

(* A state is computed from the state it replaces, so no update is lost,   *)
(* under the same condition.                                               *)
BuildsOnCurrent ==
    [][queue'.state # queue.state /\ ~discarded_rejected =>
          nodes[queue'.state].base = queue.state]_vars

(* A restore shows its state only when it is handled, and a navigation     *)
(* that takes over waiting actions is shown before they run.               *)
out_of_order ==
    \E n \in DOMAIN nodes : nodes[n].type = "restore" \/ (nodes[n].discarded /\ nodes[n].next # 0)

(* When nothing is pending and what React was given last is resolved, it   *)
(* is the router's state (use-action-queue.ts:32: the hook "only exists to *)
(* synchronize state that lives outside of React"), also after an action   *)
(* was discarded and refreshed, as long as nothing was out of order.       *)
ShownIsCurrent ==
    queue.pending = 0 /\ shown # 0 /\ nodes[shown].status = "resolved"
        => shown = queue.state \/ out_of_order \/ discarded_rejected

(* last was discarded when a navigation took the place of the pending      *)
(* action, which was the last one: what is appended to it is not reached.  *)
last_is_lost == queue.pending # 0 /\ queue.last \notin waiting \cup {queue.pending}

(* An action that is not run at once can be reached from the pending one.  *)
DispatchedWaits ==
    [][\A n \in DOMAIN nodes' \ DOMAIN nodes :
          nodes'[n].status = "queued" => n \in waiting' \/ last_is_lost]_vars

(* What waits in the queue is run.                                         *)
WaitingRuns ==
    \A n \in 1 .. MaxDispatches :
        n \in waiting ~> n \in DOMAIN nodes /\ nodes[n].status # "queued"

(* A discarded server action is followed by its refresh                    *)
(* (runRemainingActions with needsRefresh).                                *)
RefreshFollows == queue.needsRefresh ~> ~queue.needsRefresh

(* app-router-instance.ts:184: an action is added "to the end of the       *)
(* queue" and "will be started by runRemainingActions after the previous   *)
(* action finishes".                                                       *)
QueuedIsWaiting ==
    \A n \in DOMAIN nodes : nodes[n].status = "queued" => n \in waiting

(* What is dispatched is run at once or waits where it is reached, what    *)
(* waits is run, through every later take-over and rejection, and so is    *)
(* the refresh a discarded action asks for.  An action dispatched while    *)
(* last is a discarded action is excepted: it never runs, which is what    *)
(* QueuedIsWaiting finds.                                                  *)
DispatchedRuns == DispatchedWaits /\ WaitingRuns /\ RefreshFollows

(* The queue is a list of actions of which one runs.                       *)
QueueInOrder == TypeOK /\ OneAtATime
=============================================================================
