------------------------------- MODULE SegmentLRU -------------------------------
(***************************************************************************)
(* The LRU of the segment cache, packages/next/src/client/components/      *)
(* segment-cache-impl/lru.ts: a ring of nodes, doubly linked through       *)
(* fields of the nodes themselves, of which `head` was used last.  Callers *)
(* put, resize and delete nodes; when the sizes exceed the maximum, an     *)
(* idle callback evicts from the tail.  Nothing else runs while cleanup    *)
(* does.                                                                   *)
(***************************************************************************)
EXTENDS Integers

CONSTANTS Nodes, None,
          Sizes,        \* sizes a node may be given
          maxLruSize

VARIABLES prev, next, size, head, lruSize, didScheduleCleanup, cleaning

vars == <<prev, next, size, head, lruSize, didScheduleCleanup, cleaning>>

Init ==
    /\ prev = [n \in Nodes |-> None] /\ next = prev
    /\ size = [n \in Nodes |-> 0]
    /\ head = None /\ lruSize = 0
    /\ didScheduleCleanup = FALSE /\ cleaning = FALSE

tracked(n) == next[n] # None /\ prev[n] # None

ensureCleanupIsScheduled ==
    didScheduleCleanup' = (didScheduleCleanup \/ lruSize' > maxLruSize)

(* A node that is put again is taken from its place; then it comes first.  *)
(* With a head that has lost its tail this throws, which is not followed.  *)
put(n) ==
    LET moved == tracked(n)
        prev1 == IF moved THEN [prev EXCEPT ![next[n]] = prev[n]] ELSE prev
        next1 == IF moved THEN [next EXCEPT ![prev[n]] = next[n]] ELSE next
        tail  == IF head = None THEN None ELSE prev1[head]
    IN  /\ ~cleaning /\ head # n
        /\ head # None => tail # None
        /\ IF moved THEN UNCHANGED <<lruSize, didScheduleCleanup>>
           ELSE lruSize' = lruSize + size[n] /\ ensureCleanupIsScheduled
        /\ prev' = IF head = None THEN [prev1 EXCEPT ![n] = n]
                   ELSE [prev1 EXCEPT ![n] = tail, ![head] = n]
        /\ next' = IF head = None THEN [next1 EXCEPT ![n] = n]
                   ELSE [next1 EXCEPT ![tail] = n, ![n] = head]
        /\ head' = n
        /\ UNCHANGED <<size, cleaning>>

updateSize(n, newNodeSize) ==
    /\ ~cleaning
    /\ size' = [size EXCEPT ![n] = newNodeSize]
    /\ IF next[n] = None THEN UNCHANGED <<lruSize, didScheduleCleanup>>
       ELSE lruSize' = lruSize - size[n] + newNodeSize /\ ensureCleanupIsScheduled
    /\ UNCHANGED <<prev, next, head, cleaning>>

(* When the head is deleted, its neighbours go on pointing at it.          *)
deleteNode(n) ==
    IF ~tracked(n) THEN UNCHANGED <<prev, next, head, lruSize>>
    ELSE LET unlinked == head # n
         IN  /\ lruSize' = lruSize - size[n]
             /\ head' = IF unlinked THEN head ELSE IF next[n] = head THEN None ELSE next[n]
             /\ prev' = IF unlinked THEN [prev EXCEPT ![n] = None, ![next[n]] = prev[n]]
                        ELSE [prev EXCEPT ![n] = None]
             /\ next' = IF unlinked THEN [next EXCEPT ![n] = None, ![prev[n]] = next[n]]
                        ELSE [next EXCEPT ![n] = None]

delete(n) ==
    /\ ~cleaning
    /\ deleteNode(n)
    /\ UNCHANGED <<size, didScheduleCleanup, cleaning>>

startCleanup ==
    /\ didScheduleCleanup /\ ~cleaning
    /\ didScheduleCleanup' = FALSE /\ cleaning' = TRUE
    /\ UNCHANGED <<prev, next, size, head, lruSize>>

(* One turn of cleanup's loop, which an exception ends, too.               *)
evictTail ==
    /\ cleaning
    /\ IF lruSize * 10 > maxLruSize * 9 /\ head # None /\ prev[head] # None
         THEN deleteNode(prev[head]) /\ UNCHANGED cleaning
         ELSE cleaning' = FALSE /\ UNCHANGED <<prev, next, head, lruSize>>
    /\ UNCHANGED <<size, didScheduleCleanup>>

Next ==
    \/ \E n \in Nodes : put(n) \/ delete(n) \/ \E s \in Sizes : updateSize(n, s)
    \/ startCleanup \/ evictTail

Spec == Init /\ [][Next]_vars /\ WF_vars(evictTail)

-----------------------------------------------------------------------------
(* cleanup comes to an end: evicting from the tail empties the list sooner *)
(* or later, whatever was put, resized and deleted before.                 *)
CleanupEnds == cleaning ~> ~cleaning
=============================================================================
