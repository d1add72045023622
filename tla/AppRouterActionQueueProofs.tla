------------------------ MODULE AppRouterActionQueueProofs ------------------------
(***************************************************************************)
(* Theorems about AppRouterActionQueue, for any number of dispatches and   *)
(* rejections: the types, and all the safety properties of its run.        *)
(*                                                                         *)
(* A handler is a composition of functions on the router, so the proof is  *)
(* made for a router r, in two layers: what each function changes, field   *)
(* by field (Ran, Added, Preempted, Appended, Dispatched, Remained,        *)
(* Settled), and then that the invariant Good(r) is kept (DispatchGood,    *)
(* HandledGood, DiscardedGood).  What waits behind the pending action is   *)
(* the least set closed under next: an upper bound of it is any set that   *)
(* is closed (WaitingIsLeast), and no induction along the list is needed.  *)
(***************************************************************************)
EXTENDS AppRouterActionQueue, FiniteSetTheorems, TLAPS

Statuses == {"queued", "running", "resolved", "rejected"}
Node == [type : Types, next : Nat, discarded : BOOLEAN, status : Statuses, base : Nat]
Queue == [state : Nat, pending : Nat, last : Nat, needsRefresh : BOOLEAN]

(* A router, with what names an action naming one of its own.              *)
Router == [queue : Queue, nodes : Seq(Node), shown : Nat]

Typed(r) ==
    /\ r \in Router
    /\ r.queue.state <= Len(r.nodes) /\ r.queue.pending <= Len(r.nodes)
    /\ r.queue.last <= Len(r.nodes) /\ r.shown <= Len(r.nodes)
    /\ \A x \in DOMAIN r.nodes : r.nodes[x].next <= Len(r.nodes) /\ r.nodes[x].base <= Len(r.nodes)

-----------------------------------------------------------------------------
(* Changing one field of a router.                                         *)
LEMMA Fields ==
    ASSUME NEW q, NEW ns, NEW sh, NEW v
    PROVE  /\ [[queue |-> q, nodes |-> ns, shown |-> sh] EXCEPT !.queue = v]
              = [queue |-> v, nodes |-> ns, shown |-> sh]
           /\ [[queue |-> q, nodes |-> ns, shown |-> sh] EXCEPT !.nodes = v]
              = [queue |-> q, nodes |-> v, shown |-> sh]
           /\ [[queue |-> q, nodes |-> ns, shown |-> sh] EXCEPT !.shown = v]
              = [queue |-> q, nodes |-> ns, shown |-> v]
OBVIOUS

(* What each function does to a router, field by field.                    *)

Same(r, s, x) ==
    /\ s.nodes[x].type = r.nodes[x].type /\ s.nodes[x].discarded = r.nodes[x].discarded
    /\ s.nodes[x].next = r.nodes[x].next

(* s is r with n running on the state of r, and nothing else changed.      *)
Ran(r, n, s) ==
    /\ s.queue.pending = n /\ s.queue.state = r.queue.state /\ s.queue.last = r.queue.last
    /\ s.queue.needsRefresh = r.queue.needsRefresh /\ s.shown = r.shown
    /\ Len(s.nodes) = Len(r.nodes) /\ DOMAIN s.nodes = DOMAIN r.nodes
    /\ s.nodes[n].status = "running" /\ s.nodes[n].base = r.queue.state
    /\ \A x \in DOMAIN r.nodes :
          /\ Same(r, s, x)
          /\ x # n => s.nodes[x] = r.nodes[x]

LEMMA RunAction ==
    ASSUME NEW r, Typed(r), NEW n \in DOMAIN r.nodes
    PROVE  Typed(run_action(r, n)) /\ Ran(r, n, run_action(r, n))
<1> DEFINE m == [[r.nodes[n] EXCEPT !.status = "running"] EXCEPT !.base = r.queue.state]
           s == run_action(r, n)
<1>1. r.nodes \in Seq(Node) /\ r.nodes[n] \in Node /\ r.queue \in Queue /\ r.shown \in Nat
  BY DEF Typed, Router
<1>2. /\ m \in Node /\ m.status = "running" /\ m.base = r.queue.state
      /\ m.type = r.nodes[n].type /\ m.next = r.nodes[n].next
      /\ m.discarded = r.nodes[n].discarded
  BY <1>1 DEF Node, Queue, Statuses
<1>3. s = [queue |-> [r.queue EXCEPT !.pending = n], nodes |-> [r.nodes EXCEPT ![n] = m],
           shown |-> r.shown]
  <2> DEFINE q  == [r.queue EXCEPT !.pending = n]
             m1 == [r.nodes[n] EXCEPT !.status = "running"]
             n1 == [r.nodes EXCEPT ![n] = m1]
             r1 == [queue |-> q, nodes |-> r.nodes, shown |-> r.shown]
             r2 == [queue |-> q, nodes |-> n1, shown |-> r.shown]
  <2>1. s = [[[r EXCEPT !.queue.pending = n] EXCEPT !.nodes[n].status = "running"]
               EXCEPT !.nodes[n].base = r.queue.state]
    BY DEF run_action
  <2>2. r = [queue |-> r.queue, nodes |-> r.nodes, shown |-> r.shown]
    BY DEF Typed, Router
  <2>3. [r EXCEPT !.queue.pending = n] = r1
    BY <2>2
  <2>4. [r1 EXCEPT !.nodes[n].status = "running"] = r2
    OBVIOUS
  <2>5. n1[n] = m1
    BY <1>1
  <2>6. [n1 EXCEPT ![n].base = r.queue.state] = [r.nodes EXCEPT ![n] = m]
    BY <1>1, <2>5
  <2>7. [r2 EXCEPT !.nodes[n].base = r.queue.state]
        = [queue |-> q, nodes |-> [r.nodes EXCEPT ![n] = m], shown |-> r.shown]
    BY <2>6
  <2> QED  BY <2>1, <2>3, <2>4, <2>7
<1>4. /\ s.queue = [r.queue EXCEPT !.pending = n] /\ s.nodes = [r.nodes EXCEPT ![n] = m]
      /\ s.shown = r.shown
  BY <1>3
<1>5. /\ s.nodes \in Seq(Node) /\ Len(s.nodes) = Len(r.nodes) /\ DOMAIN s.nodes = DOMAIN r.nodes
      /\ s.nodes[n] = m /\ \A x \in DOMAIN r.nodes : x # n => s.nodes[x] = r.nodes[x]
  BY <1>1, <1>2, <1>4
<1>6. n \in Nat /\ n <= Len(r.nodes)
  BY <1>1
<1>7. /\ s.queue \in Queue /\ s.queue.pending = n /\ s.queue.state = r.queue.state
      /\ s.queue.last = r.queue.last /\ s.queue.needsRefresh = r.queue.needsRefresh
  BY <1>1, <1>4, <1>6 DEF Queue
<1>8. Ran(r, n, s)
  BY <1>2, <1>4, <1>5, <1>7 DEF Ran, Same
<1>9. Typed(s)
  <2>1. s \in Router
    BY <1>3, <1>1, <1>4, <1>5, <1>7 DEF Router
  <2>2. \A x \in DOMAIN s.nodes : s.nodes[x].next <= Len(s.nodes) /\ s.nodes[x].base <= Len(s.nodes)
    BY <1>2, <1>5 DEF Typed
  <2> QED  BY <2>1, <2>2, <1>4, <1>5, <1>6, <1>7 DEF Typed
<1> QED  BY <1>8, <1>9

(* s is r with one more action at its end.                                 *)
Added(r, type, s) ==
    LET n == Len(r.nodes) + 1
    IN  /\ s.queue = r.queue
        /\ Len(s.nodes) = n /\ n \in DOMAIN s.nodes /\ DOMAIN s.nodes = DOMAIN r.nodes \cup {n}
        /\ n \notin DOMAIN r.nodes
        /\ s.nodes[n] = [type |-> type, next |-> 0, discarded |-> FALSE, status |-> "queued",
                         base |-> r.queue.state]
        /\ \A x \in DOMAIN r.nodes : s.nodes[x] = r.nodes[x]
        /\ s.shown = IF type = "restore" THEN r.shown ELSE n

LEMMA NewAction ==
    ASSUME NEW r, Typed(r), NEW type \in Types
    PROVE  Typed(new_action(r, type)) /\ Added(r, type, new_action(r, type))
<1> DEFINE n == Len(r.nodes) + 1
           m == [type |-> type, next |-> 0, discarded |-> FALSE, status |-> "queued",
                 base |-> r.queue.state]
           s == new_action(r, type)
<1>1. r.nodes \in Seq(Node) /\ r.queue \in Queue /\ r.shown \in Nat
  BY DEF Typed, Router
<1>2. m \in Node
  BY <1>1 DEF Node, Queue, Statuses
<1>3. s = [queue |-> r.queue, nodes |-> Append(r.nodes, m),
           shown |-> IF type = "restore" THEN r.shown ELSE n]
  <2>1. s = [[r EXCEPT !.nodes = Append(r.nodes, m)]
               EXCEPT !.shown = IF type = "restore" THEN r.shown ELSE n]
    BY DEF new_action
  <2>2. r = [queue |-> r.queue, nodes |-> r.nodes, shown |-> r.shown]
    BY DEF Typed, Router
  <2>3. [r EXCEPT !.nodes = Append(r.nodes, m)]
        = [queue |-> r.queue, nodes |-> Append(r.nodes, m), shown |-> r.shown]
    <3> DEFINE q == r.queue  ns == r.nodes  sh == r.shown  v == Append(ns, m)
    <3>1. [[queue |-> q, nodes |-> ns, shown |-> sh] EXCEPT !.nodes = v]
          = [queue |-> q, nodes |-> v, shown |-> sh]
      <4> HIDE DEF q, ns, sh, v
      <4> QED  BY Fields
    <3> QED  BY <2>2, <3>1
  <2> QED  BY <2>1, <2>3, Fields
<1>4. /\ s.queue = r.queue /\ s.nodes = Append(r.nodes, m)
      /\ s.shown = IF type = "restore" THEN r.shown ELSE n
  BY <1>3
<1>5. /\ s.nodes \in Seq(Node) /\ Len(s.nodes) = n /\ DOMAIN s.nodes = DOMAIN r.nodes \cup {n}
      /\ n \notin DOMAIN r.nodes /\ s.nodes[n] = m
      /\ \A x \in DOMAIN r.nodes : s.nodes[x] = r.nodes[x]
  BY <1>1, <1>2, <1>4
<1>6. Added(r, type, s)
  BY <1>4, <1>5 DEF Added
<1>7. s \in Router
  <2>1. Len(r.nodes) \in Nat
    BY <1>1
  <2>2. (IF type = "restore" THEN r.shown ELSE n) \in Nat
    BY <2>1, <1>1
  <2> HIDE DEF n, s
  <2> QED  BY <2>2, <1>1, <1>3, <1>4, <1>5 DEF Router
<1>8. /\ Len(r.nodes) \in Nat /\ r.queue.state \in Nat /\ r.queue.pending \in Nat
      /\ r.queue.last \in Nat
  BY <1>1 DEF Queue
<1>9. \A x \in DOMAIN r.nodes : r.nodes[x].next \in Nat /\ r.nodes[x].base \in Nat
  <2>1. \A x \in DOMAIN r.nodes : r.nodes[x] \in Node
    BY <1>1
  <2> QED  BY <2>1 DEF Node
<1>10. \A x \in DOMAIN s.nodes : s.nodes[x].next <= Len(s.nodes) /\ s.nodes[x].base <= Len(s.nodes)
  BY <1>5, <1>8, <1>9 DEF Typed
<1>11. s.shown <= Len(s.nodes)
  BY <1>1, <1>4, <1>5, <1>8 DEF Typed
<1>12. /\ s.queue.state <= Len(s.nodes) /\ s.queue.pending <= Len(s.nodes)
       /\ s.queue.last <= Len(s.nodes)
  BY <1>4, <1>5, <1>8 DEF Typed
<1> QED  BY <1>6, <1>7, <1>10, <1>11, <1>12 DEF Typed

(* s is r with n in the place of the pending action, which is discarded.   *)
Preempted(r, n, s) ==
    LET p == r.queue.pending
    IN  /\ s.queue.pending = n /\ s.queue.state = r.queue.state /\ s.queue.last = r.queue.last
        /\ s.queue.needsRefresh = (r.queue.needsRefresh \/ r.nodes[p].type = "server-action")
        /\ s.shown = r.shown /\ Len(s.nodes) = Len(r.nodes) /\ DOMAIN s.nodes = DOMAIN r.nodes
        /\ \A x \in DOMAIN r.nodes : s.nodes[x].type = r.nodes[x].type
        /\ \A x \in DOMAIN r.nodes : x \notin {n, p} => s.nodes[x] = r.nodes[x]
        /\ s.nodes[p].next = r.nodes[p].next /\ s.nodes[p].status = r.nodes[p].status
        /\ s.nodes[p].base = r.nodes[p].base /\ s.nodes[p].discarded
        /\ s.nodes[n].next = r.nodes[p].next /\ s.nodes[n].status = "running"
        /\ s.nodes[n].base = r.queue.state /\ s.nodes[n].discarded = r.nodes[n].discarded

LEMMA Preempt ==
    ASSUME NEW r, Typed(r), NEW n \in DOMAIN r.nodes, r.queue.pending # 0, r.queue.pending # n
    PROVE  Typed(preempt(r, n)) /\ Preempted(r, n, preempt(r, n))
<1> DEFINE p  == r.queue.pending
           m  == [r.nodes[p] EXCEPT !.discarded = TRUE]
           k  == [r.nodes[n] EXCEPT !.next = r.nodes[p].next]
           nr == r.queue.needsRefresh \/ r.nodes[p].type = "server-action"
           q  == [r.queue EXCEPT !.needsRefresh = nr]
           n1 == [r.nodes EXCEPT ![p] = m]
           n2 == [n1 EXCEPT ![n] = k]
           u  == [queue |-> q, nodes |-> n2, shown |-> r.shown]
<1>1. r.nodes \in Seq(Node) /\ r.queue \in Queue /\ r.shown \in Nat
  BY DEF Typed, Router
<1>2. p \in DOMAIN r.nodes /\ p # n
  <2>1. p \in Nat /\ p # 0 /\ p <= Len(r.nodes) /\ Len(r.nodes) \in Nat
    BY <1>1 DEF Typed, Queue
  <2>2. p \in 1 .. Len(r.nodes)
    BY <2>1
  <2> QED  BY <1>1, <2>2
<1>3. r.nodes[p] \in Node /\ r.nodes[n] \in Node
  BY <1>1, <1>2
<1>4. /\ m \in Node /\ m.discarded /\ m.type = r.nodes[p].type /\ m.next = r.nodes[p].next
      /\ m.status = r.nodes[p].status /\ m.base = r.nodes[p].base
      /\ k \in Node /\ k.next = r.nodes[p].next /\ k.type = r.nodes[n].type
      /\ k.discarded = r.nodes[n].discarded /\ k.base = r.nodes[n].base
  BY <1>3 DEF Node
<1>5. preempt(r, n) = run_action(u, n)
  <2>1. preempt(r, n)
        = run_action([[[r EXCEPT !.nodes[p].discarded = TRUE]
                         EXCEPT !.nodes[n].next = r.nodes[p].next]
                         EXCEPT !.queue.needsRefresh = nr], n)
    BY DEF preempt
  <2>2. r = [queue |-> r.queue, nodes |-> r.nodes, shown |-> r.shown]
    BY DEF Typed, Router
  <2>3. [r EXCEPT !.nodes[p].discarded = TRUE]
        = [queue |-> r.queue, nodes |-> n1, shown |-> r.shown]
    BY <2>2
  <2>4. n1[n] = r.nodes[n]
    BY <1>1, <1>2
  <2>5. [[queue |-> r.queue, nodes |-> n1, shown |-> r.shown]
          EXCEPT !.nodes[n].next = r.nodes[p].next]
        = [queue |-> r.queue, nodes |-> n2, shown |-> r.shown]
    <3> DEFINE q0 == r.queue  sh == r.shown  v == r.nodes[p].next
    <3> HIDE DEF n1, q0, sh, v
    <3>1. [[queue |-> q0, nodes |-> n1, shown |-> sh] EXCEPT !.nodes[n].next = v]
          = [queue |-> q0, nodes |-> [n1 EXCEPT ![n] = [n1[n] EXCEPT !.next = v]], shown |-> sh]
      OBVIOUS
    <3> QED  BY <2>4, <3>1 DEF q0, sh, v
  <2>6. [[queue |-> r.queue, nodes |-> n2, shown |-> r.shown] EXCEPT !.queue.needsRefresh = nr] = u
    OBVIOUS
  <2> QED  BY <2>1, <2>3, <2>5, <2>6
<1>6. /\ u.nodes = n2 /\ n2 \in Seq(Node) /\ Len(n2) = Len(r.nodes) /\ DOMAIN n2 = DOMAIN r.nodes
      /\ n2[p] = m /\ n2[n] = k /\ \A x \in DOMAIN r.nodes : x \notin {n, p} => n2[x] = r.nodes[x]
  <2> HIDE DEF m, k
  <2> QED  BY <1>1, <1>2, <1>4
<1>7. /\ q \in Queue /\ q.pending = p /\ q.state = r.queue.state /\ q.last = r.queue.last
      /\ q.needsRefresh = nr /\ u.queue = q /\ u.shown = r.shown
  BY <1>1 DEF Queue
<1>8. Typed(u)
  <2>1. u \in Router
    BY <1>1, <1>6, <1>7 DEF Router
  <2>2. \A x \in DOMAIN n2 : n2[x].next <= Len(n2) /\ n2[x].base <= Len(n2)
    BY <1>2, <1>4, <1>6 DEF Typed
  <2> QED  BY <2>1, <2>2, <1>6, <1>7 DEF Typed
<1>9. Typed(run_action(u, n)) /\ Ran(u, n, run_action(u, n))
  BY <1>6, <1>8, RunAction
<1> HIDE DEF m, k, nr, q, n1, n2, u
<1>10. ASSUME NEW s, Ran(u, n, s) PROVE Preempted(r, n, s)
  <2>1. \A x \in DOMAIN r.nodes : s.nodes[x].type = r.nodes[x].type
    BY <1>2, <1>4, <1>6, <1>10 DEF Ran, Same
  <2>2. s.queue.needsRefresh = (r.queue.needsRefresh \/ r.nodes[p].type = "server-action")
    BY <1>7, <1>10 DEF Ran, nr
  <2> QED  BY <1>2, <1>4, <1>6, <1>7, <1>10, <2>1, <2>2 DEF Ran, Same, Preempted
<1> QED  BY <1>5, <1>9, <1>10

(* s is r with n behind the last action.                                   *)
Appended(r, n, s) ==
    LET l == r.queue.last
    IN  /\ s.queue.pending = r.queue.pending /\ s.queue.state = r.queue.state /\ s.queue.last = n
        /\ s.queue.needsRefresh = r.queue.needsRefresh
        /\ s.shown = r.shown /\ Len(s.nodes) = Len(r.nodes) /\ DOMAIN s.nodes = DOMAIN r.nodes
        /\ \A x \in DOMAIN r.nodes : x # l => s.nodes[x] = r.nodes[x]
        /\ s.nodes[l].next = n /\ s.nodes[l].type = r.nodes[l].type
        /\ s.nodes[l].discarded = r.nodes[l].discarded /\ s.nodes[l].base = r.nodes[l].base
        /\ s.nodes[l].status = r.nodes[l].status

LEMMA AppendAction ==
    ASSUME NEW r, Typed(r), NEW n \in DOMAIN r.nodes, r.queue.last # 0
    PROVE  Typed(append(r, n)) /\ Appended(r, n, append(r, n))
<1> DEFINE l  == r.queue.last
           m  == [r.nodes[l] EXCEPT !.next = n]
           q  == [r.queue EXCEPT !.last = n]
           n1 == [r.nodes EXCEPT ![l] = m]
           s  == append(r, n)
<1>1. r.nodes \in Seq(Node) /\ r.queue \in Queue /\ r.shown \in Nat
  BY DEF Typed, Router
<1>2. l \in DOMAIN r.nodes /\ n \in Nat /\ n <= Len(r.nodes)
  <2>1. l \in Nat /\ l # 0 /\ l <= Len(r.nodes) /\ Len(r.nodes) \in Nat
    BY <1>1 DEF Typed, Queue
  <2>2. l \in 1 .. Len(r.nodes)
    BY <2>1
  <2> QED  BY <1>1, <2>2
<1>3. r.nodes[l] \in Node
  BY <1>1, <1>2
<1>4. /\ m \in Node /\ m.next = n /\ m.type = r.nodes[l].type /\ m.base = r.nodes[l].base
      /\ m.discarded = r.nodes[l].discarded /\ m.status = r.nodes[l].status
  BY <1>2, <1>3 DEF Node
<1>5. s = [queue |-> q, nodes |-> n1, shown |-> r.shown]
  <2>1. s = [[r EXCEPT !.nodes[l].next = n] EXCEPT !.queue.last = n]
    BY DEF append
  <2>2. r = [queue |-> r.queue, nodes |-> r.nodes, shown |-> r.shown]
    BY DEF Typed, Router
  <2>3. [r EXCEPT !.nodes[l].next = n] = [queue |-> r.queue, nodes |-> n1, shown |-> r.shown]
    BY <2>2
  <2>4. [[queue |-> r.queue, nodes |-> n1, shown |-> r.shown] EXCEPT !.queue.last = n]
        = [queue |-> q, nodes |-> n1, shown |-> r.shown]
    OBVIOUS
  <2> QED  BY <2>1, <2>3, <2>4
<1>6. /\ n1 \in Seq(Node) /\ Len(n1) = Len(r.nodes) /\ DOMAIN n1 = DOMAIN r.nodes
      /\ n1[l] = m /\ \A x \in DOMAIN r.nodes : x # l => n1[x] = r.nodes[x]
  BY <1>1, <1>2, <1>4
<1>7. /\ q \in Queue /\ q.pending = r.queue.pending /\ q.state = r.queue.state /\ q.last = n
      /\ q.needsRefresh = r.queue.needsRefresh
  BY <1>1, <1>2 DEF Queue
<1>8. s.queue = q /\ s.nodes = n1 /\ s.shown = r.shown
  BY <1>5
<1> HIDE DEF m, q, n1, s
<1>9. Appended(r, n, s)
  BY <1>4, <1>6, <1>7, <1>8 DEF Appended
<1>10. Typed(s)
  <2>1. s \in Router
    BY <1>1, <1>5, <1>6, <1>7 DEF Router
  <2>2. \A x \in DOMAIN n1 : n1[x].next <= Len(n1) /\ n1[x].base <= Len(n1)
    BY <1>2, <1>4, <1>6 DEF Typed
  <2> QED  BY <2>1, <2>2, <1>2, <1>6, <1>7, <1>8 DEF Typed
<1> QED  BY <1>9, <1>10 DEF s

(* s is r after an action was dispatched: it runs, it takes the place of   *)
(* the pending one, or it is behind the last one.                          *)
Dispatched(r, type, s) ==
    LET n == Len(r.nodes) + 1
        p == r.queue.pending
        l == r.queue.last
    IN  /\ Len(s.nodes) = n /\ DOMAIN s.nodes = DOMAIN r.nodes \cup {n}
        /\ n \notin DOMAIN r.nodes /\ n \in DOMAIN s.nodes
        /\ s.queue.state = r.queue.state
        /\ s.shown = IF type = "restore" THEN r.shown ELSE n
        /\ s.nodes[n].type = type /\ ~s.nodes[n].discarded
        /\ \A x \in DOMAIN r.nodes : /\ s.nodes[x].status = r.nodes[x].status
                                     /\ s.nodes[x].type = r.nodes[x].type
                                     /\ s.nodes[x].base = r.nodes[x].base
        /\ \/ /\ p = 0
              /\ s.queue.pending = n /\ s.queue.last = n
              /\ s.queue.needsRefresh = r.queue.needsRefresh
              /\ s.nodes[n].next = 0 /\ s.nodes[n].status = "running"
              /\ s.nodes[n].base = r.queue.state
              /\ \A x \in DOMAIN r.nodes : s.nodes[x] = r.nodes[x]
           \/ /\ p # 0 /\ p \in DOMAIN r.nodes /\ type \in {"navigate", "restore"}
              /\ s.queue.pending = n /\ s.queue.last = l
              /\ s.nodes[n].next = r.nodes[p].next /\ s.nodes[n].status = "running"
              /\ s.nodes[n].base = r.queue.state
              /\ s.nodes[p].next = r.nodes[p].next /\ s.nodes[p].discarded
              /\ \A x \in DOMAIN r.nodes : x # p => s.nodes[x] = r.nodes[x]
           \/ /\ p # 0 /\ p \in DOMAIN r.nodes /\ l \in DOMAIN r.nodes
              /\ type \notin {"navigate", "restore"}
              /\ s.queue.pending = p /\ s.queue.last = n
              /\ s.queue.needsRefresh = r.queue.needsRefresh
              /\ s.nodes[n].next = 0 /\ s.nodes[n].status = "queued"
              /\ s.nodes[l].next = n /\ s.nodes[l].discarded = r.nodes[l].discarded
              /\ \A x \in DOMAIN r.nodes : x # l => s.nodes[x] = r.nodes[x]

LEMMA Numbers ==
    ASSUME NEW r, Typed(r)
    PROVE  /\ Len(r.nodes) \in Nat /\ DOMAIN r.nodes = 1 .. Len(r.nodes)
           /\ r.queue.pending \in DOMAIN r.nodes \cup {0} /\ r.queue.last \in DOMAIN r.nodes \cup {0}
           /\ r.queue.state \in DOMAIN r.nodes \cup {0} /\ r.shown \in DOMAIN r.nodes \cup {0}
           /\ r.queue.needsRefresh \in BOOLEAN
           /\ \A x \in DOMAIN r.nodes : /\ r.nodes[x] \in Node
                                        /\ r.nodes[x].next \in DOMAIN r.nodes \cup {0}
<1>1. r.nodes \in Seq(Node) /\ r.queue \in Queue /\ r.shown \in Nat
  BY DEF Typed, Router
<1>2. Len(r.nodes) \in Nat /\ DOMAIN r.nodes = 1 .. Len(r.nodes)
  BY <1>1
<1>3. /\ r.queue.pending \in Nat /\ r.queue.last \in Nat /\ r.queue.state \in Nat
      /\ r.queue.needsRefresh \in BOOLEAN
  BY <1>1 DEF Queue
<1>4. \A x \in DOMAIN r.nodes : r.nodes[x] \in Node /\ r.nodes[x].next \in Nat
  <2>1. \A x \in DOMAIN r.nodes : r.nodes[x] \in Node
    BY <1>1
  <2> QED  BY <2>1 DEF Node
<1> QED  BY <1>1, <1>2, <1>3, <1>4 DEF Typed

LEMMA Dispatch ==
    ASSUME NEW r, Typed(r), NEW type \in Types, r.queue.pending # 0 => r.queue.last # 0
    PROVE  Typed(dispatch_action(r, type)) /\ Dispatched(r, type, dispatch_action(r, type))
<1> DEFINE n == Len(r.nodes) + 1
           p == r.queue.pending
           u == new_action(r, type)
           w == [u EXCEPT !.queue.last = n]
<1>1. Typed(u) /\ Added(r, type, u)
  BY NewAction
<1>2. n \in DOMAIN u.nodes /\ n \in Nat /\ n # 0
  BY <1>1, Numbers DEF Added
<1>3. p \in DOMAIN r.nodes \cup {0} /\ p # n
  BY <1>1, Numbers, <1>2 DEF Added
<1>4. CASE p = 0
  <2>1. /\ w.queue = [u.queue EXCEPT !.last = n] /\ w.nodes = u.nodes /\ w.shown = u.shown
        /\ w \in Router
    <3>1. u \in Router
      BY <1>1 DEF Typed
    <3> HIDE DEF u
    <3> QED  BY <3>1, <1>2 DEF Router, Queue
  <2>2. /\ w.queue.pending = u.queue.pending /\ w.queue.state = u.queue.state /\ w.queue.last = n
        /\ w.queue.needsRefresh = u.queue.needsRefresh
    <3>1. u.queue \in Queue
      BY <1>1 DEF Typed, Router
    <3> HIDE DEF u, w
    <3> QED  BY <3>1, <2>1 DEF Queue
  <2>3. n <= Len(u.nodes)
    BY <1>1, <1>2 DEF Added
  <2>4. Typed(w)
    <3> HIDE DEF u, w, n
    <3> QED  BY <1>1, <2>1, <2>2, <2>3 DEF Typed
  <2> HIDE DEF w
  <2>5. Typed(run_action(w, n)) /\ Ran(w, n, run_action(w, n))
    BY <1>2, <2>1, <2>4, RunAction
  <2>6. dispatch_action(r, type) = run_action(w, n)
    BY <1>4 DEF dispatch_action, w
  <2>7. ASSUME NEW s, Ran(w, n, s) PROVE Dispatched(r, type, s)
    <3> HIDE DEF u
    <3>1. \A x \in DOMAIN r.nodes : s.nodes[x] = r.nodes[x]
      BY <1>1, <2>1, <2>7 DEF Ran, Added
    <3>2. /\ s.nodes[n].type = type /\ s.nodes[n].discarded = FALSE /\ s.nodes[n].next = 0
      BY <1>1, <1>2, <2>1, <2>7 DEF Ran, Added, Same
    <3> QED  BY <1>1, <1>2, <1>4, <2>1, <2>2, <2>7, <3>1, <3>2 DEF Ran, Added, Dispatched
  <2> QED  BY <2>5, <2>6, <2>7
<1>5. CASE p # 0 /\ type \in {"navigate", "restore"}
  <2>1. u.queue.pending # 0 /\ u.queue.pending # n
    BY <1>1, <1>3, <1>5 DEF Added
  <2>2. Typed(preempt(u, n)) /\ Preempted(u, n, preempt(u, n))
    BY <1>1, <1>2, <2>1, Preempt
  <2>3. dispatch_action(r, type) = preempt(u, n)
    BY <1>5 DEF dispatch_action
  <2>4. ASSUME NEW s, Preempted(u, n, s) PROVE Dispatched(r, type, s)
    <3> HIDE DEF u
    <3>0. p \in DOMAIN r.nodes /\ u.queue = r.queue
      BY <1>1, <1>3, <1>5 DEF Added
    <3>1. \A x \in DOMAIN r.nodes : x # p => s.nodes[x] = r.nodes[x]
      BY <1>1, <2>4, <3>0 DEF Preempted, Added
    <3>2. /\ s.nodes[n].type = type /\ s.nodes[n].discarded = FALSE
          /\ s.nodes[p].type = r.nodes[p].type /\ s.nodes[p].status = r.nodes[p].status
          /\ s.nodes[p].base = r.nodes[p].base /\ s.nodes[p].next = r.nodes[p].next
          /\ s.nodes[p].discarded /\ s.nodes[n].next = r.nodes[p].next
          /\ s.nodes[n].status = "running" /\ s.nodes[n].base = r.queue.state
      BY <1>1, <1>2, <2>4, <3>0 DEF Preempted, Added
    <3>3. /\ Len(s.nodes) = n /\ DOMAIN s.nodes = DOMAIN r.nodes \cup {n}
          /\ n \notin DOMAIN r.nodes
          /\ s.queue.state = r.queue.state /\ s.queue.pending = n /\ s.queue.last = r.queue.last
          /\ s.shown = IF type = "restore" THEN r.shown ELSE n
      BY <1>1, <2>4, <3>0 DEF Preempted, Added
    <3>4. \A x \in DOMAIN r.nodes : /\ s.nodes[x].status = r.nodes[x].status
                                    /\ s.nodes[x].type = r.nodes[x].type
                                    /\ s.nodes[x].base = r.nodes[x].base
      BY <3>1, <3>2
    <3> QED  BY <1>5, <3>0, <3>1, <3>2, <3>3, <3>4 DEF Dispatched
  <2> QED  BY <2>2, <2>3, <2>4
<1>6. CASE p # 0 /\ type \notin {"navigate", "restore"}
  <2>1. u.queue.last # 0 /\ r.queue.last \in DOMAIN r.nodes
    BY <1>1, <1>6, Numbers DEF Added
  <2>2. Typed(append(u, n)) /\ Appended(u, n, append(u, n))
    BY <1>1, <1>2, <2>1, AppendAction
  <2>3. dispatch_action(r, type) = append(u, n)
    BY <1>6 DEF dispatch_action
  <2>4. ASSUME NEW s, Appended(u, n, s) PROVE Dispatched(r, type, s)
    <3> HIDE DEF u
    <3> DEFINE l == r.queue.last
    <3>0. p \in DOMAIN r.nodes /\ u.queue = r.queue /\ l # n
      BY <1>1, <1>3, <1>6, <2>1 DEF Added
    <3>1. \A x \in DOMAIN r.nodes : x # l => s.nodes[x] = r.nodes[x]
      BY <1>1, <2>4, <3>0 DEF Appended, Added
    <3>2. /\ s.nodes[n].type = type /\ s.nodes[n].discarded = FALSE /\ s.nodes[n].next = 0
          /\ s.nodes[n].status = "queued"
          /\ s.nodes[l].type = r.nodes[l].type /\ s.nodes[l].status = r.nodes[l].status
          /\ s.nodes[l].base = r.nodes[l].base /\ s.nodes[l].next = n
          /\ s.nodes[l].discarded = r.nodes[l].discarded
      BY <1>1, <1>2, <2>1, <2>4, <3>0 DEF Appended, Added
    <3>3. /\ Len(s.nodes) = n /\ DOMAIN s.nodes = DOMAIN r.nodes \cup {n}
          /\ n \notin DOMAIN r.nodes
          /\ s.queue.state = r.queue.state /\ s.queue.pending = p /\ s.queue.last = n
          /\ s.queue.needsRefresh = r.queue.needsRefresh
          /\ s.shown = IF type = "restore" THEN r.shown ELSE n
      BY <1>1, <2>4, <3>0 DEF Appended, Added
    <3>4. \A x \in DOMAIN r.nodes : /\ s.nodes[x].status = r.nodes[x].status
                                    /\ s.nodes[x].type = r.nodes[x].type
                                    /\ s.nodes[x].base = r.nodes[x].base
      BY <3>1, <3>2
    <3> QED  BY <1>6, <2>1, <3>0, <3>1, <3>2, <3>3, <3>4 DEF Dispatched
  <2> QED  BY <2>2, <2>3, <2>4
<1> QED  BY <1>4, <1>5, <1>6

(* s is r after the queue moved on: the next action runs, or a refresh     *)
(* that was asked for, or none.                                            *)
Remained(r, s) ==
    LET p == r.queue.pending
        y == r.nodes[p].next
        n == Len(r.nodes) + 1
    IN  \/ /\ p = 0 /\ s = r
        \/ /\ p # 0 /\ p \in DOMAIN r.nodes
           /\ s.queue.state = r.queue.state
           /\ DOMAIN r.nodes \subseteq DOMAIN s.nodes
           /\ \A x \in DOMAIN r.nodes : Same(r, s, x) /\ (x # y => s.nodes[x] = r.nodes[x])
           /\ \/ /\ y # 0 /\ y \in DOMAIN r.nodes
                 /\ s.queue.pending = y /\ s.queue.last = r.queue.last /\ s.shown = r.shown
                 /\ s.queue.needsRefresh = r.queue.needsRefresh
                 /\ Len(s.nodes) = Len(r.nodes) /\ DOMAIN s.nodes = DOMAIN r.nodes
                 /\ s.nodes[y].status = "running" /\ s.nodes[y].base = r.queue.state
              \/ /\ y = 0 /\ s.queue.pending = n /\ s.queue.last = n /\ s.shown = n
                 /\ ~s.queue.needsRefresh
                 /\ Len(s.nodes) = n /\ DOMAIN s.nodes = DOMAIN r.nodes \cup {n}
                 /\ n \notin DOMAIN r.nodes
                 /\ s.nodes[n].type = "refresh" /\ ~s.nodes[n].discarded
                 /\ s.nodes[n].next = 0 /\ s.nodes[n].status = "running"
                 /\ s.nodes[n].base = r.queue.state
              \/ /\ y = 0 /\ s.queue.pending = 0 /\ s.queue.last = r.queue.last
                 /\ ~s.queue.needsRefresh /\ s.nodes = r.nodes /\ s.shown = r.shown

LEMMA Remaining ==
    ASSUME NEW r, Typed(r)
    PROVE  Typed(run_remaining_actions(r)) /\ Remained(r, run_remaining_actions(r))
<1> DEFINE p == r.queue.pending
           y == r.nodes[p].next
           v == [r EXCEPT !.queue.pending = y]
           w == [v EXCEPT !.queue.needsRefresh = FALSE]
<1>1. CASE p = 0
  BY <1>1 DEF run_remaining_actions, Remained
<1>2. CASE p # 0
  <2>1. p \in DOMAIN r.nodes /\ y \in DOMAIN r.nodes \cup {0} /\ y \in Nat /\ y <= Len(r.nodes)
    <3>1. p \in DOMAIN r.nodes /\ y \in DOMAIN r.nodes \cup {0}
      BY <1>2, Numbers
    <3> QED  BY <3>1, Numbers
  <2>2. /\ v \in Router /\ v.nodes = r.nodes /\ v.shown = r.shown
        /\ v.queue = [r.queue EXCEPT !.pending = y]
    <3> HIDE DEF y
    <3> QED  BY <2>1 DEF Typed, Router, Queue
  <2>3. /\ v.queue.pending = y /\ v.queue.state = r.queue.state /\ v.queue.last = r.queue.last
        /\ v.queue.needsRefresh = r.queue.needsRefresh
    <3>1. r.queue \in Queue
      BY DEF Typed, Router
    <3> HIDE DEF v, y
    <3> QED  BY <3>1, <2>2 DEF Queue
  <2>4. Typed(v)
    <3> HIDE DEF v, y
    <3> QED  BY <2>1, <2>2, <2>3 DEF Typed
  <2>5. CASE y # 0
    <3>1. y \in DOMAIN v.nodes
      BY <2>1, <2>2, <2>5
    <3>2. run_remaining_actions(r) = run_action(v, y)
      BY <1>2, <2>5 DEF run_remaining_actions
    <3> HIDE DEF v
    <3>3. Typed(run_action(v, y)) /\ Ran(v, y, run_action(v, y))
      BY <2>4, <3>1, RunAction
    <3>4. ASSUME NEW s, Ran(v, y, s) PROVE Remained(r, s)
      <4> HIDE DEF y
      <4>1. \A x \in DOMAIN r.nodes : Same(r, s, x) /\ (x # y => s.nodes[x] = r.nodes[x])
        BY <3>4, <2>2 DEF Ran, Same
      <4>2. /\ s.queue.pending = y /\ s.queue.last = r.queue.last /\ s.shown = r.shown
            /\ s.queue.needsRefresh = r.queue.needsRefresh /\ s.queue.state = r.queue.state
            /\ Len(s.nodes) = Len(r.nodes) /\ DOMAIN s.nodes = DOMAIN r.nodes
            /\ s.nodes[y].status = "running" /\ s.nodes[y].base = r.queue.state
        BY <3>4, <2>2, <2>3 DEF Ran
      <4> QED  BY <1>2, <2>1, <2>5, <4>1, <4>2 DEF Remained, y
    <3> QED  BY <3>2, <3>3, <3>4
  <2>6. CASE y = 0 /\ r.queue.needsRefresh
    <3>1. /\ w \in Router /\ w.nodes = r.nodes /\ w.shown = r.shown
          /\ w.queue = [v.queue EXCEPT !.needsRefresh = FALSE]
      <4> HIDE DEF v
      <4> QED  BY <2>2 DEF Router, Queue
    <3>2. /\ w.queue.pending = 0 /\ w.queue.state = r.queue.state /\ w.queue.last = r.queue.last
          /\ w.queue.needsRefresh = FALSE
      <4>1. v.queue \in Queue
        BY <2>2 DEF Router
      <4> HIDE DEF v, w, y
      <4> QED  BY <2>3, <2>6, <3>1, <4>1 DEF Queue
    <3>3. run_remaining_actions(r) = dispatch_action(w, "refresh")
      BY <1>2, <2>6 DEF run_remaining_actions
    <3> HIDE DEF w
    <3>4. Typed(w)
      BY <2>1, <3>1, <3>2 DEF Typed
    <3>5. /\ Typed(dispatch_action(w, "refresh"))
          /\ Dispatched(w, "refresh", dispatch_action(w, "refresh"))
      BY <3>2, <3>4, Dispatch DEF Types
    <3>6. ASSUME NEW s, Dispatched(w, "refresh", s) PROVE Remained(r, s)
      <4> HIDE DEF y
      <4>0. w.queue.pending = 0 /\ w.nodes = r.nodes
        BY <3>1, <3>2
      <4>1. \A x \in DOMAIN r.nodes : s.nodes[x] = r.nodes[x]
        BY <3>6, <4>0 DEF Dispatched
      <4>2. \A x \in DOMAIN r.nodes : Same(r, s, x)
        BY <4>1 DEF Same
      <4> DEFINE n == Len(r.nodes) + 1
      <4>3. /\ s.queue.state = r.queue.state /\ s.queue.pending = n /\ s.queue.last = n
            /\ s.shown = n /\ s.queue.needsRefresh = FALSE
        BY <3>6, <3>1, <3>2 DEF Dispatched
      <4>4. /\ Len(s.nodes) = n /\ DOMAIN s.nodes = DOMAIN r.nodes \cup {n}
            /\ n \notin DOMAIN r.nodes
            /\ s.nodes[n].type = "refresh" /\ ~s.nodes[n].discarded
            /\ s.nodes[n].next = 0 /\ s.nodes[n].status = "running"
            /\ s.nodes[n].base = r.queue.state
        BY <3>6, <3>1, <3>2 DEF Dispatched
      <4> HIDE DEF n
      <4> QED  BY <1>2, <2>1, <2>6, <4>1, <4>2, <4>3, <4>4 DEF Remained, y, n
    <3> QED  BY <3>3, <3>5, <3>6
  <2>7. CASE y = 0 /\ ~r.queue.needsRefresh
    <3>1. run_remaining_actions(r) = v
      BY <1>2, <2>7 DEF run_remaining_actions
    <3> HIDE DEF v
    <3>2. Remained(r, v)
      BY <1>2, <2>1, <2>2, <2>3, <2>7 DEF Remained, Same
    <3> QED  BY <2>4, <3>1, <3>2
  <2> QED  BY <2>5, <2>6, <2>7
<1> QED  BY <1>1, <1>2

(* s is r with the promise of n settled.                                   *)
Settled(r, n, status, s) ==
    /\ s.queue = r.queue
    /\ Len(s.nodes) = Len(r.nodes) /\ DOMAIN s.nodes = DOMAIN r.nodes
    /\ s.nodes[n].status = status
    /\ \A x \in DOMAIN r.nodes : /\ Same(r, s, x) /\ s.nodes[x].base = r.nodes[x].base
                                 /\ x # n => s.nodes[x] = r.nodes[x]

LEMMA SettleNodes ==
    ASSUME NEW r, Typed(r), NEW n \in DOMAIN r.nodes, NEW status \in Statuses,
           NEW sh \in {r.shown, n}
    PROVE  LET s == [queue |-> r.queue, nodes |-> [r.nodes EXCEPT ![n].status = status],
                     shown |-> sh]
           IN  Typed(s) /\ Settled(r, n, status, s)
<1> DEFINE m  == [r.nodes[n] EXCEPT !.status = status]
           n1 == [r.nodes EXCEPT ![n] = m]
           s  == [queue |-> r.queue, nodes |-> n1, shown |-> sh]
<1>1. r.nodes \in Seq(Node) /\ r.queue \in Queue /\ r.nodes[n] \in Node
  BY DEF Typed, Router
<1>2. /\ m \in Node /\ m.status = status /\ m.type = r.nodes[n].type /\ m.next = r.nodes[n].next
      /\ m.discarded = r.nodes[n].discarded /\ m.base = r.nodes[n].base
  BY <1>1 DEF Node
<1>3. /\ n1 \in Seq(Node) /\ Len(n1) = Len(r.nodes) /\ DOMAIN n1 = DOMAIN r.nodes
      /\ n1[n] = m /\ \A x \in DOMAIN r.nodes : x # n => n1[x] = r.nodes[x]
  <2> HIDE DEF m
  <2> QED  BY <1>1, <1>2
<1>4. s.queue = r.queue /\ s.nodes = n1 /\ s.shown = sh
  OBVIOUS
<1>5. sh \in Nat /\ sh <= Len(r.nodes)
  BY Numbers
<1>6. Settled(r, n, status, s)
  <2> HIDE DEF m, n1, s
  <2> QED  BY <1>2, <1>3, <1>4 DEF Settled, Same
<1>7. Typed(s)
  <2>1. s \in Router
    <3> HIDE DEF n1
    <3> QED  BY <1>1, <1>3, <1>5 DEF Router
  <2> HIDE DEF m, n1, s
  <2>2. \A x \in DOMAIN n1 : n1[x].next <= Len(n1) /\ n1[x].base <= Len(n1)
    BY <1>2, <1>3 DEF Typed
  <2> QED  BY <2>1, <2>2, <1>3, <1>4, <1>5 DEF Typed
<1> QED  BY <1>6, <1>7

-----------------------------------------------------------------------------
(* The inductive invariant, of a router r.                                 *)

(* The pending action runs and counts; a refresh is asked for only then.   *)
PendingRuns(r) ==
    LET p == r.queue.pending
    IN  /\ p # 0 => r.nodes[p].status = "running" /\ ~r.nodes[p].discarded /\ r.queue.last # 0
        /\ p = 0 => ~r.queue.needsRefresh

(* An action that is queued counts, and what follows it is younger.        *)
QueuedCount(r) ==
    \A x \in DOMAIN r.nodes : r.nodes[x].status = "queued" =>
        /\ ~r.nodes[x].discarded /\ r.nodes[x].type \notin {"navigate", "restore"}
        /\ r.nodes[x].next = 0 \/ r.nodes[x].next > x

(* What follows the pending action or a queued one is queued, and follows  *)
(* one of them only.  A discarded action may still have a next.            *)
live(r, x) == x = r.queue.pending \/ r.nodes[x].status = "queued"

NextIsQueued(r) ==
    \A x \in DOMAIN r.nodes : live(r, x) /\ r.nodes[x].next # 0 =>
        r.nodes[r.nodes[x].next].status = "queued"

NextIsNoOthers(r) ==
    \A x, y \in DOMAIN r.nodes :
        live(r, x) /\ live(r, y) /\ r.nodes[x].next # 0 /\ r.nodes[x].next = r.nodes[y].next => x = y

InQueue(r) == PendingRuns(r) /\ QueuedCount(r) /\ NextIsQueued(r) /\ NextIsNoOthers(r)

(* follows and waiting of a router.                                        *)
Follows(r, S) ==
    \A m \in S \cup {r.queue.pending} :
        m # 0 /\ r.nodes[m].next # 0 => r.nodes[m].next \in S

Waiting(r) == {n \in DOMAIN r.nodes : \A S \in SUBSET DOMAIN r.nodes : Follows(r, S) => n \in S}

InOrder(r) ==
    \A a \in Waiting(r) : \A b \in DOMAIN r.nodes :
        a < b /\ r.nodes[b].type \notin {"navigate", "restore"} => r.nodes[b].status = "queued"

(* Until a discarded action is rejected, only the pending one runs and     *)
(* counts, and it runs on the router's state.                              *)
DiscardedRejected(r) ==
    \E x \in DOMAIN r.nodes : r.nodes[x].discarded /\ r.nodes[x].status = "rejected"

PendingOnly(r) ==
    \/ DiscardedRejected(r)
    \/ /\ \A x \in DOMAIN r.nodes :
             r.nodes[x].status = "running" /\ ~r.nodes[x].discarded => x = r.queue.pending
       /\ r.queue.pending # 0 => r.nodes[r.queue.pending].base = r.queue.state

(* As long as nothing is out of order either, the last action is shown;    *)
(* while one is pending it is not settled, and once it is resolved it is   *)
(* the router's state.                                                     *)
OutOfOrder(r) ==
    \E x \in DOMAIN r.nodes :
        r.nodes[x].type = "restore" \/ (r.nodes[x].discarded /\ r.nodes[x].next # 0)

LastIs(r, l) ==
    /\ \A x \in DOMAIN r.nodes : r.nodes[x].next = 0 \/ r.nodes[x].next > x
    /\ l = 0 => r.queue.pending = 0
    /\ r.shown = l
    /\ l # 0 => /\ ~r.nodes[l].discarded
                /\ r.queue.pending # 0 => r.nodes[l].status \in {"queued", "running"}
                /\ r.nodes[l].status = "resolved" => r.queue.state = l

LastIsShown(r) == DiscardedRejected(r) \/ OutOfOrder(r) \/ LastIs(r, Len(r.nodes))

Good(r) == Typed(r) /\ InQueue(r) /\ InOrder(r) /\ PendingOnly(r) /\ LastIsShown(r)

Inv == Good(router) /\ dispatches \in Nat /\ rejections \in Nat

-----------------------------------------------------------------------------
(* The queue: InQueue is kept by each part of a handler.                   *)

LEMMA DispatchInQueue ==
    ASSUME NEW r, NEW s, NEW type \in Types, Typed(r), InQueue(r), Typed(s), Dispatched(r, type, s)
    PROVE  InQueue(s)
<1> DEFINE n == Len(r.nodes) + 1
           p == r.queue.pending
           l == r.queue.last
           nav == {"navigate", "restore"}
<1>1. /\ Len(r.nodes) \in Nat /\ DOMAIN r.nodes = 1 .. Len(r.nodes)
      /\ \A x \in DOMAIN r.nodes : r.nodes[x].next \in DOMAIN r.nodes \cup {0}
      /\ p \in DOMAIN r.nodes \cup {0}
  BY Numbers
<1>2. /\ DOMAIN s.nodes = DOMAIN r.nodes \cup {n} /\ n \notin DOMAIN r.nodes
      /\ s.nodes[n].type = type /\ ~s.nodes[n].discarded
      /\ \A x \in DOMAIN r.nodes : s.nodes[x].status = r.nodes[x].status /\ n > x /\ n # x
      /\ \A x \in DOMAIN r.nodes : s.nodes[x].type = r.nodes[x].type
  BY <1>1 DEF Dispatched
<1>3. n # 0
  BY <1>1
<1> USE DEF InQueue, PendingRuns, QueuedCount, NextIsQueued, NextIsNoOthers, live
<1>4. CASE p = 0
  <2>1. /\ s.queue.pending = n /\ s.queue.last = n
        /\ s.nodes[n].next = 0 /\ s.nodes[n].status = "running"
        /\ \A x \in DOMAIN r.nodes : s.nodes[x] = r.nodes[x]
    BY <1>4 DEF Dispatched
  <2> HIDE DEF n
  <2> QED  BY <1>1, <1>2, <1>3, <1>4, <2>1
<1>5. CASE p # 0 /\ type \in nav
  <2>1. /\ p \in DOMAIN r.nodes /\ s.queue.pending = n /\ s.queue.last = l
        /\ s.nodes[n].next = r.nodes[p].next /\ s.nodes[n].status = "running"
        /\ s.nodes[p].next = r.nodes[p].next /\ s.nodes[p].discarded
        /\ \A x \in DOMAIN r.nodes : x # p => s.nodes[x] = r.nodes[x]
    BY <1>5 DEF Dispatched
  <2>2. r.nodes[p].status = "running" /\ l # 0
    BY <1>5
  <2> HIDE DEF n
  <2>3. PendingRuns(s) /\ QueuedCount(s)
    BY <1>1, <1>2, <1>3, <2>1, <2>2
  <2>4. NextIsQueued(s)
    BY <1>1, <1>2, <1>3, <1>5, <2>1, <2>2
  <2>5. NextIsNoOthers(s)
    BY <1>1, <1>2, <1>3, <1>5, <2>1, <2>2
  <2> QED  BY <2>3, <2>4, <2>5
<1>6. CASE p # 0 /\ type \notin nav
  <2>1. /\ p \in DOMAIN r.nodes /\ l \in DOMAIN r.nodes /\ s.queue.pending = p /\ s.queue.last = n
        /\ s.queue.needsRefresh = r.queue.needsRefresh
        /\ s.nodes[n].next = 0 /\ s.nodes[n].status = "queued"
        /\ s.nodes[l].next = n /\ s.nodes[l].discarded = r.nodes[l].discarded
        /\ \A x \in DOMAIN r.nodes : x # l => s.nodes[x] = r.nodes[x]
    BY <1>6 DEF Dispatched
  <2> HIDE DEF n
  <2>2. PendingRuns(s)
    BY <1>1, <1>2, <1>3, <1>6, <2>1
  <2>3. QueuedCount(s)
    BY <1>1, <1>2, <1>3, <1>6, <2>1
  <2>4. NextIsQueued(s)
    BY <1>1, <1>2, <1>3, <1>6, <2>1
  <2>5. NextIsNoOthers(s)
    BY <1>1, <1>2, <1>3, <1>6, <2>1
  <2> QED  BY <2>2, <2>3, <2>4, <2>5
<1> QED  BY <1>4, <1>5, <1>6

(* The next action is queued, so what ran before is left as it is.         *)
LEMMA RemainedOthers ==
    ASSUME NEW r, NEW s, Typed(r), InQueue(r), Remained(r, s),
           NEW n \in DOMAIN r.nodes, r.nodes[n].status # "queued"
    PROVE  (r.queue.pending # 0 => n # s.queue.pending) /\ s.nodes[n] = r.nodes[n]
<1> DEFINE p == r.queue.pending
           y == r.nodes[p].next
<1>1. CASE p = 0
  BY <1>1 DEF Remained
<1>2. CASE p # 0
  <2>1. p \in DOMAIN r.nodes
    BY <1>2 DEF Remained
  <2>2. y # 0 => n # y
    BY <2>1 DEF InQueue, NextIsQueued, live
  <2>3. n # 0
    BY Numbers
  <2> QED  BY <1>2, <2>1, <2>2, <2>3 DEF Remained
<1> QED  BY <1>1, <1>2

LEMMA RemainingInQueue ==
    ASSUME NEW r, NEW s, Typed(r), InQueue(r), Typed(s), Remained(r, s)
    PROVE  InQueue(s)
<1> DEFINE n == Len(r.nodes) + 1
           p == r.queue.pending
           y == r.nodes[p].next
<1>1. /\ Len(r.nodes) \in Nat /\ DOMAIN r.nodes = 1 .. Len(r.nodes)
      /\ \A x \in DOMAIN r.nodes : r.nodes[x].next \in DOMAIN r.nodes \cup {0}
  BY Numbers
<1> USE DEF InQueue, PendingRuns, QueuedCount, NextIsQueued, NextIsNoOthers, live, Same
<1>2. CASE p = 0
  BY <1>2 DEF Remained
<1>3. CASE p # 0
  <2>1. /\ p \in DOMAIN r.nodes
        /\ \A x \in DOMAIN r.nodes : /\ s.nodes[x].discarded = r.nodes[x].discarded
                                     /\ s.nodes[x].type = r.nodes[x].type
                                     /\ s.nodes[x].next = r.nodes[x].next
                                     /\ x # y => s.nodes[x] = r.nodes[x]
    BY <1>3 DEF Remained
  <2>2. r.nodes[p].status = "running" /\ r.queue.last # 0
    BY <1>3
  <2>3. CASE y # 0
    <3>1. /\ y \in DOMAIN r.nodes /\ s.queue.pending = y /\ s.queue.last = r.queue.last
          /\ DOMAIN s.nodes = DOMAIN r.nodes /\ s.nodes[y].status = "running"
      BY <1>1, <1>3, <2>3 DEF Remained
    <3>2. r.nodes[y].status = "queued" /\ y # p
      BY <2>1, <2>2, <2>3
    <3> HIDE DEF y
    <3>3. PendingRuns(s) /\ QueuedCount(s)
      BY <2>1, <2>2, <2>3, <3>1, <3>2
    <3>4. \A x \in DOMAIN s.nodes : live(s, x) => live(r, x) /\ (x # y => r.nodes[x].status = "queued")
      BY <2>1, <3>1, <3>2
    <3>5. \A x \in DOMAIN s.nodes : live(s, x) => s.nodes[x].next # y
      <4>1. \A x \in DOMAIN r.nodes : live(r, x) /\ r.nodes[x].next = y => x = p
        BY <2>1, <2>3 DEF y
      <4> QED  BY <2>1, <2>2, <3>1, <3>2, <3>4, <4>1
    <3>6. NextIsQueued(s)
      BY <1>1, <2>1, <3>1, <3>4, <3>5
    <3>7. NextIsNoOthers(s)
      BY <2>1, <3>1, <3>4
    <3> QED  BY <3>3, <3>6, <3>7
  <2>4. CASE y = 0 /\ s.queue.pending # 0
    <3>1. /\ s.queue.pending = n /\ s.queue.last = n /\ DOMAIN s.nodes = DOMAIN r.nodes \cup {n}
          /\ n \notin DOMAIN r.nodes /\ ~s.nodes[n].discarded
          /\ s.nodes[n].next = 0 /\ s.nodes[n].status = "running"
      BY <1>3, <2>4 DEF Remained
    <3>2. n # 0
      BY <1>1
    <3>3. \A x \in DOMAIN r.nodes : s.nodes[x] = r.nodes[x]
      BY <1>1, <2>1, <2>4
    <3> HIDE DEF n, y
    <3> QED  BY <1>1, <3>1, <3>2, <3>3
  <2>5. CASE y = 0 /\ s.queue.pending = 0
    <3>1. s.nodes = r.nodes /\ ~s.queue.needsRefresh
      BY <1>1, <1>3, <2>5 DEF Remained
    <3> HIDE DEF y
    <3>2. \A x \in DOMAIN s.nodes : live(s, x) => live(r, x)
      BY <1>1, <2>5, <3>1
    <3> QED  BY <2>5, <3>1, <3>2
  <2> QED  BY <2>3, <2>4, <2>5
<1> QED  BY <1>2, <1>3

LEMMA SettledInQueue ==
    ASSUME NEW r, NEW s, NEW n \in DOMAIN r.nodes, NEW status \in Statuses \ {"queued"},
           Typed(r), InQueue(r), Settled(r, n, status, s),
           r.nodes[n].status = "running", n # r.queue.pending
    PROVE  InQueue(s)
<1>1. /\ s.queue = r.queue /\ DOMAIN s.nodes = DOMAIN r.nodes /\ s.nodes[n].status # "queued"
      /\ \A x \in DOMAIN r.nodes : /\ s.nodes[x].discarded = r.nodes[x].discarded
                                   /\ s.nodes[x].type = r.nodes[x].type
                                   /\ s.nodes[x].next = r.nodes[x].next
                                   /\ x # n => s.nodes[x] = r.nodes[x]
  BY DEF Settled, Same
<1>0. /\ r.queue.pending \in DOMAIN r.nodes \cup {0}
      /\ \A x \in DOMAIN r.nodes : r.nodes[x].next \in DOMAIN r.nodes \cup {0}
  BY Numbers
<1> USE DEF InQueue, PendingRuns, QueuedCount, NextIsQueued, NextIsNoOthers, live
<1>2. \A x \in DOMAIN s.nodes : live(s, x) => live(r, x) /\ x # n
  BY <1>1
<1>3. PendingRuns(s)
  BY <1>0, <1>1
<1>4. QueuedCount(s)
  BY <1>1
<1>5. NextIsNoOthers(s)
  BY <1>1, <1>2
<1>6. NextIsQueued(s)
  BY <1>0, <1>1, <1>2
<1> QED  BY <1>3, <1>4, <1>5, <1>6

-----------------------------------------------------------------------------
(* The order: what waits is a part of what waited, and the new action.     *)

LEMMA WaitingIsLeast ==
    ASSUME NEW r, NEW S \in SUBSET DOMAIN r.nodes, Follows(r, S)
    PROVE  Waiting(r) \subseteq S
BY DEF Waiting

LEMMA WaitingFollows ==
    ASSUME NEW r, Typed(r)
    PROVE  Follows(r, Waiting(r)) /\ Waiting(r) \subseteq DOMAIN r.nodes
<1>1. /\ r.queue.pending \in DOMAIN r.nodes \cup {0}
      /\ \A x \in DOMAIN r.nodes : r.nodes[x].next \in DOMAIN r.nodes \cup {0}
  BY Numbers
<1>2. Waiting(r) \subseteq DOMAIN r.nodes
  BY DEF Waiting
<1>3. SUFFICES ASSUME NEW m \in Waiting(r) \cup {r.queue.pending}, m # 0, r.nodes[m].next # 0
               PROVE  r.nodes[m].next \in Waiting(r)
  BY <1>2 DEF Follows
<1>4. r.nodes[m].next \in DOMAIN r.nodes
  BY <1>1, <1>2, <1>3
<1>5. ASSUME NEW S \in SUBSET DOMAIN r.nodes, Follows(r, S) PROVE r.nodes[m].next \in S
  <2>1. m \in S \cup {r.queue.pending}
    BY <1>3, <1>5, WaitingIsLeast
  <2> QED  BY <1>3, <1>5, <2>1 DEF Follows
<1> QED  BY <1>4, <1>5 DEF Waiting

LEMMA WaitingQueued ==
    ASSUME NEW r, Typed(r), InQueue(r), NEW a \in Waiting(r)
    PROVE  r.nodes[a].status = "queued"
<1> DEFINE S == {x \in DOMAIN r.nodes : r.nodes[x].status = "queued"}
<1>1. /\ r.queue.pending \in DOMAIN r.nodes \cup {0}
      /\ \A x \in DOMAIN r.nodes : r.nodes[x].next \in DOMAIN r.nodes \cup {0}
  BY Numbers
<1>2. Follows(r, S)
  BY <1>1 DEF Follows, InQueue, NextIsQueued, live
<1>3. Waiting(r) \subseteq S
  <2> HIDE DEF S
  <2>1. S \in SUBSET DOMAIN r.nodes
    BY DEF S
  <2> QED  BY <1>2, <2>1, WaitingIsLeast
<1> QED  BY <1>3

LEMMA NothingWaits ==
    ASSUME NEW s, s.queue.pending # 0 => s.nodes[s.queue.pending].next = 0
    PROVE  InOrder(s)
<1>1. Follows(s, {})
  BY DEF Follows
<1>2. Waiting(s) \subseteq {}
  BY <1>1, WaitingIsLeast
<1> QED  BY <1>2 DEF InOrder

LEMMA DispatchInOrder ==
    ASSUME NEW r, NEW s, NEW type \in Types, Typed(r), InQueue(r), InOrder(r),
           Dispatched(r, type, s)
    PROVE  InOrder(s)
<1> DEFINE n == Len(r.nodes) + 1
           p == r.queue.pending
           l == r.queue.last
           nav == {"navigate", "restore"}
           W == Waiting(r)
<1>1. /\ Len(r.nodes) \in Nat /\ DOMAIN r.nodes = 1 .. Len(r.nodes)
      /\ \A x \in DOMAIN r.nodes : r.nodes[x].next \in DOMAIN r.nodes \cup {0}
  BY Numbers
<1>2. /\ DOMAIN s.nodes = DOMAIN r.nodes \cup {n} /\ n \notin DOMAIN r.nodes
      /\ s.nodes[n].type = type
      /\ \A x \in DOMAIN r.nodes : s.nodes[x].status = r.nodes[x].status /\ x < n
      /\ \A x \in DOMAIN r.nodes : s.nodes[x].type = r.nodes[x].type
  BY <1>1 DEF Dispatched
<1>3. Follows(r, W) /\ W \subseteq DOMAIN r.nodes
  BY WaitingFollows
<1>4. CASE p = 0
  <2>1. s.queue.pending = n /\ s.nodes[n].next = 0
    BY <1>4 DEF Dispatched
  <2> QED  BY <2>1, NothingWaits
<1>5. CASE p # 0 /\ type \in nav
  <2>1. /\ p \in DOMAIN r.nodes /\ s.queue.pending = n
        /\ s.nodes[n].next = r.nodes[p].next /\ s.nodes[p].next = r.nodes[p].next
        /\ \A x \in DOMAIN r.nodes : x # p => s.nodes[x] = r.nodes[x]
    BY <1>5 DEF Dispatched
  <2> HIDE DEF n, W
  <2>2. Follows(s, W)
    BY <1>2, <1>3, <1>5, <2>1 DEF Follows
  <2>3. Waiting(s) \subseteq W
    BY <1>2, <1>3, <2>2, WaitingIsLeast
  <2> QED  BY <1>2, <1>3, <1>5, <2>3 DEF InOrder, W
<1>6. CASE p # 0 /\ type \notin nav
  <2>1. /\ p \in DOMAIN r.nodes /\ l \in DOMAIN r.nodes /\ s.queue.pending = p
        /\ s.nodes[n].next = 0 /\ s.nodes[n].status = "queued" /\ s.nodes[l].next = n
        /\ \A x \in DOMAIN r.nodes : x # l => s.nodes[x] = r.nodes[x]
    BY <1>6 DEF Dispatched
  <2>2. \A b \in DOMAIN s.nodes : ~(n < b)
    BY <1>1, <1>2
  <2> HIDE DEF n, W
  <2>3. Follows(s, W \cup {n})
    BY <1>2, <1>3, <1>6, <2>1 DEF Follows
  <2>4. Waiting(s) \subseteq W \cup {n}
    BY <1>2, <1>3, <2>3, WaitingIsLeast
  <2> QED  BY <1>2, <1>3, <2>1, <2>2, <2>4 DEF InOrder, W
<1> QED  BY <1>4, <1>5, <1>6

LEMMA RemainingInOrder ==
    ASSUME NEW r, NEW s, Typed(r), InQueue(r), InOrder(r), Remained(r, s)
    PROVE  InOrder(s)
<1> DEFINE p == r.queue.pending
           y == r.nodes[p].next
           W == Waiting(r)
           S == {a \in W : a > y}
<1>1. /\ DOMAIN r.nodes = 1 .. Len(r.nodes)
      /\ \A x \in DOMAIN r.nodes : r.nodes[x].next \in DOMAIN r.nodes \cup {0}
  BY Numbers
<1>2. CASE p = 0
  BY <1>2 DEF Remained
<1>3. CASE p # 0 /\ y = 0
  <2>1. s.queue.pending # 0 => s.nodes[s.queue.pending].next = 0
    BY <1>3 DEF Remained
  <2> QED  BY <2>1, NothingWaits
<1>4. CASE p # 0 /\ y # 0
  <2>0. p \in DOMAIN r.nodes /\ y \in DOMAIN r.nodes
    BY <1>4, <1>1 DEF Remained
  <2>1. /\ s.queue.pending = y /\ DOMAIN s.nodes = DOMAIN r.nodes
        /\ \A x \in DOMAIN r.nodes : /\ s.nodes[x].next = r.nodes[x].next
                                     /\ s.nodes[x].type = r.nodes[x].type
                                     /\ x # y => s.nodes[x] = r.nodes[x]
    BY <1>4, <2>0, <1>1 DEF Remained, Same
  <2>2. Follows(r, W) /\ W \subseteq DOMAIN r.nodes
    BY WaitingFollows
  <2>3. y \in W
    BY <1>4, <2>2 DEF Follows
  <2>4. \A a \in W : r.nodes[a].next # 0 => r.nodes[a].next > a /\ r.nodes[a].next \in W
    <3>1. \A a \in W : r.nodes[a].status = "queued"
      BY WaitingQueued
    <3> HIDE DEF W
    <3> QED  BY <1>1, <2>2, <3>1 DEF Follows, InQueue, QueuedCount
  <2> HIDE DEF y, W
  <2>5. Follows(s, S)
    <3> SUFFICES ASSUME NEW m \in S \cup {y}, s.nodes[m].next # 0
                 PROVE  s.nodes[m].next \in S
      BY <2>1 DEF Follows
    <3>1. m \in W /\ m >= y /\ m \in DOMAIN r.nodes
      BY <1>1, <2>0, <2>2, <2>3
    <3>2. r.nodes[m].next \in W /\ r.nodes[m].next > m /\ r.nodes[m].next \in DOMAIN r.nodes
      BY <2>1, <2>2, <2>4, <3>1
    <3> QED  BY <1>1, <2>0, <2>1, <3>1, <3>2
  <2>6. Waiting(s) \subseteq S
    BY <2>1, <2>2, <2>5, WaitingIsLeast
  <2>7. ASSUME NEW a \in S, NEW b \in DOMAIN r.nodes, a < b,
               s.nodes[b].type \notin {"navigate", "restore"}
        PROVE  s.nodes[b].status = "queued"
    <3>1. b # y
      BY <1>1, <2>0, <2>2, <2>7
    <3> QED  BY <2>1, <2>7, <3>1 DEF InOrder, W
  <2> QED  BY <2>1, <2>6, <2>7 DEF InOrder
<1> QED  BY <1>2, <1>3, <1>4

LEMMA SettledInOrder ==
    ASSUME NEW r, NEW s, NEW n \in DOMAIN r.nodes, NEW status,
           Typed(r), InOrder(r), Settled(r, n, status, s), r.nodes[n].status = "running"
    PROVE  InOrder(s)
<1>1. /\ s.queue = r.queue /\ DOMAIN s.nodes = DOMAIN r.nodes
      /\ \A x \in DOMAIN r.nodes : /\ s.nodes[x].type = r.nodes[x].type
                                   /\ s.nodes[x].next = r.nodes[x].next
                                   /\ x # n => s.nodes[x] = r.nodes[x]
  BY DEF Settled, Same
<1>2. Follows(r, Waiting(r)) /\ Waiting(r) \subseteq DOMAIN r.nodes
  BY WaitingFollows
<1>3. r.queue.pending \in DOMAIN r.nodes \cup {0}
  BY Numbers
<1>4. Follows(s, Waiting(r))
  BY <1>1, <1>2, <1>3 DEF Follows
<1>5. Waiting(s) \subseteq Waiting(r)
  BY <1>1, <1>2, <1>4, WaitingIsLeast
<1> QED  BY <1>1, <1>5 DEF InOrder

-----------------------------------------------------------------------------
(* The state: PendingOnly and LastIsShown are kept by each whole handler.  *)

(* What a router has that cannot be undone is kept.                        *)
Grows(r, s) ==
    /\ DOMAIN r.nodes \subseteq DOMAIN s.nodes
    /\ \A x \in DOMAIN r.nodes :
          /\ s.nodes[x].type = r.nodes[x].type
          /\ r.nodes[x].discarded => s.nodes[x].discarded
          /\ r.nodes[x].discarded /\ r.nodes[x].next # 0 => s.nodes[x].next # 0
          /\ r.nodes[x].status = "rejected" => s.nodes[x].status = "rejected"

LEMMA GrowsBad ==
    ASSUME NEW r, NEW s, Grows(r, s)
    PROVE  /\ DiscardedRejected(r) => DiscardedRejected(s)
           /\ OutOfOrder(r) => OutOfOrder(s)
BY DEF Grows, DiscardedRejected, OutOfOrder

LEMMA DispatchGood ==
    ASSUME NEW r, NEW s, NEW type \in Types, Good(r), Typed(s), Dispatched(r, type, s)
    PROVE  Good(s)
<1> DEFINE n == Len(r.nodes) + 1
           p == r.queue.pending
           l == r.queue.last
           nav == {"navigate", "restore"}
<1>0. Typed(r) /\ InQueue(r) /\ InOrder(r) /\ PendingOnly(r) /\ LastIsShown(r)
  BY DEF Good
<1>1. /\ Len(r.nodes) \in Nat /\ DOMAIN r.nodes = 1 .. Len(r.nodes)
      /\ \A x \in DOMAIN r.nodes : r.nodes[x].next \in DOMAIN r.nodes \cup {0}
      /\ p \in DOMAIN r.nodes \cup {0}
  BY <1>0, Numbers
<1>2. /\ DOMAIN s.nodes = DOMAIN r.nodes \cup {n} /\ n \notin DOMAIN r.nodes /\ n \in Nat
      /\ s.nodes[n].type = type /\ ~s.nodes[n].discarded /\ s.queue.state = r.queue.state
      /\ s.shown = IF type = "restore" THEN r.shown ELSE n
      /\ \A x \in DOMAIN r.nodes : s.nodes[x].status = r.nodes[x].status /\ n > x /\ n # x
      /\ \A x \in DOMAIN r.nodes : s.nodes[x].type = r.nodes[x].type
      /\ \A x \in DOMAIN r.nodes : s.nodes[x].base = r.nodes[x].base
      /\ Len(s.nodes) = n /\ n # 0
  BY <1>1 DEF Dispatched
<1>3. InQueue(s) /\ InOrder(s)
  BY <1>0, DispatchInQueue, DispatchInOrder
<1>4. CASE p = 0
  <2>1. /\ s.queue.pending = n
        /\ s.nodes[n].next = 0 /\ s.nodes[n].status = "running" /\ s.nodes[n].base = r.queue.state
        /\ \A x \in DOMAIN r.nodes : s.nodes[x] = r.nodes[x]
    BY <1>4 DEF Dispatched
  <2> HIDE DEF n
  <2>2. Grows(r, s)
    BY <1>2, <2>1 DEF Grows
  <2>3. PendingOnly(s)
    <3>1. CASE DiscardedRejected(r)
      BY <2>2, <3>1, GrowsBad DEF PendingOnly
    <3>2. CASE ~DiscardedRejected(r)
      <4>1. \A x \in DOMAIN r.nodes : ~(r.nodes[x].status = "running" /\ ~r.nodes[x].discarded)
        BY <1>0, <1>1, <1>4, <3>2 DEF PendingOnly
      <4> QED  BY <1>2, <2>1, <4>1 DEF PendingOnly
    <3> QED  BY <3>1, <3>2
  <2>4. LastIsShown(s)
    <3>1. CASE DiscardedRejected(r) \/ OutOfOrder(r)
      BY <2>2, <3>1, GrowsBad DEF LastIsShown, LastIs
    <3>2. CASE ~DiscardedRejected(r) /\ ~OutOfOrder(r)
      <4>1. \A x \in DOMAIN r.nodes : r.nodes[x].next = 0 \/ r.nodes[x].next > x
        BY <1>0, <3>2 DEF LastIsShown, LastIs
      <4>2. type = "restore" => OutOfOrder(s)
        BY <1>2 DEF OutOfOrder
      <4> QED  BY <1>2, <2>1, <4>1, <4>2 DEF LastIsShown, LastIs
    <3> QED  BY <3>1, <3>2
  <2> QED  BY <1>3, <2>3, <2>4 DEF Good
<1>5. CASE p # 0 /\ type \in nav
  <2>1. /\ p \in DOMAIN r.nodes /\ s.queue.pending = n
        /\ s.nodes[n].next = r.nodes[p].next /\ s.nodes[n].status = "running"
        /\ s.nodes[n].base = r.queue.state
        /\ s.nodes[p].next = r.nodes[p].next /\ s.nodes[p].discarded
        /\ \A x \in DOMAIN r.nodes : x # p => s.nodes[x] = r.nodes[x]
    BY <1>5 DEF Dispatched
  <2> HIDE DEF n
  <2>2. Grows(r, s)
    BY <1>2, <2>1 DEF Grows
  <2>3. PendingOnly(s)
    <3>1. CASE DiscardedRejected(r)
      BY <2>2, <3>1, GrowsBad DEF PendingOnly
    <3>2. CASE ~DiscardedRejected(r)
      <4>1. \A x \in DOMAIN r.nodes : r.nodes[x].status = "running" /\ ~r.nodes[x].discarded => x = p
        BY <1>0, <3>2 DEF PendingOnly
      <4> QED  BY <1>2, <2>1, <4>1 DEF PendingOnly
    <3> QED  BY <3>1, <3>2
  <2>4. LastIsShown(s)
    <3>1. CASE DiscardedRejected(r) \/ OutOfOrder(r)
      BY <2>2, <3>1, GrowsBad DEF LastIsShown, LastIs
    <3>2. CASE ~DiscardedRejected(r) /\ ~OutOfOrder(r)
      <4>1. \A x \in DOMAIN r.nodes : r.nodes[x].next = 0 \/ r.nodes[x].next > x
        BY <1>0, <3>2 DEF LastIsShown, LastIs
      <4>2. type = "restore" \/ r.nodes[p].next # 0 => OutOfOrder(s)
        BY <1>2, <2>1 DEF OutOfOrder
      <4>3. \A x \in DOMAIN r.nodes : s.nodes[x].next = r.nodes[x].next
        BY <2>1
      <4> QED  BY <1>2, <2>1, <4>1, <4>2, <4>3 DEF LastIsShown, LastIs
    <3> QED  BY <3>1, <3>2
  <2> QED  BY <1>3, <2>3, <2>4 DEF Good
<1>6. CASE p # 0 /\ type \notin nav
  <2>1. /\ p \in DOMAIN r.nodes /\ l \in DOMAIN r.nodes /\ s.queue.pending = p
        /\ s.nodes[n].next = 0 /\ s.nodes[n].status = "queued"
        /\ s.nodes[l].next = n /\ s.nodes[l].discarded = r.nodes[l].discarded
        /\ \A x \in DOMAIN r.nodes : x # l => s.nodes[x] = r.nodes[x]
    BY <1>6 DEF Dispatched
  <2> HIDE DEF n
  <2>2. Grows(r, s)
    BY <1>2, <2>1 DEF Grows
  <2>3. PendingOnly(s)
    <3>1. CASE DiscardedRejected(r)
      BY <2>2, <3>1, GrowsBad DEF PendingOnly
    <3>2. CASE ~DiscardedRejected(r)
      <4>1. /\ \A x \in DOMAIN r.nodes :
                  r.nodes[x].status = "running" /\ ~r.nodes[x].discarded => x = p
            /\ r.nodes[p].base = r.queue.state
        BY <1>0, <1>6, <3>2 DEF PendingOnly
      <4>2. \A x \in DOMAIN r.nodes : s.nodes[x].discarded = r.nodes[x].discarded
        BY <2>1
      <4> QED  BY <1>2, <2>1, <4>1, <4>2 DEF PendingOnly
    <3> QED  BY <3>1, <3>2
  <2>4. LastIsShown(s)
    <3>1. CASE DiscardedRejected(r) \/ OutOfOrder(r)
      BY <2>2, <3>1, GrowsBad DEF LastIsShown, LastIs
    <3>2. CASE ~DiscardedRejected(r) /\ ~OutOfOrder(r)
      <4>1. \A x \in DOMAIN r.nodes : r.nodes[x].next = 0 \/ r.nodes[x].next > x
        BY <1>0, <3>2 DEF LastIsShown, LastIs
      <4>2. \A x \in DOMAIN r.nodes : s.nodes[x].next = 0 \/ s.nodes[x].next > x
        BY <1>2, <2>1, <4>1
      <4> QED  BY <1>2, <1>6, <2>1, <4>2 DEF LastIsShown, LastIs
    <3> QED  BY <3>1, <3>2
  <2> QED  BY <1>3, <2>3, <2>4 DEF Good
<1> QED  BY <1>4, <1>5, <1>6

(* The promise of n settles: r0 is r with the state that n computed, r1    *)
(* the router after the queue moved on, and s the one with n settled.      *)
LEMMA HandledGood ==
    ASSUME NEW r, NEW r0, NEW r1, NEW s, NEW n \in DOMAIN r.nodes,
           NEW status \in {"resolved", "rejected"},
           Good(r), r.nodes[n].status = "running", status = "resolved" => ~r.nodes[n].discarded,
           Typed(r0), r0.nodes = r.nodes, r0.shown = r.shown,
           r0.queue.pending = r.queue.pending, r0.queue.last = r.queue.last,
           r0.queue.needsRefresh = r.queue.needsRefresh,
           r0.queue.state = IF status = "resolved" THEN n ELSE r.queue.state,
           Typed(r1), Remained(r0, r1), Typed(s), Settled(r1, n, status, s),
           s.shown = r1.shown \/ r.nodes[n].type = "restore"
    PROVE  Good(s)
<1> DEFINE k == Len(r.nodes) + 1
           p == r.queue.pending
           y == r.nodes[p].next
           L == Len(r.nodes)
<1>0. Typed(r) /\ InQueue(r) /\ InOrder(r) /\ PendingOnly(r) /\ LastIsShown(r)
  BY DEF Good
<1>1. /\ Len(r.nodes) \in Nat /\ DOMAIN r.nodes = 1 .. Len(r.nodes)
      /\ \A x \in DOMAIN r.nodes : r.nodes[x].next \in DOMAIN r.nodes \cup {0}
      /\ p \in DOMAIN r.nodes \cup {0}
  BY <1>0, Numbers
<1>2. InQueue(r0)
  BY <1>0 DEF InQueue, PendingRuns, QueuedCount, NextIsQueued, NextIsNoOthers, live
<1>3. InOrder(r0)
  <2>1. Waiting(r0) = Waiting(r)
    BY DEF Waiting, Follows
  <2> QED  BY <1>0, <2>1 DEF InOrder
<1>4. InQueue(r1) /\ InOrder(r1)
  BY <1>2, <1>3, RemainingInQueue, RemainingInOrder
<1>5. r1.nodes[n] = r.nodes[n] /\ n # r1.queue.pending /\ n \in DOMAIN r1.nodes
  <2>1. r1.nodes[n] = r.nodes[n] /\ (p # 0 => n # r1.queue.pending)
    BY <1>2, RemainedOthers
  <2>2. p = 0 => r1 = r0
    BY DEF Remained
  <2>3. n \in DOMAIN r1.nodes
    BY DEF Remained
  <2> QED  BY <1>1, <2>1, <2>2, <2>3
<1>6. InQueue(s) /\ InOrder(s)
  BY <1>4, <1>5, SettledInQueue, SettledInOrder DEF Statuses
<1>7. /\ s.queue = r1.queue /\ DOMAIN s.nodes = DOMAIN r1.nodes /\ Len(s.nodes) = Len(r1.nodes)
      /\ s.nodes[n].status = status
      /\ \A x \in DOMAIN r1.nodes : /\ s.nodes[x].type = r1.nodes[x].type
                                    /\ s.nodes[x].discarded = r1.nodes[x].discarded
                                    /\ s.nodes[x].next = r1.nodes[x].next
                                    /\ x # n => s.nodes[x] = r1.nodes[x]
  BY DEF Settled, Same
<1>8. /\ DOMAIN r.nodes \subseteq DOMAIN r1.nodes
      /\ \A x \in DOMAIN r.nodes : /\ r1.nodes[x].type = r.nodes[x].type
                                   /\ r1.nodes[x].discarded = r.nodes[x].discarded
                                   /\ r1.nodes[x].next = r.nodes[x].next
                                   /\ r.nodes[x].status # "queued" => r1.nodes[x] = r.nodes[x]
  <2>1. \A x \in DOMAIN r.nodes : r.nodes[x].status # "queued" => r1.nodes[x] = r.nodes[x]
    BY <1>2, RemainedOthers
  <2> QED  BY <2>1 DEF Remained, Same
<1>9. Grows(r, s)
  <2>1. \A x \in DOMAIN r.nodes : r.nodes[x].status = "rejected" => s.nodes[x].status = "rejected"
    BY <1>7, <1>8
  <2> QED  BY <1>7, <1>8, <2>1 DEF Grows
<1>10. r.nodes[n].discarded => DiscardedRejected(s)
  BY <1>5, <1>7 DEF DiscardedRejected
<1>11. CASE DiscardedRejected(r) \/ r.nodes[n].discarded
  <2>1. DiscardedRejected(s)
    BY <1>9, <1>10, <1>11, GrowsBad
  <2> QED  BY <1>6, <2>1 DEF Good, PendingOnly, LastIsShown
<1>12. CASE ~DiscardedRejected(r) /\ ~r.nodes[n].discarded
  <2>1. /\ n = p /\ p # 0
        /\ \A x \in DOMAIN r.nodes : r.nodes[x].status = "running" /\ ~r.nodes[x].discarded => x = p
    BY <1>0, <1>1, <1>12 DEF PendingOnly
  <2>2. \A x \in DOMAIN r.nodes : x # y => r1.nodes[x] = r.nodes[x]
    BY <2>1 DEF Remained
  <2>3. s.queue.state = r0.queue.state
    BY <1>7 DEF Remained
  <2>4. \A x \in DOMAIN r.nodes : s.nodes[x].next = r.nodes[x].next
    BY <1>7, <1>8
  <2>5. OutOfOrder(r) \/ LastIs(s, Len(s.nodes)) => LastIsShown(s)
    BY <1>9, GrowsBad DEF LastIsShown
  <2>6. ~OutOfOrder(r) =>
           /\ \A x \in DOMAIN r.nodes : r.nodes[x].next = 0 \/ r.nodes[x].next > x
           /\ r.shown = L /\ ~r.nodes[L].discarded /\ r.nodes[n].type # "restore"
           /\ r.nodes[L].status \in {"queued", "running"} /\ L # 0 /\ L \in DOMAIN r.nodes
    BY <1>0, <1>1, <1>12, <2>1 DEF LastIsShown, LastIs, OutOfOrder
  <2>7. CASE y # 0
    <3>1. /\ y \in DOMAIN r.nodes /\ s.queue.pending = y /\ r1.shown = r.shown
          /\ DOMAIN r1.nodes = DOMAIN r.nodes /\ Len(r1.nodes) = L
          /\ r1.nodes[y].status = "running" /\ r1.nodes[y].base = r0.queue.state
      BY <1>1, <1>7, <2>1, <2>7 DEF Remained
    <3>2. y # n
      BY <1>5, <1>7, <3>1
    <3> HIDE DEF y
    <3>3. PendingOnly(s)
      BY <1>7, <1>8, <2>1, <2>2, <2>3, <3>1, <3>2 DEF PendingOnly
    <3>4. LastIsShown(s)
      <4>1. CASE OutOfOrder(r)
        BY <2>5, <4>1
      <4>2. CASE ~OutOfOrder(r)
        <5>1. y > n /\ L >= y /\ L # n
          BY <1>1, <2>1, <2>6, <3>1, <4>2 DEF y
        <5>2. s.nodes[L].status \in {"queued", "running"}
          BY <1>7, <2>2, <2>6, <3>1, <4>2, <5>1
        <5> QED  BY <1>7, <1>8, <2>4, <2>5, <2>6, <3>1, <4>2, <5>2 DEF LastIs
      <4> QED  BY <4>1, <4>2
    <3> QED  BY <1>6, <3>3, <3>4 DEF Good
  <2>8. CASE y = 0 /\ s.queue.pending # 0
    <3>1. /\ s.queue.pending = k /\ r1.shown = k /\ Len(r1.nodes) = k
          /\ DOMAIN r1.nodes = DOMAIN r.nodes \cup {k} /\ k \notin DOMAIN r.nodes
          /\ ~r1.nodes[k].discarded /\ r1.nodes[k].next = 0
          /\ r1.nodes[k].status = "running" /\ r1.nodes[k].base = r0.queue.state
      BY <1>7, <2>1, <2>8 DEF Remained
    <3>2. k # n /\ k # 0
      BY <1>1, <3>1
    <3>3. \A x \in DOMAIN r.nodes : r1.nodes[x] = r.nodes[x]
      BY <1>1, <2>2, <2>8
    <3> HIDE DEF k, y
    <3>4. PendingOnly(s)
      BY <1>7, <2>1, <2>3, <3>1, <3>2, <3>3 DEF PendingOnly
    <3>5. LastIsShown(s)
      <4>1. CASE OutOfOrder(r)
        BY <2>5, <4>1
      <4>2. CASE ~OutOfOrder(r)
        BY <1>7, <2>4, <2>5, <2>6, <3>1, <3>2, <4>2 DEF LastIs
      <4> QED  BY <4>1, <4>2
    <3> QED  BY <1>6, <3>4, <3>5 DEF Good
  <2>9. CASE y = 0 /\ s.queue.pending = 0
    <3>1. r1.nodes = r.nodes /\ r1.shown = r.shown
      BY <1>1, <1>7, <2>1, <2>9 DEF Remained
    <3> HIDE DEF y
    <3>2. PendingOnly(s)
      BY <1>7, <2>1, <2>9, <3>1 DEF PendingOnly
    <3>3. LastIsShown(s)
      <4>1. CASE OutOfOrder(r)
        BY <2>5, <4>1
      <4>2. CASE ~OutOfOrder(r)
        <5>1. s.nodes[L].status = "resolved" => s.queue.state = L
          <6>1. CASE L = n
            BY <1>7, <2>3, <6>1
          <6>2. CASE L # n
            BY <1>7, <2>6, <3>1, <4>2, <6>2
          <6> QED  BY <6>1, <6>2
        <5> QED  BY <1>7, <1>8, <2>4, <2>5, <2>6, <2>9, <3>1, <4>2, <5>1 DEF LastIs
      <4> QED  BY <4>1, <4>2
    <3> QED  BY <1>6, <3>2, <3>3 DEF Good
  <2> QED  BY <2>7, <2>8, <2>9
<1> QED  BY <1>11, <1>12

LEMMA DiscardedGood ==
    ASSUME NEW r, NEW s, NEW n \in DOMAIN r.nodes, Good(r), r.nodes[n].status = "running",
           r.nodes[n].discarded, Typed(s), Settled(r, n, "resolved", s), s.shown = r.shown
    PROVE  Good(s)
<1>0. Typed(r) /\ InQueue(r) /\ InOrder(r) /\ PendingOnly(r) /\ LastIsShown(r)
  BY DEF Good
<1>1. n # r.queue.pending /\ n # 0 /\ r.queue.pending \in DOMAIN r.nodes \cup {0}
  BY <1>0, Numbers DEF InQueue, PendingRuns
<1>2. InQueue(s) /\ InOrder(s)
  BY <1>0, <1>1, SettledInQueue, SettledInOrder DEF Statuses
<1>3. /\ s.queue = r.queue /\ DOMAIN s.nodes = DOMAIN r.nodes /\ Len(s.nodes) = Len(r.nodes)
      /\ s.nodes[n].status = "resolved"
      /\ \A x \in DOMAIN r.nodes : /\ s.nodes[x].type = r.nodes[x].type
                                   /\ s.nodes[x].discarded = r.nodes[x].discarded
                                   /\ s.nodes[x].next = r.nodes[x].next
                                   /\ x # n => s.nodes[x] = r.nodes[x]
  BY DEF Settled, Same
<1>4. Grows(r, s)
  BY <1>3 DEF Grows
<1>5. PendingOnly(s)
  <2>1. CASE DiscardedRejected(r)
    BY <1>4, <2>1, GrowsBad DEF PendingOnly
  <2>2. CASE ~DiscardedRejected(r)
    BY <1>0, <1>1, <1>3, <2>2 DEF PendingOnly
  <2> QED  BY <2>1, <2>2
<1>6. LastIsShown(s)
  <2>1. CASE DiscardedRejected(r) \/ OutOfOrder(r)
    BY <1>4, <2>1, GrowsBad DEF LastIsShown
  <2>2. CASE LastIs(r, Len(r.nodes))
    <3>1. Len(r.nodes) # 0 => Len(r.nodes) \in DOMAIN r.nodes /\ Len(r.nodes) # n
      <4>1. Len(r.nodes) \in Nat /\ DOMAIN r.nodes = 1 .. Len(r.nodes)
        BY <1>0, Numbers
      <4>2. Len(r.nodes) # 0 => Len(r.nodes) # n
        BY <2>2 DEF LastIs
      <4> QED  BY <4>1, <4>2
    <3>2. LastIs(s, Len(r.nodes))
      BY <1>3, <2>2, <3>1 DEF LastIs
    <3> QED  BY <1>3, <3>2 DEF LastIsShown
  <2> QED  BY <1>0, <2>1, <2>2 DEF LastIsShown
<1> QED  BY <1>2, <1>5, <1>6 DEF Good

-----------------------------------------------------------------------------
(* The variables.                                                          *)

LEMMA Become ==
    ASSUME NEW r \in Router, become(r)
    PROVE  router' = r
BY DEF become, router, Router

LEMMA RouterFields == router.queue = queue /\ router.nodes = nodes /\ router.shown = shown
BY DEF router

LEMMA InvInit == Init => Inv
<1> SUFFICES ASSUME Init PROVE Inv
  OBVIOUS
<1>1. /\ router.nodes = << >> /\ router.shown = 0 /\ router.queue.pending = 0
      /\ router.queue.last = 0 /\ router.queue.state = 0 /\ router.queue.needsRefresh = FALSE
      /\ Len(router.nodes) = 0 /\ DOMAIN router.nodes = {}
  BY DEF Init, router
<1>2. Typed(router)
  <2>1. << >> \in Seq(Node) /\ [state |-> 0, pending |-> 0, last |-> 0, needsRefresh |-> FALSE] \in Queue
    BY DEF Queue
  <2>2. router \in Router
    BY <2>1 DEF Init, router, Router
  <2> QED  BY <1>1, <2>2 DEF Typed
<1>3. InQueue(router)
  BY <1>1 DEF InQueue, PendingRuns, QueuedCount, NextIsQueued, NextIsNoOthers
<1>4. InOrder(router)
  BY <1>1, NothingWaits
<1>5. PendingOnly(router) /\ LastIsShown(router)
  BY <1>1 DEF PendingOnly, LastIsShown, LastIs
<1> QED  BY <1>2, <1>3, <1>4, <1>5 DEF Good, Init, Inv

(* dispatch                                                                *)
LEMMA StepDispatch ==
    ASSUME Inv, NEW type \in Types, dispatch(type)
    PROVE  Inv' /\ queue'.state = queue.state
<1> DEFINE s == dispatch_action(router, type)
<1>1. Good(router) /\ Typed(router) /\ InQueue(router)
  BY DEF Inv, Good
<1>2. Typed(s) /\ Dispatched(router, type, s)
  BY <1>1, Dispatch DEF InQueue, PendingRuns
<1>3. Good(s)
  BY <1>1, <1>2, DispatchGood
<1>4. router' = s
  BY <1>2, Become DEF dispatch, Typed
<1>5. dispatches' \in Nat /\ rejections' \in Nat
  BY DEF dispatch, Inv
<1>6. queue' = s.queue
  BY DEF dispatch, become
<1>7. queue'.state = queue.state
  BY <1>2, <1>6, RouterFields DEF Dispatched
<1> HIDE DEF s
<1>8. Good(router')
  BY <1>3, <1>4
<1> QED  BY <1>5, <1>7, <1>8 DEF Inv

(* discard_result                                                          *)
LEMMA StepDiscardResult ==
    ASSUME Inv, NEW n \in DOMAIN nodes, discard_result(n)
    PROVE  Inv' /\ queue'.state = queue.state
<1> DEFINE s == [queue |-> router.queue,
                 nodes |-> [router.nodes EXCEPT ![n].status = "resolved"],
                 shown |-> router.shown]
<1>1. Good(router) /\ Typed(router)
  BY DEF Inv, Good
<1>2. Typed(s) /\ Settled(router, n, "resolved", s)
  BY <1>1, RouterFields, SettleNodes DEF Statuses
<1>3. router' = s
  BY DEF discard_result, router
<1>4. s.shown = router.shown
  OBVIOUS
<1> HIDE DEF s
<1>5. Good(s)
  BY <1>1, <1>2, <1>4, RouterFields, DiscardedGood DEF discard_result
<1> QED  BY <1>3, <1>5 DEF Inv, discard_result

(* handle_result                                                           *)
LEMMA StepHandleResult ==
    ASSUME Inv, NEW n \in DOMAIN nodes, handle_result(n)
    PROVE  Inv' /\ queue'.state = n
<1> DEFINE r0 == [router EXCEPT !.queue.state = n]
           r1 == run_remaining_actions(r0)
           sh == IF r1.nodes[n].type = "restore" THEN n ELSE r1.shown
           s  == [queue |-> r1.queue, nodes |-> [r1.nodes EXCEPT ![n].status = "resolved"],
                  shown |-> sh]
<1>1. Good(router) /\ Typed(router) /\ InQueue(router)
  BY DEF Inv, Good
<1>2. n \in Nat /\ n <= Len(router.nodes) /\ n \in DOMAIN router.nodes /\ router.queue \in Queue
  BY <1>1, RouterFields, Numbers DEF Typed, Router
<1>3. r0 = [queue |-> [router.queue EXCEPT !.state = n], nodes |-> router.nodes,
            shown |-> router.shown]
  BY DEF router
<1>4. /\ r0.nodes = router.nodes /\ r0.shown = router.shown
      /\ r0.queue = [router.queue EXCEPT !.state = n]
  BY <1>3
<1>5. /\ r0.queue \in Queue /\ r0.queue.pending = router.queue.pending
      /\ r0.queue.last = router.queue.last /\ r0.queue.needsRefresh = router.queue.needsRefresh
      /\ r0.queue.state = n
  <2> HIDE DEF r0
  <2> QED  BY <1>2, <1>4 DEF Queue
<1>6. r0 \in Router
  <2> DEFINE q == [router.queue EXCEPT !.state = n]
  <2>1. q \in Queue
    BY <1>4, <1>5
  <2> HIDE DEF q
  <2>2. router.nodes \in Seq(Node) /\ router.shown \in Nat
    BY <1>1 DEF Typed, Router
  <2>3. r0 = [queue |-> q, nodes |-> router.nodes, shown |-> router.shown]
    BY <1>3 DEF q
  <2> QED  BY <2>1, <2>2, <2>3 DEF Router
<1>7. Typed(r0)
  <2> HIDE DEF r0
  <2> QED  BY <1>1, <1>2, <1>4, <1>5, <1>6 DEF Typed
<1>8. Typed(r1) /\ Remained(r0, r1)
  <2> HIDE DEF r0
  <2> QED  BY <1>7, Remaining
<1> HIDE DEF r0
<1>9. become(resolve(r1, n))
  BY RouterFields DEF handle_result, r0
<1> HIDE DEF r1
<1>10. n \in DOMAIN r1.nodes
  BY <1>2, <1>4, <1>8 DEF Remained
<1>11. sh \in {r1.shown, n}
  OBVIOUS
<1>12. Typed(s) /\ Settled(r1, n, "resolved", s)
  <2> HIDE DEF sh
  <2> QED  BY <1>8, <1>10, <1>11, SettleNodes DEF Statuses
<1>13. s = resolve(r1, n)
  <2>1. r1 = [queue |-> r1.queue, nodes |-> r1.nodes, shown |-> r1.shown]
    BY <1>8 DEF Typed, Router
  <2>2. resolve(r1, n) = [[r1 EXCEPT !.nodes[n].status = "resolved"] EXCEPT !.shown = sh]
    BY DEF resolve
  <2>3. [r1 EXCEPT !.nodes[n].status = "resolved"]
        = [queue |-> r1.queue, nodes |-> [r1.nodes EXCEPT ![n].status = "resolved"],
           shown |-> r1.shown]
    BY <2>1
  <2> HIDE DEF sh
  <2> QED  BY <2>2, <2>3, Fields
<1>14. router' = s
  <2> HIDE DEF s
  <2> QED  BY <1>9, <1>12, <1>13, Become DEF Typed
<1>15. s.shown = r1.shown \/ router.nodes[n].type = "restore"
  <2>1. r1.nodes[n].type = router.nodes[n].type
    BY <1>2, <1>4, <1>8 DEF Remained, Same
  <2> QED  BY <2>1
<1>16. router.nodes[n].status = "running" /\ ~router.nodes[n].discarded
  BY RouterFields DEF handle_result
<1> HIDE DEF s
<1>17. Good(s)
  BY <1>1, <1>2, <1>4, <1>5, <1>7, <1>8, <1>12, <1>15, <1>16, HandledGood
<1>18. queue' = s.queue
  BY <1>9, <1>13 DEF become
<1>19. queue'.state = n
  <2>1. s.queue = r1.queue
    BY <1>12 DEF Settled
  <2> QED  BY <1>5, <1>8, <1>18, <2>1 DEF Remained
<1> QED  BY <1>14, <1>17, <1>19 DEF Inv, handle_result

(* handle_rejection                                                        *)
LEMMA StepHandleRejection ==
    ASSUME Inv, NEW n \in DOMAIN nodes, handle_rejection(n)
    PROVE  Inv' /\ queue'.state = queue.state
<1> DEFINE r1 == run_remaining_actions(router)
           s  == [queue |-> r1.queue, nodes |-> [r1.nodes EXCEPT ![n].status = "rejected"],
                  shown |-> r1.shown]
<1>1. Good(router) /\ Typed(router) /\ n \in DOMAIN router.nodes
  BY RouterFields DEF Inv, Good
<1>2. Typed(r1) /\ Remained(router, r1)
  BY <1>1, Remaining
<1>3. /\ become([r1 EXCEPT !.nodes[n].status = "rejected"])
      /\ router.nodes[n].status = "running"
      /\ dispatches' = dispatches /\ rejections' = rejections + 1
  BY RouterFields DEF handle_rejection
<1> HIDE DEF r1
<1>4. n \in DOMAIN r1.nodes
  BY <1>1, <1>2 DEF Remained
<1>5. Typed(s) /\ Settled(r1, n, "rejected", s)
  BY <1>2, <1>4, SettleNodes DEF Statuses
<1>6. s = [r1 EXCEPT !.nodes[n].status = "rejected"]
  <2>1. r1 = [queue |-> r1.queue, nodes |-> r1.nodes, shown |-> r1.shown]
    BY <1>2 DEF Typed, Router
  <2> QED  BY <2>1
<1>7. s.shown = r1.shown
  OBVIOUS
<1> HIDE DEF s
<1>8. router' = s /\ queue' = s.queue
  BY <1>3, <1>5, <1>6, Become DEF Typed, become
<1>9. Good(s)
  BY <1>1, <1>2, <1>3, <1>5, <1>7, HandledGood
<1>10. queue'.state = queue.state
  BY <1>2, <1>5, <1>8, RouterFields DEF Settled, Remained
<1> QED  BY <1>3, <1>8, <1>9, <1>10 DEF Inv

LEMMA InvStep == Inv /\ [Next]_vars => Inv'
<1> SUFFICES ASSUME Inv, [Next]_vars PROVE Inv'
  OBVIOUS
<1>1. ASSUME NEW type \in Types, dispatch(type) PROVE Inv'
  BY <1>1, StepDispatch
<1>2. ASSUME NEW n \in DOMAIN nodes, discard_result(n) PROVE Inv'
  BY <1>2, StepDiscardResult
<1>3. ASSUME NEW n \in DOMAIN nodes, handle_result(n) PROVE Inv'
  BY <1>3, StepHandleResult
<1>4. ASSUME NEW n \in DOMAIN nodes, handle_rejection(n) PROVE Inv'
  BY <1>4, StepHandleRejection
<1>5. CASE UNCHANGED vars
  <2>1. router' = router /\ dispatches' = dispatches /\ rejections' = rejections
    BY <1>5 DEF vars, router
  <2> QED  BY <2>1 DEF Inv
<1> QED  BY <1>1, <1>2, <1>3, <1>4, <1>5 DEF Next, settle

LEMMA Invariance == Spec => []Inv
<1> QED  BY InvInit, InvStep, PTL DEF Spec

-----------------------------------------------------------------------------
(* The theorems.                                                           *)

(* The variables have their types.                                         *)
LEMMA InvTyped == Inv => TypeOK
<1> SUFFICES ASSUME Inv PROVE TypeOK
  OBVIOUS
<1>1. Typed(router) /\ dispatches \in Nat /\ rejections \in Nat
  BY DEF Inv, Good
<1>2. /\ nodes \in Seq(Node) /\ queue \in Queue /\ shown \in Nat
  BY <1>1, RouterFields DEF Typed, Router
<1>3. Len(nodes) \in Nat /\ \A n \in DOMAIN nodes : nodes[n] \in Node
  BY <1>2
<1>4. queue \in [state : Ids, pending : Ids, last : Ids, needsRefresh : BOOLEAN] /\ shown \in Ids
  BY <1>1, <1>2, <1>3, RouterFields DEF Typed, Queue, Ids
<1>5. \A n \in DOMAIN nodes : nodes[n].next \in Ids /\ nodes[n].base \in Ids
  BY <1>1, <1>3, RouterFields DEF Typed, Node, Ids
<1>6. \A n \in DOMAIN nodes :
         nodes[n] \in [type : Types, next : Ids, discarded : BOOLEAN, status : Statuses, base : Ids]
  BY <1>3, <1>5 DEF Node
<1> QED  BY <1>1, <1>4, <1>6 DEF TypeOK, Statuses

THEOREM TypeCorrect == Spec => []TypeOK
<1> QED  BY Invariance, InvTyped, PTL

(* Whenever the queue is not empty, an action that counts is running, so   *)
(* the queue moves on, and no refresh is left behind.                      *)
THEOREM PendingAlwaysMoves == Spec => []PendingMoves
<1>1. Inv => PendingMoves
  BY RouterFields DEF Inv, Good, InQueue, PendingRuns, PendingMoves
<1> QED  BY <1>1, Invariance, PTL

(* Actions run one at a time and in the order of their dispatch, but for   *)
(* navigations and restores, and while no discarded action was rejected.   *)
THEOREM QueueAlwaysInOrder == Spec => []QueueInOrder
<1>1. ASSUME Inv PROVE OneAtATime
  <2>1. waiting = Waiting(router)
    BY RouterFields DEF waiting, follows, Waiting, Follows
  <2>2. \A a \in waiting : \A b \in DOMAIN nodes :
            a < b /\ nodes[b].type \notin {"navigate", "restore"} => nodes[b].status = "queued"
    BY <1>1, <2>1, RouterFields DEF Inv, Good, InOrder
  <2>3. CASE ~discarded_rejected
    <3> DEFINE R == {n \in DOMAIN nodes : nodes[n].status = "running" /\ ~nodes[n].discarded}
    <3>1. R \subseteq {queue.pending}
      BY <1>1, <2>3, RouterFields
         DEF Inv, Good, PendingOnly, DiscardedRejected, discarded_rejected
    <3>2. IsFiniteSet({queue.pending}) /\ Cardinality({queue.pending}) = 1
      BY FS_Singleton
    <3>3. Cardinality(R) <= 1
      BY <3>1, <3>2, FS_Subset
    <3> QED  BY <2>2, <3>3 DEF OneAtATime
  <2> QED  BY <2>2, <2>3 DEF OneAtATime
<1>2. Inv => QueueInOrder
  BY <1>1, InvTyped DEF QueueInOrder
<1> QED  BY <1>2, Invariance, PTL

(* When nothing is pending and what React was given last is resolved, it   *)
(* is the router's state, unless something was out of order.               *)
THEOREM ShownAlwaysCurrent == Spec => []ShownIsCurrent
<1>1. Inv => ShownIsCurrent
  <2> SUFFICES ASSUME Inv, ~out_of_order, ~discarded_rejected, shown # 0,
                      nodes[shown].status = "resolved"
               PROVE  shown = queue.state
    BY DEF ShownIsCurrent
  <2>1. LastIs(router, Len(nodes))
    BY RouterFields
       DEF Inv, Good, LastIsShown, OutOfOrder, DiscardedRejected, out_of_order, discarded_rejected
  <2> QED  BY <2>1, RouterFields DEF LastIs
<1> QED  BY <1>1, Invariance, PTL

(* No update is lost: each state is computed from the one it replaces, as  *)
(* long as no discarded action was rejected.                               *)
THEOREM AlwaysBuildsOnCurrent == Spec => BuildsOnCurrent
<1> DEFINE Builds == queue'.state # queue.state /\ ~discarded_rejected =>
                         nodes[queue'.state].base = queue.state
<1>1. Inv /\ [Next]_vars => [Builds]_vars
  <2> SUFFICES ASSUME Inv, Next, queue'.state # queue.state, ~discarded_rejected
               PROVE  nodes[queue'.state].base = queue.state
    OBVIOUS
  <2>1. PICK n \in DOMAIN nodes : handle_result(n)
    BY StepDispatch, StepDiscardResult, StepHandleRejection DEF Next, settle
  <2>2. queue'.state = n
    BY <2>1, StepHandleResult
  <2>3. Typed(router) /\ PendingOnly(router) /\ ~DiscardedRejected(router)
    BY RouterFields DEF Inv, Good, DiscardedRejected, discarded_rejected
  <2>4. n = queue.pending /\ n # 0
    BY <2>1, <2>3, Numbers, RouterFields DEF PendingOnly, handle_result
  <2> QED  BY <2>2, <2>3, <2>4, RouterFields DEF PendingOnly
<1> QED  BY <1>1, Invariance, PTL DEF Spec, BuildsOnCurrent
=============================================================================
