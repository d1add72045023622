----------------------- MODULE SegmentCacheInvariant -----------------------
(***************************************************************************)
(* The inductive invariant of SegmentCache.  Its properties are about the  *)
(* state between steps; a step is a composition of functions, so that the  *)
(* invariant is stated of any state s, and of the requests R and entries   *)
(* sp that an unfinished function is still going to settle or to request.  *)
(***************************************************************************)
EXTENDS SegmentCache

Fields == {"link", "visible", "router", "task", "queue", "ordered", "sortId", "inProgress", "scheduled", "running",
           "thrown", "route", "routeMap", "routeLru", "segment", "segmentMap", "segmentLru", "version",
           "request", "got", "faults", "left"}

(* Keys of the two maps, and the values of the fields.                     *)
RouteKeys == Hrefs \X (NextUrls \cup {None})
SegmentKeys == Segments \X BOOLEAN
Upserts == SegmentKeys \cup {NoUpsert}

Link == [hovered : BOOLEAN, task : Nat, version : Int]
Router == [nextUrl : NextUrls, tree : Nat]
Task == [href : Hrefs, nextUrl : NextUrls, tree : Nat, full : BOOLEAN,
         priority : {Background, Default, Intent}, phase : {SegmentsPhase, RouteTreePhase}, bg : BOOLEAN,
         sortId : Nat, canceled : BOOLEAN, ended : BOOLEAN]
RouteEntry == [status : Statuses, stale : BOOLEAN, blocked : SUBSET Nat, couldBeIntercepted : BOOLEAN,
               keypath : RouteKeys, version : Nat]
SegmentEntry == [status : Statuses, fetchStrategy : {"PPR", "LoadingBoundary", "Full"}, stale : BOOLEAN,
                 isPartial : BOOLEAN, revalidating : Nat, waited : BOOLEAN, upsert : Upserts,
                 loading : BOOLEAN, keypath : Upserts]
Entries == UNION {[P -> Nat] : P \in {P \in SUBSET Segments : IsFiniteSet(P)}}
Request == [kind : {"route", "segment", "dynamic"}, task : Nat, route : Nat, entries : Entries,
            upsert : Upserts, open : BOOLEAN]

-----------------------------------------------------------------------------
(* Segments.                                                               *)

SegmentTypes(s) ==
    /\ DOMAIN s = Fields
    /\ s.segment \in Seq(SegmentEntry)
    /\ s.segmentMap \in [SegmentKeys -> {0} \cup DOMAIN s.segment]
    /\ s.segmentLru \subseteq DOMAIN s.segment
    /\ s.got \in Nat /\ s.thrown \in BOOLEAN

(* No key is mapped to e.                                                  *)
unmapped(s, e) == \A k \in SegmentKeys : s.segmentMap[k] # e

(* What is mapped is in the LRU and knows its key.                         *)
SegmentsEvictable(s) ==
    \A k \in SegmentKeys : LET e == s.segmentMap[k] IN
        e # 0 => e \in s.segmentLru /\ s.segment[e].keypath = k

(* An entry: a navigation waits only for what is pending; only a settled   *)
(* entry is complete; an entry that is to be upserted is in no map yet,    *)
(* nor is a revalidation before it is requested.                           *)
EntryOK(s, e) ==
    LET x == s.segment[e]
    IN  /\ x.revalidating \in {0} \cup DOMAIN s.segment
        /\ x.waited => x.status = "pending"
        /\ ~x.isPartial => x.status \in {"fulfilled", "rejected"}
        /\ x.status = "empty" => x.upsert = NoUpsert
        /\ x.upsert # NoUpsert => unmapped(s, e)
        /\ x.revalidating # 0 /\ s.segment[x.revalidating].status = "empty" => unmapped(s, x.revalidating)

(* A request for segments: its entries were pending until it was answered; *)
(* a segment that is to be upserted when the answer comes is in no map     *)
(* yet.                                                                    *)
RequestOK(s, q) ==
    /\ q \in Request
    /\ q.kind # "route" =>
         /\ Range(q.entries) # {}
         /\ \A p, p2 \in DOMAIN q.entries : q.entries[p] = q.entries[p2] => p = p2
         /\ \A e \in Range(q.entries) :
               /\ e \in DOMAIN s.segment /\ s.segment[e].status # "empty"
               /\ ~q.open => s.segment[e].status = "pending"
               /\ ~q.open /\ q.upsert # NoUpsert => unmapped(s, e) /\ s.segment[e].upsert = NoUpsert
         /\ q.kind = "dynamic" => q.upsert = NoUpsert
         /\ q.kind = "segment" => \E p \in Segments : DOMAIN q.entries = {p}

(* No entry is requested twice.                                            *)
Disjoint(R) == \A q, q2 \in R :
    q.kind # "route" /\ q2.kind # "route" /\ q # q2 => Range(q.entries) \cap Range(q2.entries) = {}

(* Pending entries are spawned (sp), or one of the requests R is for them. *)
Fetched(s, R, sp) ==
    s.faults \cap {"mpa", "recursion"} = {} =>
        \A e \in DOMAIN s.segment : s.segment[e].status = "pending" =>
            e \in sp \/ \E q \in R : q.kind # "route" /\ e \in Range(q.entries) /\ ~q.open

(* All of it, with the requests R and the spawned entries sp.              *)
Seg(s, R, sp) ==
    /\ SegmentTypes(s)
    /\ SegmentsEvictable(s)
    /\ \A e \in DOMAIN s.segment : EntryOK(s, e)
    /\ \A q \in R : RequestOK(s, q)
    /\ Disjoint(R)
    /\ Fetched(s, R, sp)
    /\ s.thrown => "recursion" \in s.faults

-----------------------------------------------------------------------------
(* Tasks, links, the queue and routes.                                     *)

(* What is queued is not canceled, and sortIds, which order the queue, are *)
(* never reused.                                                           *)
Tasks(s) ==
    /\ DOMAIN s = Fields
    /\ s.task \in Seq(Task) /\ s.sortId \in Nat /\ s.version \in Nat /\ s.inProgress \in Int
    /\ s.scheduled \in BOOLEAN /\ s.running \in BOOLEAN
    /\ s.router \in Router /\ s.visible \in Seq(Links)
    /\ s.link \in [Links -> Link]
    /\ \A l \in Links : s.link[l].task \in {0} \cup DOMAIN s.task
    /\ s.queue \subseteq DOMAIN s.task
    /\ \A t \in s.queue : ~s.task[t].canceled
    /\ \A t \in DOMAIN s.task : s.task[t].sortId < s.sortId
    /\ \A t, u \in DOMAIN s.task : s.task[t].sortId = s.task[u].sortId => t = u

Unanswered(R, e) == \E q \in R : q.kind = "route" /\ q.route = e /\ ~q.open

RouteRequestOK(s, q) ==
    /\ q.task \in DOMAIN s.task /\ q.route \in DOMAIN s.route
    /\ q.kind = "route" =>
         /\ s.route[q.route].status # "empty"
         /\ ~q.open => s.route[q.route].status = "pending"

(* Mapped routes are in the LRU, know their key and are of the current     *)
(* version; a pending route has the one request that will settle it.       *)
Routes(s, R) ==
    /\ s.route \in Seq(RouteEntry)
    /\ s.routeMap \in [RouteKeys -> {0} \cup DOMAIN s.route]
    /\ s.routeLru \subseteq DOMAIN s.route
    /\ s.got \in Nat
    /\ \A k \in RouteKeys : LET e == s.routeMap[k] IN
          e # 0 => e \in s.routeLru /\ s.route[e].keypath = k /\ s.route[e].version = s.version
    /\ \A e \in DOMAIN s.route :
          /\ s.route[e].blocked \subseteq DOMAIN s.task
          /\ s.route[e].status = "pending" => Unanswered(R, e)
    /\ \A q \in R : RouteRequestOK(s, q)
    /\ \A q, q2 \in R : q.kind = "route" /\ q2.kind = "route" /\ q.route = q2.route => q = q2

(* A task that is waiting will be called: it is in the queue, blocked on a *)
(* route that was requested, or in T.                                      *)
Blocked(s, R, t) == \E q \in R : q.kind = "route" /\ ~q.open /\ t \in s.route[q.route].blocked

Kept(s, R, T) ==
    "popped" \notin s.faults =>
        \A t \in DOMAIN s.task :
            s.task[t].canceled \/ s.task[t].ended \/ t \in s.queue \/ Blocked(s, R, t) \/ t \in T

Rest(s, R) == Tasks(s) /\ Routes(s, R) /\ Kept(s, R, {})

-----------------------------------------------------------------------------
(* The invariant.                                                          *)

(* Connections are counted, unless one broke.                              *)
Counted(s) ==
    /\ IsFiniteSet(s.request)
    /\ "broken" \notin s.faults => s.inProgress = Cardinality(s.request)

(* The limit on connections is exceeded by parallel slots only.            *)
Bounded(s) == "broken" \notin s.faults => WithinLimit(s.inProgress)

(* What the invariant says of a state.                                     *)
Sound(s) == Rest(s, s.request) /\ Seg(s, s.request, {}) /\ Counted(s) /\ Bounded(s)

(* Between steps nothing was just read or thrown.                          *)
IInv == Sound(state) /\ state.got = 0 /\ ~state.thrown
=============================================================================
