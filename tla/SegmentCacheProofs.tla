-------------------------- MODULE SegmentCacheProofs --------------------------
(***************************************************************************)
(* Theorems about SegmentCache, for every set of links, routes and         *)
(* segments, every tree and every limit.                                   *)
(*                                                                         *)
(* The inductive invariant is IInv of SegmentCacheInvariant.  A step is    *)
(* one function of the state after another, so that each function has a    *)
(* lemma that takes the invariant of segments (Seg) or of tasks and routes *)
(* (Rest) through it, and a relation between the state before and after    *)
(* that says what it leaves alone: Reads, Steady, NotSegments, QueueOnly,  *)
(* RouteOnly, Pinged, Answered.  The loops are followed as folds: what     *)
(* Holds of the part that was done holds one element later.  Every action  *)
(* leads to a Good state (NextGood), of which becomes forgets only what is *)
(* in no use (AfterSound).                                                 *)
(***************************************************************************)
EXTENDS SegmentCacheInvariant, FiniteSetTheorems, WellFoundedInduction, TLAPS

-----------------------------------------------------------------------------
(* What the functions leave alone.                                         *)

(* The part of the state that the functions of the segment cache change.   *)
SegmentsOnly(s, r) ==
    /\ DOMAIN r = Fields
    /\ r.link = s.link /\ r.visible = s.visible /\ r.router = s.router /\ r.task = s.task
    /\ r.queue = s.queue /\ r.sortId = s.sortId /\ r.inProgress = s.inProgress
    /\ r.scheduled = s.scheduled /\ r.running = s.running
    /\ r.route = s.route /\ r.routeMap = s.routeMap /\ r.routeLru = s.routeLru
    /\ r.version = s.version /\ r.request = s.request /\ r.left = s.left

(* What reads do to segments; they delete stale ones, and those at K.      *)
Reads(s, r, K) ==
    /\ SegmentsOnly(s, r) /\ SegmentTypes(r)
    /\ DOMAIN r.segment = DOMAIN s.segment
    /\ \A e \in DOMAIN s.segment : LET x == s.segment[e]  y == r.segment[e] IN
          /\ y.status = x.status /\ y.fetchStrategy = x.fetchStrategy /\ y.stale = x.stale
          /\ y.isPartial = x.isPartial /\ y.loading = x.loading /\ y.keypath = x.keypath
          /\ y.revalidating \in {0, x.revalidating} /\ y.upsert \in {x.upsert, NoUpsert}
          /\ y.waited => x.waited
    /\ \A k \in SegmentKeys :
          \/ r.segmentMap[k] = s.segmentMap[k]
          \/ r.segmentMap[k] = 0 /\ s.segmentMap[k] # 0 /\ (k \in K \/ s.segment[s.segmentMap[k]].stale)
    /\ \A e \in s.segmentLru : e \in r.segmentLru \/ unmapped(r, e)
    /\ s.faults \subseteq r.faults
    /\ \/ r.faults = s.faults /\ r.thrown = s.thrown
       \/ "recursion" \in r.faults /\ r.thrown

(* A complete and fresh segment is in the cache at k.                      *)
Full(s, k) ==
    LET e == s.segmentMap[k]
    IN  e # 0 /\ ~s.segment[e].isPartial /\ ~s.segment[e].stale

(* What everything that runs for a task or an answer leaves alone, but for *)
(* the entries W.                                                          *)
Steady(s, r, W) ==
    /\ SegmentsOnly(s, r)
    /\ DOMAIN s.segment \subseteq DOMAIN r.segment
    /\ \A e \in DOMAIN s.segment \ W :
          /\ r.segment[e].status = s.segment[e].status
          /\ r.segment[e].isPartial = s.segment[e].isPartial
          /\ r.segment[e].stale = s.segment[e].stale
    /\ \A k \in SegmentKeys : Full(s, k) => Full(r, k)
    /\ s.faults \subseteq r.faults

(* A new entry.                                                            *)
fresh(stale) ==
    [status |-> "empty", fetchStrategy |-> "PPR", stale |-> stale, isPartial |-> TRUE, revalidating |-> 0,
     waited |-> FALSE, upsert |-> NoUpsert, loading |-> FALSE, keypath |-> NoUpsert]

(* What the functions of routes and of the queue leave alone.              *)
NotSegments(s, r) ==
    /\ DOMAIN r = Fields
    /\ r.segment = s.segment /\ r.segmentMap = s.segmentMap /\ r.segmentLru = s.segmentLru
    /\ r.thrown = s.thrown /\ r.faults = s.faults
    /\ r.inProgress = s.inProgress /\ r.request = s.request /\ r.left = s.left

(* What the functions of the queue leave alone.                            *)
QueueOnly(s, r) ==
    /\ NotSegments(s, r)
    /\ r.visible = s.visible /\ r.router = s.router /\ r.version = s.version /\ r.got = s.got
    /\ r.running = s.running
    /\ DOMAIN s.task \subseteq DOMAIN r.task

(* What a task t does when it asks for the segments of its route e.        *)
Pinged(s, r, t, e) ==
    /\ DOMAIN r = Fields
    /\ r.link = s.link /\ r.visible = s.visible /\ r.router = s.router
    /\ r.queue = s.queue /\ r.sortId = s.sortId /\ r.scheduled = s.scheduled /\ r.running = s.running
    /\ r.route = s.route /\ r.routeMap = s.routeMap /\ r.routeLru = s.routeLru
    /\ r.version = s.version /\ r.left = s.left
    /\ r.task \in Seq(Task) /\ DOMAIN r.task = DOMAIN s.task
    /\ \A u \in DOMAIN s.task :
          /\ r.task[u].href = s.task[u].href /\ r.task[u].nextUrl = s.task[u].nextUrl
          /\ r.task[u].tree = s.task[u].tree /\ r.task[u].full = s.task[u].full
          /\ r.task[u].priority = s.task[u].priority /\ r.task[u].phase = s.task[u].phase
          /\ r.task[u].sortId = s.task[u].sortId
          /\ r.task[u].canceled = s.task[u].canceled /\ r.task[u].ended = s.task[u].ended
    /\ s.request \subseteq r.request
    /\ \A q \in r.request \ s.request : q.kind # "route" /\ q.task = t /\ q.route = e
    /\ r.inProgress \in Int
    /\ s.faults \subseteq r.faults
    /\ "broken" \in r.faults => "broken" \in s.faults
    /\ Counted(s) => Counted(r)
    /\ DOMAIN s.segment \subseteq DOMAIN r.segment
    /\ \A k \in SegmentKeys : Full(s, k) => Full(r, k)

-----------------------------------------------------------------------------
(* The limit.                                                              *)

LEMMA SlotsFinite ==
    ASSUME NEW h \in Hrefs PROVE IsFiniteSet(ParallelSlots(h))
<1>1. Tree[h] \in Seq(Segments)
  BY TreeAssumption
<1>2. DOMAIN Tree[h] = 1 .. Len(Tree[h]) /\ Len(Tree[h]) \in Int
  BY <1>1
<1>3. IsFiniteSet(DOMAIN Tree[h])
  BY <1>2, FS_Interval
<1>4. ParallelSlots(h) \subseteq DOMAIN Tree[h]
  BY DEF ParallelSlots
<1> QED  BY <1>3, <1>4, FS_Subset

(* Fewer connections are within the limit as well.                         *)
LEMMA WithinMonotone ==
    ASSUME NEW n \in Int, NEW m \in Int, WithinLimit(n), m <= n PROVE WithinLimit(m)
<1>1. CASE n <= MAX_CONCURRENT_PREFETCH_REQUESTS
  BY <1>1, MaxAssumption DEF WithinLimit
<1>2. ASSUME NEW h \in PPRRoutes \cap Hrefs,
             n <= MAX_CONCURRENT_PREFETCH_REQUESTS + Cardinality(ParallelSlots(h))
      PROVE  WithinLimit(m)
  <2>1. Cardinality(ParallelSlots(h)) \in Nat
    BY SlotsFinite, FS_CardinalityType
  <2>2. m <= MAX_CONCURRENT_PREFETCH_REQUESTS + Cardinality(ParallelSlots(h))
    BY <1>2, <2>1, MaxAssumption
  <2> QED  BY <2>2 DEF WithinLimit
<1> QED  BY <1>1, <1>2 DEF WithinLimit

-----------------------------------------------------------------------------
(* The loops, as folds. A fold is followed through the sets of what it has *)
(* done: Apply names what it does, Holds what is true then.                *)

Apply(f, x, a) ==
    CASE f.op = "ping"   -> pingPPRRouteNode(a, f.t, f.e, f.seq[x])
      [] f.op = "diff"   -> diffNodeAgainstCurrent(a, f.t, f.e, f.seq[x])
      [] f.op = "write"  -> writeIfRendered(a, f.q, f.seq[x])
      [] f.op = "link"   -> pingVisibleLink(a, f.seq[x])
      [] f.op = "wait"   -> waitForSegment(f.seq[x], a)
      [] f.op = "reject" -> rejectIfStillPending(x, a)
      [] f.op = "upsert" -> upsertIfFulfilled(x, a)

(* A tree is pinged.                                                       *)
PingHolds(f, S, a) ==
    /\ DOMAIN a = {"s", "exit"} /\ a.exit \in {"Done", "InProgress"}
    /\ Seg(a.s, a.s.request, {}) /\ Pinged(f.s, a.s, f.t, f.e)
    /\ a.s.inProgress <= MAX_CONCURRENT_PREFETCH_REQUESTS
                          + Cardinality(ParallelSlots(f.s.task[f.t].href) \cap S)
    /\ S = {} => a.s.inProgress < MAX_CONCURRENT_PREFETCH_REQUESTS

(* The entries that a request is about to be made for.                     *)
Spawned(s, spawned, R) ==
    /\ spawned \in Entries
    /\ \A p, p2 \in DOMAIN spawned : spawned[p] = spawned[p2] => p = p2
    /\ \A e \in Range(spawned) : /\ e \in DOMAIN s.segment /\ s.segment[e].status = "pending"
                                 /\ \A q \in R : q.kind # "route" => e \notin Range(q.entries)

(* A tree is compared with the current page; entries are collected.        *)
DiffHolds(f, S, a) ==
    /\ DOMAIN a = {"s", "spawned", "cut"}
    /\ Seg(a.s, f.s.request, Range(a.spawned)) /\ Steady(f.s, a.s, Nat)
    /\ "broken" \in a.s.faults => "broken" \in f.s.faults
    /\ Spawned(a.s, a.spawned, f.s.request)
    /\ \A p \in DOMAIN a.spawned : \E i \in S : f.seq[i] = p

(* A response is written: what came is fulfilled, the rest still pending.  *)
WriteHolds(f, S, a) ==
    /\ Seg(a, f.R, Range(f.q.entries)) /\ Steady(f.s, a, Nat)
    /\ \A p \in DOMAIN f.q.entries : LET x == a.segment[f.q.entries[p]] IN
          \/ x.status = "pending"
          \/ x.status = "fulfilled" /\ ~x.stale /\ \E i \in S : f.seq[i] = p

(* What is still pending is rejected.                                      *)
RejectHolds(f, S, a) ==
    /\ Seg(a, f.R, Range(f.q.entries)) /\ Steady(f.s, a, Nat) /\ a.faults = f.s.faults
    /\ \A e \in Range(f.q.entries) : LET x == a.segment[e] IN
          \/ x.status = "pending" /\ e \notin S
          \/ x.status = "rejected"
          \/ x.status = "fulfilled" /\ ~x.stale

(* What is fulfilled completes.                                            *)
UpsertHolds(f, S, a) ==
    /\ Seg(a, f.R, Range(f.q.entries)) /\ Steady(f.s, a, Nat)
    /\ \A e \in Range(f.q.entries) : LET x == a.segment[e] IN
          \/ x.status = "rejected"
          \/ x.status = "fulfilled" /\ ~x.stale

(* A navigation reads and waits.                                           *)
WaitHolds(f, S, a) == Seg(a, f.R, {}) /\ Steady(f.s, a, Nat)

(* Visible links are called.                                               *)
LinkHolds(f, S, a) == Rest(a, f.R) /\ QueueOnly(f.s, a)

Holds(f, S, a) ==
    CASE f.op = "ping"   -> PingHolds(f, S, a)
      [] f.op = "diff"   -> DiffHolds(f, S, a)
      [] f.op = "write"  -> WriteHolds(f, S, a)
      [] f.op = "link"   -> LinkHolds(f, S, a)
      [] f.op = "wait"   -> WaitHolds(f, S, a)
      [] f.op = "reject" -> RejectHolds(f, S, a)
      [] f.op = "upsert" -> UpsertHolds(f, S, a)

-----------------------------------------------------------------------------
(* Segments: reads                                                         *)

(* One entry of a sequence is replaced.                                    *)
LEMMA UpdatedEntry ==
    ASSUME NEW T, NEW S \in Seq(T), NEW e \in DOMAIN S, NEW x \in T
    PROVE  LET r == [S EXCEPT ![e] = x]
           IN  /\ r \in Seq(T) /\ DOMAIN r = DOMAIN S /\ r[e] = x
               /\ \A d \in DOMAIN S : d # e => r[d] = S[d]
OBVIOUS

(* Reading nothing is a read.                                              *)
LEMMA ReadsRefl ==
    ASSUME NEW s, SegmentTypes(s), NEW K PROVE Reads(s, s, K)
BY DEF Reads, SegmentsOnly, SegmentTypes

(* Reads keep the invariant of segments.                                   *)
LEMMA ReadsSeg ==
    ASSUME NEW s, NEW r, NEW R, NEW sp, NEW K, Seg(s, R, sp), Reads(s, r, K)
    PROVE  Seg(r, R, sp)
<1>1. SegmentTypes(s) /\ SegmentTypes(r)
  BY DEF Seg, Reads
<1>2. \A e : unmapped(s, e) /\ e # 0 => unmapped(r, e)
  BY DEF Reads, unmapped
<1>3. SegmentsEvictable(r)
  <2> SUFFICES ASSUME NEW k \in SegmentKeys, r.segmentMap[k] # 0
               PROVE  r.segmentMap[k] \in r.segmentLru /\ r.segment[r.segmentMap[k]].keypath = k
    BY DEF SegmentsEvictable
  <2>1. r.segmentMap[k] = s.segmentMap[k]
    BY DEF Reads
  <2>2. s.segmentMap[k] \in s.segmentLru /\ s.segment[s.segmentMap[k]].keypath = k
    BY <2>1 DEF Seg, SegmentsEvictable
  <2> QED  BY <1>1, <2>1, <2>2 DEF Reads, unmapped, SegmentTypes
<1>4. ASSUME NEW e \in DOMAIN r.segment PROVE EntryOK(r, e)
  <2>1. e \in DOMAIN s.segment /\ EntryOK(s, e) /\ e # 0
    BY <1>1 DEF Reads, Seg, SegmentTypes
  <2>2. r.segment[e].revalidating # 0 => r.segment[e].revalidating = s.segment[e].revalidating
    BY <2>1 DEF Reads
  <2> DEFINE v == s.segment[e].revalidating
  <2>3. v # 0 => v \in DOMAIN s.segment /\ r.segment[v].status = s.segment[v].status
    BY <2>1 DEF Reads, EntryOK
  <2> QED  BY <1>2, <2>1, <2>2, <2>3 DEF Reads, EntryOK
<1>5. ASSUME NEW q \in R PROVE RequestOK(r, q)
  <2>1. RequestOK(s, q)
    BY DEF Seg
  <2>2. ASSUME q.kind # "route", NEW e \in Range(q.entries)
        PROVE  /\ e \in DOMAIN r.segment /\ r.segment[e].status # "empty"
               /\ ~q.open => r.segment[e].status = "pending"
               /\ ~q.open /\ q.upsert # NoUpsert => unmapped(r, e) /\ r.segment[e].upsert = NoUpsert
    <3>1. e \in DOMAIN s.segment /\ e # 0
      BY <1>1, <2>1, <2>2 DEF RequestOK, SegmentTypes
    <3> QED  BY <1>2, <2>1, <2>2, <3>1 DEF RequestOK, Reads
  <2> QED  BY <2>1, <2>2 DEF RequestOK
<1>6. Fetched(r, R, sp)
  BY <1>1 DEF Seg, Reads, Fetched
<1>7. r.thrown => "recursion" \in r.faults
  BY DEF Seg, Reads
<1> QED  BY <1>1, <1>3, <1>4, <1>5, <1>6, <1>7 DEF Seg

(* Reads compose.                                                          *)
LEMMA ReadsTrans ==
    ASSUME NEW s, NEW r, NEW v, NEW K, NEW L, SegmentTypes(s), Reads(s, r, K), Reads(r, v, L)
    PROVE  Reads(s, v, K \cup L)
<1>1. SegmentsOnly(s, v)
  BY DEF Reads, SegmentsOnly
<1>2. ASSUME NEW k \in SegmentKeys
      PROVE  \/ v.segmentMap[k] = s.segmentMap[k]
             \/ v.segmentMap[k] = 0 /\ s.segmentMap[k] # 0 /\ (k \in K \cup L \/ s.segment[s.segmentMap[k]].stale)
  <2>1. s.segmentMap[k] = 0 \/ s.segmentMap[k] \in DOMAIN s.segment
    BY DEF SegmentTypes
  <2> QED  BY <2>1 DEF Reads
<1>3. \A e \in s.segmentLru : e \in v.segmentLru \/ unmapped(v, e)
  <2>1. ASSUME NEW e \in s.segmentLru, unmapped(r, e) PROVE unmapped(v, e)
    <3>1. e # 0
      BY DEF SegmentTypes
    <3> QED  BY <2>1, <3>1 DEF Reads, unmapped
  <2> QED  BY <2>1 DEF Reads
<1> QED  BY <1>1, <1>2, <1>3 DEF Reads

(* cancelEntryListeners is no more than a read.                            *)
LEMMA CancelReads ==
    ASSUME NEW s, SegmentTypes(s), NEW e \in DOMAIN s.segment
    PROVE  LET r == cancelEntryListeners(s, e)
           IN  /\ Reads(s, r, {}) /\ r.got = s.got /\ r.thrown = s.thrown /\ r.faults = s.faults
               /\ r.segmentMap = s.segmentMap /\ r.segmentLru = s.segmentLru
               /\ \A d \in DOMAIN s.segment : r.segment[d].revalidating = s.segment[d].revalidating
<1>1. CASE s.segment[e].status # "pending"
  BY <1>1, ReadsRefl DEF cancelEntryListeners
<1>2. CASE s.segment[e].status = "pending"
  <2> DEFINE r == cancelEntryListeners(s, e)
             x == [s.segment[e] EXCEPT !.waited = FALSE, !.upsert = NoUpsert]
  <2>1. r = [s EXCEPT !.segment[e].waited = FALSE, !.segment[e].upsert = NoUpsert]
    BY <1>2 DEF cancelEntryListeners
  <2>2. SegmentsOnly(s, r)
    BY <2>1 DEF SegmentTypes, SegmentsOnly, Fields
  <2>3. /\ r.got = s.got /\ r.thrown = s.thrown /\ r.faults = s.faults
        /\ r.segmentMap = s.segmentMap /\ r.segmentLru = s.segmentLru
    BY <2>1 DEF SegmentTypes, Fields
  <2>4. r.segment = [s.segment EXCEPT ![e] = x]
    <3>1. r.segment = [s.segment EXCEPT ![e].waited = FALSE, ![e].upsert = NoUpsert]
      BY <2>1 DEF SegmentTypes, Fields
    <3> QED  BY <3>1 DEF SegmentTypes
  <2>5. s.segment[e] \in SegmentEntry
    BY DEF SegmentTypes
  <2>6. /\ x \in SegmentEntry /\ x.waited = FALSE /\ x.upsert = NoUpsert
        /\ x.status = s.segment[e].status /\ x.fetchStrategy = s.segment[e].fetchStrategy
        /\ x.stale = s.segment[e].stale /\ x.isPartial = s.segment[e].isPartial
        /\ x.loading = s.segment[e].loading /\ x.keypath = s.segment[e].keypath
        /\ x.revalidating = s.segment[e].revalidating
    BY <2>5 DEF SegmentEntry, Upserts
  <2> HIDE DEF x
  <2>7. /\ r.segment \in Seq(SegmentEntry) /\ DOMAIN r.segment = DOMAIN s.segment /\ r.segment[e] = x
        /\ \A d \in DOMAIN s.segment : d # e => r.segment[d] = s.segment[d]
    BY <2>4, <2>6, UpdatedEntry DEF SegmentTypes
  <2> HIDE DEF r
  <2>8. SegmentTypes(r)
    BY <2>2, <2>3, <2>7 DEF SegmentTypes, SegmentsOnly
  <2>9. \A d \in DOMAIN s.segment : r.segment[d].revalidating = s.segment[d].revalidating
    BY <2>6, <2>7
  <2>10. Reads(s, r, {})
    BY <2>2, <2>3, <2>6, <2>7, <2>8 DEF Reads
  <2> QED  BY <2>3, <2>9, <2>10 DEF r
<1> QED  BY <1>1, <1>2

(* clearRevalidatingSegmentFromOwner is no more than a read.               *)
LEMMA ClearReads ==
    ASSUME NEW s, SegmentTypes(s), NEW o \in DOMAIN s.segment,
           s.segment[o].revalidating \in {0} \cup DOMAIN s.segment
    PROVE  LET r == clearRevalidatingSegmentFromOwner(s, o)
           IN  /\ Reads(s, r, {}) /\ r.got = s.got /\ r.thrown = s.thrown /\ r.faults = s.faults
               /\ r.segmentMap = s.segmentMap /\ r.segmentLru = s.segmentLru
<1>1. CASE s.segment[o].revalidating = 0
  BY <1>1, ReadsRefl DEF clearRevalidatingSegmentFromOwner
<1>2. CASE s.segment[o].revalidating # 0
  <2> DEFINE e == s.segment[o].revalidating
             c == cancelEntryListeners(s, e)
             r == clearRevalidatingSegmentFromOwner(s, o)
             x == [c.segment[o] EXCEPT !.revalidating = 0]
  <2>1. r = [c EXCEPT !.segment[o].revalidating = 0]
    BY <1>2 DEF clearRevalidatingSegmentFromOwner
  <2>2. /\ Reads(s, c, {}) /\ c.got = s.got /\ c.thrown = s.thrown /\ c.faults = s.faults
        /\ c.segmentMap = s.segmentMap /\ c.segmentLru = s.segmentLru
    BY <1>2, CancelReads
  <2>3. SegmentTypes(c) /\ o \in DOMAIN c.segment /\ DOMAIN c = Fields
    BY <2>2 DEF Reads, SegmentTypes
  <2> HIDE DEF c
  <2>4. SegmentsOnly(c, r)
    BY <2>1, <2>3 DEF SegmentsOnly, Fields
  <2>5. /\ r.got = c.got /\ r.thrown = c.thrown /\ r.faults = c.faults
        /\ r.segmentMap = c.segmentMap /\ r.segmentLru = c.segmentLru
    BY <2>1, <2>3 DEF Fields
  <2>6. r.segment = [c.segment EXCEPT ![o] = x]
    BY <2>1, <2>3 DEF Fields
  <2>7. c.segment[o] \in SegmentEntry
    BY <2>3 DEF SegmentTypes
  <2>8. /\ x \in SegmentEntry /\ x.waited = c.segment[o].waited /\ x.upsert = c.segment[o].upsert
        /\ x.status = c.segment[o].status /\ x.fetchStrategy = c.segment[o].fetchStrategy
        /\ x.stale = c.segment[o].stale /\ x.isPartial = c.segment[o].isPartial
        /\ x.loading = c.segment[o].loading /\ x.keypath = c.segment[o].keypath
        /\ x.revalidating = 0
    BY <2>7 DEF SegmentEntry
  <2> HIDE DEF x
  <2>9. /\ r.segment \in Seq(SegmentEntry) /\ DOMAIN r.segment = DOMAIN c.segment /\ r.segment[o] = x
        /\ \A d \in DOMAIN c.segment : d # o => r.segment[d] = c.segment[d]
    BY <2>3, <2>6, <2>8, UpdatedEntry DEF SegmentTypes
  <2> HIDE DEF r
  <2>10. SegmentTypes(r)
    BY <2>3, <2>4, <2>5, <2>9 DEF SegmentTypes, SegmentsOnly
  <2>11. Reads(c, r, {})
    BY <2>4, <2>5, <2>8, <2>9, <2>10 DEF Reads
  <2>12. Reads(s, r, {})
    <3>1. {} \cup {} = {}
      OBVIOUS
    <3> QED  BY <2>2, <2>11, <3>1, ReadsTrans
  <2> QED  BY <2>2, <2>5, <2>12 DEF r
<1> QED  BY <1>1, <1>2

(* deleteSegmentFromCache: the entry leaves its key, and its revalidation  *)
(* is let go.                                                              *)
LEMMA DeleteReads ==
    ASSUME NEW s, NEW R, NEW sp, Seg(s, R, sp), NEW k \in SegmentKeys, s.segmentMap[k] # 0
    PROVE  LET r == deleteSegmentFromCache(s, s.segmentMap[k], k)
           IN  /\ Reads(s, r, {k}) /\ r.got = s.got /\ r.thrown = s.thrown /\ r.faults = s.faults
               /\ r.segmentMap = [s.segmentMap EXCEPT ![k] = 0]
<1> DEFINE e == s.segmentMap[k]
           c == cancelEntryListeners(s, e)
           w == [c EXCEPT !.segmentMap[k] = 0, !.segmentLru = @ \ {e}]
           r == deleteSegmentFromCache(s, e, k)
<1>1. SegmentTypes(s) /\ SegmentsEvictable(s) /\ e \in DOMAIN s.segment /\ EntryOK(s, e)
  BY DEF Seg, SegmentTypes
<1>2. /\ Reads(s, c, {}) /\ c.got = s.got /\ c.thrown = s.thrown /\ c.faults = s.faults
      /\ c.segmentMap = s.segmentMap /\ c.segmentLru = s.segmentLru
      /\ c.segment[e].revalidating = s.segment[e].revalidating
  BY <1>1, CancelReads
<1>3. r = clearRevalidatingSegmentFromOwner(w, e)
  BY DEF deleteSegmentFromCache
<1>4. SegmentTypes(c) /\ DOMAIN c = Fields
  BY <1>2 DEF Reads, SegmentTypes
<1> HIDE DEF c, r, e
<1>5. SegmentsOnly(c, w)
  BY <1>4 DEF SegmentsOnly, Fields
<1>6. /\ w.got = c.got /\ w.thrown = c.thrown /\ w.faults = c.faults /\ w.segment = c.segment
      /\ w.segmentMap = [c.segmentMap EXCEPT ![k] = 0] /\ w.segmentLru = c.segmentLru \ {e}
  BY <1>4 DEF Fields
<1> HIDE DEF w
<1>7. SegmentTypes(w)
  BY <1>4, <1>5, <1>6 DEF SegmentTypes, SegmentsOnly
<1>8. Reads(s, w, {k})
  <2>1. SegmentsOnly(s, w)
    BY <1>2, <1>5 DEF Reads, SegmentsOnly
  <2>2. \A d \in s.segmentLru : d \in w.segmentLru \/ unmapped(w, d)
    <3>1. unmapped(w, e)
      BY <1>1, <1>2, <1>6 DEF unmapped, SegmentsEvictable, SegmentTypes, e
    <3> QED  BY <1>2, <1>6, <3>1
  <2>3. \A j \in SegmentKeys : \/ w.segmentMap[j] = s.segmentMap[j]
                               \/ w.segmentMap[j] = 0 /\ s.segmentMap[j] # 0 /\ j \in {k}
    <3>1. \A j \in SegmentKeys : w.segmentMap[j] = IF j = k THEN 0 ELSE s.segmentMap[j]
      BY <1>1, <1>2, <1>6 DEF SegmentTypes
    <3> QED  BY <3>1
  <2> QED  BY <1>2, <1>6, <1>7, <2>1, <2>2, <2>3 DEF Reads
<1>9. e \in DOMAIN w.segment /\ w.segment[e].revalidating \in {0} \cup DOMAIN w.segment
  BY <1>1, <1>2, <1>6 DEF EntryOK, Reads
<1>10. /\ Reads(w, r, {}) /\ r.got = w.got /\ r.thrown = w.thrown /\ r.faults = w.faults
       /\ r.segmentMap = w.segmentMap /\ r.segmentLru = w.segmentLru
  BY <1>3, <1>7, <1>9, ClearReads
<1>11. Reads(s, r, {k})
  <2>1. {k} \cup {} = {k}
    OBVIOUS
  <2> QED  BY <1>1, <1>8, <1>10, <2>1, ReadsTrans
<1> QED  BY <1>2, <1>6, <1>10, <1>11 DEF r, e

(* readExactSegmentCacheEntry: what is found is mapped and fresh, and a    *)
(* read that throws is the recursion.                                      *)
LEMMA ReadExact ==
    ASSUME NEW s, NEW R, NEW sp, Seg(s, R, sp), NEW k \in SegmentKeys
    PROVE  LET r == readExactSegmentCacheEntry(s, k)
           IN  /\ Reads(s, r, {}) /\ Seg(r, R, sp)
               /\ r.got \in {0} \cup DOMAIN r.segment
               /\ r.got # 0 => r.got = r.segmentMap[k] /\ ~r.segment[r.got].stale /\ r.thrown = s.thrown
               /\ r.got = 0 /\ ~r.thrown => r.segmentMap[k] = 0
<1> DEFINE e == s.segmentMap[k]
           r == readExactSegmentCacheEntry(s, k)
<1>1. SegmentTypes(s) /\ e \in {0} \cup DOMAIN s.segment /\ DOMAIN s = Fields /\ e \in Nat
  BY DEF Seg, SegmentTypes
<1> HIDE DEF e
<1> SUFFICES /\ Reads(s, r, {}) /\ r.got \in {0, e}
             /\ r.got # 0 => r.got = r.segmentMap[k] /\ ~r.segment[r.got].stale /\ r.thrown = s.thrown
             /\ r.got = 0 /\ ~r.thrown => r.segmentMap[k] = 0
  BY <1>1, ReadsSeg DEF Reads
<1>2. CASE e = 0
  <2>1. r = [s EXCEPT !.got = 0]
    BY <1>2 DEF readExactSegmentCacheEntry, e
  <2>2. /\ SegmentsOnly(s, r) /\ r.got = 0 /\ r.thrown = s.thrown /\ r.faults = s.faults
        /\ r.segment = s.segment /\ r.segmentMap = s.segmentMap /\ r.segmentLru = s.segmentLru
    BY <1>1, <2>1 DEF SegmentsOnly, Fields
  <2> QED  BY <1>1, <1>2, <2>2 DEF Reads, SegmentTypes, SegmentsOnly, e
<1>3. CASE e # 0 /\ ~s.segment[e].stale
  <2>1. r = [s EXCEPT !.got = e, !.segmentLru = @ \cup {e}]
    BY <1>3 DEF readExactSegmentCacheEntry, e
  <2>2. /\ SegmentsOnly(s, r) /\ r.got = e /\ r.thrown = s.thrown /\ r.faults = s.faults
        /\ r.segment = s.segment /\ r.segmentMap = s.segmentMap /\ r.segmentLru = s.segmentLru \cup {e}
    BY <1>1, <2>1 DEF SegmentsOnly, Fields
  <2>3. SegmentTypes(r)
    BY <1>1, <1>3, <2>2 DEF SegmentTypes, SegmentsOnly
  <2> QED  BY <1>1, <1>3, <2>2, <2>3 DEF Reads, e
<1>4. CASE e # 0 /\ s.segment[e].stale /\ s.segment[e].revalidating # 0
  <2>1. r = [s EXCEPT !.got = 0, !.thrown = TRUE, !.faults = @ \cup {"recursion"}]
    BY <1>4 DEF readExactSegmentCacheEntry, e
  <2>2. /\ SegmentsOnly(s, r) /\ r.got = 0 /\ r.thrown /\ r.thrown \in BOOLEAN /\ r.faults = s.faults \cup {"recursion"}
        /\ r.segment = s.segment /\ r.segmentMap = s.segmentMap /\ r.segmentLru = s.segmentLru
    BY <1>1, <2>1 DEF SegmentsOnly, Fields
  <2>3. SegmentTypes(r)
    BY <1>1, <2>2 DEF SegmentTypes, SegmentsOnly
  <2> QED  BY <1>1, <2>2, <2>3 DEF Reads
<1>5. CASE e # 0 /\ s.segment[e].stale /\ s.segment[e].revalidating = 0
  <2> DEFINE d == deleteSegmentFromCache(s, e, k)
  <2>1. r = [d EXCEPT !.got = 0]
    BY <1>5 DEF readExactSegmentCacheEntry, e
  <2>2. /\ Reads(s, d, {k}) /\ d.got = s.got /\ d.thrown = s.thrown /\ d.faults = s.faults
        /\ d.segmentMap = [s.segmentMap EXCEPT ![k] = 0]
    BY <1>5, DeleteReads DEF e
  <2> HIDE DEF d
  <2>3. SegmentTypes(d) /\ DOMAIN d = Fields
    BY <2>2 DEF Reads, SegmentTypes
  <2>4. /\ SegmentsOnly(d, r) /\ r.got = 0 /\ r.thrown = d.thrown /\ r.faults = d.faults
        /\ r.segment = d.segment /\ r.segmentMap = d.segmentMap /\ r.segmentLru = d.segmentLru
    BY <2>1, <2>3 DEF SegmentsOnly, Fields
  <2> HIDE DEF r
  <2>5. SegmentTypes(r) /\ SegmentsOnly(s, r)
    BY <2>2, <2>3, <2>4 DEF Reads, SegmentTypes, SegmentsOnly
  <2>6. r.segmentMap[k] = 0
    BY <1>1, <2>2, <2>4 DEF SegmentTypes
  <2>7. \A j \in SegmentKeys : \/ r.segmentMap[j] = s.segmentMap[j]
                               \/ r.segmentMap[j] = 0 /\ s.segmentMap[j] # 0 /\ s.segment[s.segmentMap[j]].stale
    <3>1. \A j \in SegmentKeys : r.segmentMap[j] = IF j = k THEN 0 ELSE s.segmentMap[j]
      BY <1>1, <2>2, <2>4 DEF SegmentTypes
    <3> QED  BY <1>1, <1>5, <3>1 DEF e
  <2>8. Reads(s, r, {})
    <3>1. \A x \in s.segmentLru : x \in r.segmentLru \/ unmapped(r, x)
      BY <2>2, <2>4 DEF Reads, unmapped
    <3> QED  BY <2>2, <2>4, <2>5, <2>7, <3>1 DEF Reads
  <2> QED  BY <2>4, <2>6, <2>8
<1> QED  BY <1>1, <1>2, <1>3, <1>4, <1>5

-----------------------------------------------------------------------------
(* Segments: creating, putting and writing entries                         *)

(* Steadiness composes.                                                    *)
LEMMA SteadyTrans ==
    ASSUME NEW s, NEW r, NEW v, NEW W, Steady(s, r, W), Steady(r, v, W)
    PROVE  Steady(s, v, W)
BY DEF Steady, SegmentsOnly

(* Reads delete only what is stale, so they are steady.                    *)
LEMMA ReadsSteady ==
    ASSUME NEW s, NEW r, SegmentTypes(s), Reads(s, r, {}), NEW W
    PROVE  Steady(s, r, W)
BY DEF Steady, Reads, Full, SegmentTypes

(* A new entry is appended.                                                *)
LEMMA AppendedEntry ==
    ASSUME NEW T, NEW S \in Seq(T), NEW x \in T
    PROVE  LET r == Append(S, x)
           IN  /\ r \in Seq(T) /\ DOMAIN r = DOMAIN S \cup {Len(S) + 1} /\ r[Len(S) + 1] = x
               /\ \A d \in DOMAIN S : r[d] = S[d]
               /\ Len(S) + 1 \notin DOMAIN S /\ Len(S) + 1 # 0
OBVIOUS

(* createDetachedSegmentCacheEntry: the new entry is empty and in no map.  *)
LEMMA CreatedSeg ==
    ASSUME NEW s, NEW R, NEW sp, Seg(s, R, sp), NEW stale \in BOOLEAN
    PROVE  LET r == createDetachedSegmentCacheEntry(s, stale)
           IN  /\ Seg(r, R, sp) /\ SegmentsOnly(s, r)
               /\ r.got \notin DOMAIN s.segment /\ DOMAIN r.segment = DOMAIN s.segment \cup {r.got}
               /\ r.segment[r.got] = fresh(stale) /\ \A e \in DOMAIN s.segment : r.segment[e] = s.segment[e]
               /\ r.segmentMap = s.segmentMap /\ r.thrown = s.thrown /\ r.faults = s.faults
               /\ unmapped(r, r.got) /\ \A o \in DOMAIN r.segment : r.segment[o].revalidating # r.got
<1> DEFINE r == createDetachedSegmentCacheEntry(s, stale)
<1>1. SegmentTypes(s) /\ DOMAIN s = Fields
  BY DEF Seg, SegmentTypes
<1>2. r = [s EXCEPT !.segment = Append(@, fresh(stale)), !.got = Len(s.segment) + 1]
  BY DEF createDetachedSegmentCacheEntry, fresh
<1> HIDE DEF r
<1>3. /\ SegmentsOnly(s, r) /\ r.segment = Append(s.segment, fresh(stale)) /\ r.got = Len(s.segment) + 1
      /\ r.segmentMap = s.segmentMap /\ r.segmentLru = s.segmentLru
      /\ r.thrown = s.thrown /\ r.faults = s.faults
  BY <1>1, <1>2 DEF SegmentsOnly, Fields
<1>4. /\ fresh(stale) \in SegmentEntry /\ fresh(stale).status = "empty" /\ fresh(stale).revalidating = 0
      /\ fresh(stale).upsert = NoUpsert /\ ~fresh(stale).waited /\ fresh(stale).isPartial
  BY DEF fresh, SegmentEntry, Statuses, Upserts
<1>5. /\ r.segment \in Seq(SegmentEntry) /\ DOMAIN r.segment = DOMAIN s.segment \cup {r.got}
      /\ r.segment[r.got] = fresh(stale)
      /\ \A d \in DOMAIN s.segment : r.segment[d] = s.segment[d]
      /\ r.got \notin DOMAIN s.segment /\ r.got # 0 /\ r.got \in Nat
  BY <1>1, <1>3, <1>4, AppendedEntry DEF SegmentTypes
<1>6. SegmentTypes(r)
  BY <1>1, <1>3, <1>5 DEF SegmentTypes, SegmentsOnly
<1>7. SegmentsEvictable(r)
  BY <1>1, <1>3, <1>5 DEF Seg, SegmentsEvictable, SegmentTypes
<1>8. unmapped(r, r.got)
  BY <1>1, <1>3, <1>5 DEF unmapped, SegmentTypes
<1>9. ASSUME NEW e \in DOMAIN r.segment PROVE EntryOK(r, e) /\ r.segment[e].revalidating # r.got
  <2>1. CASE e = r.got
    BY <1>4, <1>5, <2>1 DEF EntryOK
  <2>2. CASE e \in DOMAIN s.segment
    <3>1. EntryOK(s, e)
      BY <2>2 DEF Seg
    <3>2. \A d : unmapped(s, d) => unmapped(r, d)
      BY <1>3 DEF unmapped
    <3> QED  BY <1>3, <1>5, <2>2, <3>1, <3>2 DEF EntryOK
  <2> QED  BY <1>5, <2>1, <2>2
<1>10. ASSUME NEW q \in R PROVE RequestOK(r, q)
  <2>1. RequestOK(s, q)
    BY DEF Seg
  <2>2. ASSUME q.kind # "route", NEW e \in Range(q.entries)
        PROVE  /\ e \in DOMAIN r.segment /\ r.segment[e].status # "empty"
               /\ ~q.open => r.segment[e].status = "pending"
               /\ ~q.open /\ q.upsert # NoUpsert => unmapped(r, e) /\ r.segment[e].upsert = NoUpsert
    <3>1. e \in DOMAIN s.segment
      BY <2>1, <2>2 DEF RequestOK
    <3>2. unmapped(s, e) => unmapped(r, e)
      BY <1>3 DEF unmapped
    <3> QED  BY <1>5, <2>1, <2>2, <3>1, <3>2 DEF RequestOK
  <2> QED  BY <2>1, <2>2 DEF RequestOK
<1>11. Fetched(r, R, sp)
  BY <1>3, <1>4, <1>5 DEF Seg, Fetched
<1>12. Seg(r, R, sp)
  BY <1>3, <1>6, <1>7, <1>9, <1>10, <1>11 DEF Seg
<1> QED  BY <1>3, <1>5, <1>8, <1>9, <1>12 DEF r

(* An entry e is put at a key k that held nothing.                         *)
Put(s, r, k, e) ==
    /\ SegmentsOnly(s, r) /\ r.got = e /\ DOMAIN r.segment = DOMAIN s.segment
    /\ \A d \in DOMAIN s.segment :
          /\ r.segment[d].status = s.segment[d].status /\ r.segment[d].stale = s.segment[d].stale
          /\ r.segment[d].isPartial = s.segment[d].isPartial
          /\ r.segment[d].upsert = s.segment[d].upsert
    /\ r.segmentMap = [s.segmentMap EXCEPT ![k] = e] /\ r.thrown = s.thrown /\ r.faults = s.faults

(* putSegment: the entry is in the LRU and knows its keypath.              *)
LEMMA PutSeg ==
    ASSUME NEW s, NEW R, NEW sp, Seg(s, R, sp), NEW k \in SegmentKeys, NEW e \in DOMAIN s.segment,
           unmapped(s, e), s.segment[e].upsert = NoUpsert, s.segment[e].status # "pending",
           s.segment[e].status = "empty" => \A o \in DOMAIN s.segment : s.segment[o].revalidating # e
    PROVE  LET r == putSegment(s, k, e)
           IN  Seg(r, R, sp) /\ Put(s, r, k, e)
<1> DEFINE r == putSegment(s, k, e)
           x == [s.segment[e] EXCEPT !.keypath = k]
<1>1. SegmentTypes(s) /\ DOMAIN s = Fields /\ e # 0 /\ e \in Nat
  BY DEF Seg, SegmentTypes
<1>2. /\ SegmentsOnly(s, r) /\ r.segment = [s.segment EXCEPT ![e].keypath = k] /\ r.got = e
      /\ r.segmentMap = [s.segmentMap EXCEPT ![k] = e] /\ r.segmentLru = s.segmentLru \cup {e}
      /\ r.thrown = s.thrown /\ r.faults = s.faults
  BY <1>1 DEF putSegment, SegmentsOnly, Fields
<1>3. s.segment[e] \in SegmentEntry /\ k \in Upserts
  BY <1>1 DEF SegmentTypes, Upserts
<1>4. /\ x \in SegmentEntry /\ x.waited = s.segment[e].waited /\ x.upsert = s.segment[e].upsert
      /\ x.status = s.segment[e].status /\ x.fetchStrategy = s.segment[e].fetchStrategy
      /\ x.stale = s.segment[e].stale /\ x.isPartial = s.segment[e].isPartial
      /\ x.loading = s.segment[e].loading /\ x.keypath = k
      /\ x.revalidating = s.segment[e].revalidating
  BY <1>3 DEF SegmentEntry
<1>5. r.segment = [s.segment EXCEPT ![e] = x]
  BY <1>2
<1> HIDE DEF x, r
<1>6. /\ r.segment \in Seq(SegmentEntry) /\ DOMAIN r.segment = DOMAIN s.segment /\ r.segment[e] = x
      /\ \A d \in DOMAIN s.segment : d # e => r.segment[d] = s.segment[d]
  BY <1>1, <1>4, <1>5, UpdatedEntry DEF SegmentTypes
<1>7. SegmentTypes(r)
  BY <1>1, <1>2, <1>6 DEF SegmentTypes, SegmentsOnly
<1>8. \A d \in DOMAIN s.segment :
         /\ r.segment[d].status = s.segment[d].status /\ r.segment[d].stale = s.segment[d].stale
         /\ r.segment[d].isPartial = s.segment[d].isPartial
         /\ r.segment[d].fetchStrategy = s.segment[d].fetchStrategy
         /\ r.segment[d].upsert = s.segment[d].upsert /\ r.segment[d].waited = s.segment[d].waited
         /\ r.segment[d].revalidating = s.segment[d].revalidating
  BY <1>4, <1>6
<1>9. \A j \in SegmentKeys : r.segmentMap[j] = IF j = k THEN e ELSE s.segmentMap[j]
  BY <1>1, <1>2 DEF SegmentTypes
<1>10. SegmentsEvictable(r)
  <2> SUFFICES ASSUME NEW j \in SegmentKeys, r.segmentMap[j] # 0
               PROVE  r.segmentMap[j] \in r.segmentLru /\ r.segment[r.segmentMap[j]].keypath = j
    BY DEF SegmentsEvictable
  <2>1. CASE j = k
    BY <1>2, <1>4, <1>6, <1>9, <2>1
  <2>2. CASE j # k
    <3>1. r.segmentMap[j] = s.segmentMap[j] /\ r.segmentMap[j] # e
      BY <1>9, <2>2 DEF unmapped
    <3>2. s.segmentMap[j] \in s.segmentLru /\ s.segment[s.segmentMap[j]].keypath = j
      BY <3>1 DEF Seg, SegmentsEvictable
    <3> QED  BY <1>1, <1>2, <1>6, <3>1, <3>2 DEF SegmentTypes
  <2> QED  BY <2>1, <2>2
<1>11. \A d : d # e /\ unmapped(s, d) => unmapped(r, d)
  BY <1>9 DEF unmapped
<1>12. ASSUME NEW d \in DOMAIN r.segment PROVE EntryOK(r, d)
  <2>1. d \in DOMAIN s.segment /\ EntryOK(s, d)
    BY <1>6 DEF Seg
  <2> QED  BY <1>6, <1>8, <1>11, <2>1 DEF EntryOK
<1>13. ASSUME NEW q \in R PROVE RequestOK(r, q)
  <2>1. RequestOK(s, q)
    BY DEF Seg
  <2> QED  BY <1>6, <1>8, <1>11, <2>1 DEF RequestOK
<1>14. Fetched(r, R, sp)
  BY <1>2, <1>6, <1>8 DEF Seg, Fetched
<1>15. Seg(r, R, sp)
  BY <1>2, <1>7, <1>10, <1>12, <1>13, <1>14 DEF Seg
<1> QED  BY <1>2, <1>6, <1>8, <1>15 DEF r, Put

(* A new entry disturbs no other.                                          *)
LEMMA CreatedSteady ==
    ASSUME NEW s, NEW R, NEW sp, Seg(s, R, sp), NEW stale \in BOOLEAN, NEW W
    PROVE  Steady(s, createDetachedSegmentCacheEntry(s, stale), W)
<1>1. SegmentTypes(s)
  BY DEF Seg
<1> QED  BY <1>1, CreatedSeg DEF Steady, Full, SegmentTypes

(* Putting an entry at a free key is steady.                               *)
LEMMA PutSteady ==
    ASSUME NEW s, NEW R, NEW sp, Seg(s, R, sp), NEW k \in SegmentKeys, NEW e \in DOMAIN s.segment,
           unmapped(s, e), s.segment[e].upsert = NoUpsert, s.segment[e].status # "pending",
           s.segment[e].status = "empty" => \A o \in DOMAIN s.segment : s.segment[o].revalidating # e,
           s.segmentMap[k] = 0, NEW W
    PROVE  Steady(s, putSegment(s, k, e), W)
<1> DEFINE r == putSegment(s, k, e)
<1>1. SegmentTypes(s)
  BY DEF Seg
<1>2. /\ SegmentsOnly(s, r) /\ r.got = e /\ DOMAIN r.segment = DOMAIN s.segment
      /\ \A d \in DOMAIN s.segment :
                     /\ r.segment[d].status = s.segment[d].status /\ r.segment[d].stale = s.segment[d].stale
                     /\ r.segment[d].isPartial = s.segment[d].isPartial
      /\ r.segmentMap = [s.segmentMap EXCEPT ![k] = e] /\ r.thrown = s.thrown /\ r.faults = s.faults
  BY PutSeg DEF Put
<1> HIDE DEF r
<1>3. \A j \in SegmentKeys : r.segmentMap[j] = IF j = k THEN e ELSE s.segmentMap[j]
  BY <1>1, <1>2 DEF SegmentTypes
<1>4. \A j \in SegmentKeys : Full(s, j) => Full(r, j)
  BY <1>1, <1>2, <1>3 DEF Full, SegmentTypes
<1> QED  BY <1>2, <1>4 DEF Steady, r

(* readOrCreateSegmentCacheEntry: it throws, or the entry it returns is at *)
(* the key.                                                                *)
LEMMA ReadOrCreateSeg ==
    ASSUME NEW s, NEW R, NEW sp, Seg(s, R, sp), NEW t, NEW e, s.route[e].stale \in BOOLEAN, NEW path,
           getSegmentKeypathForTask(s, t, path) \in SegmentKeys, NEW W
    PROVE  LET r == readOrCreateSegmentCacheEntry(s, t, e, path)
           IN  Seg(r, R, sp) /\ Steady(s, r, W) /\ (~r.thrown => r.got \in DOMAIN r.segment)
<1> DEFINE k == getSegmentKeypathForTask(s, t, path)
           x == readExactSegmentCacheEntry(s, k)
           d == createDetachedSegmentCacheEntry(x, x.route[e].stale)
           r == readOrCreateSegmentCacheEntry(s, t, e, path)
<1> SUFFICES Seg(r, R, sp) /\ Steady(s, r, W) /\ (~r.thrown => r.got \in DOMAIN r.segment)
  OBVIOUS
<1>1. /\ Reads(s, x, {}) /\ Seg(x, R, sp)
      /\ x.got \in {0} \cup DOMAIN x.segment
      /\ x.got = 0 /\ ~x.thrown => x.segmentMap[k] = 0
  BY ReadExact
<1>2. Steady(s, x, W) /\ x.route = s.route
  <2>1. SegmentTypes(s)
    BY DEF Seg
  <2> QED  BY <1>1, <2>1, ReadsSteady DEF Reads, SegmentsOnly
<1>3. r = IF x.thrown \/ x.got # 0 THEN x ELSE putSegment(d, k, d.got)
  BY DEF readOrCreateSegmentCacheEntry
<1> HIDE DEF x, r, k
<1>4. CASE x.thrown \/ x.got # 0
  <2>1. r = x
    BY <1>3, <1>4
  <2> QED  BY <1>1, <1>2, <1>4, <2>1
<1>5. CASE ~(x.thrown \/ x.got # 0)
  <2>1. /\ Seg(d, R, sp) /\ d.got \in DOMAIN d.segment /\ d.segment[d.got] = fresh(x.route[e].stale)
        /\ d.segmentMap = x.segmentMap /\ unmapped(d, d.got)
        /\ \A o \in DOMAIN d.segment : d.segment[o].revalidating # d.got
    BY <1>1, <1>2, CreatedSeg
  <2>2. Steady(x, d, W)
    BY <1>1, <1>2, CreatedSteady
  <2>3. d.segment[d.got].upsert = NoUpsert /\ d.segment[d.got].status # "pending"
    BY <2>1 DEF fresh
  <2>4. r = putSegment(d, k, d.got) /\ k \in SegmentKeys /\ d.segmentMap[k] = 0
    BY <1>1, <1>3, <1>5, <2>1 DEF k
  <2> HIDE DEF d
  <2>5. Seg(r, R, sp) /\ r.got = d.got /\ DOMAIN r.segment = DOMAIN d.segment
    <3>1. /\ d.got \in DOMAIN d.segment /\ unmapped(d, d.got) /\ d.segment[d.got].upsert = NoUpsert
          /\ d.segment[d.got].status # "pending"
          /\ d.segment[d.got].status = "empty" => \A o \in DOMAIN d.segment : d.segment[o].revalidating # d.got
      BY <2>1, <2>3
    <3> HIDE DEF k
    <3>2. Seg(d, R, sp) /\ k \in SegmentKeys
      BY <2>1, <2>4
    <3>3. Seg(putSegment(d, k, d.got), R, sp) /\ Put(d, putSegment(d, k, d.got), k, d.got)
      BY <3>1, <3>2, PutSeg
    <3> QED  BY <2>4, <3>3 DEF Put
  <2>6. Steady(d, r, W)
    BY <2>1, <2>3, <2>4, PutSteady
  <2> QED  BY <1>2, <2>1, <2>2, <2>5, <2>6, SteadyTrans
<1> QED  BY <1>4, <1>5 DEF r

(* resetRevalidatingSegmentEntry: the owner has a new, empty revalidation. *)
LEMMA ResetSeg ==
    ASSUME NEW s, NEW R, NEW sp, Seg(s, R, sp), NEW o \in DOMAIN s.segment, NEW W
    PROVE  LET r == resetRevalidatingSegmentEntry(s, o)
           IN  /\ Seg(r, R, sp) /\ Steady(s, r, W) /\ r.got \in DOMAIN r.segment /\ unmapped(r, r.got)
               /\ r.segment[r.got].status = "empty" /\ r.thrown = s.thrown
<1> DEFINE c == clearRevalidatingSegmentFromOwner(s, o)
           d == createDetachedSegmentCacheEntry(c, s.segment[o].stale)
           r == resetRevalidatingSegmentEntry(s, o)
           x == [d.segment[o] EXCEPT !.revalidating = d.got]
<1>1. SegmentTypes(s) /\ s.segment[o].stale \in BOOLEAN
  <2>1. s.segment[o] \in SegmentEntry
    BY DEF Seg, SegmentTypes
  <2> QED  BY <2>1 DEF Seg, SegmentEntry
<1>2. Reads(s, c, {}) /\ c.thrown = s.thrown
  BY <1>1, ClearReads DEF Seg, EntryOK
<1>3. Seg(c, R, sp) /\ Steady(s, c, W) /\ o \in DOMAIN c.segment
  BY <1>1, <1>2, ReadsSeg, ReadsSteady DEF Reads
<1> HIDE DEF c
<1>4. /\ Seg(d, R, sp) /\ d.got \notin DOMAIN c.segment /\ DOMAIN d.segment = DOMAIN c.segment \cup {d.got}
      /\ d.segment[d.got] = fresh(s.segment[o].stale) /\ d.thrown = c.thrown
      /\ unmapped(d, d.got) /\ \A v \in DOMAIN d.segment : d.segment[v].revalidating # d.got
  BY <1>1, <1>3, CreatedSeg
<1>5. Steady(c, d, W)
  BY <1>1, <1>3, CreatedSteady
<1>6. r = [d EXCEPT !.segment[o].revalidating = d.got]
  BY DEF resetRevalidatingSegmentEntry, c
<1>7. SegmentTypes(d) /\ DOMAIN d = Fields /\ o \in DOMAIN d.segment /\ o # d.got /\ d.got \in Nat
  BY <1>3, <1>4 DEF Seg, SegmentTypes
<1> HIDE DEF d, r
<1>8. /\ SegmentsOnly(d, r) /\ r.got = d.got /\ r.segmentMap = d.segmentMap /\ r.segmentLru = d.segmentLru
      /\ r.thrown = d.thrown /\ r.faults = d.faults
      /\ r.segment = [d.segment EXCEPT ![o] = x]
  BY <1>6, <1>7 DEF SegmentsOnly, Fields
<1>9. d.segment[o] \in SegmentEntry
  BY <1>7 DEF SegmentTypes
<1>10. /\ x \in SegmentEntry /\ x.waited = d.segment[o].waited /\ x.upsert = d.segment[o].upsert
      /\ x.status = d.segment[o].status /\ x.fetchStrategy = d.segment[o].fetchStrategy
      /\ x.stale = d.segment[o].stale /\ x.isPartial = d.segment[o].isPartial
      /\ x.loading = d.segment[o].loading /\ x.keypath = d.segment[o].keypath
      /\ x.revalidating = d.got
  BY <1>7, <1>9 DEF SegmentEntry
<1> HIDE DEF x
<1>11. /\ r.segment \in Seq(SegmentEntry) /\ DOMAIN r.segment = DOMAIN d.segment /\ r.segment[o] = x
       /\ \A v \in DOMAIN d.segment : v # o => r.segment[v] = d.segment[v]
  BY <1>7, <1>8, <1>10, UpdatedEntry DEF SegmentTypes
<1>12. SegmentTypes(r)
  BY <1>7, <1>8, <1>11 DEF SegmentTypes, SegmentsOnly
<1>13. \A v : unmapped(r, v) <=> unmapped(d, v)
  BY <1>8 DEF unmapped
<1>14. ASSUME NEW v \in DOMAIN r.segment PROVE EntryOK(r, v)
  <2>1. EntryOK(d, v)
    BY <1>4, <1>11 DEF Seg
  <2>2. \A u \in DOMAIN d.segment : r.segment[u].status = d.segment[u].status
    BY <1>10, <1>11
  <2> QED  BY <1>4, <1>10, <1>11, <1>13, <2>1, <2>2 DEF EntryOK
<1>15. SegmentsEvictable(r)
  BY <1>4, <1>7, <1>8, <1>10, <1>11 DEF Seg, SegmentsEvictable, SegmentTypes
<1>16. ASSUME NEW q \in R PROVE RequestOK(r, q)
  <2>1. RequestOK(d, q)
    BY <1>4 DEF Seg
  <2> QED  BY <1>10, <1>11, <1>13, <2>1 DEF RequestOK
<1>17. Fetched(r, R, sp)
  BY <1>4, <1>8, <1>10, <1>11 DEF Seg, Fetched
<1>18. Seg(r, R, sp)
  BY <1>4, <1>8, <1>12, <1>14, <1>15, <1>16, <1>17 DEF Seg
<1>19. Steady(d, r, W)
  BY <1>7, <1>8, <1>10, <1>11 DEF Steady, Full, SegmentTypes
<1>20. r.got \in DOMAIN r.segment /\ unmapped(r, r.got) /\ r.segment[r.got].status = "empty" /\ r.thrown = s.thrown
  BY <1>2, <1>4, <1>7, <1>8, <1>11, <1>13 DEF fresh
<1> QED  BY <1>3, <1>5, <1>18, <1>19, <1>20, SteadyTrans DEF r

(* readOrCreateRevalidatingSegmentEntry: an entry that is in no map while  *)
(* it is empty.                                                            *)
LEMMA RevalidatingSeg ==
    ASSUME NEW s, NEW R, NEW sp, Seg(s, R, sp), NEW o \in DOMAIN s.segment, NEW W
    PROVE  LET r == readOrCreateRevalidatingSegmentEntry(s, o)
           IN  /\ Seg(r, R, sp) /\ Steady(s, r, W) /\ r.got \in DOMAIN r.segment /\ r.thrown = s.thrown
               /\ r.segment[r.got].status = "empty" => unmapped(r, r.got)
<1> DEFINE e == s.segment[o].revalidating
           r == readOrCreateRevalidatingSegmentEntry(s, o)
<1>1. SegmentTypes(s) /\ DOMAIN s = Fields /\ EntryOK(s, o)
  BY DEF Seg, SegmentTypes
<1>2. CASE e # 0 /\ ~s.segment[e].stale
  <2>1. r = [s EXCEPT !.got = e]
    BY <1>2 DEF readOrCreateRevalidatingSegmentEntry
  <2>2. e \in DOMAIN s.segment /\ e \in Nat
    BY <1>1, <1>2 DEF EntryOK, SegmentTypes
  <2> HIDE DEF e, r
  <2>3. /\ SegmentsOnly(s, r) /\ r.got = e /\ r.thrown = s.thrown /\ r.faults = s.faults
        /\ r.segment = s.segment /\ r.segmentMap = s.segmentMap /\ r.segmentLru = s.segmentLru
    BY <1>1, <2>1 DEF SegmentsOnly, Fields
  <2>4. Reads(s, r, {})
    BY <1>1, <2>2, <2>3 DEF Reads, SegmentTypes, SegmentsOnly
  <2>5. Seg(r, R, sp) /\ Steady(s, r, W)
    BY <1>1, <2>4, ReadsSeg, ReadsSteady
  <2>6. r.segment[e].status = "empty" => unmapped(r, e)
    BY <1>1, <1>2, <2>3 DEF EntryOK, unmapped, e
  <2> QED  BY <2>2, <2>3, <2>5, <2>6 DEF r
<1>3. CASE ~(e # 0 /\ ~s.segment[e].stale)
  <2>1. r = resetRevalidatingSegmentEntry(s, o)
    BY <1>3 DEF readOrCreateRevalidatingSegmentEntry
  <2> QED  BY <2>1, ResetSeg
<1> QED  BY <1>2, <1>3

(* What a write to one entry changes: its record, and nothing else.        *)
Wrote(s, r, e, x) ==
    /\ SegmentsOnly(s, r) /\ r.segmentMap = s.segmentMap /\ r.segmentLru = s.segmentLru
    /\ r.got = s.got /\ r.thrown = s.thrown /\ r.faults = s.faults
    /\ r.segment = [s.segment EXCEPT ![e] = x]

(* An entry may be overwritten where it keeps what the invariant says of   *)
(* it.                                                                     *)
LEMMA WroteSeg ==
    ASSUME NEW s, NEW R, NEW sp, Seg(s, R, sp), NEW e \in DOMAIN s.segment, NEW r, NEW x \in SegmentEntry,
           Wrote(s, r, e, x), x.keypath = s.segment[e].keypath,
           x.revalidating = s.segment[e].revalidating, x.upsert \in {s.segment[e].upsert, NoUpsert},
           x.status # "empty", x.waited => x.status = "pending", x.status = "pending" => e \in sp,
           ~x.isPartial => x.status \in {"fulfilled", "rejected"},
           x.status # "pending" => \A q \in R : q.kind # "route" /\ ~q.open => e \notin Range(q.entries)
    PROVE  /\ Seg(r, R, sp) /\ DOMAIN r.segment = DOMAIN s.segment /\ r.segment[e] = x
           /\ \A d \in DOMAIN s.segment : d # e => r.segment[d] = s.segment[d]
<1>1. SegmentTypes(s) /\ DOMAIN s = Fields
  BY DEF Seg, SegmentTypes
<1>2. /\ r.segment \in Seq(SegmentEntry) /\ DOMAIN r.segment = DOMAIN s.segment /\ r.segment[e] = x
      /\ \A d \in DOMAIN s.segment : d # e => r.segment[d] = s.segment[d]
  BY <1>1, UpdatedEntry DEF SegmentTypes, Wrote
<1>3. SegmentTypes(r)
  BY <1>1, <1>2 DEF SegmentTypes, SegmentsOnly, Wrote
<1>4. \A d : unmapped(r, d) <=> unmapped(s, d)
  BY DEF unmapped, Wrote
<1>5. SegmentsEvictable(r)
  BY <1>1, <1>2 DEF Seg, SegmentsEvictable, SegmentTypes, Wrote
<1>6. ASSUME NEW d \in DOMAIN r.segment PROVE EntryOK(r, d)
  <2>1. EntryOK(s, d)
    BY <1>2 DEF Seg
  <2>2. \A u \in DOMAIN s.segment : r.segment[u].status = "empty" => s.segment[u].status = "empty"
    BY <1>2
  <2>3. CASE d = e
    BY <1>2, <1>4, <2>1, <2>2, <2>3 DEF EntryOK
  <2>4. CASE d # e
    BY <1>2, <1>4, <2>1, <2>2, <2>4 DEF EntryOK
  <2> QED  BY <2>3, <2>4
<1>7. ASSUME NEW q \in R PROVE RequestOK(r, q)
  <2>1. RequestOK(s, q)
    BY DEF Seg
  <2>2. ASSUME q.kind # "route", NEW d \in Range(q.entries)
        PROVE  /\ d \in DOMAIN r.segment /\ r.segment[d].status # "empty"
               /\ ~q.open => r.segment[d].status = "pending"
               /\ ~q.open /\ q.upsert # NoUpsert => unmapped(r, d) /\ r.segment[d].upsert = NoUpsert
    <3>1. d \in DOMAIN s.segment
      BY <2>1, <2>2 DEF RequestOK
    <3>2. CASE d = e
      BY <1>2, <1>4, <2>1, <2>2, <3>2 DEF RequestOK
    <3>3. CASE d # e
      BY <1>2, <1>4, <2>1, <2>2, <3>1, <3>3 DEF RequestOK
    <3> QED  BY <3>2, <3>3
  <2> QED  BY <2>1, <2>2 DEF RequestOK
<1>8. Fetched(r, R, sp)
  BY <1>2 DEF Seg, Fetched, Wrote
<1>9. r.thrown => "recursion" \in r.faults
  BY DEF Seg, Wrote
<1> QED  BY <1>2, <1>3, <1>5, <1>6, <1>7, <1>8, <1>9 DEF Seg

(* An entry that was not full can be written without a loss.               *)
LEMMA WroteSteady ==
    ASSUME NEW s, NEW R, NEW sp, Seg(s, R, sp), NEW e \in DOMAIN s.segment, NEW r, NEW x \in SegmentEntry,
           Wrote(s, r, e, x), s.segment[e].isPartial \/ s.segment[e].stale
    PROVE  Steady(s, r, {e})
<1>1. SegmentTypes(s)
  BY DEF Seg
<1>2. /\ DOMAIN r.segment = DOMAIN s.segment
      /\ \A d \in DOMAIN s.segment : d # e => r.segment[d] = s.segment[d]
  BY <1>1, UpdatedEntry DEF SegmentTypes, Wrote
<1> QED  BY <1>1, <1>2 DEF Steady, Full, Wrote, SegmentTypes

(* upgradeToPendingSegment: the entry is pending, for a request to be      *)
(* made.                                                                   *)
LEMMA UpgradeSeg ==
    ASSUME NEW s, NEW R, NEW sp, Seg(s, R, sp), NEW e \in DOMAIN s.segment, s.segment[e].status = "empty",
           NEW strategy \in {"PPR", "LoadingBoundary", "Full"}
    PROVE  LET r == upgradeToPendingSegment(s, e, strategy)
           IN  /\ Seg(r, R, sp \cup {e}) /\ Steady(s, r, {e}) /\ r.thrown = s.thrown
               /\ r.got = s.got /\ r.faults = s.faults
               /\ DOMAIN r.segment = DOMAIN s.segment /\ r.segmentMap = s.segmentMap
               /\ r.segment[e].status = "pending" /\ r.segment[e].upsert = NoUpsert
<1> DEFINE r == upgradeToPendingSegment(s, e, strategy)
           x == [s.segment[e] EXCEPT !.status = "pending", !.fetchStrategy = strategy]
<1>1. SegmentTypes(s) /\ DOMAIN s = Fields /\ EntryOK(s, e)
  BY DEF Seg, SegmentTypes
<1>2. s.segment[e] \in SegmentEntry
  BY <1>1 DEF SegmentTypes
<1>3. /\ x \in SegmentEntry /\ x.waited = s.segment[e].waited /\ x.upsert = s.segment[e].upsert
      /\ x.status = "pending" /\ x.isPartial = s.segment[e].isPartial
      /\ x.keypath = s.segment[e].keypath /\ x.revalidating = s.segment[e].revalidating
  BY <1>2 DEF SegmentEntry, Statuses
<1>4. r.segment = [s.segment EXCEPT ![e] = x]
  BY <1>1, <1>2 DEF upgradeToPendingSegment, Fields, SegmentEntry
<1> HIDE DEF x
<1>5. Wrote(s, r, e, x)
  BY <1>1, <1>4 DEF upgradeToPendingSegment, Wrote, SegmentsOnly, Fields
<1> HIDE DEF r
<1>6. Seg(s, R, sp \cup {e})
  BY DEF Seg, Fetched
<1>7. x.upsert = NoUpsert /\ ~x.waited /\ s.segment[e].isPartial
  BY <1>1, <1>3 DEF EntryOK
<1>8. /\ Seg(r, R, sp \cup {e}) /\ DOMAIN r.segment = DOMAIN s.segment /\ r.segment[e] = x
  <2>1. /\ x.keypath = s.segment[e].keypath
        /\ x.revalidating = s.segment[e].revalidating /\ x.upsert \in {s.segment[e].upsert, NoUpsert}
        /\ x.status # "empty" /\ (x.waited => x.status = "pending")
        /\ (x.status = "pending" => e \in sp \cup {e})
        /\ (~x.isPartial => x.status \in {"fulfilled", "rejected"})
        /\ (x.status # "pending" => \A q \in R : q.kind # "route" /\ ~q.open => e \notin Range(q.entries))
    BY <1>3, <1>7
  <2> QED  BY <1>3, <1>5, <1>6, <2>1, WroteSeg
<1>9. Steady(s, r, {e})
  BY <1>3, <1>5, <1>7, WroteSteady
<1> QED  BY <1>3, <1>5, <1>7, <1>8, <1>9 DEF Wrote, r

(* No unanswered request of R is for e.                                    *)
Settles(R, e) == \A q \in R : q.kind # "route" /\ ~q.open => e \notin Range(q.entries)

(* The entry e gets its status, and nobody waits for it.                   *)
Settled(s, r, e, status) ==
    /\ r.got = s.got /\ r.thrown = s.thrown /\ r.faults = s.faults /\ r.segmentMap = s.segmentMap
    /\ DOMAIN r.segment = DOMAIN s.segment /\ r.segment[e].status = status
    /\ status = "fulfilled" => r.segment[e].upsert = s.segment[e].upsert
    /\ s.segment[e].isPartial \/ s.segment[e].stale => Steady(s, r, {e})
    /\ SegmentsOnly(s, r)

(* fulfillSegmentCacheEntry.                                               *)
LEMMA FulfillSeg ==
    ASSUME NEW s, NEW R, NEW sp, Seg(s, R, sp), NEW e \in DOMAIN s.segment, Settles(R, e),
           NEW stale \in BOOLEAN, NEW isPartial \in BOOLEAN, NEW loading \in BOOLEAN
    PROVE  LET r == fulfillSegmentCacheEntry(s, e, stale, isPartial, loading)
           IN  Seg(r, R, sp) /\ Settled(s, r, e, "fulfilled") /\ r.segment[e].stale = stale
<1> DEFINE r == fulfillSegmentCacheEntry(s, e, stale, isPartial, loading)
           x == [s.segment[e] EXCEPT !.status = "fulfilled", !.stale = stale, !.waited = FALSE,
                                       !.isPartial = isPartial, !.loading = loading]
<1>1. SegmentTypes(s) /\ DOMAIN s = Fields /\ EntryOK(s, e)
  BY DEF Seg, SegmentTypes
<1>2. s.segment[e] \in SegmentEntry
  BY <1>1 DEF SegmentTypes
<1>3. /\ x \in SegmentEntry /\ ~x.waited /\ x.upsert = s.segment[e].upsert
      /\ x.status = "fulfilled" /\ x.stale = stale
      /\ x.keypath = s.segment[e].keypath /\ x.revalidating = s.segment[e].revalidating
  BY <1>2 DEF SegmentEntry, Statuses
<1>4. r.segment = [s.segment EXCEPT ![e] = x]
  BY <1>1, <1>2 DEF fulfillSegmentCacheEntry, Fields
<1> HIDE DEF x
<1>5. Wrote(s, r, e, x)
  BY <1>1, <1>4 DEF fulfillSegmentCacheEntry, Wrote, SegmentsOnly, Fields
<1> HIDE DEF r
<1>6. /\ Seg(r, R, sp) /\ DOMAIN r.segment = DOMAIN s.segment /\ r.segment[e] = x
      /\ \A d \in DOMAIN s.segment : d # e => r.segment[d] = s.segment[d]
  <2>1. /\ x.keypath = s.segment[e].keypath
        /\ x.revalidating = s.segment[e].revalidating /\ x.upsert \in {s.segment[e].upsert, NoUpsert}
        /\ x.status # "empty" /\ (x.waited => x.status = "pending")
        /\ (x.status = "pending" => e \in sp)
        /\ (~x.isPartial => x.status \in {"fulfilled", "rejected"})
        /\ (x.status # "pending" => \A q \in R : q.kind # "route" /\ ~q.open => e \notin Range(q.entries))
    BY <1>3 DEF Settles
  <2> QED  BY <1>3, <1>5, <2>1, WroteSeg
<1>7. s.segment[e].isPartial \/ s.segment[e].stale => Steady(s, r, {e})
  BY <1>3, <1>5, WroteSteady
<1>8. Settled(s, r, e, "fulfilled")
  BY <1>3, <1>5, <1>6, <1>7 DEF Wrote, Settled
<1> QED  BY <1>3, <1>5, <1>6, <1>7, <1>8 DEF Wrote, r

(* rejectSegmentCacheEntry.                                                *)
LEMMA RejectSeg ==
    ASSUME NEW s, NEW R, NEW sp, Seg(s, R, sp), NEW e \in DOMAIN s.segment, Settles(R, e)
    PROVE  LET r == rejectSegmentCacheEntry(s, e)
           IN  Seg(r, R, sp) /\ Settled(s, r, e, "rejected")
<1> DEFINE r == rejectSegmentCacheEntry(s, e)
           x == [s.segment[e] EXCEPT !.status = "rejected", !.stale = FALSE,
                                     !.waited = FALSE, !.upsert = NoUpsert]
<1>1. SegmentTypes(s) /\ DOMAIN s = Fields /\ EntryOK(s, e)
  BY DEF Seg, SegmentTypes
<1>2. s.segment[e] \in SegmentEntry
  BY <1>1 DEF SegmentTypes
<1>3. /\ x \in SegmentEntry /\ ~x.waited /\ x.upsert = NoUpsert /\ x.status = "rejected"
      /\ x.keypath = s.segment[e].keypath /\ x.revalidating = s.segment[e].revalidating
  BY <1>2 DEF SegmentEntry, Statuses, Upserts
<1>4. r.segment = [s.segment EXCEPT ![e] = x]
  BY <1>1, <1>2 DEF rejectSegmentCacheEntry, Fields
<1> HIDE DEF x
<1>5. Wrote(s, r, e, x)
  BY <1>1, <1>4 DEF rejectSegmentCacheEntry, Wrote, SegmentsOnly, Fields
<1> HIDE DEF r
<1>6. /\ Seg(r, R, sp) /\ DOMAIN r.segment = DOMAIN s.segment /\ r.segment[e] = x
      /\ \A d \in DOMAIN s.segment : d # e => r.segment[d] = s.segment[d]
  <2>1. /\ x.keypath = s.segment[e].keypath
        /\ x.revalidating = s.segment[e].revalidating /\ x.upsert \in {s.segment[e].upsert, NoUpsert}
        /\ x.status # "empty" /\ (x.waited => x.status = "pending")
        /\ (x.status = "pending" => e \in sp)
        /\ (~x.isPartial => x.status \in {"fulfilled", "rejected"})
        /\ (x.status # "pending" => \A q \in R : q.kind # "route" /\ ~q.open => e \notin Range(q.entries))
    BY <1>3 DEF Settles
  <2> QED  BY <1>3, <1>5, <2>1, WroteSeg
<1>7. s.segment[e].isPartial \/ s.segment[e].stale => Steady(s, r, {e})
  BY <1>3, <1>5, WroteSteady
<1>8. Settled(s, r, e, "rejected")
  BY <1>3, <1>5, <1>6, <1>7 DEF Wrote, Settled
<1> QED  BY <1>5, <1>6, <1>7, <1>8 DEF Wrote, r

(* The candidate c is at the key k, or is rejected because a fuller entry  *)
(* is there.                                                               *)
Upserted(s, r, k, c) ==
    /\ SegmentsOnly(s, r) /\ DOMAIN r.segment = DOMAIN s.segment
    /\ r.segment[c].status \in {"fulfilled", "rejected"}
    /\ \A e \in DOMAIN s.segment :
          /\ e # c => r.segment[e].status = s.segment[e].status
          /\ r.segment[e].isPartial = s.segment[e].isPartial
          /\ r.segment[e].stale = s.segment[e].stale
    /\ \A j \in SegmentKeys : Full(s, j) => \/ Full(r, j)
                                            \/ j = k /\ r.segmentMap[j] = c /\ ~r.segment[c].isPartial
    /\ s.faults \subseteq r.faults

(* upsertSegmentEntry never replaces a complete, fresh entry by a partial  *)
(* one.                                                                    *)
LEMMA UpsertSeg ==
    ASSUME NEW s, NEW R, NEW sp, Seg(s, R, sp), NEW k \in SegmentKeys, NEW c \in DOMAIN s.segment,
           unmapped(s, c), s.segment[c].status = "fulfilled", s.segment[c].upsert = NoUpsert
    PROVE  LET r == upsertSegmentEntry(s, k, c) IN Seg(r, R, sp) /\ Upserted(s, r, k, c)
<1> DEFINE d == readExactSegmentCacheEntry(s, k)
           r == upsertSegmentEntry(s, k, c)
<1>1. /\ Reads(s, d, {}) /\ Seg(d, R, sp)
      /\ d.got \in {0} \cup DOMAIN d.segment
      /\ d.got # 0 => d.got = d.segmentMap[k] /\ ~d.segment[d.got].stale
      /\ d.got = 0 /\ ~d.thrown => d.segmentMap[k] = 0
  BY ReadExact
<1>2. SegmentTypes(s) /\ c # 0 /\ SegmentTypes(d) /\ DOMAIN d = Fields
  BY <1>1 DEF Seg, SegmentTypes
<1>3. Upserted(s, d, k, c)
  BY <1>1, <1>2 DEF Reads, Upserted, Full, SegmentTypes
<1>4. /\ c \in DOMAIN d.segment /\ unmapped(d, c) /\ d.segment[c].status = "fulfilled"
      /\ d.segment[c].upsert = NoUpsert /\ ~d.segment[c].waited
  BY <1>1, <1>2 DEF Reads, unmapped, Seg, EntryOK
<1> DEFINE loses == d.got # 0 /\ d.segment[c].isPartial /\ ~d.segment[d.got].isPartial
           v == IF d.got = 0 THEN d ELSE deleteSegmentFromCache(d, d.got, k)
<1>5. r = IF d.thrown THEN d
          ELSE IF loses THEN [d EXCEPT !.segment[c].status = "rejected"]
          ELSE putSegment(v, k, c)
  BY DEF upsertSegmentEntry
<1>6. Settles(R, c)
  BY <1>1, <1>4 DEF Seg, RequestOK, Settles
<1> HIDE DEF d, r
<1>7. CASE d.thrown
  BY <1>1, <1>3, <1>5, <1>7 DEF r
<1>8. CASE ~d.thrown /\ loses
  <2> DEFINE x == [d.segment[c] EXCEPT !.status = "rejected"]
  <2>1. r = [d EXCEPT !.segment[c].status = "rejected"]
    BY <1>5, <1>8
  <2>2. d.segment[c] \in SegmentEntry
    BY <1>2, <1>4 DEF SegmentTypes
  <2>3. /\ x \in SegmentEntry /\ ~x.waited /\ x.upsert = NoUpsert /\ x.status = "rejected"
        /\ x.isPartial = d.segment[c].isPartial /\ x.stale = d.segment[c].stale
        /\ x.keypath = d.segment[c].keypath /\ x.revalidating = d.segment[c].revalidating
    BY <1>4, <2>2 DEF SegmentEntry, Statuses
  <2>4. r.segment = [d.segment EXCEPT ![c] = x]
    BY <1>2, <2>1, <2>2 DEF Fields
  <2> HIDE DEF x
  <2>5. Wrote(d, r, c, x)
    BY <1>2, <2>1, <2>4 DEF Wrote, SegmentsOnly, Fields
  <2>6. /\ Seg(r, R, sp) /\ DOMAIN r.segment = DOMAIN d.segment /\ r.segment[c] = x
        /\ \A e \in DOMAIN d.segment : e # c => r.segment[e] = d.segment[e]
    <3>1. /\ x.keypath = d.segment[c].keypath
          /\ x.revalidating = d.segment[c].revalidating /\ x.upsert \in {d.segment[c].upsert, NoUpsert}
          /\ x.status # "empty" /\ (x.waited => x.status = "pending")
          /\ (x.status = "pending" => c \in sp)
          /\ (~x.isPartial => x.status \in {"fulfilled", "rejected"})
          /\ (x.status # "pending" => \A q \in R : q.kind # "route" /\ ~q.open => c \notin Range(q.entries))
      BY <1>6, <2>3 DEF Settles
    <3> QED  BY <1>1, <1>4, <2>3, <2>5, <3>1, WroteSeg
  <2>7. Upserted(d, r, k, c)
    BY <1>2, <2>3, <2>5, <2>6 DEF Upserted, Wrote, Full, SegmentTypes
  <2>8. \A j \in SegmentKeys : Full(d, j) => Full(r, j)
    BY <1>2, <2>3, <2>5, <2>6 DEF Wrote, Full, SegmentTypes
  <2>9. Upserted(s, r, k, c)
    <3>1. SegmentsOnly(s, r)
      BY <1>3, <2>5 DEF Upserted, Wrote, SegmentsOnly
    <3>2. \A j \in SegmentKeys : Full(s, j) => Full(r, j)
      BY <1>1, <1>2, <2>8 DEF Reads, Full, SegmentTypes
    <3> QED  BY <1>3, <2>7, <3>1, <3>2 DEF Upserted
  <2> QED  BY <2>6, <2>9 DEF r
<1>9. CASE ~d.thrown /\ ~loses
  <2>1. r = putSegment(v, k, c)
    BY <1>5, <1>9
  <2>2. /\ Reads(d, v, {k}) /\ v.segmentMap = [d.segmentMap EXCEPT ![k] = 0]
    <3>1. CASE d.got = 0
      <4>1. v = d /\ d.segmentMap[k] = 0
        BY <1>1, <1>9, <3>1
      <4>2. Reads(d, d, {k})
        BY <1>2, ReadsRefl
      <4> QED  BY <1>2, <4>1, <4>2 DEF SegmentTypes
    <3>2. CASE d.got # 0
      <4>1. v = deleteSegmentFromCache(d, d.segmentMap[k], k) /\ d.segmentMap[k] # 0
        BY <1>1, <3>2
      <4> HIDE DEF v
      <4> QED  BY <1>1, <4>1, DeleteReads
    <3> QED  BY <3>1, <3>2
  <2> HIDE DEF v
  <2>3. Seg(v, R, sp)
    BY <1>1, <2>2, ReadsSeg
  <2>4. /\ c \in DOMAIN v.segment /\ unmapped(v, c) /\ v.segment[c].status = "fulfilled"
        /\ v.segment[c].upsert = NoUpsert
    BY <1>2, <1>4, <2>2 DEF Reads, unmapped
  <2>5. v.segment[c].status # "pending" /\ v.segment[c].status # "empty"
    BY <2>4
  <2>6. Seg(r, R, sp) /\ Put(v, r, k, c)
    BY <2>1, <2>3, <2>4, <2>5, PutSeg
  <2>7. SegmentsOnly(s, r)
    BY <1>3, <2>2, <2>6 DEF Upserted, Reads, Put, SegmentsOnly
  <2>8. /\ DOMAIN r.segment = DOMAIN s.segment
        /\ \A e \in DOMAIN s.segment :
              /\ r.segment[e].status = s.segment[e].status
              /\ r.segment[e].isPartial = s.segment[e].isPartial
              /\ r.segment[e].stale = s.segment[e].stale
        /\ s.faults \subseteq r.faults
    BY <1>1, <2>2, <2>6 DEF Reads, Put
  <2>11. r.segment[c].status = "fulfilled"
    BY <2>8
  <2>9. \A j \in SegmentKeys : r.segmentMap[j] = IF j = k THEN c ELSE d.segmentMap[j]
    BY <1>2, <2>2, <2>3, <2>6 DEF Put, SegmentTypes, Seg
  <2>10. ASSUME NEW j \in SegmentKeys, Full(s, j)
         PROVE  Full(r, j) \/ (j = k /\ r.segmentMap[j] = c /\ ~r.segment[c].isPartial)
    <3>1. d.segmentMap[j] = s.segmentMap[j] /\ s.segmentMap[j] \in DOMAIN s.segment
      BY <1>1, <1>2, <2>10 DEF Reads, Full, SegmentTypes
    <3>2. CASE j # k
      BY <2>8, <2>9, <2>10, <3>1, <3>2 DEF Full
    <3>3. CASE j = k
      <4>1. d.got = s.segmentMap[j]
        BY <1>1, <1>9, <2>10, <3>1, <3>3 DEF Full
      <4>2. ~d.segment[d.got].isPartial /\ d.got # 0
        BY <1>1, <2>10, <3>1, <4>1 DEF Full, Reads
      <4>3. ~d.segment[c].isPartial
        BY <1>9, <4>2
      <4> QED  BY <1>1, <1>4, <2>8, <2>9, <3>3, <4>3 DEF Reads
    <3> QED  BY <3>2, <3>3
  <2> QED  BY <2>6, <2>7, <2>8, <2>10, <2>11 DEF Upserted, r
<1> QED  BY <1>7, <1>8, <1>9

(* r differs from s in the fields that the segment cache does not read.    *)
LEMMA SegFrame ==
    ASSUME NEW s, NEW R, NEW sp, Seg(s, R, sp), NEW r, DOMAIN r = Fields,
           r.segment = s.segment, r.segmentMap = s.segmentMap, r.segmentLru = s.segmentLru,
           r.got \in Nat, r.thrown \in BOOLEAN, s.faults \subseteq r.faults,
           r.thrown => "recursion" \in r.faults
    PROVE  Seg(r, R, sp)
<1>1. SegmentTypes(r) /\ SegmentsEvictable(r)
  BY DEF Seg, SegmentTypes, SegmentsEvictable
<1>2. ASSUME NEW e \in DOMAIN r.segment PROVE EntryOK(r, e)
  <2>1. EntryOK(s, e)
    BY DEF Seg
  <2> QED  BY <2>1 DEF EntryOK, unmapped
<1>3. ASSUME NEW q \in R PROVE RequestOK(r, q)
  <2>1. RequestOK(s, q)
    BY DEF Seg
  <2> QED  BY <2>1 DEF RequestOK, unmapped
<1>4. Fetched(r, R, sp)
  BY DEF Seg, Fetched
<1> QED  BY <1>1, <1>2, <1>3, <1>4 DEF Seg

(* A request that is being answered: its entries have to be settled.       *)
LEMMA AnsweringSeg ==
    ASSUME NEW s, NEW Q, Seg(s, Q, {}), NEW q \in Q
    PROVE  /\ Seg(s, Q \ {q}, Range(q.entries))
           /\ q.kind = "route" => Seg(s, Q \ {q}, {})
           /\ RequestOK(s, q)
           /\ q.kind # "route" => \A e \in Range(q.entries) : Settles(Q \ {q}, e)
<1>1. RequestOK(s, q)
  BY DEF Seg
<1>2. Fetched(s, Q \ {q}, Range(q.entries)) /\ (q.kind = "route" => Fetched(s, Q \ {q}, {}))
  BY DEF Seg, Fetched
<1>3. q.kind # "route" => \A e \in Range(q.entries) : Settles(Q \ {q}, e)
  BY DEF Seg, Disjoint, Settles
<1> QED  BY <1>1, <1>2, <1>3 DEF Seg, Disjoint

(* Once the entries of an answer are settled, nothing is awaited for them. *)
LEMMA NotPendingSeg ==
    ASSUME NEW s, NEW R, NEW sp, Seg(s, R, sp),
           s.faults \cap {"mpa", "recursion"} = {} => \A e \in sp : s.segment[e].status # "pending"
    PROVE  Seg(s, R, {})
BY DEF Seg, Fetched

(* The answer came, and the connection stays open.                         *)
LEMMA OpenedSeg ==
    ASSUME NEW s, NEW r, NEW R, Seg(r, R, {}), NEW q, RequestOK(s, q), Disjoint(R \cup {q}), q \notin R,
           DOMAIN s.segment \subseteq DOMAIN r.segment,
           q.kind # "route" => \A e \in Range(q.entries) : r.segment[e].status # "empty"
    PROVE  Seg(r, R \cup {[q EXCEPT !.open = TRUE]}, {})
<1> DEFINE o == [q EXCEPT !.open = TRUE]
<1>1. /\ o \in Request /\ o.kind = q.kind /\ o.entries = q.entries /\ o.upsert = q.upsert /\ o.open
  <2>1. q \in Request
    BY DEF RequestOK
  <2> QED  BY <2>1 DEF Request
<1> HIDE DEF o
<1>2. RequestOK(r, o)
  BY <1>1 DEF RequestOK
<1>3. Disjoint(R \cup {o})
  BY <1>1 DEF Disjoint
<1>4. Fetched(r, R \cup {o}, {})
  BY DEF Seg, Fetched
<1> QED  BY <1>2, <1>3, <1>4 DEF Seg, o

(* A callback of upsertSegmentOnCompletion has run for c.                  *)
Completed(s, r, c) ==
    /\ SegmentsOnly(s, r) /\ DOMAIN r.segment = DOMAIN s.segment
    /\ \A e \in DOMAIN s.segment :
          /\ e # c => r.segment[e].status = s.segment[e].status
          /\ r.segment[e].isPartial = s.segment[e].isPartial
          /\ r.segment[e].stale = s.segment[e].stale
    /\ \A j \in SegmentKeys : Full(s, j) => \/ Full(r, j)
                                            \/ r.segmentMap[j] = c /\ ~r.segment[c].isPartial
    /\ s.faults \subseteq r.faults

(* upsertSegmentOnCompletion.                                              *)
LEMMA CompletionSeg ==
    ASSUME NEW s, NEW R, NEW sp, Seg(s, R, sp), NEW k \in Upserts, NEW c \in DOMAIN s.segment,
           k # NoUpsert => unmapped(s, c), s.segment[c].status = "fulfilled"
    PROVE  LET r == upsertSegmentOnCompletion(s, c, k)
           IN  Seg(r, R, sp) /\ Completed(s, r, c) /\ r.segment[c].status \in {"fulfilled", "rejected"}
<1> DEFINE r == upsertSegmentOnCompletion(s, c, k)
<1>1. SegmentTypes(s) /\ DOMAIN s = Fields
  BY DEF Seg, SegmentTypes
<1>2. CASE k = NoUpsert
  <2>1. r = s
    BY <1>2 DEF upsertSegmentOnCompletion
  <2> QED  BY <1>1, <2>1 DEF Completed, SegmentsOnly
<1>3. CASE k # NoUpsert
  <2> DEFINE x == [s.segment[c] EXCEPT !.upsert = NoUpsert]
             w == [s EXCEPT !.segment[c].upsert = NoUpsert]
             u == upsertSegmentEntry(w, k, c)
  <2>1. r = [u EXCEPT !.thrown = FALSE, !.got = 0]
    BY <1>3 DEF upsertSegmentOnCompletion
  <2>2. s.segment[c] \in SegmentEntry /\ EntryOK(s, c)
    BY <1>1 DEF SegmentTypes, Seg
  <2>3. /\ x \in SegmentEntry /\ x.waited = s.segment[c].waited /\ x.upsert = NoUpsert
        /\ x.status = "fulfilled" /\ x.isPartial = s.segment[c].isPartial /\ x.stale = s.segment[c].stale
        /\ x.keypath = s.segment[c].keypath /\ x.revalidating = s.segment[c].revalidating
    BY <2>2 DEF SegmentEntry, Upserts
  <2>4. w.segment = [s.segment EXCEPT ![c] = x]
    BY <1>1 DEF Fields
  <2> HIDE DEF x
  <2>5. Wrote(s, w, c, x)
    BY <1>1, <2>4 DEF Wrote, SegmentsOnly, Fields
  <2> HIDE DEF w
  <2>6. Settles(R, c)
    BY DEF Seg, RequestOK, Settles
  <2>7. /\ Seg(w, R, sp) /\ DOMAIN w.segment = DOMAIN s.segment /\ w.segment[c] = x
        /\ \A d \in DOMAIN s.segment : d # c => w.segment[d] = s.segment[d]
    <3>1. /\ x.keypath = s.segment[c].keypath
          /\ x.revalidating = s.segment[c].revalidating /\ x.upsert \in {s.segment[c].upsert, NoUpsert}
          /\ x.status # "empty" /\ (x.waited => x.status = "pending")
          /\ (x.status = "pending" => c \in sp)
          /\ (~x.isPartial => x.status \in {"fulfilled", "rejected"})
          /\ (x.status # "pending" => \A q \in R : q.kind # "route" /\ ~q.open => c \notin Range(q.entries))
      BY <2>2, <2>3, <2>6 DEF Settles, EntryOK
    <3> QED  BY <2>3, <2>5, <3>1, WroteSeg
  <2>8. /\ k \in SegmentKeys /\ unmapped(w, c) /\ w.segment[c].status = "fulfilled"
        /\ w.segment[c].upsert = NoUpsert /\ c \in DOMAIN w.segment
    BY <1>3, <2>3, <2>5, <2>7 DEF Upserts, unmapped, Wrote
  <2>9. Seg(u, R, sp) /\ Upserted(w, u, k, c)
    BY <2>7, <2>8, UpsertSeg
  <2>10. DOMAIN u = Fields
    BY <2>9 DEF Seg, SegmentTypes
  <2> HIDE DEF u
  <2>11. /\ DOMAIN r = Fields /\ SegmentsOnly(u, r)
         /\ r.segment = u.segment /\ r.segmentMap = u.segmentMap /\ r.segmentLru = u.segmentLru
         /\ r.got = 0 /\ ~r.thrown /\ r.thrown \in BOOLEAN /\ r.faults = u.faults
    BY <2>1, <2>10 DEF Fields, SegmentsOnly
  <2> HIDE DEF r
  <2>12. Seg(r, R, sp)
    BY <2>9, <2>11, SegFrame
  <2>13. /\ \A e \in DOMAIN s.segment :
              /\ e # c => r.segment[e].status = s.segment[e].status
              /\ r.segment[e].isPartial = s.segment[e].isPartial
              /\ r.segment[e].stale = s.segment[e].stale
         /\ DOMAIN r.segment = DOMAIN s.segment /\ s.faults \subseteq r.faults
         /\ SegmentsOnly(s, r) /\ r.segment[c].status \in {"fulfilled", "rejected"}
    BY <2>3, <2>5, <2>7, <2>9, <2>11 DEF Upserted, Wrote, SegmentsOnly
  <2>14. ASSUME NEW j \in SegmentKeys, Full(s, j)
         PROVE  Full(r, j) \/ (r.segmentMap[j] = c /\ ~r.segment[c].isPartial)
    <3>1. Full(w, j)
      BY <1>1, <2>3, <2>5, <2>7, <2>14 DEF Full, Wrote, SegmentTypes
    <3> QED  BY <2>9, <2>11, <3>1 DEF Upserted, Full
  <2>15. Completed(s, r, c)
    BY <2>13, <2>14 DEF Completed
  <2> QED  BY <2>12, <2>13, <2>15 DEF r
<1> QED  BY <1>2, <1>3

(* Keypaths are keys of the segment map.                                   *)
LEMMA KeypathOK ==
    ASSUME NEW s, NEW t, NEW path \in Segments
    PROVE  getSegmentKeypathForTask(s, t, path) \in SegmentKeys
<1>1. \A b : (isDynamicTask(s, t) /\ b) \in BOOLEAN
  OBVIOUS
<1> QED  BY <1>1 DEF getSegmentKeypathForTask, SegmentKeys

(* Steadiness for fewer entries follows.                                   *)
LEMMA SteadyMono ==
    ASSUME NEW s, NEW r, NEW W, Steady(s, r, W), NEW V, W \subseteq V
    PROVE  Steady(s, r, V)
BY DEF Steady

(* What writing the data of a segment leaves alone, when e was for it.     *)
Written(s, r, e) ==
    /\ Steady(s, r, Nat)
    /\ \A d \in DOMAIN s.segment : d # e /\ s.segment[d].status # "empty" =>
          r.segment[d].status = s.segment[d].status /\ r.segment[d].stale = s.segment[d].stale

(* A detached entry is filled and upserted.                                *)
LEMMA InsertSeg ==
    ASSUME NEW s, NEW R, NEW sp, Seg(s, R, sp), NEW k \in SegmentKeys,
           NEW partial \in BOOLEAN, NEW loading \in BOOLEAN
    PROVE  LET new == createDetachedSegmentCacheEntry(s, FALSE)
               r == upsertSegmentEntry(fulfillSegmentCacheEntry(new, new.got, FALSE, partial, loading),
                                       k, new.got)
           IN  Seg(r, R, sp) /\ Written(s, r, 0)
<1> DEFINE no == FALSE
           new == createDetachedSegmentCacheEntry(s, no)
           f == fulfillSegmentCacheEntry(new, new.got, no, partial, loading)
           r == upsertSegmentEntry(f, k, new.got)
<1> SUFFICES Seg(r, R, sp) /\ Written(s, r, 0)
  OBVIOUS
<1> no \in BOOLEAN /\ ~no
  OBVIOUS
<1> HIDE DEF no
<1>1. /\ Seg(new, R, sp) /\ SegmentsOnly(s, new)
      /\ new.got \notin DOMAIN s.segment /\ DOMAIN new.segment = DOMAIN s.segment \cup {new.got}
      /\ new.segment[new.got] = fresh(no)
      /\ \A e \in DOMAIN s.segment : new.segment[e] = s.segment[e]
      /\ new.segmentMap = s.segmentMap /\ new.faults = s.faults /\ unmapped(new, new.got)
  BY CreatedSeg
<1>2. Steady(s, new, Nat)
  BY CreatedSteady
<1> HIDE DEF new
<1>3. new.segment[new.got].isPartial /\ new.segment[new.got].upsert = NoUpsert
      /\ new.segment[new.got].status = "empty"
  BY <1>1 DEF fresh
<1>4. Settles(R, new.got)
  BY <1>1, <1>3 DEF Seg, RequestOK, Settles
<1>5. /\ Seg(f, R, sp) /\ Settled(new, f, new.got, "fulfilled")
      /\ f.segment[new.got].stale = no
  BY <1>1, <1>3, <1>4, FulfillSeg
<1> HIDE DEF f
<1>6. /\ new.got \in DOMAIN f.segment /\ unmapped(f, new.got) /\ f.segment[new.got].status = "fulfilled"
  BY <1>1, <1>5 DEF Settled, unmapped
<1>12. f.segment[new.got].upsert = NoUpsert /\ Steady(new, f, {new.got})
  BY <1>3, <1>5 DEF Settled
<1>7. Seg(r, R, sp) /\ Upserted(f, r, k, new.got)
  BY <1>5, <1>6, <1>12, UpsertSeg
<1> HIDE DEF r
<1>8. SegmentTypes(s) /\ SegmentTypes(new) /\ SegmentTypes(f)
  BY <1>1, <1>5 DEF Seg
<1>9. \A j \in SegmentKeys : Full(f, j) => Full(r, j)
  BY <1>5, <1>6, <1>7 DEF Upserted, Full, SegmentTypes, Seg
<1>10. Steady(s, r, Nat)
  <2>1. Steady(new, f, Nat)
    BY <1>12, <1>8 DEF Steady, SegmentTypes
  <2>2. Steady(f, r, Nat)
    BY <1>7, <1>8, <1>9 DEF Steady, Upserted, SegmentTypes
  <2> QED  BY <1>2, <2>1, <2>2, SteadyTrans
<1>11. \A d \in DOMAIN s.segment :
          r.segment[d].status = s.segment[d].status /\ r.segment[d].stale = s.segment[d].stale
  BY <1>1, <1>12, <1>7 DEF Steady, Upserted
<1> QED  BY <1>7, <1>10, <1>11 DEF Written

(* writeSeedDataIntoCache: the request's own entry is fulfilled, any other *)
(* is inserted.                                                            *)
LEMMA WriteSeg ==
    ASSUME NEW s, NEW R, NEW sp, Seg(s, R, sp), NEW q, NEW path \in Segments,
           s.route[q.route].stale \in BOOLEAN,
           path \in DOMAIN q.entries =>
              /\ q.entries[path] \in DOMAIN s.segment /\ Settles(R, q.entries[path])
              /\ s.segment[q.entries[path]].status = "pending"
    PROVE  LET r == writeSeedDataIntoCache(s, q, path)
               e == IF path \in DOMAIN q.entries THEN q.entries[path] ELSE 0
           IN  /\ Seg(r, R, sp) /\ Written(s, r, e)
               /\ path \in DOMAIN q.entries => \/ r.segment[e].status = "pending"
                                               \/ r.segment[e].status = "fulfilled" /\ ~r.segment[e].stale
<1> DEFINE no == FALSE
           r == writeSeedDataIntoCache(s, q, path)
           e == IF path \in DOMAIN q.entries THEN q.entries[path] ELSE 0
           partial == ~s.task[q.task].full /\ path \in HasLoading
           loading == path \in HasLoading
           k == getSegmentKeypathForTask(s, q.task, path)
           d == readOrCreateSegmentCacheEntry(s, q.task, q.route, path)
<1> SUFFICES /\ Seg(r, R, sp) /\ Written(s, r, e)
             /\ path \in DOMAIN q.entries => \/ r.segment[e].status = "pending"
                                             \/ r.segment[e].status = "fulfilled" /\ ~r.segment[e].stale
  OBVIOUS
<1>1. /\ SegmentTypes(s) /\ k \in SegmentKeys /\ partial \in BOOLEAN /\ loading \in BOOLEAN
      /\ no \in BOOLEAN /\ ~no
  BY KeypathOK DEF Seg
<1>2. CASE s.thrown
  <2>1. r = s
    BY <1>2 DEF writeSeedDataIntoCache
  <2>2. Written(s, s, e)
    BY <1>1 DEF Written, Steady, SegmentsOnly, SegmentTypes
  <2> QED  BY <2>1, <2>2
<1>3. CASE ~s.thrown /\ path \in DOMAIN q.entries
  <2>1. r = fulfillSegmentCacheEntry(s, e, no, partial, loading)
    BY <1>3 DEF writeSeedDataIntoCache
  <2>2. e \in DOMAIN s.segment /\ Settles(R, e) /\ s.segment[e].isPartial
    BY <1>3 DEF Seg, EntryOK
  <2> HIDE DEF partial, loading, e, no
  <2>3. /\ Seg(r, R, sp) /\ Settled(s, r, e, "fulfilled")
        /\ r.segment[e].stale = no
    BY <1>1, <2>1, <2>2, FulfillSeg
  <2>4. Steady(s, r, {e}) /\ Steady(s, r, Nat)
    BY <1>1, <2>2, <2>3 DEF Steady, SegmentTypes, Settled
  <2> QED  BY <1>1, <1>3, <2>3, <2>4 DEF Written, Steady, Settled
<1>4. CASE ~s.thrown /\ path \notin DOMAIN q.entries
  <2>1. Seg(d, R, sp) /\ Steady(s, d, {}) /\ (~d.thrown => d.got \in DOMAIN d.segment)
    BY <1>1, ReadOrCreateSeg
  <2>2. d.task = s.task /\ SegmentTypes(d)
    BY <2>1 DEF Steady, SegmentsOnly, Seg
  <2>3. k = getSegmentKeypathForTask(d, q.task, path)
    BY <2>2 DEF getSegmentKeypathForTask, isDynamicTask
  <2> DEFINE new == createDetachedSegmentCacheEntry(d, FALSE)
             ins == upsertSegmentEntry(fulfillSegmentCacheEntry(new, new.got, FALSE, partial, loading),
                                       k, new.got)
  <2>4. new.task = s.task
    <3>1. SegmentsOnly(d, new)
      BY <2>1, CreatedSeg
    <3> QED  BY <2>2, <3>1 DEF SegmentsOnly
  <2>5. r = IF d.thrown THEN d
            ELSE IF d.segment[d.got].status = "empty" THEN fulfillSegmentCacheEntry(d, d.got, no, partial, loading)
            ELSE ins
    <3>1. \A u : u.task = s.task => getSegmentKeypathForTask(u, q.task, path) = k
      BY DEF getSegmentKeypathForTask, isDynamicTask
    <3>2. r = IF d.thrown THEN d
              ELSE IF d.segment[d.got].status = "empty"
                THEN fulfillSegmentCacheEntry(d, d.got, no, partial, loading)
              ELSE upsertSegmentEntry(fulfillSegmentCacheEntry(new, new.got, FALSE, partial, loading),
                         getSegmentKeypathForTask(s, q.task, path), new.got)
      BY <1>4, <2>2, <2>4, <3>1 DEF writeSeedDataIntoCache
    <3> QED  BY <3>1, <3>2
  <2> HIDE DEF d, r, partial, loading, k, no
  <2>6. CASE d.thrown
    <3>1. r = d
      BY <2>5, <2>6
    <3>2. Written(s, d, e)
      BY <1>1, <2>1, SteadyMono DEF Written, Steady
    <3> QED  BY <1>4, <2>1, <3>1, <3>2
  <2>7. CASE ~d.thrown /\ d.segment[d.got].status = "empty"
    <3>1. r = fulfillSegmentCacheEntry(d, d.got, no, partial, loading) /\ d.got \in DOMAIN d.segment
      BY <2>1, <2>5, <2>7
    <3>2. Settles(R, d.got) /\ d.segment[d.got].isPartial
      BY <2>1, <2>7, <3>1 DEF Seg, RequestOK, Settles, EntryOK
    <3>3. Seg(r, R, sp) /\ Settled(d, r, d.got, "fulfilled")
      BY <1>1, <2>1, <3>1, <3>2, FulfillSeg
    <3>5. Steady(d, r, {d.got})
      BY <3>2, <3>3 DEF Settled
    <3>4. Written(s, r, e)
      <4>1. Steady(d, r, Nat) /\ Steady(s, d, Nat)
        <5>1. {d.got} \subseteq Nat /\ {} \subseteq Nat
          BY <2>2 DEF SegmentTypes
        <5> QED  BY <2>1, <3>5, <5>1, SteadyMono
      <4>2. Steady(s, r, Nat)
        BY <4>1, SteadyTrans
      <4> QED  BY <2>1, <2>7, <3>5, <4>2 DEF Written, Steady
    <3> QED  BY <1>4, <3>3, <3>4
  <2>8. CASE ~d.thrown /\ d.segment[d.got].status # "empty"
    <3>1. r = ins
      BY <2>5, <2>8
    <3>2. Seg(ins, R, sp) /\ Written(d, ins, 0)
      BY <1>1, <2>1, InsertSeg DEF no
    <3> HIDE DEF ins
    <3>3. Written(s, r, e)
      <4>1. Steady(s, d, Nat)
        BY <2>1, SteadyMono
      <4>2. Steady(s, r, Nat)
        BY <3>1, <3>2, <4>1, SteadyTrans DEF Written
      <4>3. \A x \in DOMAIN s.segment : x # 0 /\ x \in DOMAIN d.segment
        BY <1>1, <2>1 DEF SegmentTypes, Steady
      <4> QED  BY <2>1, <3>1, <3>2, <4>2, <4>3 DEF Written, Steady
    <3> QED  BY <1>4, <3>1, <3>2, <3>3
  <2> QED  BY <2>6, <2>7, <2>8
<1> QED  BY <1>2, <1>3, <1>4

-----------------------------------------------------------------------------
(* Folds                                                                   *)

(* What a smaller set of subsets hands on to the next holds of all subsets *)
(* of a finite set.                                                        *)
LEMMA SubsetInduction ==
    ASSUME NEW D, IsFiniteSet(D), NEW Z \in SUBSET SUBSET D,
           \A S \in SUBSET D : (\A x \in S : S \ {x} \in Z) => S \in Z
    PROVE  Z = SUBSET D
<1> SUFFICES ASSUME Z # SUBSET D PROVE FALSE
  OBVIOUS
<1> DEFINE Bad == (SUBSET D) \ Z
<1>1. Bad # {} /\ Bad \subseteq FiniteSubsetsOf(D)
  BY FS_FiniteSubsetsOfFinite
<1>2. PICK T \in Bad : \A U \in Bad : <<U, T>> \notin StrictSubsetOrdering(D)
  BY <1>1, FS_StrictSubsetOrderingWellFounded, WFMin
<1>3. PICK x \in T : T \ {x} \notin Z
  BY <1>2
<1>4. T \ {x} \in Bad /\ T \ {x} \subseteq T /\ T \ {x} # T
  BY <1>3
<1>5. <<T \ {x}, T>> \in StrictSubsetOrdering(D)
  BY <1>4 DEF StrictSubsetOrdering
<1> QED  BY <1>2, <1>4, <1>5

(* g is the fold F over the subsets of A, of which c chooses the next      *)
(* element.                                                                *)
Folds(F, c, base, A, g) ==
    g = [S \in SUBSET A |-> IF S = {} THEN base ELSE Apply(F, c[S], g[S \ {c[S]}])]

(* There is one such fold.                                                 *)
LEMMA FoldUnique ==
    ASSUME NEW A, NEW B, NEW C, IsFiniteSet(C), C \subseteq A, C \subseteq B, NEW F, NEW base, NEW c,
           NEW g, NEW h,
           \A S \in SUBSET C : S # {} => c[S] \in S,
           Folds(F, c, base, A, g), Folds(F, c, base, B, h)
    PROVE  \A S \in SUBSET C : g[S] = h[S]
<1> DEFINE Z == {S \in SUBSET C : g[S] = h[S]}
<1>1. ASSUME NEW S \in SUBSET C, \A x \in S : S \ {x} \in Z PROVE S \in Z
  <2>1. /\ g[S] = IF S = {} THEN base ELSE Apply(F, c[S], g[S \ {c[S]}])
        /\ h[S] = IF S = {} THEN base ELSE Apply(F, c[S], h[S \ {c[S]}])
    BY DEF Folds
  <2>2. S # {} => c[S] \in S
    OBVIOUS
  <2> QED  BY <1>1, <2>1, <2>2
<1>2. Z = SUBSET C
  <2> HIDE DEF Z
  <2>1. Z \in SUBSET SUBSET C
    BY DEF Z
  <2> QED  BY <1>1, <2>1, SubsetInduction
<1> QED  BY <1>2

(* There is such a fold.                                                   *)
LEMMA FoldExists ==
    ASSUME NEW D, IsFiniteSet(D), NEW F, NEW base, NEW c,
           \A S \in SUBSET D : S # {} => c[S] \in S
    PROVE  \E g : Folds(F, c, base, D, g)
<1> DEFINE Z == {A \in SUBSET D : \E g : Folds(F, c, base, A, g)}
<1>1. ASSUME NEW A \in SUBSET D, \A x \in A : A \ {x} \in Z PROVE A \in Z
  <2> DEFINE G == [x \in A |-> CHOOSE g : Folds(F, c, base, A \ {x}, g)]
             v(S) == G[CHOOSE x \in A \ S : TRUE][S]
             step(S) == IF S = {} THEN base ELSE Apply(F, c[S], v(S \ {c[S]}))
             g == [S \in SUBSET A |-> IF S = A THEN step(A) ELSE v(S)]
  <2>1. \A x \in A : Folds(F, c, base, A \ {x}, G[x])
    BY <1>1
  <2>2. ASSUME NEW x \in A, NEW S \in SUBSET (A \ {x}) PROVE v(S) = G[x][S]
    <3>1. PICK y \in A \ S : y = CHOOSE z \in A \ S : TRUE
      OBVIOUS
    <3> DEFINE C == (A \ {x}) \cap (A \ {y})
    <3>2. IsFiniteSet(C) /\ S \in SUBSET C
      <4>1. C \subseteq D /\ S \in SUBSET C
        BY <3>1
      <4> QED  BY <4>1, FS_Subset
    <3>3. \A T \in SUBSET C : T # {} => c[T] \in T
      OBVIOUS
    <3>4. \A T \in SUBSET C : G[x][T] = G[y][T]
      <4>1. Folds(F, c, base, A \ {x}, G[x]) /\ Folds(F, c, base, A \ {y}, G[y])
        BY <2>1
      <4>2. C \subseteq A \ {x} /\ C \subseteq A \ {y}
        OBVIOUS
      <4>3. ASSUME NEW X, NEW Y, NEW E, NEW p, NEW q, E \subseteq X, E \subseteq Y, IsFiniteSet(E),
                   \A T \in SUBSET E : T # {} => c[T] \in T,
                   Folds(F, c, base, X, p), Folds(F, c, base, Y, q)
            PROVE  \A T \in SUBSET E : p[T] = q[T]
        BY <4>3, FoldUnique
      <4> HIDE DEF C, G
      <4> QED  BY <3>2, <3>3, <4>1, <4>2, <4>3
    <3> QED  BY <3>1, <3>2, <3>4
  <2>3. ASSUME NEW S \in SUBSET A PROVE g[S] = IF S = {} THEN base ELSE Apply(F, c[S], g[S \ {c[S]}])
    <3>1. S # {} => c[S] \in S /\ S \ {c[S]} # A /\ S \ {c[S]} \in SUBSET A
      OBVIOUS
    <3>2. S # {} => g[S \ {c[S]}] = v(S \ {c[S]})
      BY <3>1
    <3>3. CASE S = A
      BY <3>2, <3>3
    <3>4. CASE S # A
      <4>1. PICK x \in A : x \notin S
        BY <3>4
      <4>2. S \in SUBSET (A \ {x}) /\ S \ {c[S]} \in SUBSET (A \ {x})
        BY <4>1
      <4>3. v(S) = G[x][S] /\ v(S \ {c[S]}) = G[x][S \ {c[S]}]
        <5> HIDE DEF v, G
        <5> QED  BY <2>2, <4>2
      <4>4. G[x][S] = IF S = {} THEN base ELSE Apply(F, c[S], G[x][S \ {c[S]}])
        <5>1. Folds(F, c, base, A \ {x}, G[x])
          BY <2>1
        <5> HIDE DEF G
        <5> QED  BY <4>2, <5>1 DEF Folds
      <4>5. g[S] = v(S)
        BY <3>4
      <4> HIDE DEF v, g, G
      <4> QED  BY <3>2, <4>3, <4>4, <4>5
    <3> QED  BY <3>3, <3>4
  <2>4. g = [S \in SUBSET A |-> IF S = {} THEN base ELSE Apply(F, c[S], g[S \ {c[S]}])]
    <3>1. g = [S \in SUBSET A |-> g[S]]
      OBVIOUS
    <3> HIDE DEF g
    <3> QED  BY <2>3, <3>1
  <2>5. Folds(F, c, base, A, g)
    <3> HIDE DEF g
    <3> QED  BY <2>4 DEF Folds
  <2> QED  BY <2>5
<1>2. Z = SUBSET D
  <2> HIDE DEF Z
  <2>1. Z \in SUBSET SUBSET D
    BY DEF Z
  <2> QED  BY <1>1, <2>1, SubsetInduction
<1> QED  BY <1>2

(* What every step of a fold preserves holds at its end.                   *)
LEMMA FoldHolds ==
    ASSUME NEW D, IsFiniteSet(D), NEW F, NEW h, NEW base, NEW c,
           \A S \in SUBSET D : S # {} => c[S] \in S,
           Holds(h, {}, base),
           \A S \in SUBSET D : S # {} => \A a : Holds(h, S \ {c[S]}, a) => Holds(h, S, Apply(F, c[S], a)),
           NEW g, Folds(F, c, base, D, g)
    PROVE  Holds(h, D, g[D])
<1> DEFINE Z == {S \in SUBSET D : Holds(h, S, g[S])}
<1>1. ASSUME NEW S \in SUBSET D, \A x \in S : S \ {x} \in Z PROVE S \in Z
  <2>1. g[S] = IF S = {} THEN base ELSE Apply(F, c[S], g[S \ {c[S]}])
    BY DEF Folds
  <2>2. CASE S = {}
    BY <2>1, <2>2
  <2>3. CASE S # {}
    <3>1. Holds(h, S \ {c[S]}, g[S \ {c[S]}])
      BY <1>1, <2>3
    <3> QED  BY <2>1, <2>3, <3>1
  <2> QED  BY <2>2, <2>3
<1>2. Z = SUBSET D
  <2> HIDE DEF Z
  <2>1. Z \in SUBSET SUBSET D
    BY DEF Z
  <2> QED  BY <1>1, <2>1, SubsetInduction
<1> QED  BY <1>2

(* A finite set of integers has a greatest element.                        *)
LEMMA MaxInSet ==
    ASSUME NEW S, S \subseteq Int, IsFiniteSet(S), S # {}
    PROVE  Max(S) \in S /\ \A y \in S : Max(S) >= y
<1> DEFINE HasMax(T) == \E x \in T : \A y \in T : x >= y
           NoMax == {T \in SUBSET S : T # {} /\ ~HasMax(T)}
<1>1. SUFFICES HasMax(S)
  BY <1>1 DEF Max
<1>2. SUFFICES ASSUME NoMax # {}
               PROVE  FALSE
  OBVIOUS
<1>3. NoMax \subseteq FiniteSubsetsOf(S)
  BY FS_FiniteSubsetsOfFinite
<1>4. PICK T \in NoMax : \A U \in NoMax : <<U, T>> \notin StrictSubsetOrdering(S)
  BY <1>2, <1>3, FS_StrictSubsetOrderingWellFounded, WFMin
<1>5. PICK x \in T : TRUE
  OBVIOUS
<1>6. T \ {x} \notin NoMax
  BY <1>4, <1>5 DEF StrictSubsetOrdering
<1>7. CASE T \ {x} = {}
  BY <1>5, <1>7
<1>8. CASE HasMax(T \ {x})
  <2>1. PICK m \in T \ {x} : \A y \in T \ {x} : m >= y
    BY <1>8
  <2>2. m \in Int /\ x \in Int /\ T \subseteq Int
    OBVIOUS
  <2>3. \A y \in T : y = x \/ m >= y
    BY <2>1
  <2>4. (\A y \in T : x >= y) \/ (\A y \in T : m >= y)
    BY <2>2, <2>3
  <2> QED
    BY <2>1, <2>4, <1>5
<1> QED
  BY <1>6, <1>7, <1>8

(* A finite set of integers has a least element.                           *)
LEMMA MinInSet ==
    ASSUME NEW S, S \subseteq Int, IsFiniteSet(S), S # {}
    PROVE  Min(S) \in S
<1> DEFINE HasMin(T) == \E x \in T : \A y \in T : x <= y
           NoMin == {T \in SUBSET S : T # {} /\ ~HasMin(T)}
<1>1. SUFFICES HasMin(S)
  BY <1>1 DEF Min
<1>2. SUFFICES ASSUME NoMin # {}
               PROVE  FALSE
  OBVIOUS
<1>3. NoMin \subseteq FiniteSubsetsOf(S)
  BY FS_FiniteSubsetsOfFinite
<1>4. PICK T \in NoMin : \A U \in NoMin : <<U, T>> \notin StrictSubsetOrdering(S)
  BY <1>2, <1>3, FS_StrictSubsetOrderingWellFounded, WFMin
<1>5. PICK x \in T : TRUE
  OBVIOUS
<1>6. T \ {x} \notin NoMin
  BY <1>4, <1>5 DEF StrictSubsetOrdering
<1>7. CASE T \ {x} = {}
  BY <1>5, <1>7
<1>8. CASE HasMin(T \ {x})
  <2>1. PICK m \in T \ {x} : \A y \in T \ {x} : m <= y
    BY <1>8
  <2>2. m \in Int /\ x \in Int /\ T \subseteq Int
    OBVIOUS
  <2>3. \A y \in T : y = x \/ m <= y
    BY <2>1
  <2>4. (\A y \in T : x <= y) \/ (\A y \in T : m <= y)
    BY <2>2, <2>3
  <2> QED
    BY <2>1, <2>4, <1>5
<1> QED
  BY <1>6, <1>7, <1>8

(* FoldLeft takes the last index of a set of indices, FoldRight the first, *)
(* and FoldSet any element.                                                *)
LeftFolds(F, base, D, g) ==
    g = [S \in SUBSET D |-> IF S = {} THEN base ELSE Apply(F, Max(S), g[S \ {Max(S)}])]

(* FoldLeft exists, and keeps what its steps preserve.                     *)
LEMMA FoldedLeft ==
    ASSUME NEW D, D \subseteq Int, IsFiniteSet(D), NEW F, NEW h, NEW base, Holds(h, {}, base),
           \A S \in SUBSET D : S # {} => \A a : Holds(h, S \ {Max(S)}, a) => Holds(h, S, Apply(F, Max(S), a))
    PROVE  /\ \E g : LeftFolds(F, base, D, g)
           /\ \A g : LeftFolds(F, base, D, g) => Holds(h, D, g[D])
<1> DEFINE c == [S \in SUBSET D |-> Max(S)]
<1>1. \A S \in SUBSET D : S # {} => c[S] \in S
  BY MaxInSet, FS_Subset
<1>2. ASSUME NEW g
      PROVE  LeftFolds(F, base, D, g) <=> Folds(F, c, base, D, g)
  BY DEF Folds, LeftFolds
<1>3. \A S \in SUBSET D : S # {} => \A a : Holds(h, S \ {c[S]}, a) => Holds(h, S, Apply(F, c[S], a))
  OBVIOUS
<1> HIDE DEF c
<1>4. \E g : Folds(F, c, base, D, g)
  BY <1>1, FoldExists
<1>5. \A g : Folds(F, c, base, D, g) => Holds(h, D, g[D])
  BY <1>1, <1>3, FoldHolds
<1> QED  BY <1>2, <1>4, <1>5

(* g is the function that FoldRight chooses.                               *)
RightFolds(F, base, D, g) ==
    g = [S \in SUBSET D |-> IF S = {} THEN base ELSE Apply(F, Min(S), g[S \ {Min(S)}])]

(* FoldRight exists, and keeps what its steps preserve.                    *)
LEMMA FoldedRight ==
    ASSUME NEW D, D \subseteq Int, IsFiniteSet(D), NEW F, NEW h, NEW base, Holds(h, {}, base),
           \A S \in SUBSET D : S # {} => \A a : Holds(h, S \ {Min(S)}, a) => Holds(h, S, Apply(F, Min(S), a))
    PROVE  /\ \E g : RightFolds(F, base, D, g)
           /\ \A g : RightFolds(F, base, D, g) => Holds(h, D, g[D])
<1> DEFINE c == [S \in SUBSET D |-> Min(S)]
<1>1. \A S \in SUBSET D : S # {} => c[S] \in S
  BY MinInSet, FS_Subset
<1>2. ASSUME NEW g
      PROVE  RightFolds(F, base, D, g) <=> Folds(F, c, base, D, g)
  BY DEF Folds, RightFolds
<1>3. \A S \in SUBSET D : S # {} => \A a : Holds(h, S \ {c[S]}, a) => Holds(h, S, Apply(F, c[S], a))
  OBVIOUS
<1> HIDE DEF c
<1>4. \E g : Folds(F, c, base, D, g)
  BY <1>1, FoldExists
<1>5. \A g : Folds(F, c, base, D, g) => Holds(h, D, g[D])
  BY <1>1, <1>3, FoldHolds
<1> QED  BY <1>2, <1>4, <1>5

(* g is the function that FoldSet chooses.                                 *)
SetFolds(F, base, D, g) ==
    g = [S \in SUBSET D |-> IF S = {} THEN base ELSE Apply(F, (CHOOSE x \in S : TRUE), g[S \ {CHOOSE x \in S : TRUE}])]

(* FoldSet exists, and keeps what its steps preserve.                      *)
LEMMA FoldedSet ==
    ASSUME NEW D, IsFiniteSet(D), NEW F, NEW h, NEW base, Holds(h, {}, base),
           \A S \in SUBSET D : \A x \in S : \A a : Holds(h, S \ {x}, a) => Holds(h, S, Apply(F, x, a))
    PROVE  /\ \E g : SetFolds(F, base, D, g)
           /\ \A g : SetFolds(F, base, D, g) => Holds(h, D, g[D])
<1> DEFINE c == [S \in SUBSET D |-> CHOOSE x \in S : TRUE]
<1>1. \A S \in SUBSET D : S # {} => c[S] \in S
  OBVIOUS
<1>2. ASSUME NEW g
      PROVE  SetFolds(F, base, D, g) <=> Folds(F, c, base, D, g)
  BY DEF Folds, SetFolds
<1>3. \A S \in SUBSET D : S # {} => \A a : Holds(h, S \ {c[S]}, a) => Holds(h, S, Apply(F, c[S], a))
  BY <1>1
<1> HIDE DEF c
<1>4. \E g : Folds(F, c, base, D, g)
  BY <1>1, FoldExists
<1>5. \A g : Folds(F, c, base, D, g) => Holds(h, D, g[D])
  BY <1>1, <1>3, FoldHolds
<1> QED  BY <1>2, <1>4, <1>5

-----------------------------------------------------------------------------
(* The loops over the segments of an answer and of a navigation            *)

(* One segment of a dynamic response is written.                           *)
LEMMA WriteStep ==
    ASSUME NEW s, NEW R, NEW q, q.entries \in Entries, NEW tree \in Seq(Segments),
           \A i, j \in DOMAIN tree : tree[i] = tree[j] => i = j,
           s.route[q.route].stale \in BOOLEAN,
           \A p, p2 \in DOMAIN q.entries : q.entries[p] = q.entries[p2] => p = p2,
           \A e \in Range(q.entries) : Settles(R, e) /\ e \in DOMAIN s.segment,
           NEW f, f = [op |-> "write", s |-> s, R |-> R, q |-> q, seq |-> tree],
           NEW S \in SUBSET DOMAIN tree, NEW x \in S, NEW a, WriteHolds(f, S \ {x}, a)
    PROVE  WriteHolds(f, S, writeIfRendered(a, q, tree[x]))
<1> DEFINE path == tree[x]
           r == writeSeedDataIntoCache(a, q, path)
           e == IF path \in DOMAIN q.entries THEN q.entries[path] ELSE 0
<1>1. f.s = s /\ f.R = R /\ f.q = q /\ f.seq = tree
  OBVIOUS
<1>2. /\ Seg(a, R, Range(q.entries)) /\ Steady(s, a, Nat)
      /\ \A p \in DOMAIN q.entries :
          \/ a.segment[q.entries[p]].status = "pending"
          \/ /\ a.segment[q.entries[p]].status = "fulfilled" /\ ~a.segment[q.entries[p]].stale
             /\ \E i \in S \ {x} : tree[i] = p
  BY <1>1 DEF WriteHolds
<1>3. writeIfRendered(a, q, path) \in {a, r}
  BY DEF writeIfRendered
<1>4. WriteHolds(f, S, a)
  BY <1>1, <1>2 DEF WriteHolds
<1>5. \A p \in DOMAIN q.entries : q.entries[p] \in Range(q.entries) /\ q.entries[p] \in DOMAIN s.segment
  BY DEF Range
<1>6. path \in Segments /\ a.route[q.route].stale \in BOOLEAN /\ DOMAIN s.segment \subseteq DOMAIN a.segment
  BY <1>2 DEF Steady, SegmentsOnly
<1>7. path \in DOMAIN q.entries => /\ q.entries[path] \in DOMAIN a.segment /\ Settles(R, q.entries[path])
                                   /\ a.segment[q.entries[path]].status = "pending"
  BY <1>2, <1>5, <1>6
<1> HIDE DEF path
<1>8. /\ Seg(r, R, Range(q.entries)) /\ Written(a, r, e)
      /\ path \in DOMAIN q.entries => \/ r.segment[e].status = "pending"
                                      \/ r.segment[e].status = "fulfilled" /\ ~r.segment[e].stale
  BY <1>2, <1>6, <1>7, WriteSeg
<1> HIDE DEF r
<1>9. Steady(s, r, Nat)
  BY <1>2, <1>8, SteadyTrans DEF Written
<1>10. ASSUME NEW p \in DOMAIN q.entries
       PROVE  \/ r.segment[q.entries[p]].status = "pending"
              \/ /\ r.segment[q.entries[p]].status = "fulfilled" /\ ~r.segment[q.entries[p]].stale
                 /\ \E i \in S : tree[i] = p
  <2>1. CASE p = path
    BY <1>8, <2>1 DEF path
  <2>2. CASE p # path
    <3>1. q.entries[p] # e /\ q.entries[p] \in DOMAIN a.segment
      <4>1. q.entries[p] # 0
        BY <1>2, <1>5, <1>6 DEF Seg, SegmentTypes
      <4> QED  BY <1>5, <1>6, <2>2, <4>1
    <3>2. /\ r.segment[q.entries[p]].status = a.segment[q.entries[p]].status
          /\ r.segment[q.entries[p]].stale = a.segment[q.entries[p]].stale
      BY <1>2, <1>8, <3>1 DEF Written
    <3> QED  BY <1>2, <3>2
  <2> QED  BY <2>1, <2>2
<1>11. WriteHolds(f, S, r)
  BY <1>1, <1>8, <1>9, <1>10 DEF WriteHolds
<1> QED  BY <1>3, <1>4, <1>11 DEF path

(* writeDynamicRenderResponseIntoCache: what is written is fulfilled and   *)
(* fresh, the rest still pending.                                          *)
LEMMA WriteFold ==
    ASSUME NEW q, NEW R, q.entries \in Entries, Seg(state, R, Range(q.entries)),
           state.task[q.task].href \in Hrefs, state.route[q.route].stale \in BOOLEAN,
           \A p, p2 \in DOMAIN q.entries : q.entries[p] = q.entries[p2] => p = p2,
           \A e \in Range(q.entries) : /\ Settles(R, e) /\ e \in DOMAIN state.segment
                                       /\ state.segment[e].status = "pending",
           NEW f, f = [op |-> "write", s |-> state, R |-> R, q |-> q, seq |-> Tree[state.task[q.task].href]]
    PROVE  WriteHolds(f, DOMAIN f.seq, writeDynamicRenderResponseIntoCache(q))
<1> DEFINE tree == Tree[state.task[q.task].href]
<1>1. /\ f.s = state /\ f.R = R /\ f.q = q /\ f.seq = tree /\ f.op = "write"
      /\ tree \in Seq(Segments) /\ \A i, j \in DOMAIN tree : tree[i] = tree[j] => i = j
  BY TreeAssumption
<1> HIDE DEF tree
<1>2. DOMAIN tree \subseteq Int /\ IsFiniteSet(DOMAIN tree)
  BY <1>1, FS_Interval
<1>3. WriteHolds(f, {}, state)
  <2>1. SegmentTypes(state)
    BY DEF Seg
  <2>2. Steady(state, state, Nat)
    BY <2>1 DEF Steady, SegmentsOnly, SegmentTypes
  <2> QED  BY <1>1, <2>2 DEF WriteHolds, Range
<1>4. ASSUME NEW S \in SUBSET DOMAIN tree, S # {}, NEW a, Holds(f, S \ {Max(S)}, a)
      PROVE  Holds(f, S, Apply(f, Max(S), a))
  <2>1. Max(S) \in S
    BY <1>2, <1>4, MaxInSet, FS_Subset
  <2>2. WriteHolds(f, S \ {Max(S)}, a)
    BY <1>1, <1>4 DEF Holds
  <2>3. Apply(f, Max(S), a) = writeIfRendered(a, q, tree[Max(S)])
    BY <1>1 DEF Apply
  <2>4. WriteHolds(f, S, writeIfRendered(a, q, tree[Max(S)]))
    BY <1>1, <2>1, <2>2, WriteStep DEF tree
  <2> QED  BY <1>1, <2>3, <2>4 DEF Holds
<1> DEFINE P(g) == g = [S \in SUBSET DOMAIN tree |->
                          IF S = {} THEN state ELSE writeIfRendered(g[S \ {Max(S)}], q, tree[Max(S)])]
<1>5. \A x, a : Apply(f, x, a) = writeIfRendered(a, q, tree[x])
  BY <1>1 DEF Apply
<1>6. ASSUME NEW g PROVE P(g) <=> LeftFolds(f, state, DOMAIN tree, g)
  <2>1. [S \in SUBSET DOMAIN tree |->
            IF S = {} THEN state ELSE writeIfRendered(g[S \ {Max(S)}], q, tree[Max(S)])]
          = [S \in SUBSET DOMAIN tree |-> IF S = {} THEN state ELSE Apply(f, Max(S), g[S \ {Max(S)}])]
    BY <1>5
  <2> QED  BY <2>1 DEF LeftFolds
<1>7. /\ \E g : LeftFolds(f, state, DOMAIN tree, g)
      /\ \A g : LeftFolds(f, state, DOMAIN tree, g) => Holds(f, DOMAIN tree, g[DOMAIN tree])
  <2>1. Holds(f, {}, state)
    BY <1>1, <1>3 DEF Holds
  <2>2. \A S \in SUBSET DOMAIN tree : S # {} =>
            \A a : Holds(f, S \ {Max(S)}, a) => Holds(f, S, Apply(f, Max(S), a))
    BY <1>4
  <2> QED  BY <1>2, <2>1, <2>2, FoldedLeft
<1>8. writeDynamicRenderResponseIntoCache(q) = (CHOOSE g : P(g))[DOMAIN tree]
  BY DEF writeDynamicRenderResponseIntoCache, FoldLeft, MapThenFoldSet, tree
<1> HIDE DEF P
<1>9. Holds(f, DOMAIN tree, writeDynamicRenderResponseIntoCache(q))
  BY <1>6, <1>7, <1>8
<1> QED  BY <1>1, <1>9 DEF Holds

(* Doing nothing is steady.                                                *)
LEMMA SteadyRefl ==
    ASSUME NEW s, NEW R, NEW sp, Seg(s, R, sp), NEW W PROVE Steady(s, s, W)
BY DEF Steady, SegmentsOnly, Seg, SegmentTypes

(* A request is for finitely many entries.                                 *)
LEMMA EntriesFinite ==
    ASSUME NEW entries \in Entries PROVE IsFiniteSet(Range(entries)) /\ Range(entries) \subseteq Nat
<1>1. PICK P \in SUBSET Segments : IsFiniteSet(P) /\ entries \in [P -> Nat]
  BY DEF Entries
<1>2. Range(entries) = {entries[p] : p \in P}
  BY <1>1 DEF Range
<1>3. entries \in Surjection(P, Range(entries))
  BY <1>1, <1>2 DEF Surjection
<1> QED  BY <1>1, <1>2, <1>3, FS_Surjection

(* One entry is rejected if it is still pending.                           *)
LEMMA RejectStep ==
    ASSUME NEW f, NEW S, NEW e \in Range(f.q.entries), NEW a, RejectHolds(f, S \ {e}, a),
           \A d \in Range(f.q.entries) : Settles(f.R, d) /\ d \in DOMAIN f.s.segment
    PROVE  RejectHolds(f, S, rejectIfStillPending(e, a))
<1> DEFINE r == rejectIfStillPending(e, a)
           E == Range(f.q.entries)
<1>1. /\ Seg(a, f.R, E) /\ Steady(f.s, a, Nat) /\ a.faults = f.s.faults
      /\ \A d \in E : LET x == a.segment[d] IN
          \/ x.status = "pending" /\ d \notin S \ {e}
          \/ x.status = "rejected"
          \/ x.status = "fulfilled" /\ ~x.stale
  BY DEF RejectHolds
<1>2. CASE a.segment[e].status # "pending"
  <2>1. r = a
    BY <1>2 DEF rejectIfStillPending
  <2> QED  BY <1>1, <1>2, <2>1 DEF RejectHolds
<1>3. CASE a.segment[e].status = "pending"
  <2>1. r = rejectSegmentCacheEntry(a, e)
    BY <1>3 DEF rejectIfStillPending
  <2>2. e \in DOMAIN a.segment /\ Settles(f.R, e) /\ SegmentTypes(a)
    BY <1>1 DEF Steady, Seg
  <2>3. a.segment[e].isPartial
    BY <1>1, <1>3, <2>2 DEF Seg, EntryOK
  <2> HIDE DEF r, E
  <2>4. Seg(r, f.R, E) /\ Settled(a, r, e, "rejected")
    BY <1>1, <2>1, <2>2, RejectSeg
  <2>5. Steady(a, r, {e}) /\ r.faults = a.faults /\ r.segment[e].status = "rejected"
    BY <2>3, <2>4 DEF Settled
  <2>6. Steady(a, r, Nat)
    <3>1. {e} \subseteq Nat
      BY <2>2 DEF SegmentTypes
    <3> QED  BY <2>5, <3>1, SteadyMono
  <2>7. Steady(f.s, r, Nat)
    BY <1>1, <2>6, SteadyTrans
  <2>8. \A d \in E : d # e => /\ r.segment[d].status = a.segment[d].status
                              /\ r.segment[d].stale = a.segment[d].stale
    BY <1>1, <2>5 DEF Steady, E
  <2>9. \A d \in E : LET x == r.segment[d] IN
          \/ x.status = "pending" /\ d \notin S
          \/ x.status = "rejected"
          \/ x.status = "fulfilled" /\ ~x.stale
    BY <1>1, <2>5, <2>8
  <2> QED  BY <1>1, <2>4, <2>5, <2>7, <2>9 DEF RejectHolds, r, E
<1> QED  BY <1>2, <1>3

(* rejectSegmentEntriesIfStillPending: every entry of the request is       *)
(* settled.                                                                *)
LEMMA RejectFold ==
    ASSUME NEW s, NEW R, NEW q, q.entries \in Entries, Seg(s, R, Range(q.entries)),
           \A e \in Range(q.entries) : Settles(R, e) /\ e \in DOMAIN s.segment,
           \A e \in Range(q.entries) : \/ s.segment[e].status \in {"pending", "rejected"}
                                       \/ s.segment[e].status = "fulfilled" /\ ~s.segment[e].stale,
           NEW f, f = [op |-> "reject", s |-> s, R |-> R, q |-> q]
    PROVE  RejectHolds(f, Range(q.entries), rejectSegmentEntriesIfStillPending(s, q.entries))
<1> DEFINE E == Range(q.entries)
<1>1. f.s = s /\ f.R = R /\ f.q = q /\ f.op = "reject"
  OBVIOUS
<1>2. RejectHolds(f, {}, s)
  BY <1>1, SteadyRefl DEF RejectHolds
<1>3. \A x, a : Apply(f, x, a) = rejectIfStillPending(x, a)
  BY <1>1 DEF Apply
<1>4. \A S, a : Holds(f, S, a) <=> RejectHolds(f, S, a)
  BY <1>1 DEF Holds
<1>5. \A S \in SUBSET E : \A x \in S : \A a : Holds(f, S \ {x}, a) => Holds(f, S, Apply(f, x, a))
  BY <1>1, <1>3, <1>4, RejectStep
<1> DEFINE P(g) == g = [S \in SUBSET E |->
                          IF S = {} THEN s
                          ELSE rejectIfStillPending(CHOOSE x \in S : TRUE, g[S \ {CHOOSE x \in S : TRUE}])]
<1>6. ASSUME NEW g PROVE P(g) <=> SetFolds(f, s, E, g)
  <2>1. [S \in SUBSET E |->
            IF S = {} THEN s
            ELSE rejectIfStillPending(CHOOSE x \in S : TRUE, g[S \ {CHOOSE x \in S : TRUE}])]
        = [S \in SUBSET E |->
            IF S = {} THEN s ELSE Apply(f, (CHOOSE x \in S : TRUE), g[S \ {CHOOSE x \in S : TRUE}])]
    BY <1>3
  <2> QED  BY <2>1 DEF SetFolds
<1>7. /\ \E g : SetFolds(f, s, E, g)
      /\ \A g : SetFolds(f, s, E, g) => Holds(f, E, g[E])
  <2>1. IsFiniteSet(E) /\ Holds(f, {}, s)
    BY <1>2, <1>4, EntriesFinite
  <2> HIDE DEF E
  <2> QED  BY <1>5, <2>1, FoldedSet
<1>8. rejectSegmentEntriesIfStillPending(s, q.entries) = (CHOOSE g : P(g))[E]
  BY DEF rejectSegmentEntriesIfStillPending, FoldSet, MapThenFoldSet
<1> HIDE DEF P, E
<1>9. Holds(f, E, rejectSegmentEntriesIfStillPending(s, q.entries))
  BY <1>6, <1>7, <1>8
<1> QED  BY <1>4, <1>9 DEF E

(* One fulfilled entry completes.                                          *)
LEMMA UpsertStep ==
    ASSUME NEW f, NEW S, NEW e \in Range(f.q.entries), NEW a, UpsertHolds(f, S \ {e}, a),
           \A d \in Range(f.q.entries) : d \in DOMAIN f.s.segment
    PROVE  UpsertHolds(f, S, upsertIfFulfilled(e, a))
<1> DEFINE r == upsertIfFulfilled(e, a)
           E == Range(f.q.entries)
           k == a.segment[e].upsert
<1>1. /\ Seg(a, f.R, E) /\ Steady(f.s, a, Nat)
      /\ \A d \in E : LET x == a.segment[d] IN
          \/ x.status = "rejected"
          \/ x.status = "fulfilled" /\ ~x.stale
  BY DEF UpsertHolds
<1>2. CASE a.segment[e].status # "fulfilled"
  <2>1. r = a
    BY <1>2 DEF upsertIfFulfilled
  <2> QED  BY <1>1, <1>2, <2>1 DEF UpsertHolds
<1>3. CASE a.segment[e].status = "fulfilled"
  <2>1. r = upsertSegmentOnCompletion(a, e, k)
    BY <1>3 DEF upsertIfFulfilled
  <2>2. e \in DOMAIN a.segment /\ SegmentTypes(a)
    BY <1>1 DEF Steady, Seg
  <2>3. k \in Upserts
    <3>1. a.segment[e] \in SegmentEntry
      BY <2>2 DEF SegmentTypes
    <3> QED  BY <3>1 DEF SegmentEntry
  <2>4. k # NoUpsert => unmapped(a, e)
    BY <1>1, <2>2 DEF Seg, EntryOK
  <2> HIDE DEF r, E, k
  <2>5. Seg(r, f.R, E) /\ Completed(a, r, e) /\ r.segment[e].status \in {"fulfilled", "rejected"}
    BY <1>1, <1>3, <2>1, <2>2, <2>3, <2>4, CompletionSeg
  <2>6. ~a.segment[e].stale /\ ~r.segment[e].stale
    BY <1>1, <1>3, <2>2, <2>5 DEF E, Completed
  <2>7. Steady(a, r, Nat)
    <3>1. \A j \in SegmentKeys : Full(a, j) => Full(r, j)
      <4>1. e # 0
        BY <2>2 DEF SegmentTypes
      <4> QED  BY <2>5, <2>6, <4>1 DEF Completed, Full
    <3> QED  BY <2>2, <2>5, <3>1 DEF Completed, Steady, SegmentTypes
  <2>8. Steady(f.s, r, Nat)
    BY <1>1, <2>7, SteadyTrans
  <2>9. \A d \in E : LET x == r.segment[d] IN
          \/ x.status = "rejected"
          \/ x.status = "fulfilled" /\ ~x.stale
    <3>1. \A d \in E : d \in DOMAIN a.segment
      BY <1>1 DEF Steady, E
    <3> QED  BY <1>1, <2>5, <2>6, <3>1 DEF Completed
  <2> QED  BY <2>5, <2>8, <2>9 DEF UpsertHolds, r, E
<1> QED  BY <1>2, <1>3

(* The callbacks of the fulfilled entries leave all of them settled.       *)
LEMMA UpsertFold ==
    ASSUME NEW s, NEW R, NEW q, q.entries \in Entries, Seg(s, R, Range(q.entries)),
           \A e \in Range(q.entries) : e \in DOMAIN s.segment,
           \A e \in Range(q.entries) : \/ s.segment[e].status = "rejected"
                                       \/ s.segment[e].status = "fulfilled" /\ ~s.segment[e].stale,
           NEW f, f = [op |-> "upsert", s |-> s, R |-> R, q |-> q]
    PROVE  UpsertHolds(f, Range(q.entries), FoldSet(upsertIfFulfilled, s, Range(q.entries)))
<1> DEFINE E == Range(q.entries)
<1>1. f.s = s /\ f.R = R /\ f.q = q /\ f.op = "upsert"
  OBVIOUS
<1>2. UpsertHolds(f, {}, s)
  BY <1>1, SteadyRefl DEF UpsertHolds
<1>3. \A x, a : Apply(f, x, a) = upsertIfFulfilled(x, a)
  BY <1>1 DEF Apply
<1>4. \A S, a : Holds(f, S, a) <=> UpsertHolds(f, S, a)
  BY <1>1 DEF Holds
<1>5. \A S \in SUBSET E : \A x \in S : \A a : Holds(f, S \ {x}, a) => Holds(f, S, Apply(f, x, a))
  BY <1>1, <1>3, <1>4, UpsertStep
<1> DEFINE P(g) == g = [S \in SUBSET E |->
                          IF S = {} THEN s
                          ELSE upsertIfFulfilled(CHOOSE x \in S : TRUE, g[S \ {CHOOSE x \in S : TRUE}])]
<1>6. ASSUME NEW g PROVE P(g) <=> SetFolds(f, s, E, g)
  <2>1. [S \in SUBSET E |->
            IF S = {} THEN s
            ELSE upsertIfFulfilled(CHOOSE x \in S : TRUE, g[S \ {CHOOSE x \in S : TRUE}])]
        = [S \in SUBSET E |->
            IF S = {} THEN s ELSE Apply(f, (CHOOSE x \in S : TRUE), g[S \ {CHOOSE x \in S : TRUE}])]
    BY <1>3
  <2> QED  BY <2>1 DEF SetFolds
<1>7. /\ \E g : SetFolds(f, s, E, g)
      /\ \A g : SetFolds(f, s, E, g) => Holds(f, E, g[E])
  <2>1. IsFiniteSet(E) /\ Holds(f, {}, s)
    BY <1>2, <1>4, EntriesFinite
  <2> HIDE DEF E
  <2> QED  BY <1>5, <2>1, FoldedSet
<1>8. FoldSet(upsertIfFulfilled, s, Range(q.entries)) = (CHOOSE g : P(g))[E]
  BY DEF FoldSet, MapThenFoldSet
<1> HIDE DEF P, E
<1>9. Holds(f, E, FoldSet(upsertIfFulfilled, s, Range(q.entries)))
  BY <1>6, <1>7, <1>8 DEF E
<1> QED  BY <1>4, <1>9 DEF E

(* A navigation reads a segment under either of its keypaths.              *)
LEMMA ReadSegmentSeg ==
    ASSUME NEW s, NEW R, NEW sp, Seg(s, R, sp), NEW path \in Segments, ~s.thrown
    PROVE  LET r == readSegmentCacheEntry(s, path)
           IN  Seg(r, R, sp) /\ Steady(s, r, Nat) /\ r.got \in {0} \cup DOMAIN r.segment
<1> DEFINE v == IF path \in Pages THEN readExactSegmentCacheEntry(s, <<path, TRUE>>) ELSE [s EXCEPT !.got = 0]
           r == readSegmentCacheEntry(s, path)
<1>1. SegmentTypes(s) /\ <<path, TRUE>> \in SegmentKeys /\ <<path, FALSE>> \in SegmentKeys
  BY DEF Seg, SegmentKeys
<1>2. Seg(v, R, sp) /\ Steady(s, v, Nat) /\ v.got \in {0} \cup DOMAIN v.segment
  <2>1. CASE path \in Pages
    <3> DEFINE w == readExactSegmentCacheEntry(s, <<path, TRUE>>)
    <3>1. Seg(w, R, sp) /\ Reads(s, w, {}) /\ w.got \in {0} \cup DOMAIN w.segment
      BY <1>1, ReadExact
    <3> HIDE DEF w
    <3>2. Steady(s, w, Nat)
      BY <1>1, <3>1, ReadsSteady
    <3>3. v = w
      BY <2>1 DEF w
    <3> QED  BY <3>1, <3>2, <3>3
  <2>2. CASE path \notin Pages
    <3> DEFINE w == [s EXCEPT !.got = 0]
    <3>1. /\ DOMAIN w = Fields /\ w.segment = s.segment /\ w.segmentMap = s.segmentMap
          /\ w.segmentLru = s.segmentLru /\ w.got = 0 /\ w.thrown = s.thrown /\ w.faults = s.faults
          /\ SegmentsOnly(s, w)
      BY <1>1 DEF SegmentTypes, Fields, SegmentsOnly
    <3> HIDE DEF w
    <3>2. s.thrown \in BOOLEAN
      BY <1>1 DEF SegmentTypes
    <3>3. Seg(w, R, sp)
      <4>1. /\ w.got \in Nat /\ w.thrown \in BOOLEAN /\ s.faults \subseteq w.faults
            /\ (w.thrown => "recursion" \in w.faults)
        BY <3>1, <3>2
      <4> QED  BY <3>1, <4>1, SegFrame
    <3>4. Steady(s, w, Nat)
      BY <3>1 DEF Steady, Full
    <3>5. v = w
      BY <2>2 DEF w
    <3> QED  BY <3>1, <3>3, <3>4, <3>5
  <2> QED  BY <2>1, <2>2
<1>3. r = IF v.thrown \/ v.got # 0 THEN v ELSE readExactSegmentCacheEntry(v, <<path, FALSE>>)
  BY DEF readSegmentCacheEntry
<1> HIDE DEF v
<1>4. CASE v.thrown \/ v.got # 0
  BY <1>2, <1>3, <1>4
<1>5. CASE ~(v.thrown \/ v.got # 0)
  <2> DEFINE w == readExactSegmentCacheEntry(v, <<path, FALSE>>)
  <2>1. Seg(w, R, sp) /\ Reads(v, w, {}) /\ w.got \in {0} \cup DOMAIN w.segment
    BY <1>1, <1>2, ReadExact
  <2>2. r = w
    BY <1>3, <1>5
  <2> HIDE DEF w
  <2>3. SegmentTypes(v)
    BY <1>2 DEF Seg
  <2>4. Steady(v, w, Nat)
    BY <2>1, <2>3, ReadsSteady
  <2>5. Steady(s, w, Nat)
    BY <1>2, <2>4, SteadyTrans
  <2> QED  BY <2>1, <2>2, <2>5 DEF r
<1> QED  BY <1>4, <1>5

(* The navigation becomes a listener of a pending entry.                   *)
LEMMA ListenedSeg ==
    ASSUME NEW s, NEW R, NEW sp, Seg(s, R, sp), NEW e \in DOMAIN s.segment, s.segment[e].status = "pending",
           NEW r, NEW x \in SegmentEntry, Wrote(s, r, e, x), x.upsert = s.segment[e].upsert,
           x.status = "pending", x.isPartial = s.segment[e].isPartial, x.stale = s.segment[e].stale,
           x.keypath = s.segment[e].keypath, x.revalidating = s.segment[e].revalidating
    PROVE  Seg(r, R, sp) /\ Steady(s, r, Nat)
<1> DEFINE sp2 == sp \cup {e}
<1>1. SegmentTypes(s) /\ EntryOK(s, e)
  BY DEF Seg
<1>2. s.segment[e].isPartial
  BY <1>1 DEF EntryOK
<1>3. Seg(s, R, sp2)
  BY DEF Seg, Fetched
<1>4. /\ x.keypath = s.segment[e].keypath /\ x.revalidating = s.segment[e].revalidating
      /\ x.upsert \in {s.segment[e].upsert, NoUpsert} /\ x.status # "empty"
      /\ (x.waited => x.status = "pending") /\ (x.status = "pending" => e \in sp2)
      /\ (~x.isPartial => x.status \in {"fulfilled", "rejected"})
      /\ (x.status # "pending" => \A q \in R : q.kind # "route" /\ ~q.open => e \notin Range(q.entries))
  BY <1>2
<1> HIDE DEF sp2
<1>5. /\ Seg(r, R, sp2) /\ DOMAIN r.segment = DOMAIN s.segment /\ r.segment[e] = x
      /\ \A d \in DOMAIN s.segment : d # e => r.segment[d] = s.segment[d]
  BY <1>3, <1>4, WroteSeg
<1>6. Fetched(r, R, sp)
  BY <1>5 DEF Seg, Fetched, Wrote
<1>7. Steady(s, r, {e})
  BY <1>2, WroteSteady
<1>8. {e} \subseteq Nat
  BY <1>1 DEF SegmentTypes
<1>9. Steady(s, r, Nat)
  BY <1>7, <1>8, SteadyMono
<1> QED  BY <1>5, <1>6, <1>9 DEF Seg

(* A navigation waits for a pending entry only.                            *)
LEMMA WaitedSeg ==
    ASSUME NEW s, NEW R, NEW sp, Seg(s, R, sp), NEW e \in DOMAIN s.segment, s.segment[e].status = "pending"
    PROVE  LET r == [s EXCEPT !.segment[e].waited = TRUE] IN Seg(r, R, sp) /\ Steady(s, r, Nat)
<1> DEFINE x == [s.segment[e] EXCEPT !.waited = TRUE]
           r == [s EXCEPT !.segment[e].waited = TRUE]
<1>1. SegmentTypes(s) /\ DOMAIN s = Fields /\ s.segment[e] \in SegmentEntry
  BY DEF Seg, SegmentTypes
<1>2. /\ x \in SegmentEntry /\ x.upsert = s.segment[e].upsert
      /\ x.status = "pending" /\ x.isPartial = s.segment[e].isPartial /\ x.stale = s.segment[e].stale
      /\ x.keypath = s.segment[e].keypath /\ x.revalidating = s.segment[e].revalidating
  BY <1>1 DEF SegmentEntry
<1>3. r.segment = [s.segment EXCEPT ![e] = x]
  BY <1>1 DEF Fields
<1> HIDE DEF x
<1>4. Wrote(s, r, e, x)
  BY <1>1, <1>3 DEF Wrote, SegmentsOnly, Fields
<1> HIDE DEF r
<1>5. Seg(r, R, sp) /\ Steady(s, r, Nat)
  BY <1>2, <1>4, ListenedSeg
<1> QED  BY <1>5 DEF r

(* A navigation reads one segment and may wait for it.                     *)
LEMMA WaitSeg ==
    ASSUME NEW s, NEW R, NEW sp, Seg(s, R, sp), NEW path \in Segments
    PROVE  LET r == waitForSegment(path, s) IN Seg(r, R, sp) /\ Steady(s, r, Nat)
<1> DEFINE r == waitForSegment(path, s)
           x == readSegmentCacheEntry(s, path)
<1>1. CASE s.thrown
  <2>1. r = s
    BY <1>1 DEF waitForSegment
  <2> QED  BY <2>1, SteadyRefl
<1>2. CASE ~s.thrown
  <2>1. Seg(x, R, sp) /\ Steady(s, x, Nat) /\ x.got \in {0} \cup DOMAIN x.segment
    BY <1>2, ReadSegmentSeg
  <2>2. r = IF ~x.thrown /\ x.got # 0 /\ x.segment[x.got].status = "pending"
              THEN [x EXCEPT !.segment[x.got].waited = TRUE] ELSE x
    BY <1>2 DEF waitForSegment
  <2> HIDE DEF x, r
  <2>3. CASE ~x.thrown /\ x.got # 0 /\ x.segment[x.got].status = "pending"
    <3>1. r = [x EXCEPT !.segment[x.got].waited = TRUE] /\ x.got \in DOMAIN x.segment
      BY <2>1, <2>2, <2>3
    <3>2. Seg(r, R, sp) /\ Steady(x, r, Nat)
      BY <2>1, <2>3, <3>1, WaitedSeg, Zenon
    <3>3. Steady(s, r, Nat)
      BY <2>1, <3>2, SteadyTrans
    <3> QED  BY <3>2, <3>3 DEF r
  <2>4. CASE ~(~x.thrown /\ x.got # 0 /\ x.segment[x.got].status = "pending")
    <3>1. r = x
      BY <2>2, <2>4
    <3> QED  BY <2>1, <3>1 DEF r
  <2> QED  BY <2>3, <2>4
<1> QED  BY <1>1, <1>2

(* A navigation reads all segments of its route.                           *)
LEMMA WaitFold ==
    ASSUME NEW s, NEW R, Seg(s, R, {}), NEW tree \in Seq(Segments)
    PROVE  LET r == FoldRight(waitForSegment, tree, s) IN Seg(r, R, {}) /\ Steady(s, r, Nat)
<1> DEFINE f == [op |-> "wait", s |-> s, R |-> R, seq |-> tree]
<1>1. f.s = s /\ f.R = R /\ f.seq = tree /\ f.op = "wait"
  OBVIOUS
<1> HIDE DEF f
<1>2. DOMAIN tree \subseteq Int /\ IsFiniteSet(DOMAIN tree)
  BY FS_Interval
<1>3. \A x, a : Apply(f, x, a) = waitForSegment(tree[x], a)
  BY <1>1 DEF Apply
<1>4. \A S, a : Holds(f, S, a) <=> Seg(a, R, {}) /\ Steady(s, a, Nat)
  BY <1>1 DEF Holds, WaitHolds
<1>5. ASSUME NEW S \in SUBSET DOMAIN tree, S # {}, NEW a, Holds(f, S \ {Min(S)}, a)
      PROVE  Holds(f, S, Apply(f, Min(S), a))
  <2>1. Min(S) \in S
    BY <1>2, <1>5, MinInSet, FS_Subset
  <2>2. tree[Min(S)] \in Segments /\ Seg(a, R, {}) /\ Steady(s, a, Nat)
    BY <1>4, <1>5, <2>1
  <2> DEFINE r == waitForSegment(tree[Min(S)], a)
  <2>3. Seg(r, R, {}) /\ Steady(a, r, Nat)
    BY <2>2, WaitSeg
  <2>4. Steady(s, r, Nat)
    BY <2>2, <2>3, SteadyTrans
  <2>5. Apply(f, Min(S), a) = r
    BY <1>3
  <2> QED  BY <1>4, <2>3, <2>4, <2>5
<1> DEFINE P(g) == g = [S \in SUBSET DOMAIN tree |->
                          IF S = {} THEN s ELSE waitForSegment(tree[Min(S)], g[S \ {Min(S)}])]
<1>6. ASSUME NEW g PROVE P(g) <=> RightFolds(f, s, DOMAIN tree, g)
  <2>1. [S \in SUBSET DOMAIN tree |->
            IF S = {} THEN s ELSE waitForSegment(tree[Min(S)], g[S \ {Min(S)}])]
          = [S \in SUBSET DOMAIN tree |-> IF S = {} THEN s ELSE Apply(f, Min(S), g[S \ {Min(S)}])]
    BY <1>3
  <2> QED  BY <2>1 DEF RightFolds
<1>7. /\ \E g : RightFolds(f, s, DOMAIN tree, g)
      /\ \A g : RightFolds(f, s, DOMAIN tree, g) => Holds(f, DOMAIN tree, g[DOMAIN tree])
  <2>1. Holds(f, {}, s)
    BY <1>4, SteadyRefl
  <2>2. \A S \in SUBSET DOMAIN tree : S # {} =>
            \A a : Holds(f, S \ {Min(S)}, a) => Holds(f, S, Apply(f, Min(S), a))
    BY <1>5
  <2> QED  BY <1>2, <2>1, <2>2, FoldedRight
<1>8. FoldRight(waitForSegment, tree, s) = (CHOOSE g : P(g))[DOMAIN tree]
  BY DEF FoldRight, MapThenFoldSet
<1> HIDE DEF P
<1>9. Holds(f, DOMAIN tree, FoldRight(waitForSegment, tree, s))
  BY <1>6, <1>7, <1>8
<1> QED  BY <1>4, <1>9

-----------------------------------------------------------------------------
(* Answers to requests for segments                                        *)

(* A complete and fresh segment goes, or a complete one comes for it.      *)
FullKept(s, r) ==
    \A k \in SegmentKeys : Full(s, k) =>
        LET e == r.segmentMap[k] IN e \in {0, s.segmentMap[k]} \/ ~r.segment[e].isPartial

(* The request q is answered, or its connection is closed or breaks.       *)
Answered(s, r, q) ==
    /\ DOMAIN r = Fields
    /\ r.link = s.link /\ r.visible = s.visible /\ r.router = s.router /\ r.task = s.task
    /\ r.queue = s.queue /\ r.sortId = s.sortId /\ r.running = s.running
    /\ r.route = s.route /\ r.routeMap = s.routeMap /\ r.routeLru = s.routeLru /\ r.version = s.version
    /\ r.scheduled \in BOOLEAN /\ s.faults \subseteq r.faults
    /\ \/ r.request = s.request \ {q} /\ r.inProgress = s.inProgress - 1
       \/ r.request = (s.request \ {q}) \cup {[q EXCEPT !.open = TRUE]} /\ r.inProgress = s.inProgress
       \/ r.request = s.request \ {q} /\ r.inProgress = s.inProgress /\ "broken" \in r.faults
    /\ Seg(r, r.request, {})

(* A request whose connection stays open is still counted.                 *)
LEMMA ReplacedCounted ==
    ASSUME NEW s, NEW r, Counted(s), NEW q \in s.request, NEW o, o \notin s.request \/ o = q,
           r.request = (s.request \ {q}) \cup {o}, r.inProgress = s.inProgress, s.faults \subseteq r.faults
    PROVE  Counted(r)
<1>1. IsFiniteSet(s.request)
  BY DEF Counted
<1>2. IsFiniteSet(s.request \ {q}) /\ Cardinality(s.request \ {q}) = Cardinality(s.request) - 1
  BY <1>1, FS_RemoveElement
<1>3. IsFiniteSet(r.request) /\ Cardinality(r.request) = Cardinality(s.request \ {q}) + 1
  <2>1. o \notin s.request \ {q}
    OBVIOUS
  <2> QED  BY <1>2, <2>1, FS_AddElement
<1>4. Cardinality(s.request) \in Nat /\ Cardinality(r.request) \in Nat
  BY <1>1, <1>3, FS_CardinalityType
<1>5. Cardinality(r.request) = Cardinality(s.request)
  BY <1>2, <1>3, <1>4
<1> QED  BY <1>3, <1>5 DEF Counted

(* A request that is over is counted no more.                              *)
LEMMA RemovedCounted ==
    ASSUME NEW s, NEW r, Counted(s), NEW q \in s.request, s.inProgress \in Int,
           r.request = s.request \ {q}, s.faults \subseteq r.faults,
           r.inProgress = s.inProgress - 1 \/ "broken" \in r.faults
    PROVE  Counted(r)
<1>1. IsFiniteSet(s.request)
  BY DEF Counted
<1>2. IsFiniteSet(s.request \ {q}) /\ Cardinality(s.request \ {q}) = Cardinality(s.request) - 1
  BY <1>1, FS_RemoveElement
<1> QED  BY <1>2 DEF Counted

(* A new request is counted.                                               *)
LEMMA AddedCounted ==
    ASSUME NEW s, NEW r, Counted(s), NEW q, q \notin s.request, s.inProgress \in Int,
           r.request = s.request \cup {q}, s.faults \subseteq r.faults,
           r.inProgress = s.inProgress + 1
    PROVE  Counted(r)
<1>1. IsFiniteSet(s.request)
  BY DEF Counted
<1>2. IsFiniteSet(s.request \cup {q}) /\ Cardinality(s.request \cup {q}) = Cardinality(s.request) + 1
  BY <1>1, FS_AddElement
<1> QED  BY <1>2 DEF Counted

(* Tasks and routes go on as they were.                                    *)
LEMMA AnsweredSound ==
    ASSUME NEW s, Sound(s), NEW q \in s.request, NEW r, Answered(s, r, q), q.kind # "route" \/ q.open
    PROVE  Sound(r)
<1> DEFINE o == [q EXCEPT !.open = TRUE]
<1>1. RequestOK(s, q) /\ RouteRequestOK(s, q)
  BY DEF Sound, Seg, Rest, Routes
<1>2. q \in Request
  BY <1>1 DEF RequestOK
<1>3. o.kind = q.kind /\ o.task = q.task /\ o.route = q.route /\ o.open /\ o.entries = q.entries
  BY <1>2 DEF Request
<1>4. o \notin s.request \/ o = q
  <2>1. CASE q.kind = "route"
    <3>1. o \in s.request => o = q
      BY <1>3, <2>1 DEF Sound, Rest, Routes
    <3> QED  BY <3>1
  <2>2. CASE q.kind # "route"
    <3>1. o \in s.request /\ o # q => Range(o.entries) \cap Range(q.entries) = {}
      BY <1>3, <2>2 DEF Sound, Seg, Disjoint
    <3>2. Range(q.entries) # {}
      BY <1>1, <2>2 DEF RequestOK
    <3> QED  BY <1>3, <3>1, <3>2
  <2> QED  BY <2>1, <2>2
<1> HIDE DEF o
<1>5. r.request \subseteq (s.request \ {q}) \cup {o} /\ s.request \ {q} \subseteq r.request
  BY DEF Answered, o
<1>6. s.inProgress \in Int /\ MAX_CONCURRENT_PREFETCH_REQUESTS \in Int
  BY MaxAssumption DEF Sound, Rest, Tasks
<1>7. Counted(r)
  <2>1. CASE r.request = s.request \ {q} /\ r.inProgress = s.inProgress - 1
    BY <1>6, <2>1, RemovedCounted DEF Answered, Sound
  <2>2. CASE r.request = (s.request \ {q}) \cup {o} /\ r.inProgress = s.inProgress
    BY <1>4, <2>2, ReplacedCounted DEF Answered, Sound
  <2>3. CASE r.request = s.request \ {q} /\ "broken" \in r.faults
    BY <1>6, <2>3, RemovedCounted DEF Answered, Sound
  <2> QED  BY <2>1, <2>2, <2>3 DEF Answered, o
<1>8. Bounded(r)
  BY <1>6, WithinMonotone DEF Sound, Bounded, Answered
<1>9. Tasks(r)
  BY <1>6 DEF Sound, Rest, Tasks, Answered
<1>10. \A e : Unanswered(s.request, e) => Unanswered(r.request, e)
  BY <1>5 DEF Unanswered
<1>11. \A t : Blocked(s, s.request, t) => Blocked(r, r.request, t)
  BY <1>5 DEF Blocked, Answered
<1>12. Kept(r, r.request, {})
  BY <1>11 DEF Sound, Rest, Kept, Answered
<1>13. Routes(r, r.request)
  <2>1. ASSUME NEW p \in r.request PROVE RouteRequestOK(r, p)
    <3>1. CASE p \in s.request
      <4>1. RouteRequestOK(s, p)
        BY <3>1 DEF Sound, Rest, Routes
      <4> QED  BY <4>1 DEF RouteRequestOK, Answered
    <3>2. CASE p = o
      BY <1>1, <1>3, <3>2 DEF RouteRequestOK, Answered
    <3> QED  BY <1>5, <3>1, <3>2
  <2>2. ASSUME NEW p \in r.request, NEW p2 \in r.request,
               p.kind = "route", p2.kind = "route", p.route = p2.route
        PROVE  p = p2
    <3>1. \A u, v \in s.request : u.kind = "route" /\ v.kind = "route" /\ u.route = v.route => u = v
      BY DEF Sound, Rest, Routes
    <3>2. p = o \/ (p \in s.request /\ p # q)
      BY <1>5
    <3>3. p2 = o \/ (p2 \in s.request /\ p2 # q)
      BY <1>5
    <3> QED  BY <1>3, <2>2, <3>1, <3>2, <3>3
  <2>3. /\ r.route = s.route /\ r.routeMap = s.routeMap /\ r.routeLru = s.routeLru
        /\ r.version = s.version /\ r.task = s.task
    BY DEF Answered
  <2>4. r.got \in Nat
    BY DEF Answered, Seg, SegmentTypes
  <2>5. Routes(s, s.request)
    BY DEF Sound, Rest
  <2>6. \A e \in DOMAIN r.route :
          /\ r.route[e].blocked \subseteq DOMAIN r.task
          /\ r.route[e].status = "pending" => Unanswered(r.request, e)
    BY <1>10, <2>3, <2>5 DEF Routes
  <2> QED  BY <2>1, <2>2, <2>3, <2>4, <2>5, <2>6 DEF Routes
<1> QED  BY <1>7, <1>8, <1>9, <1>12, <1>13 DEF Sound, Rest, Answered

(* onPrefetchConnectionClosed: one request less, and perhaps a microtask.  *)
LEMMA ClosedFields ==
    ASSUME NEW s, DOMAIN s = Fields, s.scheduled \in BOOLEAN, NEW q
    PROVE  LET r == onPrefetchConnectionClosed(s, q)
           IN  /\ DOMAIN r = Fields /\ r.request = s.request \ {q} /\ r.inProgress = s.inProgress - 1
               /\ r.scheduled \in BOOLEAN
               /\ r.link = s.link /\ r.visible = s.visible /\ r.router = s.router /\ r.task = s.task
               /\ r.queue = s.queue /\ r.sortId = s.sortId /\ r.running = s.running
               /\ r.route = s.route /\ r.routeMap = s.routeMap /\ r.routeLru = s.routeLru
               /\ r.version = s.version /\ r.left = s.left /\ r.faults = s.faults /\ r.got = s.got
               /\ r.thrown = s.thrown /\ r.segment = s.segment /\ r.segmentMap = s.segmentMap
               /\ r.segmentLru = s.segmentLru
<1> DEFINE m == [s EXCEPT !.inProgress = @ - 1, !.request = @ \ {q}]
           r == onPrefetchConnectionClosed(s, q)
<1>1. /\ DOMAIN m = Fields /\ m.request = s.request \ {q} /\ m.inProgress = s.inProgress - 1
      /\ m.scheduled = s.scheduled
      /\ m.link = s.link /\ m.visible = s.visible /\ m.router = s.router /\ m.task = s.task
      /\ m.queue = s.queue /\ m.sortId = s.sortId /\ m.running = s.running
      /\ m.route = s.route /\ m.routeMap = s.routeMap /\ m.routeLru = s.routeLru
      /\ m.version = s.version /\ m.left = s.left /\ m.faults = s.faults /\ m.got = s.got
      /\ m.thrown = s.thrown /\ m.segment = s.segment /\ m.segmentMap = s.segmentMap
      /\ m.segmentLru = s.segmentLru
  BY DEF Fields
<1>2. r = IF hasNetworkBandwidth(m) THEN [m EXCEPT !.scheduled = TRUE] ELSE m
  BY DEF onPrefetchConnectionClosed, ensureWorkIsScheduled
<1> HIDE DEF m
<1>3. CASE hasNetworkBandwidth(m)
  BY <1>1, <1>2, <1>3 DEF Fields
<1>4. CASE ~hasNetworkBandwidth(m)
  BY <1>1, <1>2, <1>4
<1> QED  BY <1>3, <1>4

(* The answer came and the connection closes.                              *)
LEMMA ClosedAnswer ==
    ASSUME NEW s, Sound(s), NEW q \in s.request, NEW u, SegmentsOnly(s, u), s.faults \subseteq u.faults,
           Seg(u, s.request \ {q}, {})
    PROVE  LET r == onPrefetchConnectionClosed(u, q)
           IN  /\ Answered(s, r, q)
               /\ r.segment = u.segment /\ r.segmentMap = u.segmentMap
<1> DEFINE r == onPrefetchConnectionClosed(u, q)
<1>1. /\ DOMAIN u = Fields /\ u.scheduled \in BOOLEAN /\ s.scheduled \in BOOLEAN
      /\ u.request = s.request /\ u.inProgress = s.inProgress
  BY DEF SegmentsOnly, Sound, Rest, Tasks
<1>2. /\ DOMAIN r = Fields /\ r.request = u.request \ {q} /\ r.inProgress = u.inProgress - 1
      /\ r.scheduled \in BOOLEAN
      /\ r.link = u.link /\ r.visible = u.visible /\ r.router = u.router /\ r.task = u.task
      /\ r.queue = u.queue /\ r.sortId = u.sortId /\ r.running = u.running
      /\ r.route = u.route /\ r.routeMap = u.routeMap /\ r.routeLru = u.routeLru
      /\ r.version = u.version /\ r.left = u.left /\ r.faults = u.faults /\ r.got = u.got
      /\ r.thrown = u.thrown /\ r.segment = u.segment /\ r.segmentMap = u.segmentMap
      /\ r.segmentLru = u.segmentLru
  BY <1>1, ClosedFields
<1> HIDE DEF r
<1>3. Seg(r, r.request, {})
  <2>1. u.got \in Nat /\ u.thrown \in BOOLEAN /\ (u.thrown => "recursion" \in u.faults)
    BY DEF Seg, SegmentTypes
  <2>2. /\ r.got \in Nat /\ r.thrown \in BOOLEAN /\ u.faults \subseteq r.faults
        /\ (r.thrown => "recursion" \in r.faults)
    BY <1>2, <2>1
  <2>3. Seg(r, s.request \ {q}, {})
    BY <1>2, <2>2, SegFrame
  <2> QED  BY <1>1, <1>2, <2>3
<1>4. Answered(s, r, q)
  BY <1>1, <1>2, <1>3 DEF Answered, SegmentsOnly
<1> QED  BY <1>2, <1>4 DEF r

(* The connection stays open; what runs before and after is about segments. *)
LEMMA OpenAnswer ==
    ASSUME NEW s, Sound(s), NEW q \in s.request, NEW u, SegmentsOnly(opened(s, q), u), s.faults \subseteq u.faults,
           Seg(u, s.request \ {q}, {}), DOMAIN s.segment \subseteq DOMAIN u.segment,
           q.kind # "route" => \A e \in Range(q.entries) : u.segment[e].status # "empty"
    PROVE  Answered(s, u, q)
<1> DEFINE w == opened(s, q)
<1>1. DOMAIN s = Fields /\ s.scheduled \in BOOLEAN
  BY DEF Sound, Rest, Tasks
<1>2. /\ w.request = (s.request \ {q}) \cup {[q EXCEPT !.open = TRUE]}
      /\ w.link = s.link /\ w.visible = s.visible /\ w.router = s.router /\ w.task = s.task
      /\ w.queue = s.queue /\ w.sortId = s.sortId /\ w.inProgress = s.inProgress
      /\ w.scheduled = s.scheduled /\ w.running = s.running
      /\ w.route = s.route /\ w.routeMap = s.routeMap /\ w.routeLru = s.routeLru
      /\ w.version = s.version
  BY <1>1 DEF opened, Fields
<1> HIDE DEF w
<1>3. SegmentsOnly(w, u)
  BY DEF w
<1>4. Seg(u, (s.request \ {q}) \cup {[q EXCEPT !.open = TRUE]}, {})
  <2>1. RequestOK(s, q) /\ Disjoint((s.request \ {q}) \cup {q}) /\ q \notin s.request \ {q}
    BY DEF Sound, Seg, Disjoint
  <2> QED  BY <2>1, OpenedSeg
<1>5. u.request = (s.request \ {q}) \cup {[q EXCEPT !.open = TRUE]}
  BY <1>2, <1>3 DEF SegmentsOnly
<1> QED  BY <1>1, <1>2, <1>3, <1>4, <1>5 DEF Answered, SegmentsOnly

(* Functions of the segment cache compose.                                 *)
LEMMA OnlyTrans ==
    ASSUME NEW s, NEW r, NEW v, SegmentsOnly(s, r), SegmentsOnly(r, v)
    PROVE  SegmentsOnly(s, v)
BY DEF SegmentsOnly

(* A segment that failed: its entry is rejected.                           *)
LEMMA RejectedSegmentAnswer ==
    ASSUME Sound(state), NEW q \in state.request, q.kind = "segment", ~q.open
    PROVE  LET r == fetchSegmentOnCacheMiss(q, "rejected") IN Answered(state, r, q) /\ FullKept(state, r)
<1> DEFINE path == CHOOSE p \in DOMAIN q.entries : TRUE
           e == q.entries[path]
           u == rejectSegmentCacheEntry(state, e)
           r == onPrefetchConnectionClosed(u, q)
           R == state.request \ {q}
<1>1. /\ Seg(state, state.request, {}) /\ q.kind # "route"
  BY DEF Sound
<1>2. /\ Seg(state, R, Range(q.entries)) /\ RequestOK(state, q) /\ \A d \in Range(q.entries) : Settles(R, d)
  BY <1>1, AnsweringSeg
<1>3. Range(q.entries) = {e}
  BY <1>1, <1>2 DEF RequestOK, Range
<1>4. /\ e \in DOMAIN state.segment /\ state.segment[e].status = "pending" /\ Settles(R, e)
      /\ EntryOK(state, e) /\ e # 0
  BY <1>1, <1>2, <1>3 DEF RequestOK, Seg, SegmentTypes
<1>5. fetchSegmentOnCacheMiss(q, "rejected") = r
  BY DEF fetchSegmentOnCacheMiss
<1> HIDE DEF R, path, e
<1>6. Seg(u, R, {e}) /\ Settled(state, u, e, "rejected")
  BY <1>2, <1>3, <1>4, RejectSeg
<1> HIDE DEF u
<1>7. state.segment[e].isPartial
  BY <1>4 DEF EntryOK
<1>8. /\ SegmentsOnly(state, u) /\ state.faults \subseteq u.faults /\ Steady(state, u, {e})
      /\ u.segment[e].status = "rejected"
  BY <1>6, <1>7 DEF Settled
<1>9. Seg(u, R, {})
  <2>1. \A d \in {e} : u.segment[d].status # "pending"
    BY <1>8
  <2> QED  BY <1>6, <2>1, NotPendingSeg
<1>10. Answered(state, r, q) /\ r.segment = u.segment /\ r.segmentMap = u.segmentMap
  BY <1>8, <1>9, ClosedAnswer DEF R
<1>11. FullKept(state, r)
  BY <1>8, <1>10 DEF FullKept, Steady, Full
<1> QED  BY <1>5, <1>10, <1>11

(* A segment that came: both callbacks of the entry run, in their order.   *)
LEMMA FulfilledSegmentAnswer ==
    ASSUME Sound(state), NEW q \in state.request, q.kind = "segment", ~q.open
    PROVE  LET r == fetchSegmentOnCacheMiss(q, "fulfilled") IN Answered(state, r, q) /\ FullKept(state, r)
<1> DEFINE path == CHOOSE p \in DOMAIN q.entries : TRUE
           e == q.entries[path]
           w == opened(state, q)
           stale == state.route[q.route].stale
           partial == path \in DynamicSegments
           loading == path \in HasLoading
           u == fulfillSegmentCacheEntry(w, e, stale, partial, loading)
           v == upsertSegmentOnCompletion(u, e, u.segment[e].upsert)
           r == upsertSegmentOnCompletion(v, e, q.upsert)
           R == state.request \ {q}
<1>1. /\ Seg(state, state.request, {}) /\ q.kind # "route"
  BY DEF Sound
<1>2. /\ Seg(state, R, Range(q.entries)) /\ RequestOK(state, q) /\ \A d \in Range(q.entries) : Settles(R, d)
  BY <1>1, AnsweringSeg
<1>3. Range(q.entries) = {e}
  BY <1>1, <1>2 DEF RequestOK, Range
<1>4. /\ e \in DOMAIN state.segment /\ state.segment[e].status = "pending" /\ Settles(R, e)
      /\ EntryOK(state, e) /\ e # 0
      /\ (q.upsert # NoUpsert => unmapped(state, e) /\ state.segment[e].upsert = NoUpsert)
  BY <1>1, <1>2, <1>3 DEF RequestOK, Seg, SegmentTypes
<1>5. fetchSegmentOnCacheMiss(q, "fulfilled") = r
  BY DEF fetchSegmentOnCacheMiss
<1>6. stale \in BOOLEAN
  <2>1. q.route \in DOMAIN state.route /\ state.route \in Seq(RouteEntry)
    BY DEF Sound, Rest, Routes, RouteRequestOK
  <2>2. state.route[q.route] \in RouteEntry
    BY <2>1
  <2> QED  BY <2>2 DEF RouteEntry
<1>7. partial \in BOOLEAN /\ loading \in BOOLEAN
  OBVIOUS
<1>8. /\ DOMAIN state = Fields /\ state.got \in Nat /\ state.thrown \in BOOLEAN
      /\ (state.thrown => "recursion" \in state.faults)
  BY <1>1 DEF Seg, SegmentTypes
<1>9. q.upsert \in Upserts
  BY <1>2 DEF RequestOK, Request
<1> HIDE DEF R, path, e, stale, partial, loading
<1>10. /\ DOMAIN w = Fields /\ w.faults = state.faults /\ w.got = state.got
       /\ w.thrown = state.thrown /\ w.segment = state.segment /\ w.segmentMap = state.segmentMap
       /\ w.segmentLru = state.segmentLru
  BY <1>8 DEF opened, Fields
<1> HIDE DEF w
<1>11. Seg(w, R, {e})
  <2>1. /\ w.got \in Nat /\ w.thrown \in BOOLEAN /\ state.faults \subseteq w.faults
        /\ (w.thrown => "recursion" \in w.faults)
    BY <1>8, <1>10
  <2> QED  BY <1>2, <1>3, <1>10, <2>1, SegFrame
<1>12. e \in DOMAIN w.segment /\ w.segment[e].isPartial
  BY <1>4, <1>10 DEF EntryOK
<1>13. Seg(u, R, {e}) /\ Settled(w, u, e, "fulfilled") /\ u.segment[e].stale = stale
  BY <1>4, <1>6, <1>7, <1>11, <1>12, FulfillSeg
<1> HIDE DEF u
<1>14. /\ SegmentsOnly(w, u) /\ u.faults = state.faults /\ Steady(w, u, {e})
       /\ u.segment[e].status = "fulfilled" /\ DOMAIN u.segment = DOMAIN state.segment
       /\ u.segment[e].upsert = state.segment[e].upsert /\ u.segmentMap = state.segmentMap
  BY <1>10, <1>12, <1>13 DEF Settled
<1>15. \E k \in Upserts : (k # NoUpsert => unmapped(u, e)) /\ r = upsertSegmentOnCompletion(u, e, k)
  <2>1. u.segment[e].upsert \in Upserts
    <3>1. u.segment[e] \in SegmentEntry
      BY <1>4, <1>13, <1>14 DEF Seg, SegmentTypes
    <3> QED  BY <3>1 DEF SegmentEntry
  <2>2. CASE q.upsert = NoUpsert
    <3>1. r = v
      BY <2>2 DEF upsertSegmentOnCompletion
    <3>2. u.segment[e].upsert # NoUpsert => unmapped(u, e)
      BY <1>4, <1>13, <1>14 DEF Seg, EntryOK
    <3> QED  BY <2>1, <3>1, <3>2
  <2>3. CASE q.upsert # NoUpsert
    <3>1. v = u
      BY <1>4, <1>14, <2>3 DEF upsertSegmentOnCompletion
    <3>2. unmapped(u, e)
      BY <1>4, <1>14, <2>3 DEF unmapped
    <3> QED  BY <1>9, <3>1, <3>2
  <2> QED  BY <2>2, <2>3
<1> HIDE DEF r
<1>16. PICK k \in Upserts : (k # NoUpsert => unmapped(u, e)) /\ r = upsertSegmentOnCompletion(u, e, k)
  BY <1>15
<1>17. Seg(r, R, {e}) /\ Completed(u, r, e) /\ r.segment[e].status \in {"fulfilled", "rejected"}
  <2>1. e \in DOMAIN u.segment /\ u.segment[e].status = "fulfilled"
    BY <1>4, <1>14
  <2> QED  BY <1>13, <1>16, <2>1, CompletionSeg
<1>18. Seg(r, R, {})
  <2>1. \A d \in {e} : r.segment[d].status # "pending"
    BY <1>17
  <2> QED  BY <1>17, <2>1, NotPendingSeg
<1>19. /\ SegmentsOnly(w, r) /\ state.faults \subseteq r.faults
       /\ DOMAIN state.segment \subseteq DOMAIN r.segment
       /\ q.kind # "route" => \A d \in Range(q.entries) : r.segment[d].status # "empty"
  <2>1. SegmentsOnly(u, r)
    BY <1>17 DEF Completed
  <2>2. SegmentsOnly(w, r)
    BY <1>14, <2>1, OnlyTrans
  <2> QED  BY <1>3, <1>14, <1>17, <2>2 DEF Completed
<1>20. Answered(state, r, q)
  BY <1>18, <1>19, OpenAnswer DEF R, w
<1>21. FullKept(state, r)
  <2>1. ASSUME NEW k2 \in SegmentKeys, Full(state, k2)
        PROVE  ~r.segment[r.segmentMap[k2]].isPartial
    <3>1. Full(w, k2)
      BY <1>10, <2>1 DEF Full
    <3>2. Full(u, k2)
      BY <1>14, <3>1 DEF Steady
    <3> QED  BY <1>17, <3>2 DEF Completed, Full
  <2> QED  BY <2>1 DEF FullKept
<1> QED  BY <1>5, <1>20, <1>21

(* What is steady keeps full segments.                                     *)
LEMMA SteadyKept ==
    ASSUME NEW s, NEW r, NEW W, Steady(s, r, W) PROVE FullKept(s, r)
BY DEF Steady, FullKept, Full

(* What is known of a dynamic request when its answer arrives.             *)
Awaited(s, R, q) ==
    /\ Seg(s, R, Range(q.entries)) /\ RequestOK(s, q)
    /\ q.entries \in Entries
    /\ \A p, p2 \in DOMAIN q.entries : q.entries[p] = q.entries[p2] => p = p2
    /\ \A e \in Range(q.entries) : /\ Settles(R, e) /\ e \in DOMAIN s.segment
                                   /\ s.segment[e].status = "pending"

(* The entries of an unanswered dynamic request are pending.               *)
LEMMA DynamicAwaited ==
    ASSUME Sound(state), NEW q \in state.request, q.kind = "dynamic", ~q.open
    PROVE  /\ Awaited(state, state.request \ {q}, q)
           /\ state.task[q.task].href \in Hrefs /\ state.route[q.route].stale \in BOOLEAN
<1> DEFINE R == state.request \ {q}
<1>1. /\ Seg(state, state.request, {}) /\ q.kind # "route"
  BY DEF Sound
<1>2. /\ Seg(state, R, Range(q.entries)) /\ RequestOK(state, q) /\ \A d \in Range(q.entries) : Settles(R, d)
  BY <1>1, AnsweringSeg
<1> HIDE DEF R
<1>3. /\ q.task \in DOMAIN state.task /\ state.task \in Seq(Task)
      /\ q.route \in DOMAIN state.route /\ state.route \in Seq(RouteEntry)
  BY DEF Sound, Rest, Tasks, Routes, RouteRequestOK
<1>4. state.task[q.task] \in Task /\ state.route[q.route] \in RouteEntry
  BY <1>3
<1>5. q.entries \in Entries
  BY <1>2 DEF RequestOK, Request
<1>6. Awaited(state, R, q)
  BY <1>1, <1>2, <1>5 DEF Awaited, RequestOK
<1> QED  BY <1>4, <1>6 DEF Task, RouteEntry, R

(* All entries of the request are settled by rejecting the pending ones.   *)
LEMMA RejectedAll ==
    ASSUME NEW s, NEW R, NEW q, Seg(s, R, Range(q.entries)), q.entries \in Entries,
           \A e \in Range(q.entries) : Settles(R, e) /\ e \in DOMAIN s.segment,
           \A e \in Range(q.entries) : \/ s.segment[e].status \in {"pending", "rejected"}
                                       \/ s.segment[e].status = "fulfilled" /\ ~s.segment[e].stale
    PROVE  LET r == rejectSegmentEntriesIfStillPending(s, q.entries)
           IN  /\ Seg(r, R, Range(q.entries)) /\ Seg(r, R, {}) /\ Steady(s, r, Nat)
               /\ r.faults = s.faults
               /\ \A e \in Range(q.entries) : \/ r.segment[e].status = "rejected"
                                              \/ r.segment[e].status = "fulfilled" /\ ~r.segment[e].stale
<1> DEFINE r == rejectSegmentEntriesIfStillPending(s, q.entries)
           f == [op |-> "reject", s |-> s, R |-> R, q |-> q]
           E == Range(q.entries)
<1>1. f.s = s /\ f.R = R /\ f.q = q
  OBVIOUS
<1>2. RejectHolds(f, E, r)
  BY RejectFold
<1> HIDE DEF f, r
<1>3. /\ Seg(r, R, E) /\ Steady(s, r, Nat) /\ r.faults = s.faults
      /\ \A e \in E : \/ r.segment[e].status = "rejected"
                      \/ r.segment[e].status = "fulfilled" /\ ~r.segment[e].stale
  BY <1>1, <1>2 DEF RejectHolds
<1>4. \A e \in E : r.segment[e].status # "pending"
  BY <1>3
<1> HIDE DEF E
<1>5. Seg(r, R, {})
  BY <1>3, <1>4, NotPendingSeg
<1> QED  BY <1>3, <1>5 DEF E, r

(* All entries of the request stay settled through the callbacks.          *)
LEMMA UpsertedAll ==
    ASSUME NEW s, NEW R, NEW q, Seg(s, R, Range(q.entries)), q.entries \in Entries,
           \A e \in Range(q.entries) : e \in DOMAIN s.segment,
           \A e \in Range(q.entries) : \/ s.segment[e].status = "rejected"
                                       \/ s.segment[e].status = "fulfilled" /\ ~s.segment[e].stale
    PROVE  LET r == FoldSet(upsertIfFulfilled, s, Range(q.entries))
           IN  /\ Seg(r, R, {}) /\ Steady(s, r, Nat)
               /\ \A e \in Range(q.entries) : r.segment[e].status \in {"fulfilled", "rejected"}
<1> DEFINE r == FoldSet(upsertIfFulfilled, s, Range(q.entries))
           f == [op |-> "upsert", s |-> s, R |-> R, q |-> q]
           E == Range(q.entries)
<1>1. f.s = s /\ f.R = R /\ f.q = q
  OBVIOUS
<1>2. UpsertHolds(f, E, r)
  BY UpsertFold
<1> HIDE DEF f, r
<1>3. /\ Seg(r, R, E) /\ Steady(s, r, Nat)
      /\ \A e \in E : r.segment[e].status \in {"fulfilled", "rejected"}
  BY <1>1, <1>2 DEF UpsertHolds
<1>4. \A e \in E : r.segment[e].status # "pending"
  BY <1>3
<1> HIDE DEF E
<1>5. Seg(r, R, {})
  BY <1>3, <1>4, NotPendingSeg
<1> QED  BY <1>3, <1>5 DEF E, r

(* A dynamic request that failed.                                          *)
LEMMA RejectedDynamicAnswer ==
    ASSUME Sound(state), NEW q \in state.request, q.kind = "dynamic", ~q.open
    PROVE  LET r == fetchSegmentPrefetchesUsingDynamicRequest(q, "rejected")
           IN  Answered(state, r, q) /\ FullKept(state, r)
<1> DEFINE u == rejectSegmentEntriesIfStillPending(state, q.entries)
           r == onPrefetchConnectionClosed(u, q)
           R == state.request \ {q}
<1>1. Awaited(state, R, q)
  BY DynamicAwaited
<1>2. fetchSegmentPrefetchesUsingDynamicRequest(q, "rejected") = r
  BY DEF fetchSegmentPrefetchesUsingDynamicRequest
<1> HIDE DEF R
<1>3. Seg(u, R, {}) /\ Steady(state, u, Nat)
  BY <1>1, RejectedAll DEF Awaited
<1> HIDE DEF u
<1>4. Answered(state, r, q) /\ r.segment = u.segment /\ r.segmentMap = u.segmentMap
  BY <1>3, ClosedAnswer DEF R, Steady
<1>5. FullKept(state, r)
  BY <1>3, <1>4, SteadyKept DEF FullKept
<1> QED  BY <1>2, <1>4, <1>5

(* Opening the connection changes nothing that the cache reads.            *)
LEMMA OpenedSame ==
    ASSUME NEW s, NEW R, NEW sp, Seg(s, R, sp), NEW q
    PROVE  LET w == opened(s, q)
           IN  /\ Seg(w, R, sp) /\ DOMAIN w = Fields /\ w.faults = s.faults
               /\ w.segment = s.segment /\ w.segmentMap = s.segmentMap
<1> DEFINE w == opened(s, q)
<1>1. /\ DOMAIN s = Fields /\ s.got \in Nat /\ s.thrown \in BOOLEAN
      /\ (s.thrown => "recursion" \in s.faults)
  BY DEF Seg, SegmentTypes
<1>2. /\ DOMAIN w = Fields /\ w.faults = s.faults /\ w.got = s.got
      /\ w.thrown = s.thrown /\ w.segment = s.segment /\ w.segmentMap = s.segmentMap
      /\ w.segmentLru = s.segmentLru
  BY <1>1 DEF opened, Fields
<1> HIDE DEF w
<1>3. Seg(w, R, sp)
  <2>1. /\ w.got \in Nat /\ w.thrown \in BOOLEAN /\ s.faults \subseteq w.faults
        /\ (w.thrown => "recursion" \in w.faults)
    BY <1>1, <1>2
  <2> QED  BY <1>2, <2>1, SegFrame
<1> QED  BY <1>2, <1>3 DEF w

(* A dynamic response from another build: all of its entries are rejected. *)
LEMMA OtherBuildAnswer ==
    ASSUME Sound(state), NEW q \in state.request, q.kind = "dynamic", ~q.open
    PROVE  LET r == fetchSegmentPrefetchesUsingDynamicRequest(q, "otherBuild")
           IN  Answered(state, r, q) /\ FullKept(state, r)
<1> DEFINE w == opened(state, q)
           r == rejectSegmentEntriesIfStillPending(w, q.entries)
           R == state.request \ {q}
<1>1. Awaited(state, R, q)
  BY DynamicAwaited
<1>2. fetchSegmentPrefetchesUsingDynamicRequest(q, "otherBuild") = r
  BY DEF fetchSegmentPrefetchesUsingDynamicRequest
<1> HIDE DEF R
<1>3. /\ Seg(w, R, Range(q.entries)) /\ w.faults = state.faults
      /\ w.segment = state.segment /\ w.segmentMap = state.segmentMap
  BY <1>1, OpenedSame DEF Awaited
<1> HIDE DEF w
<1>4. /\ Seg(r, R, {}) /\ Steady(w, r, Nat)
      /\ \A e \in Range(q.entries) : r.segment[e].status \in {"fulfilled", "rejected"}
  BY <1>1, <1>3, RejectedAll DEF Awaited
<1> HIDE DEF r
<1>5. /\ SegmentsOnly(w, r) /\ state.faults \subseteq r.faults /\ DOMAIN state.segment \subseteq DOMAIN r.segment
      /\ \A e \in Range(q.entries) : r.segment[e].status # "empty"
  BY <1>3, <1>4 DEF Steady
<1>6. Answered(state, r, q)
  BY <1>4, <1>5, OpenAnswer DEF R, w
<1>7. FullKept(state, r)
  BY <1>3, <1>4, SteadyKept DEF FullKept, Full
<1> QED  BY <1>2, <1>6, <1>7

(* A dynamic response that asks for a full page load settles nothing,      *)
(* which is recorded.                                                      *)
LEMMA MpaAnswer ==
    ASSUME Sound(state), NEW q \in state.request, q.kind = "dynamic", ~q.open
    PROVE  LET r == fetchSegmentPrefetchesUsingDynamicRequest(q, "mpa")
           IN  Answered(state, r, q) /\ FullKept(state, r)
<1> DEFINE w == opened(state, q)
           r == [w EXCEPT !.faults = @ \cup {"mpa"}]
           R == state.request \ {q}
<1>1. Awaited(state, R, q)
  BY DynamicAwaited
<1>2. fetchSegmentPrefetchesUsingDynamicRequest(q, "mpa") = r
  BY DEF fetchSegmentPrefetchesUsingDynamicRequest
<1> HIDE DEF R
<1>3. /\ Seg(w, R, Range(q.entries)) /\ w.faults = state.faults /\ DOMAIN w = Fields
      /\ w.segment = state.segment /\ w.segmentMap = state.segmentMap
  BY <1>1, OpenedSame DEF Awaited
<1>4. w.got \in Nat /\ w.thrown \in BOOLEAN /\ (w.thrown => "recursion" \in w.faults)
  BY <1>3 DEF Seg, SegmentTypes
<1> HIDE DEF w
<1>5. /\ DOMAIN r = Fields /\ r.segment = w.segment /\ r.segmentMap = w.segmentMap
      /\ r.segmentLru = w.segmentLru /\ r.got = w.got /\ r.thrown = w.thrown
      /\ r.faults = w.faults \cup {"mpa"} /\ SegmentsOnly(w, r)
  BY <1>3 DEF Fields, SegmentsOnly
<1> HIDE DEF r
<1>6. Seg(r, R, Range(q.entries))
  <2>1. r.got \in Nat /\ r.thrown \in BOOLEAN /\ (r.thrown => "recursion" \in r.faults) /\ w.faults \subseteq r.faults
    BY <1>4, <1>5
  <2> QED  BY <1>3, <1>5, <2>1, SegFrame
<1>7. Seg(r, R, {})
  BY <1>5, <1>6, NotPendingSeg
<1>8. /\ SegmentsOnly(w, r) /\ state.faults \subseteq r.faults /\ DOMAIN state.segment \subseteq DOMAIN r.segment
      /\ \A e \in Range(q.entries) : r.segment[e].status # "empty"
  BY <1>1, <1>3, <1>5 DEF Awaited
<1>9. Answered(state, r, q)
  BY <1>7, <1>8, OpenAnswer DEF R, w
<1>10. FullKept(state, r)
  BY <1>3, <1>5 DEF FullKept, Full
<1> QED  BY <1>2, <1>9, <1>10 DEF r, w

(* What is written settles some of the entries, and what was left out is   *)
(* rejected, even where the writing has thrown.                            *)
LEMMA SettledAnswer ==
    ASSUME Sound(state), NEW q \in state.request, q.kind = "dynamic", ~q.open
    PROVE  LET w == [writeDynamicRenderResponseIntoCache(q) EXCEPT !.thrown = FALSE]
               v == rejectSegmentEntriesIfStillPending(w, q.entries)
               r == FoldSet(upsertIfFulfilled, v, Range(q.entries))
           IN  /\ Seg(r, state.request \ {q}, {}) /\ Steady(state, r, Nat)
               /\ \A e \in Range(q.entries) : r.segment[e].status \in {"fulfilled", "rejected"}
<1> DEFINE R == state.request \ {q}
           E == Range(q.entries)
           u == writeDynamicRenderResponseIntoCache(q)
           w == [u EXCEPT !.thrown = FALSE]
           v == rejectSegmentEntriesIfStillPending(w, q.entries)
           r == FoldSet(upsertIfFulfilled, v, E)
           f == [op |-> "write", s |-> state, R |-> R, q |-> q, seq |-> Tree[state.task[q.task].href]]
<1>1. /\ Awaited(state, R, q)
      /\ state.task[q.task].href \in Hrefs /\ state.route[q.route].stale \in BOOLEAN
  BY DynamicAwaited
<1>2. f.s = state /\ f.R = R /\ f.q = q
  OBVIOUS
<1> HIDE DEF R
<1>3. WriteHolds(f, DOMAIN f.seq, u)
  BY <1>1, WriteFold DEF Awaited
<1> HIDE DEF f, u
<1>4. /\ Seg(u, R, E) /\ Steady(state, u, Nat)
      /\ \A p \in DOMAIN q.entries : LET x == u.segment[q.entries[p]] IN
            x.status = "pending" \/ (x.status = "fulfilled" /\ ~x.stale)
  BY <1>2, <1>3 DEF WriteHolds
<1>5. \A e \in E : LET x == u.segment[e] IN
            x.status = "pending" \/ (x.status = "fulfilled" /\ ~x.stale)
  BY <1>4 DEF Range
<1>6. /\ DOMAIN w = Fields /\ w.segment = u.segment /\ w.segmentMap = u.segmentMap
      /\ w.segmentLru = u.segmentLru /\ w.got = u.got /\ ~w.thrown /\ w.thrown \in BOOLEAN
      /\ w.faults = u.faults /\ SegmentsOnly(u, w) /\ u.got \in Nat
  <2>1. DOMAIN u = Fields /\ u.got \in Nat
    BY <1>4 DEF Seg, SegmentTypes
  <2> QED  BY <2>1 DEF Fields, SegmentsOnly
<1> HIDE DEF w, E
<1>7. Seg(w, R, E)
  <2>1. /\ w.got \in Nat /\ w.thrown \in BOOLEAN /\ u.faults \subseteq w.faults
        /\ (w.thrown => "recursion" \in w.faults)
    BY <1>6
  <2> QED  BY <1>4, <1>6, <2>1, SegFrame
<1>8. Steady(state, w, Nat)
  BY <1>4, <1>6, OnlyTrans DEF Steady, Full
<1>9. \A e \in E : /\ Settles(R, e) /\ e \in DOMAIN w.segment
                   /\ \/ w.segment[e].status \in {"pending", "rejected"}
                      \/ w.segment[e].status = "fulfilled" /\ ~w.segment[e].stale
  BY <1>1, <1>5, <1>6, <1>8 DEF Awaited, Steady, E
<1>10. /\ Seg(v, R, E) /\ Steady(w, v, Nat)
       /\ \A e \in E : \/ v.segment[e].status = "rejected"
                       \/ v.segment[e].status = "fulfilled" /\ ~v.segment[e].stale
  BY <1>1, <1>7, <1>9, RejectedAll DEF Awaited, E
<1> HIDE DEF v
<1>11. \A e \in E : e \in DOMAIN v.segment
  BY <1>9, <1>10 DEF Steady
<1>12. /\ Seg(r, R, {}) /\ Steady(v, r, Nat)
       /\ \A e \in E : r.segment[e].status \in {"fulfilled", "rejected"}
  BY <1>1, <1>10, <1>11, UpsertedAll DEF Awaited, E
<1> HIDE DEF r
<1>13. Steady(state, r, Nat)
  BY <1>8, <1>10, <1>12, SteadyTrans
<1> QED  BY <1>12, <1>13 DEF R, E, r, v, w, u

(* A dynamic response that came.                                           *)
LEMMA FulfilledDynamicAnswer ==
    ASSUME Sound(state), NEW q \in state.request, q.kind = "dynamic", ~q.open
    PROVE  LET r == fetchSegmentPrefetchesUsingDynamicRequest(q, "fulfilled")
           IN  Answered(state, r, q) /\ FullKept(state, r)
<1> DEFINE R == state.request \ {q}
           u == writeDynamicRenderResponseIntoCache(q)
           w == [u EXCEPT !.thrown = FALSE]
           v == rejectSegmentEntriesIfStillPending(w, q.entries)
           x == FoldSet(upsertIfFulfilled, v, Range(q.entries))
           r == fetchSegmentPrefetchesUsingDynamicRequest(q, "fulfilled")
<1>1. /\ Seg(x, R, {}) /\ Steady(state, x, Nat)
      /\ \A e \in Range(q.entries) : x.segment[e].status \in {"fulfilled", "rejected"}
  BY SettledAnswer
<1>2. r = IF u.thrown THEN onPrefetchConnectionClosed(x, q) ELSE opened(x, q)
  BY DEF fetchSegmentPrefetchesUsingDynamicRequest
<1> HIDE DEF x, u, r
<1>3. FullKept(state, x) /\ SegmentsOnly(state, x) /\ state.faults \subseteq x.faults
  BY <1>1, SteadyKept DEF Steady
<1>4. CASE u.thrown
  <2>1. Answered(state, r, q) /\ r.segment = x.segment /\ r.segmentMap = x.segmentMap
    BY <1>1, <1>2, <1>3, <1>4, ClosedAnswer
  <2>2. FullKept(state, r)
    BY <1>3, <2>1 DEF FullKept
  <2> QED  BY <2>1, <2>2 DEF r
<1>5. CASE ~u.thrown
  <2> DEFINE o == opened(x, q)
  <2>1. /\ Seg(o, R, {}) /\ o.faults = x.faults /\ o.segment = x.segment /\ o.segmentMap = x.segmentMap
    BY <1>1, OpenedSame
  <2>2. SegmentsOnly(opened(state, q), o)
    <3>1. DOMAIN state = Fields /\ DOMAIN x = Fields
      BY <1>3 DEF SegmentsOnly, Sound, Rest, Tasks
    <3> QED  BY <1>3, <3>1 DEF SegmentsOnly, opened, Fields
  <2>3. r = o
    BY <1>2, <1>5
  <2> HIDE DEF o
  <2>4. /\ state.faults \subseteq o.faults /\ DOMAIN state.segment \subseteq DOMAIN o.segment
        /\ \A e \in Range(q.entries) : o.segment[e].status # "empty"
    BY <1>1, <1>3, <2>1 DEF Steady
  <2>5. Answered(state, o, q)
    BY <2>1, <2>2, <2>4, OpenAnswer
  <2>6. FullKept(state, o)
    BY <1>3, <2>1 DEF FullKept
  <2> QED  BY <2>3, <2>5, <2>6 DEF r
<1> QED  BY <1>4, <1>5

(* fetchSegmentPrefetchesUsingDynamicRequest, for all outcomes.            *)
LEMMA DynamicAnswer ==
    ASSUME Sound(state), NEW q \in state.request, q.kind = "dynamic", ~q.open, NEW outcome \in Outcomes
    PROVE  LET r == fetchSegmentPrefetchesUsingDynamicRequest(q, outcome)
           IN  Answered(state, r, q) /\ FullKept(state, r)
BY FulfilledDynamicAnswer, RejectedDynamicAnswer, OtherBuildAnswer, MpaAnswer DEF Outcomes

(* fetchSegmentOnCacheMiss, for its outcomes.                              *)
LEMMA SegmentAnswer ==
    ASSUME Sound(state), NEW q \in state.request, q.kind = "segment", ~q.open,
           NEW outcome \in {"fulfilled", "rejected"}
    PROVE  LET r == fetchSegmentOnCacheMiss(q, outcome) IN Answered(state, r, q) /\ FullKept(state, r)
BY FulfilledSegmentAnswer, RejectedSegmentAnswer

(* The end of an open connection.                                          *)
LEMMA ClosedOpen ==
    ASSUME Sound(state), NEW q \in state.request, q.open
    PROVE  /\ Seg(state, state.request \ {q}, {}) /\ SegmentsOnly(state, state)
           /\ FullKept(state, state)
<1>1. Fetched(state, state.request \ {q}, {})
  BY DEF Sound, Seg, Fetched
<1> QED  BY <1>1 DEF Sound, Seg, Disjoint, SegmentsOnly, SegmentTypes, FullKept

(* closeConnection.                                                        *)
LEMMA CloseAnswer ==
    ASSUME Sound(state), NEW q \in state.request, q.open
    PROVE  LET r == onPrefetchConnectionClosed(state, q) IN Answered(state, r, q) /\ FullKept(state, r)
BY ClosedOpen, ClosedAnswer DEF FullKept

(* breakConnection: the request is gone and still counted, which is        *)
(* recorded.                                                               *)
LEMMA BreakAnswer ==
    ASSUME Sound(state), NEW q \in state.request, q.open
    PROVE  LET r == [spent(state) EXCEPT !.request = @ \ {q}, !.faults = @ \cup {"broken"}]
           IN  Answered(state, r, q) /\ FullKept(state, r)
<1> DEFINE r == [spent(state) EXCEPT !.request = @ \ {q}, !.faults = @ \cup {"broken"}]
           R == state.request \ {q}
<1>1. /\ DOMAIN state = Fields /\ state.got \in Nat /\ state.thrown \in BOOLEAN
      /\ (state.thrown => "recursion" \in state.faults) /\ state.scheduled \in BOOLEAN
  BY DEF Sound, Seg, SegmentTypes, Rest, Tasks
<1>2. /\ DOMAIN r = Fields /\ r.request = R /\ r.inProgress = state.inProgress
      /\ r.scheduled = state.scheduled
      /\ r.link = state.link /\ r.visible = state.visible /\ r.router = state.router /\ r.task = state.task
      /\ r.queue = state.queue /\ r.sortId = state.sortId /\ r.running = state.running
      /\ r.route = state.route /\ r.routeMap = state.routeMap /\ r.routeLru = state.routeLru
      /\ r.version = state.version /\ r.faults = state.faults \cup {"broken"} /\ r.got = state.got
      /\ r.thrown = state.thrown /\ r.segment = state.segment /\ r.segmentMap = state.segmentMap
      /\ r.segmentLru = state.segmentLru
  BY <1>1 DEF spent, Fields
<1> HIDE DEF r, R
<1>3. Seg(r, R, {})
  <2>1. Seg(state, R, {})
    BY ClosedOpen DEF R
  <2>2. /\ r.got \in Nat /\ r.thrown \in BOOLEAN /\ state.faults \subseteq r.faults
        /\ (r.thrown => "recursion" \in r.faults)
    BY <1>1, <1>2
  <2> QED  BY <1>2, <2>1, <2>2, SegFrame
<1>4. Answered(state, r, q)
  BY <1>1, <1>2, <1>3 DEF Answered, R
<1>5. FullKept(state, r)
  BY <1>2 DEF FullKept
<1> QED  BY <1>4, <1>5 DEF r, R

-----------------------------------------------------------------------------
(* The queue and the routes                                                *)

(* The route cache is left alone.                                          *)
SameRoutes(s, r) == r.route = s.route /\ r.routeMap = s.routeMap /\ r.routeLru = s.routeLru

(* Functions of the queue compose.                                         *)
LEMMA QueueTrans ==
    ASSUME NEW s, NEW r, NEW v, QueueOnly(s, r), QueueOnly(r, v)
    PROVE  QueueOnly(s, v)
BY DEF QueueOnly, NotSegments

(* Routes depend on the route cache, the tasks and the version only.       *)
LEMMA RoutesFrame ==
    ASSUME NEW s, NEW r, NEW R, Routes(s, R), SameRoutes(s, r), r.version = s.version, r.got \in Nat,
           DOMAIN s.task \subseteq DOMAIN r.task
    PROVE  Routes(r, R)
<1>1. ASSUME NEW q \in R PROVE RouteRequestOK(r, q)
  BY DEF Routes, RouteRequestOK, SameRoutes
<1> QED  BY <1>1 DEF Routes, SameRoutes

(* ensureWorkIsScheduled.                                                  *)
LEMMA EnsureQueue ==
    ASSUME NEW s, NEW R, NEW T, Tasks(s), Routes(s, R), Kept(s, R, T)
    PROVE  LET r == ensureWorkIsScheduled(s)
           IN  /\ Tasks(r) /\ Routes(r, R) /\ Kept(r, R, T) /\ QueueOnly(s, r) /\ SameRoutes(s, r)
               /\ r.task = s.task /\ r.link = s.link /\ r.queue = s.queue
<1> DEFINE r == ensureWorkIsScheduled(s)
           m == [s EXCEPT !.scheduled = TRUE]
<1>1. DOMAIN s = Fields /\ s.scheduled \in BOOLEAN /\ s.got \in Nat
  BY DEF Tasks, Routes
<1>2. /\ r.scheduled \in BOOLEAN /\ DOMAIN r = Fields
      /\ r.link = s.link /\ r.visible = s.visible /\ r.router = s.router /\ r.task = s.task
      /\ r.queue = s.queue /\ r.sortId = s.sortId /\ r.inProgress = s.inProgress
      /\ r.running = s.running /\ r.request = s.request
      /\ r.route = s.route /\ r.routeMap = s.routeMap /\ r.routeLru = s.routeLru
      /\ r.version = s.version /\ r.faults = s.faults /\ r.got = s.got
      /\ r.thrown = s.thrown /\ r.segment = s.segment /\ r.segmentMap = s.segmentMap
      /\ r.segmentLru = s.segmentLru /\ r.left = s.left
  <2>1. CASE hasNetworkBandwidth(s)
    BY <1>1, <2>1 DEF ensureWorkIsScheduled, Fields
  <2>2. CASE ~hasNetworkBandwidth(s)
    BY <1>1, <2>2 DEF ensureWorkIsScheduled
  <2> QED  BY <2>1, <2>2
<1> HIDE DEF r
<1>3. QueueOnly(s, r) /\ SameRoutes(s, r)
  BY <1>2 DEF QueueOnly, SameRoutes, NotSegments
<1>4. Tasks(r)
  BY <1>2 DEF Tasks
<1>5. Routes(r, R)
  BY <1>1, <1>2, <1>3, RoutesFrame
<1>6. Kept(r, R, T)
  BY <1>2 DEF Kept, Blocked
<1> QED  BY <1>2, <1>3, <1>4, <1>5, <1>6 DEF r

(* The tasks of T are put back into the queue.                             *)
LEMMA EnqueueRest ==
    ASSUME NEW s, NEW R, NEW T, NEW ts, Tasks(s), Routes(s, R), Kept(s, R, T \cup ts),
           ts \subseteq DOMAIN s.task, \A t \in ts : ~s.task[t].canceled
    PROVE  LET r == enqueue(s, ts)
           IN  /\ Tasks(r) /\ Routes(r, R) /\ Kept(r, R, T) /\ QueueOnly(s, r) /\ SameRoutes(s, r)
               /\ r.task = s.task /\ r.link = s.link
<1> DEFINE r == enqueue(s, ts)
           m == [s EXCEPT !.queue = @ \cup ts]
<1>1. CASE ts \subseteq s.queue
  <2>1. r = s
    BY <1>1 DEF enqueue
  <2>2. Kept(s, R, T)
    BY <1>1 DEF Kept
  <2>3. QueueOnly(s, s) /\ SameRoutes(s, s)
    BY DEF QueueOnly, NotSegments, SameRoutes, Tasks
  <2> QED  BY <2>1, <2>2, <2>3
<1>2. CASE ~(ts \subseteq s.queue)
  <2>1. r = ensureWorkIsScheduled(m)
    BY <1>2 DEF enqueue
  <2>2. DOMAIN s = Fields /\ s.got \in Nat
    BY DEF Tasks, Routes
  <2>3. /\ DOMAIN m = Fields
        /\ m.link = s.link /\ m.visible = s.visible /\ m.router = s.router /\ m.task = s.task
        /\ m.queue = s.queue \cup ts /\ m.sortId = s.sortId /\ m.inProgress = s.inProgress
        /\ m.scheduled = s.scheduled /\ m.running = s.running /\ m.request = s.request
        /\ m.route = s.route /\ m.routeMap = s.routeMap /\ m.routeLru = s.routeLru
        /\ m.version = s.version /\ m.faults = s.faults /\ m.got = s.got
        /\ m.thrown = s.thrown /\ m.segment = s.segment /\ m.segmentMap = s.segmentMap
        /\ m.segmentLru = s.segmentLru /\ m.left = s.left
    BY <2>2 DEF Fields
  <2> HIDE DEF m, r
  <2>4. QueueOnly(s, m) /\ SameRoutes(s, m)
    BY <2>3 DEF QueueOnly, SameRoutes, NotSegments
  <2>5. Tasks(m)
    BY <2>3 DEF Tasks
  <2>6. Routes(m, R)
    BY <2>2, <2>3, <2>4, RoutesFrame
  <2>7. Kept(m, R, T)
    BY <2>3 DEF Kept, Blocked
  <2>8. /\ Tasks(r) /\ Routes(r, R) /\ Kept(r, R, T) /\ QueueOnly(m, r) /\ SameRoutes(m, r)
        /\ r.task = m.task /\ r.link = m.link
    BY <2>1, <2>5, <2>6, <2>7, EnsureQueue
  <2>9. QueueOnly(s, r)
    BY <2>4, <2>8, QueueTrans
  <2> QED  BY <2>3, <2>8, <2>9 DEF SameRoutes, r
<1> QED  BY <1>1, <1>2

(* schedulePrefetchTask: a new task with the next sortId, in the queue.    *)
LEMMA ScheduleRest ==
    ASSUME NEW s, NEW R, Rest(s, R), NEW href \in Hrefs, NEW nextUrl \in NextUrls, NEW tree \in Nat,
           NEW full \in BOOLEAN, NEW priority \in {Background, Default, Intent}
    PROVE  LET r == schedulePrefetchTask(s, href, nextUrl, tree, full, priority)
           IN  /\ Rest(r, R) /\ QueueOnly(s, r) /\ SameRoutes(s, r)
               /\ DOMAIN r.task = DOMAIN s.task \cup {Len(s.task) + 1} /\ r.link = s.link
<1> DEFINE x == [href |-> href, nextUrl |-> nextUrl, tree |-> tree, full |-> full,
                 priority |-> priority, phase |-> RouteTreePhase, bg |-> FALSE,
                 sortId |-> s.sortId, canceled |-> FALSE, ended |-> FALSE]
           m == [s EXCEPT !.task = Append(@, x), !.sortId = @ + 1]
           t == Len(s.task) + 1
           r == enqueue(m, {t})
<1>1. schedulePrefetchTask(s, href, nextUrl, tree, full, priority) = r
  BY DEF schedulePrefetchTask
<1>2. DOMAIN s = Fields /\ s.got \in Nat /\ s.task \in Seq(Task) /\ s.sortId \in Nat
  BY DEF Rest, Tasks, Routes
<1>3. x \in Task /\ x.sortId = s.sortId /\ ~x.canceled
  BY <1>2 DEF Task
<1> HIDE DEF x
<1>4. /\ DOMAIN m = Fields
      /\ m.link = s.link /\ m.visible = s.visible /\ m.router = s.router /\ m.task = Append(s.task, x)
      /\ m.queue = s.queue /\ m.sortId = s.sortId + 1 /\ m.inProgress = s.inProgress
      /\ m.scheduled = s.scheduled /\ m.running = s.running /\ m.request = s.request
      /\ m.route = s.route /\ m.routeMap = s.routeMap /\ m.routeLru = s.routeLru
      /\ m.version = s.version /\ m.faults = s.faults /\ m.got = s.got
      /\ m.thrown = s.thrown /\ m.segment = s.segment /\ m.segmentMap = s.segmentMap
      /\ m.segmentLru = s.segmentLru /\ m.left = s.left
  BY <1>2 DEF Fields
<1> HIDE DEF m
<1>5. /\ m.task \in Seq(Task) /\ DOMAIN m.task = DOMAIN s.task \cup {t} /\ m.task[t] = x
      /\ \A d \in DOMAIN s.task : m.task[d] = s.task[d]
      /\ t \notin DOMAIN s.task /\ t # 0
  BY <1>2, <1>3, <1>4, AppendedEntry
<1> HIDE DEF t
<1>6. QueueOnly(s, m) /\ SameRoutes(s, m)
  BY <1>4, <1>5 DEF QueueOnly, SameRoutes, NotSegments
<1>7. Tasks(m)
  <2>0. \A u \in DOMAIN s.task : s.task[u] \in Task
    BY <1>2
  <2>1. \A u \in DOMAIN s.task : s.task[u].sortId < s.sortId /\ s.task[u].sortId \in Nat
    BY <2>0 DEF Rest, Tasks, Task
  <2>2. /\ \A u \in DOMAIN m.task : m.task[u].sortId < m.sortId
        /\ \A u, v \in DOMAIN m.task : m.task[u].sortId = m.task[v].sortId => u = v
    BY <1>2, <1>3, <1>4, <1>5, <2>1 DEF Rest, Tasks
  <2>3. \A u \in m.queue : ~m.task[u].canceled /\ u \in DOMAIN m.task
    BY <1>4, <1>5 DEF Rest, Tasks
  <2> QED  BY <1>2, <1>4, <1>5, <2>2, <2>3 DEF Rest, Tasks
<1>8. Routes(m, R)
  BY <1>2, <1>4, <1>5, <1>6, RoutesFrame DEF Rest
<1>9. Kept(m, R, {} \cup {t})
  BY <1>4, <1>5 DEF Rest, Kept, Blocked
<1>10. /\ Tasks(r) /\ Routes(r, R) /\ Kept(r, R, {}) /\ QueueOnly(m, r) /\ SameRoutes(m, r)
       /\ r.task = m.task /\ r.link = m.link
  <2>1. {t} \subseteq DOMAIN m.task /\ \A u \in {t} : ~m.task[u].canceled
    BY <1>3, <1>5
  <2> QED  BY <1>7, <1>8, <1>9, <2>1, EnqueueRest
<1> HIDE DEF r
<1>11. QueueOnly(s, r)
  BY <1>6, <1>10, QueueTrans
<1>12. SameRoutes(s, r) /\ r.link = s.link /\ DOMAIN r.task = DOMAIN s.task \cup {t}
  BY <1>4, <1>5, <1>6, <1>10 DEF SameRoutes
<1> QED  BY <1>1, <1>10, <1>11, <1>12 DEF Rest, t

(* cancelPrefetchTask: the task leaves the queue.                          *)
LEMMA CancelRest ==
    ASSUME NEW s, NEW R, Rest(s, R), NEW t \in {0} \cup DOMAIN s.task
    PROVE  LET r == cancelPrefetchTask(s, t)
           IN  /\ Rest(r, R) /\ QueueOnly(s, r) /\ SameRoutes(s, r)
               /\ DOMAIN r.task = DOMAIN s.task /\ Len(r.task) = Len(s.task) /\ r.link = s.link
<1> DEFINE r == cancelPrefetchTask(s, t)
           x == [s.task[t] EXCEPT !.canceled = TRUE]
<1>1. DOMAIN s = Fields /\ s.got \in Nat /\ s.task \in Seq(Task)
  BY DEF Rest, Tasks, Routes
<1>2. CASE t = 0
  <2>1. r = s
    BY <1>2 DEF cancelPrefetchTask
  <2> QED  BY <1>1, <2>1 DEF QueueOnly, NotSegments, SameRoutes
<1>3. CASE t # 0
  <2>1. t \in DOMAIN s.task /\ s.task[t] \in Task
    BY <1>1, <1>3
  <2>2. x \in Task /\ x.sortId = s.task[t].sortId /\ x.canceled
    BY <2>1 DEF Task
  <2> DEFINE c == [s EXCEPT !.task[t].canceled = TRUE]
  <2>3. /\ DOMAIN c = Fields /\ c.task = [s.task EXCEPT ![t] = x]
        /\ c.link = s.link /\ c.visible = s.visible /\ c.router = s.router
        /\ c.queue = s.queue /\ c.sortId = s.sortId /\ c.inProgress = s.inProgress
        /\ c.scheduled = s.scheduled /\ c.running = s.running /\ c.request = s.request
        /\ c.route = s.route /\ c.routeMap = s.routeMap /\ c.routeLru = s.routeLru
        /\ c.version = s.version /\ c.faults = s.faults /\ c.got = s.got
        /\ c.thrown = s.thrown /\ c.segment = s.segment /\ c.segmentMap = s.segmentMap
        /\ c.segmentLru = s.segmentLru /\ c.left = s.left
    BY <1>1 DEF Fields
  <2>d. r = heapDelete(c, t)
    BY <1>3 DEF cancelPrefetchTask
  <2> HIDE DEF c, r
  <2>4. /\ DOMAIN r = Fields /\ r.task = [s.task EXCEPT ![t] = x]
        /\ r.link = s.link /\ r.visible = s.visible /\ r.router = s.router
        /\ r.queue = s.queue \ {t} /\ r.sortId = s.sortId /\ r.inProgress = s.inProgress
        /\ r.scheduled = s.scheduled /\ r.running = s.running /\ r.request = s.request
        /\ r.route = s.route /\ r.routeMap = s.routeMap /\ r.routeLru = s.routeLru
        /\ r.version = s.version /\ r.faults = s.faults /\ r.got = s.got
        /\ r.thrown = s.thrown /\ r.segment = s.segment /\ r.segmentMap = s.segmentMap
        /\ r.segmentLru = s.segmentLru /\ r.left = s.left
    <3>1. CASE t \notin s.queue
      BY <2>3, <2>d, <3>1 DEF heapDelete
    <3>2. CASE t \in s.queue
      BY <2>3, <2>d, <3>2 DEF heapDelete, Fields
    <3> QED  BY <3>1, <3>2
  <2> HIDE DEF x
  <2>5. /\ r.task \in Seq(Task) /\ DOMAIN r.task = DOMAIN s.task /\ r.task[t] = x
        /\ \A d \in DOMAIN s.task : d # t => r.task[d] = s.task[d]
    BY <1>1, <2>1, <2>2, <2>4, UpdatedEntry
  <2>6. QueueOnly(s, r) /\ SameRoutes(s, r) /\ Len(r.task) = Len(s.task)
    BY <1>1, <2>4, <2>5 DEF QueueOnly, SameRoutes, NotSegments
  <2>7. Tasks(r)
    <3>1. \A u \in DOMAIN s.task : r.task[u].sortId = s.task[u].sortId
      BY <2>2, <2>5
    <3>2. /\ \A u \in DOMAIN r.task : r.task[u].sortId < r.sortId
          /\ \A u, v \in DOMAIN r.task : r.task[u].sortId = r.task[v].sortId => u = v
      BY <2>4, <2>5, <3>1 DEF Rest, Tasks
    <3>3. \A u \in r.queue : ~r.task[u].canceled /\ u \in DOMAIN r.task
      BY <2>4, <2>5 DEF Rest, Tasks
    <3> QED  BY <2>4, <2>5, <3>2, <3>3 DEF Rest, Tasks
  <2>8. Routes(r, R)
    BY <1>1, <2>4, <2>5, <2>6, RoutesFrame DEF Rest
  <2>9. Kept(r, R, {})
    BY <2>2, <2>4, <2>5 DEF Rest, Kept, Blocked
  <2> QED  BY <2>4, <2>5, <2>6, <2>7, <2>8, <2>9 DEF Rest, r
<1> QED  BY <1>2, <1>3

(* bumpPrefetchTask: the task is in the queue again, with the next sortId. *)
LEMMA BumpRest ==
    ASSUME NEW s, NEW R, Rest(s, R), NEW t \in DOMAIN s.task, NEW priority \in {Background, Default, Intent}
    PROVE  LET r == bumpPrefetchTask(s, t, priority)
           IN  Rest(r, R) /\ QueueOnly(s, r) /\ SameRoutes(s, r) /\ r.link = s.link
<1> DEFINE x == [s.task[t] EXCEPT !.canceled = FALSE, !.ended = FALSE,
                                  !.sortId = s.sortId, !.priority = priority]
           m == [s EXCEPT !.task[t] = x, !.sortId = @ + 1, !.queue = @ \cup {t}]
           r == ensureWorkIsScheduled(m)
<1>1. DOMAIN s = Fields /\ s.got \in Nat /\ s.task \in Seq(Task) /\ s.sortId \in Nat
  BY DEF Rest, Tasks, Routes
<1>2. s.task[t] \in Task
  BY <1>1
<1>3. x \in Task /\ x.sortId = s.sortId /\ ~x.canceled
  BY <1>1, <1>2 DEF Task
<1>4. bumpPrefetchTask(s, t, priority) = r
  BY <1>1 DEF bumpPrefetchTask, Fields
<1> HIDE DEF x
<1>5. /\ DOMAIN m = Fields /\ m.task = [s.task EXCEPT ![t] = x]
      /\ m.link = s.link /\ m.visible = s.visible /\ m.router = s.router
      /\ m.queue = s.queue \cup {t} /\ m.sortId = s.sortId + 1 /\ m.inProgress = s.inProgress
      /\ m.scheduled = s.scheduled /\ m.running = s.running /\ m.request = s.request
      /\ m.route = s.route /\ m.routeMap = s.routeMap /\ m.routeLru = s.routeLru
      /\ m.version = s.version /\ m.faults = s.faults /\ m.got = s.got
      /\ m.thrown = s.thrown /\ m.segment = s.segment /\ m.segmentMap = s.segmentMap
      /\ m.segmentLru = s.segmentLru /\ m.left = s.left
  BY <1>1 DEF Fields
<1> HIDE DEF m
<1>6. /\ m.task \in Seq(Task) /\ DOMAIN m.task = DOMAIN s.task /\ m.task[t] = x
      /\ \A d \in DOMAIN s.task : d # t => m.task[d] = s.task[d]
  BY <1>1, <1>3, <1>5, UpdatedEntry
<1>7. QueueOnly(s, m) /\ SameRoutes(s, m)
  BY <1>5, <1>6 DEF QueueOnly, SameRoutes, NotSegments
<1>8. Tasks(m)
  <2>0. \A u \in DOMAIN s.task : s.task[u] \in Task
    BY <1>1
  <2>1. \A u \in DOMAIN s.task : s.task[u].sortId < s.sortId /\ s.task[u].sortId \in Nat
    BY <2>0 DEF Rest, Tasks, Task
  <2>2. /\ \A u \in DOMAIN m.task : m.task[u].sortId < m.sortId
        /\ \A u, v \in DOMAIN m.task : m.task[u].sortId = m.task[v].sortId => u = v
    BY <1>1, <1>3, <1>5, <1>6, <2>1 DEF Rest, Tasks
  <2>3. \A u \in m.queue : ~m.task[u].canceled /\ u \in DOMAIN m.task
    BY <1>3, <1>5, <1>6 DEF Rest, Tasks
  <2> QED  BY <1>1, <1>5, <1>6, <2>2, <2>3 DEF Rest, Tasks
<1>9. Routes(m, R)
  BY <1>1, <1>5, <1>6, <1>7, RoutesFrame DEF Rest
<1>10. Kept(m, R, {})
  BY <1>5, <1>6 DEF Rest, Kept, Blocked
<1>11. Tasks(r) /\ Routes(r, R) /\ Kept(r, R, {}) /\ QueueOnly(m, r) /\ SameRoutes(m, r) /\ r.link = m.link
  BY <1>8, <1>9, <1>10, EnsureQueue
<1> HIDE DEF r
<1>12. QueueOnly(s, r)
  BY <1>7, <1>11, QueueTrans
<1> QED  BY <1>4, <1>5, <1>7, <1>11, <1>12 DEF Rest, SameRoutes

(* What the functions of the route cache leave alone.                      *)
RouteOnly(s, r) ==
    /\ NotSegments(s, r)
    /\ r.visible = s.visible /\ r.router = s.router /\ r.version = s.version /\ r.running = s.running
    /\ r.task = s.task /\ r.link = s.link
    /\ DOMAIN s.route \subseteq DOMAIN r.route
    /\ \A d \in DOMAIN s.route : r.route[d].status = s.route[d].status

(* Functions of the route cache compose.                                   *)
LEMMA RouteTrans ==
    ASSUME NEW s, NEW r, NEW v, RouteOnly(s, r), RouteOnly(r, v)
    PROVE  RouteOnly(s, v)
<1>1. NotSegments(s, v)
  BY DEF RouteOnly, NotSegments
<1> QED  BY <1>1 DEF RouteOnly

(* pingBlockedTasks: what was blocked on the route is in the queue.        *)
LEMMA PingBlockedRest ==
    ASSUME NEW s, NEW R, NEW T, Tasks(s), Routes(s, R), Kept(s, R, T), NEW e \in DOMAIN s.route,
           T \subseteq s.route[e].blocked
    PROVE  LET r == pingBlockedTasks(s, e)
           IN  /\ Rest(r, R) /\ RouteOnly(s, r) /\ r.got = s.got
               /\ r.routeMap = s.routeMap /\ DOMAIN r.route = DOMAIN s.route
<1> DEFINE x == [s.route[e] EXCEPT !.blocked = {}]
           m == [s EXCEPT !.route[e].blocked = {}]
           ts == {t \in s.route[e].blocked : ~s.task[t].canceled}
           r == enqueue(m, ts)
<1>1. DOMAIN s = Fields /\ s.got \in Nat /\ s.route \in Seq(RouteEntry) /\ s.route[e] \in RouteEntry
  BY DEF Tasks, Routes
<1>2. /\ x \in RouteEntry /\ x.blocked = {} /\ x.status = s.route[e].status
      /\ x.keypath = s.route[e].keypath /\ x.version = s.route[e].version
  BY <1>1 DEF RouteEntry
<1>3. /\ DOMAIN m = Fields /\ m.route = [s.route EXCEPT ![e] = x]
      /\ m.link = s.link /\ m.visible = s.visible /\ m.router = s.router /\ m.task = s.task
      /\ m.queue = s.queue /\ m.sortId = s.sortId /\ m.inProgress = s.inProgress
      /\ m.scheduled = s.scheduled /\ m.running = s.running /\ m.request = s.request
      /\ m.routeMap = s.routeMap /\ m.routeLru = s.routeLru
      /\ m.version = s.version /\ m.faults = s.faults /\ m.got = s.got
      /\ m.thrown = s.thrown /\ m.segment = s.segment /\ m.segmentMap = s.segmentMap
      /\ m.segmentLru = s.segmentLru /\ m.left = s.left
  BY <1>1 DEF Fields
<1>4. pingBlockedTasks(s, e) = r
  BY DEF pingBlockedTasks
<1> HIDE DEF m, x
<1>5. /\ m.route \in Seq(RouteEntry) /\ DOMAIN m.route = DOMAIN s.route /\ m.route[e] = x
      /\ \A d \in DOMAIN s.route : d # e => m.route[d] = s.route[d]
  BY <1>1, <1>2, <1>3, UpdatedEntry
<1>6. ts \subseteq DOMAIN m.task /\ \A t \in ts : ~m.task[t].canceled
  BY <1>3 DEF Routes
<1>7. Tasks(m)
  BY <1>3 DEF Tasks
<1>8. Routes(m, R)
  <2>1. ASSUME NEW d \in DOMAIN s.route
        PROVE  /\ m.route[d].status = s.route[d].status /\ m.route[d].keypath = s.route[d].keypath
               /\ m.route[d].version = s.route[d].version /\ m.route[d].blocked \subseteq s.route[d].blocked
    BY <1>2, <1>5
  <2>2. ASSUME NEW q \in R PROVE RouteRequestOK(m, q)
    BY <1>3, <1>5, <2>1 DEF Routes, RouteRequestOK
  <2>3. \A k \in RouteKeys : LET d == m.routeMap[k] IN
          d # 0 => d \in m.routeLru /\ m.route[d].keypath = k /\ m.route[d].version = m.version
    BY <1>3, <2>1 DEF Routes
  <2>4. \A d \in DOMAIN m.route : /\ m.route[d].blocked \subseteq DOMAIN m.task
                                  /\ m.route[d].status = "pending" => Unanswered(R, d)
    BY <1>3, <1>5, <2>1 DEF Routes
  <2> QED  BY <1>1, <1>3, <1>5, <2>2, <2>3, <2>4 DEF Routes
<1>9. Kept(m, R, {} \cup ts)
  <2>1. ASSUME NEW t \in DOMAIN s.task, Blocked(s, R, t), t \notin s.route[e].blocked
        PROVE  Blocked(m, R, t)
    <3>1. PICK q \in R : q.kind = "route" /\ ~q.open /\ t \in s.route[q.route].blocked
      BY <2>1 DEF Blocked
    <3>2. q.route # e /\ q.route \in DOMAIN s.route
      BY <2>1, <3>1 DEF Routes, RouteRequestOK
    <3> QED  BY <1>5, <3>1, <3>2 DEF Blocked
  <2> QED  BY <1>3, <2>1 DEF Kept
<1> HIDE DEF ts
<1>10. /\ Tasks(r) /\ Routes(r, R) /\ Kept(r, R, {}) /\ QueueOnly(m, r) /\ SameRoutes(m, r)
       /\ r.task = m.task /\ r.link = m.link
  BY <1>6, <1>7, <1>8, <1>9, EnqueueRest
<1> HIDE DEF r
<1>11. RouteOnly(s, r)
  <2>1. NotSegments(s, r)
    BY <1>3, <1>10 DEF QueueOnly, NotSegments
  <2> QED  BY <1>2, <1>3, <1>5, <1>10, <2>1 DEF RouteOnly, QueueOnly, SameRoutes
<1> QED  BY <1>3, <1>4, <1>5, <1>10, <1>11 DEF Rest, QueueOnly, SameRoutes

(* deleteRouteFromCache: whoever was blocked is not lost.                  *)
LEMMA DeleteRouteRest ==
    ASSUME NEW s, NEW R, Rest(s, R), NEW e \in DOMAIN s.route, NEW k \in RouteKeys, k = s.route[e].keypath
    PROVE  LET r == deleteRouteFromCache(s, e, k)
           IN  Rest(r, R) /\ RouteOnly(s, r) /\ r.got = s.got /\ r.routeMap[k] = 0
<1> DEFINE m == [s EXCEPT !.routeMap[k] = 0, !.routeLru = @ \ {e}]
           r == pingBlockedTasks(m, e)
<1>1. DOMAIN s = Fields /\ s.got \in Nat /\ s.routeMap \in [RouteKeys -> {0} \cup DOMAIN s.route]
  BY DEF Rest, Tasks, Routes
<1>2. /\ DOMAIN m = Fields /\ m.route = s.route
      /\ m.link = s.link /\ m.visible = s.visible /\ m.router = s.router /\ m.task = s.task
      /\ m.queue = s.queue /\ m.sortId = s.sortId /\ m.inProgress = s.inProgress
      /\ m.scheduled = s.scheduled /\ m.running = s.running /\ m.request = s.request
      /\ m.routeMap = [s.routeMap EXCEPT ![k] = 0] /\ m.routeLru = s.routeLru \ {e}
      /\ m.version = s.version /\ m.faults = s.faults /\ m.got = s.got
      /\ m.thrown = s.thrown /\ m.segment = s.segment /\ m.segmentMap = s.segmentMap
      /\ m.segmentLru = s.segmentLru /\ m.left = s.left
  BY <1>1 DEF Fields
<1>3. deleteRouteFromCache(s, e, k) = r
  BY DEF deleteRouteFromCache
<1> HIDE DEF m
<1>4. Tasks(m) /\ Kept(m, R, {})
  BY <1>2 DEF Rest, Tasks, Kept, Blocked
<1>5. Routes(m, R)
  <2>1. ASSUME NEW q \in R PROVE RouteRequestOK(m, q)
    BY <1>2 DEF Rest, Routes, RouteRequestOK
  <2>2. \A j \in RouteKeys : LET d == m.routeMap[j] IN
          d # 0 => d \in m.routeLru /\ m.route[d].keypath = j /\ m.route[d].version = m.version
    BY <1>1, <1>2 DEF Rest, Routes
  <2> QED  BY <1>1, <1>2, <2>1, <2>2 DEF Rest, Routes
<1>6. RouteOnly(s, m)
  BY <1>2 DEF RouteOnly, NotSegments
<1>7. Rest(r, R) /\ RouteOnly(m, r) /\ r.got = m.got /\ r.routeMap = m.routeMap
  BY <1>2, <1>4, <1>5, PingBlockedRest
<1> HIDE DEF r
<1>8. RouteOnly(s, r)
  BY <1>6, <1>7, RouteTrans
<1> QED  BY <1>1, <1>2, <1>3, <1>7, <1>8

(* readExactRouteCacheEntry.                                               *)
LEMMA ReadExactRouteRest ==
    ASSUME NEW s, NEW R, Rest(s, R), NEW k \in RouteKeys
    PROVE  LET r == readExactRouteCacheEntry(s, k)
           IN  Rest(r, R) /\ RouteOnly(s, r) /\ r.got \in {0} \cup DOMAIN r.route
<1> DEFINE e == s.routeMap[k]
           r == readExactRouteCacheEntry(s, k)
<1>1. DOMAIN s = Fields /\ e \in {0} \cup DOMAIN s.route /\ DOMAIN s.route \subseteq Nat
  BY DEF Rest, Tasks, Routes
<1>2. e # 0 => e \in s.routeLru /\ s.route[e].keypath = k
  BY DEF Rest, Routes
<1>3. ASSUME NEW m, DOMAIN m = Fields, m.got \in {0} \cup DOMAIN s.route, SameRoutes(s, m),
             m.link = s.link, m.visible = s.visible, m.router = s.router, m.task = s.task,
             m.queue = s.queue, m.sortId = s.sortId, m.scheduled = s.scheduled,
             m.running = s.running, m.version = s.version, NotSegments(s, m)
      PROVE  Rest(m, R) /\ RouteOnly(s, m) /\ m.got \in {0} \cup DOMAIN m.route
  <2>1. Tasks(m)
    BY <1>3 DEF Rest, Tasks, NotSegments
  <2>2. Routes(m, R)
    BY <1>1, <1>3, RoutesFrame DEF Rest
  <2>3. Kept(m, R, {})
    BY <1>3 DEF Rest, Kept, Blocked, NotSegments, SameRoutes
  <2> QED  BY <1>3, <2>1, <2>2, <2>3 DEF Rest, RouteOnly, SameRoutes
<1>4. CASE e = 0
  <2> DEFINE m == [s EXCEPT !.got = 0]
  <2>1. r = m
    BY <1>4 DEF readExactRouteCacheEntry
  <2>2. /\ DOMAIN m = Fields /\ m.got = 0 /\ SameRoutes(s, m)
        /\ m.link = s.link /\ m.visible = s.visible /\ m.router = s.router /\ m.task = s.task
        /\ m.queue = s.queue /\ m.sortId = s.sortId /\ m.scheduled = s.scheduled
        /\ m.running = s.running /\ m.version = s.version /\ NotSegments(s, m)
    BY <1>1 DEF Fields, SameRoutes, NotSegments
  <2> HIDE DEF m
  <2> QED  BY <1>3, <2>1, <2>2
<1>5. CASE e # 0 /\ ~s.route[e].stale
  <2> DEFINE m == [s EXCEPT !.got = e, !.routeLru = @ \cup {e}]
  <2>1. r = m
    BY <1>5 DEF readExactRouteCacheEntry
  <2>2. s.routeLru \cup {e} = s.routeLru
    BY <1>2, <1>5
  <2>3. /\ DOMAIN m = Fields /\ m.got = e /\ SameRoutes(s, m)
        /\ m.link = s.link /\ m.visible = s.visible /\ m.router = s.router /\ m.task = s.task
        /\ m.queue = s.queue /\ m.sortId = s.sortId /\ m.scheduled = s.scheduled
        /\ m.running = s.running /\ m.version = s.version /\ NotSegments(s, m)
    BY <1>1, <2>2 DEF Fields, SameRoutes, NotSegments
  <2> HIDE DEF m
  <2> QED  BY <1>1, <1>3, <2>1, <2>3
<1>6. CASE e # 0 /\ s.route[e].stale
  <2> DEFINE d == deleteRouteFromCache(s, e, k)
  <2>1. r = [d EXCEPT !.got = 0]
    BY <1>6 DEF readExactRouteCacheEntry
  <2>2. Rest(d, R) /\ RouteOnly(s, d)
    BY <1>1, <1>2, <1>6, DeleteRouteRest
  <2> HIDE DEF d, e
  <2>3. DOMAIN d = Fields
    BY <2>2 DEF Rest, Tasks
  <2>4. /\ DOMAIN r = Fields /\ r.got = 0 /\ SameRoutes(d, r)
        /\ r.link = d.link /\ r.visible = d.visible /\ r.router = d.router /\ r.task = d.task
        /\ r.queue = d.queue /\ r.sortId = d.sortId /\ r.scheduled = d.scheduled
        /\ r.running = d.running /\ r.version = d.version /\ NotSegments(d, r)
    BY <2>1, <2>3 DEF Fields, SameRoutes, NotSegments
  <2> HIDE DEF r
  <2>5. Tasks(r)
    BY <2>2, <2>4 DEF Rest, Tasks, NotSegments
  <2>6. Routes(r, R)
    BY <2>2, <2>4, RoutesFrame DEF Rest
  <2>7. Kept(r, R, {})
    BY <2>2, <2>4 DEF Rest, Kept, Blocked, NotSegments, SameRoutes
  <2>8. RouteOnly(d, r)
    BY <2>4 DEF RouteOnly, SameRoutes
  <2>9. RouteOnly(s, r)
    BY <2>2, <2>8, RouteTrans
  <2> QED  BY <2>4, <2>5, <2>6, <2>7, <2>9 DEF Rest, r
<1> QED  BY <1>4, <1>5, <1>6

(* readRouteCacheEntry: with and without nextUrl.                          *)
LEMMA ReadRouteRest ==
    ASSUME NEW s, NEW R, Rest(s, R), NEW href \in Hrefs, NEW nextUrl \in NextUrls
    PROVE  LET r == readRouteCacheEntry(s, href, nextUrl)
           IN  Rest(r, R) /\ RouteOnly(s, r) /\ r.got \in {0} \cup DOMAIN r.route
<1> DEFINE a == readExactRouteCacheEntry(s, <<href, None>>)
           b == readExactRouteCacheEntry(a, <<href, nextUrl>>)
           r == readRouteCacheEntry(s, href, nextUrl)
<1>1. <<href, None>> \in RouteKeys /\ <<href, nextUrl>> \in RouteKeys
  BY DEF RouteKeys
<1>2. r = IF a.got # 0 /\ ~a.route[a.got].couldBeIntercepted THEN a ELSE b
  BY DEF readRouteCacheEntry
<1> HIDE DEF r
<1>3. Rest(a, R) /\ RouteOnly(s, a) /\ a.got \in {0} \cup DOMAIN a.route
  BY <1>1, ReadExactRouteRest
<1> HIDE DEF a
<1>4. Rest(b, R) /\ RouteOnly(a, b) /\ b.got \in {0} \cup DOMAIN b.route
  BY <1>1, <1>3, ReadExactRouteRest
<1> HIDE DEF b
<1>5. RouteOnly(s, b)
  BY <1>3, <1>4, RouteTrans
<1> QED  BY <1>2, <1>3, <1>4, <1>5 DEF r

(* A new route is put at its keypath, with the current version.            *)
LEMMA CreatedRoute ==
    ASSUME NEW s, NEW R, Rest(s, R), NEW k \in RouteKeys, NEW x \in RouteEntry,
           x.status = "empty", x.blocked = {}, x.keypath = k, x.version = s.version,
           NEW e, e = Len(s.route) + 1,
           NEW r, r = [s EXCEPT !.route = Append(@, x), !.routeMap[k] = e,
                                !.routeLru = @ \cup {e}, !.got = e]
    PROVE  Rest(r, R) /\ RouteOnly(s, r) /\ r.got \in DOMAIN r.route
<1>1. /\ DOMAIN s = Fields /\ s.route \in Seq(RouteEntry)
      /\ s.routeMap \in [RouteKeys -> {0} \cup DOMAIN s.route]
  BY DEF Rest, Tasks, Routes
<1>2. /\ DOMAIN r = Fields /\ r.route = Append(s.route, x)
      /\ r.link = s.link /\ r.visible = s.visible /\ r.router = s.router /\ r.task = s.task
      /\ r.queue = s.queue /\ r.sortId = s.sortId /\ r.inProgress = s.inProgress
      /\ r.scheduled = s.scheduled /\ r.running = s.running /\ r.request = s.request
      /\ r.routeMap = [s.routeMap EXCEPT ![k] = e] /\ r.routeLru = s.routeLru \cup {e}
      /\ r.version = s.version /\ r.faults = s.faults /\ r.got = e
      /\ r.thrown = s.thrown /\ r.segment = s.segment /\ r.segmentMap = s.segmentMap
      /\ r.segmentLru = s.segmentLru /\ r.left = s.left
  BY <1>1 DEF Fields
<1>3. /\ r.route \in Seq(RouteEntry) /\ DOMAIN r.route = DOMAIN s.route \cup {e} /\ r.route[e] = x
      /\ \A d \in DOMAIN s.route : r.route[d] = s.route[d]
      /\ e \notin DOMAIN s.route /\ e # 0 /\ e \in Nat
  BY <1>1, <1>2, AppendedEntry
<1>4. RouteOnly(s, r)
  BY <1>2, <1>3 DEF RouteOnly, NotSegments
<1>5. Tasks(r)
  BY <1>2 DEF Rest, Tasks
<1>6. ASSUME NEW q \in R PROVE RouteRequestOK(r, q)
  BY <1>2, <1>3 DEF Rest, Routes, RouteRequestOK
<1>7. \A j \in RouteKeys : LET d == r.routeMap[j] IN
          d # 0 => d \in r.routeLru /\ r.route[d].keypath = j /\ r.route[d].version = r.version
  BY <1>1, <1>2, <1>3 DEF Rest, Routes
<1>8. \A d \in DOMAIN r.route : /\ r.route[d].blocked \subseteq DOMAIN r.task
                                /\ r.route[d].status = "pending" => Unanswered(R, d)
  BY <1>2, <1>3 DEF Rest, Routes
<1>9. Routes(r, R)
  <2>1. /\ r.routeMap \in [RouteKeys -> {0} \cup DOMAIN r.route] /\ r.routeLru \subseteq DOMAIN r.route
    BY <1>1, <1>2, <1>3 DEF Rest, Routes
  <2> QED  BY <1>2, <1>3, <1>6, <1>7, <1>8, <2>1 DEF Rest, Routes
<1>10. Kept(r, R, {})
  <2>1. \A t : Blocked(s, R, t) => Blocked(r, R, t)
    BY <1>3 DEF Blocked, Rest, Routes, RouteRequestOK
  <2> QED  BY <1>2, <2>1 DEF Rest, Kept
<1> QED  BY <1>2, <1>3, <1>4, <1>5, <1>9, <1>10 DEF Rest

(* readOrCreateRouteCacheEntry: the route it returns exists.               *)
LEMMA ReadOrCreateRouteRest ==
    ASSUME NEW s, NEW R, Rest(s, R), NEW t \in DOMAIN s.task
    PROVE  LET r == readOrCreateRouteCacheEntry(s, t)
           IN  Rest(r, R) /\ RouteOnly(s, r) /\ r.got \in DOMAIN r.route
<1> DEFINE k == <<s.task[t].href, s.task[t].nextUrl>>
           a == readRouteCacheEntry(s, k[1], k[2])
           e == Len(a.route) + 1
           x == [status |-> "empty", stale |-> FALSE, blocked |-> {},
                 couldBeIntercepted |-> TRUE, keypath |-> k, version |-> s.version]
           b == [a EXCEPT !.route = Append(@, x), !.routeMap[k] = e, !.routeLru = @ \cup {e}, !.got = e]
           r == readOrCreateRouteCacheEntry(s, t)
<1>1. s.task[t] \in Task /\ s.version \in Nat
  BY DEF Rest, Tasks
<1>2. k[1] \in Hrefs /\ k[2] \in NextUrls /\ k \in RouteKeys
  BY <1>1 DEF Task, RouteKeys
<1>3. r = IF a.got # 0 THEN a ELSE b
  BY DEF readOrCreateRouteCacheEntry
<1>4. /\ x \in RouteEntry /\ x.status = "empty" /\ x.blocked = {} /\ x.keypath = k
      /\ x.version = s.version
  BY <1>1, <1>2 DEF RouteEntry, Statuses
<1> HIDE DEF x, k, r
<1>5. Rest(a, R) /\ RouteOnly(s, a) /\ a.got \in {0} \cup DOMAIN a.route
  BY <1>2, ReadRouteRest
<1> HIDE DEF a
<1>6. a.version = s.version
  BY <1>5 DEF RouteOnly
<1>7. Rest(b, R) /\ RouteOnly(a, b) /\ b.got \in DOMAIN b.route
  BY <1>2, <1>4, <1>5, <1>6, CreatedRoute
<1> HIDE DEF b
<1>8. RouteOnly(s, b)
  BY <1>5, <1>7, RouteTrans
<1> QED  BY <1>3, <1>5, <1>7, <1>8 DEF r

(* The entry is moved, and knows it.                                       *)
LEMMA RekeyRest ==
    ASSUME NEW s, NEW R, Rest(s, R), NEW e \in DOMAIN s.route, NEW href \in Hrefs
    PROVE  LET r == rekeyRoute(s, e, href)
           IN  /\ Rest(r, R) /\ DOMAIN r = Fields
               /\ r.segment = s.segment /\ r.segmentMap = s.segmentMap /\ r.segmentLru = s.segmentLru
               /\ r.thrown = s.thrown /\ s.faults \subseteq r.faults /\ r.faults \subseteq s.faults \cup {"overwritten"}
               /\ r.inProgress = s.inProgress /\ r.request = s.request /\ r.got = s.got
               /\ DOMAIN r.route = DOMAIN s.route /\ r.route[e].status = s.route[e].status
               /\ r.task = s.task
<1> DEFINE r == rekeyRoute(s, e, href)
           j == s.route[e].keypath
           k == <<href, None>>
           x == [s.route[e] EXCEPT !.keypath = k]
           F == IF s.routeMap[k] = 0 THEN s.faults ELSE s.faults \cup {"overwritten"}
           m == [s EXCEPT !.routeMap[j] = 0, !.routeMap[k] = e, !.route[e].keypath = k, !.faults = F]
<1>1. /\ DOMAIN s = Fields /\ s.route \in Seq(RouteEntry) /\ s.got \in Nat
      /\ s.routeMap \in [RouteKeys -> {0} \cup DOMAIN s.route]
      /\ s.route[e] \in RouteEntry
  BY DEF Rest, Tasks, Routes
<1>2. k \in RouteKeys /\ j \in RouteKeys
  BY <1>1 DEF RouteKeys, RouteEntry
<1>3. r = IF s.routeMap[j] = e THEN m ELSE s
  BY <1>1 DEF rekeyRoute
<1>4. CASE s.routeMap[j] # e
  BY <1>1, <1>3, <1>4
<1>5. CASE s.routeMap[j] = e
  <2>1. /\ x \in RouteEntry /\ x.keypath = k /\ x.status = s.route[e].status
        /\ x.blocked = s.route[e].blocked /\ x.version = s.route[e].version
    BY <1>1, <1>2 DEF RouteEntry
  <2>2. /\ DOMAIN m = Fields /\ m.route = [s.route EXCEPT ![e] = x]
        /\ m.link = s.link /\ m.visible = s.visible /\ m.router = s.router /\ m.task = s.task
        /\ m.queue = s.queue /\ m.sortId = s.sortId /\ m.inProgress = s.inProgress
        /\ m.scheduled = s.scheduled /\ m.running = s.running /\ m.request = s.request
        /\ m.routeMap = [[s.routeMap EXCEPT ![j] = 0] EXCEPT ![k] = e] /\ m.routeLru = s.routeLru
        /\ m.version = s.version /\ m.faults = F /\ m.got = s.got
        /\ m.thrown = s.thrown /\ m.segment = s.segment /\ m.segmentMap = s.segmentMap
        /\ m.segmentLru = s.segmentLru /\ m.left = s.left
    BY <1>1 DEF Fields
  <2>3. s.faults \subseteq F /\ F \subseteq s.faults \cup {"overwritten"}
    OBVIOUS
  <2> HIDE DEF m, x, F
  <2>4. /\ m.route \in Seq(RouteEntry) /\ DOMAIN m.route = DOMAIN s.route /\ m.route[e] = x
        /\ \A d \in DOMAIN s.route : d # e => m.route[d] = s.route[d]
    BY <1>1, <2>1, <2>2, UpdatedEntry
  <2>5. Tasks(m)
    BY <2>2 DEF Rest, Tasks
  <2>6. ASSUME NEW d \in DOMAIN s.route
        PROVE  /\ m.route[d].status = s.route[d].status
               /\ m.route[d].version = s.route[d].version /\ m.route[d].blocked = s.route[d].blocked
               /\ d # e => m.route[d].keypath = s.route[d].keypath
    BY <2>1, <2>4
  <2>7. ASSUME NEW q \in R PROVE RouteRequestOK(m, q)
    BY <2>2, <2>4, <2>6 DEF Rest, Routes, RouteRequestOK
  <2>8. e # 0 /\ e \in s.routeLru /\ s.route[e].version = s.version
    BY <1>1, <1>2, <1>5 DEF Rest, Routes
  <2>9. ASSUME NEW i \in RouteKeys, m.routeMap[i] # 0
        PROVE  LET d == m.routeMap[i] IN
                 /\ d \in m.routeLru /\ m.route[d].keypath = i /\ m.route[d].version = m.version
                 /\ d \in DOMAIN s.route
    <3>1. CASE i = k
      BY <1>1, <1>2, <2>1, <2>2, <2>4, <2>8, <3>1
    <3>2. CASE i # k
      <4>1. i # j /\ m.routeMap[i] = s.routeMap[i]
        BY <1>1, <1>2, <2>2, <2>9, <3>2
      <4> DEFINE d == s.routeMap[i]
      <4>2. d # 0 /\ d \in s.routeLru /\ s.route[d].keypath = i /\ s.route[d].version = s.version
        BY <2>9, <4>1 DEF Rest, Routes
      <4>3. d \in DOMAIN s.route /\ d # e
        BY <1>1, <4>1, <4>2
      <4> QED  BY <2>2, <2>6, <4>1, <4>2, <4>3
    <3> QED  BY <3>1, <3>2
  <2>10. \A d \in DOMAIN m.route : /\ m.route[d].blocked \subseteq DOMAIN m.task
                                   /\ m.route[d].status = "pending" => Unanswered(R, d)
    BY <2>2, <2>4, <2>6 DEF Rest, Routes
  <2>11. Routes(m, R)
    <3>1. m.routeMap \in [RouteKeys -> {0} \cup DOMAIN m.route]
      BY <1>1, <1>2, <2>2, <2>4
    <3> QED  BY <1>1, <2>2, <2>4, <2>7, <2>9, <2>10, <3>1 DEF Rest, Routes
  <2>12. Kept(m, R, {})
    <3>1. \A t : Blocked(s, R, t) => Blocked(m, R, t)
      BY <2>6 DEF Blocked, Rest, Routes, RouteRequestOK
    <3> QED  BY <2>2, <2>3, <3>1 DEF Rest, Kept
  <2> QED  BY <1>3, <1>5, <2>1, <2>2, <2>3, <2>4, <2>5, <2>11, <2>12 DEF Rest
<1> QED  BY <1>4, <1>5

-----------------------------------------------------------------------------
(* Answers to requests for routes                                          *)

(* Tasks and routes, where only the rest of the state changed.             *)
LEMMA RestFrame ==
    ASSUME NEW s, NEW R, Rest(s, R), NEW r, DOMAIN r = Fields, SameRoutes(s, r), r.got \in Nat,
           r.link = s.link, r.visible = s.visible, r.router = s.router, r.task = s.task,
           r.queue = s.queue, r.sortId = s.sortId, r.scheduled \in BOOLEAN, r.inProgress \in Int,
           r.running \in BOOLEAN, r.version = s.version, s.faults \subseteq r.faults
    PROVE  Rest(r, R)
<1>1. Tasks(r)
  BY DEF Rest, Tasks
<1>2. Routes(r, R)
  BY RoutesFrame DEF Rest
<1>3. Kept(r, R, {})
  BY DEF Rest, Kept, Blocked, SameRoutes
<1> QED  BY <1>1, <1>2, <1>3 DEF Rest

(* A request for a route was answered and stays open.                      *)
LEMMA RestOpened ==
    ASSUME NEW s, NEW R, Rest(s, R), NEW o, RouteRequestOK(s, o), o.open,
           \A q \in R : ~(q.kind = "route" /\ q.route = o.route)
    PROVE  Rest(s, R \cup {o})
<1>1. \A e : Unanswered(R, e) => Unanswered(R \cup {o}, e)
  BY DEF Unanswered
<1>2. \A t : Blocked(s, R, t) => Blocked(s, R \cup {o}, t)
  BY DEF Blocked
<1>3. Kept(s, R \cup {o}, {})
  BY <1>2 DEF Rest, Kept
<1>4. \A q \in R \cup {o} : RouteRequestOK(s, q)
  BY DEF Rest, Routes
<1>5. \A q, q2 \in R \cup {o} : q.kind = "route" /\ q2.kind = "route" /\ q.route = q2.route => q = q2
  BY DEF Rest, Routes
<1>6. Routes(s, R \cup {o})
  BY <1>1, <1>4, <1>5 DEF Rest, Routes
<1> QED  BY <1>3, <1>6 DEF Rest

(* A route is answered: nobody waits for the request any more, and the     *)
(* tasks that did are in the queue.                                        *)
LEMMA SettledRoute ==
    ASSUME Sound(state), NEW q \in state.request, q.kind = "route", ~q.open,
           NEW x \in RouteEntry, x.status \in {"fulfilled", "rejected"},
           x.blocked = state.route[q.route].blocked, x.keypath = state.route[q.route].keypath,
           x.version = state.route[q.route].version,
           NEW m, m = [state EXCEPT !.route[q.route] = x]
    PROVE  LET r == pingBlockedTasks(m, q.route)
           IN  /\ Rest(r, state.request \ {q}) /\ NotSegments(state, r) /\ r.got = state.got
               /\ q.route \in DOMAIN r.route /\ r.route[q.route].status = x.status
               /\ DOMAIN r.task = DOMAIN state.task
<1> DEFINE e == q.route
           R == state.request \ {q}
           r == pingBlockedTasks(m, e)
<1>1. /\ DOMAIN state = Fields /\ state.route \in Seq(RouteEntry) /\ e \in DOMAIN state.route
      /\ Tasks(state) /\ Routes(state, state.request) /\ Kept(state, state.request, {})
  BY DEF Sound, Rest, Tasks, Routes, RouteRequestOK
<1>2. /\ DOMAIN m = Fields /\ m.route = [state.route EXCEPT ![e] = x]
      /\ m.link = state.link /\ m.visible = state.visible /\ m.router = state.router /\ m.task = state.task
      /\ m.queue = state.queue /\ m.sortId = state.sortId /\ m.inProgress = state.inProgress
      /\ m.scheduled = state.scheduled /\ m.running = state.running /\ m.request = state.request
      /\ m.routeMap = state.routeMap /\ m.routeLru = state.routeLru
      /\ m.version = state.version /\ m.faults = state.faults /\ m.got = state.got
      /\ m.thrown = state.thrown /\ m.segment = state.segment /\ m.segmentMap = state.segmentMap
      /\ m.segmentLru = state.segmentLru /\ m.left = state.left
  BY <1>1 DEF Fields
<1>3. /\ m.route \in Seq(RouteEntry) /\ DOMAIN m.route = DOMAIN state.route /\ m.route[e] = x
      /\ \A d \in DOMAIN state.route : d # e => m.route[d] = state.route[d]
  BY <1>1, <1>2, UpdatedEntry
<1>4. \A p \in R : ~(p.kind = "route" /\ p.route = e)
  BY <1>1 DEF Routes
<1>5. Tasks(m)
  BY <1>1, <1>2 DEF Tasks
<1>6. Routes(m, R)
  <2>1. ASSUME NEW p \in R PROVE RouteRequestOK(m, p)
    BY <1>1, <1>2, <1>3, <1>4 DEF Routes, RouteRequestOK
  <2>2. \A k \in RouteKeys : LET d == m.routeMap[k] IN
          d # 0 => d \in m.routeLru /\ m.route[d].keypath = k /\ m.route[d].version = m.version
    BY <1>1, <1>2, <1>3 DEF Routes
  <2>3. ASSUME NEW d \in DOMAIN m.route
        PROVE  /\ m.route[d].blocked \subseteq DOMAIN m.task
               /\ m.route[d].status = "pending" => Unanswered(R, d)
    <3>1. CASE d = e
      BY <1>1, <1>2, <1>3, <3>1 DEF Routes
    <3>2. CASE d # e
      <4>1. m.route[d] = state.route[d] /\ d \in DOMAIN state.route
        BY <1>3, <3>2
      <4>2. Unanswered(state.request, d) => Unanswered(R, d)
        BY <3>2 DEF Unanswered
      <4> QED  BY <1>1, <1>2, <4>1, <4>2 DEF Routes
    <3> QED  BY <3>1, <3>2
  <2>4. \A p, p2 \in R : p.kind = "route" /\ p2.kind = "route" /\ p.route = p2.route => p = p2
    BY <1>1 DEF Routes
  <2> QED  BY <1>1, <1>2, <1>3, <2>1, <2>2, <2>3, <2>4 DEF Routes
<1>7. Kept(m, R, x.blocked)
  <2>1. ASSUME NEW t, Blocked(state, state.request, t), t \notin x.blocked PROVE Blocked(m, R, t)
    <3>1. PICK p \in state.request : p.kind = "route" /\ ~p.open /\ t \in state.route[p.route].blocked
      BY <2>1 DEF Blocked
    <3>2. p.route # e /\ p \in R /\ p.route \in DOMAIN state.route
      BY <1>1, <2>1, <3>1 DEF Routes, RouteRequestOK
    <3> QED  BY <1>3, <3>1, <3>2 DEF Blocked
  <2> QED  BY <1>1, <1>2, <2>1 DEF Kept
<1> HIDE DEF R, e
<1>8. /\ Rest(r, R) /\ RouteOnly(m, r) /\ r.got = m.got /\ DOMAIN r.route = DOMAIN m.route
  <2>1. e \in DOMAIN m.route /\ x.blocked \subseteq m.route[e].blocked
    BY <1>1, <1>3
  <2> QED  BY <1>5, <1>6, <1>7, <2>1, PingBlockedRest
<1> HIDE DEF r
<1>9. NotSegments(state, r)
  <2>1. NotSegments(m, r)
    BY <1>8 DEF RouteOnly
  <2> QED  BY <1>2, <2>1 DEF NotSegments
<1>10. e \in DOMAIN r.route /\ r.route[e].status = x.status /\ DOMAIN r.task = DOMAIN state.task
  <2>1. r.task = m.task /\ \A d \in DOMAIN m.route : r.route[d].status = m.route[d].status
    BY <1>8 DEF RouteOnly
  <2> QED  BY <1>1, <1>2, <1>3, <1>8, <2>1
<1> QED  BY <1>2, <1>8, <1>9, <1>10 DEF r, e, R

(* A request for a route failed.                                           *)
LEMMA RouteClosed ==
    ASSUME Sound(state), NEW q \in state.request, q.kind = "route", ~q.open, NEW u,
           Rest(u, state.request \ {q}), NotSegments(state, u)
    PROVE  LET r == onPrefetchConnectionClosed(u, q) IN Sound(r) /\ FullKept(state, r)
<1> DEFINE R == state.request \ {q}
           r == onPrefetchConnectionClosed(u, q)
<1>1. /\ DOMAIN u = Fields /\ u.scheduled \in BOOLEAN /\ u.got \in Nat /\ u.inProgress \in Int
      /\ u.running \in BOOLEAN
  BY DEF Rest, Tasks, Routes
<1>2. /\ DOMAIN r = Fields /\ r.request = u.request \ {q} /\ r.inProgress = u.inProgress - 1
      /\ r.scheduled \in BOOLEAN
      /\ r.link = u.link /\ r.visible = u.visible /\ r.router = u.router /\ r.task = u.task
      /\ r.queue = u.queue /\ r.sortId = u.sortId /\ r.running = u.running
      /\ r.route = u.route /\ r.routeMap = u.routeMap /\ r.routeLru = u.routeLru
      /\ r.version = u.version /\ r.left = u.left /\ r.faults = u.faults /\ r.got = u.got
      /\ r.thrown = u.thrown /\ r.segment = u.segment /\ r.segmentMap = u.segmentMap
      /\ r.segmentLru = u.segmentLru
  BY <1>1, ClosedFields
<1> HIDE DEF r
<1>3. /\ u.request = state.request /\ u.inProgress = state.inProgress /\ u.faults = state.faults
      /\ u.thrown = state.thrown /\ u.segment = state.segment /\ u.segmentMap = state.segmentMap
      /\ u.segmentLru = state.segmentLru
  BY DEF NotSegments
<1>4. Rest(r, R)
  <2>1. SameRoutes(u, r) /\ r.got \in Nat /\ r.running \in BOOLEAN /\ r.inProgress \in Int
    BY <1>1, <1>2 DEF SameRoutes
  <2> QED  BY <1>2, <2>1, RestFrame
<1>5. Seg(r, R, {})
  <2>1. Seg(state, R, {})
    BY AnsweringSeg DEF Sound
  <2>2. /\ r.got \in Nat /\ r.thrown \in BOOLEAN /\ state.faults \subseteq r.faults
        /\ (r.thrown => "recursion" \in r.faults)
    BY <1>1, <1>2, <1>3 DEF Sound, Seg, SegmentTypes
  <2>3. /\ r.segment = state.segment /\ r.segmentMap = state.segmentMap /\ r.segmentLru = state.segmentLru
    BY <1>2, <1>3
  <2> HIDE DEF R
  <2> QED  BY <1>2, <2>1, <2>2, <2>3, SegFrame
<1>6. Counted(r)
  BY <1>1, <1>2, <1>3, RemovedCounted DEF Sound
<1>7. Bounded(r)
  BY <1>1, <1>2, <1>3, WithinMonotone DEF Sound, Bounded
<1>8. r.request = R
  BY <1>2, <1>3
<1>9. FullKept(state, r)
  BY <1>2, <1>3 DEF FullKept
<1> QED  BY <1>4, <1>5, <1>6, <1>7, <1>8, <1>9 DEF Sound, r

(* A request for a route was answered.                                     *)
LEMMA RouteOpened ==
    ASSUME Sound(state), NEW q \in state.request, q.kind = "route", ~q.open, NEW u,
           Rest(u, state.request \ {q}), DOMAIN u = Fields,
           u.segment = state.segment, u.segmentMap = state.segmentMap, u.segmentLru = state.segmentLru,
           u.thrown = state.thrown, state.faults \subseteq u.faults,
           u.faults \subseteq state.faults \cup {"overwritten"},
           u.inProgress = state.inProgress, u.request = state.request,
           q.route \in DOMAIN u.route, u.route[q.route].status \in {"fulfilled", "rejected"},
           DOMAIN u.task = DOMAIN state.task
    PROVE  LET r == opened(u, q) IN Sound(r) /\ FullKept(state, r)
<1> DEFINE R == state.request \ {q}
           o == [q EXCEPT !.open = TRUE]
           r == opened(u, q)
<1>1. u.scheduled \in BOOLEAN /\ u.got \in Nat /\ u.inProgress \in Int /\ u.running \in BOOLEAN
  BY DEF Rest, Tasks, Routes
<1>2. /\ DOMAIN r = Fields /\ r.request = R \cup {o} /\ r.inProgress = u.inProgress
      /\ r.scheduled = u.scheduled
      /\ r.link = u.link /\ r.visible = u.visible /\ r.router = u.router /\ r.task = u.task
      /\ r.queue = u.queue /\ r.sortId = u.sortId /\ r.running = u.running
      /\ r.route = u.route /\ r.routeMap = u.routeMap /\ r.routeLru = u.routeLru
      /\ r.version = u.version /\ r.left = u.left /\ r.faults = u.faults /\ r.got = u.got
      /\ r.thrown = u.thrown /\ r.segment = u.segment /\ r.segmentMap = u.segmentMap
      /\ r.segmentLru = u.segmentLru
  BY DEF opened, Fields
<1>3. RequestOK(state, q) /\ RouteRequestOK(state, q)
  BY DEF Sound, Seg, Rest, Routes
<1>4. o.kind = q.kind /\ o.task = q.task /\ o.route = q.route /\ o.open /\ o.entries = q.entries
  BY <1>3 DEF RequestOK, Request
<1> HIDE DEF r
<1>5. \A p \in state.request : p.kind = "route" /\ p.route = q.route => p = q
  BY DEF Sound, Rest, Routes
<1>6. o \notin state.request \/ o = q
  BY <1>4, <1>5
<1>7. Seg(r, R \cup {o}, {})
  <2>1. Seg(state, R, {}) /\ Disjoint(R \cup {q}) /\ q \notin R
    BY AnsweringSeg DEF Sound, Seg, Disjoint
  <2>2. /\ r.got \in Nat /\ r.thrown \in BOOLEAN /\ state.faults \subseteq r.faults
        /\ (r.thrown => "recursion" \in r.faults)
    BY <1>1, <1>2 DEF Sound, Seg, SegmentTypes
  <2>3. /\ r.segment = state.segment /\ r.segmentMap = state.segmentMap /\ r.segmentLru = state.segmentLru
    BY <1>2
  <2> HIDE DEF R
  <2>4. Seg(r, R, {})
    BY <1>2, <2>1, <2>2, <2>3, SegFrame
  <2> QED  BY <1>3, <2>1, <2>3, <2>4, OpenedSeg
<1> HIDE DEF o
<1>8. Rest(r, R \cup {o})
  <2>1. SameRoutes(u, r) /\ r.got \in Nat /\ r.running \in BOOLEAN /\ r.inProgress \in Int
        /\ r.scheduled \in BOOLEAN
    BY <1>1, <1>2 DEF SameRoutes
  <2>2. Rest(r, R)
    BY <1>2, <2>1, RestFrame
  <2>3. RouteRequestOK(r, o)
    BY <1>2, <1>3, <1>4 DEF RouteRequestOK
  <2>4. \A p \in R : ~(p.kind = "route" /\ p.route = o.route)
    BY <1>4, <1>5
  <2> QED  BY <1>4, <2>2, <2>3, <2>4, RestOpened
<1>9. Counted(r)
  <2>1. r.request = (state.request \ {q}) \cup {o} /\ r.inProgress = state.inProgress /\ state.faults \subseteq r.faults
    BY <1>2
  <2> QED  BY <1>6, <2>1, ReplacedCounted DEF Sound
<1>10. Bounded(r)
  BY <1>1, <1>2 DEF Sound, Bounded
<1>11. FullKept(state, r)
  BY <1>2 DEF FullKept
<1> QED  BY <1>2, <1>7, <1>8, <1>9, <1>10, <1>11 DEF Sound, r

(* fetchRouteOnCacheMiss: the route is settled, moved if need be, and its  *)
(* tasks are called.                                                       *)
LEMMA RouteAnswer ==
    ASSUME Sound(state), NEW q \in state.request, q.kind = "route", ~q.open, NEW outcome \in Outcomes
    PROVE  LET r == fetchRouteOnCacheMiss(q, outcome) IN Sound(r) /\ FullKept(state, r)
<1> DEFINE e == q.route
           href == state.task[q.task].href
           nextUrl == state.task[q.task].nextUrl
           status == IF outcome = "fulfilled" THEN outcome ELSE "rejected"
           c == IF status = "rejected" THEN state.route[e].couldBeIntercepted ELSE href \in Interceptable
           x == [state.route[e] EXCEPT !.status = status, !.stale = FALSE, !.couldBeIntercepted = c]
           m == [state EXCEPT !.route[e] = [@ EXCEPT !.status = status, !.stale = FALSE, !.couldBeIntercepted = c]]
           u == pingBlockedTasks(m, e)
           v == rekeyRoute(u, e, href)
           r == fetchRouteOnCacheMiss(q, outcome)
           R == state.request \ {q}
<1>1. /\ e \in DOMAIN state.route /\ q.task \in DOMAIN state.task /\ DOMAIN state = Fields
      /\ state.route[e] \in RouteEntry /\ state.task[q.task] \in Task
  BY DEF Sound, Rest, Tasks, Routes, RouteRequestOK
<1>2. href \in Hrefs
  BY <1>1 DEF Task
<1>3. status \in {"fulfilled", "rejected"} /\ c \in BOOLEAN
  <2>1. state.route[e].couldBeIntercepted \in BOOLEAN
    BY <1>1 DEF RouteEntry
  <2>2. status \in {"fulfilled", "rejected"}
    OBVIOUS
  <2> HIDE DEF status, e, href
  <2>3. CASE status = "rejected"
    BY <2>1, <2>2, <2>3
  <2>4. CASE status # "rejected"
    <3> DEFINE i == href \in Interceptable
    <3>1. i \in BOOLEAN
      OBVIOUS
    <3> HIDE DEF i
    <3>2. c = IF status = "rejected" THEN state.route[e].couldBeIntercepted ELSE i
      BY DEF i
    <3> HIDE DEF c
    <3> QED  BY <2>2, <2>4, <3>1, <3>2
  <2> QED  BY <2>3, <2>4
<1>4. /\ x \in RouteEntry /\ x.status = status /\ x.blocked = state.route[e].blocked
      /\ x.keypath = state.route[e].keypath /\ x.version = state.route[e].version
  BY <1>1, <1>3 DEF RouteEntry, Statuses
<1>5. r = IF outcome = "rejected" THEN onPrefetchConnectionClosed(u, q)
          ELSE opened(IF href \notin Interceptable /\ nextUrl # None THEN v ELSE u, q)
  BY DEF fetchRouteOnCacheMiss
<1> HIDE DEF r, status, c
<1>14. m = [state EXCEPT !.route[e] = x]
  BY <1>1 DEF Fields
<1> HIDE DEF x, m
<1>6. /\ Rest(u, R) /\ NotSegments(state, u) /\ u.got = state.got
      /\ e \in DOMAIN u.route /\ u.route[e].status \in {"fulfilled", "rejected"}
      /\ DOMAIN u.task = DOMAIN state.task
  BY <1>3, <1>4, <1>14, SettledRoute
<1> HIDE DEF u
<1>7. CASE outcome = "rejected"
  BY <1>5, <1>6, <1>7, RouteClosed DEF r
<1>8. CASE outcome # "rejected"
  <2>1. /\ DOMAIN u = Fields /\ u.segment = state.segment /\ u.segmentMap = state.segmentMap
        /\ u.segmentLru = state.segmentLru /\ u.thrown = state.thrown /\ u.faults = state.faults
        /\ u.inProgress = state.inProgress /\ u.request = state.request
    BY <1>6 DEF NotSegments
  <2>2. /\ Rest(v, R) /\ DOMAIN v = Fields
        /\ v.segment = u.segment /\ v.segmentMap = u.segmentMap /\ v.segmentLru = u.segmentLru
        /\ v.thrown = u.thrown /\ u.faults \subseteq v.faults /\ v.faults \subseteq u.faults \cup {"overwritten"}
        /\ v.inProgress = u.inProgress /\ v.request = u.request
        /\ DOMAIN v.route = DOMAIN u.route /\ v.route[e].status = u.route[e].status
        /\ v.task = u.task
    BY <1>2, <1>6, RekeyRest
  <2> HIDE DEF v, e, R
  <2>3. LET w == opened(u, q) IN Sound(w) /\ FullKept(state, w)
    BY <1>6, <2>1, RouteOpened DEF e, R
  <2>4. LET w == opened(v, q) IN Sound(w) /\ FullKept(state, w)
    BY <1>6, <2>1, <2>2, RouteOpened DEF e, R
  <2> QED  BY <1>5, <1>8, <2>3, <2>4 DEF r
<1> QED  BY <1>7, <1>8

-----------------------------------------------------------------------------
(* Links, the router, time and memory                                      *)

(* Removing from a sequence leaves a sequence.                             *)
LEMMA RemovedFirst ==
    ASSUME NEW S, NEW s \in Seq(S), NEW e
    PROVE  RemoveFirst(s, e) \in Seq(S)
<1> DEFINE I == {i \in 1..Len(s) : s[i] = e}
<1>1. CASE I = {}
  BY <1>1 DEF RemoveFirst
<1>2. CASE I # {}
  <2>1. Min(I) \in I
    <3>1. I \subseteq Int /\ IsFiniteSet(I)
      BY FS_Interval, FS_Subset
    <3> HIDE DEF I
    <3> QED  BY <1>2, <3>1, MinInSet
  <2>2. RemoveFirst(s, e) = RemoveAt(s, Min(I))
    BY <1>2 DEF RemoveFirst, SelectInSeq
  <2>3. \A i \in 1..Len(s) : RemoveAt(s, i) \in Seq(S)
    BY DEF RemoveAt
  <2> QED  BY <2>1, <2>2, <2>3
<1> QED  BY <1>1, <1>2

(* A link is changed.                                                      *)
LEMMA SetLink ==
    ASSUME NEW s, NEW R, Rest(s, R), NEW l \in Links, NEW x \in Link, x.task \in {0} \cup DOMAIN s.task,
           NEW r, r = [s EXCEPT !.link[l] = x]
    PROVE  Rest(r, R) /\ QueueOnly(s, r) /\ SameRoutes(s, r) /\ r.link = [s.link EXCEPT ![l] = x]
           /\ r.task = s.task
<1>1. DOMAIN s = Fields /\ s.link \in [Links -> Link] /\ s.got \in Nat
  BY DEF Rest, Tasks, Routes
<1>2. /\ DOMAIN r = Fields /\ r.route = s.route /\ r.link = [s.link EXCEPT ![l] = x]
      /\ r.visible = s.visible /\ r.router = s.router /\ r.task = s.task
      /\ r.queue = s.queue /\ r.sortId = s.sortId /\ r.inProgress = s.inProgress
      /\ r.scheduled = s.scheduled /\ r.running = s.running /\ r.request = s.request
      /\ r.routeMap = s.routeMap /\ r.routeLru = s.routeLru
      /\ r.version = s.version /\ r.faults = s.faults /\ r.got = s.got
      /\ r.thrown = s.thrown /\ r.segment = s.segment /\ r.segmentMap = s.segmentMap
      /\ r.segmentLru = s.segmentLru /\ r.left = s.left
  BY <1>1 DEF Fields
<1>3. /\ r.link \in [Links -> Link] /\ \A k \in Links : r.link[k].task \in {0} \cup DOMAIN r.task
  BY <1>1, <1>2 DEF Rest, Tasks
<1>4. QueueOnly(s, r) /\ SameRoutes(s, r)
  BY <1>2 DEF QueueOnly, SameRoutes, NotSegments
<1>5. Tasks(r)
  BY <1>2, <1>3 DEF Rest, Tasks
<1>6. Routes(r, R)
  BY <1>1, <1>2, <1>4, RoutesFrame DEF Rest
<1>7. Kept(r, R, {})
  BY <1>2 DEF Rest, Kept, Blocked
<1> QED  BY <1>2, <1>4, <1>5, <1>6, <1>7 DEF Rest

(* A link gets a new task.                                                 *)
LEMMA ScheduleLinkRest ==
    ASSUME NEW s, NEW R, Rest(s, R), NEW l \in Links
    PROVE  LET r == scheduleLink(s, l) IN Rest(r, R) /\ QueueOnly(s, r) /\ SameRoutes(s, r)
<1> DEFINE href == LinkHref[l]
           nextUrl == s.router.nextUrl
           tree == s.router.tree
           full == l \in FullLinks
           priority == linkPriority(s, l)
           m == schedulePrefetchTask(s, href, nextUrl, tree, full, priority)
           t == Len(s.task) + 1
           x == [m.link[l] EXCEPT !.task = t, !.version = s.version]
           r == [m EXCEPT !.link[l].task = t, !.link[l].version = s.version]
<1>1. scheduleLink(s, l) = r
  BY DEF scheduleLink
<1>2. /\ s.router \in Router /\ s.link \in [Links -> Link] /\ s.version \in Nat /\ DOMAIN s = Fields
      /\ s.task \in Seq(Task)
  BY DEF Rest, Tasks
<1>3. /\ href \in Hrefs /\ nextUrl \in NextUrls /\ tree \in Nat /\ full \in BOOLEAN
      /\ priority \in {Background, Default, Intent}
  BY <1>2, LinkAssumption DEF Router, linkPriority
<1> HIDE DEF href, nextUrl, tree, full, priority
<1>4. /\ Rest(m, R) /\ QueueOnly(s, m) /\ SameRoutes(s, m)
      /\ DOMAIN m.task = DOMAIN s.task \cup {t} /\ m.link = s.link
  BY <1>3, ScheduleRest
<1> HIDE DEF m
<1>5. t \in Nat /\ t \in DOMAIN m.task /\ m.link[l] \in Link
  BY <1>2, <1>4
<1> HIDE DEF t
<1>6. x \in Link /\ x.task \in {0} \cup DOMAIN m.task
  <2>1. s.version \in Int
    BY <1>2
  <2>2. x \in Link /\ x.task = t
    BY <1>5, <2>1 DEF Link
  <2> QED  BY <1>5, <2>2
<1>7. r = [m EXCEPT !.link[l] = x]
  <2>1. DOMAIN m = Fields
    BY <1>4 DEF Rest, Tasks
  <2>2. m.link \in [Links -> Link]
    BY <1>2, <1>4
  <2> QED  BY <2>1, <2>2 DEF Fields, Link
<1> HIDE DEF x, r
<1>8. Rest(r, R) /\ QueueOnly(m, r) /\ SameRoutes(m, r)
  BY <1>4, <1>6, <1>7, SetLink
<1>9. QueueOnly(s, r)
  BY <1>4, <1>8, QueueTrans
<1> QED  BY <1>1, <1>4, <1>8, <1>9 DEF SameRoutes, r

(* rescheduleLinkPrefetch.                                                 *)
LEMMA RescheduleRest ==
    ASSUME NEW s, NEW R, Rest(s, R), NEW l \in Links
    PROVE  LET r == rescheduleLinkPrefetch(s, l) IN Rest(r, R) /\ QueueOnly(s, r)
<1>1. s.link[l].task \in {0} \cup DOMAIN s.task
  BY DEF Rest, Tasks
<1>2. linkPriority(s, l) \in {Background, Default, Intent}
  BY DEF linkPriority
<1>3. CASE l \notin Range(s.visible)
  BY <1>1, <1>3, CancelRest DEF rescheduleLinkPrefetch
<1>4. CASE l \in Range(s.visible) /\ s.link[l].task = 0
  BY <1>4, ScheduleLinkRest DEF rescheduleLinkPrefetch
<1>5. CASE l \in Range(s.visible) /\ s.link[l].task # 0
  BY <1>1, <1>2, <1>5, BumpRest DEF rescheduleLinkPrefetch
<1> QED  BY <1>3, <1>4, <1>5

(* One visible link is called.                                             *)
LEMMA PingVisibleRest ==
    ASSUME NEW s, NEW R, Rest(s, R), NEW l \in Links
    PROVE  LET r == pingVisibleLink(s, l) IN Rest(r, R) /\ QueueOnly(s, r)
<1> DEFINE t == s.link[l].task
           a == cancelPrefetchTask(s, t)
           b == scheduleLink(a, l)
           r == pingVisibleLink(s, l)
<1>1. t \in {0} \cup DOMAIN s.task
  BY DEF Rest, Tasks
<1>2. r = s \/ r = b
  BY DEF pingVisibleLink
<1>3. QueueOnly(s, s)
  BY DEF QueueOnly, NotSegments, Rest, Tasks
<1> HIDE DEF r, t
<1>4. Rest(a, R) /\ QueueOnly(s, a)
  BY <1>1, CancelRest
<1> HIDE DEF a
<1>5. Rest(b, R) /\ QueueOnly(a, b)
  BY <1>4, ScheduleLinkRest
<1>6. QueueOnly(s, b)
  BY <1>4, <1>5, QueueTrans
<1> QED  BY <1>2, <1>3, <1>5, <1>6 DEF r

(* pingVisibleLinks.                                                       *)
LEMMA PingVisibleFold ==
    ASSUME NEW s, NEW R, Rest(s, R)
    PROVE  LET r == pingVisibleLinks(s) IN Rest(r, R) /\ QueueOnly(s, r)
<1> DEFINE tree == s.visible
           f == [op |-> "link", s |-> s, R |-> R, seq |-> tree]
<1>1. f.s = s /\ f.R = R /\ f.seq = tree /\ f.op = "link"
  OBVIOUS
<1> HIDE DEF f
<1>2. tree \in Seq(Links)
  BY DEF Rest, Tasks
<1>3. DOMAIN tree \subseteq Int /\ IsFiniteSet(DOMAIN tree)
  BY <1>2, FS_Interval
<1> HIDE DEF tree
<1>4. \A x, a : Apply(f, x, a) = pingVisibleLink(a, tree[x])
  BY <1>1 DEF Apply
<1>5. \A S, a : Holds(f, S, a) <=> Rest(a, R) /\ QueueOnly(s, a)
  BY <1>1 DEF Holds, LinkHolds
<1>6. ASSUME NEW S \in SUBSET DOMAIN tree, S # {}, NEW a, Holds(f, S \ {Max(S)}, a)
      PROVE  Holds(f, S, Apply(f, Max(S), a))
  <2>1. Max(S) \in S
    BY <1>3, <1>6, MaxInSet, FS_Subset
  <2>2. tree[Max(S)] \in Links /\ Rest(a, R) /\ QueueOnly(s, a)
    BY <1>2, <1>5, <1>6, <2>1
  <2> DEFINE r == pingVisibleLink(a, tree[Max(S)])
  <2>3. Rest(r, R) /\ QueueOnly(a, r)
    BY <2>2, PingVisibleRest
  <2>4. QueueOnly(s, r)
    BY <2>2, <2>3, QueueTrans
  <2>5. Apply(f, Max(S), a) = r
    BY <1>4
  <2> QED  BY <1>5, <2>3, <2>4, <2>5
<1> DEFINE P(g) == g = [S \in SUBSET DOMAIN tree |->
                          IF S = {} THEN s ELSE pingVisibleLink(g[S \ {Max(S)}], tree[Max(S)])]
<1>7. ASSUME NEW g PROVE P(g) <=> LeftFolds(f, s, DOMAIN tree, g)
  <2>1. [S \in SUBSET DOMAIN tree |->
            IF S = {} THEN s ELSE pingVisibleLink(g[S \ {Max(S)}], tree[Max(S)])]
          = [S \in SUBSET DOMAIN tree |-> IF S = {} THEN s ELSE Apply(f, Max(S), g[S \ {Max(S)}])]
    BY <1>4
  <2> QED  BY <2>1 DEF LeftFolds
<1>8. /\ \E g : LeftFolds(f, s, DOMAIN tree, g)
      /\ \A g : LeftFolds(f, s, DOMAIN tree, g) => Holds(f, DOMAIN tree, g[DOMAIN tree])
  <2>1. Holds(f, {}, s)
    BY <1>5 DEF QueueOnly, NotSegments, Rest, Tasks
  <2>2. \A S \in SUBSET DOMAIN tree : S # {} =>
            \A a : Holds(f, S \ {Max(S)}, a) => Holds(f, S, Apply(f, Max(S), a))
    BY <1>6
  <2> QED  BY <1>3, <2>1, <2>2, FoldedLeft
<1>9. pingVisibleLinks(s) = (CHOOSE g : P(g))[DOMAIN tree]
  BY DEF pingVisibleLinks, FoldLeft, MapThenFoldSet, tree
<1> HIDE DEF P
<1>10. Holds(f, DOMAIN tree, pingVisibleLinks(s))
  BY <1>7, <1>8, <1>9
<1> QED  BY <1>5, <1>10

(* r is a state that a step may lead to.                                   *)
Good(r) == Sound(r) /\ FullKept(state, r)

(* Where segments and requests stay, tasks and routes are all there is to  *)
(* see.                                                                    *)
LEMMA MovedSound ==
    ASSUME NEW s, Sound(s), NEW r, Rest(r, s.request), NotSegments(s, r)
    PROVE  Sound(r) /\ FullKept(s, r)
<1>1. /\ DOMAIN r = Fields /\ r.segment = s.segment /\ r.segmentMap = s.segmentMap
      /\ r.segmentLru = s.segmentLru /\ r.thrown = s.thrown /\ r.faults = s.faults
      /\ r.inProgress = s.inProgress /\ r.request = s.request
  BY DEF NotSegments
<1>2. Seg(r, s.request, {})
  <2>1. Seg(s, s.request, {})
    BY DEF Sound
  <2>2. r.got \in Nat /\ s.faults \subseteq r.faults
    BY <1>1 DEF Rest, Routes
  <2>3. r.thrown \in BOOLEAN /\ (r.thrown => "recursion" \in r.faults)
    BY <1>1, <2>1 DEF Seg, SegmentTypes
  <2> QED  BY <1>1, <2>1, <2>2, <2>3, SegFrame
<1>3. Counted(r) /\ Bounded(r)
  BY <1>1 DEF Sound, Counted, Bounded
<1>4. FullKept(s, r)
  BY <1>1 DEF FullKept
<1> QED  BY <1>1, <1>2, <1>3, <1>4 DEF Sound

(* Counting an event changes nothing else.                                 *)
LEMMA SpentGood ==
    ASSUME NEW s, Good(s) PROVE Good(spent(s))
<1> DEFINE r == spent(s)
<1>1. DOMAIN s = Fields /\ s.scheduled \in BOOLEAN /\ s.running \in BOOLEAN /\ s.inProgress \in Int /\ s.got \in Nat
  BY DEF Good, Sound, Rest, Tasks, Routes
<1>2. /\ DOMAIN r = Fields /\ r.route = s.route /\ r.link = s.link
      /\ r.visible = s.visible /\ r.router = s.router /\ r.task = s.task
      /\ r.queue = s.queue /\ r.sortId = s.sortId /\ r.inProgress = s.inProgress
      /\ r.scheduled = s.scheduled /\ r.running = s.running /\ r.request = s.request
      /\ r.routeMap = s.routeMap /\ r.routeLru = s.routeLru
      /\ r.version = s.version /\ r.faults = s.faults /\ r.got = s.got
      /\ r.thrown = s.thrown /\ r.segment = s.segment /\ r.segmentMap = s.segmentMap
      /\ r.segmentLru = s.segmentLru
  BY <1>1 DEF spent, Fields
<1> HIDE DEF r
<1>3. Rest(r, s.request)
  <2>1. /\ SameRoutes(s, r) /\ r.got \in Nat /\ r.scheduled \in BOOLEAN /\ r.running \in BOOLEAN
        /\ r.inProgress \in Int /\ s.faults \subseteq r.faults
    BY <1>1, <1>2 DEF SameRoutes
  <2> QED  BY <1>2, <2>1, RestFrame DEF Good, Sound
<1>4. Seg(r, s.request, {})
  <2>1. Seg(s, s.request, {})
    BY DEF Good, Sound
  <2>2. r.got \in Nat /\ s.faults \subseteq r.faults
    BY <1>1, <1>2
  <2>3. r.thrown \in BOOLEAN /\ (r.thrown => "recursion" \in r.faults)
    BY <1>2, <2>1 DEF Seg, SegmentTypes
  <2> QED  BY <1>2, <2>1, <2>2, <2>3, SegFrame
<1>5. Counted(r) /\ Bounded(r)
  BY <1>2 DEF Good, Sound, Counted, Bounded
<1>6. FullKept(state, r)
  BY <1>2 DEF Good, FullKept
<1> QED  BY <1>2, <1>3, <1>4, <1>5, <1>6 DEF Good, Sound, r

(* onLinkVisibilityChanged.                                                *)
LEMMA VisibilityGood ==
    ASSUME Sound(state), NEW l \in Links, NEW visible \in Seq(Links)
    PROVE  Good(rescheduleLinkPrefetch([state EXCEPT !.visible = visible], l))
<1> DEFINE a == [state EXCEPT !.visible = visible]
           r == rescheduleLinkPrefetch(a, l)
<1>1. DOMAIN state = Fields /\ state.got \in Nat
  BY DEF Sound, Rest, Tasks, Routes
<1>2. /\ DOMAIN a = Fields /\ a.route = state.route /\ a.link = state.link
      /\ a.visible = visible /\ a.router = state.router /\ a.task = state.task
      /\ a.queue = state.queue /\ a.sortId = state.sortId /\ a.inProgress = state.inProgress
      /\ a.scheduled = state.scheduled /\ a.running = state.running /\ a.request = state.request
      /\ a.routeMap = state.routeMap /\ a.routeLru = state.routeLru
      /\ a.version = state.version /\ a.faults = state.faults /\ a.got = state.got
      /\ a.thrown = state.thrown /\ a.segment = state.segment /\ a.segmentMap = state.segmentMap
      /\ a.segmentLru = state.segmentLru /\ a.left = state.left
  BY <1>1 DEF Fields
<1> HIDE DEF a
<1>3. Rest(a, state.request) /\ NotSegments(state, a)
  <2>1. Tasks(a)
    BY <1>2 DEF Sound, Rest, Tasks
  <2>2. Routes(a, state.request)
    BY <1>1, <1>2, RoutesFrame DEF Sound, Rest, SameRoutes
  <2>3. Kept(a, state.request, {})
    BY <1>2 DEF Sound, Rest, Kept, Blocked
  <2> QED  BY <1>2, <2>1, <2>2, <2>3 DEF Rest, NotSegments
<1>4. Rest(r, state.request) /\ QueueOnly(a, r)
  BY <1>3, RescheduleRest
<1> HIDE DEF r
<1>5. NotSegments(state, r)
  BY <1>3, <1>4 DEF QueueOnly, NotSegments
<1>6. Sound(r) /\ FullKept(state, r)
  BY <1>4, <1>5, MovedSound
<1> QED  BY <1>6 DEF Good, r, a

(* onNavigationIntent.                                                     *)
LEMMA IntentGood ==
    ASSUME Sound(state), NEW l \in Links
    PROVE  Good(rescheduleLinkPrefetch([state EXCEPT !.link[l].hovered = TRUE], l))
<1> DEFINE a == [state EXCEPT !.link[l].hovered = TRUE]
           x == [state.link[l] EXCEPT !.hovered = TRUE]
           r == rescheduleLinkPrefetch(a, l)
<1>1. /\ DOMAIN state = Fields /\ state.link \in [Links -> Link]
      /\ state.link[l].task \in {0} \cup DOMAIN state.task
  BY DEF Sound, Rest, Tasks
<1>2. x \in Link /\ x.task = state.link[l].task
  BY <1>1 DEF Link
<1>3. a = [state EXCEPT !.link[l] = x]
  BY <1>1 DEF Fields
<1> HIDE DEF a, x
<1>4. Rest(a, state.request) /\ QueueOnly(state, a)
  BY <1>1, <1>2, <1>3, SetLink DEF Sound
<1>5. Rest(r, state.request) /\ QueueOnly(a, r)
  BY <1>4, RescheduleRest
<1> HIDE DEF r
<1>6. NotSegments(state, r)
  BY <1>4, <1>5 DEF QueueOnly, NotSegments
<1>7. Sound(r) /\ FullKept(state, r)
  BY <1>5, <1>6, MovedSound
<1> QED  BY <1>7 DEF Good, r, a

(* unmountPrefetchableInstance.                                            *)
LEMMA UnmountGood ==
    ASSUME Sound(state), NEW l \in Links
    PROVE  Good([cancelPrefetchTask(state, state.link[l].task) EXCEPT
                    !.visible = RemoveFirst(@, l), !.link[l] = [hovered |-> FALSE, task |-> 0, version |-> -1]])
<1> DEFINE t == state.link[l].task
           c == cancelPrefetchTask(state, t)
           x == [hovered |-> FALSE, task |-> 0, version |-> -1]
           v == RemoveFirst(c.visible, l)
           r == [c EXCEPT !.visible = RemoveFirst(@, l), !.link[l] = x]
<1>1. t \in {0} \cup DOMAIN state.task
  BY DEF Sound, Rest, Tasks
<1>2. x \in Link /\ x.task = 0
  BY DEF Link
<1> HIDE DEF t, x
<1>3. Rest(c, state.request) /\ QueueOnly(state, c)
  BY <1>1, CancelRest DEF Sound
<1> HIDE DEF c
<1>4. /\ DOMAIN c = Fields /\ c.visible \in Seq(Links) /\ c.link \in [Links -> Link] /\ c.got \in Nat
  BY <1>3 DEF Rest, Tasks, Routes
<1>5. v \in Seq(Links)
  BY <1>4, RemovedFirst
<1>6. /\ DOMAIN r = Fields /\ r.route = c.route /\ r.link = [c.link EXCEPT ![l] = x]
      /\ r.visible = v /\ r.router = c.router /\ r.task = c.task
      /\ r.queue = c.queue /\ r.sortId = c.sortId /\ r.inProgress = c.inProgress
      /\ r.scheduled = c.scheduled /\ r.running = c.running /\ r.request = c.request
      /\ r.routeMap = c.routeMap /\ r.routeLru = c.routeLru
      /\ r.version = c.version /\ r.faults = c.faults /\ r.got = c.got
      /\ r.thrown = c.thrown /\ r.segment = c.segment /\ r.segmentMap = c.segmentMap
      /\ r.segmentLru = c.segmentLru /\ r.left = c.left
  BY <1>4 DEF Fields
<1> HIDE DEF r, v
<1>7. Tasks(r)
  <2>1. r.link \in [Links -> Link] /\ \A k \in Links : r.link[k].task \in {0} \cup DOMAIN r.task
    BY <1>2, <1>3, <1>4, <1>6 DEF Rest, Tasks
  <2> QED  BY <1>3, <1>5, <1>6, <2>1 DEF Rest, Tasks
<1>8. Routes(r, state.request)
  BY <1>3, <1>4, <1>6, RoutesFrame DEF Rest, SameRoutes
<1>9. Kept(r, state.request, {})
  BY <1>3, <1>6 DEF Rest, Kept, Blocked
<1>10. NotSegments(state, r)
  BY <1>3, <1>6 DEF QueueOnly, NotSegments
<1>11. Sound(r) /\ FullKept(state, r)
  BY <1>7, <1>8, <1>9, <1>10, MovedSound DEF Rest
<1> QED  BY <1>11 DEF Good, r, c, t, x

(* prefetch.                                                               *)
LEMMA PrefetchGood ==
    ASSUME Sound(state), NEW href \in Hrefs, NEW full \in BOOLEAN
    PROVE  Good(schedulePrefetchTask(state, href, state.router.nextUrl, state.router.tree, full, Default))
<1> DEFINE r == schedulePrefetchTask(state, href, state.router.nextUrl, state.router.tree, full, Default)
<1>1. state.router.nextUrl \in NextUrls /\ state.router.tree \in Nat
  BY DEF Sound, Rest, Tasks, Router
<1>2. Rest(r, state.request) /\ QueueOnly(state, r)
  BY <1>1, ScheduleRest DEF Sound
<1> HIDE DEF r
<1>3. NotSegments(state, r)
  BY <1>2 DEF QueueOnly
<1>4. Sound(r) /\ FullKept(state, r)
  BY <1>2, <1>3, MovedSound
<1> QED  BY <1>4 DEF Good, r

(* routerStateChanges.                                                     *)
LEMMA RouterGood ==
    ASSUME Sound(state), NEW nextUrl \in NextUrls
    PROVE  Good(pingVisibleLinks([state EXCEPT !.router = [nextUrl |-> nextUrl, tree |-> @.tree + 1]]))
<1> DEFINE a == [state EXCEPT !.router = [nextUrl |-> nextUrl, tree |-> @.tree + 1]]
           x == [nextUrl |-> nextUrl, tree |-> state.router.tree + 1]
           r == pingVisibleLinks(a)
<1>1. DOMAIN state = Fields /\ state.got \in Nat /\ state.router \in Router
  BY DEF Sound, Rest, Tasks, Routes
<1>2. x \in Router
  BY <1>1 DEF Router
<1>3. /\ DOMAIN a = Fields /\ a.route = state.route /\ a.link = state.link
      /\ a.visible = state.visible /\ a.router = x /\ a.task = state.task
      /\ a.queue = state.queue /\ a.sortId = state.sortId /\ a.inProgress = state.inProgress
      /\ a.scheduled = state.scheduled /\ a.running = state.running /\ a.request = state.request
      /\ a.routeMap = state.routeMap /\ a.routeLru = state.routeLru
      /\ a.version = state.version /\ a.faults = state.faults /\ a.got = state.got
      /\ a.thrown = state.thrown /\ a.segment = state.segment /\ a.segmentMap = state.segmentMap
      /\ a.segmentLru = state.segmentLru /\ a.left = state.left
  BY <1>1 DEF Fields
<1> HIDE DEF a, x
<1>4. Rest(a, state.request) /\ NotSegments(state, a)
  <2>1. Tasks(a)
    BY <1>2, <1>3 DEF Sound, Rest, Tasks
  <2>2. Routes(a, state.request)
    BY <1>1, <1>3, RoutesFrame DEF Sound, Rest, SameRoutes
  <2>3. Kept(a, state.request, {})
    BY <1>3 DEF Sound, Rest, Kept, Blocked
  <2> QED  BY <1>3, <2>1, <2>2, <2>3 DEF Rest, NotSegments
<1>5. Rest(r, state.request) /\ QueueOnly(a, r)
  BY <1>4, PingVisibleFold
<1> HIDE DEF r
<1>6. NotSegments(state, r)
  BY <1>4, <1>5 DEF QueueOnly, NotSegments
<1>7. Sound(r) /\ FullKept(state, r)
  BY <1>5, <1>6, MovedSound
<1> QED  BY <1>7 DEF Good, r, a

(* spent changes what is left, only.                                       *)
LEMMA SpentFields ==
    ASSUME NEW s, DOMAIN s = Fields
    PROVE  LET r == spent(s)
           IN  /\ DOMAIN r = Fields /\ r.route = s.route /\ r.link = s.link
               /\ r.visible = s.visible /\ r.router = s.router /\ r.task = s.task
               /\ r.queue = s.queue /\ r.sortId = s.sortId /\ r.inProgress = s.inProgress
               /\ r.scheduled = s.scheduled /\ r.running = s.running /\ r.request = s.request
               /\ r.routeMap = s.routeMap /\ r.routeLru = s.routeLru
               /\ r.version = s.version /\ r.faults = s.faults /\ r.got = s.got
               /\ r.thrown = s.thrown /\ r.segment = s.segment /\ r.segmentMap = s.segmentMap
               /\ r.segmentLru = s.segmentLru
BY DEF spent, Fields

(* The step that changes nothing.                                          *)
LEMMA StateGood ==
    ASSUME Sound(state) PROVE Good(state) /\ Good(spent(state))
<1>1. Good(state)
  BY DEF Good, FullKept
<1> QED  BY <1>1, SpentGood

(* A route becomes stale, in whatever status it is.                        *)
LEMMA ExpiredRoute ==
    ASSUME NEW s, Sound(s), NEW e \in DOMAIN s.route,
           NEW x \in RouteEntry, x.status = s.route[e].status, x.blocked = s.route[e].blocked,
           x.keypath = s.route[e].keypath, x.version = s.route[e].version,
           NEW r, r = [s EXCEPT !.route[e] = x]
    PROVE  Sound(r) /\ FullKept(s, r)
<1>1. DOMAIN s = Fields /\ s.route \in Seq(RouteEntry)
  BY DEF Sound, Rest, Tasks, Routes
<1>2. /\ DOMAIN r = Fields /\ r.route = [s.route EXCEPT ![e] = x]
      /\ r.link = s.link /\ r.visible = s.visible /\ r.router = s.router /\ r.task = s.task
      /\ r.queue = s.queue /\ r.sortId = s.sortId /\ r.inProgress = s.inProgress
      /\ r.scheduled = s.scheduled /\ r.running = s.running /\ r.request = s.request
      /\ r.routeMap = s.routeMap /\ r.routeLru = s.routeLru
      /\ r.version = s.version /\ r.faults = s.faults /\ r.got = s.got
      /\ r.thrown = s.thrown /\ r.segment = s.segment /\ r.segmentMap = s.segmentMap
      /\ r.segmentLru = s.segmentLru /\ r.left = s.left
  BY <1>1 DEF Fields
<1>3. /\ r.route \in Seq(RouteEntry) /\ DOMAIN r.route = DOMAIN s.route /\ r.route[e] = x
      /\ \A d \in DOMAIN s.route : d # e => r.route[d] = s.route[d]
  BY <1>1, <1>2, UpdatedEntry
<1>4. \A d \in DOMAIN s.route :
         /\ r.route[d].status = s.route[d].status /\ r.route[d].keypath = s.route[d].keypath
         /\ r.route[d].version = s.route[d].version /\ r.route[d].blocked = s.route[d].blocked
  BY <1>3
<1>5. Tasks(r)
  BY <1>2 DEF Sound, Rest, Tasks
<1>6. Routes(s, s.request)
  BY DEF Sound, Rest
<1>7. Routes(r, s.request)
  <2>1. ASSUME NEW q \in s.request PROVE RouteRequestOK(r, q)
    BY <1>2, <1>3, <1>4, <1>6 DEF Routes, RouteRequestOK
  <2>2. \A k \in RouteKeys : LET d == r.routeMap[k] IN
          d # 0 => d \in r.routeLru /\ r.route[d].keypath = k /\ r.route[d].version = r.version
    BY <1>2, <1>4, <1>6 DEF Routes
  <2>3. \A d \in DOMAIN r.route : /\ r.route[d].blocked \subseteq DOMAIN r.task
                                  /\ r.route[d].status = "pending" => Unanswered(s.request, d)
    BY <1>2, <1>3, <1>4, <1>6 DEF Routes
  <2> QED  BY <1>2, <1>3, <1>6, <2>1, <2>2, <2>3 DEF Routes
<1>8. Kept(r, s.request, {})
  <2>1. ASSUME NEW t, Blocked(s, s.request, t) PROVE Blocked(r, s.request, t)
    <3>1. PICK q \in s.request : q.kind = "route" /\ ~q.open /\ t \in s.route[q.route].blocked
      BY <2>1 DEF Blocked
    <3>2. q.route \in DOMAIN s.route
      BY <1>6 DEF Routes, RouteRequestOK
    <3> QED  BY <1>4, <3>1, <3>2 DEF Blocked
  <2> QED  BY <1>2, <2>1 DEF Sound, Rest, Kept
<1>9. NotSegments(s, r)
  BY <1>2 DEF NotSegments
<1> QED  BY <1>5, <1>7, <1>8, <1>9, MovedSound DEF Rest

(* expireRoute.                                                            *)
LEMMA ExpireRouteGood ==
    ASSUME Sound(state), NEW e \in DOMAIN state.route
    PROVE  Good([spent(state) EXCEPT !.route[e].stale = TRUE])
<1> DEFINE s == spent(state)
           x == [state.route[e] EXCEPT !.stale = TRUE]
           r == [s EXCEPT !.route[e].stale = TRUE]
<1>1. DOMAIN state = Fields /\ state.route[e] \in RouteEntry
  BY DEF Sound, Rest, Tasks, Routes
<1>2. /\ x \in RouteEntry /\ x.status = state.route[e].status /\ x.blocked = state.route[e].blocked
      /\ x.keypath = state.route[e].keypath /\ x.version = state.route[e].version
  BY <1>1 DEF RouteEntry
<1>3. /\ DOMAIN s = Fields /\ s.route = state.route /\ s.segment = state.segment
      /\ s.segmentMap = state.segmentMap
  BY <1>1, SpentFields
<1>4. Sound(s)
  BY StateGood DEF Good
<1> HIDE DEF s
<1>5. r = [s EXCEPT !.route[e] = x]
  BY <1>1, <1>3 DEF Fields
<1> HIDE DEF x, r
<1>6. Sound(r) /\ FullKept(s, r)
  BY <1>2, <1>3, <1>4, <1>5, ExpiredRoute
<1> QED  BY <1>3, <1>6 DEF Good, FullKept, Full, r, s

(* onRouteLRUEviction: the keypath of the route is the one it is mapped    *)
(* at.                                                                     *)
LEMMA EvictRouteGood ==
    ASSUME Sound(state), NEW e \in state.routeLru
    PROVE  Good(deleteRouteFromCache(spent(state), e, state.route[e].keypath))
<1> DEFINE s == spent(state)
           k == state.route[e].keypath
           r == deleteRouteFromCache(s, e, k)
<1>1. DOMAIN state = Fields /\ e \in DOMAIN state.route /\ k \in RouteKeys
  <2>1. DOMAIN state = Fields /\ e \in DOMAIN state.route /\ state.route[e] \in RouteEntry
    BY DEF Sound, Rest, Tasks, Routes
  <2> QED  BY <2>1 DEF RouteEntry
<1>2. /\ DOMAIN s = Fields /\ s.route = state.route /\ s.segment = state.segment
      /\ s.segmentMap = state.segmentMap
  BY <1>1, SpentFields
<1>3. Sound(s)
  BY StateGood DEF Good
<1> HIDE DEF s
<1>4. Rest(r, s.request) /\ RouteOnly(s, r)
  BY <1>1, <1>2, <1>3, DeleteRouteRest DEF Sound
<1> HIDE DEF r
<1>5. NotSegments(s, r)
  BY <1>4 DEF RouteOnly
<1>6. Sound(r) /\ FullKept(s, r)
  BY <1>3, <1>4, <1>5, MovedSound
<1> QED  BY <1>2, <1>6 DEF Good, FullKept, Full, r, s

(* The part of the state that segments are in changes, and keeps what is   *)
(* said of it.                                                             *)
LEMMA SegmentsSound ==
    ASSUME NEW s, Sound(s), NEW r, SegmentsOnly(s, r), Seg(r, s.request, {}), s.faults \subseteq r.faults
    PROVE  Sound(r)
<1>1. Rest(r, s.request)
  <2>1. /\ SameRoutes(s, r) /\ r.got \in Nat /\ r.scheduled \in BOOLEAN /\ r.running \in BOOLEAN
        /\ r.inProgress \in Int /\ DOMAIN r = Fields
    BY DEF SameRoutes, SegmentsOnly, Seg, SegmentTypes, Sound, Rest, Tasks
  <2>2. Rest(s, s.request)
    BY DEF Sound
  <2> QED  BY <2>1, <2>2, RestFrame DEF SegmentsOnly
<1>2. Counted(r) /\ Bounded(r)
  BY DEF SegmentsOnly, Sound, Counted, Bounded
<1> QED  BY <1>1, <1>2 DEF Sound, SegmentsOnly

(* expireSegment.                                                          *)
LEMMA ExpireSegmentGood ==
    ASSUME Sound(state), NEW e \in DOMAIN state.segment
    PROVE  Good([spent(state) EXCEPT !.segment[e].stale = TRUE])
<1> DEFINE s == spent(state)
           x == [state.segment[e] EXCEPT !.stale = TRUE]
           r == [s EXCEPT !.segment[e].stale = TRUE]
<1>1. DOMAIN state = Fields /\ state.segment \in Seq(SegmentEntry) /\ state.segment[e] \in SegmentEntry
  BY DEF Sound, Seg, SegmentTypes
<1>2. /\ x \in SegmentEntry /\ x.status = state.segment[e].status /\ x.upsert = state.segment[e].upsert
      /\ x.keypath = state.segment[e].keypath /\ x.revalidating = state.segment[e].revalidating
      /\ x.waited = state.segment[e].waited /\ x.isPartial = state.segment[e].isPartial
  BY <1>1 DEF SegmentEntry
<1>3. /\ DOMAIN s = Fields /\ s.segment = state.segment /\ s.segmentMap = state.segmentMap
      /\ s.request = state.request
  BY <1>1, SpentFields
<1>4. Sound(s)
  BY StateGood DEF Good
<1> HIDE DEF s
<1>5. /\ DOMAIN r = Fields /\ r.segment = [s.segment EXCEPT ![e] = x]
      /\ r.segmentMap = s.segmentMap /\ r.segmentLru = s.segmentLru
      /\ r.faults = s.faults /\ r.got = s.got /\ r.thrown = s.thrown
      /\ SegmentsOnly(s, r)
  BY <1>1, <1>3 DEF Fields, SegmentsOnly
<1> HIDE DEF r, x
<1>6. /\ r.segment \in Seq(SegmentEntry) /\ DOMAIN r.segment = DOMAIN s.segment /\ r.segment[e] = x
      /\ \A d \in DOMAIN s.segment : d # e => r.segment[d] = s.segment[d]
  BY <1>1, <1>2, <1>3, <1>5, UpdatedEntry
<1>7. \A d \in DOMAIN s.segment :
         /\ r.segment[d].status = s.segment[d].status /\ r.segment[d].upsert = s.segment[d].upsert
         /\ r.segment[d].keypath = s.segment[d].keypath
         /\ r.segment[d].revalidating = s.segment[d].revalidating
         /\ r.segment[d].waited = s.segment[d].waited /\ r.segment[d].isPartial = s.segment[d].isPartial
  BY <1>2, <1>3, <1>6
<1>8. Seg(r, s.request, {})
  <2>1. Seg(s, s.request, {})
    BY <1>4 DEF Sound
  <2>2. SegmentTypes(r)
    BY <1>5, <1>6, <2>1 DEF Seg, SegmentTypes
  <2>3. SegmentsEvictable(r)
    BY <1>5, <1>7, <2>1 DEF Seg, SegmentTypes, SegmentsEvictable
  <2>4. ASSUME NEW d \in DOMAIN r.segment PROVE EntryOK(r, d)
    BY <1>5, <1>6, <1>7, <2>1 DEF Seg, EntryOK, unmapped
  <2>5. ASSUME NEW q \in s.request PROVE RequestOK(r, q)
    <3>1. RequestOK(s, q)
      BY <2>1 DEF Seg
    <3>2. \A d : unmapped(s, d) => unmapped(r, d)
      BY <1>5 DEF unmapped
    <3> QED  BY <1>6, <1>7, <3>1, <3>2 DEF RequestOK
  <2>6. Fetched(r, s.request, {})
    BY <1>5, <1>6, <1>7, <2>1 DEF Seg, Fetched
  <2> QED  BY <1>5, <2>1, <2>2, <2>3, <2>4, <2>5, <2>6 DEF Seg
<1>9. Sound(r)
  BY <1>4, <1>5, <1>8, SegmentsSound
<1>10. FullKept(state, r)
  BY <1>3, <1>5 DEF FullKept
<1> QED  BY <1>9, <1>10 DEF Good, r, s

(* onSegmentLRUEviction: the keypath of the segment is the one it is       *)
(* mapped at.                                                              *)
LEMMA EvictSegmentGood ==
    ASSUME Sound(state), NEW e \in state.segmentLru
    PROVE  Good([cancelEntryListeners(spent(state), e) EXCEPT
                    !.segmentMap[state.segment[e].keypath] = 0, !.segmentLru = @ \ {e}])
<1> DEFINE s == spent(state)
           k == state.segment[e].keypath
           c == cancelEntryListeners(s, e)
           r == [c EXCEPT !.segmentMap[k] = 0, !.segmentLru = @ \ {e}]
<1>1. DOMAIN state = Fields /\ e \in DOMAIN state.segment
  BY DEF Sound, Seg, SegmentTypes
<1>2. /\ DOMAIN s = Fields /\ s.segment = state.segment /\ s.segmentMap = state.segmentMap
      /\ s.request = state.request
  BY <1>1, SpentFields
<1>3. Sound(s)
  BY StateGood DEF Good
<1> HIDE DEF s
<1>4. Seg(s, s.request, {}) /\ SegmentTypes(s) /\ e \in DOMAIN s.segment
  BY <1>1, <1>2, <1>3 DEF Sound, Seg
<1>5. /\ Reads(s, c, {}) /\ c.got = s.got /\ c.thrown = s.thrown /\ c.faults = s.faults
      /\ c.segmentMap = s.segmentMap /\ c.segmentLru = s.segmentLru
  BY <1>4, CancelReads
<1> HIDE DEF c, k
<1>6. DOMAIN c = Fields /\ SegmentTypes(c)
  BY <1>5 DEF Reads, SegmentTypes
<1>7. /\ DOMAIN r = Fields /\ r.segment = c.segment
      /\ r.segmentMap = [c.segmentMap EXCEPT ![k] = 0] /\ r.segmentLru = c.segmentLru \ {e}
      /\ r.faults = c.faults /\ r.got = c.got /\ r.thrown = c.thrown
      /\ SegmentsOnly(c, r)
  BY <1>6 DEF Fields, SegmentsOnly
<1> HIDE DEF r
<1>8. SegmentsOnly(s, r)
  <2>1. SegmentsOnly(s, c)
    BY <1>5 DEF Reads
  <2> QED  BY <1>7, <2>1, OnlyTrans
<1>9. \A j \in SegmentKeys : s.segmentMap[j] = e => j = k
  BY <1>2, <1>4 DEF Seg, SegmentsEvictable, SegmentTypes, k
<1>10. \A j \in SegmentKeys : r.segmentMap[j] = IF j = k THEN 0 ELSE s.segmentMap[j]
  BY <1>4, <1>5, <1>7 DEF SegmentTypes
<1>11. SegmentTypes(r)
  BY <1>6, <1>7 DEF SegmentTypes
<1>12. Reads(s, r, {k})
  <2>1. \A j \in SegmentKeys :
          \/ r.segmentMap[j] = s.segmentMap[j]
          \/ r.segmentMap[j] = 0 /\ s.segmentMap[j] # 0
               /\ (j \in {k} \/ s.segment[s.segmentMap[j]].stale)
    BY <1>10
  <2>2. \A d \in s.segmentLru : d \in r.segmentLru \/ unmapped(r, d)
    <3>1. unmapped(r, e)
      BY <1>1, <1>4, <1>9, <1>10 DEF unmapped, SegmentTypes
    <3> QED  BY <1>5, <1>7, <3>1
  <2> QED  BY <1>5, <1>7, <1>8, <1>11, <2>1, <2>2 DEF Reads
<1>13. Seg(r, s.request, {})
  BY <1>4, <1>12, ReadsSeg
<1>14. Sound(r)
  BY <1>3, <1>5, <1>7, <1>8, <1>13, SegmentsSound
<1>15. FullKept(state, r)
  BY <1>2, <1>10 DEF FullKept
<1> QED  BY <1>14, <1>15 DEF Good, r, c, s, k

(* startMicrotask.                                                         *)
LEMMA StartGood ==
    ASSUME Sound(state)
    PROVE  Good([state EXCEPT !.scheduled = FALSE, !.running = TRUE])
<1> DEFINE r == [state EXCEPT !.scheduled = FALSE, !.running = TRUE]
<1>1. DOMAIN state = Fields /\ state.got \in Nat
  BY DEF Sound, Rest, Tasks, Routes
<1>2. /\ DOMAIN r = Fields /\ r.route = state.route /\ r.link = state.link
      /\ r.visible = state.visible /\ r.router = state.router /\ r.task = state.task
      /\ r.queue = state.queue /\ r.sortId = state.sortId /\ r.inProgress = state.inProgress
      /\ r.scheduled \in BOOLEAN /\ r.running \in BOOLEAN /\ r.request = state.request
      /\ r.routeMap = state.routeMap /\ r.routeLru = state.routeLru
      /\ r.version = state.version /\ r.faults = state.faults /\ r.got = state.got
      /\ r.thrown = state.thrown /\ r.segment = state.segment /\ r.segmentMap = state.segmentMap
      /\ r.segmentLru = state.segmentLru /\ r.left = state.left
  BY <1>1 DEF Fields
<1> HIDE DEF r
<1>3. NotSegments(state, r)
  BY <1>2 DEF NotSegments
<1>4. Rest(r, state.request)
  <2>1. SameRoutes(state, r) /\ r.got \in Nat /\ r.inProgress \in Int /\ state.faults \subseteq r.faults
    BY <1>1, <1>2 DEF SameRoutes, Sound, Rest, Tasks
  <2>2. Rest(state, state.request)
    BY DEF Sound
  <2> QED  BY <1>2, <2>1, <2>2, RestFrame
<1>5. Sound(r) /\ FullKept(state, r)
  BY <1>3, <1>4, MovedSound
<1> QED  BY <1>5 DEF Good, r

(* revalidateEntireCache: both maps are emptied, and the version is new.   *)
LEMMA RevalidateGood ==
    ASSUME Sound(state)
    PROVE  Good(pingVisibleLinks([state EXCEPT !.version = @ + 1, !.router.tree = @ + 1,
                                         !.routeMap = [k \in DOMAIN @ |-> 0], !.routeLru = {},
                                         !.segmentMap = [k \in DOMAIN @ |-> 0], !.segmentLru = {}]))
<1> DEFINE a == [state EXCEPT !.version = @ + 1, !.router.tree = @ + 1,
                              !.routeMap = [k \in DOMAIN @ |-> 0], !.routeLru = {},
                              !.segmentMap = [k \in DOMAIN @ |-> 0], !.segmentLru = {}]
           x == [state.router EXCEPT !.tree = @ + 1]
           r == pingVisibleLinks(a)
<1>1. /\ DOMAIN state = Fields /\ state.got \in Nat /\ state.router \in Router /\ state.version \in Nat
      /\ state.routeMap \in [RouteKeys -> {0} \cup DOMAIN state.route]
      /\ state.segmentMap \in [SegmentKeys -> {0} \cup DOMAIN state.segment]
  BY DEF Sound, Rest, Tasks, Routes, Seg, SegmentTypes
<1>2. x \in Router
  BY <1>1 DEF Router
<1>3. /\ DOMAIN a = Fields /\ a.route = state.route /\ a.link = state.link
      /\ a.visible = state.visible /\ a.router = x /\ a.task = state.task
      /\ a.queue = state.queue /\ a.sortId = state.sortId /\ a.inProgress = state.inProgress
      /\ a.scheduled = state.scheduled /\ a.running = state.running /\ a.request = state.request
      /\ a.routeMap = [k \in RouteKeys |-> 0] /\ a.routeLru = {}
      /\ a.version = state.version + 1 /\ a.faults = state.faults /\ a.got = state.got
      /\ a.thrown = state.thrown /\ a.segment = state.segment
      /\ a.segmentMap = [k \in SegmentKeys |-> 0]
      /\ a.segmentLru = {} /\ a.left = state.left
  BY <1>1 DEF Fields
<1> HIDE DEF a, x
<1>4. Rest(a, state.request)
  <2>1. Tasks(a)
    BY <1>1, <1>2, <1>3 DEF Sound, Rest, Tasks
  <2>2. Routes(a, state.request)
    <3>1. Routes(state, state.request)
      BY DEF Sound, Rest
    <3>2. \A q \in state.request : RouteRequestOK(a, q)
      BY <1>3, <3>1 DEF Routes, RouteRequestOK
    <3>3. /\ a.routeMap \in [RouteKeys -> {0} \cup DOMAIN a.route]
          /\ \A k \in RouteKeys : a.routeMap[k] = 0
      BY <1>3
    <3> QED  BY <1>3, <3>1, <3>2, <3>3 DEF Routes
  <2>3. Kept(a, state.request, {})
    BY <1>3 DEF Sound, Rest, Kept, Blocked
  <2> QED  BY <2>1, <2>2, <2>3 DEF Rest
<1>5. Seg(a, state.request, {})
  <2>1. Seg(state, state.request, {})
    BY DEF Sound
  <2>2. /\ a.segmentMap \in [SegmentKeys -> {0} \cup DOMAIN a.segment]
        /\ \A k \in SegmentKeys : a.segmentMap[k] = 0
    BY <1>3
  <2>3. SegmentTypes(a)
    BY <1>3, <2>1, <2>2 DEF Seg, SegmentTypes
  <2>4. SegmentsEvictable(a)
    BY <2>2 DEF SegmentsEvictable
  <2>5. \A e \in DOMAIN state.segment : unmapped(a, e)
    BY <2>1, <2>2 DEF unmapped, Seg, SegmentTypes
  <2>6. ASSUME NEW e \in DOMAIN a.segment PROVE EntryOK(a, e)
    <3>1. EntryOK(state, e)
      BY <1>3, <2>1, <2>6 DEF Seg
    <3> QED  BY <1>3, <2>5, <2>6, <3>1 DEF EntryOK
  <2>7. ASSUME NEW q \in state.request PROVE RequestOK(a, q)
    <3>1. RequestOK(state, q)
      BY <2>1 DEF Seg
    <3> QED  BY <1>3, <2>5, <3>1 DEF RequestOK
  <2>8. Fetched(a, state.request, {})
    BY <1>3, <2>1 DEF Seg, Fetched
  <2> QED  BY <1>3, <2>1, <2>3, <2>4, <2>6, <2>7, <2>8 DEF Seg
<1>6. Sound(a)
  BY <1>3, <1>4, <1>5 DEF Sound, Counted, Bounded
<1>7. Rest(r, a.request) /\ QueueOnly(a, r)
  <2>1. Rest(a, a.request)
    BY <1>6 DEF Sound
  <2> QED  BY <2>1, PingVisibleFold
<1> HIDE DEF r
<1>8. NotSegments(a, r)
  BY <1>7 DEF QueueOnly
<1>9. Sound(r)
  BY <1>6, <1>7, <1>8, MovedSound
<1>10. FullKept(state, r)
  BY <1>3, <1>8 DEF FullKept, NotSegments
<1> QED  BY <1>9, <1>10 DEF Good, r, a

(* navigate.                                                               *)
LEMMA NavigateGood ==
    ASSUME Sound(state), NEW href \in Hrefs
    PROVE  LET d == readRouteCacheEntry(state, href, state.router.nextUrl)
           IN  /\ Good(d)
               /\ Good(FoldRight(waitForSegment, Tree[href], d))
<1> DEFINE d == readRouteCacheEntry(state, href, state.router.nextUrl)
           r == FoldRight(waitForSegment, Tree[href], d)
<1>1. state.router.nextUrl \in NextUrls
  BY DEF Sound, Rest, Tasks, Router
<1>2. Rest(d, state.request) /\ RouteOnly(state, d)
  BY <1>1, ReadRouteRest DEF Sound
<1> HIDE DEF d
<1>3. NotSegments(state, d)
  BY <1>2 DEF RouteOnly
<1>4. Sound(d) /\ FullKept(state, d)
  BY <1>2, <1>3, MovedSound
<1>5. Seg(r, d.request, {}) /\ Steady(d, r, Nat)
  <2>1. Tree[href] \in Seq(Segments)
    BY TreeAssumption
  <2>2. Seg(d, d.request, {})
    BY <1>4 DEF Sound
  <2> QED  BY <2>1, <2>2, WaitFold
<1> HIDE DEF r
<1>6. SegmentsOnly(d, r) /\ d.faults \subseteq r.faults
  BY <1>5 DEF Steady
<1>7. Sound(r)
  BY <1>4, <1>5, <1>6, SegmentsSound
<1>8. FullKept(d, r)
  BY <1>5, SteadyKept
<1>9. FullKept(state, r)
  BY <1>3, <1>8 DEF FullKept, Full, NotSegments
<1> QED  BY <1>4, <1>7, <1>9 DEF Good, r, d

-----------------------------------------------------------------------------
(* A task asks for segments                                                *)

(* A request is made, and its entries are pending.                         *)
Spawns(s, r, o) ==
    /\ Seg(r, r.request, {}) /\ r.request = s.request \cup {o} /\ o \notin s.request
    /\ r.inProgress = s.inProgress + 1 /\ (Counted(s) => Counted(r))
    /\ r.link = s.link /\ r.visible = s.visible /\ r.router = s.router /\ r.task = s.task
    /\ r.queue = s.queue /\ r.sortId = s.sortId /\ r.scheduled = s.scheduled
    /\ r.running = s.running /\ r.route = s.route /\ r.routeMap = s.routeMap
    /\ r.routeLru = s.routeLru /\ r.version = s.version /\ r.left = s.left
    /\ r.segment = s.segment /\ r.segmentMap = s.segmentMap /\ r.faults = s.faults
    /\ r.thrown = s.thrown

(* spawnPrefetchSubtask for entries that are pending and of no other       *)
(* request.                                                                *)
LEMMA SpawnedSeg ==
    ASSUME NEW s, NEW o, Seg(s, s.request, Range(o.entries)), Spawned(s, o.entries, s.request),
           Range(o.entries) # {}, s.inProgress \in Int,
           o.kind \in {"segment", "dynamic"}, o \in Request, ~o.open,
           o.kind = "dynamic" => o.upsert = NoUpsert,
           o.kind = "segment" => \E p \in Segments : DOMAIN o.entries = {p},
           o.upsert # NoUpsert =>
              \A e \in Range(o.entries) : unmapped(s, e) /\ s.segment[e].upsert = NoUpsert
    PROVE  Spawns(s, spawnPrefetchSubtask(s, o), o)
<1> DEFINE r == spawnPrefetchSubtask(s, o)
<1>1. DOMAIN s = Fields /\ s.got \in Nat /\ s.thrown \in BOOLEAN
  BY DEF Seg, SegmentTypes
<1>2. /\ DOMAIN r = Fields /\ r.request = s.request \cup {o} /\ r.inProgress = s.inProgress + 1
      /\ r.link = s.link /\ r.visible = s.visible /\ r.router = s.router /\ r.task = s.task
      /\ r.queue = s.queue /\ r.sortId = s.sortId /\ r.scheduled = s.scheduled
      /\ r.running = s.running /\ r.route = s.route /\ r.routeMap = s.routeMap
      /\ r.routeLru = s.routeLru /\ r.version = s.version /\ r.left = s.left
      /\ r.segment = s.segment /\ r.segmentMap = s.segmentMap /\ r.segmentLru = s.segmentLru
      /\ r.faults = s.faults /\ r.got = s.got /\ r.thrown = s.thrown
  BY <1>1 DEF spawnPrefetchSubtask, Fields
<1> HIDE DEF r
<1>3. \A q \in s.request : q.kind # "route" => Range(o.entries) \cap Range(q.entries) = {}
  BY DEF Spawned
<1>4. o \notin s.request
  BY <1>3
<1>5. RequestOK(s, o)
  BY DEF RequestOK, Spawned
<1>6. Seg(s, s.request \cup {o}, {})
  <2>1. Disjoint(s.request \cup {o})
    BY <1>3 DEF Seg, Disjoint
  <2>2. Fetched(s, s.request \cup {o}, {})
    BY DEF Seg, Fetched
  <2> QED  BY <1>5, <2>1, <2>2 DEF Seg
<1>7. Seg(r, s.request \cup {o}, {})
  <2>1. r.got \in Nat /\ r.thrown \in BOOLEAN /\ s.faults \subseteq r.faults
    BY <1>1, <1>2
  <2>2. r.thrown => "recursion" \in r.faults
    BY <1>2 DEF Seg
  <2> QED  BY <1>2, <1>6, <2>1, <2>2, SegFrame
<1>8. Counted(s) => Counted(r)
  BY <1>2, <1>4, AddedCounted
<1> QED  BY <1>2, <1>4, <1>7, <1>8 DEF r, Spawns

(* What is known of the state while a task asks for segments.              *)
Pingable(s, t, e) ==
    /\ Seg(s, s.request, {})
    /\ s.task \in Seq(Task) /\ t \in DOMAIN s.task /\ s.inProgress \in Int
    /\ e \in Nat /\ s.route[e].stale \in BOOLEAN

(* What a task does composes.                                              *)
LEMMA PingedTrans ==
    ASSUME NEW s, NEW r, NEW v, NEW t, NEW e, Pinged(s, r, t, e), Pinged(r, v, t, e)
    PROVE  Pinged(s, v, t, e)
<1>1. \A q \in v.request \ s.request : q.kind # "route" /\ q.task = t /\ q.route = e
  BY DEF Pinged
<1> QED  BY <1>1 DEF Pinged

(* The task may go on.                                                     *)
LEMMA PingedPingable ==
    ASSUME NEW s, NEW r, NEW t, NEW e, Pingable(s, t, e), Pinged(s, r, t, e), Seg(r, r.request, {})
    PROVE  Pingable(r, t, e)
BY DEF Pingable, Pinged

(* What is steady may be done for a task.                                  *)
LEMMA SteadyPinged ==
    ASSUME NEW s, NEW t, NEW e, s.task \in Seq(Task), s.inProgress \in Int, NEW r, NEW W, Steady(s, r, W),
           "broken" \in r.faults => "broken" \in s.faults
    PROVE  Pinged(s, r, t, e)
BY DEF Pinged, Steady, SegmentsOnly, Counted

(* The entries of a request for one segment.                               *)
LEMMA EntryEntries ==
    ASSUME NEW path \in Segments, NEW entry \in Nat
    PROVE  LET f == [p \in {path} |-> entry]
           IN  f \in Entries /\ DOMAIN f = {path} /\ f[path] = entry /\ Range(f) = {entry}
<1> DEFINE f == [p \in {path} |-> entry]
<1>2. IsFiniteSet({path})
  BY FS_Singleton
<1>3. f \in [{path} -> Nat]
  OBVIOUS
<1>5. DOMAIN f = {path} /\ f[path] = entry
  OBVIOUS
<1> HIDE DEF f
<1>4. f \in Entries
  BY <1>2, <1>3 DEF Entries
<1> QED  BY <1>4, <1>5 DEF Range, f

(* fetchSegment: an empty entry is requested.                              *)
LEMMA FetchSegmentPinged ==
    ASSUME NEW s, NEW t, NEW e, Pingable(s, t, e), NEW path \in Segments,
           NEW entry \in DOMAIN s.segment, s.segment[entry].status = "empty",
           NEW upsert \in Upserts, upsert # NoUpsert => unmapped(s, entry)
    PROVE  LET r == fetchSegment(s, t, e, path, entry, upsert)
           IN  Seg(r, r.request, {}) /\ Pinged(s, r, t, e) /\ r.inProgress = s.inProgress + 1
<1> DEFINE R == s.request
           m == upgradeToPendingSegment(s, entry, "PPR")
           entries == [p \in {path} |-> entry]
           o == request("segment", t, e, entries, upsert)
           r == spawnPrefetchSubtask(m, o)
<1>1. fetchSegment(s, t, e, path, entry, upsert) = r
  BY DEF fetchSegment
<1>2. Seg(s, R, {}) /\ entry \in Nat /\ t \in Nat /\ e \in Nat
  BY DEF Pingable, Seg, SegmentTypes
<1>3. entries \in Entries /\ DOMAIN entries = {path} /\ entries[path] = entry /\ Range(entries) = {entry}
  BY <1>2, EntryEntries
<1>4. /\ Seg(m, R, {} \cup {entry}) /\ Steady(s, m, {entry}) /\ m.thrown = s.thrown
      /\ m.got = s.got /\ m.faults = s.faults
      /\ DOMAIN m.segment = DOMAIN s.segment /\ m.segmentMap = s.segmentMap
      /\ m.segment[entry].status = "pending" /\ m.segment[entry].upsert = NoUpsert
  BY <1>2, UpgradeSeg
<1>5. /\ o \in Request /\ o.kind = "segment" /\ ~o.open /\ o.entries = entries /\ o.upsert = upsert
      /\ o.task = t /\ o.route = e
  BY <1>2, <1>3 DEF request, Request
<1> HIDE DEF m, o, entries
<1>6. m.request = R /\ m.task = s.task /\ m.inProgress = s.inProgress
  BY <1>4 DEF Steady, SegmentsOnly
<1>7. Spawned(m, entries, R)
  <2>1. \A q \in R : q.kind # "route" => entry \notin Range(q.entries)
    BY <1>2 DEF Seg, RequestOK
  <2> QED  BY <1>3, <1>4, <2>1 DEF Spawned
<1>8. Seg(m, m.request, Range(o.entries)) /\ Spawned(m, o.entries, m.request) /\ Range(o.entries) # {}
  BY <1>3, <1>4, <1>5, <1>6, <1>7
<1>9. o.upsert # NoUpsert => \A d \in Range(o.entries) : unmapped(m, d) /\ m.segment[d].upsert = NoUpsert
  BY <1>3, <1>4, <1>5 DEF unmapped
<1>10. m.inProgress \in Int
  BY <1>6 DEF Pingable
<1>11. Spawns(m, r, o)
  <2>1. /\ o.kind \in {"segment", "dynamic"}
        /\ o.kind = "dynamic" => o.upsert = NoUpsert
        /\ o.kind = "segment" => \E p \in Segments : DOMAIN o.entries = {p}
    BY <1>3, <1>5
  <2>2. o \in Request /\ ~o.open
    BY <1>5
  <2> QED  BY <1>8, <1>9, <1>10, <2>1, <2>2, SpawnedSeg
<1> HIDE DEF r
<1>12. Pinged(s, m, t, e)
  BY <1>4, SteadyPinged DEF Pingable
<1>13. Pinged(m, r, t, e)
  <2>1. DOMAIN r = Fields /\ r.task \in Seq(Task) /\ r.inProgress \in Int
    BY <1>6, <1>10, <1>11 DEF Pingable, Seg, SegmentTypes, Spawns
  <2>2. \A q \in r.request \ m.request : q.kind # "route" /\ q.task = t /\ q.route = e
    BY <1>5, <1>11 DEF Spawns
  <2> QED  BY <1>11, <2>1, <2>2 DEF Pinged, Full, Spawns
<1>14. Pinged(s, r, t, e)
  BY <1>12, <1>13, PingedTrans
<1> QED  BY <1>1, <1>6, <1>11, <1>14 DEF Spawns

(* Of the faults, the functions of the segment cache add only recursion.   *)
NotBroken(s, r) == "broken" \in r.faults => "broken" \in s.faults

(* readOrCreateSegmentCacheEntry does not break the count.                 *)
LEMMA ReadOrCreateNotBroken ==
    ASSUME NEW s, NEW R, NEW sp, Seg(s, R, sp), NEW t, NEW e, s.route[e].stale \in BOOLEAN,
           NEW path \in Segments
    PROVE  NotBroken(s, readOrCreateSegmentCacheEntry(s, t, e, path))
<1> DEFINE k == getSegmentKeypathForTask(s, t, path)
           d == readExactSegmentCacheEntry(s, k)
           c == createDetachedSegmentCacheEntry(d, d.route[e].stale)
           r == readOrCreateSegmentCacheEntry(s, t, e, path)
<1>1. k \in SegmentKeys
  BY KeypathOK
<1> HIDE DEF k
<1>2. Reads(s, d, {}) /\ Seg(d, R, sp)
  BY <1>1, ReadExact
<1>3. NotBroken(s, d)
  <2>1. DOMAIN s = Fields
    BY DEF Seg, SegmentTypes
  <2>2. CASE s.segmentMap[k] = 0
    <3>1. d.faults = s.faults
      BY <2>1, <2>2 DEF readExactSegmentCacheEntry, Fields
    <3> QED  BY <3>1 DEF NotBroken
  <2>3. CASE s.segmentMap[k] # 0 /\ ~s.segment[s.segmentMap[k]].stale
    <3>1. d.faults = s.faults
      BY <2>1, <2>3 DEF readExactSegmentCacheEntry, Fields
    <3> QED  BY <3>1 DEF NotBroken
  <2>4. CASE /\ s.segmentMap[k] # 0 /\ s.segment[s.segmentMap[k]].stale
             /\ s.segment[s.segmentMap[k]].revalidating # 0
    <3>1. d.faults = s.faults \cup {"recursion"}
      BY <2>1, <2>4 DEF readExactSegmentCacheEntry, Fields
    <3> QED  BY <3>1 DEF NotBroken
  <2>5. CASE /\ s.segmentMap[k] # 0 /\ s.segment[s.segmentMap[k]].stale
             /\ s.segment[s.segmentMap[k]].revalidating = 0
    <3> DEFINE v == deleteSegmentFromCache(s, s.segmentMap[k], k)
    <3>1. Reads(s, v, {k}) /\ v.faults = s.faults
      BY <1>1, <2>5, DeleteReads
    <3>2. d = [v EXCEPT !.got = 0]
      BY <2>5 DEF readExactSegmentCacheEntry
    <3> HIDE DEF v, d
    <3>3. DOMAIN v = Fields
      BY <3>1 DEF Reads, SegmentTypes
    <3>4. d.faults = v.faults
      BY <3>2, <3>3 DEF Fields
    <3> QED  BY <3>1, <3>4 DEF NotBroken
  <2> QED  BY <2>2, <2>3, <2>4, <2>5
<1>4. r = IF d.thrown \/ d.got # 0 THEN d ELSE putSegment(c, k, c.got)
  BY DEF readOrCreateSegmentCacheEntry, k
<1> HIDE DEF d, r
<1>5. d.route[e].stale \in BOOLEAN
  BY <1>2 DEF Reads, SegmentsOnly
<1>6. Seg(c, R, sp) /\ c.faults = d.faults
  BY <1>2, <1>5, CreatedSeg
<1> HIDE DEF c
<1>7. putSegment(c, k, c.got).faults = c.faults
  BY <1>6 DEF putSegment, Seg, SegmentTypes, Fields
<1> QED  BY <1>3, <1>4, <1>6, <1>7 DEF NotBroken, r

(* resetRevalidatingSegmentEntry does not break the count.                 *)
LEMMA ResetNotBroken ==
    ASSUME NEW s, NEW R, NEW sp, Seg(s, R, sp), NEW o \in DOMAIN s.segment
    PROVE  NotBroken(s, resetRevalidatingSegmentEntry(s, o))
<1> DEFINE c == clearRevalidatingSegmentFromOwner(s, o)
           d == createDetachedSegmentCacheEntry(c, s.segment[o].stale)
           r == resetRevalidatingSegmentEntry(s, o)
<1>1. SegmentTypes(s) /\ s.segment[o].stale \in BOOLEAN
  <2>1. s.segment[o] \in SegmentEntry
    BY DEF Seg, SegmentTypes
  <2> QED  BY <2>1 DEF Seg, SegmentEntry
<1>2. Reads(s, c, {}) /\ c.faults = s.faults
  BY <1>1, ClearReads DEF Seg, EntryOK
<1>3. Seg(c, R, sp)
  BY <1>2, ReadsSeg
<1> HIDE DEF c
<1>4. Seg(d, R, sp) /\ d.faults = c.faults
  BY <1>1, <1>3, CreatedSeg
<1>5. r = [d EXCEPT !.segment[o].revalidating = d.got]
  BY DEF resetRevalidatingSegmentEntry, c
<1> HIDE DEF d, r
<1>6. r.faults = d.faults
  BY <1>4, <1>5 DEF Seg, SegmentTypes, Fields
<1> QED  BY <1>2, <1>4, <1>6 DEF NotBroken, r

(* readOrCreateRevalidatingSegmentEntry does not break the count.          *)
LEMMA RevalidatingNotBroken ==
    ASSUME NEW s, NEW R, NEW sp, Seg(s, R, sp), NEW o \in DOMAIN s.segment
    PROVE  NotBroken(s, readOrCreateRevalidatingSegmentEntry(s, o))
<1> DEFINE e == s.segment[o].revalidating
           r == readOrCreateRevalidatingSegmentEntry(s, o)
<1>1. CASE e # 0 /\ ~s.segment[e].stale
  <2>1. r.faults = s.faults
    BY <1>1 DEF readOrCreateRevalidatingSegmentEntry, Seg, SegmentTypes, Fields
  <2> QED  BY <2>1 DEF NotBroken
<1>2. CASE ~(e # 0 /\ ~s.segment[e].stale)
  <2>1. r = resetRevalidatingSegmentEntry(s, o)
    BY <1>2 DEF readOrCreateRevalidatingSegmentEntry
  <2> QED  BY <2>1, ResetNotBroken
<1> QED  BY <1>1, <1>2

(* A task that only reads and creates entries.                             *)
LEMMA SteadyPingedSeg ==
    ASSUME NEW s, NEW t, NEW e, Pingable(s, t, e), NEW r, NEW W, Steady(s, r, W), NotBroken(s, r),
           Seg(r, s.request, {})
    PROVE  Seg(r, r.request, {}) /\ Pinged(s, r, t, e) /\ r.inProgress = s.inProgress
<1>1. s.task \in Seq(Task) /\ s.inProgress \in Int
  BY DEF Pingable
<1>2. "broken" \in r.faults => "broken" \in s.faults
  BY DEF NotBroken
<1>3. Pinged(s, r, t, e)
  BY <1>1, <1>2, SteadyPinged
<1> QED  BY <1>3 DEF Steady, SegmentsOnly

(* pingPPRSegmentRevalidation.                                             *)
LEMMA PPRRevalidationPinged ==
    ASSUME NEW s, NEW t, NEW e, Pingable(s, t, e), NEW path \in Segments, NEW owner \in DOMAIN s.segment
    PROVE  LET r == pingPPRSegmentRevalidation(s, t, e, path, owner)
           IN  Seg(r, r.request, {}) /\ Pinged(s, r, t, e) /\ r.inProgress <= s.inProgress + 1
<1> DEFINE v == readOrCreateRevalidatingSegmentEntry(s, owner)
           k == getSegmentKeypathForTask(s, t, path)
           r == pingPPRSegmentRevalidation(s, t, e, path, owner)
<1>1. Seg(s, s.request, {})
  BY DEF Pingable
<1>2. /\ Seg(v, s.request, {}) /\ Steady(s, v, {}) /\ v.got \in DOMAIN v.segment
      /\ v.segment[v.got].status = "empty" => unmapped(v, v.got)
  BY <1>1, RevalidatingSeg
<1>3. NotBroken(s, v)
  BY <1>1, RevalidatingNotBroken
<1>4. k \in Upserts
  BY KeypathOK DEF Upserts
<1>5. r = IF v.segment[v.got].status = "empty" THEN fetchSegment(v, t, e, path, v.got, k) ELSE v
  BY DEF pingPPRSegmentRevalidation
<1> HIDE DEF v, k, r
<1>6. Seg(v, v.request, {}) /\ Pinged(s, v, t, e) /\ v.inProgress = s.inProgress
  BY <1>2, <1>3, SteadyPingedSeg
<1>7. Pingable(v, t, e)
  BY <1>6, PingedPingable
<1>8. CASE v.segment[v.got].status = "empty"
  <2>1. Seg(r, r.request, {}) /\ Pinged(v, r, t, e) /\ r.inProgress = v.inProgress + 1
    BY <1>2, <1>4, <1>5, <1>7, <1>8, FetchSegmentPinged
  <2>2. Pinged(s, r, t, e)
    BY <1>6, <2>1, PingedTrans
  <2> QED  BY <1>6, <1>7, <2>1, <2>2 DEF r, Pingable
<1>9. CASE v.segment[v.got].status # "empty"
  BY <1>5, <1>6, <1>7, <1>9 DEF r, Pingable
<1> QED  BY <1>8, <1>9

(* The task will be back in the background.                                *)
LEMMA BackgroundPinged ==
    ASSUME NEW s, NEW t, NEW e, Pingable(s, t, e)
    PROVE  LET r == [s EXCEPT !.task[t].bg = TRUE]
           IN  Seg(r, r.request, {}) /\ Pinged(s, r, t, e) /\ r.inProgress = s.inProgress
<1> DEFINE x == [s.task[t] EXCEPT !.bg = TRUE]
           r == [s EXCEPT !.task[t].bg = TRUE]
<1>1. /\ DOMAIN s = Fields /\ s.task \in Seq(Task) /\ s.task[t] \in Task /\ s.got \in Nat
      /\ s.thrown \in BOOLEAN
  BY DEF Pingable, Seg, SegmentTypes
<1>2. /\ x \in Task /\ x.href = s.task[t].href /\ x.nextUrl = s.task[t].nextUrl
      /\ x.tree = s.task[t].tree /\ x.full = s.task[t].full /\ x.priority = s.task[t].priority
      /\ x.phase = s.task[t].phase /\ x.sortId = s.task[t].sortId
      /\ x.canceled = s.task[t].canceled /\ x.ended = s.task[t].ended
  BY <1>1 DEF Task
<1>3. /\ DOMAIN r = Fields /\ r.task = [s.task EXCEPT ![t] = x]
      /\ r.link = s.link /\ r.visible = s.visible /\ r.router = s.router
      /\ r.queue = s.queue /\ r.sortId = s.sortId /\ r.inProgress = s.inProgress
      /\ r.scheduled = s.scheduled /\ r.running = s.running /\ r.request = s.request
      /\ r.route = s.route /\ r.routeMap = s.routeMap /\ r.routeLru = s.routeLru
      /\ r.version = s.version /\ r.faults = s.faults /\ r.got = s.got
      /\ r.thrown = s.thrown /\ r.segment = s.segment /\ r.segmentMap = s.segmentMap
      /\ r.segmentLru = s.segmentLru /\ r.left = s.left
  BY <1>1 DEF Fields
<1> HIDE DEF r, x
<1>4. /\ r.task \in Seq(Task) /\ DOMAIN r.task = DOMAIN s.task /\ r.task[t] = x
      /\ \A u \in DOMAIN s.task : u # t => r.task[u] = s.task[u]
  BY <1>1, <1>2, <1>3, UpdatedEntry DEF Pingable
<1>5. Seg(r, s.request, {})
  <2>1. Seg(s, s.request, {}) /\ r.got \in Nat /\ r.thrown \in BOOLEAN /\ s.faults \subseteq r.faults
    BY <1>1, <1>3 DEF Pingable
  <2>2. r.thrown => "recursion" \in r.faults
    BY <1>3, <2>1 DEF Seg
  <2> QED  BY <1>3, <2>1, <2>2, SegFrame
<1>6. Pinged(s, r, t, e)
  <2>1. \A u \in DOMAIN s.task :
          /\ r.task[u].href = s.task[u].href /\ r.task[u].nextUrl = s.task[u].nextUrl
          /\ r.task[u].tree = s.task[u].tree /\ r.task[u].full = s.task[u].full
          /\ r.task[u].priority = s.task[u].priority /\ r.task[u].phase = s.task[u].phase
          /\ r.task[u].sortId = s.task[u].sortId
          /\ r.task[u].canceled = s.task[u].canceled /\ r.task[u].ended = s.task[u].ended
    BY <1>2, <1>4
  <2>2. /\ Counted(s) => Counted(r)
        /\ \A k \in SegmentKeys : Full(s, k) => Full(r, k)
    BY <1>3 DEF Counted, Full
  <2> QED  BY <1>3, <1>4, <2>1, <2>2 DEF Pinged, Pingable
<1> QED  BY <1>3, <1>5, <1>6 DEF r

(* pingPerSegment: at most one request.                                    *)
LEMMA PerSegmentPinged ==
    ASSUME NEW s, NEW t, NEW e, Pingable(s, t, e), NEW path \in Segments
    PROVE  LET r == pingPerSegment(s, t, e, path)
           IN  Seg(r, r.request, {}) /\ Pinged(s, r, t, e) /\ r.inProgress <= s.inProgress + 1
<1> DEFINE v == readOrCreateSegmentCacheEntry(s, t, e, path)
           x == v.segment[v.got]
           low == x.fetchStrategy = "LoadingBoundary"
           r == pingPerSegment(s, t, e, path)
<1>1. Seg(s, s.request, {}) /\ s.route[e].stale \in BOOLEAN
  BY DEF Pingable
<1>2. getSegmentKeypathForTask(s, t, path) \in SegmentKeys
  BY KeypathOK
<1>3. Seg(v, s.request, {}) /\ Steady(s, v, {}) /\ (~v.thrown => v.got \in DOMAIN v.segment)
  BY <1>1, <1>2, ReadOrCreateSeg
<1>4. NotBroken(s, v)
  BY <1>1, ReadOrCreateNotBroken
<1>5. r = IF v.thrown THEN v
          ELSE IF x.status = "empty" THEN fetchSegment(v, t, e, path, v.got, NoUpsert)
          ELSE IF x.status = "pending" /\ low /\ v.task[t].priority # Background
            THEN [v EXCEPT !.task[t].bg = TRUE]
          ELSE IF x.status \in {"pending", "rejected"} /\ low
            THEN pingPPRSegmentRevalidation(v, t, e, path, v.got)
          ELSE v
  BY DEF pingPerSegment
<1> HIDE DEF v, r, low
<1>6. Seg(v, v.request, {}) /\ Pinged(s, v, t, e) /\ v.inProgress = s.inProgress
  BY <1>3, <1>4, SteadyPingedSeg
<1>7. Pingable(v, t, e) /\ v.inProgress \in Int
  BY <1>6, PingedPingable DEF Pingable
<1>8. ASSUME NEW w, r = w, Seg(w, w.request, {}), Pinged(v, w, t, e),
             w.inProgress \in Int, w.inProgress <= v.inProgress + 1
      PROVE  Seg(r, r.request, {}) /\ Pinged(s, r, t, e) /\ r.inProgress <= s.inProgress + 1
  BY <1>6, <1>8, PingedTrans
<1>9. CASE v.thrown
  BY <1>5, <1>6, <1>7, <1>9 DEF r
<1>10. CASE ~v.thrown /\ x.status = "empty"
  <2> DEFINE w == fetchSegment(v, t, e, path, v.got, NoUpsert)
  <2>1. v.got \in DOMAIN v.segment /\ v.segment[v.got].status = "empty" /\ NoUpsert \in Upserts
    BY <1>3, <1>10 DEF Upserts
  <2>2. Seg(w, w.request, {}) /\ Pinged(v, w, t, e) /\ w.inProgress = v.inProgress + 1
    BY <1>7, <2>1, FetchSegmentPinged
  <2> HIDE DEF w
  <2> QED  BY <1>5, <1>7, <1>8, <1>10, <2>2 DEF r, w
<1>11. CASE ~v.thrown /\ x.status = "pending" /\ low /\ v.task[t].priority # Background
  <2> DEFINE w == [v EXCEPT !.task[t].bg = TRUE]
  <2>1. Seg(w, w.request, {}) /\ Pinged(v, w, t, e) /\ w.inProgress = v.inProgress
    BY <1>7, BackgroundPinged
  <2>2. r = w
    BY <1>5, <1>11
  <2> HIDE DEF w
  <2> QED  BY <1>7, <1>8, <2>1, <2>2 DEF r
<1>12. CASE /\ ~v.thrown /\ x.status \in {"pending", "rejected"} /\ low
            /\ ~(x.status = "pending" /\ v.task[t].priority # Background)
  <2> DEFINE w == pingPPRSegmentRevalidation(v, t, e, path, v.got)
  <2>1. Seg(w, w.request, {}) /\ Pinged(v, w, t, e) /\ w.inProgress <= v.inProgress + 1
    BY <1>3, <1>7, <1>12, PPRRevalidationPinged
  <2>2. r = w
    BY <1>5, <1>12
  <2>3. w.inProgress \in Int
    BY <2>1 DEF Pinged
  <2> HIDE DEF w
  <2> QED  BY <1>8, <2>1, <2>2, <2>3 DEF r
<1>13. CASE /\ ~v.thrown /\ x.status # "empty" /\ ~(x.status \in {"pending", "rejected"} /\ low)
  <2>1. r = v
    BY <1>5, <1>13
  <2> QED  BY <1>6, <1>7, <2>1 DEF r
<1> QED  BY <1>9, <1>10, <1>11, <1>12, <1>13

(* One node of the tree is pinged: there is bandwidth for its request, or  *)
(* it is a parallel slot.                                                  *)
LEMMA PingStep ==
    ASSUME NEW s, NEW t, NEW e, Pingable(s, t, e), NEW tree, tree = Tree[s.task[t].href],
           s.task[t].href \in PPRRoutes, NEW f, f.s = s, f.t = t, f.e = e,
           NEW S \in SUBSET DOMAIN tree, NEW x \in S, \A y \in S : x >= y,
           NEW a, PingHolds(f, S \ {x}, a)
    PROVE  PingHolds(f, S, pingPPRRouteNode(a, t, e, x))
<1> DEFINE b == pingPerSegment(a.s, t, e, tree[x])
           r == pingPPRRouteNode(a, t, e, x)
           Slots == ParallelSlots(s.task[t].href)
<1>1. s.task[t] \in Task /\ s.task[t].href \in Hrefs
  <2>1. s.task[t] \in Task
    BY DEF Pingable
  <2> QED  BY <2>1 DEF Task
<1>2. tree \in Seq(Segments) /\ tree[x] \in Segments /\ x \in 1 .. Len(tree)
  BY <1>1, TreeAssumption
<1>3. /\ DOMAIN a = {"s", "exit"} /\ a.exit \in {"Done", "InProgress"}
      /\ Seg(a.s, a.s.request, {}) /\ Pinged(s, a.s, t, e)
      /\ a.s.inProgress <= MAX_CONCURRENT_PREFETCH_REQUESTS + Cardinality(Slots \cap (S \ {x}))
      /\ S \ {x} = {} => a.s.inProgress < MAX_CONCURRENT_PREFETCH_REQUESTS
  BY DEF PingHolds
<1>12. /\ Cardinality(Slots \cap S) \in Nat /\ Cardinality(Slots \cap (S \ {x})) \in Nat
       /\ Cardinality(Slots \cap (S \ {x})) <= Cardinality(Slots \cap S)
       /\ x \in Slots => Cardinality(Slots \cap S) = Cardinality(Slots \cap (S \ {x})) + 1
  <2>1. IsFiniteSet(Slots)
    BY <1>1, SlotsFinite
  <2> HIDE DEF Slots
  <2>2. IsFiniteSet(Slots \cap S) /\ IsFiniteSet(Slots \cap (S \ {x}))
    BY <2>1, FS_Subset
  <2>3. Slots \cap (S \ {x}) \subseteq Slots \cap S
    OBVIOUS
  <2>4. ASSUME x \in Slots
        PROVE  Cardinality(Slots \cap S) = Cardinality(Slots \cap (S \ {x})) + 1
    <3>1. Slots \cap S = (Slots \cap (S \ {x})) \cup {x} /\ x \notin Slots \cap (S \ {x})
      BY <2>4
    <3> QED  BY <2>2, <3>1, FS_AddElement
  <2> QED  BY <2>2, <2>3, <2>4, FS_Subset, FS_CardinalityType
<1>13. x \in Slots <=> x > 1 /\ ~entersChildren(tree, x)
  BY DEF ParallelSlots
<1> HIDE DEF Slots
<1>4. Pingable(a.s, t, e)
  BY <1>3, PingedPingable
<1>5. Tree[a.s.task[t].href] = tree /\ a.s.inProgress \in Int /\ MAX_CONCURRENT_PREFETCH_REQUESTS \in Nat
  BY <1>3, MaxAssumption DEF Pinged, Pingable
<1>6. r = IF a.s.thrown \/ a.exit = "InProgress" THEN a
          ELSE IF entersChildren(tree, x) /\ ~hasNetworkBandwidth(a.s) THEN [a EXCEPT !.exit = "InProgress"]
          ELSE [a EXCEPT !.s = b]
  BY <1>5 DEF pingPPRRouteNode
<1>7. Seg(b, b.request, {}) /\ Pinged(a.s, b, t, e) /\ b.inProgress <= a.s.inProgress + 1
  BY <1>2, <1>4, PerSegmentPinged
<1> HIDE DEF b, r
<1>8. Pinged(s, b, t, e) /\ b.inProgress \in Int
  BY <1>3, <1>7, PingedTrans DEF Pinged
<1>9. CASE a.s.thrown \/ a.exit = "InProgress"
  <2>1. r = a
    BY <1>6, <1>9
  <2>2. PingHolds(f, S, a)
    BY <1>3, <1>5, <1>12 DEF PingHolds, Slots
  <2> QED  BY <2>1, <2>2 DEF r
<1>10. CASE entersChildren(tree, x) /\ ~hasNetworkBandwidth(a.s) /\ ~(a.s.thrown \/ a.exit = "InProgress")
  <2>1. r = [a EXCEPT !.exit = "InProgress"]
    BY <1>6, <1>10
  <2>2. DOMAIN r = {"s", "exit"} /\ r.s = a.s /\ r.exit = "InProgress"
    BY <1>3, <2>1
  <2>3. PingHolds(f, S, r)
    BY <1>3, <1>5, <1>12, <2>2 DEF PingHolds, Slots
  <2> QED  BY <2>3 DEF r
<1>11. CASE /\ ~(entersChildren(tree, x) /\ ~hasNetworkBandwidth(a.s))
            /\ ~(a.s.thrown \/ a.exit = "InProgress")
  <2>1. r = [a EXCEPT !.s = b]
    BY <1>6, <1>11
  <2>2. DOMAIN r = {"s", "exit"} /\ r.s = b /\ r.exit = a.exit
    BY <1>3, <2>1
  <2>3. b.inProgress <= MAX_CONCURRENT_PREFETCH_REQUESTS + Cardinality(Slots \cap S)
    <3>1. CASE S \ {x} = {}
      BY <1>3, <1>5, <1>7, <1>8, <1>12, <3>1
    <3>2. CASE S \ {x} # {}
      <4>1. PICK y \in S \ {x} : TRUE
        BY <3>2
      <4>2. y \in 1 .. Len(tree) /\ x >= y /\ y # x
        BY <1>2, <4>1
      <4>3. x > 1
        BY <1>2, <4>2
      <4>4. CASE entersChildren(tree, x)
        <5>1. a.s.inProgress < MAX_CONCURRENT_PREFETCH_REQUESTS
          BY <1>11, <4>4 DEF hasNetworkBandwidth
        <5> QED  BY <1>5, <1>7, <1>8, <1>12, <5>1
      <4>5. CASE ~entersChildren(tree, x)
        <5>1. x \in Slots
          BY <1>13, <4>3, <4>5
        <5> QED  BY <1>3, <1>5, <1>7, <1>8, <1>12, <5>1
      <4> QED  BY <4>4, <4>5
    <3> QED  BY <3>1, <3>2
  <2>4. S # {}
    OBVIOUS
  <2>5. PingHolds(f, S, r)
    BY <1>3, <1>7, <1>8, <2>2, <2>3, <2>4 DEF PingHolds, Slots
  <2> QED  BY <2>5 DEF r
<1> QED  BY <1>9, <1>10, <1>11

(* A task may do nothing.                                                  *)
LEMMA PingedRefl ==
    ASSUME NEW s, NEW t, NEW e, Pingable(s, t, e) PROVE Pinged(s, s, t, e)
BY DEF Pingable, Pinged, Seg, SegmentTypes

(* pingPPRRouteTree: the whole tree, with at most as many requests as are  *)
(* allowed.                                                                *)
LEMMA PingFold ==
    ASSUME NEW s, NEW t, NEW e, Pingable(s, t, e), s.task[t].href \in PPRRoutes,
           s.inProgress < MAX_CONCURRENT_PREFETCH_REQUESTS
    PROVE  LET r == pingPPRRouteTree(s, t, e)
           IN  /\ DOMAIN r = {"s", "exit"} /\ r.exit \in {"Done", "InProgress"}
               /\ Seg(r.s, r.s.request, {}) /\ Pinged(s, r.s, t, e)
               /\ WithinLimit(r.s.inProgress)
<1> DEFINE tree == Tree[s.task[t].href]
           seq == [i \in DOMAIN tree |-> i]
           base == [s |-> s, exit |-> "Done"]
           f == [op |-> "ping", s |-> s, t |-> t, e |-> e, seq |-> seq]
<1>1. /\ f.s = s /\ f.t = t /\ f.e = e /\ f.seq = seq /\ f.op = "ping"
      /\ base.s = s /\ base.exit = "Done" /\ DOMAIN base = {"s", "exit"}
  OBVIOUS
<1>2. tree \in Seq(Segments)
  <2>1. s.task[t] \in Task
    BY DEF Pingable
  <2>2. s.task[t].href \in Hrefs
    BY <2>1 DEF Task
  <2> QED  BY <2>2, TreeAssumption
<1>3. DOMAIN seq = DOMAIN tree /\ \A i \in DOMAIN tree : seq[i] = i
  OBVIOUS
<1> HIDE DEF f, tree, base
<1>4. DOMAIN tree \subseteq Int /\ IsFiniteSet(DOMAIN tree)
  BY <1>2, FS_Interval
<1> HIDE DEF seq
<1>5. \A x, a : Apply(f, x, a) = pingPPRRouteNode(a, t, e, seq[x])
  BY <1>1 DEF Apply
<1>6. \A S, a : Holds(f, S, a) <=> PingHolds(f, S, a)
  BY <1>1 DEF Holds
<1>7. Holds(f, {}, base)
  <2>1. PingHolds(f, {}, base)
    <3>1. Cardinality(ParallelSlots(s.task[t].href) \cap {}) = 0
      BY FS_EmptySet
    <3> QED  BY <1>1, <3>1, PingedRefl, MaxAssumption DEF PingHolds, Pingable
  <2> QED  BY <1>6, <2>1
<1>8. ASSUME NEW S \in SUBSET DOMAIN tree, S # {}, NEW a, Holds(f, S \ {Max(S)}, a)
      PROVE  Holds(f, S, Apply(f, Max(S), a))
  <2>1. Max(S) \in S /\ \A y \in S : Max(S) >= y
    BY <1>4, <1>8, MaxInSet, FS_Subset
  <2>2. PingHolds(f, S \ {Max(S)}, a)
    BY <1>6, <1>8
  <2>3. Apply(f, Max(S), a) = pingPPRRouteNode(a, t, e, Max(S))
    BY <1>3, <1>5, <2>1
  <2>4. PingHolds(f, S, pingPPRRouteNode(a, t, e, Max(S)))
    BY <1>1, <2>1, <2>2, PingStep DEF tree
  <2> QED  BY <1>6, <2>3, <2>4
<1> DEFINE P(g) == g = [S \in SUBSET DOMAIN seq |->
                          IF S = {} THEN base ELSE pingPPRRouteNode(g[S \ {Max(S)}], t, e, seq[Max(S)])]
<1>9. ASSUME NEW g PROVE P(g) <=> LeftFolds(f, base, DOMAIN tree, g)
  <2>1. [S \in SUBSET DOMAIN seq |->
            IF S = {} THEN base ELSE pingPPRRouteNode(g[S \ {Max(S)}], t, e, seq[Max(S)])]
          = [S \in SUBSET DOMAIN tree |-> IF S = {} THEN base ELSE Apply(f, Max(S), g[S \ {Max(S)}])]
    BY <1>3, <1>5
  <2> QED  BY <2>1 DEF LeftFolds
<1>10. /\ \E g : LeftFolds(f, base, DOMAIN tree, g)
       /\ \A g : LeftFolds(f, base, DOMAIN tree, g) => Holds(f, DOMAIN tree, g[DOMAIN tree])
  <2>1. \A S \in SUBSET DOMAIN tree : S # {} =>
            \A a : Holds(f, S \ {Max(S)}, a) => Holds(f, S, Apply(f, Max(S), a))
    BY <1>8
  <2> QED  BY <1>4, <1>7, <2>1, FoldedLeft
<1>11. pingPPRRouteTree(s, t, e) = (CHOOSE g : P(g))[DOMAIN seq]
  BY DEF pingPPRRouteTree, FoldLeft, MapThenFoldSet, tree, base, seq
<1> HIDE DEF P
<1>12. PingHolds(f, DOMAIN tree, pingPPRRouteTree(s, t, e))
  BY <1>3, <1>6, <1>9, <1>10, <1>11
<1>13. WithinLimit(pingPPRRouteTree(s, t, e).s.inProgress)
  <2>1. s.task[t].href \in PPRRoutes \cap Hrefs
    <3>1. s.task[t] \in Task
      BY DEF Pingable
    <3> QED  BY <3>1 DEF Task
  <2>2. ParallelSlots(s.task[t].href) \cap DOMAIN tree = ParallelSlots(s.task[t].href)
    BY DEF ParallelSlots, tree
  <2> QED  BY <1>1, <1>12, <2>1, <2>2 DEF PingHolds, WithinLimit
<1> QED  BY <1>1, <1>12, <1>13 DEF PingHolds

-----------------------------------------------------------------------------
(* A task collects what one dynamic request is for                         *)

(* What a dynamic request has been told to fill, one segment later.        *)
Collected(s, R, a, b, path) ==
    /\ DOMAIN b = {"s", "spawned", "cut"}
    /\ Seg(b.s, R, Range(b.spawned)) /\ Steady(s, b.s, Nat) /\ NotBroken(s, b.s)
    /\ Spawned(b.s, b.spawned, R)
    /\ DOMAIN b.spawned \subseteq DOMAIN a.spawned \cup {path}

(* NotBroken composes.                                                     *)
LEMMA NotBrokenTrans ==
    ASSUME NEW s, NEW r, NEW v, NotBroken(s, r), NotBroken(r, v) PROVE NotBroken(s, v)
BY DEF NotBroken

(* The requests and the spawned entries are as they were, if what they are *)
(* for did not change.                                                     *)
LEMMA SpawnedKept ==
    ASSUME NEW s, NEW r, NEW entries, NEW R, Spawned(s, entries, R), NEW W, Steady(s, r, W),
           \A e \in Range(entries) : e \notin W
    PROVE  Spawned(r, entries, R)
BY DEF Spawned, Steady

(* A segment's entry is made pending for the dynamic request to come.      *)
LEMMA SpawnCollected ==
    ASSUME NEW s, NEW R, NEW a, DOMAIN a = {"s", "spawned", "cut"}, a.spawned \in Entries, NEW r,
           Seg(r, R, Range(a.spawned)), Steady(s, r, Nat), NotBroken(s, r),
           Spawned(r, a.spawned, R), NEW path \in Segments, path \notin DOMAIN a.spawned,
           NEW entry \in DOMAIN r.segment, r.segment[entry].status = "empty",
           NEW strategy \in {"PPR", "LoadingBoundary", "Full"}
    PROVE  LET b == spawn(a, r, path, entry, strategy)
           IN  /\ Collected(s, R, a, b, path) /\ b.s.segment[entry].upsert = NoUpsert
               /\ b.s.segmentMap = r.segmentMap /\ entry \in DOMAIN b.s.segment
               /\ entry \in Range(b.spawned)
<1> DEFINE m == upgradeToPendingSegment(r, entry, strategy)
           new == [p \in {path} \cup DOMAIN a.spawned |-> IF p = path THEN entry ELSE a.spawned[p]]
           b == spawn(a, r, path, entry, strategy)
<1>1. /\ Seg(m, R, Range(a.spawned) \cup {entry}) /\ Steady(r, m, {entry}) /\ m.faults = r.faults
      /\ DOMAIN m.segment = DOMAIN r.segment /\ m.segmentMap = r.segmentMap
      /\ m.segment[entry].status = "pending" /\ m.segment[entry].upsert = NoUpsert
  BY UpgradeSeg
<1>2. entry \in Nat /\ entry \notin Range(a.spawned)
  BY DEF Spawned, Seg, SegmentTypes
<1>3. /\ new \in Entries /\ DOMAIN new = DOMAIN a.spawned \cup {path}
      /\ Range(new) = Range(a.spawned) \cup {entry}
      /\ \A p, p2 \in DOMAIN new : new[p] = new[p2] => p = p2
  <2> DEFINE old == a.spawned
  <2>1. PICK P \in SUBSET Segments : IsFiniteSet(P) /\ old \in [P -> Nat]
    BY DEF Entries
  <2>2. DOMAIN old = P /\ \A p \in P : old[p] \in Nat
    BY <2>1
  <2>3. IsFiniteSet(P \cup {path}) /\ P \cup {path} \in SUBSET Segments
    BY <2>1, FS_AddElement
  <2>4. new \in [P \cup {path} -> Nat]
    BY <1>2, <2>2
  <2>5. new \in Entries
    BY <2>3, <2>4 DEF Entries
  <2>6. /\ DOMAIN new = DOMAIN old \cup {path} /\ new[path] = entry
        /\ \A p \in DOMAIN old : new[p] = old[p]
    OBVIOUS
  <2> HIDE DEF new
  <2>7. Range(new) = Range(old) \cup {entry}
    BY <2>6 DEF Range
  <2>8. \A p, p2 \in DOMAIN new : new[p] = new[p2] => p = p2
    BY <1>2, <2>6 DEF Range, Spawned
  <2> QED  BY <2>5, <2>6, <2>7, <2>8
<1>4. DOMAIN b = {"s", "spawned", "cut"} /\ b.s = m /\ b.spawned = new
  BY DEF spawn
<1> HIDE DEF m, new, b
<1>5. Steady(s, m, Nat)
  BY <1>1, <1>2, SteadyMono, SteadyTrans
<1>6. NotBroken(s, m)
  BY <1>1 DEF NotBroken
<1>7. Spawned(m, new, R)
  <2>1. \A q \in R : q.kind # "route" => entry \notin Range(q.entries)
    BY DEF Seg, RequestOK
  <2>2. \A d \in Range(a.spawned) : d \in DOMAIN m.segment /\ m.segment[d].status = "pending"
    BY <1>1, <1>2 DEF Spawned, Steady
  <2>3. \A d \in Range(a.spawned) : \A q \in R : q.kind # "route" => d \notin Range(q.entries)
    BY DEF Spawned
  <2> QED  BY <1>1, <1>3, <2>1, <2>2, <2>3 DEF Spawned
<1> QED  BY <1>1, <1>3, <1>4, <1>5, <1>6, <1>7 DEF Collected, b

(* A pending entry learns where its answer is to be inserted.              *)
LEMMA MarkedSeg ==
    ASSUME NEW s, NEW R, NEW sp, Seg(s, R, sp), NEW e \in DOMAIN s.segment,
           s.segment[e].status = "pending", unmapped(s, e), NEW k \in SegmentKeys,
           \A q \in R : q.kind # "route" => e \notin Range(q.entries),
           NEW x, x = [s.segment[e] EXCEPT !.upsert = k],
           NEW r, DOMAIN r = Fields, SegmentsOnly(s, r),
           r.segment = [s.segment EXCEPT ![e] = x], r.segmentMap = s.segmentMap,
           r.segmentLru = s.segmentLru, r.got = s.got, r.thrown = s.thrown, r.faults = s.faults
    PROVE  Seg(r, R, sp) /\ Steady(s, r, {})
<1>1. SegmentTypes(s) /\ DOMAIN s = Fields
  BY DEF Seg, SegmentTypes
<1>2. s.segment[e] \in SegmentEntry /\ k \in Upserts
  BY <1>1 DEF SegmentTypes, Upserts
<1>3. /\ x \in SegmentEntry /\ x.upsert = k /\ x.waited = s.segment[e].waited
      /\ x.status = s.segment[e].status /\ x.stale = s.segment[e].stale
      /\ x.isPartial = s.segment[e].isPartial /\ x.keypath = s.segment[e].keypath
      /\ x.revalidating = s.segment[e].revalidating
  BY <1>2 DEF SegmentEntry
<1>4. /\ r.segment \in Seq(SegmentEntry) /\ DOMAIN r.segment = DOMAIN s.segment /\ r.segment[e] = x
      /\ \A d \in DOMAIN s.segment : d # e => r.segment[d] = s.segment[d]
  BY <1>1, <1>3, UpdatedEntry DEF SegmentTypes
<1>5. \A d \in DOMAIN s.segment :
         /\ r.segment[d].status = s.segment[d].status /\ r.segment[d].stale = s.segment[d].stale
         /\ r.segment[d].isPartial = s.segment[d].isPartial
         /\ r.segment[d].keypath = s.segment[d].keypath
         /\ r.segment[d].revalidating = s.segment[d].revalidating
         /\ r.segment[d].waited = s.segment[d].waited
         /\ d # e => r.segment[d].upsert = s.segment[d].upsert
  BY <1>3, <1>4
<1>6. \A d : unmapped(r, d) <=> unmapped(s, d)
  BY DEF unmapped
<1>7. SegmentTypes(r)
  BY <1>1, <1>4 DEF SegmentTypes
<1>8. SegmentsEvictable(r)
  BY <1>1, <1>5 DEF Seg, SegmentsEvictable, SegmentTypes
<1>9. ASSUME NEW d \in DOMAIN r.segment PROVE EntryOK(r, d)
  <2>1. EntryOK(s, d)
    BY <1>4 DEF Seg
  <2>2. CASE d # e
    BY <1>4, <1>5, <1>6, <2>1, <2>2 DEF EntryOK
  <2>3. CASE d = e
    BY <1>4, <1>5, <1>6, <2>1, <2>3 DEF EntryOK
  <2> QED  BY <2>2, <2>3
<1>10. ASSUME NEW q \in R PROVE RequestOK(r, q)
  <2>1. RequestOK(s, q)
    BY DEF Seg
  <2> QED  BY <1>4, <1>5, <1>6, <2>1 DEF RequestOK
<1>11. Fetched(r, R, sp)
  BY <1>4, <1>5 DEF Seg, Fetched
<1>12. Seg(r, R, sp)
  BY <1>7, <1>8, <1>9, <1>10, <1>11 DEF Seg
<1>13. \A j \in SegmentKeys : Full(s, j) => Full(r, j)
  BY <1>1, <1>5 DEF Full, SegmentTypes
<1>14. Steady(s, r, {})
  BY <1>4, <1>5, <1>13 DEF Steady
<1> QED  BY <1>12, <1>14

(* What a step of the collection starts from: r is the state after a read. *)
Collecting(s, R, a, r, path) ==
    /\ DOMAIN a = {"s", "spawned", "cut"}
    /\ Seg(r, R, Range(a.spawned)) /\ Steady(s, r, Nat) /\ NotBroken(s, r)
    /\ Spawned(r, a.spawned, R)
    /\ path \in Segments /\ path \notin DOMAIN a.spawned

(* The entry for path is read or created.                                  *)
LEMMA CollectingRead ==
    ASSUME NEW s, NEW R, NEW a, NEW r, NEW path, Collecting(s, R, a, r, path), NEW v,
           Seg(v, R, Range(a.spawned)), Steady(r, v, {}), NotBroken(r, v)
    PROVE  Collecting(s, R, a, v, path)
<1>1. Steady(s, v, Nat)
  BY SteadyMono, SteadyTrans DEF Collecting
<1>2. NotBroken(s, v)
  BY NotBrokenTrans DEF Collecting
<1>3. Spawned(v, a.spawned, R)
  BY SpawnedKept DEF Collecting
<1> QED  BY <1>1, <1>2, <1>3 DEF Collecting

(* Nothing is collected for path.                                          *)
LEMMA CollectedNothing ==
    ASSUME NEW s, NEW R, NEW a, NEW r, NEW path, Collecting(s, R, a, r, path), NEW b,
           DOMAIN b = {"s", "spawned", "cut"}, b.s = r, b.spawned = a.spawned
    PROVE  Collected(s, R, a, b, path)
BY DEF Collecting, Collected

(* pingFullSegmentRevalidation: the revalidation to be fetched is empty    *)
(* and in no map.                                                          *)
LEMMA FullRevalidationCollected ==
    ASSUME NEW s, NEW R, NEW a, NEW r, NEW path, Collecting(s, R, a, r, path), NEW t,
           NEW owner \in DOMAIN r.segment
    PROVE  Collected(s, R, a, pingFullSegmentRevalidation(a, r, t, path, owner), path)
<1> DEFINE v == readOrCreateRevalidatingSegmentEntry(r, owner)
           x == v.segment[v.got]
           w == IF x.status = "empty" THEN v ELSE resetRevalidatingSegmentEntry(v, v.got)
           b == spawn(a, w, path, w.got, "Full")
           k == getSegmentKeypathForTask(r, t, path)
           c == [b EXCEPT !.s.segment[w.got].upsert = k]
           d == pingFullSegmentRevalidation(a, r, t, path, owner)
<1>1. Seg(r, R, Range(a.spawned)) /\ DOMAIN a = {"s", "spawned", "cut"} /\ k \in SegmentKeys
  BY KeypathOK DEF Collecting
<1>2. /\ Seg(v, R, Range(a.spawned)) /\ Steady(r, v, {}) /\ v.got \in DOMAIN v.segment
      /\ x.status = "empty" => unmapped(v, v.got)
  BY <1>1, RevalidatingSeg
<1>3. NotBroken(r, v)
  BY <1>1, RevalidatingNotBroken
<1>4. d = IF x.status # "empty" /\ x.fetchStrategy = "Full" THEN [a EXCEPT !.s = v] ELSE c
  BY DEF pingFullSegmentRevalidation
<1> HIDE DEF v, d, k
<1>5. Collecting(s, R, a, v, path)
  BY <1>2, <1>3, CollectingRead
<1>6. CASE x.status # "empty" /\ x.fetchStrategy = "Full"
  <2>1. d = [a EXCEPT !.s = v]
    BY <1>4, <1>6
  <2>2. DOMAIN d = {"s", "spawned", "cut"} /\ d.s = v /\ d.spawned = a.spawned
    BY <1>1, <2>1
  <2>3. Collected(s, R, a, d, path)
    BY <1>5, <2>2, CollectedNothing
  <2> QED  BY <2>3 DEF d
<1>7. CASE ~(x.status # "empty" /\ x.fetchStrategy = "Full")
  <2>1. /\ Seg(w, R, Range(a.spawned)) /\ Steady(v, w, {}) /\ NotBroken(v, w)
        /\ w.got \in DOMAIN w.segment /\ unmapped(w, w.got) /\ w.segment[w.got].status = "empty"
    <3>1. CASE x.status = "empty"
      <4>1. w = v
        BY <3>1
      <4>2. Steady(v, v, {})
        BY <1>2, SteadyRefl
      <4> HIDE DEF w
      <4> QED  BY <1>2, <3>1, <4>1, <4>2 DEF NotBroken
    <3>2. CASE x.status # "empty"
      <4> DEFINE y == resetRevalidatingSegmentEntry(v, v.got)
      <4>1. w = y
        BY <3>2
      <4>2. /\ Seg(y, R, Range(a.spawned)) /\ Steady(v, y, {}) /\ y.got \in DOMAIN y.segment
            /\ unmapped(y, y.got) /\ y.segment[y.got].status = "empty"
        BY <1>2, ResetSeg
      <4>3. NotBroken(v, y)
        BY <1>2, ResetNotBroken
      <4> HIDE DEF w, y
      <4> QED  BY <4>1, <4>2, <4>3
    <3> QED  BY <3>1, <3>2
  <2> HIDE DEF w
  <2>2. Collecting(s, R, a, w, path)
    BY <1>5, <2>1, CollectingRead
  <2>3. /\ Collected(s, R, a, b, path) /\ b.s.segment[w.got].upsert = NoUpsert
        /\ b.s.segmentMap = w.segmentMap /\ w.got \in DOMAIN b.s.segment
        /\ w.got \in Range(b.spawned)
    <3>1. /\ DOMAIN a = {"s", "spawned", "cut"} /\ a.spawned \in Entries
          /\ Seg(w, R, Range(a.spawned)) /\ Steady(s, w, Nat) /\ NotBroken(s, w)
          /\ Spawned(w, a.spawned, R) /\ path \in Segments /\ path \notin DOMAIN a.spawned
      BY <2>2 DEF Collecting, Spawned
    <3> QED  BY <2>1, <3>1, SpawnCollected
  <2> HIDE DEF b
  <2>4. /\ DOMAIN b = {"s", "spawned", "cut"} /\ Seg(b.s, R, Range(b.spawned))
        /\ Steady(s, b.s, Nat) /\ NotBroken(s, b.s) /\ Spawned(b.s, b.spawned, R)
        /\ DOMAIN b.spawned \subseteq DOMAIN a.spawned \cup {path}
    BY <2>3 DEF Collected
  <2> DEFINE g == w.got
             y == [b.s.segment[g] EXCEPT !.upsert = k]
  <2>5. DOMAIN b.s = Fields /\ b.s.segment \in Seq(SegmentEntry) /\ g \in DOMAIN b.s.segment
    BY <2>3, <2>4 DEF Seg, SegmentTypes
  <2>6. /\ DOMAIN c = {"s", "spawned", "cut"} /\ c.spawned = b.spawned
        /\ c.s = [b.s EXCEPT !.segment[g] = y]
    BY <2>4, <2>5 DEF Fields
  <2> HIDE DEF c, y
  <2>7. /\ DOMAIN c.s = Fields /\ SegmentsOnly(b.s, c.s)
        /\ c.s.segment = [b.s.segment EXCEPT ![g] = y] /\ c.s.segmentMap = b.s.segmentMap
        /\ c.s.segmentLru = b.s.segmentLru /\ c.s.got = b.s.got /\ c.s.thrown = b.s.thrown
        /\ c.s.faults = b.s.faults
    BY <2>5, <2>6 DEF Fields, SegmentsOnly
  <2>8. /\ b.s.segment[g].status = "pending" /\ unmapped(b.s, g)
        /\ \A q \in R : q.kind # "route" => g \notin Range(q.entries)
    BY <2>1, <2>3, <2>4 DEF Spawned, unmapped
  <2>9. Seg(c.s, R, Range(b.spawned)) /\ Steady(b.s, c.s, {})
    BY <1>1, <2>4, <2>5, <2>7, <2>8, MarkedSeg DEF y
  <2>10. Steady(s, c.s, Nat)
    BY <2>4, <2>9, SteadyMono, SteadyTrans
  <2>11. NotBroken(s, c.s)
    BY <2>4, <2>7 DEF NotBroken
  <2>12. Spawned(c.s, b.spawned, R)
    BY <2>4, <2>9, SpawnedKept
  <2>13. Collected(s, R, a, c, path)
    BY <2>4, <2>6, <2>9, <2>10, <2>11, <2>12 DEF Collected
  <2>14. d = c
    BY <1>4, <1>7
  <2> QED  BY <2>13, <2>14 DEF d
<1> QED  BY <1>6, <1>7

(* The entry that was read or created exists.                              *)
LEMMA CollectingCreated ==
    ASSUME NEW s, NEW R, NEW a, NEW path, Collecting(s, R, a, a.s, path), NEW t, NEW e,
           s.route[e].stale \in BOOLEAN
    PROVE  LET r == readOrCreateSegmentCacheEntry(a.s, t, e, path)
           IN  Collecting(s, R, a, r, path) /\ (~r.thrown => r.got \in DOMAIN r.segment)
<1> DEFINE r == readOrCreateSegmentCacheEntry(a.s, t, e, path)
<1>1. Seg(a.s, R, Range(a.spawned)) /\ a.s.route[e].stale \in BOOLEAN /\ path \in Segments
  BY DEF Collecting, Steady, SegmentsOnly
<1>2. getSegmentKeypathForTask(a.s, t, path) \in SegmentKeys
  BY <1>1, KeypathOK
<1>3. /\ Seg(r, R, Range(a.spawned)) /\ Steady(a.s, r, {})
      /\ ~r.thrown => r.got \in DOMAIN r.segment
  BY <1>1, <1>2, ReadOrCreateSeg
<1>4. NotBroken(a.s, r)
  BY <1>1, ReadOrCreateNotBroken
<1> HIDE DEF r
<1>5. Collecting(s, R, a, r, path)
  BY <1>3, <1>4, CollectingRead
<1> QED  BY <1>3, <1>5 DEF r

(* pingPPRDisabledRouteTreeUpToLoadingBoundary.                            *)
LEMMA UpToLoadingCollected ==
    ASSUME NEW s, NEW R, NEW a, NEW path, Collecting(s, R, a, a.s, path), NEW t, NEW e,
           s.route[e].stale \in BOOLEAN
    PROVE  Collected(s, R, a, pingPPRDisabledRouteTreeUpToLoadingBoundary(a, t, e, path), path)
<1> DEFINE r == readOrCreateSegmentCacheEntry(a.s, t, e, path)
           x == r.segment[r.got]
           b == pingPPRDisabledRouteTreeUpToLoadingBoundary(a, t, e, path)
<1>1. DOMAIN a = {"s", "spawned", "cut"}
  BY DEF Collecting
<1>2. Collecting(s, R, a, r, path) /\ (~r.thrown => r.got \in DOMAIN r.segment)
  BY CollectingCreated
<1>3. b = IF a.s.thrown THEN a
          ELSE IF Parent[path] \in a.cut THEN [a EXCEPT !.cut = @ \cup {path}]
          ELSE IF r.thrown THEN [a EXCEPT !.s = r]
          ELSE IF x.status = "empty" THEN spawn(a, r, path, r.got, "LoadingBoundary")
          ELSE IF x.status = "fulfilled" /\ x.loading
            THEN [a EXCEPT !.s = r, !.cut = @ \cup {path}]
          ELSE [a EXCEPT !.s = r]
  BY DEF pingPPRDisabledRouteTreeUpToLoadingBoundary
<1> HIDE DEF r, b
<1>4. ASSUME NEW v, Collecting(s, R, a, v, path),
             NEW c, DOMAIN c = {"s", "spawned", "cut"}, c.s = v, c.spawned = a.spawned, b = c
      PROVE  Collected(s, R, a, b, path)
  BY <1>4, CollectedNothing
<1>5. CASE a.s.thrown
  <2>1. b = a
    BY <1>3, <1>5
  <2> QED  BY <1>1, <1>4, <2>1 DEF b
<1>6. CASE ~a.s.thrown /\ Parent[path] \in a.cut
  <2> DEFINE c == [a EXCEPT !.cut = @ \cup {path}]
  <2>1. DOMAIN c = {"s", "spawned", "cut"} /\ c.s = a.s /\ c.spawned = a.spawned
    BY <1>1
  <2>2. b = c
    BY <1>3, <1>6
  <2> HIDE DEF c
  <2> QED  BY <1>4, <2>1, <2>2 DEF b
<1>7. CASE ~a.s.thrown /\ Parent[path] \notin a.cut
  <2>1. CASE r.thrown \/ ~(x.status = "empty" \/ (x.status = "fulfilled" /\ x.loading))
    <3> DEFINE c == [a EXCEPT !.s = r]
    <3>1. DOMAIN c = {"s", "spawned", "cut"} /\ c.s = r /\ c.spawned = a.spawned
      BY <1>1
    <3>2. b = c
      BY <1>3, <1>7, <2>1
    <3> HIDE DEF c
    <3> QED  BY <1>2, <1>4, <3>1, <3>2 DEF b
  <2>2. CASE ~r.thrown /\ x.status = "fulfilled" /\ x.loading
    <3> DEFINE c == [a EXCEPT !.s = r, !.cut = @ \cup {path}]
    <3>1. DOMAIN c = {"s", "spawned", "cut"} /\ c.s = r /\ c.spawned = a.spawned
      BY <1>1
    <3>2. b = c
      BY <1>3, <1>7, <2>2
    <3> HIDE DEF c
    <3> QED  BY <1>2, <1>4, <3>1, <3>2 DEF b
  <2>3. CASE ~r.thrown /\ x.status = "empty"
    <3> DEFINE c == spawn(a, r, path, r.got, "LoadingBoundary")
    <3>1. b = c
      BY <1>3, <1>7, <2>3
    <3>2. /\ DOMAIN a = {"s", "spawned", "cut"} /\ a.spawned \in Entries
          /\ Seg(r, R, Range(a.spawned)) /\ Steady(s, r, Nat) /\ NotBroken(s, r)
          /\ Spawned(r, a.spawned, R) /\ path \in Segments /\ path \notin DOMAIN a.spawned
      BY <1>2 DEF Collecting, Spawned
    <3>3. r.got \in DOMAIN r.segment /\ r.segment[r.got].status = "empty"
      BY <1>2, <2>3
    <3>4. Collected(s, R, a, c, path)
      BY <3>2, <3>3, SpawnCollected
    <3> QED  BY <3>1, <3>4 DEF b
  <2> QED  BY <2>1, <2>2, <2>3
<1> QED  BY <1>5, <1>6, <1>7

(* pingRouteTreeAndIncludeDynamicData.                                     *)
LEMMA IncludeDynamicCollected ==
    ASSUME NEW s, NEW R, NEW a, NEW path, Collecting(s, R, a, a.s, path), NEW t, NEW e,
           s.route[e].stale \in BOOLEAN
    PROVE  Collected(s, R, a, pingRouteTreeAndIncludeDynamicData(a, t, e, path), path)
<1> DEFINE r == readOrCreateSegmentCacheEntry(a.s, t, e, path)
           x == r.segment[r.got]
           full == \/ x.status = "fulfilled" /\ x.isPartial
                   \/ x.status \in {"pending", "rejected"} /\ x.fetchStrategy # "Full"
           b == pingRouteTreeAndIncludeDynamicData(a, t, e, path)
<1>1. DOMAIN a = {"s", "spawned", "cut"}
  BY DEF Collecting
<1>2. Collecting(s, R, a, r, path) /\ (~r.thrown => r.got \in DOMAIN r.segment)
  BY CollectingCreated
<1>3. b = IF a.s.thrown THEN a
          ELSE IF r.thrown THEN [a EXCEPT !.s = r]
          ELSE IF x.status = "empty" THEN spawn(a, r, path, r.got, "Full")
          ELSE IF full THEN pingFullSegmentRevalidation(a, r, t, path, r.got)
          ELSE [a EXCEPT !.s = r]
  BY DEF pingRouteTreeAndIncludeDynamicData
<1> HIDE DEF r, b, full
<1>4. ASSUME NEW v, Collecting(s, R, a, v, path),
             NEW c, DOMAIN c = {"s", "spawned", "cut"}, c.s = v, c.spawned = a.spawned, b = c
      PROVE  Collected(s, R, a, b, path)
  BY <1>4, CollectedNothing
<1>5. CASE a.s.thrown
  <2>1. b = a
    BY <1>3, <1>5
  <2> QED  BY <1>1, <1>4, <2>1 DEF b
<1>6. CASE ~a.s.thrown /\ (r.thrown \/ ~(x.status = "empty" \/ full))
  <2> DEFINE c == [a EXCEPT !.s = r]
  <2>1. DOMAIN c = {"s", "spawned", "cut"} /\ c.s = r /\ c.spawned = a.spawned
    BY <1>1
  <2>2. b = c
    BY <1>3, <1>6
  <2> HIDE DEF c
  <2> QED  BY <1>2, <1>4, <2>1, <2>2 DEF b
<1>7. CASE ~a.s.thrown /\ ~r.thrown /\ x.status = "empty"
  <2> DEFINE c == spawn(a, r, path, r.got, "Full")
  <2>1. b = c
    BY <1>3, <1>7
  <2>2. /\ DOMAIN a = {"s", "spawned", "cut"} /\ a.spawned \in Entries
        /\ Seg(r, R, Range(a.spawned)) /\ Steady(s, r, Nat) /\ NotBroken(s, r)
        /\ Spawned(r, a.spawned, R) /\ path \in Segments /\ path \notin DOMAIN a.spawned
    BY <1>2 DEF Collecting, Spawned
  <2>3. r.got \in DOMAIN r.segment /\ r.segment[r.got].status = "empty"
    BY <1>2, <1>7
  <2>4. Collected(s, R, a, c, path)
    BY <2>2, <2>3, SpawnCollected
  <2> QED  BY <2>1, <2>4 DEF b
<1>8. CASE ~a.s.thrown /\ ~r.thrown /\ x.status # "empty" /\ full
  <2>1. b = pingFullSegmentRevalidation(a, r, t, path, r.got)
    BY <1>3, <1>8
  <2>2. Collected(s, R, a, pingFullSegmentRevalidation(a, r, t, path, r.got), path)
    BY <1>2, <1>8, FullRevalidationCollected
  <2> QED  BY <2>1, <2>2 DEF b
<1> QED  BY <1>5, <1>6, <1>7, <1>8

(* One node of the tree is compared with the current page.                 *)
LEMMA DiffStep ==
    ASSUME NEW s, NEW t, NEW e, Pingable(s, t, e), NEW tree \in Seq(Segments),
           \A i, j \in DOMAIN tree : tree[i] = tree[j] => i = j,
           NEW f, f.s = s, f.seq = tree, NEW S \in SUBSET DOMAIN tree, NEW x \in S,
           NEW a, DiffHolds(f, S \ {x}, a)
    PROVE  DiffHolds(f, S, diffNodeAgainstCurrent(a, t, e, tree[x]))
<1> DEFINE path == tree[x]
           R == s.request
           b == diffNodeAgainstCurrent(a, t, e, path)
<1>1. /\ DOMAIN a = {"s", "spawned", "cut"}
      /\ Seg(a.s, R, Range(a.spawned)) /\ Steady(s, a.s, Nat) /\ NotBroken(s, a.s)
      /\ Spawned(a.s, a.spawned, R)
      /\ \A p \in DOMAIN a.spawned : \E i \in S \ {x} : tree[i] = p
  BY DEF DiffHolds, NotBroken
<1>2. path \in Segments /\ path \notin DOMAIN a.spawned
  BY <1>1
<1>3. Collecting(s, R, a, a.s, path) /\ s.route[e].stale \in BOOLEAN
  BY <1>1, <1>2 DEF Collecting, Pingable
<1>4. Collected(s, R, a, b, path)
  <2>1. CASE path \in Current
    <3>1. b = a
      BY <2>1 DEF diffNodeAgainstCurrent
    <3> QED  BY <1>1, <1>3, <3>1, CollectedNothing
  <2>2. CASE path \notin Current /\ a.s.task[t].full
    <3>1. b = pingRouteTreeAndIncludeDynamicData(a, t, e, path)
      BY <2>2 DEF diffNodeAgainstCurrent
    <3> QED  BY <1>3, <3>1, IncludeDynamicCollected
  <2>3. CASE path \notin Current /\ ~a.s.task[t].full
    <3>1. b = pingPPRDisabledRouteTreeUpToLoadingBoundary(a, t, e, path)
      BY <2>3 DEF diffNodeAgainstCurrent
    <3> QED  BY <1>3, <3>1, UpToLoadingCollected
  <2> QED  BY <2>1, <2>2, <2>3
<1> HIDE DEF b
<1>5. \A p \in DOMAIN b.spawned : \E i \in S : tree[i] = p
  BY <1>1, <1>4 DEF Collected
<1>6. DiffHolds(f, S, b)
  BY <1>4, <1>5 DEF Collected, DiffHolds, NotBroken
<1> QED  BY <1>6 DEF b

(* diffRouteTreeAgainstCurrent: what it collects is pending, and of no     *)
(* request yet.                                                            *)
LEMMA DiffFold ==
    ASSUME NEW s, NEW t, NEW e, Pingable(s, t, e)
    PROVE  LET a == diffRouteTreeAgainstCurrent(s, t, e)
           IN  /\ Seg(a.s, s.request, Range(a.spawned)) /\ Steady(s, a.s, Nat) /\ NotBroken(s, a.s)
               /\ Spawned(a.s, a.spawned, s.request)
<1> DEFINE tree == Tree[s.task[t].href]
           base == [s |-> s, spawned |-> << >>, cut |-> {}]
           f == [op |-> "diff", s |-> s, t |-> t, e |-> e, seq |-> tree]
<1>1. /\ f.s = s /\ f.t = t /\ f.e = e /\ f.seq = tree /\ f.op = "diff"
      /\ base.s = s /\ base.spawned = << >> /\ DOMAIN base = {"s", "spawned", "cut"}
  OBVIOUS
<1>2. tree \in Seq(Segments) /\ \A i, j \in DOMAIN tree : tree[i] = tree[j] => i = j
  <2>1. s.task[t] \in Task
    BY DEF Pingable
  <2>2. s.task[t].href \in Hrefs
    BY <2>1 DEF Task
  <2> QED  BY <2>2, TreeAssumption
<1> HIDE DEF f, tree, base
<1>3. DOMAIN tree \subseteq Int /\ IsFiniteSet(DOMAIN tree)
  BY <1>2, FS_Interval
<1>4. \A x, a : Apply(f, x, a) = diffNodeAgainstCurrent(a, t, e, tree[x])
  BY <1>1 DEF Apply
<1>5. \A S, a : Holds(f, S, a) <=> DiffHolds(f, S, a)
  BY <1>1 DEF Holds
<1>6. Seg(s, s.request, {}) /\ s.route[e].stale \in BOOLEAN
  BY DEF Pingable
<1>7. Holds(f, {}, base)
  <2>1. DOMAIN (<< >>) = {} /\ Range(<< >>) = {}
    BY DEF Range
  <2>2. << >> \in Entries
    <3>1. IsFiniteSet({}) /\ {} \in SUBSET Segments
      BY FS_EmptySet
    <3>2. << >> \in [{} -> Nat]
      OBVIOUS
    <3> QED  BY <3>1, <3>2 DEF Entries
  <2>3. Spawned(s, << >>, s.request)
    BY <2>1, <2>2 DEF Spawned
  <2>4. Steady(s, s, Nat)
    BY <1>6, SteadyRefl
  <2>5. DiffHolds(f, {}, base)
    BY <1>1, <1>6, <2>1, <2>3, <2>4 DEF DiffHolds
  <2> QED  BY <1>5, <2>5
<1>8. ASSUME NEW S \in SUBSET DOMAIN tree, S # {}, NEW a, Holds(f, S \ {Max(S)}, a)
      PROVE  Holds(f, S, Apply(f, Max(S), a))
  <2>1. Max(S) \in S
    BY <1>3, <1>8, MaxInSet, FS_Subset
  <2>2. DiffHolds(f, S \ {Max(S)}, a)
    BY <1>5, <1>8
  <2>3. \A i, j \in DOMAIN tree : tree[i] = tree[j] => i = j
    BY <1>2
  <2>4. DiffHolds(f, S, diffNodeAgainstCurrent(a, t, e, tree[Max(S)]))
    BY <1>1, <1>2, <2>1, <2>2, <2>3, DiffStep
  <2> QED  BY <1>4, <1>5, <2>4
<1> DEFINE P(g) == g = [S \in SUBSET DOMAIN tree |->
                          IF S = {} THEN base ELSE diffNodeAgainstCurrent(g[S \ {Max(S)}], t, e, tree[Max(S)])]
<1>9. ASSUME NEW g PROVE P(g) <=> LeftFolds(f, base, DOMAIN tree, g)
  <2>1. [S \in SUBSET DOMAIN tree |->
            IF S = {} THEN base ELSE diffNodeAgainstCurrent(g[S \ {Max(S)}], t, e, tree[Max(S)])]
          = [S \in SUBSET DOMAIN tree |-> IF S = {} THEN base ELSE Apply(f, Max(S), g[S \ {Max(S)}])]
    BY <1>4
  <2> QED  BY <2>1 DEF LeftFolds
<1>10. /\ \E g : LeftFolds(f, base, DOMAIN tree, g)
       /\ \A g : LeftFolds(f, base, DOMAIN tree, g) => Holds(f, DOMAIN tree, g[DOMAIN tree])
  <2>1. \A S \in SUBSET DOMAIN tree : S # {} =>
            \A a : Holds(f, S \ {Max(S)}, a) => Holds(f, S, Apply(f, Max(S), a))
    BY <1>8
  <2> QED  BY <1>3, <1>7, <2>1, FoldedLeft
<1>11. diffRouteTreeAgainstCurrent(s, t, e) = (CHOOSE g : P(g))[DOMAIN tree]
  BY DEF diffRouteTreeAgainstCurrent, FoldLeft, MapThenFoldSet, tree, base
<1> HIDE DEF P
<1>12. DiffHolds(f, DOMAIN tree, diffRouteTreeAgainstCurrent(s, t, e))
  BY <1>5, <1>9, <1>10, <1>11
<1> QED  BY <1>1, <1>12 DEF DiffHolds, NotBroken

-----------------------------------------------------------------------------
(* processTask                                                             *)

(* Where a step of a task may leave the state.                             *)
Stepped(s, r, t) ==
    /\ Sound(r) /\ FullKept(s, r) /\ t \in DOMAIN r.task

(* The requests of a task keep the whole invariant.                        *)
LEMMA PingedSound ==
    ASSUME NEW s, Sound(s), NEW r, NEW t \in DOMAIN s.task, NEW e \in DOMAIN s.route, Pinged(s, r, t, e),
           Seg(r, r.request, {}), WithinLimit(r.inProgress)
    PROVE  Stepped(s, r, t)
<1>1. Rest(s, s.request)
  BY DEF Sound
<1>2. Tasks(r)
  <2>1. /\ \A u \in DOMAIN r.task : r.task[u].sortId < r.sortId
        /\ \A u, v \in DOMAIN r.task : r.task[u].sortId = r.task[v].sortId => u = v
        /\ \A u \in r.queue : ~r.task[u].canceled
    BY <1>1 DEF Rest, Tasks, Pinged
  <2> QED  BY <1>1, <2>1 DEF Rest, Tasks, Pinged
<1>3. Routes(r, r.request)
  <2>1. ASSUME NEW q \in r.request PROVE RouteRequestOK(r, q)
    <3>1. CASE q \in s.request
      <4>1. RouteRequestOK(s, q)
        BY <1>1, <3>1 DEF Rest, Routes
      <4> QED  BY <4>1 DEF RouteRequestOK, Pinged
    <3>2. CASE q \notin s.request
      BY <3>2 DEF RouteRequestOK, Pinged
    <3> QED  BY <3>1, <3>2
  <2>2. \A d \in DOMAIN r.route : /\ r.route[d].blocked \subseteq DOMAIN r.task
                                  /\ r.route[d].status = "pending" => Unanswered(r.request, d)
    BY <1>1 DEF Rest, Routes, Pinged, Unanswered
  <2>3. \A q, q2 \in r.request : q.kind = "route" /\ q2.kind = "route" /\ q.route = q2.route => q = q2
    BY <1>1 DEF Rest, Routes, Pinged
  <2>4. r.got \in Nat
    BY DEF Seg, SegmentTypes
  <2> QED  BY <1>1, <2>1, <2>2, <2>3, <2>4 DEF Rest, Routes, Pinged
<1>4. Kept(r, r.request, {})
  <2>1. \A u : Blocked(s, s.request, u) => Blocked(r, r.request, u)
    BY DEF Blocked, Pinged
  <2> QED  BY <1>1, <2>1 DEF Rest, Kept, Pinged
<1>5. Counted(r) /\ Bounded(r)
  BY DEF Sound, Pinged, Bounded
<1>6. FullKept(s, r)
  BY DEF Pinged, FullKept, Full
<1> QED  BY <1>2, <1>3, <1>4, <1>5, <1>6 DEF Stepped, Sound, Rest, Pinged

(* The task waits for its route, which is or was requested.                *)
LEMMA WaitingSound ==
    ASSUME NEW s, Sound(s), hasNetworkBandwidth(s), NEW t \in DOMAIN s.task, NEW e \in DOMAIN s.route,
           NEW x \in RouteEntry, x.status = "pending", x.blocked = s.route[e].blocked \cup {t},
           x.keypath = s.route[e].keypath, x.version = s.route[e].version,
           NEW o, o = request("route", t, e, << >>, NoUpsert),
           NEW r, DOMAIN r = Fields, r.route = [s.route EXCEPT ![e] = x],
           r.link = s.link, r.visible = s.visible, r.router = s.router, r.task = s.task,
           r.queue = s.queue, r.sortId = s.sortId, r.scheduled = s.scheduled, r.running = s.running,
           r.routeMap = s.routeMap, r.routeLru = s.routeLru, r.version = s.version,
           r.faults = s.faults, r.got = s.got, r.thrown = s.thrown, r.segment = s.segment,
           r.segmentMap = s.segmentMap, r.segmentLru = s.segmentLru,
           \/ /\ s.route[e].status = "empty"
              /\ r.request = s.request \cup {o} /\ r.inProgress = s.inProgress + 1
           \/ /\ s.route[e].status = "pending"
              /\ r.request = s.request /\ r.inProgress = s.inProgress
    PROVE  Stepped(s, r, t) /\ Blocked(r, r.request, t)
<1>1. Rest(s, s.request) /\ Seg(s, s.request, {}) /\ Counted(s) /\ Bounded(s) /\ s.inProgress \in Int
  BY DEF Sound, Rest, Tasks
<1>2. /\ r.route \in Seq(RouteEntry) /\ DOMAIN r.route = DOMAIN s.route /\ r.route[e] = x
      /\ \A d \in DOMAIN s.route : d # e => r.route[d] = s.route[d]
  BY <1>1, UpdatedEntry DEF Rest, Routes
<1>3. o.kind = "route" /\ o.task = t /\ o.route = e /\ ~o.open /\ o \in Request
  <2>1. t \in Nat /\ e \in Nat
    BY <1>1 DEF Rest, Tasks, Routes
  <2>2. << >> \in Entries
    <3>1. IsFiniteSet({}) /\ {} \in SUBSET Segments
      BY FS_EmptySet
    <3>2. << >> \in [{} -> Nat]
      OBVIOUS
    <3> QED  BY <3>1, <3>2 DEF Entries
  <2> QED  BY <2>1, <2>2 DEF request, Request, Upserts
<1>4. s.route[e].status = "empty" => \A q \in s.request : ~(q.kind = "route" /\ q.route = e)
  BY <1>1 DEF Rest, Routes, RouteRequestOK
<1>5. s.request \subseteq r.request /\ r.request \subseteq s.request \cup {o}
  OBVIOUS
<1>6. Unanswered(r.request, e)
  BY <1>1, <1>3 DEF Unanswered, Rest, Routes
<1>7. Tasks(r)
  BY <1>1 DEF Rest, Tasks
<1>8. Routes(r, r.request)
  <2>1. ASSUME NEW q \in r.request PROVE RouteRequestOK(r, q)
    <3>1. CASE q \in s.request
      <4>1. RouteRequestOK(s, q)
        BY <1>1, <3>1 DEF Rest, Routes
      <4> QED  BY <1>2, <1>3, <1>4, <4>1 DEF RouteRequestOK
    <3>2. CASE q = o
      BY <1>2, <1>3, <3>2 DEF RouteRequestOK
    <3> QED  BY <1>5, <3>1, <3>2
  <2>2. ASSUME NEW d \in DOMAIN r.route
        PROVE  /\ r.route[d].blocked \subseteq DOMAIN r.task
               /\ r.route[d].status = "pending" => Unanswered(r.request, d)
    <3>1. CASE d = e
      BY <1>1, <1>2, <1>6, <3>1 DEF Rest, Routes
    <3>2. CASE d # e
      BY <1>1, <1>2, <1>5, <3>2 DEF Rest, Routes, Unanswered
    <3> QED  BY <3>1, <3>2
  <2>3. \A q, q2 \in r.request : q.kind = "route" /\ q2.kind = "route" /\ q.route = q2.route => q = q2
    BY <1>1, <1>3, <1>4 DEF Rest, Routes
  <2>4. \A k \in RouteKeys : LET d == r.routeMap[k] IN
          d # 0 => d \in r.routeLru /\ r.route[d].keypath = k /\ r.route[d].version = r.version
    BY <1>1, <1>2 DEF Rest, Routes
  <2> QED  BY <1>1, <1>2, <2>1, <2>2, <2>3, <2>4 DEF Rest, Routes
<1>9. \A u : Blocked(s, s.request, u) => Blocked(r, r.request, u)
  <2>1. \A q \in s.request : q.route \in DOMAIN s.route
    BY <1>1 DEF Rest, Routes, RouteRequestOK
  <2>2. \A d \in DOMAIN s.route : s.route[d].blocked \subseteq r.route[d].blocked
    BY <1>2
  <2> QED  BY <1>5, <2>1, <2>2 DEF Blocked
<1>10. Kept(r, r.request, {})
  BY <1>1, <1>9 DEF Rest, Kept
<1>11. Seg(r, r.request, {})
  <2>1. RequestOK(s, o)
    BY <1>3 DEF RequestOK
  <2>2. Disjoint(r.request)
    BY <1>1, <1>3, <1>5 DEF Seg, Disjoint
  <2>3. Fetched(s, r.request, {})
    BY <1>1, <1>5 DEF Seg, Fetched
  <2>4. Seg(s, r.request, {})
    BY <1>1, <1>5, <2>1, <2>2, <2>3 DEF Seg
  <2>5. r.got \in Nat /\ r.thrown \in BOOLEAN /\ s.faults \subseteq r.faults
    BY <1>1 DEF Seg, SegmentTypes
  <2>6. r.thrown => "recursion" \in r.faults
    BY <1>1 DEF Seg
  <2> QED  BY <2>4, <2>5, <2>6, SegFrame
<1>12. Counted(r)
  <2>1. CASE r.request = s.request /\ r.inProgress = s.inProgress
    BY <1>1, <2>1 DEF Counted
  <2>2. CASE s.route[e].status = "empty" /\ r.request = s.request \cup {o} /\ r.inProgress = s.inProgress + 1
    <3>1. o \notin s.request /\ s.faults \subseteq r.faults
      BY <1>3, <1>4, <2>2
    <3> QED  BY <1>1, <2>2, <3>1, AddedCounted
  <2> QED  BY <2>1, <2>2
<1>13. Bounded(r)
  BY <1>1, MaxAssumption DEF Bounded, WithinLimit, hasNetworkBandwidth
<1>14. FullKept(s, r)
  BY DEF FullKept
<1>15. Blocked(r, r.request, t)
  BY <1>2, <1>6 DEF Unanswered, Blocked
<1> QED  BY <1>7, <1>8, <1>10, <1>11, <1>12, <1>13, <1>14, <1>15 DEF Stepped, Sound, Rest

(* A request that is not for nothing is for an entry.                      *)
LEMMA EmptyEntries ==
    ASSUME NEW f \in Entries, f # << >> PROVE Range(f) # {}
<1>1. PICK P \in SUBSET Segments : f \in [P -> Nat]
  BY DEF Entries
<1>2. CASE P = {}
  <2>1. << >> \in [{} -> Nat]
    OBVIOUS
  <2>2. f = << >>
    BY <1>1, <1>2, <2>1
  <2> QED  BY <2>2
<1>3. CASE P # {}
  <2>1. PICK p \in P : TRUE
    BY <1>3
  <2>2. f[p] \in Range(f)
    BY <1>1, <2>1 DEF Range
  <2> QED  BY <2>2
<1> QED  BY <1>2, <1>3

(* A task of the queue may ask for segments of its route.                  *)
LEMMA SoundPingable ==
    ASSUME NEW s, Sound(s), NEW t \in DOMAIN s.task, NEW e \in DOMAIN s.route
    PROVE  Pingable(s, t, e)
<1>1. s.route[e] \in RouteEntry /\ e \in Nat
  BY DEF Sound, Rest, Routes
<1>2. s.route[e].stale \in BOOLEAN
  BY <1>1 DEF RouteEntry
<1> QED  BY <1>1, <1>2 DEF Pingable, Sound, Rest, Tasks

(* What the dynamic request of a task is for was collected before.         *)
LEMMA CollectPinged ==
    ASSUME NEW s, NEW t, NEW e, Pingable(s, t, e), NEW a, a.spawned # << >>,
           Seg(a.s, s.request, Range(a.spawned)), Steady(s, a.s, Nat), NotBroken(s, a.s),
           Spawned(a.s, a.spawned, s.request)
    PROVE  LET r == spawnPrefetchSubtask(a.s, request("dynamic", t, e, a.spawned, NoUpsert))
           IN  Seg(r, r.request, {}) /\ Pinged(s, r, t, e) /\ r.inProgress = s.inProgress + 1
<1> DEFINE m == a.s
           o == request("dynamic", t, e, a.spawned, NoUpsert)
           r == spawnPrefetchSubtask(m, o)
<1>2. t \in Nat /\ e \in Nat
  BY DEF Pingable
<1>3. a.spawned \in Entries /\ Range(a.spawned) # {}
  <2>1. a.spawned \in Entries
    BY DEF Spawned
  <2> QED  BY <2>1, EmptyEntries
<1>5. /\ o \in Request /\ o.kind = "dynamic" /\ ~o.open /\ o.entries = a.spawned /\ o.upsert = NoUpsert
      /\ o.task = t /\ o.route = e
  BY <1>2, <1>3 DEF request, Request, Upserts
<1> HIDE DEF o
<1>6. m.request = s.request /\ m.task = s.task /\ m.inProgress = s.inProgress
  BY DEF Steady, SegmentsOnly
<1>8. Seg(m, m.request, Range(o.entries)) /\ Spawned(m, o.entries, m.request) /\ Range(o.entries) # {}
  BY <1>3, <1>5, <1>6
<1>9. o.upsert # NoUpsert => \A d \in Range(o.entries) : unmapped(m, d) /\ m.segment[d].upsert = NoUpsert
  BY <1>5
<1>10. m.inProgress \in Int
  BY <1>6 DEF Pingable
<1>11. Spawns(m, r, o)
  <2>1. /\ o.kind \in {"segment", "dynamic"}
        /\ o.kind = "dynamic" => o.upsert = NoUpsert
        /\ o.kind = "segment" => \E p \in Segments : DOMAIN o.entries = {p}
    BY <1>5
  <2>2. o \in Request /\ ~o.open
    BY <1>5
  <2> QED  BY <1>8, <1>9, <1>10, <2>1, <2>2, SpawnedSeg
<1> HIDE DEF r
<1>12. Pinged(s, m, t, e)
  <2>1. "broken" \in m.faults => "broken" \in s.faults
    BY DEF NotBroken
  <2>2. s.task \in Seq(Task) /\ s.inProgress \in Int
    BY DEF Pingable
  <2> QED  BY <2>1, <2>2, SteadyPinged
<1>13. Pinged(m, r, t, e)
  <2>1. DOMAIN r = Fields /\ r.task \in Seq(Task) /\ r.inProgress \in Int
    BY <1>6, <1>10, <1>11 DEF Pingable, Seg, SegmentTypes, Spawns
  <2>2. \A q \in r.request \ m.request : q.kind # "route" /\ q.task = t /\ q.route = e
    BY <1>5, <1>11 DEF Spawns
  <2> QED  BY <1>11, <2>1, <2>2 DEF Pinged, Full, Spawns
<1>14. Pinged(s, r, t, e)
  BY <1>12, <1>13, PingedTrans
<1> QED  BY <1>6, <1>11, <1>14 DEF Spawns, r, o

(* The route of the task is requested, or was, and the task is blocked on  *)
(* it.                                                                     *)
LEMMA WaitsStepped ==
    ASSUME NEW s, Sound(s), hasNetworkBandwidth(s), NEW t \in DOMAIN s.task, NEW e \in DOMAIN s.route,
           s.route[e].status \in {"empty", "pending"}
    PROVE  LET a == pingRootRouteTree(s, t, e)
           IN  DOMAIN a = {"s", "exit"} /\ a.exit = "Blocked" /\ Stepped(s, a.s, t) /\ Blocked(a.s, a.s.request, t)
<1> DEFINE x == [s.route[e] EXCEPT !.status = "pending", !.blocked = @ \cup {t}]
           o == request("route", t, e, << >>, NoUpsert)
           a == pingRootRouteTree(s, t, e)
           r == a.s
<1>1. DOMAIN s = Fields /\ s.route[e] \in RouteEntry /\ t \in Nat
  BY DEF Sound, Rest, Tasks, Routes
<1>2. /\ x \in RouteEntry /\ x.status = "pending" /\ x.blocked = s.route[e].blocked \cup {t}
      /\ x.keypath = s.route[e].keypath /\ x.version = s.route[e].version
  BY <1>1 DEF RouteEntry, Statuses
<1>3. DOMAIN a = {"s", "exit"} /\ a.exit = "Blocked"
  BY DEF pingRootRouteTree
<1>4. DOMAIN s.route[e] = {"status", "stale", "blocked", "couldBeIntercepted", "keypath", "version"}
  BY <1>1 DEF RouteEntry
<1>5. /\ DOMAIN r = Fields /\ r.route = [s.route EXCEPT ![e] = x]
      /\ r.link = s.link /\ r.visible = s.visible /\ r.router = s.router /\ r.task = s.task
      /\ r.queue = s.queue /\ r.sortId = s.sortId /\ r.scheduled = s.scheduled /\ r.running = s.running
      /\ r.routeMap = s.routeMap /\ r.routeLru = s.routeLru /\ r.version = s.version
      /\ r.faults = s.faults /\ r.got = s.got /\ r.thrown = s.thrown /\ r.segment = s.segment
      /\ r.segmentMap = s.segmentMap /\ r.segmentLru = s.segmentLru
      /\ \/ /\ s.route[e].status = "empty"
            /\ r.request = s.request \cup {o} /\ r.inProgress = s.inProgress + 1
         \/ /\ s.route[e].status = "pending"
            /\ r.request = s.request /\ r.inProgress = s.inProgress
  <2>1. CASE s.route[e].status = "empty"
    <3> DEFINE m == spawnPrefetchSubtask(s, o)
               v == [m EXCEPT !.route[e].status = "pending"]
    <3>1. r = [v EXCEPT !.route[e].blocked = @ \cup {t}]
      BY <2>1 DEF pingRootRouteTree
    <3>2. /\ DOMAIN m = Fields /\ m.route = s.route
          /\ m.link = s.link /\ m.visible = s.visible /\ m.router = s.router /\ m.task = s.task
          /\ m.queue = s.queue /\ m.sortId = s.sortId /\ m.scheduled = s.scheduled /\ m.running = s.running
          /\ m.routeMap = s.routeMap /\ m.routeLru = s.routeLru /\ m.version = s.version
          /\ m.faults = s.faults /\ m.got = s.got /\ m.thrown = s.thrown /\ m.segment = s.segment
          /\ m.segmentMap = s.segmentMap /\ m.segmentLru = s.segmentLru
          /\ m.request = s.request \cup {o} /\ m.inProgress = s.inProgress + 1
      BY <1>1 DEF spawnPrefetchSubtask, Fields
    <3> HIDE DEF m, r, x
    <3>3. /\ DOMAIN r = Fields
          /\ r.route = [[m.route EXCEPT ![e].status = "pending"] EXCEPT ![e].blocked = @ \cup {t}]
          /\ r.link = m.link /\ r.visible = m.visible /\ r.router = m.router /\ r.task = m.task
          /\ r.queue = m.queue /\ r.sortId = m.sortId /\ r.scheduled = m.scheduled /\ r.running = m.running
          /\ r.routeMap = m.routeMap /\ r.routeLru = m.routeLru /\ r.version = m.version
          /\ r.faults = m.faults /\ r.got = m.got /\ r.thrown = m.thrown /\ r.segment = m.segment
          /\ r.segmentMap = m.segmentMap /\ r.segmentLru = m.segmentLru
          /\ r.request = m.request /\ r.inProgress = m.inProgress
      BY <3>1, <3>2 DEF Fields
    <3>4. [[s.route EXCEPT ![e].status = "pending"] EXCEPT ![e].blocked = @ \cup {t}] = [s.route EXCEPT ![e] = x]
      BY <1>4 DEF x
    <3> QED  BY <2>1, <3>2, <3>3, <3>4
  <2>2. CASE s.route[e].status = "pending"
    <3>1. r = [s EXCEPT !.route[e].blocked = @ \cup {t}]
      BY <2>2 DEF pingRootRouteTree
    <3> HIDE DEF r, x
    <3>3. /\ DOMAIN r = Fields
          /\ r.route = [s.route EXCEPT ![e].blocked = @ \cup {t}]
          /\ r.link = s.link /\ r.visible = s.visible /\ r.router = s.router /\ r.task = s.task
          /\ r.queue = s.queue /\ r.sortId = s.sortId /\ r.scheduled = s.scheduled /\ r.running = s.running
          /\ r.routeMap = s.routeMap /\ r.routeLru = s.routeLru /\ r.version = s.version
          /\ r.faults = s.faults /\ r.got = s.got /\ r.thrown = s.thrown /\ r.segment = s.segment
          /\ r.segmentMap = s.segmentMap /\ r.segmentLru = s.segmentLru
          /\ r.request = s.request /\ r.inProgress = s.inProgress
      BY <1>1, <3>1 DEF Fields
    <3>4. [s.route EXCEPT ![e].blocked = @ \cup {t}] = [s.route EXCEPT ![e] = x]
      BY <1>4, <2>2 DEF x
    <3> QED  BY <2>2, <3>3, <3>4
  <2> QED  BY <2>1, <2>2
<1> HIDE DEF a, x, o
<1>6. Stepped(s, r, t) /\ Blocked(r, r.request, t)
  BY <1>2, <1>5, WaitingSound DEF o
<1> QED  BY <1>3, <1>6 DEF a

(* A task may do nothing at all.                                           *)
LEMMA SteppedRefl ==
    ASSUME NEW s, Sound(s), NEW t \in DOMAIN s.task PROVE Stepped(s, s, t)
<1>1. FullKept(s, s)
  BY DEF FullKept
<1> QED  BY <1>1 DEF Stepped

(* At most one dynamic request, for everything that was collected.         *)
LEMMA CollectedStepped ==
    ASSUME NEW s, Sound(s), hasNetworkBandwidth(s), NEW t \in DOMAIN s.task, NEW e \in DOMAIN s.route
    PROVE  LET a == diffRouteTreeAgainstCurrent(s, t, e)
               r == IF a.s.thrown \/ a.spawned = << >> THEN a.s
                    ELSE spawnPrefetchSubtask(a.s, request("dynamic", t, e, a.spawned, NoUpsert))
           IN  Stepped(s, r, t)
<1> DEFINE a == diffRouteTreeAgainstCurrent(s, t, e)
           m == spawnPrefetchSubtask(a.s, request("dynamic", t, e, a.spawned, NoUpsert))
<1>1. Pingable(s, t, e)
  BY SoundPingable
<1>2. /\ Seg(a.s, s.request, Range(a.spawned)) /\ Steady(s, a.s, Nat) /\ NotBroken(s, a.s)
      /\ Spawned(a.s, a.spawned, s.request)
  BY <1>1, DiffFold
<1>3. s.inProgress \in Int /\ s.inProgress < MAX_CONCURRENT_PREFETCH_REQUESTS
  BY DEF Sound, Rest, Tasks, hasNetworkBandwidth
<1> HIDE DEF a
<1>4. CASE a.s.thrown \/ a.spawned = << >>
  <2>1. Seg(a.s, s.request, {})
    <3>1. CASE a.s.thrown
      <4>1. "recursion" \in a.s.faults
        BY <1>2, <3>1 DEF Seg
      <4>2. a.s.faults \cap {"mpa", "recursion"} # {}
        BY <4>1
      <4> QED  BY <1>2, <4>2, NotPendingSeg
    <3>2. CASE a.spawned = << >>
      <4>1. Range(a.spawned) = {}
        BY <3>2 DEF Range
      <4> QED  BY <1>2, <4>1
    <3> QED  BY <1>4, <3>1, <3>2
  <2>2. Seg(a.s, a.s.request, {}) /\ Pinged(s, a.s, t, e) /\ a.s.inProgress = s.inProgress
    BY <1>1, <1>2, <2>1, SteadyPingedSeg
  <2>3. WithinLimit(a.s.inProgress)
    BY <1>3, <2>2, MaxAssumption DEF WithinLimit
  <2>4. Stepped(s, a.s, t)
    BY <2>2, <2>3, PingedSound
  <2> QED  BY <1>4, <2>4 DEF a
<1>5. CASE ~(a.s.thrown \/ a.spawned = << >>)
  <2>1. Seg(m, m.request, {}) /\ Pinged(s, m, t, e) /\ m.inProgress = s.inProgress + 1
    BY <1>1, <1>2, <1>5, CollectPinged
  <2> HIDE DEF m
  <2>2. WithinLimit(m.inProgress)
    BY <1>3, <2>1, MaxAssumption DEF WithinLimit
  <2>3. Stepped(s, m, t)
    BY <2>1, <2>2, PingedSound
  <2> QED  BY <1>5, <2>3 DEF a, m
<1> QED  BY <1>4, <1>5

(* pingRootRouteTree.                                                      *)
LEMMA RootStepped ==
    ASSUME NEW s, Sound(s), hasNetworkBandwidth(s), NEW t \in DOMAIN s.task, NEW e \in DOMAIN s.route
    PROVE  LET a == pingRootRouteTree(s, t, e)
           IN  /\ DOMAIN a = {"s", "exit"} /\ a.exit \in {"Done", "InProgress", "Blocked"}
               /\ Stepped(s, a.s, t) /\ (a.exit = "Blocked" => Blocked(a.s, a.s.request, t))
<1> DEFINE a == pingRootRouteTree(s, t, e)
           status == s.route[e].status
           d == diffRouteTreeAgainstCurrent(s, t, e)
           c == IF d.s.thrown \/ d.spawned = << >> THEN d.s
                ELSE spawnPrefetchSubtask(d.s, request("dynamic", t, e, d.spawned, NoUpsert))
           p == pingPPRRouteTree(s, t, e)
<1>1. CASE status \in {"empty", "pending"}
  <2>1. /\ DOMAIN a = {"s", "exit"} /\ a.exit = "Blocked" /\ Stepped(s, a.s, t)
        /\ Blocked(a.s, a.s.request, t)
    BY <1>1, WaitsStepped
  <2> QED  BY <2>1
<1>2. CASE status \notin {"empty", "pending"} /\ (status = "rejected" \/ s.task[t].phase # SegmentsPhase)
  <2>1. a = [s |-> s, exit |-> "Done"]
    BY <1>2 DEF pingRootRouteTree
  <2>2. Stepped(s, s, t)
    BY SteppedRefl
  <2> QED  BY <2>1, <2>2
<1>3. CASE status \notin {"empty", "pending"} /\ ~(status = "rejected" \/ s.task[t].phase # SegmentsPhase)
  <2>1. CASE ~s.task[t].full /\ s.task[t].href \in PPRRoutes
    <3>1. a = p
      BY <1>3, <2>1 DEF pingRootRouteTree
    <3>2. Pingable(s, t, e) /\ s.inProgress < MAX_CONCURRENT_PREFETCH_REQUESTS
      BY SoundPingable DEF hasNetworkBandwidth
    <3>3. /\ DOMAIN p = {"s", "exit"} /\ p.exit \in {"Done", "InProgress"}
          /\ Seg(p.s, p.s.request, {}) /\ Pinged(s, p.s, t, e)
          /\ WithinLimit(p.s.inProgress)
      BY <2>1, <3>2, PingFold
    <3> HIDE DEF p
    <3>4. Stepped(s, p.s, t)
      BY <3>3, PingedSound
    <3> HIDE DEF a
    <3>5. DOMAIN a = {"s", "exit"} /\ a.exit \in {"Done", "InProgress"} /\ Stepped(s, a.s, t)
      BY <3>1, <3>3, <3>4
    <3> QED  BY <3>5 DEF a
  <2>2. CASE ~(~s.task[t].full /\ s.task[t].href \in PPRRoutes)
    <3>1. a = [s |-> c, exit |-> "Done"]
      BY <1>3, <2>2 DEF pingRootRouteTree
    <3>2. Stepped(s, c, t)
      BY CollectedStepped
    <3> HIDE DEF c, a
    <3>3. DOMAIN a = {"s", "exit"} /\ a.exit = "Done" /\ Stepped(s, a.s, t)
      BY <3>1, <3>2
    <3> QED  BY <3>3 DEF a
  <2> QED  BY <2>1, <2>2
<1> QED  BY <1>1, <1>2, <1>3

(* A task is changed, and may leave the queue.                             *)
Exited(s, r, t) ==
    /\ DOMAIN r = Fields /\ r.route = s.route /\ r.link = s.link
    /\ r.visible = s.visible /\ r.router = s.router /\ r.sortId = s.sortId
    /\ r.inProgress = s.inProgress /\ r.scheduled = s.scheduled /\ r.running \in BOOLEAN
    /\ r.request = s.request /\ r.routeMap = s.routeMap /\ r.routeLru = s.routeLru
    /\ r.version = s.version /\ r.got = s.got /\ r.thrown = s.thrown
    /\ r.segment = s.segment /\ r.segmentMap = s.segmentMap /\ r.segmentLru = s.segmentLru
    /\ s.faults \subseteq r.faults /\ r.faults \subseteq s.faults \cup {"popped"}
    /\ r.queue \subseteq s.queue
    /\ \E x \in Task : /\ r.task = [s.task EXCEPT ![t] = x]
                       /\ x.sortId = s.task[t].sortId /\ x.canceled = s.task[t].canceled
                       /\ s.task[t].ended => x.ended
                       /\ "popped" \notin r.faults =>
                            \A u \in s.queue : \/ u \in r.queue
                                               \/ u = t /\ (x.ended \/ Blocked(s, s.request, t))

(* Only a task that is through, or blocked, may leave the queue, or        *)
(* heapPop took another one.                                               *)
LEMMA ExitedSound ==
    ASSUME NEW s, Sound(s), NEW r, NEW t \in DOMAIN s.task, Exited(s, r, t)
    PROVE  Sound(r)
<1>1. Rest(s, s.request) /\ Seg(s, s.request, {}) /\ s.task \in Seq(Task)
  BY DEF Sound, Rest, Tasks
<1>2. PICK x \in Task : /\ r.task = [s.task EXCEPT ![t] = x]
                        /\ x.sortId = s.task[t].sortId /\ x.canceled = s.task[t].canceled
                        /\ s.task[t].ended => x.ended
                        /\ "popped" \notin r.faults =>
                            \A u \in s.queue : \/ u \in r.queue
                                               \/ u = t /\ (x.ended \/ Blocked(s, s.request, t))
  BY DEF Exited
<1>3. /\ r.task \in Seq(Task) /\ DOMAIN r.task = DOMAIN s.task /\ r.task[t] = x
      /\ \A u \in DOMAIN s.task : u # t => r.task[u] = s.task[u]
  BY <1>1, <1>2, UpdatedEntry
<1>4. \A u \in DOMAIN s.task : r.task[u].sortId = s.task[u].sortId /\ r.task[u].canceled = s.task[u].canceled
  BY <1>2, <1>3
<1>5. Tasks(r)
  <2>1. /\ \A u \in DOMAIN r.task : r.task[u].sortId < r.sortId
        /\ \A u, v \in DOMAIN r.task : r.task[u].sortId = r.task[v].sortId => u = v
        /\ \A u \in r.queue : ~r.task[u].canceled
        /\ r.queue \subseteq DOMAIN r.task
    BY <1>1, <1>3, <1>4 DEF Rest, Tasks, Exited
  <2>2. \A l \in Links : r.link[l].task \in {0} \cup DOMAIN r.task
    BY <1>1, <1>3 DEF Rest, Tasks, Exited
  <2> QED  BY <1>1, <1>3, <2>1, <2>2 DEF Rest, Tasks, Exited
<1>6. Routes(r, r.request)
  <2>1. ASSUME NEW q \in r.request PROVE RouteRequestOK(r, q)
    <3>1. RouteRequestOK(s, q)
      BY <1>1 DEF Rest, Routes, Exited
    <3> QED  BY <1>3, <3>1 DEF RouteRequestOK, Exited
  <2>2. Routes(s, s.request)
    BY <1>1 DEF Rest
  <2> QED  BY <1>3, <2>1, <2>2 DEF Routes, Exited
<1>7. Kept(r, r.request, {})
  <2>1. \A u : Blocked(s, s.request, u) => Blocked(r, r.request, u)
    BY DEF Blocked, Exited
  <2> QED  BY <1>1, <1>2, <1>3, <2>1 DEF Rest, Kept, Exited
<1>8. Seg(r, r.request, {})
  <2>1. r.got \in Nat /\ r.thrown \in BOOLEAN /\ (r.thrown => "recursion" \in r.faults)
    BY <1>1 DEF Seg, SegmentTypes, Exited
  <2>2. Seg(r, s.request, {})
    BY <1>1, <2>1, SegFrame DEF Exited
  <2> QED  BY <2>2 DEF Exited
<1>9. Counted(r) /\ Bounded(r)
  BY DEF Sound, Counted, Bounded, Exited
<1> QED  BY <1>5, <1>6, <1>7, <1>8, <1>9 DEF Sound, Rest

(* r is s with another task t.                                             *)
Edited(s, r, t, x) ==
    /\ DOMAIN r = Fields /\ r.route = s.route /\ r.link = s.link
    /\ r.visible = s.visible /\ r.router = s.router /\ r.sortId = s.sortId
    /\ r.inProgress = s.inProgress /\ r.scheduled = s.scheduled /\ r.running \in BOOLEAN
    /\ r.request = s.request /\ r.routeMap = s.routeMap /\ r.routeLru = s.routeLru
    /\ r.version = s.version /\ r.got = s.got /\ r.thrown = s.thrown
    /\ r.segment = s.segment /\ r.segmentMap = s.segmentMap /\ r.segmentLru = s.segmentLru
    /\ r.faults = s.faults /\ r.queue = s.queue /\ r.task = [s.task EXCEPT ![t] = x]
    /\ x \in Task /\ x.sortId = s.task[t].sortId /\ x.canceled = s.task[t].canceled
    /\ s.task[t].ended => x.ended

(* A task that stays in the queue.                                         *)
LEMMA EditedExited ==
    ASSUME NEW s, NEW r, NEW t, NEW x, Edited(s, r, t, x)
    PROVE  Exited(s, r, t)
BY DEF Edited, Exited

(* heapPop: if the first of the queue is not the task, that is recorded.   *)
LEMMA PoppedExited ==
    ASSUME NEW s, NEW r, NEW t, NEW x, Edited(s, r, t, x), x.ended \/ Blocked(s, s.request, t)
    PROVE  \A p : Exited(s, heapPop(r, t, p), t)
<1> TAKE p
<1> DEFINE v == heapPop(r, t, p)
<1>1. DOMAIN r = Fields
  BY DEF Edited
<1>2. /\ DOMAIN v = Fields /\ v.route = r.route /\ v.link = r.link
      /\ v.visible = r.visible /\ v.router = r.router /\ v.sortId = r.sortId
      /\ v.inProgress = r.inProgress /\ v.scheduled = r.scheduled /\ v.running = r.running
      /\ v.request = r.request /\ v.routeMap = r.routeMap /\ v.routeLru = r.routeLru
      /\ v.version = r.version /\ v.got = r.got /\ v.thrown = r.thrown
      /\ v.segment = r.segment /\ v.segmentMap = r.segmentMap /\ v.segmentLru = r.segmentLru
      /\ v.task = r.task /\ v.queue = r.queue \ {p}
      /\ v.faults = IF p = t THEN r.faults ELSE r.faults \cup {"popped"}
  BY <1>1 DEF heapPop, Fields
<1> HIDE DEF v
<1>3. r.faults \subseteq v.faults /\ v.faults \subseteq r.faults \cup {"popped"}
  BY <1>2
<1>4. "popped" \notin v.faults => \A u \in r.queue : u \in v.queue \/ u = t
  BY <1>2
<1>5. Exited(s, v, t)
  BY <1>2, <1>3, <1>4 DEF Edited, Exited
<1> QED  BY <1>5 DEF v

(* exitStatus, for every exit of a task.                                   *)
LEMMA ExitExited ==
    ASSUME NEW s, Sound(s), NEW t \in DOMAIN s.task, NEW exit, exit \in {"Done", "InProgress", "Blocked"},
           exit = "Blocked" => Blocked(s, s.request, t)
    PROVE  \A first : Exited(s, exitStatus(s, t, first, exit), t)
<1> TAKE first
<1> DEFINE y == s.task[t]
           x == [y EXCEPT !.bg = FALSE]
           x1 == [x EXCEPT !.phase = SegmentsPhase]
           x2 == [x EXCEPT !.priority = Background]
           x3 == [x EXCEPT !.ended = TRUE]
           r == [s EXCEPT !.task[t].bg = FALSE]
           r0 == [r EXCEPT !.running = FALSE]
           r1 == [r EXCEPT !.task[t].phase = SegmentsPhase]
           r2 == [r EXCEPT !.task[t].priority = Background]
           r3 == [r EXCEPT !.task[t].ended = TRUE]
           v == exitStatus(s, t, first, exit)
<1>1. DOMAIN s = Fields /\ s.task \in Seq(Task) /\ y \in Task /\ s.running \in BOOLEAN
  BY DEF Sound, Rest, Tasks
<1>2. /\ DOMAIN y = {"href", "nextUrl", "tree", "full", "priority", "phase", "bg", "sortId", "canceled", "ended"}
      /\ y.ended \in BOOLEAN
  BY <1>1 DEF Task
<1>3. /\ x \in Task /\ x.sortId = y.sortId /\ x.canceled = y.canceled /\ x.ended = y.ended
      /\ x1 \in Task /\ x1.sortId = y.sortId /\ x1.canceled = y.canceled /\ x1.ended = y.ended
      /\ x2 \in Task /\ x2.sortId = y.sortId /\ x2.canceled = y.canceled /\ x2.ended = y.ended
      /\ x3 \in Task /\ x3.sortId = y.sortId /\ x3.canceled = y.canceled /\ x3.ended
  BY <1>1 DEF Task
<1>4. Edited(s, r, t, x)
  <2>1. r.task = [s.task EXCEPT ![t] = x]
    BY <1>1 DEF Fields
  <2> HIDE DEF x
  <2>2. /\ DOMAIN r = Fields /\ r.route = s.route /\ r.link = s.link
        /\ r.visible = s.visible /\ r.router = s.router /\ r.sortId = s.sortId
        /\ r.inProgress = s.inProgress /\ r.scheduled = s.scheduled /\ r.running = s.running
        /\ r.request = s.request /\ r.routeMap = s.routeMap /\ r.routeLru = s.routeLru
        /\ r.version = s.version /\ r.got = s.got /\ r.thrown = s.thrown
        /\ r.segment = s.segment /\ r.segmentMap = s.segmentMap /\ r.segmentLru = s.segmentLru
        /\ r.faults = s.faults /\ r.queue = s.queue
    BY <1>1 DEF Fields
  <2> HIDE DEF r
  <2> QED  BY <1>1, <1>3, <2>1, <2>2 DEF Edited
<1> HIDE DEF r, v
<1>5. DOMAIN r = Fields /\ r.task = [s.task EXCEPT ![t] = x] /\ r.task[t] = x
  BY <1>1, <1>4 DEF Edited
<1>6. Edited(s, r0, t, x)
  <2> HIDE DEF x
  <2>1. /\ DOMAIN r0 = Fields /\ r0.route = r.route /\ r0.link = r.link
        /\ r0.visible = r.visible /\ r0.router = r.router /\ r0.sortId = r.sortId
        /\ r0.inProgress = r.inProgress /\ r0.scheduled = r.scheduled /\ r0.running = FALSE
        /\ r0.request = r.request /\ r0.routeMap = r.routeMap /\ r0.routeLru = r.routeLru
        /\ r0.version = r.version /\ r0.got = r.got /\ r0.thrown = r.thrown
        /\ r0.segment = r.segment /\ r0.segmentMap = r.segmentMap /\ r0.segmentLru = r.segmentLru
        /\ r0.faults = r.faults /\ r0.queue = r.queue /\ r0.task = r.task
    BY <1>5 DEF Fields
  <2> HIDE DEF r0
  <2> QED  BY <1>4, <2>1 DEF Edited
<1>7. Edited(s, r1, t, x1)
  <2>1. r1.task = [s.task EXCEPT ![t] = x1]
    <3>1. r1.task = [r.task EXCEPT ![t].phase = SegmentsPhase]
      BY <1>5 DEF Fields
    <3> QED  BY <1>1, <1>5, <3>1
  <2> HIDE DEF x, x1
  <2>2. /\ DOMAIN r1 = Fields /\ r1.route = r.route /\ r1.link = r.link
        /\ r1.visible = r.visible /\ r1.router = r.router /\ r1.sortId = r.sortId
        /\ r1.inProgress = r.inProgress /\ r1.scheduled = r.scheduled /\ r1.running = r.running
        /\ r1.request = r.request /\ r1.routeMap = r.routeMap /\ r1.routeLru = r.routeLru
        /\ r1.version = r.version /\ r1.got = r.got /\ r1.thrown = r.thrown
        /\ r1.segment = r.segment /\ r1.segmentMap = r.segmentMap /\ r1.segmentLru = r.segmentLru
        /\ r1.faults = r.faults /\ r1.queue = r.queue
    BY <1>5 DEF Fields
  <2> HIDE DEF r1
  <2> QED  BY <1>3, <1>4, <2>1, <2>2 DEF Edited
<1>8. Edited(s, r2, t, x2)
  <2>1. r2.task = [s.task EXCEPT ![t] = x2]
    <3>1. r2.task = [r.task EXCEPT ![t].priority = Background]
      BY <1>5 DEF Fields
    <3> QED  BY <1>1, <1>5, <3>1
  <2> HIDE DEF x, x2
  <2>2. /\ DOMAIN r2 = Fields /\ r2.route = r.route /\ r2.link = r.link
        /\ r2.visible = r.visible /\ r2.router = r.router /\ r2.sortId = r.sortId
        /\ r2.inProgress = r.inProgress /\ r2.scheduled = r.scheduled /\ r2.running = r.running
        /\ r2.request = r.request /\ r2.routeMap = r.routeMap /\ r2.routeLru = r.routeLru
        /\ r2.version = r.version /\ r2.got = r.got /\ r2.thrown = r.thrown
        /\ r2.segment = r.segment /\ r2.segmentMap = r.segmentMap /\ r2.segmentLru = r.segmentLru
        /\ r2.faults = r.faults /\ r2.queue = r.queue
    BY <1>5 DEF Fields
  <2> HIDE DEF r2
  <2> QED  BY <1>3, <1>4, <2>1, <2>2 DEF Edited
<1>9. Edited(s, r3, t, x3)
  <2>1. r3.task = [s.task EXCEPT ![t] = x3]
    <3>1. r3.task = [r.task EXCEPT ![t].ended = TRUE]
      BY <1>5 DEF Fields
    <3> QED  BY <1>1, <1>5, <3>1
  <2> HIDE DEF x, x3
  <2>2. /\ DOMAIN r3 = Fields /\ r3.route = r.route /\ r3.link = r.link
        /\ r3.visible = r.visible /\ r3.router = r.router /\ r3.sortId = r.sortId
        /\ r3.inProgress = r.inProgress /\ r3.scheduled = r.scheduled /\ r3.running = r.running
        /\ r3.request = r.request /\ r3.routeMap = r.routeMap /\ r3.routeLru = r.routeLru
        /\ r3.version = r.version /\ r3.got = r.got /\ r3.thrown = r.thrown
        /\ r3.segment = r.segment /\ r3.segmentMap = r.segmentMap /\ r3.segmentLru = r.segmentLru
        /\ r3.faults = r.faults /\ r3.queue = r.queue
    BY <1>5 DEF Fields
  <2> HIDE DEF r3
  <2> QED  BY <1>3, <1>4, <2>1, <2>2 DEF Edited
<1>10. \/ exit = "InProgress" /\ v = r0
       \/ exit = "Blocked" /\ v = heapPop(r, t, first)
       \/ v = r1
       \/ v = r2
       \/ v = heapPop(r3, t, first)
  <2> HIDE DEF r0, r1, r2, r3, x
  <2>1. v = CASE exit = "InProgress" -> r0
              [] exit = "Blocked"    -> heapPop(r, t, first)
              [] exit = "Done" /\ r.task[t].phase = RouteTreePhase -> r1
              [] exit = "Done" /\ r.task[t].phase = SegmentsPhase /\ y.bg -> r2
              [] OTHER               -> heapPop(r3, t, first)
    BY DEF exitStatus, v, r, r0, r1, r2, r3
  <2>2. exit = "InProgress" => v = r0
    BY <2>1
  <2>3. exit = "Blocked" => v = heapPop(r, t, first)
    BY <2>1
  <2>4. exit = "Done" => v = r1 \/ v = r2 \/ v = heapPop(r3, t, first)
    <3>1. r.task[t].phase = x.phase /\ x.phase \in {SegmentsPhase, RouteTreePhase}
      BY <1>3, <1>5 DEF Task
    <3>2. CASE exit = "Done" /\ x.phase = RouteTreePhase
      BY <2>1, <3>1, <3>2 DEF SegmentsPhase, RouteTreePhase
    <3>3. CASE exit = "Done" /\ x.phase = SegmentsPhase /\ y.bg
      BY <2>1, <3>1, <3>3 DEF SegmentsPhase, RouteTreePhase
    <3>4. CASE exit = "Done" /\ x.phase = SegmentsPhase /\ ~y.bg
      BY <2>1, <3>1, <3>4 DEF SegmentsPhase, RouteTreePhase
    <3> QED  BY <3>1, <3>2, <3>3, <3>4
  <2> QED  BY <2>2, <2>3, <2>4
<1> HIDE DEF r0, r1, r2, r3, x, x1, x2, x3
<1>11. Exited(s, r0, t) /\ Exited(s, r1, t) /\ Exited(s, r2, t)
  BY <1>6, <1>7, <1>8, EditedExited
<1>12. exit = "Blocked" => Exited(s, heapPop(r, t, first), t)
  BY <1>4, PoppedExited
<1>13. Exited(s, heapPop(r3, t, first), t)
  BY <1>3, <1>9, PoppedExited
<1>14. Exited(s, v, t)
  BY <1>10, <1>11, <1>12, <1>13
<1> QED  BY <1>14 DEF v

(* The microtask ends.                                                     *)
LEMMA StoppedGood ==
    ASSUME NEW s, Good(s) PROVE Good([s EXCEPT !.running = FALSE])
<1> DEFINE r == [s EXCEPT !.running = FALSE]
<1>1. DOMAIN s = Fields /\ s.got \in Nat /\ s.scheduled \in BOOLEAN /\ Sound(s) /\ s.inProgress \in Int
  BY DEF Good, Sound, Rest, Tasks, Routes
<1>2. /\ DOMAIN r = Fields /\ r.route = s.route /\ r.link = s.link
      /\ r.visible = s.visible /\ r.router = s.router /\ r.task = s.task
      /\ r.queue = s.queue /\ r.sortId = s.sortId /\ r.inProgress = s.inProgress
      /\ r.scheduled \in BOOLEAN /\ r.running \in BOOLEAN /\ r.request = s.request
      /\ r.routeMap = s.routeMap /\ r.routeLru = s.routeLru
      /\ r.version = s.version /\ r.faults = s.faults /\ r.got = s.got
      /\ r.thrown = s.thrown /\ r.segment = s.segment /\ r.segmentMap = s.segmentMap
      /\ r.segmentLru = s.segmentLru /\ r.left = s.left
  BY <1>1 DEF Fields
<1> HIDE DEF r
<1>3. NotSegments(s, r)
  BY <1>2 DEF NotSegments
<1>4. Rest(r, s.request)
  <2>1. SameRoutes(s, r) /\ r.got \in Nat /\ r.inProgress \in Int /\ s.faults \subseteq r.faults
    BY <1>1, <1>2 DEF SameRoutes, Sound, Rest, Tasks
  <2>2. Rest(s, s.request)
    BY <1>1 DEF Sound
  <2> QED  BY <1>2, <2>1, <2>2, RestFrame
<1>5. Sound(r)
  BY <1>1, <1>3, <1>4, MovedSound
<1>6. FullKept(state, r)
  BY <1>2 DEF Good, FullKept
<1> QED  BY <1>5, <1>6 DEF Good, r

(* processTask, with a task of the queue, whatever is popped.              *)
LEMMA ProcessGood ==
    ASSUME Sound(state), NEW t \in state.queue, hasNetworkBandwidth(state), NEW first
    PROVE  LET r == readOrCreateRouteCacheEntry(state, t)
               a == pingRootRouteTree(r, t, r.got)
           IN  Good(IF a.s.thrown THEN [a.s EXCEPT !.running = FALSE] ELSE exitStatus(a.s, t, first, a.exit))
<1> DEFINE r == readOrCreateRouteCacheEntry(state, t)
           a == pingRootRouteTree(r, t, r.got)
           v == exitStatus(a.s, t, first, a.exit)
<1>1. Rest(state, state.request) /\ Tasks(state)
  BY DEF Sound, Rest
<1>2. t \in DOMAIN state.task
  BY <1>1 DEF Tasks
<1>3. Rest(r, state.request) /\ RouteOnly(state, r) /\ r.got \in DOMAIN r.route
  BY <1>1, <1>2, ReadOrCreateRouteRest
<1> HIDE DEF r
<1>4. NotSegments(state, r) /\ r.task = state.task /\ r.inProgress = state.inProgress
      /\ r.segment = state.segment /\ r.segmentMap = state.segmentMap
  BY <1>3 DEF RouteOnly, NotSegments
<1>5. Sound(r)
  BY <1>3, <1>4, MovedSound
<1>6. hasNetworkBandwidth(r) /\ t \in DOMAIN r.task
  BY <1>2, <1>4 DEF hasNetworkBandwidth
<1>7. /\ DOMAIN a = {"s", "exit"} /\ a.exit \in {"Done", "InProgress", "Blocked"}
      /\ Stepped(r, a.s, t) /\ (a.exit = "Blocked" => Blocked(a.s, a.s.request, t))
  BY <1>3, <1>5, <1>6, RootStepped
<1> HIDE DEF a
<1>8. Sound(a.s) /\ FullKept(r, a.s) /\ t \in DOMAIN a.s.task
  BY <1>7 DEF Stepped
<1>9. FullKept(state, a.s)
  BY <1>4, <1>8 DEF FullKept, Full
<1>10. Good(a.s) /\ Good([a.s EXCEPT !.running = FALSE])
  BY <1>8, <1>9, StoppedGood DEF Good
<1>11. Exited(a.s, v, t)
  BY <1>7, <1>8, ExitExited
<1> HIDE DEF v
<1>12. Sound(v)
  BY <1>8, <1>11, ExitedSound
<1>13. FullKept(state, v)
  BY <1>9, <1>11 DEF FullKept, Exited
<1>14. Good(v)
  BY <1>12, <1>13 DEF Good
<1>15. Good(IF a.s.thrown THEN [a.s EXCEPT !.running = FALSE] ELSE v)
  BY <1>10, <1>14
<1> QED  BY <1>15 DEF r, a, v

(* processTask.                                                            *)
LEMMA ProcessTaskGood ==
    ASSUME Sound(state), processTask PROVE \E r : Good(r) /\ becomes(r)
<1>1. CASE state.queue = {} \/ ~hasNetworkBandwidth(state)
  <2>1. Good([state EXCEPT !.running = FALSE])
    BY StateGood, StoppedGood
  <2>2. becomes([state EXCEPT !.running = FALSE])
    BY <1>1 DEF processTask
  <2> QED  BY <2>1, <2>2
<1>2. CASE ~(state.queue = {} \/ ~hasNetworkBandwidth(state))
  <2>1. PICK t \in heapPeek(state) :
          LET r == readOrCreateRouteCacheEntry(state, t)
              a == pingRootRouteTree(r, t, r.got)
          IN  \E first \in firstNow(a.s, t) :
                becomes(IF a.s.thrown THEN [a.s EXCEPT !.running = FALSE] ELSE exitStatus(a.s, t, first, a.exit))
    BY <1>2 DEF processTask
  <2> DEFINE r == readOrCreateRouteCacheEntry(state, t)
             a == pingRootRouteTree(r, t, r.got)
             v(first) == IF a.s.thrown THEN [a.s EXCEPT !.running = FALSE] ELSE exitStatus(a.s, t, first, a.exit)
  <2>2. PICK first \in firstNow(a.s, t) : becomes(v(first))
    BY <2>1
  <2>3. t \in state.queue
    BY DEF heapPeek
  <2>4. Good(v(first))
    BY <1>2, <2>3, ProcessGood
  <2> QED  BY <2>2, <2>4
<1> QED  BY <1>1, <1>2

-----------------------------------------------------------------------------
(* Steps                                                                   *)

(* What a step leaves of a state.                                          *)
After(s) ==
    [s EXCEPT !.got = 0, !.thrown = FALSE,
              !.segment = [e \in DOMAIN @ |-> IF e \in inUse(s) \/ @[e].waited THEN @[e] ELSE forgotten]]

(* What is forgotten is in no use.                                         *)
LEMMA AfterFields ==
    ASSUME NEW s, Sound(s)
    PROVE  LET r == After(s)
           IN  /\ DOMAIN r = Fields /\ r.route = s.route /\ r.link = s.link
               /\ r.visible = s.visible /\ r.router = s.router /\ r.task = s.task
               /\ r.queue = s.queue /\ r.sortId = s.sortId /\ r.inProgress = s.inProgress
               /\ r.scheduled = s.scheduled /\ r.running = s.running /\ r.request = s.request
               /\ r.routeMap = s.routeMap /\ r.routeLru = s.routeLru
               /\ r.version = s.version /\ r.faults = s.faults /\ r.got = 0
               /\ r.thrown = FALSE /\ r.segmentMap = s.segmentMap /\ r.segmentLru = s.segmentLru
               /\ r.segment \in Seq(SegmentEntry) /\ DOMAIN r.segment = DOMAIN s.segment
               /\ \A e \in DOMAIN s.segment : \/ r.segment[e] = s.segment[e]
                                              \/ r.segment[e] = forgotten /\ e \notin inUse(s)
<1> DEFINE r == After(s)
           S == [e \in DOMAIN s.segment |-> IF e \in inUse(s) \/ s.segment[e].waited
                                            THEN s.segment[e] ELSE forgotten]
<1>1. DOMAIN s = Fields /\ s.segment \in Seq(SegmentEntry)
  BY DEF Sound, Seg, SegmentTypes
<1>2. r = [s EXCEPT !.got = 0, !.thrown = FALSE, !.segment = S]
  BY <1>1 DEF After, Fields
<1>3. forgotten \in SegmentEntry
  BY DEF forgotten, SegmentEntry, Statuses, Upserts
<1>4. S \in Seq(SegmentEntry) /\ DOMAIN S = DOMAIN s.segment
  <2>1. PICK n \in Nat : s.segment \in [1 .. n -> SegmentEntry]
    BY <1>1
  <2>2. DOMAIN s.segment = 1 .. n
    BY <2>1
  <2>3. S \in [1 .. n -> SegmentEntry]
    BY <1>3, <2>1, <2>2
  <2> HIDE DEF S
  <2> QED  BY <2>1, <2>2, <2>3
<1>5. \A e \in DOMAIN s.segment : S[e] = s.segment[e] \/ (S[e] = forgotten /\ e \notin inUse(s))
  OBVIOUS
<1> HIDE DEF r, S
<1>6. /\ DOMAIN r = Fields /\ r.route = s.route /\ r.link = s.link
      /\ r.visible = s.visible /\ r.router = s.router /\ r.task = s.task
      /\ r.queue = s.queue /\ r.sortId = s.sortId /\ r.inProgress = s.inProgress
      /\ r.scheduled = s.scheduled /\ r.running = s.running /\ r.request = s.request
      /\ r.routeMap = s.routeMap /\ r.routeLru = s.routeLru
      /\ r.version = s.version /\ r.faults = s.faults /\ r.got = 0
      /\ r.thrown = FALSE /\ r.segmentMap = s.segmentMap /\ r.segmentLru = s.segmentLru
      /\ r.segment = S
  BY <1>1, <1>2 DEF Fields
<1> QED  BY <1>4, <1>5, <1>6 DEF r

(* Nothing refers to what is forgotten.                                    *)
LEMMA AfterSound ==
    ASSUME NEW s, Sound(s) PROVE Sound(After(s))
<1> DEFINE r == After(s)
<1>1. /\ DOMAIN r = Fields /\ r.route = s.route /\ r.link = s.link
      /\ r.visible = s.visible /\ r.router = s.router /\ r.task = s.task
      /\ r.queue = s.queue /\ r.sortId = s.sortId /\ r.inProgress = s.inProgress
      /\ r.scheduled = s.scheduled /\ r.running = s.running /\ r.request = s.request
      /\ r.routeMap = s.routeMap /\ r.routeLru = s.routeLru
      /\ r.version = s.version /\ r.faults = s.faults /\ r.got = 0
      /\ r.thrown = FALSE /\ r.segmentMap = s.segmentMap /\ r.segmentLru = s.segmentLru
      /\ r.segment \in Seq(SegmentEntry) /\ DOMAIN r.segment = DOMAIN s.segment
      /\ \A e \in DOMAIN s.segment : \/ r.segment[e] = s.segment[e]
                                     \/ r.segment[e] = forgotten /\ e \notin inUse(s)
  BY AfterFields
<1> HIDE DEF r
<1>2. Rest(s, s.request) /\ Seg(s, s.request, {})
  BY DEF Sound
<1>3. Rest(r, r.request)
  <2>1. SameRoutes(s, r) /\ r.got \in Nat /\ r.inProgress \in Int /\ s.faults \subseteq r.faults
    BY <1>1, <1>2 DEF SameRoutes, Rest, Tasks
  <2>2. Rest(r, s.request)
    <3>1. r.scheduled \in BOOLEAN /\ r.running \in BOOLEAN
      BY <1>1, <1>2 DEF Rest, Tasks
    <3> QED  BY <1>1, <1>2, <2>1, <3>1, RestFrame
  <2> QED  BY <1>1, <2>2
<1>4. \A e \in DOMAIN s.segment : e \in s.segmentLru => r.segment[e] = s.segment[e]
  BY <1>1 DEF inUse
<1>5. \A q \in s.request : \A e \in DOMAIN s.segment : e \in Range(q.entries) => r.segment[e] = s.segment[e]
  BY <1>1 DEF inUse
<1>6. \A k \in SegmentKeys : LET e == s.segmentMap[k] IN
          e # 0 => e \in DOMAIN s.segment /\ e \in s.segmentLru /\ r.segment[e] = s.segment[e]
  BY <1>2, <1>4 DEF Seg, SegmentTypes, SegmentsEvictable
<1>7. /\ forgotten.status = "empty" /\ forgotten.upsert = NoUpsert /\ forgotten.revalidating = 0
      /\ forgotten.waited = FALSE /\ forgotten.isPartial = TRUE
  BY DEF forgotten
<1>8. ASSUME NEW e \in DOMAIN r.segment PROVE EntryOK(r, e)
  <2>1. EntryOK(s, e)
    BY <1>1, <1>2 DEF Seg
  <2>2. CASE r.segment[e] = forgotten
    BY <1>7, <2>2 DEF EntryOK
  <2>3. CASE r.segment[e] = s.segment[e]
    <3> DEFINE x == s.segment[e]
    <3>1. ASSUME x.revalidating # 0, r.segment[x.revalidating].status = "empty"
          PROVE  unmapped(r, x.revalidating)
      <4>1. x.revalidating \in DOMAIN s.segment
        BY <2>1, <3>1 DEF EntryOK
      <4>2. CASE r.segment[x.revalidating] = s.segment[x.revalidating]
        BY <1>1, <2>1, <3>1, <4>2 DEF EntryOK, unmapped
      <4>3. CASE x.revalidating \notin inUse(s)
        <5>1. x.revalidating \notin s.segmentLru
          BY <4>3 DEF inUse
        <5> QED  BY <1>1, <1>6, <3>1, <5>1 DEF unmapped
      <4> QED  BY <1>1, <4>1, <4>2, <4>3
    <3> QED  BY <1>1, <2>1, <2>3, <3>1 DEF EntryOK, unmapped
  <2> QED  BY <1>1, <2>2, <2>3
<1>9. ASSUME NEW q \in r.request PROVE RequestOK(r, q)
  <2>1. RequestOK(s, q)
    BY <1>1, <1>2 DEF Seg
  <2>2. r.segmentMap = s.segmentMap /\ DOMAIN r.segment = DOMAIN s.segment /\ q \in s.request
    BY <1>1
  <2>3. q.kind # "route" =>
          \A e \in Range(q.entries) : e \in DOMAIN s.segment /\ r.segment[e] = s.segment[e]
    BY <1>5, <2>1, <2>2 DEF RequestOK
  <2> QED  BY <2>1, <2>2, <2>3 DEF RequestOK, unmapped
<1>10. Seg(r, r.request, {})
  <2>1. SegmentTypes(r)
    <3>1. r.got \in Nat
      BY <1>1
    <3>4. r.thrown \in BOOLEAN
      BY <1>1, Zenon
    <3>2. SegmentTypes(s)
      BY <1>2 DEF Seg
    <3>3. /\ DOMAIN r = Fields /\ r.segmentMap = s.segmentMap /\ r.segmentLru = s.segmentLru
          /\ r.segment \in Seq(SegmentEntry) /\ DOMAIN r.segment = DOMAIN s.segment
      BY <1>1
    <3> QED  BY <3>1, <3>2, <3>3, <3>4 DEF SegmentTypes
  <2>4. SegmentsEvictable(r)
    <3>1. r.segmentMap = s.segmentMap /\ r.segmentLru = s.segmentLru
      BY <1>1
    <3> QED  BY <1>2, <1>6, <3>1 DEF Seg, SegmentsEvictable
  <2>2. Fetched(r, r.request, {})
    BY <1>1, <1>2, <1>7 DEF Seg, Fetched
  <2>3. Disjoint(r.request)
    BY <1>1, <1>2 DEF Seg
  <2> QED  BY <1>1, <1>8, <1>9, <2>1, <2>2, <2>3, <2>4 DEF Seg
<1>11. Counted(r) /\ Bounded(r)
  BY <1>1 DEF Sound, Counted, Bounded
<1>12. Sound(r)
  BY <1>3, <1>10, <1>11 DEF Sound
<1> QED  BY <1>12 DEF r

(* What is in the map is not forgotten.                                    *)
LEMMA AfterKept ==
    ASSUME NEW s, Sound(s), NEW p, FullKept(p, s) PROVE FullKept(p, After(s))
<1> DEFINE r == After(s)
<1>1. /\ r.segmentMap = s.segmentMap
      /\ \A e \in DOMAIN s.segment : \/ r.segment[e] = s.segment[e]
                                     \/ r.segment[e] = forgotten /\ e \notin inUse(s)
  BY AfterFields
<1> HIDE DEF r
<1>2. \A k \in SegmentKeys : LET e == s.segmentMap[k] IN e # 0 => r.segment[e] = s.segment[e]
  BY <1>1 DEF Sound, Seg, SegmentTypes, SegmentsEvictable, inUse
<1>3. FullKept(p, r)
  BY <1>1, <1>2 DEF FullKept
<1> QED  BY <1>3 DEF r

(* The invariant after a step, and what the step keeps.                    *)
LEMMA BecomesGood ==
    ASSUME NEW r, Good(r), becomes(r) PROVE IInv' /\ FullKept(state, state')
<1>1. state' = After(r)
  BY DEF becomes, After
<1>2. Sound(After(r)) /\ FullKept(state, After(r))
  BY AfterSound, AfterKept DEF Good
<1>3. After(r).got = 0 /\ After(r).thrown = FALSE
  BY AfterFields DEF Good
<1> QED  BY <1>1, <1>2, <1>3 DEF IInv

(* The invariant holds initially.                                          *)
LEMMA InitSound == Init => IInv
<1> SUFFICES ASSUME Init PROVE IInv
  OBVIOUS
<1>1. /\ DOMAIN state = Fields
      /\ state.link = [l \in Links |-> [hovered |-> FALSE, task |-> 0, version |-> -1]]
      /\ state.visible = << >>
      /\ state.router = [nextUrl |-> CHOOSE u \in NextUrls : TRUE, tree |-> 0]
      /\ state.task = << >> /\ state.queue = {} /\ state.sortId = 0 /\ state.inProgress = 0
      /\ state.route = << >> /\ state.routeMap = [k \in RouteKeys |-> 0] /\ state.routeLru = {}
      /\ state.segment = << >> /\ state.segmentMap = [k \in SegmentKeys |-> 0] /\ state.segmentLru = {}
      /\ state.version = 0 /\ state.request = {} /\ state.got = 0 /\ state.faults = {}
  BY DEF Init, Fields, RouteKeys, SegmentKeys
<1>2. ~state.scheduled /\ ~state.running /\ ~state.thrown
  BY DEF Init
<1>3. state.scheduled \in BOOLEAN /\ state.running \in BOOLEAN /\ state.thrown \in BOOLEAN
  BY DEF Init
<1>4. Tasks(state)
  <2>1. state.router \in Router
    BY <1>1, NextUrlsAssumption DEF Router
  <2>2. state.link \in [Links -> Link] /\ \A l \in Links : state.link[l].task = 0
    BY <1>1 DEF Link
  <2>3. state.visible \in Seq(Links) /\ state.task \in Seq(Task) /\ DOMAIN state.task = {}
    BY <1>1
  <2> QED  BY <1>1, <1>3, <2>1, <2>2, <2>3 DEF Tasks
<1>5. Routes(state, state.request)
  <2>1. state.route \in Seq(RouteEntry) /\ DOMAIN state.route = {}
    BY <1>1
  <2> QED  BY <1>1, <2>1 DEF Routes
<1>6. Kept(state, state.request, {})
  BY <1>1 DEF Kept
<1>7. Seg(state, state.request, {})
  <2>1. state.segment \in Seq(SegmentEntry) /\ DOMAIN state.segment = {}
    BY <1>1
  <2>2. SegmentTypes(state)
    BY <1>1, <1>3, <2>1 DEF SegmentTypes
  <2> QED  BY <1>1, <1>2, <2>1, <2>2 DEF Seg, SegmentsEvictable, Disjoint, Fetched
<1>8. Counted(state) /\ Bounded(state)
  BY <1>1, FS_EmptySet, MaxAssumption DEF Counted, Bounded, WithinLimit
<1> QED  BY <1>1, <1>2, <1>4, <1>5, <1>6, <1>7, <1>8 DEF IInv, Sound, Rest

(* respond, for every kind of request.                                     *)
LEMMA RespondGood ==
    ASSUME Sound(state), NEW q \in state.request, NEW outcome \in Outcomes, respond(q, outcome)
    PROVE  \E r : Good(r) /\ becomes(r)
<1> DEFINE route == fetchRouteOnCacheMiss(q, outcome)
           segment == fetchSegmentOnCacheMiss(q, outcome)
           dynamic == fetchSegmentPrefetchesUsingDynamicRequest(q, outcome)
           r == CASE q.kind = "route" -> route [] q.kind = "segment" -> segment [] q.kind = "dynamic" -> dynamic
<1>1. ~q.open /\ becomes(IF outcome = "fulfilled" THEN r ELSE spent(r))
  BY DEF respond
<1>2. q.kind \in {"route", "segment", "dynamic"}
  BY DEF Sound, Seg, RequestOK, Request
<1>3. Good(r)
  <2>1. CASE q.kind = "route"
    <3>1. Good(route)
      BY <1>1, <2>1, RouteAnswer DEF Good
    <3> QED  BY <2>1, <3>1
  <2>2. CASE q.kind = "segment"
    <3>1. outcome \in {"fulfilled", "rejected"}
      BY <2>2 DEF respond, Outcomes
    <3>2. Answered(state, segment, q) /\ FullKept(state, segment)
      BY <1>1, <2>2, <3>1, SegmentAnswer
    <3>3. Good(segment)
      BY <2>2, <3>2, AnsweredSound DEF Good
    <3> QED  BY <2>2, <3>3
  <2>3. CASE q.kind = "dynamic"
    <3>1. Answered(state, dynamic, q) /\ FullKept(state, dynamic)
      BY <1>1, <2>3, DynamicAnswer
    <3>2. Good(dynamic)
      BY <2>3, <3>1, AnsweredSound DEF Good
    <3> QED  BY <2>3, <3>2
  <2> QED  BY <1>2, <2>1, <2>2, <2>3
<1> HIDE DEF r
<1>4. Good(spent(r))
  BY <1>3, SpentGood
<1> QED  BY <1>1, <1>3, <1>4

(* An event is counted.                                                    *)
LEMMA EventGood ==
    ASSUME NEW r, Good(r), event(r) PROVE \E v : Good(v) /\ becomes(v)
<1>1. Good(spent(r)) /\ becomes(spent(r))
  BY SpentGood DEF event
<1> QED  BY <1>1

(* Every step leads to a good state.                                       *)
LEMMA NextGood ==
    ASSUME Sound(state), Next PROVE \E r : Good(r) /\ becomes(r)
<1>1. CASE startMicrotask
  BY <1>1, StartGood DEF startMicrotask
<1>2. CASE processTask
  BY <1>2, ProcessTaskGood
<1>3. ASSUME NEW q \in state.request, NEW outcome \in Outcomes, respond(q, outcome)
      PROVE  \E r : Good(r) /\ becomes(r)
  BY <1>3, RespondGood
<1>4. ASSUME NEW q \in state.request, closeConnection(q) PROVE \E r : Good(r) /\ becomes(r)
  <2> DEFINE r == onPrefetchConnectionClosed(state, q)
  <2>1. q.open /\ becomes(r)
    BY <1>4 DEF closeConnection
  <2>2. Answered(state, r, q) /\ FullKept(state, r)
    BY <2>1, CloseAnswer
  <2>3. Good(r)
    BY <2>1, <2>2, AnsweredSound DEF Good
  <2> QED  BY <2>1, <2>3
<1>5. ASSUME NEW q \in state.request, breakConnection(q) PROVE \E r : Good(r) /\ becomes(r)
  <2> DEFINE r == [spent(state) EXCEPT !.request = @ \ {q}, !.faults = @ \cup {"broken"}]
  <2>1. q.open /\ becomes(r)
    BY <1>5 DEF breakConnection
  <2>2. Answered(state, r, q) /\ FullKept(state, r)
    BY <2>1, BreakAnswer
  <2>3. Good(r)
    BY <2>1, <2>2, AnsweredSound DEF Good
  <2> QED  BY <2>1, <2>3
<1>6. ASSUME NEW e \in DOMAIN state.route, expireRoute(e) PROVE \E r : Good(r) /\ becomes(r)
  BY <1>6, ExpireRouteGood DEF expireRoute
<1>7. ASSUME NEW e \in DOMAIN state.route, onRouteLRUEviction(e) PROVE \E r : Good(r) /\ becomes(r)
  BY <1>7, EvictRouteGood DEF onRouteLRUEviction
<1>8. ASSUME NEW e \in DOMAIN state.segment, expireSegment(e) PROVE \E r : Good(r) /\ becomes(r)
  BY <1>8, ExpireSegmentGood DEF expireSegment
<1>9. ASSUME NEW e \in DOMAIN state.segment, onSegmentLRUEviction(e) PROVE \E r : Good(r) /\ becomes(r)
  BY <1>9, EvictSegmentGood DEF onSegmentLRUEviction
<1>10. ASSUME NEW l \in Links, onLinkVisibilityChanged(l) PROVE \E r : Good(r) /\ becomes(r)
  <2> DEFINE visible == IF l \in Range(state.visible) THEN RemoveFirst(state.visible, l) ELSE Append(state.visible, l)
  <2>1. state.visible \in Seq(Links)
    BY DEF Sound, Rest, Tasks
  <2>2. visible \in Seq(Links)
    BY <2>1, RemovedFirst
  <2>3. event(rescheduleLinkPrefetch([state EXCEPT !.visible = visible], l))
    BY <1>10 DEF onLinkVisibilityChanged
  <2> HIDE DEF visible
  <2>4. Good(rescheduleLinkPrefetch([state EXCEPT !.visible = visible], l))
    BY <2>2, VisibilityGood
  <2> QED  BY <2>3, <2>4, EventGood
<1>11. ASSUME NEW l \in Links, onNavigationIntent(l) PROVE \E r : Good(r) /\ becomes(r)
  BY <1>11, IntentGood, EventGood DEF onNavigationIntent
<1>12. ASSUME NEW l \in Links, unmountPrefetchableInstance(l) PROVE \E r : Good(r) /\ becomes(r)
  BY <1>12, UnmountGood, EventGood DEF unmountPrefetchableInstance
<1>13. ASSUME NEW u \in NextUrls, routerStateChanges(u) PROVE \E r : Good(r) /\ becomes(r)
  BY <1>13, RouterGood, EventGood DEF routerStateChanges
<1>14. CASE revalidateEntireCache
  BY <1>14, RevalidateGood, EventGood DEF revalidateEntireCache
<1>15. ASSUME NEW h \in Hrefs, navigate(h) PROVE \E r : Good(r) /\ becomes(r)
  <2> DEFINE d == readRouteCacheEntry(state, h, state.router.nextUrl)
             w == FoldRight(waitForSegment, Tree[h], d)
             r == IF d.got # 0 /\ d.route[d.got].status = "fulfilled" THEN w ELSE d
  <2>1. Good(d) /\ Good(w)
    BY NavigateGood
  <2>2. event(r)
    BY <1>15 DEF navigate
  <2>3. Good(r)
    BY <2>1
  <2> QED  BY <2>2, <2>3, EventGood
<1>16. ASSUME NEW h \in Hrefs, NEW full \in BOOLEAN, prefetch(h, full) PROVE \E r : Good(r) /\ becomes(r)
  BY <1>16, PrefetchGood, EventGood DEF prefetch
<1> QED
  BY <1>1, <1>2, <1>3, <1>4, <1>5, <1>6, <1>7, <1>8, <1>9, <1>10, <1>11, <1>12, <1>13, <1>14, <1>15, <1>16 DEF Next

-----------------------------------------------------------------------------
(* The theorems                                                            *)

(* The invariant is inductive.                                             *)
LEMMA StepSound == IInv /\ [Next]_vars => IInv'
<1> SUFFICES ASSUME IInv, [Next]_vars PROVE IInv'
  OBVIOUS
<1>1. CASE Next
  <2>1. PICK r : Good(r) /\ becomes(r)
    BY <1>1, NextGood DEF IInv
  <2> QED  BY <2>1, BecomesGood
<1>2. CASE UNCHANGED vars
  BY <1>2 DEF vars, IInv
<1> QED  BY <1>1, <1>2

(* The invariant holds always.                                             *)
LEMMA Invariance == Spec => []IInv
<1> QED  BY InitSound, StepSound, PTL DEF Spec

(* Types, for every value of the constants.                                *)
THEOREM TypesCorrect == Spec => []TypeOK
<1>1. IInv => TypeOK
  <2> SUFFICES ASSUME IInv PROVE TypeOK
    OBVIOUS
  <2>1. ASSUME NEW t \in DOMAIN state.task
        PROVE  /\ state.task[t].priority \in {Background, Default, Intent}
               /\ state.task[t].phase \in {RouteTreePhase, SegmentsPhase}
               /\ state.task[t].sortId < state.sortId
    <3>1. state.task[t] \in Task
      BY DEF IInv, Sound, Rest, Tasks
    <3> QED  BY <3>1 DEF IInv, Sound, Rest, Tasks, Task
  <2>2. state.queue \subseteq {t \in DOMAIN state.task : ~state.task[t].canceled}
    BY DEF IInv, Sound, Rest, Tasks
  <2>3. ASSUME NEW e \in DOMAIN state.route PROVE state.route[e].status \in Statuses
    <3>1. state.route[e] \in RouteEntry
      BY DEF IInv, Sound, Rest, Routes
    <3> QED  BY <3>1 DEF RouteEntry
  <2>4. ASSUME NEW e \in DOMAIN state.segment
        PROVE  /\ state.segment[e].status \in Statuses
               /\ state.segment[e].waited => state.segment[e].status = "pending"
               /\ ~state.segment[e].isPartial => state.segment[e].status \in {"fulfilled", "rejected"}
    <3>1. state.segment[e] \in SegmentEntry /\ EntryOK(state, e)
      BY DEF IInv, Sound, Seg, SegmentTypes
    <3> QED  BY <3>1 DEF SegmentEntry, EntryOK
  <2>5. ~state.thrown /\ state.got = 0
    BY DEF IInv
  <2> QED  BY <2>1, <2>2, <2>3, <2>4, <2>5 DEF TypeOK
<1> QED  BY Invariance, <1>1, PTL

(* A prefetch is never lost: a task that is neither canceled nor through   *)
(* is in the heap, or an unanswered request for its route will put it back *)
(* (unless heapPop took another task).                                     *)
THEOREM TasksKept == Spec => []TasksAreKept
<1>1. IInv => TasksAreKept
  BY DEF IInv, Sound, Rest, Kept, Blocked, TasksAreKept
<1> QED  BY Invariance, <1>1, PTL

(* What is pending has an unanswered request that will settle it, for      *)
(* every tree, every order of the answers and every eviction (but for a    *)
(* response that asks for a full page load, and the recursion).            *)
THEOREM PendingFetched == Spec => []PendingIsFetched
<1>1. IInv => PendingIsFetched
  <2> SUFFICES ASSUME IInv, state.faults \cap {"mpa", "recursion"} = {} PROVE PendingIsFetched
    BY DEF PendingIsFetched
  <2>1. ASSUME NEW e \in state.routeLru, state.route[e].status = "pending"
        PROVE  \E q \in state.request : q.kind = "route" /\ q.route = e /\ ~q.open
    BY <2>1 DEF IInv, Sound, Rest, Routes, Unanswered
  <2>2. ASSUME NEW e \in DOMAIN state.segment, state.segment[e].status = "pending"
        PROVE  \E q \in state.request : e \in Range(q.entries) /\ ~q.open
    BY <2>2 DEF IInv, Sound, Seg, Fetched
  <2> QED  BY <2>1, <2>2 DEF PendingIsFetched
<1> QED  BY Invariance, <1>1, PTL

(* Whatever is in a map is in its LRU and knows its key, so that an        *)
(* eviction deletes it.                                                    *)
THEOREM MappedEvictable == Spec => []MappedIsEvictable
<1>1. IInv => MappedIsEvictable
  <2> SUFFICES ASSUME IInv PROVE MappedIsEvictable
    OBVIOUS
  <2>1. DOMAIN state.routeMap = RouteKeys /\ DOMAIN state.segmentMap = SegmentKeys
    BY DEF IInv, Sound, Rest, Routes, Seg, SegmentTypes
  <2> QED  BY <2>1 DEF IInv, Sound, Rest, Routes, Seg, SegmentsEvictable, MappedIsEvictable
<1> QED  BY Invariance, <1>1, PTL

(* An answer from before an invalidation is not in the route cache.        *)
THEOREM OldAnswersOut == Spec => []OldAnswersStayOut
<1>1. IInv => OldAnswersStayOut
  <2> SUFFICES ASSUME IInv PROVE OldAnswersStayOut
    OBVIOUS
  <2>1. DOMAIN state.routeMap = RouteKeys
    BY DEF IInv, Sound, Rest, Routes
  <2> QED  BY <2>1 DEF IInv, Sound, Rest, Routes, OldAnswersStayOut
<1> QED  BY Invariance, <1>1, PTL

(* Connections are counted, and whatever the trees they exceed the limit   *)
(* at most by the parallel slots of one of them.                           *)
THEOREM BandwidthAccounted == Spec => []BandwidthIsAccounted
<1>1. IInv => BandwidthIsAccounted
  BY DEF IInv, Sound, Counted, Bounded, BandwidthIsAccounted
<1> QED  BY Invariance, <1>1, PTL

(* No step replaces a complete, fresh segment by a partial one.            *)
THEOREM FullSegmentsStay == Spec => FullStays
<1> DEFINE Stays == \A k \in DOMAIN state.segmentMap :
                      LET e == state.segmentMap[k]  f == state'.segmentMap[k]
                      IN  e # 0 /\ f \notin {0, e} /\ ~state.segment[e].stale
                            => state.segment[e].isPartial \/ ~state'.segment[f].isPartial
<1>1. IInv /\ [Next]_vars => [Stays]_vars
  <2> SUFFICES ASSUME IInv, Next PROVE Stays
    OBVIOUS
  <2>1. PICK r : Good(r) /\ becomes(r)
    BY NextGood DEF IInv
  <2>2. FullKept(state, state')
    BY <2>1, BecomesGood
  <2>3. DOMAIN state.segmentMap = SegmentKeys
    BY DEF IInv, Sound, Seg, SegmentTypes
  <2> QED  BY <2>2, <2>3 DEF FullKept, Full
<1> QED  BY Invariance, <1>1, PTL DEF Spec, FullStays

=============================================================================
