------------------------------- MODULE SegmentCache -------------------------------
(***************************************************************************)
(* Prefetching in the app router's client: links (packages/next/src/client *)
(* /components/links.ts) schedule prefetch tasks, the scheduler            *)
(* (segment-cache-impl/scheduler.ts) works them off in a microtask, with a *)
(* few requests at a time, and the cache (segment-cache-impl/cache.ts)     *)
(* keeps the routes and segments that were requested.                      *)
(*                                                                         *)
(* JavaScript runs a callback to its end, so a step is one event with      *)
(* everything it calls; only the loop of processQueueInMicrotask has a     *)
(* step per task, and nothing else happens while it runs.  The parts of a  *)
(* step are functions from one state to the next; `got` is the entry the   *)
(* last read returned.                                                     *)
(*                                                                         *)
(* Time is an event: an entry that has been given a time to live may       *)
(* become stale.  The contents of an entry are whether it is partial.      *)
(* The heap is the set of queued tasks and whether their order is kept; an *)
(* LRU is the set of its entries, of which any may be evicted.             *)
(***************************************************************************)
EXTENDS Integers, Sequences, FiniteSets, SequencesExt, TLC

CONSTANTS
    Links, Hrefs, Segments, None,
    LinkHref,         \* [Links -> Hrefs]
    FullLinks,        \* links with prefetch={true}
    NextUrls,         \* values of nextUrl in the router state
    Tree,             \* [Hrefs -> Seq(Segments)], a route's tree in preorder
    Parent,           \* [Segments -> Segments \cup {None}]
    Current,          \* segments of the current page, which dynamic requests leave out
    Pages,            \* page segments; with dynamic data they vary on the search params
    HasLoading,       \* segments with a loading boundary
    PPRRoutes, Interceptable,   \* subsets of Hrefs
    MAX_CONCURRENT_PREFETCH_REQUESTS,
    DynamicSegments,  \* segments whose prerendered shell is partial
    MaxEvents         \* bound: what happens to links, changes of the router state,
                      \*   invalidations, navigations, responses that fail or are odd,
                      \*   and entries that become stale or are evicted

ASSUME LinkAssumption == LinkHref \in [Links -> Hrefs]
ASSUME NextUrlsAssumption == NextUrls # {}
ASSUME TreeAssumption ==          \* a segment's path occurs once in a tree
    /\ Tree \in [Hrefs -> Seq(Segments)]
    /\ \A h \in Hrefs : \A i, j \in DOMAIN Tree[h] : Tree[h][i] = Tree[h][j] => i = j
ASSUME MaxAssumption == MAX_CONCURRENT_PREFETCH_REQUESTS \in Nat /\ MaxEvents \in Nat

Background == 0     Default == 1     Intent == 2        \* PrefetchPriority
SegmentsPhase == 0  RouteTreePhase == 1                 \* PrefetchPhase

VARIABLE state

vars == <<state>>

NoUpsert == <<None, FALSE>>

Init == state =
    [link |-> [l \in Links |-> [hovered |-> FALSE, task |-> 0, version |-> -1]],
     visible |-> << >>,
     router |-> [nextUrl |-> CHOOSE u \in NextUrls : TRUE, tree |-> 0],
     task |-> << >>, queue |-> {}, ordered |-> TRUE, sortId |-> 0, inProgress |-> 0,
     scheduled |-> FALSE, running |-> FALSE, thrown |-> FALSE,
     route |-> << >>, routeMap |-> [k \in Hrefs \X (NextUrls \cup {None}) |-> 0], routeLru |-> {},
     segment |-> << >>, segmentMap |-> [k \in Segments \X BOOLEAN |-> 0], segmentLru |-> {},
     version |-> 0, request |-> {}, got |-> 0, faults |-> {},
     left |-> MaxEvents]

-----------------------------------------------------------------------------
(* scheduler.ts: the queue                                                 *)
before(s, a, b) ==
    LET x == s.task[a]  y == s.task[b]
    IN  \/ x.priority > y.priority
        \/ x.priority = y.priority /\ x.phase > y.phase
        \/ x.priority = y.priority /\ x.phase = y.phase /\ x.sortId > y.sortId

(* The tasks that may be at the root of the heap.                          *)
heapPeek(s) ==
    IF s.ordered THEN {t \in s.queue : \A u \in s.queue \ {t} : before(s, t, u)} ELSE s.queue

(* The last task takes the place of the deleted one and is only sifted     *)
(* down.  From six tasks on it may belong above that place, and the heap   *)
(* is out of order until it is empty.                                      *)
heapDelete(s, t) ==
    IF t \notin s.queue THEN s
    ELSE [s EXCEPT !.queue = @ \ {t},
                   !.ordered = s.queue = {t} \/ (@ /\ Cardinality(s.queue) < 6)]

(* Mutant: one request too many.                                           *)
hasNetworkBandwidth_onePast(s) == s.inProgress <= MAX_CONCURRENT_PREFETCH_REQUESTS

hasNetworkBandwidth(s) == s.inProgress < MAX_CONCURRENT_PREFETCH_REQUESTS

ensureWorkIsScheduled(s) == IF hasNetworkBandwidth(s) THEN [s EXCEPT !.scheduled = TRUE] ELSE s

enqueue(s, ts) ==
    IF ts \subseteq s.queue THEN s ELSE ensureWorkIsScheduled([s EXCEPT !.queue = @ \cup ts])

schedulePrefetchTask(s, href, nextUrl, tree, full, priority) ==
    enqueue([s EXCEPT
               !.task = Append(@, [href |-> href, nextUrl |-> nextUrl, tree |-> tree, full |-> full,
                                   priority |-> priority, phase |-> RouteTreePhase, bg |-> FALSE,
                                   sortId |-> s.sortId, canceled |-> FALSE, ended |-> FALSE]),
               !.sortId = @ + 1],
            {Len(s.task) + 1})
(* Mutant: the task is left in the heap.                                   *)
cancelPrefetchTask_stays(s, t) ==
    IF t = 0 THEN s ELSE [s EXCEPT !.task[t].canceled = TRUE]

cancelPrefetchTask(s, t) ==
    IF t = 0 THEN s ELSE heapDelete([s EXCEPT !.task[t].canceled = TRUE], t)

bumpPrefetchTask(s, t, priority) ==
    ensureWorkIsScheduled(
        [s EXCEPT !.task[t] = [@ EXCEPT !.canceled = FALSE, !.ended = FALSE,
                                        !.sortId = s.sortId, !.priority = priority],
                  !.sortId = @ + 1,
                  !.queue = @ \cup {t}])

spawnPrefetchSubtask(s, request) ==
    [s EXCEPT !.inProgress = @ + 1, !.request = @ \cup {request}]
(* Mutant: nobody looks whether the bandwidth was awaited.                 *)
onPrefetchConnectionClosed_only(s, q) ==
    [s EXCEPT !.inProgress = @ - 1, !.request = @ \ {q}]

onPrefetchConnectionClosed(s, q) ==
    ensureWorkIsScheduled([s EXCEPT !.inProgress = @ - 1, !.request = @ \ {q}])

-----------------------------------------------------------------------------
(* Mutant: the blocked tasks are forgotten.                                *)
pingBlockedTasks_forget(s, e) == [s EXCEPT !.route[e].blocked = {}]

(* cache.ts: routes                                                        *)
pingBlockedTasks(s, e) ==
    enqueue([s EXCEPT !.route[e].blocked = {}],
            {t \in s.route[e].blocked : ~s.task[t].canceled})

deleteRouteFromCache(s, e, keypath) ==
    pingBlockedTasks([s EXCEPT !.routeMap[keypath] = 0, !.routeLru = @ \ {e}], e)

readExactRouteCacheEntry(s, keypath) ==
    LET e == s.routeMap[keypath]
    IN  IF e = 0 THEN [s EXCEPT !.got = 0]
        ELSE IF ~s.route[e].stale THEN [s EXCEPT !.got = e, !.routeLru = @ \cup {e}]
        ELSE [deleteRouteFromCache(s, e, keypath) EXCEPT !.got = 0]

readRouteCacheEntry(s, href, nextUrl) ==
    LET orIntercepted(r) == IF r.got # 0 /\ ~r.route[r.got].couldBeIntercepted THEN r
                            ELSE readExactRouteCacheEntry(r, <<href, nextUrl>>)
    IN  orIntercepted(readExactRouteCacheEntry(s, <<href, None>>))

readOrCreateRouteCacheEntry(s, t) ==
    LET keypath == <<s.task[t].href, s.task[t].nextUrl>>
        put(r, e) == [r EXCEPT !.route = Append(@, [status |-> "empty", stale |-> FALSE, blocked |-> {},
                                                    couldBeIntercepted |-> TRUE, keypath |-> keypath,
                                                    version |-> s.version]),
                               !.routeMap[keypath] = e, !.routeLru = @ \cup {e}, !.got = e]
        orCreate(r) == IF r.got # 0 THEN r ELSE put(r, Len(r.route) + 1)
    IN  orCreate(readRouteCacheEntry(s, keypath[1], keypath[2]))

-----------------------------------------------------------------------------
(* cache.ts: segments                                                      *)
isDynamicTask(s, t) == s.task[t].full \/ s.task[t].href \notin PPRRoutes

getSegmentKeypathForTask(s, t, path) == <<path, isDynamicTask(s, t) /\ path \in Pages>>

(* The listeners get null, so a revalidation that waits is not upserted.   *)
cancelEntryListeners(s, e) ==
    IF s.segment[e].status = "pending"
      THEN [s EXCEPT !.segment[e].waited = FALSE, !.segment[e].upsert = NoUpsert]
      ELSE s

clearRevalidatingSegmentFromOwner(s, owner) ==
    LET e == s.segment[owner].revalidating
    IN  IF e = 0 THEN s ELSE [cancelEntryListeners(s, e) EXCEPT !.segment[owner].revalidating = 0]

deleteSegmentFromCache(s, e, keypath) ==
    clearRevalidatingSegmentFromOwner(
        [cancelEntryListeners(s, e) EXCEPT !.segmentMap[keypath] = 0, !.segmentLru = @ \ {e}], e)

(* A stale entry with a revalidation is to be replaced by it, but          *)
(* upsertSegmentEntry begins with this same read, of the same stale entry, *)
(* and the recursion overflows the stack.                                  *)
readExactSegmentCacheEntry(s, keypath) ==
    LET e == s.segmentMap[keypath]
    IN  IF e = 0 THEN [s EXCEPT !.got = 0]
        ELSE IF ~s.segment[e].stale THEN [s EXCEPT !.got = e, !.segmentLru = @ \cup {e}]
        ELSE IF s.segment[e].revalidating # 0
          THEN [s EXCEPT !.got = 0, !.thrown = TRUE, !.faults = @ \cup {"recursion"}]
        ELSE [deleteSegmentFromCache(s, e, keypath) EXCEPT !.got = 0]

readSegmentCacheEntry(s, path) ==
    LET orWithoutSearch(r) == IF r.thrown \/ r.got # 0 THEN r
                              ELSE readExactSegmentCacheEntry(r, <<path, FALSE>>)
    IN  orWithoutSearch(IF path \in Pages THEN readExactSegmentCacheEntry(s, <<path, TRUE>>)
                                          ELSE [s EXCEPT !.got = 0])

createDetachedSegmentCacheEntry(s, stale) ==
    [s EXCEPT !.segment = Append(@, [status |-> "empty", fetchStrategy |-> "PPR", stale |-> stale,
                                     isPartial |-> TRUE, revalidating |-> 0, waited |-> FALSE,
                                     upsert |-> NoUpsert, loading |-> FALSE,
                                     keypath |-> NoUpsert]),
              !.got = Len(s.segment) + 1]

putSegment(s, keypath, e) ==
    [s EXCEPT !.segmentMap[keypath] = e, !.segmentLru = @ \cup {e},
              !.segment[e].keypath = keypath, !.got = e]

readOrCreateSegmentCacheEntry(s, t, e, path) ==
    LET keypath == getSegmentKeypathForTask(s, t, path)
        put(new) == putSegment(new, keypath, new.got)
        orCreate(r) == IF r.thrown \/ r.got # 0 THEN r
                       ELSE put(createDetachedSegmentCacheEntry(r, r.route[e].stale))
    IN  orCreate(readExactSegmentCacheEntry(s, keypath))

resetRevalidatingSegmentEntry(s, owner) ==
    LET owned(new) == [new EXCEPT !.segment[owner].revalidating = new.got]
    IN  owned(createDetachedSegmentCacheEntry(clearRevalidatingSegmentFromOwner(s, owner),
                                              s.segment[owner].stale))

readOrCreateRevalidatingSegmentEntry(s, owner) ==
    LET e == s.segment[owner].revalidating
    IN  IF e # 0 /\ ~s.segment[e].stale THEN [s EXCEPT !.got = e] ELSE resetRevalidatingSegmentEntry(s, owner)

upgradeToPendingSegment(s, e, strategy) ==
    [s EXCEPT !.segment[e].status = "pending", !.segment[e].fetchStrategy = strategy]
(* Mutant: the newer entry always wins.                                    *)
upsertSegmentEntry_always(s, keypath, candidate) ==
    LET upsert(r) ==
            IF r.thrown THEN r
            ELSE putSegment(IF r.got = 0 THEN r ELSE deleteSegmentFromCache(r, r.got, keypath),
                            keypath, candidate)
    IN  upsert(readExactSegmentCacheEntry(s, keypath))

upsertSegmentEntry(s, keypath, candidate) ==
    LET upsert(r) ==
            IF r.thrown THEN r
            ELSE IF r.got # 0 /\ r.segment[candidate].isPartial /\ ~r.segment[r.got].isPartial
              THEN [r EXCEPT !.segment[candidate].status = "rejected"]
            ELSE putSegment(IF r.got = 0 THEN r ELSE deleteSegmentFromCache(r, r.got, keypath),
                            keypath, candidate)
    IN  upsert(readExactSegmentCacheEntry(s, keypath))

fulfillSegmentCacheEntry(s, e, stale, isPartial, loading) ==
    [s EXCEPT !.segment[e] = [@ EXCEPT !.status = "fulfilled", !.stale = stale, !.waited = FALSE,
                                       !.isPartial = isPartial, !.loading = loading]]

rejectSegmentCacheEntry(s, e) ==
    [s EXCEPT !.segment[e] = [@ EXCEPT !.status = "rejected", !.stale = FALSE,
                                       !.waited = FALSE, !.upsert = NoUpsert]]

-----------------------------------------------------------------------------
(* scheduler.ts: what a task does with the segments of its route e.  A     *)
(* request is for entries, a function from segments to the entries that    *)
(* wait for it; its upsert is what upsertSegmentOnCompletion waits to do.  *)
request(kind, t, e, entries, upsert) ==
    [kind |-> kind, task |-> t, route |-> e, entries |-> entries, upsert |-> upsert, open |-> FALSE]

fetchSegment(s, t, e, path, entry, upsert) ==
    spawnPrefetchSubtask(upgradeToPendingSegment(s, entry, "PPR"),
                         request("segment", t, e, [p \in {path} |-> entry], upsert))

pingPPRSegmentRevalidation(s, t, e, path, owner) ==
    LET ping(r) == IF r.segment[r.got].status = "empty"
                     THEN fetchSegment(r, t, e, path, r.got, getSegmentKeypathForTask(s, t, path))
                     ELSE r
    IN  ping(readOrCreateRevalidatingSegmentEntry(s, owner))

pingPerSegment(s, t, e, path) ==
    LET ping(r, status, loadingOnly) ==
            IF status = "empty" THEN fetchSegment(r, t, e, path, r.got, NoUpsert)
            ELSE IF status = "pending" /\ loadingOnly /\ r.task[t].priority # Background
              THEN [r EXCEPT !.task[t].bg = TRUE]
            ELSE IF status \in {"pending", "rejected"} /\ loadingOnly
              THEN pingPPRSegmentRevalidation(r, t, e, path, r.got)
            ELSE r
        found(r) == IF r.thrown THEN r
                    ELSE ping(r, r.segment[r.got].status, r.segment[r.got].fetchStrategy = "LoadingBoundary")
    IN  found(readOrCreateSegmentCacheEntry(s, t, e, path))

(* Bandwidth is checked where the traversal enters the children of a       *)
(* segment, not between siblings.                                          *)
entersChildren(tree, i) ==
    i > 1 /\ \A j \in 1 .. i - 1 : Parent[tree[j]] # Parent[tree[i]]

pingPPRRouteNode(a, t, e, i) ==
    LET tree == Tree[a.s.task[t].href]
    IN  IF a.s.thrown \/ a.exit = "InProgress" THEN a
        ELSE IF entersChildren(tree, i) /\ ~hasNetworkBandwidth(a.s) THEN [a EXCEPT !.exit = "InProgress"]
        ELSE [a EXCEPT !.s = pingPerSegment(a.s, t, e, tree[i])]

pingPPRRouteTree(s, t, e) ==
    LET ping(a, i) == pingPPRRouteNode(a, t, e, i)
    IN  FoldLeft(ping, [s |-> s, exit |-> "Done"], [i \in DOMAIN Tree[s.task[t].href] |-> i])

(* A dynamic request traverses the segments that the current page does not *)
(* have, and collects the entries it will fill.                            *)
spawn(a, r, path, entry, strategy) ==
    [a EXCEPT !.s = upgradeToPendingSegment(r, entry, strategy),
              !.spawned = [p \in {path} \cup DOMAIN @ |-> IF p = path THEN entry ELSE @[p]]]

pingPPRDisabledRouteTreeUpToLoadingBoundary(a, t, e, path) ==
    LET found(r) ==
            IF r.thrown THEN [a EXCEPT !.s = r]
            ELSE IF r.segment[r.got].status = "empty" THEN spawn(a, r, path, r.got, "LoadingBoundary")
            ELSE IF r.segment[r.got].status = "fulfilled" /\ r.segment[r.got].loading
              THEN [a EXCEPT !.s = r, !.cut = @ \cup {path}]
            ELSE [a EXCEPT !.s = r]
    IN  IF a.s.thrown THEN a
        ELSE IF Parent[path] \in a.cut THEN [a EXCEPT !.cut = @ \cup {path}]
        ELSE found(readOrCreateSegmentCacheEntry(a.s, t, e, path))

(* The revalidation that was not fetched with the full strategy is itself  *)
(* taken for the owner of the new one.                                     *)
pingFullSegmentRevalidation(a, r, t, path, owner) ==
    LET start(new) == [spawn(a, new, path, new.got, "Full")
                          EXCEPT !.s.segment[new.got].upsert = getSegmentKeypathForTask(r, t, path)]
        ping(v, segment) ==
            IF segment.status # "empty" /\ segment.fetchStrategy = "Full" THEN [a EXCEPT !.s = v]
            ELSE start(IF segment.status = "empty" THEN v ELSE resetRevalidatingSegmentEntry(v, v.got))
        found(v) == ping(v, v.segment[v.got])
    IN  found(readOrCreateRevalidatingSegmentEntry(r, owner))

pingRouteTreeAndIncludeDynamicData(a, t, e, path) ==
    LET ping(r, segment) ==
            IF segment.status = "empty" THEN spawn(a, r, path, r.got, "Full")
            ELSE IF \/ segment.status = "fulfilled" /\ segment.isPartial
                    \/ segment.status \in {"pending", "rejected"} /\ segment.fetchStrategy # "Full"
              THEN pingFullSegmentRevalidation(a, r, t, path, r.got)
            ELSE [a EXCEPT !.s = r]
        found(r) == IF r.thrown THEN [a EXCEPT !.s = r] ELSE ping(r, r.segment[r.got])
    IN  IF a.s.thrown THEN a ELSE found(readOrCreateSegmentCacheEntry(a.s, t, e, path))

diffNodeAgainstCurrent(a, t, e, path) ==
    IF path \in Current THEN a
    ELSE IF a.s.task[t].full THEN pingRouteTreeAndIncludeDynamicData(a, t, e, path)
    ELSE pingPPRDisabledRouteTreeUpToLoadingBoundary(a, t, e, path)

diffRouteTreeAgainstCurrent(s, t, e) ==
    LET ping(a, path) == diffNodeAgainstCurrent(a, t, e, path)
    IN  FoldLeft(ping, [s |-> s, spawned |-> << >>, cut |-> {}], Tree[s.task[t].href])

pingRootRouteTree(s, t, e) ==
    LET status == s.route[e].status
        collect(a) == IF a.s.thrown \/ a.spawned = << >> THEN a.s
                       ELSE spawnPrefetchSubtask(a.s, request("dynamic", t, e, a.spawned, NoUpsert))
        fetched == IF status # "empty" THEN s
                   ELSE [spawnPrefetchSubtask(s, request("route", t, e, << >>, NoUpsert))
                            EXCEPT !.route[e].status = "pending"]
    IN  IF status \in {"empty", "pending"}
          THEN [s |-> [fetched EXCEPT !.route[e].blocked = @ \cup {t}], exit |-> "Blocked"]
        ELSE IF status = "rejected" \/ s.task[t].phase # SegmentsPhase THEN [s |-> s, exit |-> "Done"]
        ELSE IF ~hasNetworkBandwidth(s) THEN [s |-> s, exit |-> "InProgress"]
        ELSE IF ~s.task[t].full /\ s.task[t].href \in PPRRoutes THEN pingPPRRouteTree(s, t, e)
        ELSE [s |-> collect(diffRouteTreeAgainstCurrent(s, t, e)), exit |-> "Done"]

-----------------------------------------------------------------------------
(* A step.  The contents of an entry that nothing refers to any more are   *)
(* forgotten.                                                              *)
inUse(s) ==
    LET held == s.segmentLru \cup UNION {Range(q.entries) : q \in s.request}
    IN  held \cup {s.segment[e].revalidating : e \in held}

forgotten == [status |-> "empty", fetchStrategy |-> "PPR", stale |-> TRUE, isPartial |-> TRUE,
              revalidating |-> 0, waited |-> FALSE, upsert |-> NoUpsert, loading |-> FALSE,
              keypath |-> NoUpsert]

becomes(s) ==
    state' = [s EXCEPT !.got = 0, !.thrown = FALSE,
                       !.segment = [e \in DOMAIN @ |-> IF e \in inUse(s) \/ @[e].waited
                                                       THEN @[e] ELSE forgotten]]

-----------------------------------------------------------------------------
(* processQueueInMicrotask                                                 *)
startMicrotask ==
    /\ state.scheduled /\ ~state.running
    /\ becomes([state EXCEPT !.scheduled = FALSE, !.running = TRUE])

(* What may be first after t was worked on: in a heap that is out of order *)
(* t is still at the root, or what was pushed meanwhile and belongs before *)
(* t is.                                                                   *)
firstNow(s, t) ==
    IF s.ordered THEN heapPeek(s) ELSE {t} \cup {u \in s.queue \ state.queue : before(s, u, t)}

(* heapPop removes what is first now, which need not be the task.          *)
heapPop(s, t, first) ==
    [s EXCEPT !.queue = @ \ {first}, !.ordered = @ \/ s.queue = {first},
              !.faults = IF first = t THEN @ ELSE @ \cup {"popped"}]

exitStatus(s, t, first, exit) ==
    LET bg == s.task[t].bg
        r  == [s EXCEPT !.task[t].bg = FALSE]
    IN  CASE exit = "InProgress" -> [r EXCEPT !.running = FALSE]
          [] exit = "Blocked"    -> heapPop(r, t, first)
          [] exit = "Done" /\ r.task[t].phase = RouteTreePhase
                                 -> [r EXCEPT !.task[t].phase = SegmentsPhase]
          [] exit = "Done" /\ r.task[t].phase = SegmentsPhase /\ bg
                                 -> [r EXCEPT !.task[t].priority = Background]
          [] OTHER               -> heapPop([r EXCEPT !.task[t].ended = TRUE], t, first)

processTask ==
    LET stop(s) == [s EXCEPT !.running = FALSE]
        end(t, a) == \E first \in firstNow(a.s, t) :
                        becomes(IF a.s.thrown THEN stop(a.s) ELSE exitStatus(a.s, t, first, a.exit))
        ping(t, r) == end(t, pingRootRouteTree(r, t, r.got))
    IN  /\ state.running
        /\ IF state.queue = {} \/ ~hasNetworkBandwidth(state) THEN becomes(stop(state))
           ELSE \E t \in heapPeek(state) : ping(t, readOrCreateRouteCacheEntry(state, t))

-----------------------------------------------------------------------------
(* Responses.  A request that fails is over; one that succeeds keeps its   *)
(* connection until the stream is closed.                                  *)
idle == ~state.running /\ ~state.scheduled

Outcomes == {"fulfilled", "rejected", "otherBuild", "mpa"}

spend == idle /\ state.left > 0

spent(s) == [s EXCEPT !.left = @ - 1]

opened(s, q) == [s EXCEPT !.request = (@ \ {q}) \cup {[q EXCEPT !.open = TRUE]}]
(* Mutant: the entry does not learn its new keypath.                       *)
rekeyRoute_mapOnly(s, e, href) ==
    LET keypath == s.route[e].keypath
        moved == [s EXCEPT !.routeMap[keypath] = 0, !.routeMap[<<href, None>>] = e,
                           !.faults = IF s.routeMap[<<href, None>>] = 0 THEN @
                                      ELSE @ \cup {"overwritten"}]
    IN  IF s.routeMap[keypath] = e THEN moved ELSE s

(* Mutant: nobody looks whether the entry is still in the cache.           *)
rekeyRoute_unchecked(s, e, href) ==
    [s EXCEPT !.routeMap[s.route[e].keypath] = 0, !.routeMap[<<href, None>>] = e,
              !.route[e].keypath = <<href, None>>]

(* A route that is not intercepted serves every nextUrl, so it is moved.   *)
rekeyRoute(s, e, href) ==
    LET keypath == s.route[e].keypath
        moved == [s EXCEPT !.routeMap[keypath] = 0, !.routeMap[<<href, None>>] = e,
                           !.route[e].keypath = <<href, None>>,
                           !.faults = IF s.routeMap[<<href, None>>] = 0 THEN @
                                      ELSE @ \cup {"overwritten"}]
    IN  IF s.routeMap[keypath] = e THEN moved ELSE s

fetchRouteOnCacheMiss(q, outcome) ==
    LET e == q.route
        href == state.task[q.task].href
        nextUrl == state.task[q.task].nextUrl
        status == IF outcome = "fulfilled" THEN outcome ELSE "rejected"
        couldBeIntercepted == IF status = "rejected" THEN state.route[e].couldBeIntercepted
                              ELSE href \in Interceptable
        end(settled) ==
            IF outcome = "rejected" THEN onPrefetchConnectionClosed(settled, q)
            ELSE opened(IF href \notin Interceptable /\ nextUrl # None THEN rekeyRoute(settled, e, href)
                        ELSE settled, q)
    IN  end(pingBlockedTasks(
               [state EXCEPT !.route[e] = [@ EXCEPT
                   !.status = status, !.stale = FALSE,
                   !.couldBeIntercepted = couldBeIntercepted]], e))

(* The callbacks of upsertSegmentOnCompletion, each of its own.            *)
upsertSegmentOnCompletion(s, e, keypath) ==
    IF keypath = NoUpsert THEN s
    ELSE [upsertSegmentEntry([s EXCEPT !.segment[e].upsert = NoUpsert], keypath, e)
             EXCEPT !.thrown = FALSE, !.got = 0]

fetchSegmentOnCacheMiss(q, outcome) ==
    LET path == CHOOSE p \in DOMAIN q.entries : TRUE
        e == q.entries[path]
        complete(filled) == upsertSegmentOnCompletion(
                               upsertSegmentOnCompletion(filled, e, filled.segment[e].upsert), e, q.upsert)
    IN  IF outcome = "fulfilled"
          THEN complete(fulfillSegmentCacheEntry(opened(state, q), e, state.route[q.route].stale,
                                                 path \in DynamicSegments, path \in HasLoading))
          ELSE onPrefetchConnectionClosed(rejectSegmentCacheEntry(state, e), q)
(* Mutant: what the server left out is left alone.                         *)
rejectSegmentEntriesIfStillPending_not(s, entries) == s

rejectIfStillPending(e, s) ==
    IF s.segment[e].status = "pending" THEN rejectSegmentCacheEntry(s, e) ELSE s

rejectSegmentEntriesIfStillPending(s, entries) == FoldSet(rejectIfStillPending, s, Range(entries))

(* The server renders what was requested and everything below it, but for  *)
(* a route without PPR nothing inside a loading boundary.                  *)
pathTo[path \in Segments] == IF Parent[path] = None THEN <<path>> ELSE Append(pathTo[Parent[path]], path)

rendered(entries, path, full) ==
    \E i \in DOMAIN pathTo[path] :
        /\ pathTo[path][i] \in DOMAIN entries
        /\ full \/ \A j \in i .. Len(pathTo[path]) - 1 : pathTo[path][j] \notin HasLoading

(* Data for segments that the request does not own is inserted, unless the *)
(* entry there is fuller.                                                  *)
writeSeedDataIntoCache(s, q, path) ==
    LET partial == ~s.task[q.task].full /\ path \in HasLoading
        fulfill(r, e) == fulfillSegmentCacheEntry(r, e, FALSE, partial, path \in HasLoading)
        insert(new) == upsertSegmentEntry(fulfill(new, new.got),
                                          getSegmentKeypathForTask(s, q.task, path), new.got)
        found(r) == IF r.thrown THEN r
                    ELSE IF r.segment[r.got].status = "empty" THEN fulfill(r, r.got)
                    ELSE insert(createDetachedSegmentCacheEntry(r, FALSE))
    IN  IF s.thrown THEN s
        ELSE IF path \in DOMAIN q.entries THEN fulfill(s, q.entries[path])
        ELSE found(readOrCreateSegmentCacheEntry(s, q.task, q.route, path))

writeIfRendered(s, q, path) ==
    IF rendered(q.entries, path, s.task[q.task].full) THEN writeSeedDataIntoCache(s, q, path) ELSE s

writeDynamicRenderResponseIntoCache(q) ==
    LET write(s, path) == writeIfRendered(s, q, path)
    IN  FoldLeft(write, state, Tree[state.task[q.task].href])

upsertIfFulfilled(e, s) ==
    IF s.segment[e].status = "fulfilled" THEN upsertSegmentOnCompletion(s, e, s.segment[e].upsert) ELSE s

fetchSegmentPrefetchesUsingDynamicRequest(q, outcome) ==
    LET settled(written) ==
            FoldSet(upsertIfFulfilled,
                    rejectSegmentEntriesIfStillPending([written EXCEPT !.thrown = FALSE], q.entries),
                    Range(q.entries))
        end(written) == IF written.thrown THEN onPrefetchConnectionClosed(settled(written), q)
                        ELSE opened(settled(written), q)
    IN  CASE outcome = "fulfilled" -> end(writeDynamicRenderResponseIntoCache(q))
          [] outcome = "rejected" ->
               onPrefetchConnectionClosed(rejectSegmentEntriesIfStillPending(state, q.entries), q)
          [] outcome = "otherBuild" -> rejectSegmentEntriesIfStillPending(opened(state, q), q.entries)
          [] outcome = "mpa" -> [opened(state, q) EXCEPT !.faults = @ \cup {"mpa"}]

respond(q, outcome) ==
    /\ idle /\ ~q.open
    /\ outcome # "fulfilled" => spend
    /\ outcome \in {"otherBuild", "mpa"} =>
          \/ q.kind = "dynamic"
          \/ q.kind = "route" /\ state.task[q.task].href \notin PPRRoutes
    /\ LET r == CASE q.kind = "route" -> fetchRouteOnCacheMiss(q, outcome)
                  [] q.kind = "segment" -> fetchSegmentOnCacheMiss(q, outcome)
                  [] q.kind = "dynamic" -> fetchSegmentPrefetchesUsingDynamicRequest(q, outcome)
       IN  becomes(IF outcome = "fulfilled" THEN r ELSE spent(r))

closeConnection(q) ==
    /\ idle /\ q.open
    /\ becomes(onPrefetchConnectionClosed(state, q))

(* createPrefetchResponseStream: when the stream breaks after its value    *)
(* was decoded, nobody resolves closed.                                    *)
breakConnection(q) ==
    /\ spend /\ q.open
    /\ becomes([spent(state) EXCEPT !.request = @ \ {q}, !.faults = @ \cup {"broken"}])

-----------------------------------------------------------------------------
(* Time and memory.                                                        *)
expireRoute(e) ==
    /\ spend /\ ~state.route[e].stale /\ state.route[e].status # "empty"
    /\ \/ state.routeMap[state.route[e].keypath] = e
       \/ \E q \in state.request : q.route = e
    /\ becomes([spent(state) EXCEPT !.route[e].stale = TRUE])

expireSegment(e) ==
    /\ spend /\ ~state.segment[e].stale
    /\ \/ e \in state.segmentLru
       \/ \E o \in state.segmentLru : state.segment[o].revalidating = e
    /\ becomes([spent(state) EXCEPT !.segment[e].stale = TRUE])

onRouteLRUEviction(e) ==
    /\ spend /\ e \in state.routeLru
    /\ becomes(deleteRouteFromCache(spent(state), e, state.route[e].keypath))

onSegmentLRUEviction(e) ==
    /\ spend /\ e \in state.segmentLru
    /\ becomes([cancelEntryListeners(spent(state), e) EXCEPT
                    !.segmentMap[state.segment[e].keypath] = 0, !.segmentLru = @ \ {e}])

-----------------------------------------------------------------------------
(* links.ts, prefetch.ts and navigation.ts                                 *)
linkPriority(s, l) == IF s.link[l].hovered THEN Intent ELSE Default

scheduleLink(s, l) ==
    [schedulePrefetchTask(s, LinkHref[l], s.router.nextUrl, s.router.tree, l \in FullLinks, linkPriority(s, l))
        EXCEPT !.link[l].task = Len(s.task) + 1, !.link[l].version = s.version]

rescheduleLinkPrefetch(s, l) ==
    IF l \notin Range(s.visible) THEN cancelPrefetchTask(s, s.link[l].task)
    ELSE IF s.link[l].task = 0 THEN scheduleLink(s, l)
    ELSE bumpPrefetchTask(s, s.link[l].task, linkPriority(s, l))

pingVisibleLink(s, l) ==
    LET t == s.link[l].task
    IN  IF /\ t # 0 /\ s.link[l].version = s.version
           /\ s.task[t].nextUrl = s.router.nextUrl /\ s.task[t].tree = s.router.tree
          THEN s ELSE scheduleLink(cancelPrefetchTask(s, t), l)

pingVisibleLinks(s) == FoldLeft(pingVisibleLink, s, s.visible)

event(s) == spend /\ becomes(spent(s))

onLinkVisibilityChanged(l) ==
    LET visible == IF l \in Range(state.visible) THEN RemoveFirst(state.visible, l) ELSE Append(state.visible, l)
    IN  event(rescheduleLinkPrefetch([state EXCEPT !.visible = visible], l))

onNavigationIntent(l) ==
    event(rescheduleLinkPrefetch([state EXCEPT !.link[l].hovered = TRUE], l))

(* The element of a link is removed; a new one for the same link begins    *)
(* with nothing.                                                           *)
unmountPrefetchableInstance(l) ==
    event([cancelPrefetchTask(state, state.link[l].task) EXCEPT
              !.visible = RemoveFirst(@, l), !.link[l] = [hovered |-> FALSE, task |-> 0, version |-> -1]])

(* router.prefetch: a task of no link.                                     *)
prefetch(href, full) ==
    event(schedulePrefetchTask(state, href, state.router.nextUrl, state.router.tree, full, Default))

routerStateChanges(nextUrl) ==
    event(pingVisibleLinks([state EXCEPT !.router = [nextUrl |-> nextUrl, tree |-> @.tree + 1]]))

revalidateEntireCache ==
    event(pingVisibleLinks([state EXCEPT !.version = @ + 1, !.router.tree = @ + 1,
                                         !.routeMap = [k \in DOMAIN @ |-> 0], !.routeLru = {},
                                         !.segmentMap = [k \in DOMAIN @ |-> 0], !.segmentLru = {}]))

(* A navigation reads the route and its segments, and waits for those that *)
(* are pending.                                                            *)
waitForSegment(path, s) ==
    LET wait(x) == IF ~x.thrown /\ x.got # 0 /\ x.segment[x.got].status = "pending"
                     THEN [x EXCEPT !.segment[x.got].waited = TRUE] ELSE x
    IN  IF s.thrown THEN s ELSE wait(readSegmentCacheEntry(s, path))

navigate(href) ==
    LET readSegments(r) == IF r.got # 0 /\ r.route[r.got].status = "fulfilled"
                             THEN FoldRight(waitForSegment, Tree[href], r) ELSE r
    IN  event(readSegments(readRouteCacheEntry(state, href, state.router.nextUrl)))

Next ==
    \/ startMicrotask
    \/ processTask
    \/ \E q \in state.request :
          \/ \E outcome \in Outcomes : respond(q, outcome)
          \/ closeConnection(q) \/ breakConnection(q)
    \/ \E e \in DOMAIN state.route : expireRoute(e) \/ onRouteLRUEviction(e)
    \/ \E e \in DOMAIN state.segment : expireSegment(e) \/ onSegmentLRUEviction(e)
    \/ \E l \in Links : onLinkVisibilityChanged(l) \/ onNavigationIntent(l) \/ unmountPrefetchableInstance(l)
    \/ \E u \in NextUrls : routerStateChanges(u)
    \/ revalidateEntireCache
    \/ \E h \in Hrefs : navigate(h) \/ \E full \in BOOLEAN : prefetch(h, full)

Spec == Init /\ [][Next]_vars

(* Microtasks run, and requests are answered and their connections closed  *)
(* (or broken): weak fairness, with what enables these steps written out.  *)
LiveSpec ==
    /\ Spec
    /\ []<>idle \/ []<><<~idle>>_vars
    /\ \/ []<>(~idle \/ state.request = {})
       \/ []<><<\E q \in state.request : q \notin state'.request>>_vars

-----------------------------------------------------------------------------
Statuses == {"empty", "pending", "fulfilled", "rejected"}

(* Tasks, entries and the queue are of their types; a canceled task is not *)
(* in the heap, and nobody waits for an entry that is settled.             *)
TypeOK ==
    /\ \A t \in DOMAIN state.task :
          /\ state.task[t].priority \in {Background, Default, Intent}
          /\ state.task[t].phase \in {RouteTreePhase, SegmentsPhase}
          /\ state.task[t].sortId < state.sortId
    /\ state.queue \subseteq {t \in DOMAIN state.task : ~state.task[t].canceled}
    /\ \A e \in DOMAIN state.route : state.route[e].status \in Statuses
    /\ \A e \in DOMAIN state.segment :
          /\ state.segment[e].status \in Statuses
          /\ state.segment[e].waited => state.segment[e].status = "pending"
          /\ ~state.segment[e].isPartial => state.segment[e].status \in {"fulfilled", "rejected"}
    /\ ~state.thrown /\ state.got = 0

(* A task that is neither canceled nor through is in the heap, or an       *)
(* unanswered request for its route will ping it.  heapPop breaks this     *)
(* when the task it was called for is no longer the first.                 *)
TasksAreKept ==
    "popped" \notin state.faults =>
      \A t \in DOMAIN state.task :
        \/ state.task[t].canceled \/ state.task[t].ended
        \/ t \in state.queue
        \/ \E q \in state.request : q.kind = "route" /\ ~q.open /\ t \in state.route[q.route].blocked

(* Segments that are pinged without a look at the bandwidth: all children  *)
(* of a segment but the first.                                             *)
ParallelSlots(h) == {i \in DOMAIN Tree[h] : i > 1 /\ ~entersChildren(Tree[h], i)}

WithinLimit(n) ==
    \/ n <= MAX_CONCURRENT_PREFETCH_REQUESTS
    \/ \E h \in PPRRoutes \cap Hrefs :
          n <= MAX_CONCURRENT_PREFETCH_REQUESTS + Cardinality(ParallelSlots(h))

(* inProgressRequests counts the connections there are, and they exceed    *)
(* the limit at most by the parallel slots of one route with PPR; a stream *)
(* that breaks after its value was read is counted for ever.               *)
BandwidthIsAccounted ==
    "broken" \notin state.faults =>
        /\ state.inProgress = Cardinality(state.request)
        /\ WithinLimit(state.inProgress)

(* What is pending in the cache has a request that will settle it, so that *)
(* pending can mean "do not request this again": this needs every way in   *)
(* which a response can turn out to settle all the entries it was for.     *)
(* The response that asks for a full page load does not.                   *)
PendingIsFetched ==
    state.faults \cap {"mpa", "recursion"} = {} =>
      /\ \A e \in state.routeLru : state.route[e].status = "pending" =>
            \E q \in state.request : q.kind = "route" /\ q.route = e /\ ~q.open
      /\ \A e \in DOMAIN state.segment : state.segment[e].status = "pending" =>
            \E q \in state.request : e \in Range(q.entries) /\ ~q.open

(* What is in a map is in its LRU, and knows the keypath under which an    *)
(* eviction will delete it, through upserts and re-keyed routes.           *)
MappedIsEvictable ==
    /\ \A k \in DOMAIN state.routeMap : LET e == state.routeMap[k] IN
          e # 0 => e \in state.routeLru /\ state.route[e].keypath = k
    /\ \A k \in DOMAIN state.segmentMap : LET e == state.segmentMap[k] IN
          e # 0 => e \in state.segmentLru /\ state.segment[e].keypath = k

(* A response to a route request from before an invalidation does not put  *)
(* its entry back into the cache.                                          *)
OldAnswersStayOut ==
    \A k \in DOMAIN state.routeMap : LET e == state.routeMap[k] IN
        e # 0 => state.route[e].version = state.version

(* A complete segment that is not stale is never replaced by a partial     *)
(* one, whatever the order in which the prefetches of different strategies *)
(* are answered.                                                           *)
FullStays ==
    [][\A k \in DOMAIN state.segmentMap :
         LET e == state.segmentMap[k]  f == state'.segmentMap[k]
         IN  e # 0 /\ f \notin {0, e} /\ ~state.segment[e].stale
               => state.segment[e].isPartial \/ ~state'.segment[f].isPartial]_vars

(* Every prefetch comes to its end or is canceled, and every navigation    *)
(* that waits for a segment gets an answer, once the user is done.         *)
PrefetchEnds ==
    /\ <>[](\/ state.faults \cap {"popped", "broken", "recursion"} # {}
            \/ \A t \in DOMAIN state.task : state.task[t].ended \/ state.task[t].canceled)
    /\ <>[](\/ "mpa" \in state.faults
            \/ \A e \in DOMAIN state.segment : ~state.segment[e].waited)
=============================================================================
