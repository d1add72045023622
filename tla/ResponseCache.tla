------------------------------ MODULE ResponseCache ------------------------------
(***************************************************************************)
(* The cache of the responses of one page in the Next.js server:           *)
(* server/response-cache/index.ts on a Batcher (lib/batcher.ts), the       *)
(* incremental cache (server/lib/incremental-cache/index.ts) and its file  *)
(* system handler (file-system-cache.ts) with an entry in memory and the   *)
(* files of the page on disk, and the manifest of revalidated tags.        *)
(*                                                                         *)
(* A request runs a flow, the function it gives to the batcher, or joins   *)
(* the one that is pending for its key; on-demand revalidations have a key *)
(* of their own.  A flow is named after the request that began it, and has *)
(* a step for every stretch of code between two awaits.  The content of a  *)
(* page is the version of the data it was rendered from.                   *)
(*                                                                         *)
(* The page is one of the app router, with a tag, or one of the pages      *)
(* router, which has none and whose result may be a 404 or a redirect: a   *)
(* `bare` one, which is kept in memory only.  It is in the prerender       *)
(* manifest and revalidates after a time, isrFlushToDisk is on and there   *)
(* is a memory cache, as in the default configuration.                     *)
(*                                                                         *)
(* Ghosts: a flow that was under way when the page's tag was revalidated   *)
(* is `late`, and so is what it stores; `promised` holds the versions that *)
(* were current at the last revalidation of the tag, were stored on disk,  *)
(* and were given to an on-demand revalidation, `least` what was promised  *)
(* when a request came; and `faults` what went wrong that the properties   *)
(* make an exception for.                                                  *)
(***************************************************************************)
EXTENDS Integers, FiniteSets

CONSTANTS
    MaxRequests,      \* bound: requests of the page
    None,
    Revalidate,       \* how long an entry is fresh
    MaxTime,          \* bound: of the clock
    MaxSource,        \* bound: versions of the data
    MaxEvents,        \* bound: revalidations, evictions, restarts and errors
    OverlapCost       \* bound: an overlap counts for so many of them

ASSUME RevalidateAssumption == Revalidate \in Nat
ASSUME BoundsAssumption == MaxRequests \in Nat /\ MaxTime \in Nat /\ MaxSource \in Nat /\ MaxEvents \in Nat
                            /\ OverlapCost \in Nat

(* Numbered as they come.                                                  *)
Requests == 1..MaxRequests

(* A file that was truncated and not yet written has version -1.           *)
Version == [version : Nat \cup {-1}, late : BOOLEAN]
Partial == [version |-> -1, late |-> FALSE]
Page    == [bare : BOOLEAN, tagged : BOOLEAN, html : Version, rsc : Version]
Entry   == [value : Page, lastModified : Nat]

ASSUME NoneAssumption == None \notin Requests \cup Version \cup Page \cup Entry

VARIABLES
    now, source,
    isAppPath,        \* whether it is a page of the app router
    tag,              \* tagsManifest: when the page's tag was revalidated, or -1
    memory, disk,     \* the entry in memory, or None; the files of the page
    stray,            \* writes that go on after their flow has ended
    revalidate,       \* cacheControls: how long an entry is fresh
    pending,          \* Batcher.pending: the flow of each key, or None
    kind, joined,     \* of each request: its kind, and the flow it waits for
    promise, answer,  \* of each flow: what its promise came to, and the page
    pc,
    data, cached,     \* the entry that it is reading, and the one it has read
    value,            \* the page that it has rendered
    files,            \* how far it is with the writing of each file
    late, least, promised, faults, left

world    == <<now, source, isAppPath>>
flowVars == <<pc, data, cached, value, files>>
ghosts   == <<late, least, promised, faults>>
vars == <<world, tag, memory, disk, stray, revalidate, pending, kind, joined, promise, answer, flowVars, ghosts, left>>

Kinds == {"normal", "prefetch", "onDemand"}
CacheKeys == {"0", "1"}
Files == {"html", "rsc"}
Outcomes == {"none", "page", "null", "rejected", "lost"}

allWritten == [file \in Files |-> "written"]

(* The page was prerendered by the build.                                  *)
Init ==
    /\ now = 0 /\ source = 0 /\ tag = -1 /\ isAppPath \in BOOLEAN
    /\ memory = None /\ stray = {} /\ revalidate = Revalidate
    /\ disk = [html |-> [version |-> 0, late |-> FALSE], rsc |-> [version |-> 0, late |-> FALSE], mtime |-> 0]
    /\ pending = [key \in CacheKeys |-> None]
    /\ kind = [r \in Requests |-> "none"] /\ joined = [r \in Requests |-> None]
    /\ promise = [r \in Requests |-> "none"] /\ answer = [r \in Requests |-> None]
    /\ pc = [r \in Requests |-> "idle"]
    /\ data = [r \in Requests |-> None] /\ cached = [r \in Requests |-> None]
    /\ value = [r \in Requests |-> None] /\ files = [r \in Requests |-> allWritten]
    /\ late = {}
    /\ promised = [tag |-> -1, stored |-> 0, onDemand |-> 0]
    /\ least = [r \in Requests |-> promised]
    /\ faults = {} /\ left = MaxEvents

active(f) == pc[f] \notin {"idle", "done"}
isOnDemandRevalidate(r) == kind[r] = "onDemand"
cacheKeyFn(k) == IF k = "onDemand" THEN "1" ELSE "0"
spend == left > 0 /\ left' = left - 1

-----------------------------------------------------------------------------
(* batcher.ts                                                              *)
settle(f, result, p) ==
    IF promise[f] = "none"
      THEN promise' = [promise EXCEPT ![f] = result] /\ answer' = [answer EXCEPT ![f] = p]
      ELSE UNCHANGED <<promise, answer>>
resolve(f, p) == settle(f, "page", p)

done(f) ==
    /\ pc' = [pc EXCEPT ![f] = "done"]
    /\ data' = [data EXCEPT ![f] = None]
    /\ cached' = [cached EXCEPT ![f] = None]
    /\ value' = [value EXCEPT ![f] = None]
    /\ files' = [files EXCEPT ![f] = allWritten]
    /\ pending' = [pending EXCEPT ![cacheKeyFn(kind[f])] = None]

(* A flow that begins beside another one of the page is what the ghost     *)
(* calls an overlap.                                                       *)
begin(r, k) ==
    /\ kind' = [kind EXCEPT ![r] = k]
    /\ joined' = [joined EXCEPT ![r] = r]
    /\ pending' = [pending EXCEPT ![cacheKeyFn(k)] = r]
    /\ pc' = [pc EXCEPT ![r] = "scheduled"]
    /\ \/ (\A key \in CacheKeys \ {cacheKeyFn(k)} : pending[key] = None) /\ UNCHANGED <<faults, left>>
       \/ (\E key \in CacheKeys \ {cacheKeyFn(k)} : pending[key] # None) 
          /\ left >= OverlapCost /\ left' = left - OverlapCost
          /\ faults' = faults \cup {"overlap"}

join(r, f) ==
    /\ kind' = [kind EXCEPT ![r] = "joined"]
    /\ joined' = [joined EXCEPT ![r] = f]
    /\ UNCHANGED <<pending, pc, faults, left>>

(* Mutant: every request runs a flow.                                      *)
get_unbatched(r, k) ==
    /\ \A q \in Requests : kind[q] = "none" <=> q >= r
    /\ least' = [least EXCEPT ![r] = promised]
    /\ begin(r, k)
    /\ UNCHANGED <<world, tag, memory, disk, stray, revalidate, promise, answer, data, cached, value, files, late,
                   promised>>

get(r, k) ==
    /\ \A q \in Requests : kind[q] = "none" <=> q >= r
    /\ least' = [least EXCEPT ![r] = promised]
    /\ \/ pending[cacheKeyFn(k)] # None /\ join(r, pending[cacheKeyFn(k)])
       \/ pending[cacheKeyFn(k)] = None /\ begin(r, k)
    /\ UNCHANGED <<world, tag, memory, disk, stray, revalidate, promise, answer, data, cached, value, files, late,
                   promised>>

-----------------------------------------------------------------------------
(* What a flow does with the entry that the incremental cache has found.   *)
(* One whose tag was revalidated is as good as none.                       *)
(* Mutant: an entry of the same millisecond is fresh.                      *)
isTagStale_after(entry) == entry.value.tagged /\ tag > entry.lastModified

isTagStale(entry) == entry.value.tagged /\ tag >= entry.lastModified
isStale(entry) == entry.lastModified + revalidate < now

received(f, entry) ==
    LET usable == ~isTagStale(entry)
    IN  IF usable /\ ~isOnDemandRevalidate(f)
          THEN /\ resolve(f, entry.value)
               /\ IF isStale(entry) /\ kind[f] # "prefetch"
                    THEN /\ pc' = [pc EXCEPT ![f] = "generate"]
                         /\ cached' = [cached EXCEPT ![f] = entry]
                         /\ data' = [data EXCEPT ![f] = None]
                         /\ UNCHANGED <<pending, value, files>>
                    ELSE done(f)
          ELSE /\ pc' = [pc EXCEPT ![f] = "generate"]
               /\ cached' = [cached EXCEPT ![f] = IF usable THEN entry ELSE None]
               /\ data' = [data EXCEPT ![f] = None]
               /\ UNCHANGED <<pending, promise, answer, value, files>>

(* LRUCache.set refuses a page larger than the cache, and then leaves what *)
(* it has of it; how large a page is is left open.  The ghost calls it     *)
(* kept.                                                                   *)
remember(entry) ==
    \/ memory' = entry /\ UNCHANGED faults
    \/ /\ ~entry.value.bare
       /\ UNCHANGED memory
       /\ faults' = IF memory = None THEN faults ELSE faults \cup {"kept"}

(* The next tick: the entry in memory, or the first file.                  *)
readMemory(f) ==
    /\ pc[f] = "scheduled"
    /\ memory # None
    /\ received(f, memory)
    /\ UNCHANGED <<world, tag, memory, disk, stray, revalidate, kind, joined, ghosts, left>>

readHtml(f) ==
    /\ pc[f] = "scheduled"
    /\ memory = None
    /\ pc' = [pc EXCEPT ![f] = "stat"]
    /\ data' = [data EXCEPT ![f] = [value |-> [bare |-> FALSE, tagged |-> FALSE, html |-> disk.html, rsc |-> Partial],
                                    lastModified |-> 0]]
    /\ UNCHANGED <<world, tag, memory, disk, stray, revalidate, pending, kind, joined, promise, answer, cached, value,
                   files, ghosts, left>>

stat(f) ==
    /\ pc[f] = "stat"
    /\ pc' = [pc EXCEPT ![f] = IF isAppPath THEN "meta" ELSE "rsc"]
    /\ data' = [data EXCEPT ![f].lastModified = disk.mtime]
    /\ UNCHANGED <<world, tag, memory, disk, stray, revalidate, pending, kind, joined, promise, answer, cached, value,
                   files, ghosts, left>>

(* The meta file, with the tags, is the same whenever it is written.  One  *)
(* that cannot be read or parsed, for it was not written to its end, too,  *)
(* is passed over: the page then has no tags.                              *)
readMeta(f) ==
    /\ pc[f] = "meta"
    /\ pc' = [pc EXCEPT ![f] = "rsc"]
    /\ \/ data' = [data EXCEPT ![f].value.tagged = TRUE] /\ UNCHANGED <<faults, left>>
       \/ spend /\ faults' = faults \cup {"untagged"} /\ UNCHANGED data
    /\ UNCHANGED <<world, tag, memory, disk, stray, revalidate, pending, kind, joined, promise, answer, cached, value,
                   files, late, least, promised>>

(* The last file, which the pages router parses; then into memory, over    *)
(* whatever is there by now.                                               *)
readRsc(f) ==
    LET entry == [data[f] EXCEPT !.value.rsc = disk.rsc]
    IN  /\ pc[f] = "rsc"
        /\ isAppPath \/ disk.rsc # Partial
        /\ remember(entry)
        /\ received(f, entry)
        /\ UNCHANGED <<world, tag, disk, stray, revalidate, kind, joined, late, least, promised, left>>

(* Any other error while reading is as good as no entry.                   *)
readFails(f) ==
    /\ pc[f] \in {"stat", "rsc"} \/ (pc[f] = "scheduled" /\ memory = None)
    /\ IF pc[f] = "rsc" /\ ~isAppPath /\ disk.rsc = Partial THEN UNCHANGED left ELSE spend
    /\ pc' = [pc EXCEPT ![f] = "generate"]
    /\ data' = [data EXCEPT ![f] = None]
    /\ UNCHANGED <<world, tag, memory, disk, stray, revalidate, pending, kind, joined, promise, answer, cached,
                   value, files, ghosts>>

-----------------------------------------------------------------------------
(* The generator reads its data, and answers later.                        *)
rendered(bare) ==
    LET v == [version |-> source, late |-> FALSE]
    IN  [bare |-> bare, tagged |-> isAppPath, html |-> v, rsc |-> v]

responseGenerator(f) ==
    /\ pc[f] = "generate"
    /\ \E bare \in {FALSE, ~isAppPath} : value' = [value EXCEPT ![f] = rendered(bare)]
    /\ pc' = [pc EXCEPT ![f] = "generating"]
    /\ UNCHANGED <<world, tag, memory, disk, stray, revalidate, pending, kind, joined, promise, answer, data, cached,
                   files, ghosts, left>>

larger(a, b) == IF a > b THEN a ELSE b

stamped(f, p) == IF f \in late THEN [p EXCEPT !.html.late = TRUE, !.rsc.late = TRUE] ELSE p

(* Mutant: the page is not flushed to disk.                                *)
set_memoryOnly(f, p) ==
    /\ remember([value |-> stamped(f, p), lastModified |-> now])
    /\ UNCHANGED files
    /\ pc' = [pc EXCEPT ![f] = "writing"]

(* Mutant: the page is written as a fallback is, without the data file.    *)
set_fallback(f, p) ==
    /\ remember([value |-> stamped(f, p), lastModified |-> now])
    /\ files' = [files EXCEPT ![f] =
                    [file \in Files |-> IF file = "html" /\ ~p.bare THEN "todo" ELSE "written"]]
    /\ pc' = [pc EXCEPT ![f] = "writing"]

(* IncrementalCache.set and FileSystemCache.set: memory at once, then the  *)
(* files of a page; a 404 or a redirect has none.                          *)
set(f, p) ==
    /\ remember([value |-> stamped(f, p), lastModified |-> now])
    /\ files' = [files EXCEPT ![f] =
                    [file \in Files |-> IF p.bare THEN "written" ELSE "todo"]]
    /\ pc' = [pc EXCEPT ![f] = "writing"]

generated(f) ==
    /\ pc[f] = "generating"
    /\ set(f, value[f])
    /\ revalidate' = Revalidate
    /\ cached' = [cached EXCEPT ![f] = None]
    /\ IF isOnDemandRevalidate(f) THEN UNCHANGED <<promise, answer>> ELSE resolve(f, stamped(f, value[f]))
    /\ promised' = IF value[f].bare THEN promised
                   ELSE [promised EXCEPT !.stored = larger(@, value[f].html.version)]
    /\ UNCHANGED <<world, tag, disk, stray, pending, kind, joined, data, value, late, least, left>>

(* Without a cache control the entry is not stored; a generator may also   *)
(* have nothing to answer.                                                 *)
generatedUncacheable(f) ==
    /\ pc[f] = "generating"
    /\ resolve(f, stamped(f, value[f]))
    /\ done(f)
    /\ UNCHANGED <<world, tag, memory, disk, stray, revalidate, kind, joined, ghosts, left>>

(* Mutant: nobody is told that there is nothing.                           *)
generatedNothing_silent(f) ==
    /\ pc[f] = "generating"
    /\ done(f)
    /\ UNCHANGED <<world, tag, memory, disk, stray, revalidate, kind, joined, promise, answer, ghosts, left>>

generatedNothing(f) ==
    /\ pc[f] = "generating"
    /\ settle(f, "null", None)
    /\ done(f)
    /\ UNCHANGED <<world, tag, memory, disk, stray, revalidate, kind, joined, ghosts, left>>

(* An error sets the entry that was read again, as if it were new, to be   *)
(* tried again after 3 to 30 seconds.                                      *)
retryAfter(r) == IF r < 3 THEN 3 ELSE IF r > 30 THEN 30 ELSE r

failed(f) ==
    /\ spend
    /\ pc[f] = "generating"
    /\ IF cached[f] # None
         THEN /\ set(f, cached[f].value)
              /\ revalidate' = retryAfter(revalidate)
              /\ UNCHANGED <<promise, answer, pending, data, cached, value>>
         ELSE /\ settle(f, "rejected", None)
              /\ done(f)
              /\ UNCHANGED <<memory, revalidate, faults>>
    /\ UNCHANGED <<world, tag, disk, stray, kind, joined, late, least, promised>>

(* What is written, and what comes of it once all is: the flow that failed *)
(* is the one that still has the entry it had read.                        *)
content(f) == IF cached[f] = None THEN value[f] ELSE cached[f].value
written(f) == IF cached[f] = None THEN resolve(f, stamped(f, value[f])) ELSE settle(f, "rejected", None)

(* fs.promises.writeFile empties the file and then writes it.  The time of *)
(* the entry is that of the html file.                                     *)
mtimeAt(file) == IF file = "html" THEN now ELSE disk.mtime
emptied(file) == [disk EXCEPT ![file] = Partial, !.mtime = mtimeAt(file)]
fileWritten(file, p) == [disk EXCEPT ![file] = p[file], !.mtime = mtimeAt(file)]

openFile(f, file) ==
    /\ pc[f] = "writing" /\ files[f][file] = "todo"
    /\ disk' = emptied(file)
    /\ files' = [files EXCEPT ![f][file] = "opened"]
    /\ UNCHANGED <<world, tag, memory, stray, revalidate, pending, kind, joined, promise, answer, pc, data, cached,
                   value, ghosts, left>>

write(f, file) ==
    /\ pc[f] = "writing" /\ files[f][file] = "opened"
    /\ disk' = fileWritten(file, stamped(f, content(f)))
    /\ files' = [files EXCEPT ![f][file] = "written"]
    /\ UNCHANGED <<world, tag, memory, stray, revalidate, pending, kind, joined, promise, answer, pc, data, cached,
                   value, ghosts, left>>

(* All files are written.                                                  *)
stored(f) ==
    /\ pc[f] = "writing" /\ files[f] = allWritten
    /\ written(f) /\ done(f)
    /\ promised' = IF isOnDemandRevalidate(f) /\ cached[f] = None /\ ~value[f].bare
                     THEN [promised EXCEPT !.onDemand = larger(@, value[f].html.version)] ELSE promised
    /\ UNCHANGED <<world, tag, memory, disk, stray, revalidate, kind, joined, late, least, faults, left>>

(* An error while writing is only logged, and does not wait for the writes *)
(* of the other files, which may fail as well.                             *)
writeFails(f, file) ==
    /\ spend
    /\ pc[f] = "writing" /\ files[f][file] # "written"
    /\ stray' = stray \cup {[file |-> g, page |-> stamped(f, content(f)), opened |-> files[f][g] = "opened"] :
                                g \in {g \in Files \ {file} : files[f][g] # "written"}}
    /\ written(f) /\ done(f)
    /\ faults' = faults \cup {"writeError"}
    /\ UNCHANGED <<world, tag, memory, disk, revalidate, kind, joined, late, least, promised>>

strayWrite(w) ==
    /\ \/ /\ ~w.opened
          /\ disk' = emptied(w.file)
          /\ stray' = (stray \ {w}) \cup {[w EXCEPT !.opened = TRUE]}
       \/ /\ w.opened
          /\ disk' = fileWritten(w.file, w.page)
          /\ stray' = stray \ {w}
    /\ UNCHANGED <<world, tag, memory, revalidate, pending, kind, joined, promise, answer, flowVars, ghosts, left>>

strayFails(w) ==
    /\ spend
    /\ stray' = stray \ {w}
    /\ UNCHANGED <<world, tag, memory, disk, revalidate, pending, kind, joined, promise, answer, flowVars, ghosts>>

-----------------------------------------------------------------------------
(* The environment.                                                        *)
(* Every revalidation stamps the tag: FileSystemCache.revalidateTag only a *)
(* tag that has no stamp (file-system-cache.ts:103-107), but the default   *)
(* cache handlers, which IncrementalCache.revalidateTag calls when they    *)
(* are installed (index.ts:269-275), any (cache-handlers/default.ts:119).  *)
revalidateTag ==
    /\ spend
    /\ isAppPath
    /\ tag' = now
    /\ promised' = [promised EXCEPT !.tag = source]
    /\ late' = late \cup {f \in Requests : active(f)}
    /\ UNCHANGED <<world, memory, disk, stray, revalidate, pending, kind, joined, promise, answer, flowVars, least,
                   faults>>

(* The memory cache is an LRU that other pages fill, too.                  *)
evict ==
    /\ spend
    /\ memory # None
    /\ memory' = None
    /\ UNCHANGED <<world, tag, disk, stray, revalidate, pending, kind, joined, promise, answer, flowVars, ghosts>>

(* Memory, the tags and the flows are lost, the files stay.                *)
restart ==
    /\ spend
    /\ memory' = None /\ tag' = -1 /\ stray' = {} /\ revalidate' = Revalidate
    /\ pending' = [key \in CacheKeys |-> None]
    /\ promise' = [f \in Requests |-> IF active(f) /\ promise[f] = "none" THEN "lost" ELSE promise[f]]
    /\ pc' = [f \in Requests |-> IF active(f) THEN "done" ELSE pc[f]]
    /\ data' = [f \in Requests |-> None] /\ cached' = [f \in Requests |-> None]
    /\ value' = [f \in Requests |-> None] /\ files' = [f \in Requests |-> allWritten]
    /\ faults' = faults \cup (IF tag = -1 THEN {} ELSE {"forgotten"})
                        \cup (IF \A f \in Requests : files[f] = allWritten THEN {} ELSE {"crash"})
                        \cup (IF \E f \in Requests, file \in Files : files[f][file] = "opened" THEN {"cut"} ELSE {})
    /\ UNCHANGED <<world, disk, kind, joined, answer, late, least, promised>>

tick ==
    /\ now < MaxTime
    /\ now' = now + 1
    /\ UNCHANGED <<source, isAppPath, tag, memory, disk, stray, revalidate, pending, kind, joined, promise, answer,
                   flowVars, ghosts, left>>

sourceChanges ==
    /\ source < MaxSource
    /\ source' = source + 1
    /\ UNCHANGED <<now, isAppPath, tag, memory, disk, stray, revalidate, pending, kind, joined, promise, answer,
                   flowVars, ghosts, left>>

flowStep(f) ==
    \/ readMemory(f) \/ readHtml(f) \/ stat(f) \/ readMeta(f) \/ readRsc(f) \/ readFails(f)
    \/ responseGenerator(f)
    \/ generated(f) \/ generatedUncacheable(f) \/ generatedNothing(f) \/ failed(f)
    \/ \E file \in Files : openFile(f, file) \/ write(f, file) \/ writeFails(f, file)
    \/ stored(f)

Next ==
    \/ \E r \in Requests, k \in Kinds : get(r, k)
    \/ \E f \in Requests : flowStep(f)
    \/ \E w \in stray : strayWrite(w) \/ strayFails(w)
    \/ revalidateTag \/ evict \/ restart \/ tick \/ sourceChanges

Spec == Init /\ [][Next]_vars

(* Nothing that a flow waits for takes for ever.                           *)
LiveSpec == Spec /\ \A f \in Requests : WF_vars(flowStep(f))
-----------------------------------------------------------------------------
Promises == [tag : Nat \cup {-1}, stored : Nat, onDemand : Nat]
Faults == {"overlap", "writeError", "forgotten", "crash", "cut", "untagged", "kept"}

TypeOK ==
    /\ now \in Nat /\ source \in Nat /\ tag \in Nat \cup {-1} /\ left \in Nat /\ isAppPath \in BOOLEAN
    /\ memory \in Entry \cup {None}
    /\ stray \subseteq [file : Files, page : Page, opened : BOOLEAN]
    /\ disk \in [html : Version, rsc : Version, mtime : Nat]
    /\ revalidate \in Nat
    /\ pending \in [CacheKeys -> Requests \cup {None}]
    /\ kind \in [Requests -> Kinds \cup {"none", "joined"}]
    /\ joined \in [Requests -> Requests \cup {None}]
    /\ promise \in [Requests -> Outcomes]
    /\ answer \in [Requests -> Page \cup {None}]
    /\ pc \in [Requests -> {"idle", "scheduled", "stat", "meta", "rsc", "generate", "generating", "writing", "done"}]
    /\ data \in [Requests -> Entry \cup {None}]
    /\ cached \in [Requests -> Entry \cup {None}]
    /\ value \in [Requests -> Page \cup {None}]
    /\ files \in [Requests -> [Files -> {"todo", "opened", "written"}]]
    /\ late \subseteq Requests
    /\ promised \in Promises
    /\ least \in [Requests -> Promises]
    /\ faults \subseteq Faults

isPage(f) == promise[f] = "page"

(* The html and the data that are served together, and those that are kept *)
(* in memory, are of the same rendering: a page is not read while it is    *)
(* written, as long as the batcher has one flow of the page, no write      *)
(* fails, and no restart comes between the writes of its files.            *)
NotTorn ==
    faults \cap {"overlap", "writeError", "crash"} = {} =>
        /\ memory # None => memory.value.html.version = memory.value.rsc.version
        /\ \A f \in Requests : isPage(f) => answer[f].html.version = answer[f].rsc.version

(* A request that comes after the tag was revalidated gets data at least   *)
(* as new as it was then, unless what it gets was under way at that time,  *)
(* or what says so is lost: the stamp of the tag by a restart, the tags of *)
(* the page when its meta file cannot be read.                             *)
FreshAfterRevalidation ==
    faults \cap {"overlap", "writeError", "forgotten", "untagged"} = {} =>
        \A r \in Requests : joined[r] # None =>
            LET f == joined[r]
            IN  isPage(f) /\ ~(f \in late \/ answer[f].html.late \/ answer[f].rsc.late) =>
                  least[r].tag <= answer[f].html.version /\ least[r].tag <= answer[f].rsc.version

(* A flow does not answer with less than was stored before it began, once  *)
(* the files of a page were set: a 404 or a redirect is not on disk, and   *)
(* gives way to an older page when it is evicted; and a page that memory   *)
(* had no room for leaves the older one there.                             *)
ReadsDoNotGoBack ==
    faults \cap {"overlap", "writeError", "crash", "kept"} = {} =>
        \A f \in Requests : isPage(f) => least[f].stored <= answer[f].html.version

(* The page that an on-demand revalidation was given is not lost, by an    *)
(* eviction or by a restart between the writes of the files of a later     *)
(* one, but one that cuts the write of a file short.                       *)
OnDemandIsDurable ==
    faults \cap {"overlap", "writeError", "cut", "kept"} = {} =>
        \A f \in Requests : isPage(f) =>
            least[f].onDemand <= answer[f].html.version /\ least[f].onDemand <= answer[f].rsc.version

(* Every request is answered, be it by an error.                           *)
EveryAnswered ==
    <>[](\A r \in Requests : joined[r] # None => promise[joined[r]] # "none")
=============================================================================
