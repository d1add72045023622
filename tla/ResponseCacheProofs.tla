---------------------------- MODULE ResponseCacheProofs ----------------------------
(***************************************************************************)
(* Theorems about ResponseCache, for any number of requests, versions,     *)
(* revalidations, evictions, restarts and errors, and any Revalidate.      *)
(*                                                                         *)
(* The argument: a flow that is under way is the pending one of its key    *)
(* (FlowsArePending), so without an overlap there is one flow; then what   *)
(* it has read and written of the files is what is still there (OnDisk).   *)
(* Each of the four properties then is about a set of pages that memory    *)
(* and the flows never leave (Holds, FlowHolds), the files but while they  *)
(* are written, and the answers:                                           *)
(*  - NotTorn: pages of one rendering (WholePages);                        *)
(*  - OnDemandIsDurable: pages from the version on that was given to an    *)
(*    on-demand revalidation (PagesFrom);                                  *)
(*  - ReadsDoNotGoBack: pages whose html is from the stored version on     *)
(*    (HtmlFrom), but the file only once the writing flow has written it;  *)
(*  - FreshAfterRevalidation: a revalidation marks every flow under way as *)
(*    late and makes everything stored unusable, so what is usable and not *)
(*    late is from the promised version on (PagesSince).                   *)
(***************************************************************************)
EXTENDS ResponseCache, TLAPS

isReading(f) == pc[f] \in {"stat", "meta", "rsc"}

(* What a flow has is there when it needs it.                              *)
LocalsOK ==
    \A f \in Requests :
        /\ isReading(f) => data[f] # None
        /\ pc[f] = "generating" => value[f] # None
        /\ pc[f] = "writing" => (cached[f] = None => value[f] # None)

(* A flow is the pending one of its key, and was begun by its request.     *)
FlowsArePending ==
    /\ \A f \in Requests : active(f) => /\ kind[f] \in Kinds /\ joined[f] = f
                                        /\ pending[cacheKeyFn(kind[f])] = f
    /\ \A k \in CacheKeys : pending[k] # None =>
          active(pending[k]) /\ cacheKeyFn(kind[pending[k]]) = k

Typed == TypeOK /\ LocalsOK

-----------------------------------------------------------------------------
LEMMA VersionFacts ==
    /\ Partial \in Version /\ Partial.version = -1
    /\ \A n \in Nat : [version |-> n, late |-> FALSE] \in Version
    /\ \A v \in Version : v.version \in Int /\ v.late \in BOOLEAN
BY DEF Partial, Version

LEMMA PageFacts ==
    ASSUME NEW p \in Page
    PROVE  p.html \in Version /\ p.rsc \in Version /\ p.bare \in BOOLEAN /\ p.tagged \in BOOLEAN
BY DEF Page

LEMMA EntryFacts ==
    ASSUME NEW e \in Entry
    PROVE  e.value \in Page /\ e.lastModified \in Nat /\ e.value.html \in Version /\ e.value.rsc \in Version
BY PageFacts DEF Entry

LEMMA NoneFacts ==
    \A x \in Requests \cup Version \cup Page \cup Entry : x # None
BY NoneAssumption

LEMMA TypedInit == Init => Typed
<1> SUFFICES ASSUME Init PROVE Typed
  OBVIOUS
<1>1. [version |-> 0, late |-> FALSE] \in Version
  BY VersionFacts
<1>2. allWritten \in [Files -> {"todo", "opened", "written"}]
  BY DEF allWritten
<1>3. TypeOK
  BY <1>1, <1>2, BoundsAssumption, RevalidateAssumption, NoneAssumption
     DEF Init, TypeOK, CacheKeys, Kinds, Outcomes, Requests, Promises, Faults
<1> QED  BY <1>3 DEF Init, Typed, LocalsOK, isReading

(* A page stays one when it is marked as late.                             *)
LEMMA StampedTyped ==
    ASSUME NEW f, NEW p \in Page
    PROVE  /\ stamped(f, p) \in Page
           /\ stamped(f, p).html.version = p.html.version /\ stamped(f, p).rsc.version = p.rsc.version
           /\ stamped(f, p).bare = p.bare /\ stamped(f, p).tagged = p.tagged
           /\ f \in late => stamped(f, p).html.late /\ stamped(f, p).rsc.late
           /\ f \notin late => stamped(f, p) = p
<1>1. CASE f \in late
  <2>1. PICK b \in BOOLEAN, t \in BOOLEAN, h \in Version, r \in Version :
            p = [bare |-> b, tagged |-> t, html |-> h, rsc |-> r]
    BY DEF Page
  <2>2. stamped(f, p) = [bare |-> b, tagged |-> t, html |-> [h EXCEPT !.late = TRUE], rsc |-> [r EXCEPT !.late = TRUE]]
    BY <1>1, <2>1 DEF stamped
  <2>3. [h EXCEPT !.late = TRUE] \in Version /\ [h EXCEPT !.late = TRUE].late
        /\ [h EXCEPT !.late = TRUE].version = h.version
    BY DEF Version
  <2>4. [r EXCEPT !.late = TRUE] \in Version /\ [r EXCEPT !.late = TRUE].late
        /\ [r EXCEPT !.late = TRUE].version = r.version
    BY DEF Version
  <2>5. stamped(f, p) \in Page
    BY <2>2, <2>3, <2>4 DEF Page
  <2>6. /\ stamped(f, p).html = [h EXCEPT !.late = TRUE] /\ stamped(f, p).rsc = [r EXCEPT !.late = TRUE]
        /\ stamped(f, p).bare = b /\ stamped(f, p).tagged = t
    BY <2>2
  <2>7. p.html = h /\ p.rsc = r /\ p.bare = b /\ p.tagged = t
    BY <2>1
  <2> HIDE <2>1, <2>2
  <2> QED  BY <1>1, <2>3, <2>4, <2>5, <2>6, <2>7
<1>2. CASE f \notin late
  BY <1>2 DEF stamped
<1> QED  BY <1>1, <1>2

(* The types of what helpers change, as predicates on the next state.      *)
PcTypes == {"idle", "scheduled", "stat", "meta", "rsc", "generate", "generating", "writing", "done"}

LEMMA SettleTyped ==
    ASSUME TypeOK, NEW f \in Requests, NEW result \in Outcomes, NEW p \in Page \cup {None},
           settle(f, result, p)
    PROVE  promise' \in [Requests -> Outcomes] /\ answer' \in [Requests -> Page \cup {None}]
<1>1. promise \in [Requests -> Outcomes] /\ answer \in [Requests -> Page \cup {None}]
  BY DEF TypeOK
<1>2. \/ promise' = [promise EXCEPT ![f] = result] /\ answer' = [answer EXCEPT ![f] = p]
      \/ UNCHANGED <<promise, answer>>
  BY DEF settle
<1> QED  BY <1>1, <1>2

FlowTyped ==
    /\ pending \in [CacheKeys -> Requests \cup {None}]
    /\ pc \in [Requests -> PcTypes]
    /\ data \in [Requests -> Entry \cup {None}]
    /\ cached \in [Requests -> Entry \cup {None}]
    /\ value \in [Requests -> Page \cup {None}]
    /\ files \in [Requests -> [Files -> {"todo", "opened", "written"}]]

LEMMA DoneTyped ==
    ASSUME Typed, NEW f \in Requests, done(f)
    PROVE  FlowTyped' /\ LocalsOK'
<1>1. allWritten \in [Files -> {"todo", "opened", "written"}]
  BY DEF allWritten
<1>2. FlowTyped'
  BY <1>1 DEF done, Typed, TypeOK, FlowTyped, PcTypes
<1>3. ASSUME NEW g \in Requests
      PROVE  \/ pc'[g] = "done"
             \/ pc'[g] = pc[g] /\ data'[g] = data[g] /\ cached'[g] = cached[g] /\ value'[g] = value[g]
  BY DEF done, Typed, TypeOK
<1> QED  BY <1>2, <1>3 DEF LocalsOK, Typed, isReading

LEMMA ReceivedTyped ==
    ASSUME Typed, NEW f \in Requests, pc[f] \in {"scheduled", "rsc"}, NEW entry \in Entry, received(f, entry)
    PROVE  /\ promise' \in [Requests -> Outcomes] /\ answer' \in [Requests -> Page \cup {None}]
           /\ FlowTyped' /\ LocalsOK'
<1>1. entry.value \in Page
  BY EntryFacts
<1>2. promise' \in [Requests -> Outcomes] /\ answer' \in [Requests -> Page \cup {None}]
  <2>1. CASE settle(f, "page", entry.value)
    BY <1>1, <2>1, SettleTyped DEF Outcomes, Typed
  <2>2. CASE UNCHANGED <<promise, answer>>
    BY <2>2 DEF Typed, TypeOK
  <2> QED  BY <2>1, <2>2 DEF received, resolve
<1>3. CASE done(f)
  BY <1>2, <1>3, DoneTyped
<1>4. CASE ~done(f)
  <2>1. /\ pc' = [pc EXCEPT ![f] = "generate"] /\ data' = [data EXCEPT ![f] = None]
        /\ UNCHANGED <<pending, value, files>>
        /\ \E c \in {entry, None} : cached' = [cached EXCEPT ![f] = c]
    BY <1>4 DEF received
  <2>2. FlowTyped'
    BY <2>1 DEF Typed, TypeOK, FlowTyped, PcTypes
  <2>3. ASSUME NEW g \in Requests
        PROVE  \/ pc'[g] = "generate"
               \/ pc'[g] = pc[g] /\ data'[g] = data[g] /\ cached'[g] = cached[g] /\ value'[g] = value[g]
    BY <2>1 DEF Typed, TypeOK
  <2>4. LocalsOK'
    BY <2>3 DEF LocalsOK, Typed, isReading
  <2> QED  BY <1>2, <2>2, <2>4
<1> QED  BY <1>3, <1>4

LEMMA ContentTyped ==
    ASSUME Typed, NEW f \in Requests, pc[f] = "writing"
    PROVE  /\ content(f) \in Page /\ stamped(f, content(f)) \in Page
           /\ cached[f] # None => content(f) = cached[f].value
           /\ cached[f] = None => content(f) = value[f] /\ value[f] # None
<1>1. content(f) \in Page
  BY EntryFacts DEF content, Typed, TypeOK, LocalsOK
<1> QED  BY <1>1, StampedTyped DEF content, Typed, LocalsOK

LEMMA WrittenTyped ==
    ASSUME Typed, NEW f \in Requests, pc[f] = "writing", written(f)
    PROVE  promise' \in [Requests -> Outcomes] /\ answer' \in [Requests -> Page \cup {None}]
<1>1. CASE cached[f] = None
  <2>1. stamped(f, value[f]) \in Page
    BY <1>1, ContentTyped
  <2> QED  BY <1>1, <2>1, SettleTyped DEF written, resolve, Outcomes, Typed
<1>2. CASE cached[f] # None
  BY <1>2, SettleTyped DEF written, Outcomes, Typed
<1> QED  BY <1>1, <1>2

LEMMA RememberTyped ==
    ASSUME TypeOK, NEW entry \in Entry, remember(entry)
    PROVE  memory' \in Entry \cup {None} /\ faults' \subseteq Faults
BY DEF remember, TypeOK, Faults

LEMMA SetTyped ==
    ASSUME Typed, NEW f \in Requests, NEW p \in Page, set(f, p), pc[f] = "generating",
           UNCHANGED <<pending, data, value>>, cached' = cached \/ cached' = [cached EXCEPT ![f] = None]
    PROVE  /\ FlowTyped' /\ LocalsOK' /\ memory' \in Entry \cup {None} /\ faults' \subseteq Faults
           /\ pc'[f] = "writing" /\ \A file \in Files : files'[f][file] = IF p.bare THEN "written" ELSE "todo"
<1>1. [value |-> stamped(f, p), lastModified |-> now] \in Entry
  BY StampedTyped DEF Entry, Typed, TypeOK
<1>2. memory' \in Entry \cup {None} /\ faults' \subseteq Faults
  BY <1>1, RememberTyped DEF set, Typed
<1>3. [file \in Files |-> IF p.bare THEN "written" ELSE "todo"] \in [Files -> {"todo", "opened", "written"}]
  OBVIOUS
<1>4. /\ pc' = [pc EXCEPT ![f] = "writing"]
      /\ files' = [files EXCEPT ![f] = [file \in Files |-> IF p.bare THEN "written" ELSE "todo"]]
  BY DEF set
<1>5. FlowTyped'
  BY <1>3, <1>4 DEF Typed, TypeOK, FlowTyped, PcTypes
<1>6. ASSUME NEW g \in Requests
      PROVE  \/ g = f /\ pc'[g] = "writing" /\ value'[g] # None
             \/ pc'[g] = pc[g] /\ data'[g] = data[g] /\ cached'[g] = cached[g] /\ value'[g] = value[g]
  BY <1>4 DEF Typed, TypeOK, LocalsOK
<1>7. LocalsOK'
  BY <1>6 DEF LocalsOK, Typed, isReading
<1> QED  BY <1>2, <1>3, <1>4, <1>5, <1>7 DEF Typed, TypeOK

DiskTypes == [html : Version, rsc : Version, mtime : Nat]

LEMMA DiskTyped ==
    ASSUME TypeOK, NEW file \in Files
    PROVE  /\ emptied(file) \in DiskTypes
           /\ \A p \in Page : fileWritten(file, p) \in DiskTypes
           /\ emptied(file)[file] = Partial
           /\ \A p : fileWritten(file, p)[file] = p[file]
           /\ \A g \in Files \ {file} : /\ emptied(file)[g] = disk[g]
                                        /\ \A p : fileWritten(file, p)[g] = disk[g]
           /\ emptied(file).mtime \in {disk.mtime, now}
           /\ \A p : fileWritten(file, p).mtime \in {disk.mtime, now}
           /\ file = "html" => emptied(file).mtime = now /\ \A p : fileWritten(file, p).mtime = now
<1>1. mtimeAt(file) \in Nat /\ mtimeAt(file) \in {disk.mtime, now} /\ (file = "html" => mtimeAt(file) = now)
  BY DEF mtimeAt, TypeOK
<1>2. disk \in [html : Version, rsc : Version, mtime : Nat]
  BY DEF TypeOK
<1>3. PICK h \in Version, r \in Version, m \in Nat : disk = [html |-> h, rsc |-> r, mtime |-> m]
  BY <1>2
<1>4. CASE file = "html"
  BY <1>1, <1>3, <1>4, VersionFacts, PageFacts DEF DiskTypes, emptied, fileWritten, Files
<1>5. CASE file = "rsc"
  BY <1>1, <1>3, <1>5, VersionFacts, PageFacts DEF DiskTypes, emptied, fileWritten, Files
<1> QED  BY <1>4, <1>5 DEF Files

LEMMA TypedGet ==
    ASSUME Typed, NEW r \in Requests, NEW k \in Kinds, get(r, k) PROVE Typed'
<1>1. cacheKeyFn(k) \in CacheKeys
  BY DEF cacheKeyFn, CacheKeys
<1>2. least' \in [Requests -> Promises]
  BY DEF get, Typed, TypeOK
<1>3. /\ kind' \in [Requests -> Kinds \cup {"none", "joined"}]
      /\ joined' \in [Requests -> Requests \cup {None}]
      /\ pending' \in [CacheKeys -> Requests \cup {None}]
      /\ faults' \subseteq Faults /\ left' \in Nat
      /\ pc' = pc \/ pc' = [pc EXCEPT ![r] = "scheduled"]
  <2>1. CASE pending[cacheKeyFn(k)] # None
    <3>1. pending[cacheKeyFn(k)] \in Requests
      BY <1>1, <2>1 DEF Typed, TypeOK
    <3>2. join(r, pending[cacheKeyFn(k)])
      BY <2>1 DEF get
    <3> QED  BY <3>1, <3>2 DEF join, Typed, TypeOK
  <2>2. CASE pending[cacheKeyFn(k)] = None
    <3>1. begin(r, k)
      BY <2>2 DEF get
    <3>2. faults' \subseteq Faults /\ left' \in Nat
      <4>1. \/ faults' = faults /\ left' = left
            \/ faults' = faults \cup {"overlap"} /\ left >= OverlapCost /\ left' = left - OverlapCost
        BY <3>1 DEF begin
      <4>2. left \in Nat /\ OverlapCost \in Nat /\ faults \subseteq Faults
        BY BoundsAssumption DEF Typed, TypeOK
      <4>3. faults \cup {"overlap"} \subseteq Faults
        BY <4>2 DEF Faults
      <4> QED  BY <4>1, <4>2, <4>3
    <3> QED  BY <3>1, <3>2 DEF begin, Typed, TypeOK
  <2> QED  BY <2>1, <2>2
<1>4. kind[r] = "none"
  BY DEF get, Requests, Typed, TypeOK
<1>5. pc' \in [Requests -> PcTypes] /\ \A f \in Requests : pc'[f] = pc[f] \/ (f = r /\ pc'[f] = "scheduled")
  BY <1>3 DEF Typed, TypeOK, PcTypes
<1>6. UNCHANGED <<world, tag, memory, disk, stray, revalidate, promise, answer, data, cached, value, files, late,
                   promised>>
  BY DEF get
<1>7. TypeOK'
  BY <1>2, <1>3, <1>5, <1>6 DEF Typed, TypeOK, PcTypes, world
<1>8. LocalsOK'
  BY <1>5, <1>6 DEF Typed, LocalsOK, isReading
<1> QED  BY <1>7, <1>8 DEF Typed

LEMMA TypedStep == Typed /\ [Next]_vars => Typed'
<1> SUFFICES ASSUME Typed, [Next]_vars PROVE Typed'
  OBVIOUS
<1>0. TypeOK
  BY DEF Typed
<1>1. ASSUME NEW r \in Requests, NEW k \in Kinds, get(r, k) PROVE Typed'
  BY <1>1, TypedGet
(* A flow that looks for an entry.                                         *)
<1>a. ASSUME NEW f \in Requests, NEW where \in {"stat", "meta", "rsc", "generate"},
             pc' = [pc EXCEPT ![f] = where], pc[f] # "writing",
             NEW e \in Entry \cup {None}, data' = [data EXCEPT ![f] = e], where # "generate" => e # None,
             faults' \subseteq Faults, left' \in Nat,
             UNCHANGED <<world, tag, memory, disk, stray, revalidate, pending, kind, joined, promise, answer, cached,
                         value, files, late, least, promised>>
      PROVE  Typed'
  <2>1. pc' \in [Requests -> PcTypes] /\ data' \in [Requests -> Entry \cup {None}]
    BY <1>0, <1>a DEF TypeOK, PcTypes
  <2>2. ASSUME NEW g \in Requests
        PROVE  \/ pc'[g] \in {"stat", "meta", "rsc", "generate"} /\ (pc'[g] # "generate" => data'[g] # None)
               \/ pc'[g] = pc[g] /\ data'[g] = data[g]
    BY <1>0, <1>a DEF TypeOK
  <2>3. LocalsOK'
    BY <1>a, <2>2 DEF LocalsOK, Typed, isReading
  <2> QED  BY <1>0, <1>a, <2>1, <2>3 DEF Typed, TypeOK, PcTypes, world
<1>2. ASSUME NEW f \in Requests, readMemory(f) PROVE Typed'
  <2>1. memory \in Entry
    BY <1>0, <1>2 DEF readMemory, TypeOK
  <2>2. received(f, memory) /\ pc[f] = "scheduled"
    BY <1>2 DEF readMemory
  <2>3. /\ promise' \in [Requests -> Outcomes] /\ answer' \in [Requests -> Page \cup {None}]
        /\ FlowTyped' /\ LocalsOK'
    BY <2>1, <2>2, ReceivedTyped
  <2> QED  BY <1>0, <1>2, <2>3 DEF readMemory, Typed, TypeOK, FlowTyped, PcTypes, ghosts, world
<1>3. ASSUME NEW f \in Requests, readHtml(f) PROVE Typed'
  <2> DEFINE e == [value |-> [bare |-> FALSE, tagged |-> FALSE, html |-> disk.html, rsc |-> Partial],
                   lastModified |-> 0]
  <2>1. e \in Entry
    BY <1>0, VersionFacts DEF TypeOK, Entry, Page
  <2>2. e # None
    BY <2>1, NoneFacts
  <2>3. data' = [data EXCEPT ![f] = e] /\ pc' = [pc EXCEPT ![f] = "stat"] /\ pc[f] = "scheduled"
    BY <1>3 DEF readHtml
  <2> HIDE DEF e
  <2> QED  BY <1>0, <1>3, <1>a, <2>1, <2>2, <2>3 DEF readHtml, ghosts, TypeOK
(* The entry that is being read is changed.                                *)
<1>b. ASSUME NEW f \in Requests, isReading(f)
      PROVE  /\ data[f] \in Entry /\ data \in [Requests -> Entry \cup {None}]
             /\ \A m \in Nat : [data[f] EXCEPT !.lastModified = m] \in Entry
             /\ [data[f] EXCEPT !.value.tagged = TRUE] \in Entry
             /\ \A v \in Version : [data[f] EXCEPT !.value.rsc = v] \in Entry
  <2>1. data[f] \in Entry
    BY <1>0, <1>b DEF TypeOK, Typed, LocalsOK
  <2>2. PICK p \in Page, n \in Nat : data[f] = [value |-> p, lastModified |-> n]
    BY <2>1 DEF Entry
  <2>3. [p EXCEPT !.tagged = TRUE] \in Page /\ \A v \in Version : [p EXCEPT !.rsc = v] \in Page
    BY DEF Page
  <2>4. [data[f] EXCEPT !.value.tagged = TRUE] = [value |-> [p EXCEPT !.tagged = TRUE], lastModified |-> n]
    <3>1. \A b : [[value |-> p, lastModified |-> n] EXCEPT !.value.tagged = b]
                     = [value |-> [p EXCEPT !.tagged = b], lastModified |-> n]
      OBVIOUS
    <3> QED  BY <2>2, <3>1
  <2>5. ASSUME NEW v \in Version
        PROVE  [data[f] EXCEPT !.value.rsc = v] = [value |-> [p EXCEPT !.rsc = v], lastModified |-> n]
    <3>1. [[value |-> p, lastModified |-> n] EXCEPT !.value.rsc = v]
              = [value |-> [p EXCEPT !.rsc = v], lastModified |-> n]
      OBVIOUS
    <3> QED  BY <2>2, <3>1
  <2>6. ASSUME NEW m \in Nat
        PROVE  [data[f] EXCEPT !.lastModified = m] = [value |-> p, lastModified |-> m]
    <3>1. [[value |-> p, lastModified |-> n] EXCEPT !.lastModified = m] = [value |-> p, lastModified |-> m]
      OBVIOUS
    <3> QED  BY <2>2, <3>1
  <2> QED  BY <1>0, <2>1, <2>3, <2>4, <2>5, <2>6 DEF Entry, TypeOK
<1>4. ASSUME NEW f \in Requests, stat(f) PROVE Typed'
  <2> DEFINE e == [data[f] EXCEPT !.lastModified = disk.mtime]
  <2>1. e \in Entry
    BY <1>0, <1>4, <1>b DEF stat, isReading, TypeOK
  <2>2. e # None
    BY <2>1, NoneFacts
  <2>3. data' = [data EXCEPT ![f] = e] /\ \E where \in {"meta", "rsc"} : pc' = [pc EXCEPT ![f] = where]
    BY <1>0, <1>4 DEF stat
  <2> HIDE DEF e
  <2> QED  BY <1>0, <1>4, <1>a, <2>1, <2>2, <2>3 DEF stat, ghosts, TypeOK
<1>5. ASSUME NEW f \in Requests, readMeta(f) PROVE Typed'
  <2>1. data[f] \in Entry /\ [data[f] EXCEPT !.value.tagged = TRUE] \in Entry
    BY <1>5, <1>b DEF readMeta, isReading
  <2>2. \A e \in Entry : e # None
    BY NoneFacts
  <2>3. \E e \in Entry : data' = [data EXCEPT ![f] = e]
    <3>1. data = [data EXCEPT ![f] = data[f]]
      BY <1>0 DEF TypeOK
    <3>2. [data EXCEPT ![f].value.tagged = TRUE] = [data EXCEPT ![f] = [data[f] EXCEPT !.value.tagged = TRUE]]
      BY <1>0 DEF TypeOK
    <3>3. data' = [data EXCEPT ![f].value.tagged = TRUE] \/ data' = data
      BY <1>5 DEF readMeta
    <3> QED  BY <2>1, <3>1, <3>2, <3>3
  <2>4. faults' \subseteq Faults /\ left' \in Nat
    BY <1>0, <1>5 DEF readMeta, spend, TypeOK, Faults
  <2> QED  BY <1>5, <1>a, <2>2, <2>3, <2>4 DEF readMeta
<1>6. ASSUME NEW f \in Requests, readRsc(f) PROVE Typed'
  <2> DEFINE entry == [data[f] EXCEPT !.value.rsc = disk.rsc]
  <2>1. entry \in Entry
    BY <1>0, <1>6, <1>b DEF readRsc, isReading, TypeOK
  <2>2. received(f, entry) /\ remember(entry) /\ pc[f] = "rsc"
    BY <1>6 DEF readRsc
  <2> HIDE DEF entry
  <2>3. /\ promise' \in [Requests -> Outcomes] /\ answer' \in [Requests -> Page \cup {None}]
        /\ FlowTyped' /\ LocalsOK'
    BY <2>1, <2>2, ReceivedTyped
  <2>4. memory' \in Entry \cup {None} /\ faults' \subseteq Faults
    BY <1>0, <2>1, <2>2, RememberTyped
  <2> QED  BY <1>0, <1>6, <2>3, <2>4 DEF readRsc, Typed, TypeOK, FlowTyped, PcTypes, world
<1>7. ASSUME NEW f \in Requests, readFails(f) PROVE Typed'
  <2>1. left' \in Nat
    BY <1>0, <1>7 DEF readFails, spend, TypeOK
  <2> QED  BY <1>0, <1>7, <1>a, <2>1 DEF readFails, ghosts, TypeOK
<1>8. ASSUME NEW f \in Requests, responseGenerator(f) PROVE Typed'
  <2>1. [version |-> source, late |-> FALSE] \in Version
    BY <1>0 DEF Version, TypeOK
  <2>2. \A bare \in BOOLEAN : rendered(bare) \in Page /\ rendered(bare) # None
    BY <1>0, <2>1, NoneFacts DEF rendered, Page, TypeOK
  <2>3. PICK bare \in BOOLEAN : value' = [value EXCEPT ![f] = rendered(bare)]
    BY <1>0, <1>8 DEF responseGenerator, TypeOK
  <2>4. pc' = [pc EXCEPT ![f] = "generating"] /\ pc[f] = "generate"
    BY <1>8 DEF responseGenerator
  <2>5. pc' \in [Requests -> PcTypes] /\ value' \in [Requests -> Page \cup {None}]
    BY <1>0, <2>2, <2>3, <2>4 DEF TypeOK, PcTypes
  <2>6. ASSUME NEW g \in Requests
        PROVE  \/ pc'[g] = "generating" /\ value'[g] # None
               \/ pc'[g] = pc[g] /\ value'[g] = value[g]
    BY <1>0, <2>2, <2>3, <2>4 DEF TypeOK
  <2>7. LocalsOK'
    BY <1>8, <2>6 DEF LocalsOK, Typed, isReading, responseGenerator
  <2> QED  BY <1>0, <1>8, <2>5, <2>7 DEF responseGenerator, Typed, TypeOK, PcTypes, ghosts, world
<1>9. ASSUME NEW f \in Requests, generated(f) PROVE Typed'
  <2>1. value[f] \in Page /\ stamped(f, value[f]) \in Page /\ value[f].html.version \in Int
    BY <1>0, <1>9, StampedTyped, PageFacts, VersionFacts DEF generated, Typed, TypeOK, LocalsOK
  <2>2. promise' \in [Requests -> Outcomes] /\ answer' \in [Requests -> Page \cup {None}]
    <3>1. CASE isOnDemandRevalidate(f)
      BY <1>0, <1>9, <3>1 DEF generated, TypeOK
    <3>2. CASE ~isOnDemandRevalidate(f)
      BY <1>0, <1>9, <2>1, <3>2, SettleTyped DEF generated, resolve, Outcomes
    <3> QED  BY <3>1, <3>2
  <2>3. /\ FlowTyped' /\ LocalsOK' /\ memory' \in Entry \cup {None} /\ faults' \subseteq Faults
    BY <1>9, <2>1, SetTyped DEF generated
  <2>4. promised' \in Promises
    <3>1. larger(promised.stored, value[f].html.version) \in Nat
      BY <1>0, <2>1 DEF larger, TypeOK, Promises
    <3> QED  BY <1>0, <1>9, <3>1 DEF generated, TypeOK, Promises
  <2> QED  BY <1>0, <1>9, <2>2, <2>3, <2>4, RevalidateAssumption
           DEF generated, Typed, TypeOK, FlowTyped, PcTypes, world
<1>10. ASSUME NEW f \in Requests, generatedUncacheable(f) PROVE Typed'
  <2>1. stamped(f, value[f]) \in Page
    BY <1>0, <1>10, StampedTyped DEF generatedUncacheable, Typed, TypeOK, LocalsOK
  <2>2. promise' \in [Requests -> Outcomes] /\ answer' \in [Requests -> Page \cup {None}]
    BY <1>0, <1>10, <2>1, SettleTyped DEF generatedUncacheable, resolve, Outcomes
  <2>3. FlowTyped' /\ LocalsOK'
    BY <1>10, DoneTyped DEF generatedUncacheable
  <2> QED  BY <1>0, <1>10, <2>2, <2>3
           DEF generatedUncacheable, Typed, TypeOK, FlowTyped, PcTypes, ghosts, world
<1>11. ASSUME NEW f \in Requests, generatedNothing(f) PROVE Typed'
  <2>1. promise' \in [Requests -> Outcomes] /\ answer' \in [Requests -> Page \cup {None}]
    BY <1>0, <1>11, SettleTyped DEF generatedNothing, Outcomes
  <2>2. FlowTyped' /\ LocalsOK'
    BY <1>11, DoneTyped DEF generatedNothing
  <2> QED  BY <1>0, <1>11, <2>1, <2>2 DEF generatedNothing, Typed, TypeOK, FlowTyped, PcTypes, ghosts, world
<1>12. ASSUME NEW f \in Requests, failed(f) PROVE Typed'
  <2>1. CASE cached[f] # None
    <3>1. cached[f].value \in Page
      BY <1>0, <2>1, EntryFacts DEF TypeOK
    <3>2. /\ FlowTyped' /\ LocalsOK' /\ memory' \in Entry \cup {None} /\ faults' \subseteq Faults
      BY <1>12, <2>1, <3>1, SetTyped DEF failed
    <3>3. revalidate' \in Nat
      BY <1>0, <1>12, <2>1 DEF failed, retryAfter, TypeOK
    <3> QED  BY <1>0, <1>12, <2>1, <3>2, <3>3 DEF failed, spend, Typed, TypeOK, FlowTyped, PcTypes, world
  <2>2. CASE cached[f] = None
    <3>1. promise' \in [Requests -> Outcomes] /\ answer' \in [Requests -> Page \cup {None}]
      BY <1>0, <1>12, <2>2, SettleTyped DEF failed, Outcomes
    <3>2. FlowTyped' /\ LocalsOK'
      BY <1>12, <2>2, DoneTyped DEF failed
    <3> QED  BY <1>0, <1>12, <2>2, <3>1, <3>2 DEF failed, spend, Typed, TypeOK, FlowTyped, PcTypes, world
  <2> QED  BY <2>1, <2>2
(* A file is emptied or written.                                           *)
<1>13. ASSUME NEW f \in Requests, NEW file \in Files, openFile(f, file) \/ write(f, file) PROVE Typed'
  <2>1. pc[f] = "writing"
    BY <1>13 DEF openFile, write
  <2>2. disk' \in DiskTypes
    BY <1>0, <1>13, <2>1, ContentTyped, DiskTyped DEF openFile, write
  <2>3. \E how \in {"opened", "written"} : files' = [files EXCEPT ![f][file] = how]
    BY <1>13 DEF openFile, write
  <2>4. files' \in [Requests -> [Files -> {"todo", "opened", "written"}]]
    BY <1>0, <2>3 DEF TypeOK
  <2>6. LocalsOK'
    BY <1>13, <2>1 DEF LocalsOK, Typed, isReading, openFile, write
  <2> QED  BY <1>0, <1>13, <2>2, <2>4, <2>6 DEF openFile, write, Typed, TypeOK, ghosts, DiskTypes, world
<1>14. ASSUME NEW f \in Requests, stored(f) PROVE Typed'
  <2>1. FlowTyped' /\ LocalsOK'
    BY <1>14, DoneTyped DEF stored
  <2>2. promise' \in [Requests -> Outcomes] /\ answer' \in [Requests -> Page \cup {None}]
    BY <1>14, WrittenTyped DEF stored
  <2>3. promised' \in Promises
    <3>1. ASSUME cached[f] = None PROVE larger(promised.onDemand, value[f].html.version) \in Nat
      <4>1. value[f] \in Page
        BY <1>14, <3>1, ContentTyped DEF stored
      <4> QED  BY <1>0, <4>1, PageFacts, VersionFacts DEF larger, TypeOK, Promises
    <3> QED  BY <1>0, <1>14, <3>1 DEF stored, TypeOK, Promises
  <2> QED  BY <1>0, <1>14, <2>1, <2>2, <2>3 DEF stored, Typed, TypeOK, FlowTyped, PcTypes, world
<1>15. ASSUME NEW f \in Requests, NEW file \in Files, writeFails(f, file) PROVE Typed'
  <2>1. FlowTyped' /\ LocalsOK'
    BY <1>15, DoneTyped DEF writeFails
  <2>2. promise' \in [Requests -> Outcomes] /\ answer' \in [Requests -> Page \cup {None}]
    BY <1>15, WrittenTyped DEF writeFails
  <2>3. stray' \subseteq [file : Files, page : Page, opened : BOOLEAN]
    <3>1. stamped(f, content(f)) \in Page
      BY <1>15, ContentTyped DEF writeFails
    <3>2. \A g \in Files : [file |-> g, page |-> stamped(f, content(f)), opened |-> files[f][g] = "opened"]
                             \in [file : Files, page : Page, opened : BOOLEAN]
      BY <3>1
    <3>3. stray' = stray \cup {[file |-> g, page |-> stamped(f, content(f)), opened |-> files[f][g] = "opened"] :
                                g \in {g \in Files \ {file} : files[f][g] # "written"}}
      BY <1>15 DEF writeFails
    <3> DEFINE S == [file : Files, page : Page, opened : BOOLEAN]
               T == {[file |-> g, page |-> stamped(f, content(f)), opened |-> files[f][g] = "opened"] :
                        g \in {g \in Files \ {file} : files[f][g] # "written"}}
    <3>4. T \subseteq S
      BY <3>2
    <3>5. stray \subseteq S /\ stray' = stray \cup T
      BY <1>0, <3>3 DEF TypeOK
    <3> HIDE DEF S, T
    <3>6. stray' \subseteq S
      BY <3>4, <3>5
    <3> QED  BY <3>6 DEF S
  <2>4. faults' \subseteq Faults /\ left' \in Nat
    BY <1>0, <1>15 DEF writeFails, spend, TypeOK, Faults
  <2> QED  BY <1>0, <1>15, <2>1, <2>2, <2>3, <2>4 DEF writeFails, Typed, TypeOK, FlowTyped, PcTypes, world
<1>16. ASSUME NEW w \in stray, strayWrite(w) PROVE Typed'
  <2>1. w \in [file : Files, page : Page, opened : BOOLEAN] /\ w.file \in Files /\ w.page \in Page
    BY <1>0 DEF TypeOK
  <2>2. disk' \in DiskTypes
    BY <1>0, <1>16, <2>1, DiskTyped DEF strayWrite
  <2>3. [w EXCEPT !.opened = TRUE] \in [file : Files, page : Page, opened : BOOLEAN]
    BY <2>1
  <2>4. stray' \subseteq [file : Files, page : Page, opened : BOOLEAN]
    <3>1. stray' = (stray \ {w}) \cup {[w EXCEPT !.opened = TRUE]} \/ stray' = stray \ {w}
      BY <1>16 DEF strayWrite
    <3>2. stray \subseteq [file : Files, page : Page, opened : BOOLEAN]
      BY <1>0 DEF TypeOK
    <3> QED  BY <2>3, <3>1, <3>2
  <2> QED  BY <1>0, <1>16, <2>2, <2>4
           DEF strayWrite, Typed, TypeOK, LocalsOK, isReading, flowVars, ghosts, DiskTypes, world
<1>17. ASSUME NEW w \in stray, strayFails(w) PROVE Typed'
  BY <1>0, <1>17 DEF strayFails, spend, Typed, TypeOK, LocalsOK, isReading, flowVars, ghosts, world
<1>18. CASE revalidateTag
  <2>1. promised' \in Promises
    BY <1>0, <1>18 DEF revalidateTag, TypeOK, Promises
  <2> QED  BY <1>0, <1>18, <2>1 DEF revalidateTag, spend, Typed, TypeOK, LocalsOK, isReading, flowVars, world
<1>19. CASE evict
  BY <1>0, <1>19 DEF evict, spend, Typed, TypeOK, LocalsOK, isReading, flowVars, ghosts, world
<1>20. CASE restart
  <2>1. promise' \in [Requests -> Outcomes]
    BY <1>0, <1>20 DEF restart, TypeOK, Outcomes
  <2>2. pc' \in [Requests -> PcTypes] /\ \A f \in Requests : pc'[f] \in {"idle", "done"}
    BY <1>0, <1>20 DEF restart, active, TypeOK, PcTypes
  <2>3. faults' \subseteq Faults
    BY <1>0, <1>20 DEF restart, TypeOK, Faults
  <2>4. allWritten \in [Files -> {"todo", "opened", "written"}]
    BY DEF allWritten
  <2>5. /\ data' \in [Requests -> Entry \cup {None}] /\ cached' \in [Requests -> Entry \cup {None}]
        /\ value' \in [Requests -> Page \cup {None}]
        /\ files' \in [Requests -> [Files -> {"todo", "opened", "written"}]]
        /\ pending' \in [CacheKeys -> Requests \cup {None}] 
    BY <1>20, <2>4 DEF restart
  <2>6. memory' = None /\ stray' = {} /\ tag' = -1 /\ left' \in Nat /\ revalidate' \in Nat
    BY <1>0, <1>20, RevalidateAssumption DEF restart, spend, TypeOK
  <2>7. UNCHANGED <<world, disk, kind, joined, answer, late, least, promised>>
    BY <1>20 DEF restart
  <2>8. LocalsOK'
    BY <2>2, <2>5 DEF LocalsOK, isReading
  <2> QED  BY <1>0, <2>1, <2>2, <2>3, <2>5, <2>6, <2>7, <2>8 DEF Typed, TypeOK, PcTypes, world
<1>21. CASE tick
  BY <1>0, <1>21, BoundsAssumption DEF tick, Typed, TypeOK, LocalsOK, isReading, flowVars, ghosts
<1>22. CASE sourceChanges
  BY <1>0, <1>22, BoundsAssumption DEF sourceChanges, Typed, TypeOK, LocalsOK, isReading, flowVars, ghosts
<1>23. CASE UNCHANGED vars
  BY <1>0, <1>23 DEF vars, Typed, TypeOK, LocalsOK, isReading, flowVars, ghosts, world
<1> QED
  BY <1>1, <1>2, <1>3, <1>4, <1>5, <1>6, <1>7, <1>8, <1>9, <1>10, <1>11, <1>12, <1>13, <1>14, <1>15, <1>16,
     <1>17, <1>18, <1>19, <1>20, <1>21, <1>22, <1>23 DEF Next, flowStep

(* TypeOK: every variable has its type; a flow has read what it is about   *)
(* to answer with, and has rendered what it is about to store.             *)
THEOREM TypesCorrect == Spec => []TypeOK
<1>1. Typed => TypeOK
  BY DEF Typed
<1> QED  BY TypedInit, TypedStep, <1>1, PTL DEF Spec

-----------------------------------------------------------------------------
(* Without an overlap only one key has a flow.                             *)
Alone ==
    "overlap" \notin faults =>
        \A k, l \in CacheKeys : pending[k] # None /\ pending[l] # None => k = l

Flows == Typed /\ FlowsArePending /\ Alone

LEMMA OnlyFlow ==
    ASSUME Flows, "overlap" \notin faults, NEW f \in Requests, NEW g \in Requests, active(f), active(g)
    PROVE  f = g
<1>1. cacheKeyFn(kind[f]) \in CacheKeys /\ cacheKeyFn(kind[g]) \in CacheKeys
  BY DEF cacheKeyFn, CacheKeys
<1>2. pending[cacheKeyFn(kind[f])] = f /\ pending[cacheKeyFn(kind[g])] = g
  BY DEF Flows, FlowsArePending
<1>3. f # None /\ g # None
  BY NoneAssumption
<1> QED  BY <1>1, <1>2, <1>3 DEF Flows, Alone

LEMMA FlowMoves ==
    ASSUME Flows, NEW f \in Requests, active(f), NEW where, where \notin {"idle", "done"},
           pc' = [pc EXCEPT ![f] = where], UNCHANGED <<pending, kind, joined>>, faults \subseteq faults'
    PROVE  FlowsArePending' /\ Alone'
<1>1. \A g \in Requests : active(g)' <=> active(g)
  BY DEF active, Flows, Typed, TypeOK
<1>2. \A k \in CacheKeys : pending[k] # None => pending[k] \in Requests
  BY DEF Flows, Typed, TypeOK
<1>3. FlowsArePending'
  BY <1>1, <1>2 DEF Flows, FlowsArePending
<1> QED  BY <1>3 DEF Flows, Alone

LEMMA FlowEnds ==
    ASSUME Flows, NEW f \in Requests, active(f), done(f), UNCHANGED <<kind, joined>>, faults \subseteq faults'
    PROVE  FlowsArePending' /\ Alone'
<1>1. \A g \in Requests : active(g)' <=> active(g) /\ g # f
  BY DEF active, done, Flows, Typed, TypeOK
<1>2. cacheKeyFn(kind[f]) \in CacheKeys
  BY DEF cacheKeyFn, CacheKeys
<1>3. \A k \in CacheKeys : pending'[k] = IF k = cacheKeyFn(kind[f]) THEN None ELSE pending[k]
  BY <1>2 DEF done, Flows, Typed, TypeOK
<1>4. pending[cacheKeyFn(kind[f])] = f
  BY DEF Flows, FlowsArePending
<1>5. \A k \in CacheKeys : pending[k] # None => pending[k] \in Requests
  BY DEF Flows, Typed, TypeOK
<1>6. \A g \in Requests : cacheKeyFn(kind[g]) \in CacheKeys
  BY DEF cacheKeyFn, CacheKeys
<1>7. FlowsArePending'
  <2>1. ASSUME NEW g \in Requests, active(g)'
        PROVE  kind'[g] \in Kinds /\ joined'[g] = g /\ pending'[cacheKeyFn(kind'[g])] = g
    <3>1. active(g) /\ g # f
      BY <1>1, <2>1
    <3>2. kind[g] \in Kinds /\ joined[g] = g /\ pending[cacheKeyFn(kind[g])] = g
      BY <3>1 DEF Flows, FlowsArePending
    <3>3. cacheKeyFn(kind[g]) # cacheKeyFn(kind[f])
      BY <1>4, <3>1, <3>2
    <3> QED  BY <1>3, <1>6, <3>2, <3>3
  <2>2. ASSUME NEW k \in CacheKeys, pending'[k] # None
        PROVE  (active(pending[k]) /\ cacheKeyFn(kind[pending[k]]) = k)'
    <3>1. k # cacheKeyFn(kind[f]) /\ pending'[k] = pending[k] /\ pending[k] # None
      BY <1>3, <2>2
    <3>2. active(pending[k]) /\ cacheKeyFn(kind[pending[k]]) = k
      BY <3>1 DEF Flows, FlowsArePending
    <3>3. pending[k] # f /\ pending[k] \in Requests
      BY <1>5, <3>1, <3>2
    <3> QED  BY <1>1, <3>1, <3>2, <3>3 DEF active
  <2> QED  BY <2>1, <2>2 DEF FlowsArePending
<1> QED  BY <1>3, <1>7 DEF Flows, Alone

LEMMA ReceivedFlows ==
    ASSUME Flows, NEW f \in Requests, active(f), NEW entry, received(f, entry),
           UNCHANGED <<kind, joined>>, faults \subseteq faults'
    PROVE  FlowsArePending' /\ Alone'
<1>1. CASE done(f)
  BY <1>1, FlowEnds
<1>2. CASE ~done(f)
  <2>1. pc' = [pc EXCEPT ![f] = "generate"] /\ UNCHANGED pending
    BY <1>2 DEF received
  <2> QED  BY <2>1, FlowMoves
<1> QED  BY <1>1, <1>2

LEMMA FlowsStep == Flows /\ [Next]_vars => Flows'
<1> SUFFICES ASSUME Flows, [Next]_vars PROVE FlowsArePending' /\ Alone'
  BY TypedStep DEF Flows
<1>1. ASSUME NEW r \in Requests, NEW k \in Kinds, get(r, k) PROVE FlowsArePending' /\ Alone'
  <2>1. kind[r] = "none"
    BY <1>1 DEF get, Requests, Flows, Typed, TypeOK
  <2>2. ~active(r)
    BY <2>1 DEF Flows, FlowsArePending, Kinds
  <2>3. \A l \in CacheKeys : pending[l] # r
    BY <2>2, NoneAssumption DEF Flows, FlowsArePending
  <2>4. cacheKeyFn(k) \in CacheKeys /\ \A g \in Requests : cacheKeyFn(kind[g]) \in CacheKeys
    BY DEF cacheKeyFn, CacheKeys
  <2>5. \A l \in CacheKeys : pending[l] # None => pending[l] \in Requests
    BY DEF Flows, Typed, TypeOK
  <2>6. CASE pending[cacheKeyFn(k)] # None
    <3>1. /\ UNCHANGED <<pending, pc, faults>>
          /\ kind' = [kind EXCEPT ![r] = "joined"]
          /\ joined' = [joined EXCEPT ![r] = pending[cacheKeyFn(k)]]
      BY <1>1, <2>6 DEF get, join
    <3>2. \A g \in Requests \ {r} : kind'[g] = kind[g] /\ joined'[g] = joined[g]
      BY <3>1 DEF Flows, Typed, TypeOK
    <3>3. \A g : active(g)' <=> active(g)
      BY <3>1 DEF active
    <3>4. FlowsArePending'
      BY <2>2, <2>3, <2>5, <3>1, <3>2, <3>3 DEF Flows, FlowsArePending
    <3> QED  BY <3>1, <3>4 DEF Flows, Alone
  <2>7. CASE pending[cacheKeyFn(k)] = None
    <3>1. /\ pending' = [pending EXCEPT ![cacheKeyFn(k)] = r] /\ pc' = [pc EXCEPT ![r] = "scheduled"]
          /\ kind' = [kind EXCEPT ![r] = k] /\ joined' = [joined EXCEPT ![r] = r]
          /\ "overlap" \notin faults' => \A key \in CacheKeys \ {cacheKeyFn(k)} : pending[key] = None
      BY <1>1, <2>7 DEF get, begin
    <3>2. \A g \in Requests \ {r} : /\ kind'[g] = kind[g] /\ joined'[g] = joined[g]
                                    /\ active(g)' <=> active(g)
      BY <3>1 DEF Flows, Typed, TypeOK, active
    <3>3. active(r)' /\ kind'[r] = k /\ joined'[r] = r
      BY <3>1 DEF Flows, Typed, TypeOK, active
    <3>4. \A l \in CacheKeys : pending'[l] = IF l = cacheKeyFn(k) THEN r ELSE pending[l]
      BY <2>4, <3>1 DEF Flows, Typed, TypeOK
    <3>5. FlowsArePending'
      <4>1. ASSUME NEW g \in Requests, active(g)'
            PROVE  kind'[g] \in Kinds /\ joined'[g] = g /\ pending'[cacheKeyFn(kind'[g])] = g
        <5>1. CASE g = r
          BY <2>4, <3>3, <3>4, <5>1
        <5>2. CASE g # r
          <6>1. kind[g] \in Kinds /\ joined[g] = g /\ pending[cacheKeyFn(kind[g])] = g
            BY <3>2, <4>1, <5>2 DEF Flows, FlowsArePending
          <6>2. cacheKeyFn(kind[g]) # cacheKeyFn(k)
            BY <2>7, <6>1, NoneAssumption
          <6> QED  BY <2>4, <3>2, <3>4, <5>2, <6>1, <6>2
        <5> QED  BY <5>1, <5>2
      <4>2. ASSUME NEW l \in CacheKeys, pending'[l] # None
            PROVE  (active(pending[l]) /\ cacheKeyFn(kind[pending[l]]) = l)'
        <5>1. CASE l = cacheKeyFn(k)
          BY <3>3, <3>4, <5>1 DEF active
        <5>2. CASE l # cacheKeyFn(k)
          <6>1. pending'[l] = pending[l] /\ pending[l] # None /\ pending[l] # r /\ pending[l] \in Requests
            BY <2>3, <2>5, <3>4, <4>2, <5>2
          <6>2. active(pending[l]) /\ cacheKeyFn(kind[pending[l]]) = l
            BY <6>1 DEF Flows, FlowsArePending
          <6> QED  BY <3>2, <6>1, <6>2 DEF active
        <5> QED  BY <5>1, <5>2
      <4> QED  BY <4>1, <4>2 DEF FlowsArePending
    <3>6. Alone'
      <4>1. "overlap" \notin faults' => \A l \in CacheKeys : pending[l] = None
        BY <2>7, <3>1
      <4> QED  BY <3>4, <4>1 DEF Alone
    <3> QED  BY <3>5, <3>6
  <2> QED  BY <2>6, <2>7
<1>2. ASSUME NEW f \in Requests, flowStep(f) PROVE FlowsArePending' /\ Alone'
  <2>1. active(f)
    BY <1>2 DEF flowStep, readMemory, readHtml, stat, readMeta, readRsc, readFails, responseGenerator, generated,
        generatedUncacheable, generatedNothing, failed, openFile, write, stored, writeFails, active
  <2>2. UNCHANGED <<kind, joined>> /\ faults \subseteq faults'
    BY <1>2 DEF flowStep, readMemory, readHtml, stat, readMeta, readRsc, readFails, responseGenerator, generated,
        generatedUncacheable, generatedNothing, failed, openFile, write, stored, writeFails, set, remember, ghosts
  <2>3. CASE done(f)
    BY <2>1, <2>2, <2>3, FlowEnds
  <2>4. CASE ~done(f) /\ ~readMemory(f) /\ ~readRsc(f)
    <3>1. \/ \E where \in {"stat", "meta", "rsc", "generate", "generating", "writing"} :
                pc' = [pc EXCEPT ![f] = where]
          \/ pc' = pc
      BY <1>2, <2>4 DEF flowStep, readHtml, stat, readMeta, readFails, responseGenerator, generated, set,
          generatedUncacheable, generatedNothing, failed, openFile, write, stored, writeFails
    <3>2. UNCHANGED pending
      BY <1>2, <2>4 DEF flowStep, readHtml, stat, readMeta, readFails, responseGenerator, generated,
          generatedUncacheable, generatedNothing, failed, openFile, write, stored, writeFails
    <3>3. CASE pc' = pc
      <4>1. pc' = [pc EXCEPT ![f] = pc[f]]
        BY <3>3 DEF Flows, Typed, TypeOK
      <4> QED  BY <2>1, <2>2, <3>2, <4>1, FlowMoves DEF active
    <3>4. ASSUME NEW where \in {"stat", "meta", "rsc", "generate", "generating", "writing"},
                 pc' = [pc EXCEPT ![f] = where]
          PROVE  FlowsArePending' /\ Alone'
      BY <2>1, <2>2, <3>2, <3>4, FlowMoves
    <3> QED  BY <3>1, <3>3, <3>4
  <2>5. CASE readMemory(f) \/ readRsc(f)
    <3>1. \E entry : received(f, entry)
      BY <2>5 DEF readMemory, readRsc
    <3> QED  BY <2>1, <2>2, <3>1, ReceivedFlows
  <2> QED  BY <2>3, <2>4, <2>5
<1>3. CASE restart
  <2>1. pending' = [k \in CacheKeys |-> None]
    BY <1>3 DEF restart
  <2>2. \A f \in Requests : ~active(f)'
    BY <1>3 DEF restart, active, Flows, Typed, TypeOK
  <2> QED  BY <2>1, <2>2 DEF FlowsArePending, Alone
<1>4. CASE UNCHANGED <<pending, kind, joined, pc, faults>>
  BY <1>4 DEF Flows, FlowsArePending, Alone, active
<1> QED
  BY <1>1, <1>2, <1>3, <1>4 DEF Next, strayWrite, strayFails, revalidateTag, evict, tick, sourceChanges, vars, flowVars, ghosts

LEMMA FlowsInit == Init => Flows
<1> SUFFICES ASSUME Init PROVE Flows
  OBVIOUS
<1>1. \A f \in Requests : ~active(f)
  BY DEF Init, active
<1>2. \A k \in CacheKeys : pending[k] = None
  BY DEF Init
<1> QED  BY <1>1, <1>2, TypedInit DEF Flows, FlowsArePending, Alone

(* FlowsArePending: no flow of a page is under way without being the one   *)
(* that requests of its key join, and no request joins one that has ended. *)
THEOREM RequestsJoinRunningFlows == Spec => []FlowsArePending
<1>1. Flows => FlowsArePending
  BY DEF Flows
<1> QED  BY FlowsInit, FlowsStep, <1>1, PTL DEF Spec


-----------------------------------------------------------------------------
(* Promises and times are of the past; what was rendered is one rendering; *)
(* and who is not under way has nothing.                                   *)
PromisesArePast ==
    /\ promised.tag <= source /\ promised.stored <= source /\ promised.onDemand <= source
    /\ \A r \in Requests : /\ least[r].tag <= promised.tag
                           /\ least[r].stored <= promised.stored
                           /\ least[r].onDemand <= promised.onDemand
TimesArePast ==
    /\ tag <= now /\ disk.mtime <= now
    /\ memory # None => memory.lastModified <= now
    /\ \A f \in Requests : isReading(f) => data[f].lastModified <= now
OneRendering(p) ==
    /\ p.html = p.rsc /\ p.html.version \in 0..source
    /\ p.tagged = isAppPath /\ (isAppPath => ~p.bare)
NothingLeft ==
    \A f \in Requests : /\ ~active(f) => cached[f] = None /\ value[f] = None
                        /\ pc[f] # "writing" => files[f] = allWritten
                        /\ kind[f] = "none" => promise[f] = "none"
                        /\ value[f] # None => OneRendering(value[f])

Past == PromisesArePast /\ TimesArePast /\ NothingLeft

(* A step of a flow leaves the others alone.                               *)
LeavesOthers(f) ==
    \A g \in Requests \ {f} :
        /\ pc'[g] = pc[g] /\ data'[g] = data[g] /\ cached'[g] = cached[g]
        /\ value'[g] = value[g] /\ files'[g] = files[g]
        /\ promise'[g] = promise[g] /\ answer'[g] = answer[g]

LEMMA SettleLeaves ==
    ASSUME TypeOK, NEW f \in Requests, NEW result, NEW p, settle(f, result, p)
    PROVE  \A g \in Requests \ {f} : promise'[g] = promise[g] /\ answer'[g] = answer[g]
BY DEF settle, TypeOK

LEMMA DoneLeaves ==
    ASSUME TypeOK, NEW f \in Requests, done(f)
    PROVE  /\ \A g \in Requests \ {f} : /\ pc'[g] = pc[g] /\ data'[g] = data[g] /\ cached'[g] = cached[g]
                                        /\ value'[g] = value[g] /\ files'[g] = files[g]
           /\ pc'[f] = "done" /\ data'[f] = None /\ cached'[f] = None /\ value'[f] = None
           /\ files'[f] = allWritten
BY DEF done, TypeOK

LEMMA ReceivedLeaves ==
    ASSUME TypeOK, NEW f \in Requests, NEW entry, received(f, entry)
    PROVE  /\ LeavesOthers(f)
           /\ pc'[f] \in {"generate", "done"} /\ data'[f] = None
           /\ cached'[f] \in {entry, None} /\ (isTagStale(entry) => cached'[f] = None)
           /\ pc'[f] = "generate" => value'[f] = value[f] /\ files'[f] = files[f]
           /\ pc'[f] = "done" => value'[f] = None /\ files'[f] = allWritten /\ cached'[f] = None
           /\ \/ promise'[f] = promise[f] /\ answer'[f] = answer[f]
              \/ ~isTagStale(entry) /\ promise'[f] = "page" /\ answer'[f] = entry.value
<1>1. \A g \in Requests \ {f} : promise'[g] = promise[g] /\ answer'[g] = answer[g]
  BY SettleLeaves DEF received, resolve
<1>2. \/ promise'[f] = promise[f] /\ answer'[f] = answer[f]
      \/ ~isTagStale(entry) /\ promise'[f] = "page" /\ answer'[f] = entry.value
  BY DEF received, resolve, settle, TypeOK
<1>3. CASE done(f)
  BY <1>1, <1>2, <1>3, DoneLeaves DEF LeavesOthers
<1>4. CASE ~done(f)
  <2>1. /\ pc' = [pc EXCEPT ![f] = "generate"] /\ data' = [data EXCEPT ![f] = None]
        /\ UNCHANGED <<value, files>>
        /\ cached' = [cached EXCEPT ![f] = IF ~isTagStale(entry) THEN entry ELSE None]
    BY <1>4 DEF received
  <2> QED  BY <1>1, <1>2, <2>1 DEF LeavesOthers, TypeOK
<1> QED  BY <1>3, <1>4

LEMMA SetLeaves ==
    ASSUME TypeOK, NEW f \in Requests, NEW p, set(f, p)
    PROVE  /\ \A g \in Requests \ {f} : pc'[g] = pc[g] /\ files'[g] = files[g]
           /\ pc'[f] = "writing"
           /\ \A file \in Files : files'[f][file] = IF p.bare THEN "written" ELSE "todo"
           /\ remember([value |-> stamped(f, p), lastModified |-> now])
           /\ p.bare => files'[f] = allWritten
BY DEF set, TypeOK, allWritten

LEMMA WrittenLeaves ==
    ASSUME TypeOK, NEW f \in Requests, written(f)
    PROVE  \A g \in Requests \ {f} : promise'[g] = promise[g] /\ answer'[g] = answer[g]
BY SettleLeaves DEF written, resolve

(* Of the files and the promises, only some steps of a flow change any.    *)
LEMMA FlowStepLeaves ==
    ASSUME Flows, NEW f \in Requests, flowStep(f)
    PROVE  /\ active(f) /\ faults \subseteq faults' /\ LeavesOthers(f)
           /\ UNCHANGED <<now, source, isAppPath, tag, kind, joined, late, least>>
           /\ promised' = promised \/ generated(f) \/ stored(f)
           /\ disk' = disk \/ \E file \in Files : openFile(f, file) \/ write(f, file)
           /\ stray' = stray \/ "writeError" \in faults'
<1>0. TypeOK
  BY DEF Flows, Typed
<1> DEFINE Goal == /\ active(f) /\ faults \subseteq faults' /\ LeavesOthers(f)
                   /\ UNCHANGED <<now, source, isAppPath, tag, kind, joined, late, least>>
                   /\ promised' = promised \/ generated(f) \/ stored(f)
                   /\ disk' = disk \/ \E file \in Files : openFile(f, file) \/ write(f, file)
                   /\ stray' = stray \/ "writeError" \in faults'
<1>1. CASE readMemory(f)
  BY <1>0, <1>1, ReceivedLeaves DEF readMemory, ghosts, world, active
<1>2. CASE readRsc(f)
  <2>1. \E entry : received(f, entry)
    BY <1>2 DEF readRsc
  <2>2. LeavesOthers(f)
    BY <1>0, <2>1, ReceivedLeaves
  <2> QED  BY <1>2, <2>2 DEF readRsc, remember, world, active
<1>3. CASE readHtml(f) \/ stat(f) \/ readMeta(f) \/ readFails(f) \/ responseGenerator(f)
  <2>1. /\ UNCHANGED <<cached, files, promise, answer>>
        /\ \E where : pc' = [pc EXCEPT ![f] = where]
        /\ \/ \E e : data' = [data EXCEPT ![f] = e]
           \/ data' = data
        /\ \/ \E v : value' = [value EXCEPT ![f] = v]
           \/ value' = value
    BY <1>3 DEF readHtml, stat, readMeta, readFails, responseGenerator
  <2>2. LeavesOthers(f)
    BY <1>0, <2>1 DEF LeavesOthers, TypeOK
  <2> QED  BY <1>3, <2>2 DEF readHtml, stat, readMeta, readFails, responseGenerator, ghosts, world, active
<1>4. CASE generated(f)
  <2>1. \A g \in Requests \ {f} : promise'[g] = promise[g] /\ answer'[g] = answer[g]
    BY <1>0, <1>4, SettleLeaves DEF generated, resolve
  <2>2. LeavesOthers(f)
    <3>1. \A g \in Requests \ {f} : pc'[g] = pc[g] /\ files'[g] = files[g]
      BY <1>0, <1>4, SetLeaves DEF generated
    <3>2. UNCHANGED <<data, value>> /\ cached' = [cached EXCEPT ![f] = None]
      BY <1>4 DEF generated
    <3> QED  BY <1>0, <2>1, <3>1, <3>2 DEF LeavesOthers, TypeOK
  <2>3. faults \subseteq faults'
    BY <1>4 DEF generated, set, remember
  <2> QED  BY <1>4, <2>2, <2>3 DEF generated, world, active
<1>5. CASE generatedUncacheable(f) \/ generatedNothing(f)
  <2>1. \A g \in Requests \ {f} : promise'[g] = promise[g] /\ answer'[g] = answer[g]
    BY <1>0, <1>5, SettleLeaves DEF generatedUncacheable, generatedNothing, resolve
  <2>2. LeavesOthers(f)
    BY <1>0, <1>5, <2>1, DoneLeaves DEF generatedUncacheable, generatedNothing, LeavesOthers
  <2> QED  BY <1>5, <2>2 DEF generatedUncacheable, generatedNothing, ghosts, world, active
<1>6. CASE failed(f)
  <2>1. CASE cached[f] # None
    <3>1. LeavesOthers(f)
      BY <1>0, <1>6, <2>1, SetLeaves DEF failed, LeavesOthers
    <3>2. faults \subseteq faults'
      BY <1>6, <2>1 DEF failed, set, remember
    <3> QED  BY <1>6, <3>1, <3>2 DEF failed, world, active
  <2>2. CASE cached[f] = None
    <3>1. LeavesOthers(f)
      BY <1>0, <1>6, <2>2, DoneLeaves, SettleLeaves DEF failed, LeavesOthers
    <3> QED  BY <1>6, <2>2, <3>1 DEF failed, world, active
  <2> QED  BY <2>1, <2>2
<1>7. ASSUME NEW file \in Files, openFile(f, file) \/ write(f, file) PROVE Goal
  <2>1. UNCHANGED <<promise, answer, pc, data, cached, value>>
        /\ \E status : files' = [files EXCEPT ![f][file] = status]
    BY <1>7 DEF openFile, write
  <2>2. LeavesOthers(f)
    BY <1>0, <2>1 DEF LeavesOthers, TypeOK
  <2> QED  BY <1>7, <2>2 DEF openFile, write, ghosts, world, active
<1>8. CASE stored(f)
  <2>1. LeavesOthers(f)
    BY <1>0, <1>8, DoneLeaves, WrittenLeaves DEF stored, LeavesOthers
  <2> QED  BY <1>8, <2>1 DEF stored, world, active
<1>9. ASSUME NEW file \in Files, writeFails(f, file) PROVE Goal
  <2>1. LeavesOthers(f)
    BY <1>0, <1>9, DoneLeaves, WrittenLeaves DEF writeFails, LeavesOthers
  <2> QED  BY <1>9, <2>1 DEF writeFails, world, active
<1> QED  BY <1>1, <1>2, <1>3, <1>4, <1>5, <1>6, <1>7, <1>8, <1>9 DEF flowStep

(* The values of a flow.                                                   *)
LEMMA FlowValues ==
    ASSUME Flows, Past, NEW f \in Requests, flowStep(f)
    PROVE  /\ value'[f] # None => OneRendering(value'[f])
           /\ value'[f] \in {value[f], None} \/ (\E b \in BOOLEAN : value'[f] = rendered(b) /\ (b => ~isAppPath))
           /\ pc'[f] = "done" => value'[f] = None /\ cached'[f] = None
           /\ pc'[f] # "writing" => files'[f] = allWritten
           /\ pc'[f] # "idle"
<1>0. TypeOK /\ NothingLeft /\ (value[f] # None => OneRendering(value[f])) /\ (pc[f] # "writing" => files[f] = allWritten)
  BY DEF Flows, Typed, Past, NothingLeft
<1>1. ASSUME NEW b \in BOOLEAN, b => ~isAppPath PROVE OneRendering(rendered(b))
  <2>1. rendered(b).html = [version |-> source, late |-> FALSE] /\ rendered(b).rsc = rendered(b).html
        /\ rendered(b).tagged = isAppPath /\ rendered(b).bare = b
    BY DEF rendered
  <2>2. source \in 0..source
    BY <1>0 DEF TypeOK
  <2> QED  BY <1>1, <2>1, <2>2 DEF OneRendering
<1> DEFINE Goal == /\ value'[f] \in {value[f], None} \/ (\E b \in BOOLEAN : value'[f] = rendered(b) /\ (b => ~isAppPath))
                   /\ pc'[f] = "done" => value'[f] = None /\ cached'[f] = None
                   /\ pc'[f] # "writing" => files'[f] = allWritten
                   /\ pc'[f] # "idle"
<1>2. ASSUME done(f) PROVE Goal
  BY <1>0, <1>2, DoneLeaves
<1>3. ASSUME readMemory(f) \/ readRsc(f) PROVE Goal
  <2>1. (\E entry : received(f, entry)) /\ pc[f] # "writing"
    BY <1>3 DEF readMemory, readRsc
  <2>2. PICK entry : received(f, entry)
    BY <2>1
  <2> QED  BY <1>0, <2>1, <2>2, ReceivedLeaves
<1>4. ASSUME readHtml(f) \/ stat(f) \/ readMeta(f) \/ readFails(f) PROVE Goal
  <2>1. UNCHANGED <<value, files>> /\ \E where \in {"stat", "meta", "rsc", "generate"} : pc' = [pc EXCEPT ![f] = where]
    BY <1>4 DEF readHtml, stat, readMeta, readFails
  <2>2. pc[f] # "writing"
    BY <1>4 DEF readHtml, stat, readMeta, readFails
  <2> QED  BY <1>0, <2>1, <2>2 DEF TypeOK
<1>5. ASSUME responseGenerator(f) PROVE Goal
  <2>1. PICK b \in {FALSE, ~isAppPath} : value' = [value EXCEPT ![f] = rendered(b)]
    BY <1>5 DEF responseGenerator
  <2>2. value'[f] = rendered(b) /\ pc'[f] = "generating" /\ files' = files /\ pc[f] = "generate"
    BY <1>0, <1>5, <2>1 DEF responseGenerator, TypeOK
  <2>3. b \in BOOLEAN /\ (b => ~isAppPath)
    BY <1>0 DEF TypeOK
  <2> QED  BY <1>0, <2>2, <2>3
<1>6. ASSUME (generated(f) \/ failed(f)) /\ ~done(f) PROVE Goal
  <2>1. value' = value /\ pc'[f] = "writing"
    BY <1>0, <1>6 DEF generated, failed, set, TypeOK
  <2> QED  BY <2>1
<1>7. ASSUME NEW file \in Files, openFile(f, file) \/ write(f, file) PROVE Goal
  BY <1>7 DEF openFile, write
<1>8. ASSUME generatedUncacheable(f) \/ generatedNothing(f) \/ stored(f) \/ \E file \in Files : writeFails(f, file) PROVE Goal
  BY <1>2, <1>8 DEF generatedUncacheable, generatedNothing, stored, writeFails
<1>9. Goal
  BY <1>2, <1>3, <1>4, <1>5, <1>6, <1>7, <1>8 DEF flowStep
<1> HIDE DEF Goal
<1>10. source' = source /\ isAppPath' = isAppPath
  BY FlowStepLeaves
<1> QED  BY <1>0, <1>1, <1>9 DEF Goal, TypeOK

(* Only three steps leave a flow reading files, only two have it write.    *)
LEMMA ReadingSteps ==
    ASSUME Flows, NEW f \in Requests, flowStep(f), ~readHtml(f), ~stat(f), ~readMeta(f)
    PROVE  ~isReading(f)'
<1>0. TypeOK
  BY DEF Flows, Typed
<1>1. CASE readMemory(f) \/ readRsc(f)
  <2>1. \E entry : received(f, entry)
    BY <1>1 DEF readMemory, readRsc
  <2> QED  BY <1>0, <2>1, ReceivedLeaves DEF isReading
<1>2. CASE done(f)
  BY <1>0, <1>2, DoneLeaves DEF isReading
<1>3. CASE readFails(f) \/ responseGenerator(f) \/ generated(f) \/ (failed(f) /\ ~done(f))
  BY <1>0, <1>3 DEF readFails, responseGenerator, generated, failed, set, isReading, TypeOK
<1>4. ASSUME NEW file \in Files, openFile(f, file) \/ write(f, file) PROVE ~isReading(f)'
  BY <1>4 DEF openFile, write, isReading
<1> QED  BY <1>1, <1>2, <1>3, <1>4 DEF flowStep, generatedUncacheable, generatedNothing, stored, writeFails

LEMMA WritingSteps ==
    ASSUME Flows, NEW f \in Requests, flowStep(f), pc'[f] = "writing"
    PROVE  \/ generated(f) \/ (failed(f) /\ cached[f] # None)
           \/ \E file \in Files : openFile(f, file) \/ write(f, file)
<1>0. TypeOK
  BY DEF Flows, Typed
<1>1. CASE readMemory(f) \/ readRsc(f)
  <2>1. \E entry : received(f, entry)
    BY <1>1 DEF readMemory, readRsc
  <2> QED  BY <1>0, <2>1, ReceivedLeaves
<1>2. CASE done(f)
  BY <1>0, <1>2, DoneLeaves
<1>3. CASE readHtml(f) \/ stat(f) \/ readMeta(f) \/ readFails(f) \/ responseGenerator(f)
  BY <1>0, <1>3 DEF readHtml, stat, readMeta, readFails, responseGenerator, TypeOK
<1> QED
  BY <1>1, <1>2, <1>3 DEF flowStep, generatedUncacheable, generatedNothing, stored, writeFails, failed

(* What the other steps leave alone.                                       *)
LEMMA OtherStepLeaves ==
    ASSUME Flows, [Next]_vars, \A f \in Requests : ~flowStep(f)
    PROVE  /\ memory' \in {memory, None} /\ isAppPath' = isAppPath
           /\ \/ UNCHANGED <<data, cached, value, files, promise, answer>>
                 /\ \A f \in Requests : pc'[f] = pc[f] \/ (~active(f) /\ pc'[f] = "scheduled")
              \/ restart
           /\ disk' = disk \/ \E w \in stray : strayWrite(w)
           /\ stray = {} => stray' = {}
           /\ promised' = promised \/ (revalidateTag /\ promised' = [promised EXCEPT !.tag = source])
           /\ now' \in {now, now + 1} /\ source' \in {source, source + 1}
           /\ tag' = tag \/ restart \/ revalidateTag
           /\ faults \subseteq faults'
           /\ least' = least \/ \E r \in Requests : least' = [least EXCEPT ![r] = promised]
<1> DEFINE Goal ==
           /\ memory' \in {memory, None} /\ isAppPath' = isAppPath
           /\ \/ UNCHANGED <<data, cached, value, files, promise, answer>>
                 /\ \A f \in Requests : pc'[f] = pc[f] \/ (~active(f) /\ pc'[f] = "scheduled")
              \/ restart
           /\ disk' = disk \/ \E w \in stray : strayWrite(w)
           /\ stray = {} => stray' = {}
           /\ promised' = promised \/ (revalidateTag /\ promised' = [promised EXCEPT !.tag = source])
           /\ now' \in {now, now + 1} /\ source' \in {source, source + 1}
           /\ tag' = tag \/ restart \/ revalidateTag
           /\ faults \subseteq faults'
           /\ least' = least \/ \E r \in Requests : least' = [least EXCEPT ![r] = promised]
<1>0. TypeOK
  BY DEF Flows, Typed
<1>1. ASSUME NEW r \in Requests, NEW k \in Kinds, get(r, k) PROVE Goal
  <2>1. kind[r] = "none"
    BY <1>0, <1>1 DEF get, Requests, TypeOK
  <2>2. ~active(r)
    BY <2>1 DEF Flows, FlowsArePending, Kinds
  <2>3. pc' = pc \/ pc' = [pc EXCEPT ![r] = "scheduled"]
    BY <1>1 DEF get, begin, join
  <2>4. faults \subseteq faults'
    BY <1>1 DEF get, begin, join
  <2>5. \A f \in Requests : pc'[f] = pc[f] \/ (~active(f) /\ pc'[f] = "scheduled")
    BY <1>0, <2>2, <2>3 DEF TypeOK
  <2> QED  BY <1>1, <2>4, <2>5 DEF get, world
<1>2. CASE (\E w \in stray : strayWrite(w) \/ strayFails(w)) \/ evict \/ tick \/ sourceChanges \/ UNCHANGED vars
  <2>1. UNCHANGED <<data, cached, value, files, promise, answer, pc, promised, least, tag, faults, isAppPath>>
    BY <1>2 DEF strayWrite, strayFails, evict, tick, sourceChanges, vars, flowVars, ghosts, world
  <2>2. memory' \in {memory, None} /\ now' \in {now, now + 1} /\ source' \in {source, source + 1}
    BY <1>2 DEF strayWrite, strayFails, evict, tick, sourceChanges, vars, world
  <2>3. disk' = disk \/ \E w \in stray : strayWrite(w)
    BY <1>2 DEF strayWrite, strayFails, evict, tick, sourceChanges, vars
  <2>4. stray = {} => stray' = {}
    BY <1>2 DEF evict, tick, sourceChanges, vars
  <2> QED  BY <2>1, <2>2, <2>3, <2>4
<1>3. CASE revalidateTag \/ restart
  <2>1. revalidateTag => promised' = [promised EXCEPT !.tag = source]
    BY DEF revalidateTag
  <2> QED  BY <1>3, <2>1 DEF revalidateTag, restart, world, flowVars
<1> QED  BY <1>1, <1>2, <1>3 DEF Next

LEMMA PastInit == Init => Past
<1> SUFFICES ASSUME Init PROVE Past
  OBVIOUS
<1>1. promised.tag = -1 /\ promised.stored = 0 /\ promised.onDemand = 0 /\ \A r \in Requests : least[r] = promised
  BY DEF Init
<1>2. PromisesArePast
  BY <1>1 DEF Init, PromisesArePast
<1>3. TimesArePast
  BY DEF Init, TimesArePast, isReading
<1>4. NothingLeft
  BY DEF Init, NothingLeft
<1> QED  BY <1>2, <1>3, <1>4 DEF Past

(* Promises only grow, but the one of the tag, which is made anew, and are *)
(* of versions there have been.                                            *)
LEMMA PromisesGrow ==
    ASSUME Flows, Past, [Next]_vars
    PROVE  /\ promised.stored <= promised'.stored /\ promised.onDemand <= promised'.onDemand
           /\ promised.tag <= promised'.tag
           /\ promised'.stored <= source /\ promised'.onDemand <= source /\ promised'.tag <= source
           /\ promised'.tag = promised.tag \/ revalidateTag
<1>0. TypeOK /\ Typed
  BY DEF Flows, Typed
<1>1. promised \in Promises /\ source \in Nat
  BY <1>0 DEF TypeOK
<1>2. promised.tag <= source /\ promised.stored <= source /\ promised.onDemand <= source
  BY DEF Past, PromisesArePast
<1>3. ASSUME NEW f \in Requests, value[f] # None PROVE value[f].html.version \in 0..source
  BY <1>3 DEF Past, NothingLeft, OneRendering
<1>4. ASSUME NEW f \in Requests, generated(f)
      PROVE  promised' = promised \/ promised' = [promised EXCEPT !.stored = larger(@, value[f].html.version)]
  BY <1>4 DEF generated
<1>5. ASSUME NEW f \in Requests, stored(f)
      PROVE  promised' = promised \/ promised' = [promised EXCEPT !.onDemand = larger(@, value[f].html.version)]
  BY <1>5 DEF stored
<1>6. ASSUME NEW f \in Requests, generated(f) \/ (stored(f) /\ cached[f] = None) PROVE value[f] # None
  BY <1>0, <1>6 DEF generated, stored, Typed, LocalsOK
<1>6a. ASSUME NEW f \in Requests, stored(f), cached[f] # None PROVE promised' = promised
  BY <1>6a DEF stored
<1>7. CASE promised' = promised
  BY <1>1, <1>2, <1>7 DEF Promises
<1>8. CASE \E v \in 0..source : promised' = [promised EXCEPT !.stored = larger(@, v)]
                                \/ promised' = [promised EXCEPT !.onDemand = larger(@, v)]
  BY <1>1, <1>2, <1>8 DEF Promises, larger
<1>9. CASE revalidateTag
  BY <1>1, <1>2, <1>9 DEF revalidateTag, Promises
<1> QED
  BY <1>3, <1>4, <1>5, <1>6, <1>6a, <1>7, <1>8, <1>9, FlowStepLeaves, OtherStepLeaves

LEMMA PastStep == Flows /\ Past /\ [Next]_vars => Past'
<1> SUFFICES ASSUME Flows, Past, [Next]_vars PROVE Past'
  OBVIOUS
<1>0. Typed /\ TypeOK /\ Typed'
  BY TypedStep DEF Flows, Typed
<1>a. \/ \E f \in Requests : flowStep(f)
      \/ \A f \in Requests : ~flowStep(f)
  OBVIOUS
<1>1. PromisesArePast'
  <2>1. source' \in {source, source + 1} /\ (least' = least \/ \E r \in Requests : least' = [least EXCEPT ![r] = promised])
    BY <1>a, FlowStepLeaves, OtherStepLeaves
  <2>2. \A r \in Requests : least'[r] \in {least[r], promised}
    BY <1>0, <2>1 DEF TypeOK
  <2>3. /\ promised \in Promises /\ promised' \in Promises /\ source \in Nat
        /\ \A r \in Requests : least[r] \in Promises
    BY <1>0 DEF Typed, TypeOK
  <2>4. ASSUME NEW r \in Requests
        PROVE  /\ least'[r].tag <= promised'.tag /\ least'[r].stored <= promised'.stored
               /\ least'[r].onDemand <= promised'.onDemand
    BY <2>2, <2>3, PromisesGrow DEF Past, PromisesArePast, Promises
  <2>5. promised'.tag <= source' /\ promised'.stored <= source' /\ promised'.onDemand <= source'
    BY <2>1, <2>3, PromisesGrow DEF Promises
  <2> QED  BY <2>4, <2>5 DEF PromisesArePast
<1>2. TimesArePast'
  <2>0. /\ now \in Nat /\ now' \in Nat /\ disk.mtime \in Nat /\ tag \in Nat \cup {-1}
        /\ memory # None => memory.lastModified \in Nat
        /\ \A f \in Requests : data[f] # None => data[f].lastModified \in Nat
        /\ \A f \in Requests : isReading(f) => data[f] # None
    BY <1>0 DEF Typed, TypeOK, Entry, LocalsOK
  <2>1. ASSUME NEW f \in Requests, flowStep(f) PROVE TimesArePast'
    <3>1. now' = now /\ tag' = tag
      BY <2>1, FlowStepLeaves
    <3>2. disk'.mtime \in {disk.mtime, now}
      BY <1>0, <2>1, FlowStepLeaves, DiskTyped DEF openFile, write
    <3>3. memory' = memory \/ memory'.lastModified = now \/ (pc[f] = "rsc" /\ memory'.lastModified = data[f].lastModified)
      <4>1. CASE readRsc(f)
        <5>1. data[f] \in Entry
          BY <1>0, <4>1 DEF readRsc, TypeOK, Typed, LocalsOK, isReading
        <5>2. [data[f] EXCEPT !.value.rsc = disk.rsc].lastModified = data[f].lastModified
          BY <5>1 DEF Entry
        <5> QED  BY <4>1, <5>2 DEF readRsc, remember
      <4>2. CASE generated(f) \/ failed(f)
        BY <4>2 DEF generated, failed, set, remember
      <4> QED  BY <2>1, <4>1, <4>2 DEF flowStep, readMemory, readHtml, stat, readMeta, readFails, responseGenerator,
                  generatedUncacheable, generatedNothing, openFile, write, stored, writeFails
    <3>4. (isReading(f) => data[f].lastModified <= now)'
      <4>1. CASE readHtml(f)
        BY <1>0, <3>1, <4>1 DEF readHtml, TypeOK
      <4>2. CASE stat(f)
        <5>1. data[f] \in Entry
          BY <1>0, <4>2 DEF stat, TypeOK, Typed, LocalsOK, isReading
        <5>2. data'[f].lastModified = disk.mtime
          BY <1>0, <4>2, <5>1 DEF stat, TypeOK, Entry
        <5> QED  BY <3>1, <5>2 DEF Past, TimesArePast
      <4>3. CASE readMeta(f)
        <5>1. data[f] \in Entry /\ data[f].lastModified <= now
          BY <1>0, <4>3 DEF readMeta, TypeOK, Typed, LocalsOK, isReading, Past, TimesArePast
        <5>2. data'[f].lastModified = data[f].lastModified
          BY <1>0, <4>3, <5>1 DEF readMeta, TypeOK, Entry
        <5> QED  BY <3>1, <5>1, <5>2
      <4>4. CASE ~readHtml(f) /\ ~stat(f) /\ ~readMeta(f)
        <5>1. ~isReading(f)'
          BY <2>1, <4>4, ReadingSteps
        <5> QED  BY <5>1
      <4> QED  BY <4>1, <4>2, <4>3, <4>4
    <3>5. \A g \in Requests \ {f} : (isReading(g) => data[g].lastModified <= now)'
      BY <2>1, <3>1, FlowStepLeaves DEF LeavesOthers, isReading, Past, TimesArePast
    <3>6. (memory # None => memory.lastModified <= now)'
      BY <2>0, <3>1, <3>3 DEF Past, TimesArePast, isReading
    <3> QED  BY <2>0, <3>1, <3>2, <3>4, <3>5, <3>6 DEF Past, TimesArePast
  <2>2. CASE \A f \in Requests : ~flowStep(f)
    <3>1. memory' \in {memory, None} /\ now' \in {now, now + 1}
      BY <2>2, OtherStepLeaves
    <3>2. disk'.mtime \in {disk.mtime, now}
      BY <1>0, <2>2, OtherStepLeaves, DiskTyped DEF strayWrite, TypeOK
    <3>3. tag' \in {tag, now, -1}
      BY <2>2, OtherStepLeaves DEF restart, revalidateTag
    <3>4. ASSUME NEW f \in Requests, isReading(f)' PROVE isReading(f) /\ data'[f] = data[f]
      <4>1. CASE restart
        BY <1>0, <3>4, <4>1 DEF restart, isReading, active, TypeOK
      <4>2. CASE ~restart
        BY <2>2, <3>4, <4>2, OtherStepLeaves DEF isReading
      <4> QED  BY <4>1, <4>2
    <3>5. \A f \in Requests : (isReading(f) => data[f].lastModified <= now)'
      BY <2>0, <3>1, <3>4 DEF Past, TimesArePast
    <3> QED  BY <2>0, <3>1, <3>2, <3>3, <3>5 DEF Past, TimesArePast
  <2> QED  BY <1>a, <2>1, <2>2
<1>3. NothingLeft'
  <2>1. ASSUME NEW f \in Requests, flowStep(f) PROVE NothingLeft'
    <3>1. active(f) /\ kind[f] # "none" /\ kind' = kind /\ LeavesOthers(f) /\ source' = source /\ isAppPath' = isAppPath
      BY <2>1, FlowStepLeaves DEF Flows, FlowsArePending, Kinds
    <3>2. /\ ~active(f)' => cached'[f] = None /\ value'[f] = None
          /\ pc'[f] # "writing" => files'[f] = allWritten
          /\ (value[f] # None => OneRendering(value[f]))'
      BY <2>1, <3>1, FlowValues DEF active, OneRendering
    <3>3. ASSUME NEW g \in Requests \ {f}
          PROVE  /\ ~active(g)' => cached'[g] = None /\ value'[g] = None
                 /\ pc'[g] # "writing" => files'[g] = allWritten
                 /\ (value[g] # None => OneRendering(value[g]))'
                 /\ kind'[g] = "none" => promise'[g] = "none"
      BY <3>1 DEF Past, NothingLeft, LeavesOthers, active, OneRendering
    <3> QED  BY <3>1, <3>2, <3>3 DEF NothingLeft, allWritten
  <2>2. CASE restart
    <3>1. \A f \in Requests : /\ ~active(f)' /\ cached'[f] = None /\ value'[f] = None /\ files'[f] = allWritten
                              /\ kind'[f] = "none" => promise'[f] = "none"
      BY <1>0, <2>2 DEF restart, active, TypeOK, Past, NothingLeft, Flows, FlowsArePending, Kinds
    <3> QED  BY <3>1 DEF NothingLeft, allWritten
  <2>3. CASE ~restart /\ \A f \in Requests : ~flowStep(f)
    <3>1. /\ UNCHANGED <<data, cached, value, files, promise, isAppPath>>
          /\ \A f \in Requests : pc'[f] = pc[f] \/ (~active(f) /\ pc'[f] = "scheduled")
          /\ source' \in {source, source + 1} /\ source \in Nat
      BY <1>0, <2>3, OtherStepLeaves DEF TypeOK
    <3>2. \A f \in Requests : kind'[f] = "none" => kind[f] = "none"
      <4>1. CASE UNCHANGED kind
        BY <4>1
      <4>2. ASSUME NEW r \in Requests, NEW k \in Kinds, get(r, k)
            PROVE  \A f \in Requests : kind'[f] = "none" => kind[f] = "none"
        BY <1>0, <4>2 DEF get, begin, join, TypeOK, Kinds
      <4> QED  BY <2>3, <4>1, <4>2 DEF Next, strayWrite, strayFails, revalidateTag, evict, tick, sourceChanges, vars
    <3>3. \A f \in Requests : value'[f] # None => OneRendering(value[f])'
      BY <3>1 DEF Past, NothingLeft, OneRendering
    <3> QED  BY <3>1, <3>2, <3>3 DEF Past, NothingLeft, active, allWritten
  <2> QED  BY <1>a, <2>1, <2>2, <2>3
<1> QED  BY <1>1, <1>2, <1>3 DEF Past

-----------------------------------------------------------------------------
(* As long as flows do not overlap and no write fails, what has been read  *)
(* and what has been written of the files is what is still there.          *)
calm == faults \cap {"overlap", "writeError"} = {}

ReadStays ==
    \A f \in Requests : isReading(f) =>
        /\ data[f].value.html = disk.html /\ ~data[f].value.bare
        /\ pc[f] # "stat" => data[f].lastModified = disk.mtime
        /\ pc[f] = "meta" => isAppPath
        /\ IF pc[f] = "rsc" THEN data[f].value.tagged = isAppPath \/ "untagged" \in faults ELSE ~data[f].value.tagged
WrittenStays ==
    \A f \in Requests : pc[f] = "writing" =>
        /\ content(f).bare => files[f] = allWritten
        /\ ~content(f).bare => \A file \in Files : files[f][file] = "written" =>
              /\ disk[file].version = content(f)[file].version
              /\ f \notin late => disk[file] = content(f)[file]

OnDisk == calm => ReadStays /\ WrittenStays /\ stray = {}

Base == Flows /\ Past /\ OnDisk

(* The flow that takes a step is the only one that has anything.           *)
LEMMA Lone ==
    ASSUME Flows, Past, "overlap" \notin faults, NEW f \in Requests, flowStep(f), NEW g \in Requests, g # f
    PROVE  /\ pc'[g] \in {"idle", "done"} /\ cached'[g] = None /\ value'[g] = None /\ files'[g] = allWritten
           /\ pc'[g] = pc[g] /\ promise'[g] = promise[g] /\ answer'[g] = answer[g] /\ files[g] = allWritten
<1>1. active(f) /\ LeavesOthers(f)
  BY FlowStepLeaves
<1>2. ~active(g)
  BY <1>1, OnlyFlow
<1> QED  BY <1>1, <1>2 DEF active, LeavesOthers, Past, NothingLeft

LEMMA AllWrittenFacts ==
    /\ \A file \in Files : allWritten[file] = "written"
    /\ \A how \in [Files -> {"todo", "opened", "written"}] :
          (\A file \in Files : how[file] = "written") => how = allWritten
BY DEF allWritten

LEMMA ContentNext ==
    ASSUME Typed, NEW f \in Requests
    PROVE  /\ generated(f) => content(f)' = value[f] /\ value[f] \in Page
           /\ failed(f) /\ cached[f] # None => content(f)' = cached[f].value /\ cached[f].value \in Page
           /\ \A file \in Files : openFile(f, file) \/ write(f, file) => content(f)' = content(f) /\ content(f) \in Page
<1>1. generated(f) => content(f)' = value[f] /\ value[f] \in Page
  BY DEF generated, content, Typed, TypeOK, LocalsOK
<1>2. failed(f) /\ cached[f] # None => content(f)' = cached[f].value /\ cached[f].value \in Page
  BY EntryFacts DEF failed, content, Typed, TypeOK
<1>3. ASSUME NEW file \in Files, openFile(f, file) \/ write(f, file)
      PROVE  content(f)' = content(f) /\ content(f) \in Page
  BY <1>3, ContentTyped DEF openFile, write, content
<1> QED  BY <1>1, <1>2, <1>3

(* The files of a flow and those on disk.                                  *)
LEMMA FileSteps ==
    ASSUME Typed, NEW f \in Requests, NEW file \in Files
    PROVE  /\ openFile(f, file) =>
                /\ files[f][file] = "todo" /\ files'[f][file] = "opened" /\ disk'[file] = Partial
                /\ \A g \in Files \ {file} : files'[f][g] = files[f][g] /\ disk'[g] = disk[g]
                /\ disk'.mtime = IF file = "html" THEN now ELSE disk.mtime
           /\ write(f, file) =>
                /\ files[f][file] = "opened" /\ files'[f][file] = "written"
                /\ disk'[file] = stamped(f, content(f))[file]
                /\ \A g \in Files \ {file} : files'[f][g] = files[f][g] /\ disk'[g] = disk[g]
                /\ disk'.mtime = IF file = "html" THEN now ELSE disk.mtime
<1>0. TypeOK
  BY DEF Typed
<1>1. \A status : [files EXCEPT ![f][file] = status][f][file] = status
                  /\ \A g \in Files \ {file} : [files EXCEPT ![f][file] = status][f][g] = files[f][g]
  BY <1>0 DEF TypeOK
<1>2. /\ emptied(file).mtime = IF file = "html" THEN now ELSE disk.mtime
      /\ \A p : fileWritten(file, p).mtime = IF file = "html" THEN now ELSE disk.mtime
  BY <1>0 DEF emptied, fileWritten, mtimeAt, TypeOK, Files
<1>3. ASSUME openFile(f, file)
      PROVE  /\ files[f][file] = "todo" /\ files'[f][file] = "opened" /\ disk'[file] = Partial
             /\ \A g \in Files \ {file} : files'[f][g] = files[f][g] /\ disk'[g] = disk[g]
             /\ disk'.mtime = IF file = "html" THEN now ELSE disk.mtime
  <2>1. files' = [files EXCEPT ![f][file] = "opened"] /\ disk' = emptied(file) /\ files[f][file] = "todo"
    BY <1>3 DEF openFile
  <2>2. files'[f][file] = "opened" /\ \A g \in Files \ {file} : files'[f][g] = files[f][g]
    BY <1>1, <2>1
  <2> QED  BY <1>0, <1>2, <2>1, <2>2, DiskTyped
<1>4. ASSUME write(f, file)
      PROVE  /\ files[f][file] = "opened" /\ files'[f][file] = "written"
             /\ disk'[file] = stamped(f, content(f))[file]
             /\ \A g \in Files \ {file} : files'[f][g] = files[f][g] /\ disk'[g] = disk[g]
             /\ disk'.mtime = IF file = "html" THEN now ELSE disk.mtime
  <2>1. /\ files' = [files EXCEPT ![f][file] = "written"] /\ files[f][file] = "opened"
        /\ disk' = fileWritten(file, stamped(f, content(f)))
    BY <1>4 DEF write
  <2>2. files'[f][file] = "written" /\ \A g \in Files \ {file} : files'[f][g] = files[f][g]
    BY <1>1, <2>1
  <2> QED  BY <1>0, <1>2, <2>1, <2>2, DiskTyped
<1> QED  BY <1>3, <1>4

LEMMA OnDiskInit == Init => OnDisk
BY DEF Init, OnDisk, ReadStays, WrittenStays, isReading

LEMMA OnDiskStep == Base /\ [Next]_vars => OnDisk'
<1> SUFFICES ASSUME Base, [Next]_vars, calm' PROVE (ReadStays /\ WrittenStays /\ stray = {})'
  BY DEF OnDisk
<1>0. Typed /\ TypeOK /\ Flows /\ Past
  BY DEF Base, Flows, Typed
<1>1. faults \subseteq faults'
  BY <1>0, FlowStepLeaves, OtherStepLeaves
<1>2. calm /\ ReadStays /\ WrittenStays /\ stray = {} /\ "overlap" \notin faults /\ "writeError" \notin faults'
  BY <1>1 DEF calm, Base, OnDisk
<1>3. ASSUME NEW f \in Requests, flowStep(f) PROVE (ReadStays /\ WrittenStays /\ stray = {})'
  <2>1. \A g \in Requests \ {f} : pc'[g] \in {"idle", "done"}
    BY <1>0, <1>2, <1>3, Lone
  <2>2. late' = late /\ isAppPath' = isAppPath /\ stray' = {}
    BY <1>0, <1>2, <1>3, FlowStepLeaves
  <2>3. ReadStays'
    <3>1. CASE readHtml(f)
      <4>1. /\ data'[f] = [value |-> [bare |-> FALSE, tagged |-> FALSE, html |-> disk.html, rsc |-> Partial],
                           lastModified |-> 0]
            /\ pc'[f] = "stat" /\ disk' = disk
        BY <1>0, <3>1 DEF readHtml, TypeOK
      <4>2. /\ data'[f].value.html = disk.html /\ ~data'[f].value.bare /\ ~data'[f].value.tagged
        BY <4>1
      <4> QED  BY <2>1, <4>1, <4>2 DEF ReadStays, isReading
    <3>2. CASE stat(f)
      <4>1. data[f] \in Entry /\ isReading(f)
        BY <1>0, <3>2 DEF stat, TypeOK, Typed, LocalsOK, isReading
      <4>2. /\ data'[f].value = data[f].value /\ data'[f].lastModified = disk.mtime /\ disk' = disk
            /\ pc'[f] = IF isAppPath THEN "meta" ELSE "rsc"
        BY <1>0, <3>2, <4>1 DEF stat, TypeOK, Entry
      <4>3. data[f].value.html = disk.html /\ ~data[f].value.bare /\ ~data[f].value.tagged
        BY <1>2, <3>2, <4>1 DEF ReadStays, stat
      <4>4. data[f].value \in Page /\ isAppPath \in BOOLEAN
        BY <1>0, <4>1, EntryFacts DEF TypeOK
      <4> QED  BY <2>1, <2>2, <4>2, <4>3, <4>4, PageFacts DEF ReadStays, isReading
    <3>3. CASE readMeta(f)
      <4>1. data[f] \in Entry /\ isReading(f) /\ data[f].value \in Page
        BY <1>0, <3>3, EntryFacts DEF readMeta, TypeOK, Typed, LocalsOK, isReading
      <4>2. data[f].value.html = disk.html /\ ~data[f].value.bare /\ data[f].lastModified = disk.mtime /\ isAppPath
        BY <1>2, <3>3, <4>1 DEF ReadStays, readMeta
      <4>3. pc'[f] = "rsc" /\ disk' = disk
        BY <1>0, <3>3 DEF readMeta, TypeOK
      <4>4. CASE data' = data /\ faults' = faults \cup {"untagged"}
        BY <2>1, <2>2, <4>2, <4>3, <4>4 DEF ReadStays, isReading
      <4>5. CASE data' = [data EXCEPT ![f].value.tagged = TRUE]
        <5>1. data'[f] = [data[f] EXCEPT !.value.tagged = TRUE]
          BY <1>0, <4>5 DEF TypeOK
        <5>2. /\ data'[f].value = [data[f].value EXCEPT !.tagged = TRUE]
              /\ data'[f].lastModified = data[f].lastModified
          BY <4>1, <5>1 DEF Entry
        <5>3. data'[f].value.html = data[f].value.html /\ data'[f].value.bare = data[f].value.bare
              /\ data'[f].value.tagged = TRUE
          BY <4>1, <5>2 DEF Page
        <5> QED  BY <2>1, <2>2, <4>2, <4>3, <5>2, <5>3 DEF ReadStays, isReading
      <4> QED  BY <3>3, <4>4, <4>5 DEF readMeta
    <3>4. CASE ~readHtml(f) /\ ~stat(f) /\ ~readMeta(f)
      BY <1>0, <1>3, <2>1, <3>4, ReadingSteps DEF ReadStays, isReading
    <3> QED  BY <3>1, <3>2, <3>3, <3>4
  <2>4. WrittenStays'
    <3> DEFINE Here == /\ content(f)'.bare => files'[f] = allWritten
                       /\ ~content(f)'.bare => \A file \in Files : files'[f][file] = "written" =>
                             /\ disk'[file].version = content(f)'[file].version
                             /\ f \notin late => disk'[file] = content(f)'[file]
    <3>1. ASSUME NEW p \in Page, set(f, p), content(f)' = p PROVE Here
      BY <1>0, <3>1, SetLeaves
    <3>2. ASSUME generated(f) \/ (failed(f) /\ cached[f] # None) PROVE Here
      BY <1>0, <3>1, <3>2, ContentNext DEF generated, failed
    <3>3. ASSUME NEW file \in Files, openFile(f, file) \/ write(f, file) PROVE Here
      <4>1. content(f)' = content(f) /\ content(f) \in Page /\ pc[f] = "writing"
        BY <1>0, <3>3, ContentNext DEF openFile, write
      <4>2. files[f] # allWritten
        BY <1>0, <3>3, FileSteps, AllWrittenFacts
      <4>3. ~content(f).bare /\ \A g \in Files : files[f][g] = "written" =>
                                   /\ disk[g].version = content(f)[g].version
                                   /\ f \notin late => disk[g] = content(f)[g]
        BY <1>2, <4>1, <4>2 DEF WrittenStays
      <4>4. /\ stamped(f, content(f))[file].version = content(f)[file].version
            /\ f \notin late => stamped(f, content(f)) = content(f)
        BY <4>1, StampedTyped DEF Files
      <4>5. ASSUME NEW g \in Files, files'[f][g] = "written"
            PROVE  /\ disk'[g].version = content(f)[g].version
                   /\ f \notin late => disk'[g] = content(f)[g]
        BY <1>0, <3>3, <4>3, <4>4, <4>5, FileSteps
      <4> QED  BY <4>1, <4>3, <4>5
    <3>4. pc'[f] = "writing" => Here
      BY <1>0, <1>3, <3>2, <3>3, WritingSteps
    <3> QED  BY <2>1, <2>2, <3>4 DEF WrittenStays, allWritten
  <2> QED  BY <2>2, <2>3, <2>4
<1>4. CASE restart
  <2>1. \A f \in Requests : pc'[f] \in {"idle", "done"}
    BY <1>0, <1>4 DEF restart, active, TypeOK
  <2> QED  BY <1>4, <2>1 DEF restart, ReadStays, WrittenStays, isReading
<1>5. CASE ~restart /\ \A f \in Requests : ~flowStep(f)
  <2>1. /\ UNCHANGED <<data, cached, value, files, isAppPath, disk>> /\ stray' = {}
        /\ \A f \in Requests : pc'[f] = pc[f] \/ pc'[f] = "scheduled"
    BY <1>0, <1>2, <1>5, OtherStepLeaves
  <2>2. late \subseteq late'
    BY <1>5 DEF Next, get, strayWrite, strayFails, revalidateTag, evict, tick, sourceChanges, vars, ghosts
  <2>3. ReadStays'
    BY <1>1, <1>2, <2>1 DEF ReadStays, isReading
  <2>4. \A f \in Requests : content(f)' = content(f)
    BY <2>1 DEF content
  <2>5. WrittenStays'
    BY <1>2, <2>1, <2>2, <2>4 DEF WrittenStays, allWritten
  <2> QED  BY <2>1, <2>3, <2>5
<1> QED  BY <1>3, <1>4, <1>5

LEMMA BaseInit == Init => Base
BY FlowsInit, PastInit, OnDiskInit DEF Base

LEMMA BaseStep == Base /\ [Next]_vars => Base'
BY FlowsStep, PastStep, OnDiskStep DEF Base

-----------------------------------------------------------------------------
(* A set of pages is kept when all that is in memory, was found or was     *)
(* rendered is of it, but for what the flows in Late have, and for what is *)
(* not usable, if Only usable entries count.  The four properties are all  *)
(* of this kind, for a set each.                                           *)
Holds(Good, Late, Only) ==
    /\ memory # None /\ (Only => ~isTagStale(memory)) => memory.value \in Good
    /\ \A f \in Requests \ Late : /\ cached[f] # None => cached[f].value \in Good
                                  /\ value[f] # None => value[f] \in Good
HoldsNext(Good, Late, Only) ==
    /\ memory' # None /\ (Only => ~isTagStale(memory)') => memory'.value \in Good
    /\ \A f \in Requests \ Late : /\ cached'[f] # None => cached'[f].value \in Good
                                  /\ value'[f] # None => value'[f] \in Good

(* What the flow answers with, if it does.                                 *)
AnswersIn(f, Good, Late) ==
    \/ promise'[f] = promise[f] /\ answer'[f] = answer[f]
    \/ promise'[f] # "page"
    \/ answer'[f] \in Page /\ (f \in Late \/ answer'[f] \in Good)

(* The entry that the last file completes.                                 *)
entryRead(f) == [data[f] EXCEPT !.value.rsc = disk.rsc]

LEMMA EntryReadIs ==
    ASSUME Base, NEW f \in Requests, readRsc(f)
    PROVE  /\ entryRead(f) \in Entry /\ entryRead(f).value \in Page
           /\ remember(entryRead(f)) /\ received(f, entryRead(f))
           /\ entryRead(f).value.rsc = disk.rsc
           /\ calm => /\ entryRead(f).value.html = disk.html /\ ~entryRead(f).value.bare
                      /\ entryRead(f).lastModified = disk.mtime
                      /\ entryRead(f).value.tagged = isAppPath \/ "untagged" \in faults
                      /\ \A g \in Requests : files[g] = allWritten
<1>0. TypeOK /\ Typed /\ Flows /\ Past
  BY DEF Base, Flows, Typed
<1>1. data[f] \in Entry /\ data[f].value \in Page /\ disk.rsc \in Version /\ isReading(f) /\ pc[f] = "rsc"
  BY <1>0, EntryFacts DEF readRsc, TypeOK, Typed, LocalsOK, isReading
<1>2. PICK p \in Page, m \in Nat : data[f] = [value |-> p, lastModified |-> m]
  BY <1>1 DEF Entry
<1>3. entryRead(f) = [value |-> [p EXCEPT !.rsc = disk.rsc], lastModified |-> m]
  BY <1>2 DEF entryRead
<1>4. /\ [p EXCEPT !.rsc = disk.rsc] \in Page /\ [p EXCEPT !.rsc = disk.rsc].rsc = disk.rsc
      /\ [p EXCEPT !.rsc = disk.rsc].html = p.html /\ [p EXCEPT !.rsc = disk.rsc].bare = p.bare
      /\ [p EXCEPT !.rsc = disk.rsc].tagged = p.tagged
  BY <1>1 DEF Page
<1>5. /\ entryRead(f) \in Entry /\ entryRead(f).value \in Page
      /\ entryRead(f).value.rsc = disk.rsc /\ entryRead(f).value.html = data[f].value.html
      /\ entryRead(f).value.bare = data[f].value.bare /\ entryRead(f).value.tagged = data[f].value.tagged
      /\ entryRead(f).lastModified = data[f].lastModified
  <2> DEFINE q == [p EXCEPT !.rsc = disk.rsc]
  <2>1. q \in Page /\ q.rsc = disk.rsc /\ q.html = p.html /\ q.bare = p.bare /\ q.tagged = p.tagged
    BY <1>4
  <2>2. entryRead(f) = [value |-> q, lastModified |-> m]
    BY <1>3
  <2> HIDE DEF q
  <2>3. entryRead(f).value = q /\ entryRead(f).lastModified = m /\ entryRead(f) \in Entry
    BY <2>1, <2>2 DEF Entry
  <2>4. data[f].value = p /\ data[f].lastModified = m
    BY <1>2
  <2> QED  BY <2>1, <2>3, <2>4
<1>6. remember(entryRead(f)) /\ received(f, entryRead(f))
  BY DEF readRsc, entryRead
<1>7. ASSUME calm
      PROVE  /\ data[f].value.html = disk.html /\ ~data[f].value.bare
             /\ data[f].lastModified = disk.mtime
             /\ data[f].value.tagged = isAppPath \/ "untagged" \in faults
             /\ \A g \in Requests : files[g] = allWritten
  <2>1. flowStep(f) /\ "overlap" \notin faults
    BY <1>7 DEF flowStep, calm
  <2>2. \A g \in Requests \ {f} : files[g] = allWritten
    BY <1>0, <2>1, Lone
  <2>3. files[f] = allWritten
    BY <1>0, <1>1 DEF Past, NothingLeft
  <2> QED  BY <1>1, <1>7, <2>2, <2>3 DEF Base, OnDisk, ReadStays
<1> QED  BY <1>5, <1>6, <1>7

(* The files of a flow are all written when it ends, or it is not calm.    *)
LEMMA FilesBecomeWritten ==
    ASSUME Flows, Past, NEW f \in Requests, flowStep(f), files[f] # allWritten, "writeError" \notin faults'
    PROVE  /\ \E file \in Files : openFile(f, file) \/ write(f, file)
           /\ pc[f] = "writing" /\ pc'[f] = "writing"
<1>1. pc[f] = "writing"
  BY DEF Past, NothingLeft
<1>2. ~stored(f)
  BY DEF stored
<1>3. \E file \in Files : openFile(f, file) \/ write(f, file)
  BY <1>1, <1>2 DEF flowStep, readMemory, readHtml, stat, readMeta, readRsc, readFails, responseGenerator, generated,
     generatedUncacheable, generatedNothing, failed, writeFails
<1> QED  BY <1>1, <1>3 DEF openFile, write

LEMMA SettleIn ==
    ASSUME TypeOK, NEW f \in Requests, NEW result \in Outcomes, NEW p,
           settle(f, result, p), NEW Good \in SUBSET Page, NEW Late, result # "page" \/ p \in Good
    PROVE  AnswersIn(f, Good, Late)
BY DEF settle, AnswersIn, TypeOK

LEMMA FlowHolds ==
    ASSUME Base, NEW f \in Requests, flowStep(f),
           NEW Good \in SUBSET Page, NEW Late \in SUBSET Requests, NEW Only \in BOOLEAN, Holds(Good, Late, Only),
           \A p \in Page : f \in Late \/ p \in Good => stamped(f, p) \in Good,
           readRsc(f) /\ (Only => ~isTagStale(entryRead(f))) => entryRead(f).value \in Good,
           \A b \in BOOLEAN : (b => ~isAppPath) => rendered(b) \in Good
    PROVE  HoldsNext(Good, Late, Only) /\ AnswersIn(f, Good, Late)
<1>0. TypeOK /\ Typed /\ Flows /\ Past
  BY DEF Base, Flows, Typed
<1>a. LeavesOthers(f) /\ tag' = tag
  BY <1>0, FlowStepLeaves
<1>b. \A g \in (Requests \ Late) \ {f} : /\ cached'[g] # None => cached'[g].value \in Good
                                         /\ value'[g] # None => value'[g] \in Good
  BY <1>a DEF LeavesOthers, Holds
<1> DEFINE Mine == f \notin Late => /\ cached'[f] # None => cached'[f].value \in Good
                                    /\ value'[f] # None => value'[f] \in Good
           Goal == /\ memory' # None /\ (Only => ~isTagStale(memory)') => memory'.value \in Good
                   /\ Mine
                   /\ AnswersIn(f, Good, Late)
<1>c. /\ f \notin Late => /\ cached[f] # None => cached[f].value \in Good
                          /\ value[f] # None => value[f] \in Good
      /\ memory # None /\ (Only => ~isTagStale(memory)) => memory.value \in Good
  BY DEF Holds
<1>d. ASSUME UNCHANGED memory PROVE memory' # None /\ (Only => ~isTagStale(memory)') => memory'.value \in Good
  BY <1>a, <1>c, <1>d DEF isTagStale
<1>e. value'[f] \in {value[f], None} \/ (\E b \in BOOLEAN : value'[f] = rendered(b) /\ (b => ~isAppPath))
  BY <1>0, FlowValues
<1>1. ASSUME NEW entry, received(f, entry), ~isTagStale(entry) => entry.value \in Good
      PROVE  Mine /\ AnswersIn(f, Good, Late)
  BY <1>0, <1>1, <1>c, ReceivedLeaves DEF AnswersIn
<1>2. ASSUME readMemory(f) PROVE Goal
  BY <1>1, <1>2, <1>c, <1>d DEF readMemory
<1>3. ASSUME readRsc(f) PROVE Goal
  <2>1. remember(entryRead(f)) /\ received(f, entryRead(f))
    BY <1>3, EntryReadIs
  <2>2. ~isTagStale(entryRead(f)) => entryRead(f).value \in Good
    BY <1>3
  <2>3. Mine /\ AnswersIn(f, Good, Late)
    BY <1>1, <2>1, <2>2
  <2>4. memory' # None /\ (Only => ~isTagStale(memory)') => memory'.value \in Good
    <3>1. CASE memory' = memory
      BY <1>d, <3>1
    <3>2. CASE memory' = entryRead(f)
      BY <1>3, <1>a, <3>2 DEF isTagStale
    <3> QED  BY <2>1, <3>1, <3>2 DEF remember
  <2> QED  BY <2>3, <2>4
<1>4. ASSUME UNCHANGED <<memory, promise, answer, cached>> PROVE Goal
  BY <1>4, <1>c, <1>d, <1>e DEF AnswersIn
(* A page that is set.                                                     *)
<1>f. ASSUME NEW p \in Page, set(f, p), f \in Late \/ p \in Good PROVE memory' # None /\ (Only => ~isTagStale(memory)') => memory'.value \in Good
  <2>1. stamped(f, p) \in Good
    BY <1>f
  <2>2. CASE memory' = memory
    BY <1>d, <2>2
  <2>3. CASE memory' = [value |-> stamped(f, p), lastModified |-> now]
    BY <2>1, <2>3
  <2> QED  BY <1>0, <1>f, <2>2, <2>3, SetLeaves DEF remember
<1>5. ASSUME generated(f) PROVE Goal
  <2>1. value[f] \in Page /\ (f \in Late \/ value[f] \in Good) /\ stamped(f, value[f]) \in Good
    BY <1>0, <1>5, <1>c DEF generated, TypeOK, Typed, LocalsOK
  <2>2. memory' # None /\ (Only => ~isTagStale(memory)') => memory'.value \in Good
    BY <1>5, <1>f, <2>1 DEF generated
  <2>3. AnswersIn(f, Good, Late)
    <3>1. CASE isOnDemandRevalidate(f)
      BY <1>5, <3>1 DEF generated, AnswersIn
    <3>2. CASE ~isOnDemandRevalidate(f)
      BY <1>0, <1>5, <2>1, <3>2, SettleIn DEF generated, resolve, Outcomes
    <3> QED  BY <3>1, <3>2
  <2>4. cached'[f] = None /\ value' = value
    BY <1>0, <1>5 DEF generated, TypeOK
  <2> QED  BY <1>c, <2>2, <2>3, <2>4
<1>6. ASSUME generatedUncacheable(f) \/ generatedNothing(f) PROVE Goal
  <2>1. value[f] \in Page /\ (f \in Late \/ value[f] \in Good) /\ stamped(f, value[f]) \in Good
    BY <1>0, <1>6, <1>c DEF generatedUncacheable, generatedNothing, TypeOK, Typed, LocalsOK
  <2>2. AnswersIn(f, Good, Late)
    BY <1>0, <1>6, <2>1, SettleIn DEF generatedUncacheable, generatedNothing, resolve, Outcomes
  <2>3. cached'[f] = None /\ value'[f] = None /\ memory' = memory
    BY <1>0, <1>6, DoneLeaves DEF generatedUncacheable, generatedNothing
  <2> QED  BY <1>d, <2>2, <2>3
<1>7. ASSUME failed(f) PROVE Goal
  <2>1. CASE cached[f] # None
    <3>1. cached[f].value \in Page /\ (f \in Late \/ cached[f].value \in Good) /\ set(f, cached[f].value)
      BY <1>0, <1>7, <1>c, <2>1, ContentNext DEF failed
    <3>2. UNCHANGED <<cached, value, promise, answer>>
      BY <1>7, <2>1 DEF failed
    <3> QED  BY <1>c, <1>f, <3>1, <3>2 DEF AnswersIn
  <2>2. CASE cached[f] = None
    <3>1. AnswersIn(f, Good, Late)
      BY <1>0, <1>7, <2>2, SettleIn DEF failed, Outcomes
    <3>2. cached'[f] = None /\ value'[f] = None /\ memory' = memory
      BY <1>0, <1>7, <2>2, DoneLeaves DEF failed
    <3> QED  BY <1>d, <3>1, <3>2
  <2> QED  BY <2>1, <2>2
<1>8. ASSUME stored(f) \/ \E file \in Files : writeFails(f, file) PROVE Goal
  <2>1. written(f) /\ done(f) /\ memory' = memory /\ pc[f] = "writing"
    BY <1>8 DEF stored, writeFails
  <2>2. AnswersIn(f, Good, Late)
    <3>1. CASE cached[f] = None
      <4>1. value[f] \in Page /\ (f \in Late \/ value[f] \in Good) /\ stamped(f, value[f]) \in Good
        BY <1>0, <1>c, <2>1, <3>1, ContentTyped
      <4> QED  BY <1>0, <2>1, <3>1, <4>1, SettleIn DEF written, resolve, Outcomes
    <3>2. CASE cached[f] # None
      BY <1>0, <2>1, <3>2, SettleIn DEF written, Outcomes
    <3> QED  BY <3>1, <3>2
  <2>3. cached'[f] = None /\ value'[f] = None
    BY <1>0, <2>1, DoneLeaves
  <2> QED  BY <1>d, <2>1, <2>2, <2>3
<1>9. Goal
  BY <1>2, <1>3, <1>4, <1>5, <1>6, <1>7, <1>8 DEF flowStep, readHtml, stat, readMeta, readFails, responseGenerator,
     openFile, write
<1> QED  BY <1>9, <1>b DEF HoldsNext

LEMMA OtherHolds ==
    ASSUME Base, [Next]_vars, \A f \in Requests : ~flowStep(f),
           NEW Good \in SUBSET Page, NEW Late \in SUBSET Requests, NEW Only \in BOOLEAN, Holds(Good, Late, Only)
    PROVE  HoldsNext(Good, Late, Only)
<1>0. TypeOK /\ Typed /\ Flows /\ Past
  BY DEF Base, Flows, Typed
<1>1. CASE restart
  BY <1>1 DEF restart, HoldsNext
<1>2. CASE ~restart
  <2>1. UNCHANGED <<cached, value>> /\ memory' \in {memory, None}
    BY <1>0, <1>2, OtherStepLeaves
  <2>2. tag <= tag'
    <3>1. tag' = tag \/ tag' = now
      BY <1>0, <1>2, OtherStepLeaves DEF revalidateTag
    <3> QED  BY <1>0, <3>1 DEF Past, TimesArePast, TypeOK
  <2>3. ASSUME memory' # None PROVE memory' = memory /\ (isTagStale(memory) => isTagStale(memory)')
    <3>1. memory' = memory /\ memory \in Entry
      BY <1>0, <2>1, <2>3 DEF TypeOK
    <3>2. memory.lastModified \in Nat /\ tag \in Int /\ tag' \in Int
      BY <1>0, <3>1, EntryFacts, TypedStep DEF TypeOK, Typed
    <3> QED  BY <2>2, <3>1, <3>2 DEF isTagStale
  <2> QED  BY <2>1, <2>3 DEF Holds, HoldsNext
<1> QED  BY <1>1, <1>2

(* Only a flow answers.                                                    *)
LEMMA OtherAnswers ==
    ASSUME Flows, [Next]_vars, \A f \in Requests : ~flowStep(f)
    PROVE  answer' = answer /\ \A f \in Requests : isPage(f)' => isPage(f)
<1>1. CASE restart
  BY <1>1 DEF restart, isPage
<1>2. CASE ~restart
  BY <1>2, OtherStepLeaves DEF isPage
<1> QED  BY <1>1, <1>2

(* What was promised to a request is set when it comes, before any answer. *)
LEMMA OtherLeast ==
    ASSUME Flows, Past, [Next]_vars, \A f \in Requests : ~flowStep(f), NEW g \in Requests,
           kind[g] # "none"
    PROVE  least'[g] = least[g]
<1>0. TypeOK
  BY DEF Flows, Typed
<1>1. ASSUME NEW r \in Requests, NEW k \in Kinds, get(r, k) PROVE least'[g] = least[g]
  <2>1. kind[r] = "none"
    BY <1>0, <1>1 DEF get, Requests, TypeOK
  <2> QED  BY <1>0, <1>1, <2>1 DEF get, TypeOK
<1>2. CASE ~\E r \in Requests, k \in Kinds : get(r, k)
  BY <1>2 DEF Next, strayWrite, strayFails, revalidateTag, evict, restart, tick, sourceChanges, vars, ghosts
<1> QED  BY <1>1, <1>2

-----------------------------------------------------------------------------
(* Pages of one rendering.                                                 *)
clean == faults \cap {"overlap", "writeError", "crash"} = {}
whole(p) == p.html.version = p.rsc.version
WholePages == {p \in Page : whole(p)}

DiskIsWhole == (\A f \in Requests : files[f] = allWritten) => whole(disk)
AnswersWhole == \A f \in Requests : isPage(f) => whole(answer[f])

Whole == clean => DiskIsWhole /\ Holds(WholePages, {}, FALSE) /\ AnswersWhole

LEMMA WholeInit == Init => Whole
BY DEF Init, Whole, DiskIsWhole, Holds, AnswersWhole, whole, isPage

LEMMA WholeStep == Base /\ Whole /\ [Next]_vars => Whole'
<1> SUFFICES ASSUME Base, Whole, [Next]_vars, clean'
             PROVE  (DiskIsWhole /\ Holds(WholePages, {}, FALSE) /\ AnswersWhole)'
  BY DEF Whole
<1>0. Typed /\ TypeOK /\ Flows /\ Past /\ Typed'
  BY TypedStep DEF Base, Flows, Typed
<1>1. faults \subseteq faults'
  BY <1>0, FlowStepLeaves, OtherStepLeaves
<1>2. /\ clean /\ calm /\ "overlap" \notin faults
      /\ DiskIsWhole /\ Holds(WholePages, {}, FALSE) /\ AnswersWhole
      /\ ReadStays /\ WrittenStays /\ stray = {}
  BY <1>1 DEF clean, calm, Base, OnDisk, Whole
<1>3. WholePages \in SUBSET Page /\ WholePages' = WholePages
  BY DEF WholePages, whole
<1>4. HoldsNext(WholePages, {}, FALSE) => Holds(WholePages, {}, FALSE)'
  BY <1>3 DEF HoldsNext, Holds
<1>5. ASSUME NEW f \in Requests, flowStep(f)
      PROVE  (DiskIsWhole /\ Holds(WholePages, {}, FALSE) /\ AnswersWhole)'
  <2>1. HoldsNext(WholePages, {}, FALSE) /\ AnswersIn(f, WholePages, {})
    <3>1. \A p \in Page : p \in WholePages => stamped(f, p) \in WholePages
      BY StampedTyped DEF WholePages, whole
    <3>2. readRsc(f) => entryRead(f).value \in WholePages
      <4>1. ASSUME readRsc(f) PROVE whole(disk)
        BY <1>2, <4>1, EntryReadIs DEF DiskIsWhole
      <4> QED  BY <1>2, <4>1, EntryReadIs DEF WholePages, whole
    <3>3. \A b \in BOOLEAN : rendered(b) \in WholePages
      <4>1. [version |-> source, late |-> FALSE] \in Version /\ isAppPath \in BOOLEAN
        BY <1>0, VersionFacts DEF TypeOK
      <4> QED  BY <4>1 DEF rendered, WholePages, whole, Page
    <3> QED  BY <1>2, <1>3, <1>5, <3>1, <3>2, <3>3, FlowHolds
  <2>2. AnswersWhole'
    <3>1. \A g \in Requests \ {f} : promise'[g] = promise[g] /\ answer'[g] = answer[g]
      BY <1>0, <1>5, FlowStepLeaves DEF LeavesOthers
    <3> QED  BY <1>2, <2>1, <3>1 DEF AnswersIn, AnswersWhole, isPage, WholePages, whole
  <2>3. DiskIsWhole'
    <3>1. ASSUME NEW file \in Files, openFile(f, file) PROVE DiskIsWhole'
      BY <1>0, <3>1, FileSteps, AllWrittenFacts DEF DiskIsWhole, allWritten
    <3>2. ASSUME NEW file \in Files, write(f, file), files'[f] = allWritten PROVE whole(disk)'
      <4>1. content(f) \in Page /\ whole(content(f))
        <5>1. content(f) \in Page /\ (cached[f] # None => content(f) = cached[f].value)
              /\ (cached[f] = None => content(f) = value[f] /\ value[f] # None)
          BY <1>0, <3>2, ContentTyped DEF write
        <5> QED  BY <1>2, <5>1 DEF Holds, WholePages
      <4>2. ~content(f).bare /\ \A g \in Files : files[f][g] = "written" => disk[g].version = content(f)[g].version
        <5>1. pc[f] = "writing" /\ files[f] # allWritten
          BY <1>0, <3>2, FileSteps, AllWrittenFacts DEF write
        <5> QED  BY <1>2, <5>1 DEF WrittenStays
      <4>3. stamped(f, content(f))[file].version = content(f)[file].version
        BY <4>1, StampedTyped DEF Files
      <4>4. ASSUME NEW g \in Files PROVE disk'[g].version = content(f)[g].version
        <5>1. CASE g = file
          BY <1>0, <3>2, <4>3, <5>1, FileSteps
        <5>2. CASE g # file
          BY <1>0, <3>2, <4>2, <5>2, FileSteps, AllWrittenFacts
        <5> QED  BY <5>1, <5>2
      <4>5. disk'.html.version = content(f).html.version /\ disk'.rsc.version = content(f).rsc.version
        BY <4>4 DEF Files
      <4> QED  BY <4>1, <4>5 DEF whole
    <3>3. CASE disk' = disk
      <4>1. CASE files[f] = allWritten
        <5>1. \A g \in Requests : files[g] = allWritten
          BY <1>0, <1>2, <1>5, <4>1, Lone
        <5> QED  BY <1>2, <3>3, <5>1 DEF DiskIsWhole, whole
      <4>2. CASE files[f] # allWritten
        BY <1>0, <1>5, <3>1, <3>2, <3>3, <4>2, FilesBecomeWritten, AllWrittenFacts DEF DiskIsWhole, clean, allWritten
      <4> QED  BY <4>1, <4>2
    <3> QED  BY <1>0, <1>5, <3>1, <3>2, <3>3, FlowStepLeaves DEF DiskIsWhole, allWritten
  <2> QED  BY <1>4, <2>1, <2>2, <2>3
<1>6. CASE \A f \in Requests : ~flowStep(f)
  <2>1. AnswersWhole'
    BY <1>0, <1>2, <1>6, OtherAnswers DEF AnswersWhole, whole
  <2>2. HoldsNext(WholePages, {}, FALSE)
    BY <1>2, <1>3, <1>6, OtherHolds
  <2>3. disk' = disk
    BY <1>0, <1>2, <1>6, OtherStepLeaves
  <2>4. ASSUME \A f \in Requests : files'[f] = allWritten PROVE \A f \in Requests : files[f] = allWritten
    <3>1. CASE restart
      BY <3>1 DEF restart, clean
    <3>2. CASE ~restart
      BY <1>0, <1>6, <2>4, <3>2, OtherStepLeaves
    <3> QED  BY <3>1, <3>2
  <2>5. DiskIsWhole'
    BY <1>2, <2>3, <2>4 DEF DiskIsWhole, whole, allWritten
  <2> QED  BY <1>4, <2>1, <2>2, <2>5
<1> QED  BY <1>5, <1>6

(* NotTorn: what is served and what is kept in memory is of one rendering, *)
(* as long as flows do not overlap, no write fails, and no restart comes   *)
(* between the writes of the files of a page.                              *)
THEOREM PagesAreWhole == Spec => []NotTorn
<1>1. Whole => NotTorn
  BY DEF Whole, Holds, AnswersWhole, WholePages, NotTorn, clean, whole
<1>2. (Base /\ Whole) /\ [Next]_vars => (Base /\ Whole)'
  BY BaseStep, WholeStep
<1>3. Init => Base /\ Whole
  BY BaseInit, WholeInit
<1> QED  BY <1>1, <1>2, <1>3, PTL DEF Spec

-----------------------------------------------------------------------------
(***************************************************************************)
(* The order of versions.                                                  *)
(*                                                                         *)
(* Without an overlap the flow that takes a step is alone, so that a       *)
(* promise that grows by its step concerns memory, the files and that flow *)
(* only.  For OnDemandIsDurable everything is always at least what was     *)
(* promised, but for a file that is being written: the promise grows once  *)
(* memory and both files are what was written (WritesContent).  For        *)
(* ReadsDoNotGoBack it grows when memory is set, and the html file stays   *)
(* behind until it is written (HtmlFollows).                               *)
(***************************************************************************)
durable == faults \cap {"overlap", "writeError", "cut", "kept"} = {}
PagesFrom(v) == {p \in Page : v <= p.html.version /\ v <= p.rsc.version}

DiskIsDurable ==
    \A file \in Files :
        (\A f \in Requests : files[f][file] # "opened") => promised.onDemand <= disk[file].version
(* What a flow that writes has set is what it writes.                      *)
WritesContent ==
    \A f \in Requests : pc[f] = "writing" /\ memory # None =>
        \A file \in Files : memory.value[file].version = content(f)[file].version
AnswersDurable ==
    \A f \in Requests : isPage(f) =>
        least[f].onDemand <= answer[f].html.version /\ least[f].onDemand <= answer[f].rsc.version

AllDurable == Holds(PagesFrom(promised.onDemand), {}, FALSE) /\ DiskIsDurable
Durable == durable => AllDurable /\ WritesContent /\ AnswersDurable

LEMMA DurableInit == Init => Durable
<1> SUFFICES ASSUME Init PROVE AllDurable /\ WritesContent /\ AnswersDurable
  BY DEF Durable
<1>1. promised.onDemand = 0 /\ \A file \in Files : disk[file].version = 0
  BY DEF Init, Files
<1> QED  BY <1>1 DEF Init, AllDurable, Holds, DiskIsDurable, WritesContent, AnswersDurable, isPage

LEMMA VersionsAreNumbers ==
    ASSUME TypeOK
    PROVE  /\ \A p \in Page, file \in Files : p[file] \in Version /\ p[file].version \in Int
           /\ \A file \in Files : disk[file].version \in Int
           /\ source \in Nat /\ promised.stored \in Nat /\ promised.onDemand \in Nat /\ promised.tag \in Int
           /\ \A r \in Requests : least[r].stored \in Nat /\ least[r].onDemand \in Nat /\ least[r].tag \in Int
BY PageFacts, VersionFacts DEF TypeOK, Files, Promises

LEMMA RenderedFacts ==
    ASSUME TypeOK, NEW b \in BOOLEAN
    PROVE  /\ rendered(b) \in Page /\ rendered(b).html.version = source /\ rendered(b).rsc.version = source
           /\ rendered(b).tagged = isAppPath /\ rendered(b).bare = b
<1>1. [version |-> source, late |-> FALSE] \in Version /\ isAppPath \in BOOLEAN
  BY VersionFacts DEF TypeOK
<1> QED  BY <1>1 DEF rendered, Page

(* The memory after a page is set, unless it was refused.                  *)
LEMMA SetGives ==
    ASSUME Typed, NEW f \in Requests, NEW p \in Page, set(f, p), "kept" \notin faults'
    PROVE  memory' # None => \A file \in Files : memory'.value[file].version = p[file].version
<1>1. CASE memory' = [value |-> stamped(f, p), lastModified |-> now]
  BY <1>1, StampedTyped DEF Files
<1>2. CASE memory' = memory /\ faults' = (IF memory = None THEN faults ELSE faults \cup {"kept"})
  BY <1>2
<1> QED  BY <1>1, <1>2, SetLeaves DEF remember, Typed

LEMMA DurableStep == Base /\ Durable /\ [Next]_vars => Durable'
<1> SUFFICES ASSUME Base, Durable, [Next]_vars, durable' PROVE (AllDurable /\ WritesContent /\ AnswersDurable)'
  BY DEF Durable
<1>0. Typed /\ TypeOK /\ Flows /\ Past /\ Typed' /\ TypeOK'
  BY TypedStep DEF Base, Flows, Typed
<1>1. faults \subseteq faults'
  BY <1>0, FlowStepLeaves, OtherStepLeaves
<1>2. /\ durable /\ calm /\ "overlap" \notin faults /\ "writeError" \notin faults'
      /\ AllDurable /\ WritesContent /\ AnswersDurable /\ ReadStays /\ WrittenStays /\ stray = {}
  BY <1>1 DEF durable, calm, Base, OnDisk, Durable
<1> DEFINE Good == PagesFrom(promised.onDemand)
<1>3. Good \in SUBSET Page /\ Holds(Good, {}, FALSE) /\ DiskIsDurable
  BY <1>2 DEF PagesFrom, AllDurable
<1>4. ASSUME NEW f \in Requests, flowStep(f) PROVE (AllDurable /\ WritesContent /\ AnswersDurable)'
  <2>0. \A g \in Requests \ {f} :
           /\ pc'[g] \in {"idle", "done"} /\ cached'[g] = None /\ value'[g] = None /\ files'[g] = allWritten
           /\ promise'[g] = promise[g] /\ answer'[g] = answer[g] /\ files[g] = allWritten
    BY <1>0, <1>2, <1>4, Lone
  <2>1. HoldsNext(Good, {}, FALSE) /\ AnswersIn(f, Good, {})
    <3>1. \A p \in Page : p \in Good => stamped(f, p) \in Good
      BY StampedTyped DEF PagesFrom
    <3>2. ASSUME readRsc(f) PROVE entryRead(f).value \in Good
      <4>1. \A file \in Files : promised.onDemand <= disk[file].version
        BY <1>2, <1>3, <3>2, EntryReadIs, AllWrittenFacts DEF DiskIsDurable
      <4> QED  BY <1>2, <3>2, <4>1, EntryReadIs DEF PagesFrom, Files
    <3>3. \A b \in BOOLEAN : rendered(b) \in Good
      BY <1>0, RenderedFacts DEF PagesFrom, Past, PromisesArePast
    <3> HIDE DEF Good
    <3> QED  BY <1>3, <1>4, <3>1, <3>2, <3>3, FlowHolds
  <2>2. AnswersDurable'
    <3>1. least' = least
      BY <1>0, <1>4, FlowStepLeaves
    <3>2. ASSUME isPage(f)' PROVE (least[f].onDemand <= answer[f].html.version /\ least[f].onDemand <= answer[f].rsc.version)'
      <4>1. CASE promise'[f] = promise[f] /\ answer'[f] = answer[f]
        BY <1>2, <3>1, <3>2, <4>1 DEF AnswersDurable, isPage
      <4>2. CASE answer'[f] \in Good
        <5>1. answer'[f] \in Page /\ promised.onDemand <= answer'[f].html.version /\ promised.onDemand <= answer'[f].rsc.version
          BY <4>2 DEF PagesFrom
        <5>2. answer'[f].html.version \in Int /\ answer'[f].rsc.version \in Int
          BY <1>0, <5>1, VersionsAreNumbers DEF Files
        <5>3. least[f].onDemand <= promised.onDemand /\ least[f].onDemand \in Int /\ promised.onDemand \in Int
          BY <1>0, VersionsAreNumbers DEF Past, PromisesArePast
        <5> QED  BY <3>1, <5>1, <5>2, <5>3
      <4> QED  BY <2>1, <3>2, <4>1, <4>2 DEF AnswersIn, isPage
    <3> QED  BY <1>2, <2>0, <3>1, <3>2 DEF AnswersDurable, isPage
  <2>3. WritesContent'
    <3>1. ASSUME NEW p \in Page, set(f, p), content(f)' = p
          PROVE  memory' # None => \A file \in Files : memory'.value[file].version = content(f)'[file].version
      BY <1>0, <3>1, SetGives, <1>1 DEF durable
    <3>2. ASSUME NEW file \in Files, openFile(f, file) \/ write(f, file)
          PROVE  memory' = memory /\ content(f)' = content(f) /\ pc[f] = "writing"
      BY <1>0, <3>2, ContentNext DEF openFile, write
    <3>3. ASSUME pc'[f] = "writing", memory' # None
          PROVE  \A file \in Files : memory'.value[file].version = content(f)'[file].version
      <4>1. CASE generated(f) \/ (failed(f) /\ cached[f] # None)
        BY <1>0, <3>1, <3>3, <4>1, ContentNext DEF generated, failed
      <4>2. CASE \E file \in Files : openFile(f, file) \/ write(f, file)
        BY <1>2, <3>2, <3>3, <4>2 DEF WritesContent
      <4> QED  BY <1>0, <1>4, <3>3, <4>1, <4>2, WritingSteps
    <3> QED  BY <2>0, <3>3 DEF WritesContent
  <2>4. CASE promised'.onDemand = promised.onDemand
    <3>1. PagesFrom(promised.onDemand)' = Good
      BY <2>4 DEF PagesFrom
    <3>2. Holds(PagesFrom(promised.onDemand), {}, FALSE)'
      <4> HIDE DEF Good
      <4> QED  BY <2>1, <3>1 DEF HoldsNext, Holds
    <3>3. DiskIsDurable'
      <4>1. ASSUME NEW file \in Files, openFile(f, file) PROVE DiskIsDurable'
        <5>1. ASSUME NEW g \in Files, g # file, \A h \in Requests : files'[h][g] # "opened"
              PROVE  promised'.onDemand <= disk'[g].version
          <6>1. \A h \in Requests : files[h][g] # "opened"
            BY <1>0, <2>0, <4>1, <5>1, FileSteps, AllWrittenFacts
          <6> QED  BY <1>0, <1>3, <2>4, <4>1, <5>1, <6>1, FileSteps DEF DiskIsDurable
        <5> QED  BY <1>0, <4>1, <5>1, FileSteps DEF DiskIsDurable
      <4>2. ASSUME NEW file \in Files, write(f, file) PROVE DiskIsDurable'
        <5>1. content(f) \in Good /\ content(f) \in Page
          <6>1. content(f) \in Page /\ (cached[f] # None => content(f) = cached[f].value)
                /\ (cached[f] = None => content(f) = value[f] /\ value[f] # None)
            BY <1>0, <4>2, ContentTyped DEF write
          <6> HIDE DEF Good
          <6> QED  BY <1>3, <6>1 DEF Holds
        <5>2. promised.onDemand <= disk'[file].version
          <6>1. disk'[file].version = content(f)[file].version
            BY <1>0, <4>2, <5>1, FileSteps, StampedTyped DEF Files
          <6> QED  BY <5>1, <6>1 DEF PagesFrom, Files
        <5>3. ASSUME NEW g \in Files, g # file, \A h \in Requests : files'[h][g] # "opened"
              PROVE  promised'.onDemand <= disk'[g].version
          <6>1. \A h \in Requests : files[h][g] # "opened"
            BY <1>0, <2>0, <4>2, <5>3, FileSteps, AllWrittenFacts
          <6> QED  BY <1>0, <1>3, <2>4, <4>2, <5>3, <6>1, FileSteps DEF DiskIsDurable
        <5> QED  BY <2>4, <5>2, <5>3 DEF DiskIsDurable
      <4>3. CASE disk' = disk /\ ~\E file \in Files : openFile(f, file) \/ write(f, file)
        <5>1. files[f] = allWritten
          BY <1>0, <1>2, <1>4, <4>3, FilesBecomeWritten
        <5>2. \A g \in Requests, file \in Files : files[g][file] # "opened"
          BY <2>0, <5>1, AllWrittenFacts
        <5> QED  BY <1>3, <2>4, <4>3, <5>2 DEF DiskIsDurable
      <4> QED  BY <1>0, <1>4, <4>1, <4>2, <4>3, FlowStepLeaves
    <3> QED  BY <2>2, <2>3, <3>2, <3>3 DEF AllDurable
  <2>5. CASE promised'.onDemand # promised.onDemand
    <3>1. /\ stored(f) /\ cached[f] = None /\ ~value[f].bare
          /\ promised' = [promised EXCEPT !.onDemand = larger(@, value[f].html.version)]
      <4>1. generated(f) => promised'.onDemand = promised.onDemand
        BY <1>0 DEF generated, TypeOK, Promises
      <4> QED  BY <1>0, <1>4, <2>5, <4>1, FlowStepLeaves DEF stored
    <3> DEFINE v == value[f].html.version
    <3>2. value[f] # None /\ value[f] \in Page /\ content(f) = value[f] /\ pc[f] = "writing"
      BY <1>0, <3>1, ContentTyped DEF stored
    <3>3. value[f].rsc.version = v /\ promised.onDemand <= v /\ v \in Nat
      <4>1. value[f].html = value[f].rsc /\ v \in 0..source
        BY <1>0, <3>2 DEF Past, NothingLeft, OneRendering
      <4>2. value[f] \in Good
        <5> HIDE DEF Good
        <5> QED  BY <1>3, <3>2 DEF Holds
      <4> QED  BY <1>0, <4>1, <4>2 DEF PagesFrom, TypeOK
    <3>4. promised'.onDemand = v
      BY <1>0, <3>1, <3>3 DEF larger, TypeOK, Promises
    <3>5. \A file \in Files : disk'[file].version = v
      <4>1. \A file \in Files : disk[file].version = value[f][file].version
        BY <1>2, <3>1, <3>2, AllWrittenFacts DEF WrittenStays, stored
      <4> QED  BY <3>1, <3>3, <4>1 DEF stored, Files
    <3>6. memory' # None => memory' \in Entry /\ memory'.value \in PagesFrom(v)
      <4>1. memory' = memory /\ memory \in Entry \cup {None}
        BY <1>0, <3>1 DEF stored, TypeOK
      <4>2. memory # None => memory.value.html.version = v /\ memory.value.rsc.version = v
        BY <1>2, <3>2, <3>3 DEF WritesContent, Files
      <4> QED  BY <3>3, <4>1, <4>2, EntryFacts DEF PagesFrom
    <3>7. cached'[f] = None /\ value'[f] = None
      BY <1>0, <3>1, DoneLeaves DEF stored
    <3>8. Holds(PagesFrom(promised.onDemand), {}, FALSE)'
      <4>1. PagesFrom(promised.onDemand)' = PagesFrom(v)
        BY <3>4 DEF PagesFrom
      <4> HIDE DEF v
      <4> QED  BY <2>0, <3>6, <3>7, <4>1 DEF Holds
    <3>9. DiskIsDurable'
      BY <3>3, <3>4, <3>5 DEF DiskIsDurable
    <3> QED  BY <2>2, <2>3, <3>8, <3>9 DEF AllDurable
  <2> QED  BY <2>2, <2>3, <2>4, <2>5
<1>5. CASE \A f \in Requests : ~flowStep(f)
  <2>1. promised'.onDemand = promised.onDemand /\ memory' \in {memory, None} /\ disk' = disk
    BY <1>0, <1>2, <1>5, OtherStepLeaves DEF TypeOK, Promises
  <2>2. Holds(PagesFrom(promised.onDemand), {}, FALSE)'
    <3>1. PagesFrom(promised.onDemand)' = Good
      BY <2>1 DEF PagesFrom
    <3> HIDE DEF Good
    <3>2. HoldsNext(Good, {}, FALSE)
      BY <1>3, <1>5, OtherHolds
    <3> QED  BY <3>1, <3>2 DEF HoldsNext, Holds
  <2>3. ASSUME NEW file \in Files, \A f \in Requests : files'[f][file] # "opened"
        PROVE  \A f \in Requests : files[f][file] # "opened"
    <3>1. CASE restart
      BY <3>1 DEF restart, durable
    <3>2. CASE ~restart
      BY <1>0, <1>5, <2>3, <3>2, OtherStepLeaves
    <3> QED  BY <3>1, <3>2
  <2>4. DiskIsDurable'
    BY <1>3, <2>1, <2>3 DEF DiskIsDurable
  <2>5. WritesContent'
    <3>1. CASE restart
      BY <3>1 DEF restart, WritesContent
    <3>2. CASE ~restart
      <4>1. \A f \in Requests : content(f)' = content(f) /\ (pc'[f] = "writing" => pc[f] = "writing")
        BY <1>0, <1>5, <3>2, OtherStepLeaves DEF content
      <4> QED  BY <1>2, <2>1, <4>1 DEF WritesContent
    <3> QED  BY <3>1, <3>2
  <2>6. AnswersDurable'
    <3>1. answer' = answer /\ \A f \in Requests : isPage(f)' => isPage(f)
      BY <1>0, <1>5, OtherAnswers
    <3>2. \A f \in Requests : isPage(f) => least'[f] = least[f]
      BY <1>0, <1>5, OtherLeast DEF Past, NothingLeft, isPage
    <3> QED  BY <1>2, <3>1, <3>2 DEF AnswersDurable
  <2> QED  BY <2>2, <2>4, <2>5, <2>6 DEF AllDurable
<1> QED  BY <1>4, <1>5

(* OnDemandIsDurable: what an on-demand revalidation was given is not lost *)
(* by an eviction or a restart, as long as flows do not overlap, no write  *)
(* fails, memory keeps no older page and no restart cuts the write of a    *)
(* file short.                                                             *)
THEOREM OnDemandAlwaysDurable == Spec => []OnDemandIsDurable
<1>1. Durable => OnDemandIsDurable
  BY DEF Durable, durable, OnDemandIsDurable, AnswersDurable
<1>2. (Base /\ Durable) /\ [Next]_vars => (Base /\ Durable)'
  BY BaseStep, DurableStep
<1>3. Init => Base /\ Durable
  BY BaseInit, DurableInit
<1> QED  BY <1>1, <1>2, <1>3, PTL DEF Spec

-----------------------------------------------------------------------------
(* What a reader finds is at least what was stored: the html file may be   *)
(* older only until the flow that is writing has written it.               *)
following == faults \cap {"overlap", "writeError", "crash", "kept"} = {}
HtmlFrom(v) == {p \in Page : v <= p.html.version}

DiskFollows ==
    (\A f \in Requests : files[f]["html"] = "written") => promised.stored <= disk.html.version
AnswersFollow ==
    \A f \in Requests : isPage(f) => least[f].stored <= answer[f].html.version

HtmlFollows == Holds(HtmlFrom(promised.stored), {}, FALSE) /\ DiskFollows
Follows == following => HtmlFollows /\ AnswersFollow

LEMMA FollowsInit == Init => Follows
<1> SUFFICES ASSUME Init PROVE HtmlFollows /\ AnswersFollow
  BY DEF Follows
<1>1. promised.stored = 0 /\ disk.html.version = 0
  BY DEF Init
<1> QED  BY <1>1 DEF Init, HtmlFollows, Holds, DiskFollows, AnswersFollow, isPage

LEMMA FollowsStep == Base /\ Follows /\ [Next]_vars => Follows'
<1> SUFFICES ASSUME Base, Follows, [Next]_vars, following' PROVE (HtmlFollows /\ AnswersFollow)'
  BY DEF Follows
<1>0. Typed /\ TypeOK /\ Flows /\ Past /\ Typed' /\ TypeOK'
  BY TypedStep DEF Base, Flows, Typed
<1>1. faults \subseteq faults'
  BY <1>0, FlowStepLeaves, OtherStepLeaves
<1>2. /\ following /\ calm /\ "overlap" \notin faults /\ "writeError" \notin faults'
      /\ HtmlFollows /\ AnswersFollow /\ ReadStays /\ WrittenStays /\ stray = {}
  BY <1>1 DEF following, calm, Base, OnDisk, Follows
<1> DEFINE Good == HtmlFrom(promised.stored)
<1>3. Good \in SUBSET Page /\ Holds(Good, {}, FALSE) /\ DiskFollows
  BY <1>2 DEF HtmlFrom, HtmlFollows
<1>a. "html" \in Files
  BY DEF Files
<1>4. ASSUME NEW f \in Requests, flowStep(f) PROVE (HtmlFollows /\ AnswersFollow)'
  <2>0. \A g \in Requests \ {f} :
           /\ pc'[g] \in {"idle", "done"} /\ cached'[g] = None /\ value'[g] = None /\ files'[g] = allWritten
           /\ promise'[g] = promise[g] /\ answer'[g] = answer[g] /\ files[g] = allWritten
    BY <1>0, <1>2, <1>4, Lone
  <2>1. HoldsNext(Good, {}, FALSE) /\ AnswersIn(f, Good, {})
    <3>1. \A p \in Page : p \in Good => stamped(f, p) \in Good
      BY StampedTyped DEF HtmlFrom
    <3>2. ASSUME readRsc(f) PROVE entryRead(f).value \in Good
      <4>1. promised.stored <= disk.html.version
        BY <1>2, <1>3, <1>a, <3>2, EntryReadIs, AllWrittenFacts DEF DiskFollows
      <4> QED  BY <1>2, <3>2, <4>1, EntryReadIs DEF HtmlFrom
    <3>3. \A b \in BOOLEAN : rendered(b) \in Good
      BY <1>0, RenderedFacts DEF HtmlFrom, Past, PromisesArePast
    <3> HIDE DEF Good
    <3> QED  BY <1>3, <1>4, <3>1, <3>2, <3>3, FlowHolds
  <2>2. AnswersFollow'
    <3>1. least' = least
      BY <1>0, <1>4, FlowStepLeaves
    <3>2. ASSUME isPage(f)' PROVE (least[f].stored <= answer[f].html.version)'
      <4>1. CASE promise'[f] = promise[f] /\ answer'[f] = answer[f]
        BY <1>2, <3>1, <3>2, <4>1 DEF AnswersFollow, isPage
      <4>2. CASE answer'[f] \in Good
        <5>1. answer'[f] \in Page /\ promised.stored <= answer'[f].html.version
          BY <4>2 DEF HtmlFrom
        <5>2. answer'[f].html.version \in Int
          BY <1>0, <1>a, <5>1, VersionsAreNumbers
        <5>3. least[f].stored <= promised.stored /\ least[f].stored \in Int /\ promised.stored \in Int
          BY <1>0, VersionsAreNumbers DEF Past, PromisesArePast
        <5> QED  BY <3>1, <5>1, <5>2, <5>3
      <4> QED  BY <2>1, <3>2, <4>1, <4>2 DEF AnswersIn, isPage
    <3> QED  BY <1>2, <2>0, <3>1, <3>2 DEF AnswersFollow, isPage
  <2>3. CASE promised'.stored = promised.stored
    <3>1. Holds(HtmlFrom(promised.stored), {}, FALSE)'
      <4>1. HtmlFrom(promised.stored)' = Good
        BY <2>3 DEF HtmlFrom
      <4> HIDE DEF Good
      <4> QED  BY <2>1, <4>1 DEF HoldsNext, Holds
    <3>2. DiskFollows'
      <4>1. ASSUME NEW file \in Files, openFile(f, file) PROVE DiskFollows'
        <5>1. CASE file = "html"
          BY <1>0, <4>1, <5>1, FileSteps DEF DiskFollows
        <5>2. CASE file # "html"
          <6>1. files'[f]["html"] = files[f]["html"] /\ disk'.html = disk.html
            BY <1>0, <1>a, <4>1, <5>2, FileSteps
          <6> QED  BY <1>3, <1>a, <2>0, <2>3, <6>1, AllWrittenFacts DEF DiskFollows
        <5> QED  BY <5>1, <5>2
      <4>2. ASSUME NEW file \in Files, write(f, file) PROVE DiskFollows'
        <5>1. CASE file = "html"
          <6>1. content(f) \in Page /\ (cached[f] # None => content(f) = cached[f].value)
                /\ (cached[f] = None => content(f) = value[f] /\ value[f] # None)
            BY <1>0, <4>2, ContentTyped DEF write
          <6>2. content(f) \in Good
            <7> HIDE DEF Good
            <7> QED  BY <1>3, <6>1 DEF Holds
          <6>3. disk'.html.version = content(f).html.version
            BY <1>0, <4>2, <5>1, <6>1, FileSteps, StampedTyped
          <6> QED  BY <2>3, <6>2, <6>3 DEF HtmlFrom, DiskFollows
        <5>2. CASE file # "html"
          <6>1. files'[f]["html"] = files[f]["html"] /\ disk'.html = disk.html
            BY <1>0, <1>a, <4>2, <5>2, FileSteps
          <6> QED  BY <1>3, <1>a, <2>0, <2>3, <6>1, AllWrittenFacts DEF DiskFollows
        <5> QED  BY <5>1, <5>2
      <4>3. CASE disk' = disk /\ ~\E file \in Files : openFile(f, file) \/ write(f, file)
        <5>1. files[f] = allWritten
          BY <1>0, <1>2, <1>4, <4>3, FilesBecomeWritten
        <5>2. \A g \in Requests : files[g]["html"] = "written"
          BY <1>a, <2>0, <5>1, AllWrittenFacts
        <5> QED  BY <1>3, <2>3, <4>3, <5>2 DEF DiskFollows
      <4> QED  BY <1>0, <1>4, <4>1, <4>2, <4>3, FlowStepLeaves
    <3> QED  BY <2>2, <3>1, <3>2 DEF HtmlFollows
  <2>4. CASE promised'.stored # promised.stored
    <3>1. /\ generated(f) /\ ~value[f].bare /\ set(f, value[f]) /\ value[f] \in Page
          /\ promised' = [promised EXCEPT !.stored = larger(@, value[f].html.version)]
      <4>1. stored(f) => promised'.stored = promised.stored
        BY <1>0 DEF stored, TypeOK, Promises
      <4>2. generated(f) /\ promised' # promised
        BY <1>0, <1>4, <2>4, <4>1, FlowStepLeaves
      <4> QED  BY <1>0, <4>2, ContentNext DEF generated
    <3> DEFINE v == value[f].html.version
    <3>2. v \in Nat /\ promised.stored <= v
      <4>1. value[f] # None
        BY <3>1, NoneFacts
      <4>2. v \in 0..source
        BY <1>0, <4>1 DEF Past, NothingLeft, OneRendering
      <4>3. value[f] \in Good
        <5> HIDE DEF Good
        <5> QED  BY <1>3, <4>1 DEF Holds
      <4> QED  BY <1>0, <4>2, <4>3 DEF HtmlFrom, TypeOK
    <3>3. promised'.stored = v
      BY <1>0, <3>1, <3>2 DEF larger, TypeOK, Promises
    <3>4. memory' # None => memory'.value \in HtmlFrom(v)
      <4>1. memory' # None => memory'.value.html.version = v
        BY <1>0, <1>a, <3>1, SetGives DEF following
      <4> QED  BY <1>0, <3>2, <4>1, EntryFacts DEF HtmlFrom, TypeOK
    <3>5. cached'[f] = None /\ value'[f] = value[f] /\ value[f] \in HtmlFrom(v)
      BY <1>0, <3>1, <3>2 DEF generated, TypeOK, HtmlFrom
    <3>6. Holds(HtmlFrom(promised.stored), {}, FALSE)'
      <4>1. HtmlFrom(promised.stored)' = HtmlFrom(v)
        BY <3>3 DEF HtmlFrom
      <4> HIDE DEF v
      <4> QED  BY <2>0, <3>4, <3>5, <4>1 DEF Holds
    <3>7. DiskFollows'
      BY <1>0, <1>a, <3>1, SetLeaves DEF DiskFollows
    <3> QED  BY <2>2, <3>6, <3>7 DEF HtmlFollows
  <2> QED  BY <2>3, <2>4
<1>5. CASE \A f \in Requests : ~flowStep(f)
  <2>1. promised'.stored = promised.stored /\ disk' = disk
    BY <1>0, <1>2, <1>5, OtherStepLeaves DEF TypeOK, Promises
  <2>2. Holds(HtmlFrom(promised.stored), {}, FALSE)'
    <3>1. HtmlFrom(promised.stored)' = Good
      BY <2>1 DEF HtmlFrom
    <3> HIDE DEF Good
    <3>2. HoldsNext(Good, {}, FALSE)
      BY <1>3, <1>5, OtherHolds
    <3> QED  BY <3>1, <3>2 DEF HoldsNext, Holds
  <2>3. ASSUME \A f \in Requests : files'[f]["html"] = "written"
        PROVE  \A f \in Requests : files[f]["html"] = "written"
    <3>1. CASE restart
      BY <1>a, <3>1, AllWrittenFacts DEF restart, following
    <3>2. CASE ~restart
      BY <1>0, <1>5, <2>3, <3>2, OtherStepLeaves
    <3> QED  BY <3>1, <3>2
  <2>4. DiskFollows'
    BY <1>3, <2>1, <2>3 DEF DiskFollows
  <2>5. AnswersFollow'
    <3>1. answer' = answer /\ \A f \in Requests : isPage(f)' => isPage(f)
      BY <1>0, <1>5, OtherAnswers
    <3>2. \A f \in Requests : isPage(f) => least'[f] = least[f]
      BY <1>0, <1>5, OtherLeast DEF Past, NothingLeft, isPage
    <3> QED  BY <1>2, <3>1, <3>2 DEF AnswersFollow
  <2> QED  BY <2>2, <2>4, <2>5 DEF HtmlFollows
<1> QED  BY <1>4, <1>5

(* ReadsDoNotGoBack: no flow answers with an older html than was set for   *)
(* the files before it began, as long as flows do not overlap, no write    *)
(* fails, memory keeps no older page and no restart comes between writes.  *)
THEOREM ReadsNeverGoBack == Spec => []ReadsDoNotGoBack
<1>1. Follows => ReadsDoNotGoBack
  BY DEF Follows, following, ReadsDoNotGoBack, AnswersFollow
<1>2. (Base /\ Follows) /\ [Next]_vars => (Base /\ Follows)'
  BY BaseStep, FollowsStep
<1>3. Init => Base /\ Follows
  BY BaseInit, FollowsInit
<1> QED  BY <1>1, <1>2, <1>3, PTL DEF Spec

-----------------------------------------------------------------------------
(***************************************************************************)
(* What a revalidation of the tag promises.  It marks every flow under way *)
(* as late and makes everything stored unusable, so what is usable and not *)
(* late is of a version at least the promised one: in memory and in the    *)
(* flows (Stored), on disk once it is written (DiskIsCurrent), and in the  *)
(* answers, for whoever has joined (Answered).                             *)
(***************************************************************************)
known == faults \cap {"overlap", "writeError", "forgotten", "untagged"} = {}

atLeast(v, h, r) == h.late \/ r.late \/ (v <= h.version /\ v <= r.version)
PagesSince(v) == {p \in Page : atLeast(v, p.html, p.rsc)}
TaggedPages == {p \in Page : p.tagged /\ ~p.bare}

DiskIsCurrent ==
    (\A f \in Requests : files[f] = allWritten) /\ tag < disk.mtime => atLeast(promised.tag, disk.html, disk.rsc)
Stored ==
    /\ Holds(TaggedPages, {}, FALSE)
    /\ Holds(PagesSince(promised.tag), late, TRUE)
    /\ DiskIsCurrent
Answered ==
    /\ \A f \in Requests \ late : active(f) /\ isPage(f) => answer[f] \in PagesSince(promised.tag)
    /\ \A r \in Requests : joined[r] # None /\ isPage(joined[r]) /\ joined[r] \notin late =>
          atLeast(least[r].tag, answer[joined[r]].html, answer[joined[r]].rsc)
TagIsKnown == tag = -1 => promised.tag = -1
AnswersArePages == \A f \in Requests : /\ isPage(f) => answer[f] \in Page
                                       /\ joined[f] # None => joined[f] \in Requests /\ kind[f] # "none"

Fresh ==
    known => /\ TagIsKnown /\ AnswersArePages
             /\ IF isAppPath THEN Stored /\ Answered ELSE promised.tag = -1

LEMMA FreshInit == Init => Fresh
<1> SUFFICES ASSUME Init PROVE TagIsKnown /\ AnswersArePages /\ promised.tag = -1 /\ Stored /\ Answered
  BY DEF Fresh
<1>1. promised.tag = -1 /\ disk.html.version = 0 /\ disk.rsc.version = 0
  BY DEF Init
<1>2. Stored
  BY <1>1 DEF Init, Stored, Holds, DiskIsCurrent, atLeast
<1>3. Answered /\ AnswersArePages
  BY DEF Init, Answered, AnswersArePages, isPage, active
<1> QED  BY <1>1, <1>2, <1>3 DEF TagIsKnown

LEMMA StampedSince ==
    ASSUME NEW f, NEW v, NEW p \in Page, f \in late \/ p \in PagesSince(v)
    PROVE  stamped(f, p) \in PagesSince(v)
BY StampedTyped DEF PagesSince, atLeast

(* The step of a flow, for a page of the app router.                       *)
LEMMA FreshFlow ==
    ASSUME Base, Fresh, [Next]_vars, known, known', isAppPath, NEW f \in Requests, flowStep(f)
    PROVE  (Stored /\ Answered)'
<1>0. Typed /\ TypeOK /\ Flows /\ Past /\ Typed' /\ TypeOK'
  BY TypedStep DEF Base, Flows, Typed
<1>1. /\ calm /\ calm' /\ "overlap" \notin faults /\ "writeError" \notin faults' /\ "untagged" \notin faults
      /\ Stored /\ Answered /\ ReadStays /\ WrittenStays /\ AnswersArePages
  BY DEF known, calm, Base, OnDisk, Fresh
<1>2. /\ UNCHANGED <<source, isAppPath, tag, kind, joined, late, least>> /\ LeavesOthers(f) /\ active(f)
  BY <1>0, FlowStepLeaves
<1>3. promised'.tag = promised.tag
  <2>1. ~revalidateTag \/ promised'.tag = promised.tag
    <3>1. promised' = promised \/ generated(f) \/ stored(f)
      BY <1>0, FlowStepLeaves
    <3>2. generated(f) => promised'.tag = promised.tag
      BY <1>0 DEF generated, TypeOK, Promises
    <3>3. stored(f) => promised'.tag = promised.tag
      BY <1>0 DEF stored, TypeOK, Promises
    <3> QED  BY <3>1, <3>2, <3>3
  <2> QED  BY <1>0, <2>1, PromisesGrow
<1> DEFINE Good == PagesSince(promised.tag)
<1>4. Good \in SUBSET Page /\ TaggedPages \in SUBSET Page /\ late \in SUBSET Requests
  BY <1>0 DEF PagesSince, TaggedPages, TypeOK
<1>5. Holds(TaggedPages, {}, FALSE) /\ Holds(Good, late, TRUE) /\ DiskIsCurrent
  BY <1>1 DEF Stored
<1>6. HoldsNext(TaggedPages, {}, FALSE)
  <2>1. \A p \in Page : p \in TaggedPages => stamped(f, p) \in TaggedPages
    BY StampedTyped DEF TaggedPages
  <2>2. readRsc(f) => entryRead(f).value \in TaggedPages
    BY <1>1, EntryReadIs DEF TaggedPages
  <2>3. \A b \in BOOLEAN : (b => ~isAppPath) => rendered(b) \in TaggedPages
    BY <1>0, RenderedFacts DEF TaggedPages
  <2> QED  BY <1>4, <1>5, <2>1, <2>2, <2>3, FlowHolds
<1>7. HoldsNext(Good, late, TRUE) /\ AnswersIn(f, Good, late)
  <2>1. \A p \in Page : f \in late \/ p \in Good => stamped(f, p) \in Good
    BY StampedSince
  <2>2. ASSUME readRsc(f), ~isTagStale(entryRead(f)) PROVE entryRead(f).value \in Good
    <3>1. /\ entryRead(f).value \in Page /\ entryRead(f).value.html = disk.html /\ entryRead(f).value.rsc = disk.rsc
          /\ entryRead(f).lastModified = disk.mtime /\ entryRead(f).value.tagged
          /\ \A g \in Requests : files[g] = allWritten
      BY <1>1, <2>2, EntryReadIs
    <3>2. tag < disk.mtime
      BY <1>0, <2>2, <3>1 DEF isTagStale, TypeOK
    <3> QED  BY <1>5, <3>1, <3>2 DEF DiskIsCurrent, PagesSince
  <2>3. \A b \in BOOLEAN : rendered(b) \in Good
    BY <1>0, RenderedFacts DEF PagesSince, atLeast, Past, PromisesArePast
  <2> HIDE DEF Good
  <2> QED  BY <1>4, <1>5, <2>1, <2>2, <2>3, FlowHolds
<1>8. DiskIsCurrent'
  <2>0. \A g \in Requests \ {f} : files[g] = allWritten
    BY <1>0, <1>1, Lone
  <2>1. ASSUME NEW file \in Files, openFile(f, file) PROVE DiskIsCurrent'
    BY <1>0, <2>1, FileSteps, AllWrittenFacts DEF DiskIsCurrent, allWritten
  <2>2. ASSUME NEW file \in Files, write(f, file), files'[f] = allWritten
        PROVE  atLeast(promised.tag, disk.html, disk.rsc)'
    <3>1. /\ content(f) \in Page /\ content(f)' = content(f) /\ pc[f] = "writing"
          /\ cached[f] # None => content(f) = cached[f].value
          /\ cached[f] = None => content(f) = value[f] /\ value[f] # None
      BY <1>0, <2>2, ContentTyped, ContentNext DEF write
    <3>2. disk'[file] = stamped(f, content(f))[file]
      BY <1>0, <2>2, FileSteps
    <3>3. CASE f \in late
      BY <3>1, <3>2, <3>3, StampedTyped DEF Files, atLeast
    <3>4. CASE f \notin late
      <4>1. files[f] # allWritten
        BY <1>0, <2>2, FileSteps, AllWrittenFacts
      <4>2. \A g \in Files : g # file => disk[g] = content(f)[g] /\ disk'[g] = disk[g]
        <5>1. ~content(f).bare /\ \A g \in Files : files[f][g] = "written" => disk[g] = content(f)[g]
          BY <1>1, <3>1, <3>4, <4>1 DEF WrittenStays
        <5> QED  BY <1>0, <2>2, <5>1, FileSteps, AllWrittenFacts
      <4>3. disk'[file] = content(f)[file]
        BY <3>1, <3>2, <3>4, StampedTyped
      <4>4. disk'.html = content(f).html /\ disk'.rsc = content(f).rsc
        BY <4>2, <4>3 DEF Files
      <4>5. content(f) \in Good
        <5> HIDE DEF Good
        <5> QED  BY <1>5, <3>1, <3>4 DEF Holds
      <4> QED  BY <1>3, <4>4, <4>5 DEF PagesSince, atLeast
    <3> QED  BY <3>3, <3>4
  <2>3. CASE disk' = disk /\ ~\E file \in Files : openFile(f, file) \/ write(f, file)
    <3>1. files[f] = allWritten
      BY <1>0, <1>1, <2>3, FilesBecomeWritten
    <3> QED  BY <1>2, <1>3, <1>5, <2>0, <2>3, <3>1 DEF DiskIsCurrent, atLeast
  <2> QED  BY <1>0, <2>1, <2>2, <2>3, FlowStepLeaves DEF DiskIsCurrent, allWritten
<1>9. PagesSince(promised.tag)' = Good /\ TaggedPages' = TaggedPages
  BY <1>3 DEF PagesSince, TaggedPages
<1>10. Stored'
  <2> HIDE DEF Good
  <2>1. Holds(TaggedPages, {}, FALSE)'
    BY <1>6, <1>9 DEF Holds, HoldsNext
  <2>2. Holds(PagesSince(promised.tag), late, TRUE)'
    BY <1>2, <1>7, <1>9 DEF Holds, HoldsNext
  <2> QED  BY <1>8, <2>1, <2>2 DEF Stored
<1>11. Answered'
  <2>1. ASSUME NEW g \in Requests \ late, active(g)', isPage(g)' PROVE answer'[g] \in Good
    <3>1. CASE g = f
      <4> HIDE DEF Good
      <4> QED  BY <1>1, <1>2, <1>7, <2>1, <3>1 DEF AnswersIn, Answered, Good, isPage
    <3>2. CASE g # f
      BY <1>1, <1>2, <2>1, <3>2 DEF LeavesOthers, Answered, isPage, active
    <3> QED  BY <3>1, <3>2
  <2>2. ASSUME NEW r \in Requests, joined[r] # None, promise'[joined[r]] = "page", joined[r] \notin late
        PROVE  atLeast(least[r].tag, answer'[joined[r]].html, answer'[joined[r]].rsc)
    <3>0. joined[r] \in Requests
      BY <1>1, <2>2 DEF AnswersArePages
    <3>1. CASE promise'[joined[r]] = promise[joined[r]] /\ answer'[joined[r]] = answer[joined[r]]
      BY <1>1, <2>2, <3>1 DEF Answered, isPage
    <3>2. CASE joined[r] = f /\ answer'[f] \in Good
      <4>1. answer'[f] \in Page /\ atLeast(promised.tag, answer'[f].html, answer'[f].rsc)
        BY <3>2 DEF PagesSince
      <4>2. answer'[f].html.version \in Int /\ answer'[f].rsc.version \in Int
        BY <1>0, <4>1, VersionsAreNumbers DEF Files
      <4>3. least[r].tag <= promised.tag /\ least[r].tag \in Int /\ promised.tag \in Int
        BY <1>0, VersionsAreNumbers DEF Past, PromisesArePast
      <4> QED  BY <3>2, <4>1, <4>2, <4>3 DEF atLeast
    <3> QED  BY <1>2, <1>7, <2>2, <3>0, <3>1, <3>2 DEF AnswersIn, LeavesOthers, isPage
  <2> QED  BY <1>2, <1>9, <2>1, <2>2 DEF Answered, isPage
<1> QED  BY <1>10, <1>11

LEMMA FreshOther ==
    ASSUME Base, Fresh, [Next]_vars, known, known', isAppPath, \A f \in Requests : ~flowStep(f)
    PROVE  (Stored /\ Answered)'
<1>0. Typed /\ TypeOK /\ Flows /\ Past /\ Typed' /\ TypeOK'
  BY TypedStep DEF Base, Flows, Typed
<1>1. /\ calm /\ Stored /\ Answered /\ AnswersArePages /\ TagIsKnown /\ stray = {}
  BY DEF known, calm, Base, OnDisk, Fresh
<1>2. TaggedPages \in SUBSET Page /\ TaggedPages' = TaggedPages
      /\ PagesSince(promised.tag) \in SUBSET Page /\ late \in SUBSET Requests
  BY <1>0 DEF TaggedPages, PagesSince, TypeOK
<1>3. Holds(TaggedPages, {}, FALSE) /\ Holds(PagesSince(promised.tag), late, TRUE) /\ DiskIsCurrent
  BY <1>1 DEF Stored
<1>4. Holds(TaggedPages, {}, FALSE)'
  <2>1. HoldsNext(TaggedPages, {}, FALSE)
    BY <1>2, <1>3, OtherHolds
  <2> QED  BY <1>2, <2>1 DEF Holds, HoldsNext
<1>5. disk' = disk /\ answer' = answer /\ \A f \in Requests : isPage(f)' => isPage(f)
  BY <1>0, <1>1, OtherStepLeaves, OtherAnswers
<1>6. CASE revalidateTag
  <2>1. tag' = now /\ UNCHANGED <<memory, cached, value, pc, joined, least, promise, now>>
        /\ late' = late \cup {f \in Requests : active(f)} 
    BY <1>6 DEF revalidateTag, world, flowVars
  <2>2. ASSUME memory' # None PROVE isTagStale(memory)'
    <3>1. memory \in Entry /\ memory.value.tagged
      BY <1>0, <1>3, <2>1, <2>2 DEF TypeOK, Holds, TaggedPages
    <3>2. memory.lastModified <= now
      BY <2>1, <2>2, <1>0 DEF Past, TimesArePast
    <3> QED  BY <2>1, <3>1, <3>2 DEF isTagStale
  <2>3. \A f \in Requests \ late' : cached'[f] = None /\ value'[f] = None /\ ~active(f)' /\ f \notin late
    BY <1>0, <2>1 DEF Past, NothingLeft, active
  <2>4. Holds(PagesSince(promised.tag), late, TRUE)'
    <3> DEFINE G == PagesSince(promised'.tag)
    <3>0. PagesSince(promised.tag)' = G
      BY DEF PagesSince
    <3> HIDE DEF G
    <3>1. HoldsNext(G, late', TRUE)
      BY <2>2, <2>3 DEF HoldsNext
    <3> QED  BY <3>0, <3>1 DEF Holds, HoldsNext
  <2>5. DiskIsCurrent'
    <3>1. ~(tag' < disk'.mtime)
      BY <1>0, <1>5, <2>1 DEF Past, TimesArePast, TypeOK
    <3> QED  BY <3>1 DEF DiskIsCurrent
  <2>6. Answered'
    <3>1. late \subseteq late'
      BY <2>1
    <3> QED  BY <1>1, <1>5, <2>1, <2>3, <3>1 DEF Answered, isPage
  <2> QED  BY <1>4, <2>4, <2>5, <2>6 DEF Stored
<1>7. CASE restart
  <2>1. tag = -1 /\ promised' = promised /\ memory' = None /\ UNCHANGED <<joined, late, least>>
    BY <1>7 DEF restart, known
  <2>2. promised'.tag = -1
    BY <1>1, <2>1 DEF TagIsKnown
  <2>3. DiskIsCurrent'
    <3>1. disk'.html \in Version /\ disk'.rsc \in Version
      BY <1>0 DEF TypeOK
    <3>2. -1 <= disk'.html.version /\ -1 <= disk'.rsc.version
      BY <3>1 DEF Version
    <3> QED  BY <2>2, <3>2 DEF DiskIsCurrent, atLeast
  <2>4. \A f \in Requests : cached'[f] = None /\ value'[f] = None /\ ~active(f)'
    BY <1>0, <1>7 DEF restart, active, TypeOK
  <2>5. Holds(PagesSince(promised.tag), late, TRUE)'
    BY <2>1, <2>4 DEF Holds
  <2>6. Answered'
    BY <1>1, <1>5, <2>1, <2>4 DEF Answered, AnswersArePages
  <2> QED  BY <1>4, <2>3, <2>5, <2>6 DEF Stored
<1>8. CASE ~revalidateTag /\ ~restart
  <2>1. /\ promised' = promised /\ tag' = tag
        /\ UNCHANGED <<cached, value, files, promise>>
        /\ \A f \in Requests : pc'[f] = pc[f] \/ (~active(f) /\ pc'[f] = "scheduled")
    BY <1>0, <1>8, OtherStepLeaves
  <2>2. late' = late
    BY <1>8 DEF Next, get, strayWrite, strayFails, evict, tick, sourceChanges, vars, ghosts
  <2>3. PagesSince(promised.tag)' = PagesSince(promised.tag)
    BY <2>1 DEF PagesSince
  <2>4. Holds(PagesSince(promised.tag), late, TRUE)'
    <3>1. HoldsNext(PagesSince(promised.tag), late, TRUE)
      BY <1>2, <1>3, OtherHolds
    <3> QED  BY <2>2, <2>3, <3>1 DEF Holds, HoldsNext
  <2>5. DiskIsCurrent'
    BY <1>3, <1>5, <2>1 DEF DiskIsCurrent, atLeast, allWritten
  <2>6. ASSUME NEW f \in Requests \ late, active(f)', isPage(f)' PROVE active(f) /\ isPage(f)
    <3>1. ASSUME ~active(f) PROVE promise[f] = "none"
      <4>1. PICK r \in Requests, k \in Kinds : get(r, k)
        <5>1. pc' # pc
          BY <2>6, <3>1 DEF active
        <5> QED  BY <1>8, <5>1 DEF Next, strayWrite, strayFails, evict, tick, sourceChanges, vars, flowVars
      <4>2. f = r
        BY <1>0, <2>6, <3>1, <4>1 DEF get, begin, join, active, TypeOK
      <4>3. kind[r] = "none"
        BY <1>0, <4>1 DEF get, Requests, TypeOK
      <4> QED  BY <1>0, <4>2, <4>3 DEF Past, NothingLeft
    <3> QED  BY <2>1, <2>6, <3>1 DEF isPage
  <2>7. Answered'
    <3>1. \A f \in Requests \ late' : (active(f) /\ isPage(f) => answer[f] \in PagesSince(promised.tag))'
      BY <1>1, <1>5, <2>2, <2>3, <2>6 DEF Answered
    <3>2. ASSUME NEW r \in Requests, joined'[r] # None, promise'[joined'[r]] = "page", joined'[r] \notin late
          PROVE  atLeast(least'[r].tag, answer'[joined'[r]].html, answer'[joined'[r]].rsc)
      <4>1. CASE joined'[r] = joined[r] /\ least'[r] = least[r]
        BY <1>1, <1>5, <2>1, <3>2, <4>1 DEF Answered, isPage
      <4>2. CASE \E k \in Kinds : get(r, k)
        <5>1. PICK k \in Kinds : get(r, k)
          BY <4>2
        <5>2. kind[r] = "none" /\ promise[r] = "none" /\ cacheKeyFn(k) \in CacheKeys
          BY <1>0, <5>1 DEF get, Requests, TypeOK, Past, NothingLeft, cacheKeyFn, CacheKeys
        <5>3. joined'[r] # r
          BY <2>1, <3>2, <5>2 DEF isPage
        <5>4. pending[cacheKeyFn(k)] # None /\ join(r, pending[cacheKeyFn(k)])
          BY <1>0, <5>1, <5>3 DEF get, begin, TypeOK
        <5>5. joined'[r] = pending[cacheKeyFn(k)] /\ active(pending[cacheKeyFn(k)])
              /\ pending[cacheKeyFn(k)] \in Requests
          BY <1>0, <5>2, <5>4 DEF join, TypeOK, Flows, FlowsArePending
        <5>6. least'[r] = promised
          BY <1>0, <5>1 DEF get, TypeOK
        <5>7. answer[joined'[r]] \in PagesSince(promised.tag)
          BY <1>1, <2>1, <3>2, <5>5 DEF Answered, isPage
        <5> QED  BY <1>5, <5>6, <5>7 DEF PagesSince
      <4>3. CASE ~\E k \in Kinds : get(r, k)
        <5>1. joined'[r] = joined[r] /\ least'[r] = least[r]
          <6>1. ASSUME NEW q \in Requests, NEW k \in Kinds, get(q, k), q # r
                PROVE  joined'[r] = joined[r] /\ least'[r] = least[r]
            BY <1>0, <6>1 DEF get, begin, join, TypeOK
          <6>2. CASE ~\E q \in Requests, k \in Kinds : get(q, k)
            BY <1>8, <6>2 DEF Next, strayWrite, strayFails, evict, tick, sourceChanges, vars, ghosts
          <6> QED  BY <4>3, <6>1, <6>2
        <5> QED  BY <4>1, <5>1
      <4> QED  BY <4>2, <4>3
    <3> QED  BY <2>2, <3>1, <3>2 DEF Answered, isPage
  <2> QED  BY <1>4, <2>4, <2>5, <2>7 DEF Stored
<1> QED  BY <1>6, <1>7, <1>8

LEMMA FreshStep == Base /\ Fresh /\ [Next]_vars => Fresh'
<1> SUFFICES ASSUME Base, Fresh, [Next]_vars, known'
             PROVE  (TagIsKnown /\ AnswersArePages /\ IF isAppPath THEN Stored /\ Answered ELSE promised.tag = -1)'
  BY DEF Fresh
<1>0. Typed /\ TypeOK /\ Flows /\ Past /\ TypeOK'
  BY TypedStep DEF Base, Flows, Typed
<1>1. faults \subseteq faults' /\ isAppPath' = isAppPath
  BY <1>0, FlowStepLeaves, OtherStepLeaves
<1>2. known /\ TagIsKnown /\ AnswersArePages /\ (~isAppPath => promised.tag = -1)
  BY <1>1 DEF known, Fresh
<1>3. ASSUME isAppPath PROVE (Stored /\ Answered)'
  BY <1>2, <1>3, FreshFlow, FreshOther
<1>4. promised'.tag = promised.tag \/ (revalidateTag /\ isAppPath /\ tag' = now)
  BY <1>0, PromisesGrow DEF revalidateTag
<1>5. TagIsKnown'
  <2>1. now \in Nat
    BY <1>0 DEF TypeOK
  <2>2. tag' = tag \/ tag' = now \/ (restart /\ tag = -1)
    <3>1. restart => tag = -1
      BY DEF restart, known
    <3> QED  BY <1>0, <3>1, FlowStepLeaves, OtherStepLeaves DEF revalidateTag
  <2> QED  BY <1>2, <1>4, <2>1, <2>2 DEF TagIsKnown, restart
<1>6. AnswersArePages'
  <2>1. ASSUME NEW f \in Requests, isPage(f)' PROVE answer'[f] \in Page
    <3>1. ASSUME NEW g \in Requests, flowStep(g) PROVE answer'[f] \in Page
      <4>1. CASE f = g
        <5>1. AnswersIn(g, Page, {})
          <6>1. Holds(Page, {}, FALSE)
            BY <1>0, EntryFacts DEF Holds, TypeOK
          <6>2. \A p \in Page : stamped(g, p) \in Page
            BY StampedTyped
          <6>3. readRsc(g) => entryRead(g).value \in Page
            BY EntryReadIs
          <6>4. \A b \in BOOLEAN : rendered(b) \in Page
            BY <1>0, RenderedFacts
          <6>5. Page \in SUBSET Page
            OBVIOUS
          <6> QED  BY <3>1, <6>1, <6>2, <6>3, <6>4, <6>5, FlowHolds
        <5> QED  BY <1>2, <2>1, <4>1, <5>1 DEF AnswersIn, AnswersArePages, isPage
      <4>2. CASE f # g
        BY <1>0, <1>2, <2>1, <3>1, <4>2, FlowStepLeaves DEF LeavesOthers, AnswersArePages, isPage
      <4> QED  BY <4>1, <4>2
    <3>2. CASE \A g \in Requests : ~flowStep(g)
      BY <1>0, <1>2, <2>1, <3>2, OtherAnswers DEF AnswersArePages
    <3> QED  BY <3>1, <3>2
  <2>2. ASSUME NEW f \in Requests, joined'[f] # None PROVE joined'[f] \in Requests /\ kind'[f] # "none"
    <3>1. joined'[f] \in Requests
      BY <1>0, <2>2 DEF TypeOK
    <3>2. ASSUME NEW r \in Requests, NEW k \in Kinds, get(r, k) PROVE kind'[f] # "none"
      <4>1. CASE f = r
        BY <1>0, <3>2, <4>1 DEF get, begin, join, TypeOK, Kinds
      <4>2. CASE f # r
        BY <1>0, <1>2, <2>2, <3>2, <4>2 DEF get, begin, join, TypeOK, AnswersArePages
      <4> QED  BY <4>1, <4>2
    <3>3. CASE ~\E r \in Requests, k \in Kinds : get(r, k)
      <4>1. UNCHANGED <<joined, kind>>
        BY <1>0, <3>3, FlowStepLeaves
           DEF Next, strayWrite, strayFails, revalidateTag, evict, restart, tick, sourceChanges, vars
      <4> QED  BY <1>2, <2>2, <4>1 DEF AnswersArePages
    <3> QED  BY <3>1, <3>2, <3>3
  <2> QED  BY <2>1, <2>2 DEF AnswersArePages
<1> QED  BY <1>1, <1>2, <1>3, <1>4, <1>5, <1>6

(* FreshAfterRevalidation: who comes after a revalidation of the tag gets  *)
(* what is at least as new as the data was then, unless it was under way,  *)
(* as long as flows do not overlap, no write fails, and neither the tags   *)
(* nor the stamps are lost.                                                *)
THEOREM RevalidatedIsFresh == Spec => []FreshAfterRevalidation
<1>1. Base /\ Fresh => FreshAfterRevalidation
  <2> SUFFICES ASSUME Base, Fresh, known, NEW r \in Requests, joined[r] # None, isPage(joined[r]),
                      ~(joined[r] \in late \/ answer[joined[r]].html.late \/ answer[joined[r]].rsc.late)
               PROVE  /\ least[r].tag <= answer[joined[r]].html.version
                      /\ least[r].tag <= answer[joined[r]].rsc.version
    BY DEF FreshAfterRevalidation, known
  <2>1. CASE isAppPath
    BY <2>1 DEF Fresh, Answered, atLeast
  <2>2. CASE ~isAppPath
    <3>1. TypeOK /\ promised.tag = -1 /\ least[r].tag <= promised.tag /\ answer[joined[r]] \in Page
      BY <2>2 DEF Fresh, AnswersArePages, Base, Flows, Typed, Past, PromisesArePast
    <3>2. -1 <= answer[joined[r]].html.version /\ -1 <= answer[joined[r]].rsc.version
      BY <3>1, PageFacts DEF Version
    <3> QED  BY <3>1, <3>2, VersionsAreNumbers, PageFacts, VersionFacts
  <2> QED  BY <2>1, <2>2
<1>2. (Base /\ Fresh) /\ [Next]_vars => (Base /\ Fresh)'
  BY BaseStep, FreshStep
<1>3. Init => Base /\ Fresh
  BY BaseInit, FreshInit
<1> QED  BY <1>1, <1>2, <1>3, PTL DEF Spec
=============================================================================
