----------------------------- MODULE WriteBatchProofs -----------------------------
(***************************************************************************)
(* A theorem about WriteBatch, for any number of threads, entries and      *)
(* batches and any size of a collector.                                    *)
(*                                                                         *)
(* The argument: at any time the collectors, the files and the entries in  *)
(* the threads' hands are a partition of the entries of the batch, and the *)
(* numbers of the files, with those taken for files not created yet, one   *)
(* of the numbers since the batch began.  Each step moves entries from one *)
(* part to another or takes the next number.  While finish works a file    *)
(* may fail and take its entries with it; then no files are returned.      *)
(***************************************************************************)
EXTENDS WriteBatch, FiniteSetTheorems, TLAPS

-----------------------------------------------------------------------------
(* While the threads fill the batch                                        *)

(* The entry and the number a thread creates a file for.                   *)
pending(t) == IF creating[t].what = "nothing" THEN {} ELSE {creating[t].entry}
taken(t)   == IF creating[t].what = "nothing" THEN {} ELSE {creating[t].number}

contents(files) == UNION {w[2] : w \in files}
numbers(files)  == {w[1] : w \in files}

(* No two files have a number or an entry in common.                       *)
Apart(files) == \A v, w \in files : v # w => v[1] # w[1] /\ v[2] \cap w[2] = {}

(* What a thread has put, and the numbers of its SST files.                *)
owned(t) == collectors[t] \cup contents(new_sst_files[t]) \cup pending(t)
used(t)  == numbers(new_sst_files[t]) \cup taken(t)

(* A thread has each of its entries in one place, and a number of its own  *)
(* for each of its files.                                                  *)
ThreadIsExact(t) ==
    /\ Apart(new_sst_files[t])
    /\ collectors[t] \cap contents(new_sst_files[t]) = {}
    /\ pending(t) \cap (collectors[t] \cup contents(new_sst_files[t])) = {}
    /\ taken(t) \cap numbers(new_sst_files[t]) = {}
    /\ used(t) \cap new_blob_files = {}
    /\ creating[t].what = "sst" => collectors[t] # {}

(* The numbers since the batch began.                                      *)
span == first + 1 .. current_sequence_number

(* Together they have the entries of the batch and the numbers since its   *)
(* start.                                                                  *)
FillingIsExact ==
    phase = "filling" =>
        /\ \A t \in Thread : ThreadIsExact(t)
        /\ \A t, u \in Thread : t # u => owned(t) \cap owned(u) = {} /\ used(t) \cap used(u) = {}
        /\ UNION {owned(t) : t \in Thread} = entries
        /\ (UNION {used(t) : t \in Thread}) \cup new_blob_files = span

-----------------------------------------------------------------------------
(* While finish merges and writes                                          *)

(* The files that are written or being written.                            *)
files == writing \cup shared_new_sst_files

(* The collectors that are not handed to a task that writes them.          *)
held == UNION (merging \cup spawned)

(* No entry is in two collectors.                                          *)
Disjoint(sets) == \A c, d \in sets : c # d => c \cap d = {}

MergingIsExact ==
    phase \in {"merging", "finished"} =>
        /\ Disjoint(merging \cup spawned) /\ merging \cap spawned = {}
        /\ Apart(files)
        /\ held \cap contents(files) = {}
        /\ numbers(files) \cap new_blob_files = {}
        /\ numbers(files) \cup new_blob_files \subseteq span
        /\ ~shared_error => /\ held \cup contents(files) = entries
                            /\ numbers(files) \cup new_blob_files = span

(* Nothing is left in the threads, or in what finish works on, while it is *)
(* the other's turn.                                                       *)
TakingTurns ==
    /\ phase # "filling" => \A t \in Thread : creating[t] = Nothing
    /\ phase \in {"merging", "finished"} =>
          \A t \in Thread : collectors[t] = {} /\ new_sst_files[t] = {}
    /\ phase # "merging" => merging = {} /\ spawned = {} /\ writing = {}
    /\ phase = "filling" => shared_new_sst_files = {}
    /\ phase = "finished" =>
          ~shared_error /\ result \in in_order(shared_new_sst_files)

(* The batch began with a number that was current then.                    *)
BeganBefore == first <= current_sequence_number

Inv == TypeOK /\ BeganBefore /\ FillingIsExact /\ MergingIsExact /\ TakingTurns

-----------------------------------------------------------------------------
(* Collectors                                                              *)

(* A collector from the stack is empty, and so is the stack's rest.        *)
LEMMA IdleIsEmpty ==
    ASSUME TypeOK
    PROVE  /\ idle_collector = {}
           /\ popped \in Seq({{}})
           /\ Append(popped, {}) \in Seq({{}})
           /\ Append(idle_collectors, {}) \in Seq({{}})
<1>1. idle_collectors \in Seq({{}})
  BY DEF TypeOK
<1>2. CASE idle_collectors = << >>
  BY <1>1, <1>2 DEF idle_collector, popped
<1>3. CASE idle_collectors # << >>
  <2>1. Len(idle_collectors) \in 1 .. Len(idle_collectors)
    BY <1>1, <1>3
  <2>2. idle_collectors[Len(idle_collectors)] = {}
    BY <1>1, <2>1
  <2>3. SubSeq(idle_collectors, 1, Len(idle_collectors) - 1) \in Seq({{}})
    BY <1>1, <2>1
  <2> QED
    BY <1>1, <1>3, <2>2, <2>3 DEF idle_collector, popped, Last, Front
<1> QED
  BY <1>2, <1>3

LEMMA CollectorsAreFinite ==
    ASSUME NEW c \in SUBSET Entry
    PROVE  IsFiniteSet(c) /\ Cardinality(c) \in Nat /\ (c = {} => ~is_full(c))
BY FS_Subset, FS_CardinalityType, FS_EmptySet, EntryAssumption, MaxEntriesAssumption DEF is_full

(* What a thread does: nothing, or create a file for an entry.             *)
LEMMA CreatingKinds ==
    ASSUME TypeOK, NEW t \in Thread
    PROVE  \/ creating[t] = Nothing /\ creating[t].what = "nothing"
           \/ /\ creating[t] # Nothing /\ creating[t].what \in {"sst", "blob"}
              /\ creating[t].entry \in Entry /\ creating[t].number \in Nat
BY DEF TypeOK, Nothing

(* In put, the collector at hand has what the thread's collector has.      *)
LEMMA CollectorAtHand ==
    ASSUME TypeOK, NEW t \in Thread
    PROVE  (IF collectors[t] = {} THEN idle_collector ELSE collectors[t]) = collectors[t]
BY IdleIsEmpty

(* The cases of put: the collector is full, or the entry is large, or it   *)
(* goes into the collector.                                                *)
LEMMA PutCases ==
    ASSUME TypeOK, NEW t \in Thread, NEW e \in Entry, put(t, e)
    PROVE  \/ /\ collectors[t] # {} /\ collectors' = collectors
              /\ creating' = [creating EXCEPT ![t] = Creating("sst", e, next_number)]
              /\ current_sequence_number' = next_number
           \/ /\ collectors' = collectors
              /\ creating' = [creating EXCEPT ![t] = Creating("blob", e, next_number)]
              /\ current_sequence_number' = next_number
           \/ /\ collectors' = [collectors EXCEPT ![t] = collectors[t] \cup {e}]
              /\ creating' = [creating EXCEPT ![t] = Nothing]
              /\ current_sequence_number' = current_sequence_number
<1>1. collectors \in [Thread -> SUBSET Entry]
  BY DEF TypeOK
<1>2. [collectors EXCEPT ![t] = collectors[t]] = collectors
  BY <1>1
<1>3. CASE is_full(collectors[t])
  <2>1. collectors[t] # {}
    BY <1>1, <1>3, CollectorsAreFinite
  <2> QED
    BY <1>2, <1>3, <2>1, CollectorAtHand DEF put
<1>4. CASE ~is_full(collectors[t])
  BY <1>2, <1>4, CollectorAtHand DEF put, add, next_number
<1> QED
  BY <1>3, <1>4

(* The cases of create_full_sst_file.                                      *)
LEMMA FullCases ==
    ASSUME NEW t \in Thread, create_full_sst_file(t)
    PROVE  \/ /\ collectors' = [collectors EXCEPT ![t] = {}]
              /\ creating' = [creating EXCEPT ![t] = Creating("blob", creating[t].entry, next_number)]
              /\ current_sequence_number' = next_number
           \/ /\ collectors' = [collectors EXCEPT ![t] = {creating[t].entry}]
              /\ creating' = [creating EXCEPT ![t] = Nothing]
              /\ current_sequence_number' = current_sequence_number
BY DEF create_full_sst_file, add, next_number

(* The rest of the collector that is drained is not empty.                 *)
LEMMA RestIsNotEmpty ==
    ASSUME NEW a \in SUBSET Entry, NEW b \in SUBSET Entry, NEW drained \in SUBSET b,
           Cardinality(a) + Cardinality(b) > MaxEntries,
           Cardinality(drained) = MaxEntries - Cardinality(a)
    PROVE  b \ drained # {}
<1>1. Cardinality(a) \in Nat /\ Cardinality(b) \in Nat
  BY CollectorsAreFinite
<1>2. drained # b
  BY <1>1, MaxEntriesAssumption
<1> QED
  BY <1>2

-----------------------------------------------------------------------------
(* Types, and whose turn it is                                             *)

LEMMA InvInit == Init => Inv
<1> SUFFICES ASSUME Init PROVE Inv
  OBVIOUS
<1>1. TypeOK
  <2>1. creating \in [Thread -> {Nothing} \cup [what : {"sst", "blob"}, entry : Entry, number : Nat]]
    BY DEF Init
  <2>2. idle_collectors \in Seq({{}}) /\ result \in Seq(Nat \X Files)
    BY DEF Init
  <2> QED
    BY <2>1, <2>2 DEF Init, TypeOK
<1>2. \A t \in Thread : owned(t) = {} /\ used(t) = {} /\ ThreadIsExact(t)
  BY DEF Init, owned, used, pending, taken, contents, numbers, ThreadIsExact, Apart, Nothing
<1>3. FillingIsExact
  <2>1. span = {}
    BY DEF Init, span
  <2> QED
    BY <1>2, <2>1 DEF Init, FillingIsExact
<1>4. MergingIsExact /\ TakingTurns /\ BeganBefore
  BY DEF Init, MergingIsExact, TakingTurns, BeganBefore
<1> QED
  BY <1>1, <1>3, <1>4 DEF Inv

(* Whoever creates a file is filling the batch.                            *)
LEMMA CreatingWhileFilling ==
    ASSUME Inv, NEW t \in Thread, creating[t].what # "nothing"
    PROVE  phase = "filling"
BY DEF Inv, TakingTurns, Nothing

(* There are as many files as numbers at most.                             *)
LEMMA FilesAreFinite ==
    ASSUME TypeOK, MergingIsExact, phase \in {"merging", "finished"}
    PROVE  IsFiniteSet(shared_new_sst_files) /\ Cardinality(shared_new_sst_files) \in Nat
<1> DEFINE N == span
           f == [w \in shared_new_sst_files |-> w[1]]
<1>1. IsFiniteSet(N)
  BY FS_Interval DEF TypeOK, span
<1>2. Apart(files) /\ numbers(files) \subseteq N
  BY DEF MergingIsExact
<1>3. f \in Injection(shared_new_sst_files, N)
  <2>1. \A w \in shared_new_sst_files : w[1] \in N
    BY <1>2 DEF numbers, files
  <2>2. \A v, w \in shared_new_sst_files : v[1] = w[1] => v = w
    BY <1>2 DEF Apart, files
  <2> QED
    BY <2>1, <2>2 DEF Injection, IsInjective
<1> HIDE DEF N, f
<1>4. IsFiniteSet(shared_new_sst_files)
  BY <1>1, <1>3, FS_Injection
<1> QED
  BY <1>4, FS_CardinalityType

LEMMA TypeOKNext == Inv /\ [Next]_vars => TypeOK'
<1> SUFFICES ASSUME Inv, [Next]_vars PROVE TypeOK'
  OBVIOUS
<1>0. TypeOK
  BY DEF Inv
<1> DEFINE Creations == [what : {"sst", "blob"}, entry : Entry, number : Nat]
<1>a. next_number \in Nat
  BY <1>0 DEF TypeOK, next_number
<1>b. ASSUME NEW w \in {"sst", "blob"}, NEW e \in Entry
      PROVE  Creating(w, e, next_number) \in Creations
  BY <1>a DEF Creating
<1>1. ASSUME NEW t \in Thread, NEW e \in Entry, put(t, e)
      PROVE  TypeOK'
  <2>1. collectors' \in [Thread -> SUBSET Entry] /\ current_sequence_number' \in Nat
    <3>1. \/ collectors' = collectors
          \/ collectors' = [collectors EXCEPT ![t] = collectors[t] \cup {e}]
      BY <1>0, <1>1, PutCases
    <3>2. current_sequence_number' \in {next_number, current_sequence_number}
      BY <1>0, <1>1, PutCases
    <3> QED
      BY <1>0, <1>a, <3>1, <3>2 DEF TypeOK
  <2>2. creating' \in [Thread -> {Nothing} \cup Creations]
    BY <1>0, <1>1, <1>b, PutCases DEF TypeOK
  <2>3. idle_collectors' \in Seq({{}})
    BY <1>0, <1>1, IdleIsEmpty DEF put, TypeOK
  <2> QED
    BY <1>0, <1>1, <2>1, <2>2, <2>3 DEF put, TypeOK, tasks
<1>2. ASSUME NEW t \in Thread, create_full_sst_file(t)
      PROVE  TypeOK'
  <2>1. /\ creating[t].entry \in Entry /\ creating[t].number \in Nat
        /\ collectors[t] \in Files
    BY <1>0, <1>2, CreatingKinds, CreatingWhileFilling
       DEF create_full_sst_file, Inv, FillingIsExact, ThreadIsExact, TypeOK, Files
  <2>2. collectors' \in [Thread -> SUBSET Entry] /\ current_sequence_number' \in Nat
    BY <1>0, <1>2, <1>a, <2>1, FullCases DEF TypeOK
  <2>3. creating' \in [Thread -> {Nothing} \cup Creations]
    BY <1>0, <1>2, <1>b, <2>1, FullCases DEF TypeOK
  <2>4. new_sst_files' \in [Thread -> SUBSET (Nat \X Files)]
    BY <1>0, <1>2, <2>1 DEF create_full_sst_file, TypeOK
  <2> QED
    BY <1>0, <1>2, <2>2, <2>3, <2>4 DEF create_full_sst_file, TypeOK, tasks
<1>3. ASSUME NEW t \in Thread, create_blob(t)
      PROVE  TypeOK'
  <2>1. creating[t].entry \in Entry /\ creating[t].number \in Nat
    BY <1>0, <1>3, CreatingKinds DEF create_blob
  <2> QED
    BY <1>0, <1>3, <2>1 DEF create_blob, TypeOK, tasks
<1>4. ASSUME NEW t \in Thread, create_fails(t)
      PROVE  TypeOK'
  BY <1>0, <1>4 DEF create_fails, TypeOK, tasks
<1>5. CASE finish
  <2>1. merging' \subseteq Files
    BY <1>0, <1>5 DEF finish, TypeOK, Files
  <2>2. shared_new_sst_files' \subseteq Nat \X Files
    BY <1>0, <1>5 DEF finish, TypeOK
  <2>3. collectors' \in [Thread -> SUBSET Entry] /\ new_sst_files' \in [Thread -> SUBSET (Nat \X Files)]
    BY <1>5 DEF finish
  <2> QED
    BY <1>0, <1>5, <2>1, <2>2, <2>3 DEF finish, TypeOK
<1>6. ASSUME NEW a \in merging, NEW b \in merging, reduce(a, b)
      PROVE  TypeOK'
  <2>0. a \in Files /\ b \in Files
    BY <1>0, <1>6 DEF TypeOK
  <2>1. CASE drain(a, b)
    BY <1>0, <1>6, <2>0, <2>1, IdleIsEmpty DEF reduce, drain, TypeOK, threads, Files
  <2>2. CASE drain_beyond(a, b) /\ Cardinality(a) + Cardinality(b) > MaxEntries
    <3>1. PICK drained \in SUBSET b :
             /\ Cardinality(drained) = MaxEntries - Cardinality(a)
             /\ merging' = (merging \ {a, b}) \cup {b \ drained}
             /\ spawned' = spawned \cup {a \cup drained}
             /\ idle_collectors' = Append(popped, {})
      BY <1>0, <2>2, IdleIsEmpty DEF drain_beyond
    <3>2. b \ drained # {}
      BY <2>0, <2>2, <3>1, RestIsNotEmpty DEF Files
    <3>3. b \ drained \in Files /\ a \cup drained \in Files
      BY <2>0, <3>2 DEF Files
    <3> QED
      BY <1>0, <1>6, <3>1, <3>3, IdleIsEmpty DEF reduce, TypeOK, threads
  <2>3. Cardinality(a) \in Nat /\ Cardinality(b) \in Nat
    BY <2>0, CollectorsAreFinite DEF Files
  <2> QED
    BY <1>6, <2>1, <2>2, <2>3, MaxEntriesAssumption DEF reduce
<1>7. CASE spawn_final
  BY <1>0, <1>7 DEF spawn_final, TypeOK, threads
<1>8. ASSUME NEW c \in spawned, take_number(c)
      PROVE  TypeOK'
  BY <1>0, <1>8, <1>a DEF take_number, TypeOK, threads
<1>9. ASSUME NEW w \in writing, create_sst_file(w)
      PROVE  TypeOK'
  BY <1>0, <1>9, IdleIsEmpty DEF create_sst_file, TypeOK, threads
<1>10. ASSUME NEW w \in writing, create_sst_file_fails(w)
       PROVE  TypeOK'
  BY <1>0, <1>10 DEF create_sst_file_fails, TypeOK, threads
<1>11. CASE finished
  <2>1. result' \in Seq(Nat \X Files)
    BY <1>0, <1>11, FilesAreFinite DEF Inv, finished, in_order, TypeOK
  <2> QED
    BY <1>0, <1>11, <2>1 DEF finished, TypeOK, threads, tasks
<1>12. CASE reset
  BY <1>0, <1>12 DEF reset, TypeOK
<1>13. CASE UNCHANGED vars
  BY <1>0, <1>13 DEF vars, TypeOK, threads, tasks
<1> QED
  BY <1>1, <1>2, <1>3, <1>4, <1>5, <1>6, <1>7, <1>8, <1>9, <1>10, <1>11, <1>12, <1>13
     DEF Next, fill, write_remaining

LEMMA TakingTurnsNext == Inv /\ [Next]_vars => TakingTurns'
<1> SUFFICES ASSUME Inv, [Next]_vars PROVE TakingTurns'
  OBVIOUS
<1>0. TypeOK /\ TakingTurns
  BY DEF Inv
<1>1. ASSUME NEW t \in Thread, NEW e \in Entry, put(t, e)
      PROVE  TakingTurns'
  BY <1>0, <1>1 DEF put, TakingTurns, tasks
<1>2. ASSUME NEW t \in Thread, create_full_sst_file(t) \/ create_blob(t)
      PROVE  TakingTurns'
  <2>1. phase = "filling"
    BY <1>2, CreatingWhileFilling DEF create_full_sst_file, create_blob
  <2> QED
    BY <1>0, <1>2, <2>1 DEF create_full_sst_file, create_blob, TakingTurns, tasks
<1>3. ASSUME NEW t \in Thread, create_fails(t)
      PROVE  TakingTurns'
  BY <1>0, <1>3 DEF create_fails, TakingTurns, tasks
<1>4. CASE finish
  BY <1>0, <1>4 DEF finish, TakingTurns
<1>5. ASSUME NEW a, NEW b, reduce(a, b)
      PROVE  TakingTurns'
  BY <1>0, <1>5 DEF reduce, TakingTurns, threads
<1>6. CASE spawn_final
  BY <1>0, <1>6 DEF spawn_final, TakingTurns, threads
<1>7. ASSUME NEW c \in spawned, take_number(c)
      PROVE  TakingTurns'
  <2>1. phase = "merging"
    BY <1>0, <1>7 DEF TakingTurns
  <2> QED
    BY <1>0, <1>7, <2>1 DEF take_number, TakingTurns, threads
<1>8. ASSUME NEW w \in writing, create_sst_file(w) \/ create_sst_file_fails(w)
      PROVE  TakingTurns'
  <2>1. phase = "merging"
    BY <1>0, <1>8 DEF TakingTurns
  <2> QED
    BY <1>0, <1>8, <2>1 DEF create_sst_file, create_sst_file_fails, TakingTurns, threads
<1>9. CASE finished
  BY <1>0, <1>9 DEF finished, TakingTurns, threads, tasks
<1>10. CASE reset
  BY <1>0, <1>10 DEF reset, TakingTurns
<1>11. CASE UNCHANGED vars
  BY <1>0, <1>11 DEF vars, TakingTurns, threads, tasks
<1> QED
  BY <1>1, <1>2, <1>3, <1>4, <1>5, <1>6, <1>7, <1>8, <1>9, <1>10, <1>11
     DEF Next, fill, write_remaining

-----------------------------------------------------------------------------
(* The threads                                                             *)

(* What one more file adds.                                                *)
LEMMA OneMoreFile ==
    ASSUME NEW F, NEW n, NEW c
    PROVE  /\ contents(F \cup {<<n, c>>}) = contents(F) \cup c
           /\ numbers(F \cup {<<n, c>>}) = numbers(F) \cup {n}
<1> DEFINE w0 == <<n, c>>
           G == F \cup {w0}
<1>0. w0[1] = n /\ w0[2] = c
  OBVIOUS
<1> HIDE DEF w0
<1>1. \A x : x \in contents(G) <=> x \in contents(F) \/ x \in c
  <2>1. \A x : x \in contents(G) <=> \E w \in G : x \in w[2]
    BY DEF contents
  <2>2. \A x : x \in contents(F) <=> \E w \in F : x \in w[2]
    BY DEF contents
  <2>3. \A x : (\E w \in G : x \in w[2]) <=> (\E w \in F : x \in w[2]) \/ x \in c
    BY <1>0
  <2> QED
    BY <2>1, <2>2, <2>3
<1>2. \A x : x \in numbers(G) <=> x \in numbers(F) \/ x = n
  <2>1. \A x : x \in numbers(G) <=> \E w \in G : x = w[1]
    BY DEF numbers
  <2>2. \A x : x \in numbers(F) <=> \E w \in F : x = w[1]
    BY DEF numbers
  <2>3. \A x : (\E w \in G : x = w[1]) <=> (\E w \in F : x = w[1]) \/ x = n
    BY <1>0
  <2> QED
    BY <2>1, <2>2, <2>3
<1> QED
  BY <1>1, <1>2 DEF w0

(* A step of one thread keeps FillingIsExact when the thread keeps order   *)
(* in its own, and gains just what is new.                                 *)
LEMMA StepOfThread ==
    ASSUME Inv, NEW t \in Thread, phase = "filling",
           phase' = phase, first' = first,
           \A u \in Thread \ {t} : /\ collectors'[u] = collectors[u]
                                   /\ new_sst_files'[u] = new_sst_files[u]
                                   /\ creating'[u] = creating[u],
           NEW E, E \cap entries = {}, entries' = entries \cup E,
           NEW N, \A n \in N : n \in Nat /\ n > current_sequence_number,
           current_sequence_number' \in Nat,
           span' = span \cup N,
           owned(t)' = owned(t) \cup E,
           (used(t) \cup new_blob_files)' = used(t) \cup new_blob_files \cup N,
           used(t)' \subseteq used(t) \cup N,
           ThreadIsExact(t)'
    PROVE  FillingIsExact'
<1>0. FillingIsExact /\ TypeOK
  BY DEF Inv
<1>1. /\ \A u \in Thread : ThreadIsExact(u)
      /\ \A u, v \in Thread : u # v => owned(u) \cap owned(v) = {} /\ used(u) \cap used(v) = {}
      /\ UNION {owned(u) : u \in Thread} = entries
      /\ (UNION {used(u) : u \in Thread}) \cup new_blob_files = span
  BY <1>0 DEF FillingIsExact
<1>2. \A u \in Thread \ {t} : owned(u)' = owned(u) /\ used(u)' = used(u)
  BY DEF owned, used, pending, taken
<1>3. \A u \in Thread : owned(u) \cap E = {}
  BY <1>1
<1>4. \A u \in Thread : used(u) \cap N = {}
  <2>1. \A n \in N : n \notin span
    BY <1>0 DEF TypeOK, span
  <2> QED
    BY <1>1, <2>1
<1>5. new_blob_files' \subseteq new_blob_files \cup used(t) \cup N
  OBVIOUS
<1>6. ASSUME NEW u \in Thread
      PROVE  ThreadIsExact(u)'
  <2>1. CASE u # t
    <3>1. used(u) \cap used(t) = {} /\ used(u) \cap new_blob_files = {}
      BY <1>1, <2>1 DEF ThreadIsExact
    <3>2. (used(u) \cap new_blob_files)' = {}
      BY <1>2, <1>4, <1>5, <2>1, <3>1
    <3>3. ThreadIsExact(u)
      BY <1>1
    <3> QED
      BY <2>1, <3>2, <3>3 DEF ThreadIsExact, pending, taken
  <2> QED
    BY <2>1
<1>7. ASSUME NEW u \in Thread, NEW v \in Thread, u # v
      PROVE  (owned(u) \cap owned(v) = {} /\ used(u) \cap used(v) = {})'
  <2>1. owned(u) \cap owned(v) = {} /\ used(u) \cap used(v) = {}
    BY <1>1, <1>7
  <2>2. CASE u = t
    BY <1>2, <1>3, <1>4, <1>7, <2>1, <2>2
  <2>3. CASE v = t
    BY <1>2, <1>3, <1>4, <1>7, <2>1, <2>3
  <2> QED
    BY <1>2, <2>1, <2>2, <2>3
<1>8. (UNION {owned(u) : u \in Thread})' = entries'
  <2>1. \A x : (\E u \in Thread : x \in owned(u)') <=> (\E u \in Thread : x \in owned(u)) \/ x \in E
    BY <1>2
  <2> QED
    BY <1>1, <2>1
<1>9. ((UNION {used(u) : u \in Thread}) \cup new_blob_files)'
         = span'
  <2>1. \A x : (\E u \in Thread : x \in used(u)') \/ x \in new_blob_files'
                  <=> (\E u \in Thread : x \in used(u)) \/ x \in new_blob_files \/ x \in N
    <3>1. \A x : x \in used(t)' \/ x \in new_blob_files'
                    <=> x \in used(t) \/ x \in new_blob_files \/ x \in N
      OBVIOUS
    <3>2. \A x : \A u \in Thread \ {t} : x \in used(u)' <=> x \in used(u)
      BY <1>2
    <3> QED
      BY <3>1, <3>2
  <2>2. \A x : (\E u \in Thread : x \in used(u)) \/ x \in new_blob_files <=> x \in span
    BY <1>1
  <2>3. \A x : (\E u \in Thread : x \in used(u)') \/ x \in new_blob_files' <=> x \in span'
    BY <2>1, <2>2
  <2> QED
    BY <2>3
<1> QED
  BY <1>6, <1>7, <1>8, <1>9 DEF FillingIsExact

(* The interval of numbers grows by the next one.                          *)
LEMMA NextNumber ==
    ASSUME Inv
    PROVE  /\ next_number \in Nat /\ next_number > current_sequence_number
           /\ current_sequence_number \in Nat
           /\ first + 1 .. next_number = span \cup {next_number}
BY DEF Inv, TypeOK, BeganBefore, next_number, span

LEMMA FillingNext == Inv /\ [Next]_vars => FillingIsExact'
<1> SUFFICES ASSUME Inv, [Next]_vars PROVE FillingIsExact'
  OBVIOUS
<1>0. TypeOK /\ FillingIsExact /\ TakingTurns
  BY DEF Inv
<1>a. /\ next_number \in Nat /\ next_number > current_sequence_number
      /\ current_sequence_number \in Nat
      /\ first + 1 .. next_number = span \cup {next_number}
  BY NextNumber
<1>b. ASSUME phase = "filling", NEW t \in Thread
      PROVE  /\ ThreadIsExact(t)
             /\ owned(t) \subseteq entries
             /\ used(t) \cup new_blob_files \subseteq span
  <2>1. /\ ThreadIsExact(t)
        /\ UNION {owned(u) : u \in Thread} = entries
        /\ (UNION {used(u) : u \in Thread}) \cup new_blob_files = span
    BY <1>0, <1>b DEF FillingIsExact
  <2>2. owned(t) \subseteq UNION {owned(u) : u \in Thread}
        /\ used(t) \subseteq UNION {used(u) : u \in Thread}
    OBVIOUS
  <2>3. owned(t) \subseteq entries
    BY <2>1, <2>2
  <2>4. used(t) \cup new_blob_files \subseteq span
    BY <2>1, <2>2
  <2> QED
    BY <2>1, <2>3, <2>4
<1>c. next_number \notin span
  BY <1>0 DEF TypeOK, next_number, span
<1>1. ASSUME NEW t \in Thread, NEW e \in Entry, put(t, e)
      PROVE  FillingIsExact'
  <2>0. /\ phase = "filling" /\ phase' = phase /\ first' = first
        /\ entries' = entries \cup {e} /\ e \notin entries
        /\ creating[t] = Nothing /\ new_sst_files' = new_sst_files
        /\ new_blob_files' = new_blob_files
    BY <1>1 DEF put
  <2>1. pending(t) = {} /\ taken(t) = {}
    BY <2>0 DEF pending, taken, Nothing
  <2>2. /\ ThreadIsExact(t) /\ e \notin owned(t)
        /\ next_number \notin used(t) \cup new_blob_files
    BY <1>b, <1>c, <2>0
  <2>3. \A u \in Thread \ {t} : /\ collectors'[u] = collectors[u]
                                /\ new_sst_files'[u] = new_sst_files[u]
                                /\ creating'[u] = creating[u]
    BY <1>0, <1>1, <2>0, PutCases DEF TypeOK
  <2>4. ASSUME NEW what \in {"sst", "blob"}, what = "sst" => collectors[t] # {},
               collectors' = collectors,
               creating' = [creating EXCEPT ![t] = Creating(what, e, next_number)],
               current_sequence_number' = next_number
        PROVE  FillingIsExact'
    <3>1. /\ creating'[t].what = what /\ creating'[t].entry = e
          /\ creating'[t].number = next_number
      BY <1>0, <2>4 DEF TypeOK, Creating
    <3>2. pending(t)' = {e} /\ taken(t)' = {next_number}
      BY <3>1 DEF pending, taken
    <3>3. owned(t)' = owned(t) \cup {e} /\ used(t)' = used(t) \cup {next_number}
      BY <2>0, <2>1, <2>4, <3>2 DEF owned, used, contents, numbers
    <3>4. ThreadIsExact(t)'
      BY <2>0, <2>1, <2>2, <2>4, <3>1, <3>2, <3>3 DEF ThreadIsExact, owned, used
    <3>5. {e} \cap entries = {} /\ \A n \in {next_number} : n \in Nat /\ n > current_sequence_number
      BY <1>a, <2>0
    <3>6. /\ span' = span \cup {next_number}
          /\ (used(t) \cup new_blob_files)' = used(t) \cup new_blob_files \cup {next_number}
          /\ used(t)' \subseteq used(t) \cup {next_number}
          /\ current_sequence_number' \in Nat
      BY <1>a, <2>0, <2>4, <3>3 DEF span
    <3> QED
      BY <2>0, <2>3, <3>3, <3>4, <3>5, <3>6, StepOfThread
  <2>5. ASSUME collectors' = [collectors EXCEPT ![t] = collectors[t] \cup {e}],
               creating' = [creating EXCEPT ![t] = Nothing],
               current_sequence_number' = current_sequence_number
        PROVE  FillingIsExact'
    <3>1. creating'[t] = Nothing /\ collectors'[t] = collectors[t] \cup {e}
      BY <1>0, <2>5 DEF TypeOK
    <3>2. pending(t)' = {} /\ taken(t)' = {}
      BY <3>1 DEF pending, taken, Nothing
    <3>3. owned(t)' = owned(t) \cup {e} /\ used(t)' = used(t)
      BY <2>0, <2>1, <3>1, <3>2 DEF owned, used
    <3>4. ThreadIsExact(t)'
      BY <2>0, <2>1, <2>2, <3>1, <3>2, <3>3 DEF ThreadIsExact, owned, Nothing
    <3>5. {e} \cap entries = {} /\ \A n \in {} : n \in Nat /\ n > current_sequence_number
      BY <2>0
    <3>6. /\ span' = span \cup {}
          /\ (used(t) \cup new_blob_files)' = used(t) \cup new_blob_files \cup {}
          /\ used(t)' \subseteq used(t) \cup {}
          /\ current_sequence_number' \in Nat
      BY <1>a, <2>0, <2>5, <3>3 DEF span
    <3> QED
      BY <2>0, <2>3, <3>3, <3>4, <3>5, <3>6, StepOfThread
  <2> QED
    BY <1>0, <1>1, <2>4, <2>5, PutCases
<1>2. ASSUME NEW t \in Thread, create_full_sst_file(t)
      PROVE  FillingIsExact'
  <2> DEFINE e == creating[t].entry
             n == creating[t].number
             file == <<n, collectors[t]>>
  <2>0. /\ phase = "filling" /\ phase' = phase /\ first' = first
        /\ entries' = entries /\ new_blob_files' = new_blob_files
        /\ creating[t].what = "sst"
    BY <1>2, CreatingWhileFilling DEF create_full_sst_file
  <2>1. pending(t) = {e} /\ taken(t) = {n}
    BY <2>0 DEF pending, taken
  <2>2. ThreadIsExact(t) /\ next_number \notin used(t) \cup new_blob_files
    BY <1>b, <1>c, <2>0
  <2>3. \A u \in Thread \ {t} : /\ collectors'[u] = collectors[u]
                                /\ new_sst_files'[u] = new_sst_files[u]
                                /\ creating'[u] = creating[u]
    BY <1>0, <1>2, FullCases DEF TypeOK, create_full_sst_file
  <2>4. new_sst_files'[t] = new_sst_files[t] \cup {file}
    BY <1>0, <1>2 DEF TypeOK, create_full_sst_file
  <2>5. /\ contents(new_sst_files[t])' = contents(new_sst_files[t]) \cup collectors[t]
        /\ numbers(new_sst_files[t])' = numbers(new_sst_files[t]) \cup {n}
    <3>1. /\ contents(new_sst_files[t])' = contents(new_sst_files'[t])
          /\ numbers(new_sst_files[t])' = numbers(new_sst_files'[t])
      BY DEF contents, numbers
    <3>2. /\ contents(new_sst_files[t] \cup {file}) = contents(new_sst_files[t]) \cup collectors[t]
          /\ numbers(new_sst_files[t] \cup {file}) = numbers(new_sst_files[t]) \cup {n}
      BY OneMoreFile
    <3> HIDE DEF file, n
    <3> QED
      BY <2>4, <3>1, <3>2
  <2>6. Apart(new_sst_files[t])'
    <3>1. \A v \in new_sst_files[t] : v[1] # n /\ v[2] \cap collectors[t] = {}
      BY <2>1, <2>2 DEF ThreadIsExact, contents, numbers
    <3>2. Apart(new_sst_files[t])
      BY <2>2 DEF ThreadIsExact
    <3> QED
      BY <2>4, <3>1, <3>2 DEF Apart
  <2>7. ASSUME collectors' = [collectors EXCEPT ![t] = {}],
               creating' = [creating EXCEPT ![t] = Creating("blob", e, next_number)],
               current_sequence_number' = next_number
        PROVE  FillingIsExact'
    <3>1. /\ creating'[t].what = "blob" /\ creating'[t].entry = e
          /\ creating'[t].number = next_number /\ collectors'[t] = {}
      BY <1>0, <2>7 DEF TypeOK, Creating
    <3>2. pending(t)' = {e} /\ taken(t)' = {next_number}
      BY <3>1 DEF pending, taken
    <3>3. owned(t)' = owned(t) \cup {} /\ used(t)' = used(t) \cup {next_number}
      BY <2>1, <2>5, <3>1, <3>2 DEF owned, used
    <3>4. ThreadIsExact(t)'
      BY <2>0, <2>1, <2>2, <2>5, <2>6, <3>1, <3>2, <3>3 DEF ThreadIsExact, used
    <3>5. {} \cap entries = {} /\ \A m \in {next_number} : m \in Nat /\ m > current_sequence_number
      BY <1>a
    <3>6. /\ span' = span \cup {next_number}
          /\ (used(t) \cup new_blob_files)' = used(t) \cup new_blob_files \cup {next_number}
          /\ used(t)' \subseteq used(t) \cup {next_number}
          /\ entries' = entries \cup {}
          /\ current_sequence_number' \in Nat
      BY <1>a, <2>0, <2>7, <3>3 DEF span
    <3> QED
      BY <2>0, <2>3, <3>3, <3>4, <3>5, <3>6, StepOfThread
  <2>8. ASSUME collectors' = [collectors EXCEPT ![t] = {e}],
               creating' = [creating EXCEPT ![t] = Nothing],
               current_sequence_number' = current_sequence_number
        PROVE  FillingIsExact'
    <3>1. creating'[t] = Nothing /\ collectors'[t] = {e}
      BY <1>0, <2>8 DEF TypeOK
    <3>2. pending(t)' = {} /\ taken(t)' = {}
      BY <3>1 DEF pending, taken, Nothing
    <3>3. owned(t)' = owned(t) \cup {} /\ used(t)' = used(t)
      BY <2>1, <2>5, <3>1, <3>2 DEF owned, used
    <3>4. ThreadIsExact(t)'
      BY <2>0, <2>1, <2>2, <2>5, <2>6, <3>1, <3>2, <3>3 DEF ThreadIsExact, Nothing
    <3>5. {} \cap entries = {} /\ \A m \in {} : m \in Nat /\ m > current_sequence_number
      OBVIOUS
    <3>6. /\ span' = span \cup {}
          /\ (used(t) \cup new_blob_files)' = used(t) \cup new_blob_files \cup {}
          /\ used(t)' \subseteq used(t) \cup {}
          /\ entries' = entries \cup {}
          /\ current_sequence_number' \in Nat
      BY <1>a, <2>0, <2>8, <3>3 DEF span
    <3> QED
      BY <2>0, <2>3, <3>3, <3>4, <3>5, <3>6, StepOfThread
  <2> QED
    BY <1>2, <2>7, <2>8, FullCases
<1>3. ASSUME NEW t \in Thread, create_blob(t)
      PROVE  FillingIsExact'
  <2> DEFINE e == creating[t].entry
             n == creating[t].number
  <2>0. /\ phase = "filling" /\ phase' = phase /\ first' = first
        /\ entries' = entries \cup {} /\ new_blob_files' = new_blob_files \cup {n}
        /\ new_sst_files' = new_sst_files
        /\ current_sequence_number' = current_sequence_number
        /\ creating[t].what = "blob"
    BY <1>3, CreatingWhileFilling DEF create_blob
  <2>1. pending(t) = {e} /\ taken(t) = {n}
    BY <2>0 DEF pending, taken
  <2>2. ThreadIsExact(t)
    BY <1>b, <2>0
  <2>3. \A u \in Thread \ {t} : /\ collectors'[u] = collectors[u]
                                /\ new_sst_files'[u] = new_sst_files[u]
                                /\ creating'[u] = creating[u]
    BY <1>0, <1>3 DEF TypeOK, create_blob
  <2>4. creating'[t] = Nothing /\ collectors'[t] = collectors[t] \cup {e}
    BY <1>0, <1>3 DEF TypeOK, create_blob
  <2>5. pending(t)' = {} /\ taken(t)' = {}
    BY <2>4 DEF pending, taken, Nothing
  <2>6. owned(t)' = owned(t) \cup {} /\ used(t)' = numbers(new_sst_files[t])
    BY <2>0, <2>1, <2>4, <2>5 DEF owned, used
  <2>7. used(t) = numbers(new_sst_files[t]) \cup {n}
    BY <2>1 DEF used
  <2>8. ThreadIsExact(t)'
    BY <2>0, <2>1, <2>2, <2>4, <2>5, <2>6, <2>7 DEF ThreadIsExact, Nothing
  <2>9. {} \cap entries = {} /\ \A m \in {} : m \in Nat /\ m > current_sequence_number
    OBVIOUS
  <2>10. /\ span' = span \cup {}
         /\ (used(t) \cup new_blob_files)' = used(t) \cup new_blob_files \cup {}
         /\ used(t)' \subseteq used(t) \cup {}
         /\ current_sequence_number' \in Nat
    BY <1>a, <2>0, <2>6, <2>7 DEF span
  <2> QED
    BY <2>0, <2>3, <2>6, <2>8, <2>9, <2>10, StepOfThread
<1>4. CASE phase' # "filling"
  BY <1>4 DEF FillingIsExact
<1>5. CASE reset
  <2>1. /\ collectors' = collectors /\ new_sst_files' = new_sst_files /\ creating' = creating
        /\ new_blob_files' = {} /\ entries' = {} /\ phase = "finished"
        /\ first' = current_sequence_number /\ current_sequence_number' = current_sequence_number
    BY <1>5 DEF reset
  <2>2. \A t \in Thread : collectors[t] = {} /\ new_sst_files[t] = {} /\ creating[t] = Nothing
    BY <1>0, <2>1 DEF TakingTurns
  <2>3. \A t \in Thread : /\ collectors'[t] = {} /\ new_sst_files'[t] = {}
                          /\ pending(t)' = {} /\ taken(t)' = {}
    BY <2>1, <2>2 DEF pending, taken, Nothing
  <2>4. \A t \in Thread : owned(t)' = {} /\ used(t)' = {}
    BY <2>3 DEF owned, used, contents, numbers
  <2>5. \A t \in Thread : ThreadIsExact(t)'
    BY <2>1, <2>2, <2>3, <2>4 DEF ThreadIsExact, Apart, Nothing
  <2>6. span' = {}
    BY <1>a, <2>1 DEF span
  <2> QED
    BY <2>1, <2>4, <2>5, <2>6 DEF FillingIsExact
<1>6. CASE UNCHANGED <<current_sequence_number, threads, phase, entries, first>>
  BY <1>0, <1>6 DEF FillingIsExact, ThreadIsExact, owned, used, pending, taken, span, threads
<1>7. CASE finish \/ finished \/ \E t \in Thread : create_fails(t)
  BY <1>4, <1>7 DEF finish, finished, create_fails
<1>8. ASSUME NEW c \in spawned, take_number(c)
      PROVE  FillingIsExact'
  BY <1>0, <1>4, <1>8 DEF take_number, TakingTurns
<1>9. CASE \/ \E a, b \in merging : reduce(a, b)
           \/ spawn_final
           \/ \E w \in writing : create_sst_file(w) \/ create_sst_file_fails(w)
  BY <1>6, <1>9 DEF reduce, spawn_final, create_sst_file, create_sst_file_fails
<1>10. CASE UNCHANGED vars
  BY <1>6, <1>10 DEF vars
<1> QED
  BY <1>1, <1>2, <1>3, <1>5, <1>7, <1>8, <1>9, <1>10 DEF Next, fill, write_remaining

-----------------------------------------------------------------------------
(* finish                                                                  *)

(* Two collectors are regrouped: into one, or into one that stays and one  *)
(* that is handed to a task.                                               *)
LEMMA Regrouped ==
    ASSUME Inv, phase = "merging", NEW a \in merging, NEW b \in merging, a # b, drain(a, b)
    PROVE  Disjoint(merging' \cup spawned') /\ merging' \cap spawned' = {} /\ held' = held
<1>0. Disjoint(merging \cup spawned) /\ merging \cap spawned = {}
  BY DEF Inv, MergingIsExact
<1>1. \A c \in merging \cup spawned : c # {}
  BY DEF Inv, TypeOK, Files
<1>2. merging' = (merging \ {a, b}) \cup {a \cup b} /\ spawned' = spawned
  BY DEF drain
<1>3. \A c \in (merging \cup spawned) \ {a, b} : c \cap (a \cup b) = {}
  BY <1>0 DEF Disjoint
<1>4. a \cup b \notin spawned
  BY <1>0, <1>1, <1>3
<1>5. merging' \cap spawned' = {}
  BY <1>0, <1>2, <1>4
<1>6. \A c \in merging' \cup spawned' : c = a \cup b \/ c \in (merging \cup spawned) \ {a, b}
  BY <1>0, <1>2
<1>7. Disjoint(merging' \cup spawned')
  BY <1>0, <1>3, <1>6 DEF Disjoint
<1> DEFINE others == (merging \cup spawned) \ {a, b}
<1>8. merging \cup spawned = others \cup {a, b} /\ merging' \cup spawned' = others \cup {a \cup b}
  BY <1>0, <1>2
<1> HIDE DEF others
<1>9. held' = held
  <2>1. \A x : x \in held <=> x \in a \/ x \in b \/ \E c \in others : x \in c
    BY <1>8 DEF held
  <2>2. \A x : x \in held' <=> x \in a \cup b \/ \E c \in others : x \in c
    BY <1>8 DEF held
  <2> QED
    BY <2>1, <2>2
<1> QED
  BY <1>5, <1>7, <1>9

LEMMA RegroupedBeyond ==
    ASSUME Inv, phase = "merging", NEW a \in merging, NEW b \in merging, a # b,
           drain_beyond(a, b), Cardinality(a) + Cardinality(b) > MaxEntries
    PROVE  Disjoint(merging' \cup spawned') /\ merging' \cap spawned' = {} /\ held' = held
<1> USE DEF Inv
<1>0. Disjoint(merging \cup spawned) /\ merging \cap spawned = {}
  BY DEF MergingIsExact
<1>1. \A c \in merging \cup spawned : c # {} /\ c \in SUBSET Entry
  BY DEF TypeOK, Files
<1>2. PICK drained \in SUBSET b :
         /\ Cardinality(drained) = MaxEntries - Cardinality(a)
         /\ merging' = (merging \ {a, b}) \cup {b \ drained}
         /\ spawned' = spawned \cup {a \cup drained}
  BY IdleIsEmpty DEF drain_beyond
<1> DEFINE rest == b \ drained
           full == a \cup drained
           others == (merging \cup spawned) \ {a, b}
<1>3. rest # {} /\ full # {} /\ rest \cap full = {}
  BY <1>0, <1>1, <1>2, RestIsNotEmpty DEF Disjoint
<1>4. \A c \in others : c # {} /\ c \cap rest = {} /\ c \cap full = {}
  BY <1>0, <1>1 DEF Disjoint
<1>5. \A c, d \in others : c # d => c \cap d = {}
  BY <1>0 DEF Disjoint
<1>6. /\ merging' = (merging \ {a, b}) \cup {rest} /\ spawned' = spawned \cup {full}
      /\ rest \cup full = a \cup b
  BY <1>2
<1> HIDE DEF rest, full
<1>7. full \notin merging \ {a, b} /\ rest \notin spawned
  BY <1>0, <1>3, <1>4
<1>8. merging' \cap spawned' = {}
  BY <1>0, <1>3, <1>6, <1>7
<1>9. \A c \in merging' \cup spawned' : c = rest \/ c = full \/ c \in others
  BY <1>0, <1>6
<1> HIDE DEF others
<1>10. Disjoint(merging' \cup spawned')
  BY <1>3, <1>4, <1>5, <1>9 DEF Disjoint
<1>11. held' = held
  <2>1. \A x : x \in held <=> x \in a \/ x \in b \/ \E c \in others : x \in c
    BY DEF held, others
  <2>2. \A x : x \in held' <=> x \in rest \/ x \in full \/ \E c \in others : x \in c
    BY <1>0, <1>6 DEF held, others
  <2> QED
    BY <1>6, <2>1, <2>2
<1> QED
  BY <1>8, <1>10, <1>11

(* What finish gathers from the threads.                                   *)
LEMMA MergingAfterFinish ==
    ASSUME Inv, finish
    PROVE  MergingIsExact'
<1> DEFINE F == UNION {new_sst_files[t] : t \in Thread}
<1>0. TypeOK /\ FillingIsExact /\ TakingTurns
  BY DEF Inv
<1>1. /\ phase = "filling" /\ \A t \in Thread : creating[t] = Nothing
      /\ merging' = {collectors[t] : t \in Thread} \ {{}} /\ spawned' = {}
      /\ files' = F /\ entries' = entries /\ new_blob_files' = new_blob_files
      /\ span' = span
  BY <1>0 DEF finish, TakingTurns, files, span
<1>2. \A t \in Thread : pending(t) = {} /\ taken(t) = {}
  BY <1>1 DEF pending, taken, Nothing
<1>3. /\ \A t \in Thread : ThreadIsExact(t)
      /\ \A t, u \in Thread : t # u => owned(t) \cap owned(u) = {} /\ used(t) \cap used(u) = {}
      /\ UNION {owned(t) : t \in Thread} = entries
      /\ (UNION {used(t) : t \in Thread}) \cup new_blob_files = span
  BY <1>0, <1>1 DEF FillingIsExact
<1>4. \A t \in Thread : /\ owned(t) = collectors[t] \cup contents(new_sst_files[t])
                        /\ used(t) = numbers(new_sst_files[t])
  BY <1>2 DEF owned, used
<1>5. \A t \in Thread : \A w \in new_sst_files[t] : w[1] \in used(t) /\ w[2] \subseteq owned(t)
  BY <1>4 DEF contents, numbers
<1>6. Disjoint(merging \cup spawned)' /\ (merging \cap spawned)' = {}
  <2>1. \A t, u \in Thread : t # u => collectors[t] \cap collectors[u] = {}
    BY <1>3, <1>4
  <2> QED
    BY <1>1, <2>1 DEF Disjoint
<1>7. Apart(F)
  <2> SUFFICES ASSUME NEW t \in Thread, NEW u \in Thread,
                      NEW v \in new_sst_files[t], NEW w \in new_sst_files[u], v # w
               PROVE  v[1] # w[1] /\ v[2] \cap w[2] = {}
    BY DEF Apart
  <2>1. CASE t = u
    BY <1>3, <2>1 DEF ThreadIsExact, Apart
  <2>2. CASE t # u
    BY <1>3, <1>5, <2>2
  <2> QED
    BY <2>1, <2>2
<1>8. \A x : x \in held' <=> \E t \in Thread : x \in collectors[t]
  BY <1>1 DEF held
<1>9. \A x : /\ x \in contents(F) <=> \E t \in Thread : x \in contents(new_sst_files[t])
             /\ x \in numbers(F) <=> \E t \in Thread : x \in numbers(new_sst_files[t])
  BY DEF contents, numbers
<1>10. held' \cap contents(F) = {}
  <2> SUFFICES ASSUME NEW t \in Thread, NEW u \in Thread
               PROVE  collectors[t] \cap contents(new_sst_files[u]) = {}
    BY <1>8, <1>9
  <2>1. CASE t = u
    BY <1>3, <2>1 DEF ThreadIsExact
  <2>2. CASE t # u
    BY <1>3, <1>4, <2>2
  <2> QED
    BY <2>1, <2>2
<1>11. numbers(F) \cap new_blob_files = {}
  BY <1>3, <1>4, <1>9 DEF ThreadIsExact
<1>12. held' \cup contents(F) = entries
  <2>1. \A x : x \in entries <=> \E t \in Thread : x \in collectors[t] \/ x \in contents(new_sst_files[t])
    BY <1>3, <1>4
  <2> QED
    BY <1>8, <1>9, <2>1
<1>13. numbers(F) \cup new_blob_files = span
  <2>1. \A x : x \in span <=> (\E t \in Thread : x \in numbers(new_sst_files[t])) \/ x \in new_blob_files
    BY <1>3, <1>4
  <2> QED
    BY <1>9, <2>1
<1>14. contents(files)' = contents(F) /\ numbers(files)' = numbers(F) /\ Apart(files)' = Apart(F)
  BY <1>1 DEF contents, numbers, Apart
<1> QED
  BY <1>1, <1>6, <1>7, <1>10, <1>11, <1>12, <1>13, <1>14 DEF MergingIsExact

(* Regrouping the collectors changes nothing else.                         *)
LEMMA MergingKept ==
    ASSUME MergingIsExact, phase = "merging", phase' = phase, files' = files,
           Disjoint(merging \cup spawned)', (merging \cap spawned)' = {}, held' = held,
           UNCHANGED <<new_blob_files, shared_error, entries, first, current_sequence_number>>
    PROVE  MergingIsExact'
<1>1. /\ contents(files)' = contents(files) /\ numbers(files)' = numbers(files)
      /\ Apart(files)' = Apart(files) /\ span' = span
  BY DEF contents, numbers, Apart, span
<1> QED
  BY <1>1 DEF MergingIsExact

LEMMA MergingNext == Inv /\ [Next]_vars => MergingIsExact'
<1> SUFFICES ASSUME Inv, [Next]_vars PROVE MergingIsExact'
  OBVIOUS
<1>0. TypeOK /\ MergingIsExact /\ TakingTurns
  BY DEF Inv
<1>1. CASE phase' \in {"filling", "failed"}
  BY <1>1 DEF MergingIsExact
<1>2. ASSUME NEW t \in Thread, fill(t)
      PROVE  MergingIsExact'
  <2>1. CASE create_fails(t)
    BY <1>1, <2>1 DEF create_fails
  <2>2. CASE create_full_sst_file(t) \/ create_blob(t)
    BY <1>1, <2>2, CreatingWhileFilling DEF create_full_sst_file, create_blob
  <2>3. CASE \E e \in Entry : put(t, e)
    BY <1>1, <2>3 DEF put
  <2> QED
    BY <1>2, <2>1, <2>2, <2>3 DEF fill
<1>3. CASE finish
  BY <1>3, MergingAfterFinish
<1>4. ASSUME NEW a \in merging, NEW b \in merging, reduce(a, b)
      PROVE  MergingIsExact'
  <2>0. /\ phase = "merging" /\ phase' = phase /\ a # b /\ files' = files
        /\ UNCHANGED <<new_blob_files, shared_error, entries, first, current_sequence_number>>
        /\ a \in SUBSET Entry /\ b \in SUBSET Entry
    BY <1>0, <1>4 DEF reduce, files, threads, TypeOK, Files
  <2>1. ASSUME Disjoint(merging' \cup spawned'), merging' \cap spawned' = {}, held' = held
        PROVE  MergingIsExact'
    BY <1>0, <2>0, <2>1, MergingKept DEF Disjoint
  <2>2. CASE drain(a, b)
    BY <2>0, <2>1, <2>2, Regrouped
  <2>3. CASE drain_beyond(a, b) /\ Cardinality(a) + Cardinality(b) > MaxEntries
    BY <2>0, <2>1, <2>3, RegroupedBeyond
  <2>4. Cardinality(a) \in Nat /\ Cardinality(b) \in Nat
    BY <2>0, CollectorsAreFinite
  <2> QED
    BY <1>4, <2>2, <2>3, <2>4, MaxEntriesAssumption DEF reduce
<1>5. CASE spawn_final
  <2>0. /\ phase = "merging" /\ phase' = phase /\ files' = files
        /\ UNCHANGED <<new_blob_files, shared_error, entries, first, current_sequence_number>>
        /\ spawned' = spawned \cup merging /\ merging' = {}
    BY <1>5 DEF spawn_final, files, threads
  <2>1. (merging \cup spawned)' = merging \cup spawned /\ (merging \cap spawned)' = {}
    BY <2>0
  <2>2. Disjoint(merging \cup spawned)' /\ held' = held
    BY <1>0, <2>0, <2>1 DEF MergingIsExact, Disjoint, held
  <2> QED
    BY <1>0, <2>0, <2>1, <2>2, MergingKept
<1>6. ASSUME NEW c \in spawned, take_number(c)
      PROVE  MergingIsExact'
  <2>0. /\ phase = "merging" /\ phase' = phase
        /\ UNCHANGED <<new_blob_files, shared_error, entries, first>>
        /\ merging' = merging /\ spawned' = spawned \ {c}
        /\ files' = files \cup {<<next_number, c>>}
        /\ current_sequence_number' = next_number
    BY <1>0, <1>6 DEF take_number, files, threads, TakingTurns
  <2>1. /\ Disjoint(merging \cup spawned) /\ merging \cap spawned = {} /\ Apart(files)
        /\ held \cap contents(files) = {} /\ numbers(files) \cap new_blob_files = {}
        /\ numbers(files) \cup new_blob_files \subseteq span
        /\ ~shared_error => /\ held \cup contents(files) = entries
                            /\ numbers(files) \cup new_blob_files = span
    BY <1>0, <2>0 DEF MergingIsExact
  <2>2. span' = span \cup {next_number} /\ next_number \notin span
    <3>1. next_number \notin span
      BY <1>0 DEF TypeOK, next_number, span
    <3> QED
      BY <2>0, <3>1, NextNumber DEF span
  <2>3. /\ contents(files \cup {<<next_number, c>>}) = contents(files) \cup c
        /\ numbers(files \cup {<<next_number, c>>}) = numbers(files) \cup {next_number}
    BY OneMoreFile
  <2>4. contents(files)' = contents(files) \cup c /\ numbers(files)' = numbers(files) \cup {next_number}
    <3>1. contents(files)' = contents(files') /\ numbers(files)' = numbers(files')
      BY DEF contents, numbers
    <3> QED
      BY <2>0, <2>3, <3>1
  <2>5. held = held' \cup c /\ held' \cap c = {} /\ c \subseteq held
    <3>1. \A d \in merging' \cup spawned' : d \in merging \cup spawned /\ d # c /\ d \cap c = {}
      BY <2>0, <2>1 DEF Disjoint
    <3>2. \A d \in merging \cup spawned : d = c \/ d \in merging' \cup spawned'
      BY <2>0
    <3> QED
      BY <3>1, <3>2 DEF held
  <2>6. Disjoint(merging \cup spawned)' /\ (merging \cap spawned)' = {}
    BY <2>0, <2>1 DEF Disjoint
  <2>7. Apart(files)'
    <3>1. \A w \in files : w[1] # next_number /\ w[2] \cap c = {}
      <4>1. \A w \in files : w[1] \in numbers(files) /\ w[2] \subseteq contents(files)
        BY DEF numbers, contents
      <4> QED
        BY <2>1, <2>2, <2>5, <4>1
    <3>2. <<next_number, c>>[1] = next_number /\ <<next_number, c>>[2] = c
      OBVIOUS
    <3>3. \A w \in files' : w \in files \/ w = <<next_number, c>>
      BY <2>0
    <3> QED
      BY <2>1, <3>1, <3>2, <3>3 DEF Apart
  <2>8. /\ held' \cap (contents(files) \cup c) = {}
        /\ (numbers(files) \cup {next_number}) \cap new_blob_files = {}
        /\ (numbers(files) \cup {next_number}) \cup new_blob_files \subseteq span \cup {next_number}
        /\ ~shared_error => /\ held' \cup (contents(files) \cup c) = entries
                            /\ (numbers(files) \cup {next_number}) \cup new_blob_files
                                  = span \cup {next_number}
    BY <2>1, <2>2, <2>5
  <2> QED
    BY <2>0, <2>2, <2>4, <2>6, <2>7, <2>8 DEF MergingIsExact
<1>7. ASSUME NEW w \in writing, create_sst_file(w)
      PROVE  MergingIsExact'
  <2>0. /\ phase = "merging" /\ phase' = phase /\ files' = files
        /\ UNCHANGED <<new_blob_files, shared_error, entries, first, current_sequence_number>>
        /\ spawned' = spawned /\ merging' = merging
    BY <1>0, <1>7 DEF create_sst_file, files, threads, TakingTurns
  <2>1. Disjoint(merging \cup spawned)' /\ (merging \cap spawned)' = {} /\ held' = held
    BY <1>0, <2>0 DEF MergingIsExact, Disjoint, held
  <2> QED
    BY <1>0, <2>0, <2>1, MergingKept
<1>8. ASSUME NEW w \in writing, create_sst_file_fails(w)
      PROVE  MergingIsExact'
  <2>0. /\ phase = "merging" /\ phase' = phase /\ files' \subseteq files /\ shared_error'
        /\ UNCHANGED <<new_blob_files, entries, first, current_sequence_number>>
        /\ spawned' = spawned /\ merging' = merging
    BY <1>0, <1>8 DEF create_sst_file_fails, files, threads, TakingTurns
  <2>1. contents(files)' \subseteq contents(files) /\ numbers(files)' \subseteq numbers(files)
    BY <2>0 DEF contents, numbers
  <2>2. Apart(files) => Apart(files)'
    BY <2>0 DEF Apart
  <2>3. held' = held /\ span' = span /\ Disjoint(merging \cup spawned)' = Disjoint(merging \cup spawned)
    BY <2>0 DEF held, span, Disjoint
  <2> QED
    BY <1>0, <2>0, <2>1, <2>2, <2>3 DEF MergingIsExact
<1>9. CASE finished \/ UNCHANGED vars
  <2>1. CASE phase' = "failed"
    BY <1>1, <2>1
  <2>2. CASE phase' # "failed"
    <3>1. phase' \in {"merging", "finished"} => phase \in {"merging", "finished"}
      BY <1>9, <2>2 DEF finished, vars
    <3>2. UNCHANGED <<files, merging, spawned, held, contents(files), numbers(files), span,
                      new_blob_files, entries, shared_error>>
      BY <1>9 DEF finished, vars, threads, tasks, files, held, contents, numbers, span
    <3>3. Apart(files)' = Apart(files) /\ Disjoint(merging \cup spawned)' = Disjoint(merging \cup spawned)
      BY <3>2 DEF Apart, Disjoint
    <3> QED
      BY <1>0, <3>1, <3>2, <3>3 DEF MergingIsExact
  <2> QED
    BY <2>1, <2>2
<1>10. CASE reset
  BY <1>1, <1>10 DEF reset
<1> QED
  BY <1>2, <1>3, <1>4, <1>5, <1>6, <1>7, <1>8, <1>9, <1>10 DEF Next, write_remaining

-----------------------------------------------------------------------------
LEMMA BeganBeforeNext == Inv /\ [Next]_vars => BeganBefore'
<1> SUFFICES ASSUME Inv, [Next]_vars PROVE BeganBefore'
  OBVIOUS
<1>1. first \in Nat /\ current_sequence_number \in Nat /\ first <= current_sequence_number
  BY DEF Inv, TypeOK, BeganBefore
<1>2. /\ first' \in {first, current_sequence_number}
      /\ current_sequence_number' \in {current_sequence_number, current_sequence_number + 1}
  BY DEF Next, vars, fill, put, add, create_full_sst_file, create_blob, create_fails, finish,
         write_remaining, reduce, spawn_final, take_number, create_sst_file,
         create_sst_file_fails, finished, reset, next_number, threads, tasks
<1> QED
  BY <1>1, <1>2 DEF BeganBefore

(* FilesAreExact.  The files that finish returns have every entry of the   *)
(* batch once, and the numbers since the batch began, in their order, each *)
(* for one SST or blob file (finish in write_batch.rs).                    *)
THEOREM ExactFiles == Spec => []FilesAreExact
<1>1. Inv /\ [Next]_vars => Inv'
  BY TypeOKNext, BeganBeforeNext, FillingNext, MergingNext, TakingTurnsNext DEF Inv
<1>2. Inv => FilesAreExact
  <2> SUFFICES ASSUME Inv, phase = "finished" PROVE EveryEntryInOneFile /\ NumbersAreConsecutive
    BY DEF Inv, FilesAreExact, EveryEntryInOneFile, NumbersAreConsecutive
  <2>0. TypeOK /\ MergingIsExact /\ TakingTurns
    BY DEF Inv
  <2>1. /\ files = shared_new_sst_files /\ held = {} /\ ~shared_error
        /\ result \in in_order(shared_new_sst_files)
    BY <2>0 DEF TakingTurns, files, held
  <2>2. Cardinality(files) \in Nat
    BY <2>0, <2>1, FilesAreFinite
  <2>3. /\ result \in [1 .. Cardinality(files) -> files] /\ ToSet(result) = files
        /\ \A i, j \in DOMAIN result : i < j => result[i][1] <= result[j][1]
    BY <2>1 DEF in_order
  <2>4. /\ Apart(files) /\ contents(files) = entries
        /\ numbers(files) \cap new_blob_files = {}
        /\ numbers(files) \cup new_blob_files = span
    BY <2>0, <2>1 DEF MergingIsExact
  <2>5. EveryEntryInOneFile
    BY <2>3, <2>4 DEF EveryEntryInOneFile, Apart, contents
  <2>6. {result[i][1] : i \in DOMAIN result} = numbers(files)
    BY <2>3 DEF numbers, ToSet
  <2>7. \A i, j \in DOMAIN result : i < j => result[i][1] < result[j][1]
    <3>1. result \in Surjection(1 .. Cardinality(files), files)
      BY <2>3 DEF Surjection, ToSet
    <3>2. IsFiniteSet(1 .. Cardinality(files)) /\ Cardinality(1 .. Cardinality(files)) = Cardinality(files)
      BY <2>2, FS_Interval
    <3>3. result \in Injection(1 .. Cardinality(files), files)
      BY <3>1, <3>2, FS_Surjection
    <3>4. ASSUME NEW i \in DOMAIN result, NEW j \in DOMAIN result, i < j
          PROVE  result[i][1] # result[j][1]
      <4>1. i # j
        BY <2>2, <2>3, <3>4
      <4>2. result[i] # result[j] /\ result[i] \in files /\ result[j] \in files
        BY <2>3, <3>3, <4>1 DEF Injection, IsInjective
      <4> QED
        BY <2>4, <4>2 DEF Apart
    <3>5. \A i \in DOMAIN result : result[i][1] \in Nat
      BY <2>0, <2>1, <2>3 DEF TypeOK
    <3> QED
      BY <2>3, <3>4, <3>5
  <2> QED
    BY <2>4, <2>5, <2>6, <2>7 DEF NumbersAreConsecutive, span
<1> QED
  BY <1>1, <1>2, InvInit, PTL DEF Spec
=============================================================================
