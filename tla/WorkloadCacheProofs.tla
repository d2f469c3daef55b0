------------------------- MODULE WorkloadCacheProofs -------------------------
(***************************************************************************)
(* TLAPS proofs about WorkloadCache, for every set of keys, memory size,   *)
(* content sizes and number of operations.                                 *)
(***************************************************************************)
EXTENDS WorkloadCache, FiniteSetTheorems, FunctionTheorems, WellFoundedInduction, TLAPS

\* What the eviction loop is entered and left with.
LoopInv == /\ pc = "evict" => OverBudget(mem)
           /\ pc = "free" => mem <= MaxBytes

CacheInv == TypeOK /\ IndexesMatchEntries /\ MemIsResidentBytes /\ LoopInv

\* Filing the entry new under k: what a hit and a Put have in common.
Refile(k, new) ==
  /\ k \in Keys /\ new \in EntryType
  /\ \A p \in Profiles : new.its[p] = [score |-> ScoreAt(new, p, new.last),
                                       at |-> now, key |-> k]
  /\ entries' = [x \in DOMAIN entries \cup {k} |-> IF x = k THEN new ELSE entries[x]]
  /\ index' = [p \in Profiles |->
                 (index[p] \ (IF k \in DOMAIN entries THEN {entries[k].its[p]} ELSE {}))
                   \cup {new.its[p]}]
  /\ now' = now + 1
------------------------------------------------------------------------------
(* Scores *)

\* A score computed at the moment of the entry's last access has age zero in it:
\* the recency term is the same constant for every entry.
LEMMA FreshScore ==
  ASSUME NEW e, NEW p \in Profiles, NEW t \in Nat, e.last = t
  PROVE  ScoreAt(e, p, t) = Weights(p).alpha * e.freq * Scale + Weights(p).beta * Scale
<1>1. (t - e.last) + 1 = 1
  OBVIOUS
<1>2. Scale \div 1 = Scale
  BY CacheAssumption
<1>3. QED
  BY <1>1, <1>2 DEF ScoreAt

LEMMA ScoreType ==
  ASSUME NEW e, NEW p \in Profiles, NEW t \in Nat, e.last = t, e.freq \in Nat
  PROVE  ScoreAt(e, p, t) \in Nat
<1>1. /\ Weights(p).alpha \in Nat /\ Weights(p).beta \in Nat
  BY DEF Weights, Profiles
<1>2. \A a, b \in Nat : a * b \in Nat /\ a + b \in Nat
  OBVIOUS
<1>3. Scale \in Nat
  BY CacheAssumption
<1>4. QED
  BY <1>1, <1>2, <1>3, FreshScore
------------------------------------------------------------------------------
(* Bytes *)

BytesOf(k, n) == {b \in Keys \X (1..MaxBytes) : b[1] = k /\ b[2] <= n}

LEMMA BytesOfCardinality ==
  ASSUME NEW k \in Keys, NEW n \in 0..MaxBytes
  PROVE  IsFiniteSet(BytesOf(k, n)) /\ Cardinality(BytesOf(k, n)) = n
<1> DEFINE f == [i \in 1..n |-> <<k, i>>]
<1>0. MaxBytes \in Nat /\ n \in Nat /\ 1..n \subseteq 1..MaxBytes
  BY CacheAssumption
<1>1. f \in [1..n -> BytesOf(k, n)]
  BY <1>0 DEF BytesOf
<1>2. \A a, b \in 1..n : f[a] = f[b] => a = b
  OBVIOUS
<1>3. \A b \in BytesOf(k, n) : \E i \in 1..n : f[i] = b
  <2> TAKE b \in BytesOf(k, n)
  <2>1. b = <<k, b[2]>> /\ b[2] \in 1..n
    BY <1>0 DEF BytesOf
  <2>2. f[b[2]] = b
    BY <2>1
  <2>3. QED
    BY <2>1, <2>2
<1>4. ExistsBijection(1..n, BytesOf(k, n))
  BY <1>1, <1>2, <1>3, Fun_IsBij DEF ExistsBijection
<1>5. IsFiniteSet(1..n) /\ Cardinality(1..n) = n
  BY <1>0, FS_Interval
<1>6. QED
  BY <1>4, <1>5, FS_Bijection

LEMMA BytesFinite == IsFiniteSet(Bytes) /\ IsFiniteSet(Bytes')
<1>1. IsFiniteSet(Keys) /\ IsFiniteSet(1..MaxBytes)
  BY CacheAssumption, FS_Interval
<1>2. IsFiniteSet(Keys \X (1..MaxBytes))
  BY <1>1, FS_Product
<1>3. QED
  BY <1>2, FS_Subset DEF Bytes

\* Dropping the bytes of one cached entry from the resident ones.
LEMMA BytesDropped ==
  ASSUME TypeOK, NEW k \in DOMAIN entries
  PROVE  /\ IsFiniteSet(Bytes \ BytesOf(k, entries[k].size))
         /\ Cardinality(Bytes \ BytesOf(k, entries[k].size))
              = Cardinality(Bytes) - entries[k].size
<1>1. k \in Keys /\ entries[k].size \in 0..MaxBytes
  BY DEF TypeOK, EntryType
<1>2. BytesOf(k, entries[k].size) \subseteq Bytes
  BY DEF BytesOf, Bytes
<1>3. Bytes \cap BytesOf(k, entries[k].size) = BytesOf(k, entries[k].size)
  BY <1>2
<1>4. Cardinality(BytesOf(k, entries[k].size)) = entries[k].size
  BY <1>1, BytesOfCardinality
<1>5. IsFiniteSet(Bytes)
  BY BytesFinite
<1>6. /\ IsFiniteSet(Bytes \ BytesOf(k, entries[k].size))
      /\ Cardinality(Bytes \ BytesOf(k, entries[k].size))
           = Cardinality(Bytes) - Cardinality(Bytes \cap BytesOf(k, entries[k].size))
  BY <1>5, FS_Difference
<1>7. QED
  BY <1>3, <1>4, <1>6

LEMMA BytesRefiled ==
  ASSUME TypeOK, MemIsResidentBytes, NEW k, NEW new, Refile(k, new),
         mem' = (mem - BytesReplaced(k)) + new.size
  PROVE  MemIsResidentBytes'
<1> DEFINE rest == {b \in Bytes : b[1] # k}
<1> HIDE DEF rest
<1>1. k \in Keys /\ new.size \in 0..MaxBytes
  BY DEF Refile, EntryType
<1>2. IsFiniteSet(rest) /\ Cardinality(rest) = mem - BytesReplaced(k)
  <2>1. CASE k \in DOMAIN entries
    <3>1. rest = Bytes \ BytesOf(k, entries[k].size)
      BY DEF Bytes, BytesOf, rest
    <3>2. IsFiniteSet(rest) /\ Cardinality(rest) = Cardinality(Bytes) - entries[k].size
      BY <2>1, <3>1, BytesDropped
    <3>3. QED
      BY <2>1, <3>2 DEF MemIsResidentBytes, BytesReplaced
  <2>2. CASE k \notin DOMAIN entries
    <3>1. rest = Bytes
      BY <2>2 DEF Bytes, rest
    <3>2. mem \in Nat
      BY DEF TypeOK
    <3>3. QED
      BY <2>2, <3>1, <3>2, BytesFinite DEF MemIsResidentBytes, BytesReplaced
  <2>3. QED
    BY <2>1, <2>2
<1>3. Bytes' = rest \cup BytesOf(k, new.size)
  <2>1. ASSUME NEW b \in Keys \X (1..MaxBytes)
        PROVE  b \in Bytes' <=> b \in rest \cup BytesOf(k, new.size)
    <3>1. CASE b[1] = k
      BY <3>1, <1>1 DEF Bytes, BytesOf, Refile, rest
    <3>2. CASE b[1] # k
      BY <3>2 DEF Bytes, BytesOf, Refile, rest
    <3>3. QED
      BY <3>1, <3>2
  <2>2. QED
    BY <2>1 DEF Bytes, BytesOf, rest
<1>4. rest \cap BytesOf(k, new.size) = {}
  BY DEF BytesOf, rest
<1>5. IsFiniteSet(BytesOf(k, new.size)) /\ Cardinality(BytesOf(k, new.size)) = new.size
  BY <1>1, BytesOfCardinality
<1>6. Cardinality({}) = 0 /\ Cardinality(rest) \in Nat /\ new.size \in Nat
  BY <1>1, <1>2, FS_EmptySet, FS_CardinalityType
<1>7. Cardinality(Bytes') = Cardinality(rest) + new.size
  <2>1. IsFiniteSet(rest) /\ IsFiniteSet(BytesOf(k, new.size))
    BY <1>2, <1>5
  <2>2. Cardinality(rest \cup BytesOf(k, new.size))
          = Cardinality(rest) + Cardinality(BytesOf(k, new.size))
              - Cardinality(rest \cap BytesOf(k, new.size))
    BY <2>1, FS_Union
  <2>3. Cardinality(Bytes') = Cardinality(rest \cup BytesOf(k, new.size))
    BY <1>3
  <2>4. Cardinality(rest \cap BytesOf(k, new.size)) = 0
    BY <1>4, <1>6
  <2>5. QED
    BY <2>2, <2>3, <2>4, <1>5, <1>6
<1>8. QED
  BY <1>2, <1>7 DEF MemIsResidentBytes
------------------------------------------------------------------------------
(* What a hit, a Put and a round of eviction do. *)

LEMMA HitRefiles ==
  ASSUME CacheInv, NEW k \in Keys, GetHit(k)
  PROVE  \E new : /\ Refile(k, new)
                  /\ mem' = (mem - BytesReplaced(k)) + new.size
                  /\ new.size = entries[k].size /\ new.freq = entries[k].freq + 1
<1> DEFINE old == entries[k]
           used == [old EXCEPT !.freq = @ + 1, !.last = now]
           new == [used EXCEPT !.its = NodesOf(k, used, now)]
<1>1. /\ k \in DOMAIN entries /\ old \in EntryType
      /\ now \in 0..MaxOps /\ now < MaxOps /\ now \in Nat
  BY CacheAssumption DEF CacheInv, TypeOK, GetHit, Tick
<1>2. /\ used.size = old.size /\ used.freq = old.freq + 1 /\ used.last = now
      /\ new.size = old.size /\ new.freq = old.freq + 1 /\ new.last = now
      /\ new.its = NodesOf(k, used, now)
      /\ DOMAIN new = {"size", "freq", "last", "its"}
  BY <1>1 DEF EntryType
<1>3. old.size \in 0..MaxBytes /\ old.freq \in Nat \ {0} /\ used.freq \in Nat \ {0}
  BY <1>1, <1>2 DEF EntryType
<1>4. \A p \in Profiles : /\ ScoreAt(used, p, now) = ScoreAt(new, p, now)
                          /\ ScoreAt(used, p, now) \in Nat
  BY <1>1, <1>2, <1>3, ScoreType DEF ScoreAt
<1>5. new.its \in [Profiles -> NodeType]
  BY <1>1, <1>2, <1>4 DEF NodesOf, NodeType
<1>6. new \in EntryType
  BY <1>1, <1>2, <1>3, <1>5 DEF EntryType
<1>7. \A p \in Profiles : new.its[p] = [score |-> ScoreAt(new, p, new.last),
                                        at |-> now, key |-> k]
  BY <1>2, <1>4 DEF NodesOf
<1>8. /\ index' = InsertIntoIndexes(RemoveFromIndexes(index, old), new)
      /\ entries' = [entries EXCEPT ![k] = new]
      /\ mem' = mem /\ now' = now + 1
  BY DEF GetHit, Tick
<1>9. entries' = [x \in DOMAIN entries \cup {k} |-> IF x = k THEN new ELSE entries[x]]
  BY <1>1, <1>8 DEF CacheInv, TypeOK
<1>10. index' = [p \in Profiles |->
                   (index[p] \ (IF k \in DOMAIN entries THEN {entries[k].its[p]} ELSE {}))
                     \cup {new.its[p]}]
  BY <1>1, <1>8 DEF InsertIntoIndexes, RemoveFromIndexes
<1>11. Refile(k, new)
  BY <1>6, <1>7, <1>8, <1>9, <1>10 DEF Refile
<1>12. mem' = (mem - BytesReplaced(k)) + new.size
  BY <1>1, <1>2, <1>3, <1>8 DEF BytesReplaced, CacheInv, TypeOK
<1>13. QED
  BY <1>2, <1>11, <1>12

LEMMA PutRefiles ==
  ASSUME CacheInv, NEW k \in Keys, NEW size \in Sizes, NEW f \in InitialFrequencies,
         NEW t \in 0..now, Put(k, size, f, t)
  PROVE  \E new : /\ Refile(k, new)
                  /\ mem' = (mem - BytesReplaced(k)) + new.size
                  /\ new.size = size /\ new.freq = StartFrequency(f)
<1> DEFINE freq == StartFrequency(f)
           scored == [size |-> size, freq |-> freq, last |-> t]
           new == [size |-> size, freq |-> scored.freq, last |-> t,
                   its |-> NodesOf(k, scored, t)]
<1>1. /\ size \in 0..MaxBytes /\ freq \in Nat \ {0}
      /\ now \in 0..MaxOps /\ now < MaxOps /\ t \in 0..MaxOps /\ t \in Nat
  BY CacheAssumption DEF CacheInv, TypeOK, Put, Tick, Fits, StartFrequency
<1>2. /\ scored.freq = freq /\ scored.last = t
      /\ new.size = size /\ new.freq = freq /\ new.last = t
      /\ new.its = NodesOf(k, scored, t)
  OBVIOUS
<1>3. \A p \in Profiles : /\ ScoreAt(scored, p, t) = ScoreAt(new, p, t)
                          /\ ScoreAt(scored, p, t) \in Nat
  BY <1>1, <1>2, ScoreType DEF ScoreAt
<1>4. new.its \in [Profiles -> NodeType]
  BY <1>1, <1>2, <1>3 DEF NodesOf, NodeType
<1>5. new \in EntryType
  BY <1>1, <1>2, <1>4 DEF EntryType
<1>6. \A p \in Profiles : new.its[p] = [score |-> ScoreAt(new, p, new.last),
                                        at |-> now, key |-> k]
  BY <1>2, <1>3 DEF NodesOf
<1>7. /\ index' = InsertIntoIndexes(IF k \in DOMAIN entries
                                    THEN RemoveFromIndexes(index, entries[k])
                                    ELSE index, new)
      /\ entries' = [x \in DOMAIN entries \cup {k} |-> IF x = k THEN new ELSE entries[x]]
      /\ mem' = (mem - BytesReplaced(k)) + size
      /\ now' = now + 1
  BY DEF Put, PutStore, Tick
<1>8. index' = [p \in Profiles |->
                  (index[p] \ (IF k \in DOMAIN entries THEN {entries[k].its[p]} ELSE {}))
                    \cup {new.its[p]}]
  BY <1>7 DEF InsertIntoIndexes, RemoveFromIndexes
<1>9. Refile(k, new)
  BY <1>5, <1>6, <1>7, <1>8 DEF Refile
<1>10. QED
  BY <1>2, <1>7, <1>9

LEMMA RefileTyping ==
  ASSUME TypeOK, NEW k, NEW new, Refile(k, new), now < MaxOps
  PROVE  /\ DOMAIN entries' \subseteq Keys
         /\ entries' \in [DOMAIN entries' -> EntryType]
         /\ index' \in [Profiles -> SUBSET NodeType]
         /\ now' \in 0..MaxOps
<1>1. DOMAIN entries' = DOMAIN entries \cup {k} /\ k \in Keys /\ new \in EntryType
  BY DEF Refile
<1>2. \A x \in DOMAIN entries : entries[x] \in EntryType
  BY DEF TypeOK
<1>3. entries' \in [DOMAIN entries' -> EntryType]
  BY <1>1, <1>2 DEF Refile
<1>4. \A p \in Profiles : new.its[p] \in NodeType /\ index[p] \subseteq NodeType
  BY <1>1 DEF EntryType, TypeOK
<1>5. index' \in [Profiles -> SUBSET NodeType]
  BY <1>4 DEF Refile
<1>6. now' \in 0..MaxOps
  BY CacheAssumption DEF Refile, TypeOK
<1>7. QED
  BY <1>1, <1>3, <1>5, <1>6 DEF TypeOK

LEMMA RefileKeepsIndexes ==
  ASSUME TypeOK, IndexesMatchEntries, NEW k, NEW new, Refile(k, new)
  PROVE  IndexesMatchEntries'
<1> SUFFICES ASSUME NEW p \in Profiles
             PROVE  /\ index'[p] = {entries'[x].its[p] : x \in DOMAIN entries'}
                    /\ \A x \in DOMAIN entries' : LET e == entries'[x] IN
                         /\ e.its[p].key = x
                         /\ e.its[p].score = ScoreAt(e, p, e.last)
                         /\ e.its[p].at < now'
                         /\ \A q \in Profiles : e.its[p].at = e.its[q].at
  BY DEF IndexesMatchEntries, ScoreAt
<1>1. /\ DOMAIN entries' = DOMAIN entries \cup {k} /\ entries'[k] = new
      /\ \A x \in DOMAIN entries : x # k => entries'[x] = entries[x]
      /\ now' = now + 1 /\ now \in Nat
  BY CacheAssumption DEF Refile, TypeOK
<1>2. \A q \in Profiles : /\ new.its[q].score = ScoreAt(new, q, new.last)
                          /\ new.its[q].at = now /\ new.its[q].key = k
  <2> TAKE q \in Profiles
  <2> DEFINE score == ScoreAt(new, q, new.last)
  <2> HIDE DEF score
  <2>1. new.its[q] = [score |-> score, at |-> now, key |-> k]
    BY DEF Refile, score
  <2>2. new.its[q].score = score /\ new.its[q].at = now /\ new.its[q].key = k
    BY <2>1
  <2>3. QED
    BY <2>2 DEF score
<1>3. \A x \in DOMAIN entries : entries[x].its[p].at < now /\ entries[x].its[p].at \in Nat
  BY DEF IndexesMatchEntries, TypeOK, EntryType, NodeType
<1>4. ASSUME NEW x \in DOMAIN entries'
      PROVE  LET e == entries'[x] IN
             /\ e.its[p].key = x
             /\ e.its[p].score = ScoreAt(e, p, e.last)
             /\ e.its[p].at < now'
             /\ \A q \in Profiles : e.its[p].at = e.its[q].at
  <2>1. CASE x = k
    <3>1. entries'[x] = new
      BY <2>1, <1>1
    <3>2. new.its[p].key = x /\ new.its[p].score = ScoreAt(new, p, new.last)
      BY <2>1, <1>2
    <3>3. new.its[p].at < now' /\ \A q \in Profiles : new.its[p].at = new.its[q].at
      BY <1>1, <1>2
    <3>4. QED
      BY <3>1, <3>2, <3>3
  <2>2. CASE x # k
    BY <2>2, <1>1, <1>3 DEF IndexesMatchEntries
  <2>3. QED
    BY <2>1, <2>2
<1>5. index'[p] = {entries'[x].its[p] : x \in DOMAIN entries'}
  <2>1. index'[p] = (index[p] \ (IF k \in DOMAIN entries THEN {entries[k].its[p]} ELSE {}))
                      \cup {new.its[p]}
    BY DEF Refile
  <2>2. index[p] = {entries[x].its[p] : x \in DOMAIN entries}
    BY DEF IndexesMatchEntries
  <2>3. \A x, y \in DOMAIN entries : entries[x].its[p] = entries[y].its[p] => x = y
    <3>1. \A x \in DOMAIN entries : entries[x].its[p].key = x
      BY DEF IndexesMatchEntries
    <3>2. QED
      BY <3>1
  <2>4. ASSUME NEW n \in index'[p]
        PROVE  n \in {entries'[x].its[p] : x \in DOMAIN entries'}
    <3>1. CASE n = new.its[p]
      BY <3>1, <1>1
    <3>2. CASE n # new.its[p]
      <4>1. PICK x \in DOMAIN entries : n = entries[x].its[p]
        BY <3>2, <2>1, <2>2, <2>4
      <4>2. x # k
        BY <3>2, <4>1, <2>1, <2>4
      <4>3. QED
        BY <4>1, <4>2, <1>1
    <3>3. QED
      BY <3>1, <3>2
  <2>5. ASSUME NEW x \in DOMAIN entries'
        PROVE  entries'[x].its[p] \in index'[p]
    <3>1. CASE x = k
      BY <3>1, <1>1, <2>1
    <3>2. CASE x # k
      BY <3>2, <1>1, <2>1, <2>2, <2>3
    <3>3. QED
      BY <3>1, <3>2
  <2>6. QED
    BY <2>4, <2>5
<1>6. QED
  BY <1>4, <1>5
------------------------------------------------------------------------------
(* The inductive invariant. *)

LEMMA InitCacheInv == Init => CacheInv
<1> SUFFICES ASSUME Init PROVE CacheInv
  OBVIOUS
<1>1. DOMAIN entries = {}
  BY DEF Init
<1>2. TypeOK
  <2>1. entries \in [DOMAIN entries -> EntryType]
    BY <1>1 DEF Init
  <2>2. QED
    BY <1>1, <2>1, CacheAssumption DEF Init, TypeOK
<1>3. IndexesMatchEntries
  BY <1>1 DEF Init, IndexesMatchEntries
<1>4. Bytes = {}
  BY <1>1 DEF Bytes
<1>5. MemIsResidentBytes
  BY <1>4, FS_EmptySet DEF Init, MemIsResidentBytes
<1>6. LoopInv
  BY CacheAssumption DEF Init, LoopInv
<1>7. QED
  BY <1>2, <1>3, <1>5, <1>6 DEF CacheInv

\* The first node of the active index always belongs to a cached entry.
LEMMA VictimIsCached ==
  ASSUME CacheInv, NEW victim, EvictOne(victim)
  PROVE  /\ victim.key \in DOMAIN entries
         /\ victim = entries[victim.key].its[active]
         /\ index' = RemoveFromIndexes(index, entries[victim.key])
         /\ mem' = mem - entries[victim.key].size
         /\ entries' = [x \in DOMAIN entries \ {victim.key} |-> entries[x]]
<1>1. active \in Profiles
  BY DEF CacheInv, TypeOK
<1>2. PICK k \in DOMAIN entries : victim = entries[k].its[active]
  BY <1>1 DEF EvictOne, CacheInv, IndexesMatchEntries
<1>3. victim.key = k
  BY <1>1, <1>2 DEF CacheInv, IndexesMatchEntries
<1>4. QED
  BY <1>2, <1>3 DEF EvictOne

LEMMA EvictOneCacheInv ==
  ASSUME CacheInv, NEW victim, EvictOne(victim)
  PROVE  CacheInv'
<1> DEFINE k == victim.key
<1>1. /\ k \in DOMAIN entries
      /\ index' = RemoveFromIndexes(index, entries[k])
      /\ mem' = mem - entries[k].size
      /\ entries' = [x \in DOMAIN entries \ {k} |-> entries[x]]
      /\ active' = active /\ now' = now
  BY VictimIsCached DEF EvictOne
<1> HIDE DEF k
<1>2. /\ DOMAIN entries' = DOMAIN entries \ {k}
      /\ \A x \in DOMAIN entries' : entries'[x] = entries[x]
  BY <1>1
<1>3. IndexesMatchEntries'
  <2> SUFFICES ASSUME NEW p \in Profiles
               PROVE  /\ index'[p] = {entries'[x].its[p] : x \in DOMAIN entries'}
                      /\ \A x \in DOMAIN entries' : LET e == entries'[x] IN
                           /\ e.its[p].key = x
                           /\ e.its[p].score = ScoreAt(e, p, e.last)
                           /\ e.its[p].at < now'
                           /\ \A q \in Profiles : e.its[p].at = e.its[q].at
    BY DEF IndexesMatchEntries, ScoreAt
  <2>1. index'[p] = index[p] \ {entries[k].its[p]}
    BY <1>1 DEF RemoveFromIndexes
  <2>2. index[p] = {entries[x].its[p] : x \in DOMAIN entries}
    BY DEF CacheInv, IndexesMatchEntries
  <2>3. \A x \in DOMAIN entries : entries[x].its[p].key = x
    BY DEF CacheInv, IndexesMatchEntries
  <2>4. index'[p] = {entries'[x].its[p] : x \in DOMAIN entries'}
    BY <1>1, <1>2, <2>1, <2>2, <2>3
  <2>5. QED
    BY <1>1, <1>2, <2>4 DEF CacheInv, IndexesMatchEntries
<1>4. MemIsResidentBytes'
  <2>1. Bytes' = Bytes \ BytesOf(k, entries[k].size)
    BY <1>1, <1>2 DEF Bytes, BytesOf
  <2>2. Cardinality(Bytes') = Cardinality(Bytes \ BytesOf(k, entries[k].size))
    BY <2>1
  <2>3. QED
    BY <1>1, <2>2, BytesDropped DEF MemIsResidentBytes, CacheInv
<1>5. TypeOK'
  <2>1. mem' \in Nat
    BY <1>4, BytesFinite, FS_CardinalityType DEF MemIsResidentBytes
  <2>2. entries' \in [DOMAIN entries' -> EntryType] /\ DOMAIN entries' \subseteq Keys
    BY <1>1, <1>2 DEF CacheInv, TypeOK
  <2>3. index' \in [Profiles -> SUBSET NodeType]
    BY <1>1 DEF RemoveFromIndexes, CacheInv, TypeOK
  <2>4. QED
    BY <1>1, <2>1, <2>2, <2>3 DEF EvictOne, CacheInv, TypeOK
<1>6. LoopInv'
  <2>1. CASE index'[active] = {}
    <3>1. active \in Profiles
      BY DEF CacheInv, TypeOK
    <3>2. index'[active] = {entries'[x].its[active] : x \in DOMAIN entries'}
      BY <1>3, <3>1 DEF IndexesMatchEntries
    <3>3. DOMAIN entries' = {}
      BY <2>1, <3>2
    <3>4. Bytes' = {}
      BY <3>3 DEF Bytes
    <3>5. mem' = 0
      BY <1>4, <3>4, FS_EmptySet DEF MemIsResidentBytes
    <3>6. QED
      BY <2>1, <3>5, CacheAssumption DEF EvictOne, LoopInv, OverBudget
  <2>2. CASE index'[active] # {}
    <3>1. mem' \in Nat
      BY <1>5 DEF TypeOK
    <3>2. QED
      BY <2>2, <3>1, CacheAssumption DEF EvictOne, LoopInv, OverBudget
  <2>3. QED
    BY <2>1, <2>2
<1>7. QED
  BY <1>3, <1>4, <1>5, <1>6 DEF CacheInv

LEMMA NextCacheInv == CacheInv /\ [Next]_vars => CacheInv'
<1> SUFFICES ASSUME CacheInv, [Next]_vars PROVE CacheInv'
  OBVIOUS
<1>a. ASSUME NEW k, NEW new, Refile(k, new), now < MaxOps,
             mem' = (mem - BytesReplaced(k)) + new.size,
             active' = active, pc' \in {"free", "evict"}
      PROVE  TypeOK' /\ IndexesMatchEntries' /\ MemIsResidentBytes'
  <2>1. IndexesMatchEntries'
    BY <1>a, RefileKeepsIndexes DEF CacheInv
  <2>2. MemIsResidentBytes'
    BY <1>a, BytesRefiled DEF CacheInv
  <2>3. mem' \in Nat
    BY <2>2, BytesFinite, FS_CardinalityType DEF MemIsResidentBytes
  <2>4. TypeOK'
    BY <1>a, <2>3, RefileTyping DEF CacheInv, TypeOK
  <2>5. QED
    BY <2>1, <2>2, <2>4
<1>1. ASSUME NEW k \in Keys, GetHit(k)
      PROVE  CacheInv'
  <2>1. PICK new : /\ Refile(k, new)
                   /\ mem' = (mem - BytesReplaced(k)) + new.size
    BY <1>1, HitRefiles
  <2>2. /\ now < MaxOps /\ active' = active /\ pc' \in {"free", "evict"}
        /\ pc' = pc /\ mem' = mem
    BY <1>1 DEF GetHit, Tick
  <2>3. LoopInv'
    BY <2>2 DEF CacheInv, LoopInv, OverBudget
  <2>4. QED
    BY <2>1, <2>2, <2>3, <1>a DEF CacheInv
<1>2. ASSUME NEW k \in Keys, NEW size \in Sizes, NEW f \in InitialFrequencies,
             NEW t \in 0..now, Put(k, size, f, t)
      PROVE  CacheInv'
  <2>1. PICK new : /\ Refile(k, new)
                   /\ mem' = (mem - BytesReplaced(k)) + new.size
    BY <1>2, PutRefiles
  <2>2. /\ now < MaxOps /\ active' = active
        /\ pc' = IF OverBudget(mem') THEN "evict" ELSE "free"
    BY <1>2 DEF Put, Tick
  <2>3. TypeOK' /\ IndexesMatchEntries' /\ MemIsResidentBytes'
    BY <2>1, <2>2, <1>a
  <2>4. LoopInv'
    BY <2>2, <2>3, CacheAssumption DEF LoopInv, OverBudget, TypeOK
  <2>5. QED
    BY <2>3, <2>4 DEF CacheInv
<1>3. ASSUME NEW victim \in index[active], EvictOne(victim)
      PROVE  CacheInv'
  BY <1>3, EvictOneCacheInv
<1>4. ASSUME NEW rate \in HitRates, AdjustWeights(rate)
      PROVE  CacheInv'
  <2>1. /\ UNCHANGED <<entries, index, mem, pc>>
        /\ active' \in Profiles /\ now < MaxOps /\ now' = now + 1 /\ now \in Nat
    BY <1>4, CacheAssumption
       DEF AdjustWeights, Tick, ProfileForHitRate, Profiles, CacheInv, TypeOK
  <2>2. TypeOK'
    BY <2>1, CacheAssumption DEF CacheInv, TypeOK
  <2>3. \A k \in DOMAIN entries, p \in Profiles :
          entries[k].its[p].at \in Nat /\ entries[k].its[p].at < now
    BY DEF CacheInv, IndexesMatchEntries, TypeOK, EntryType, NodeType
  <2>4. IndexesMatchEntries'
    BY <2>1, <2>3 DEF CacheInv, IndexesMatchEntries, ScoreAt
  <2>5. MemIsResidentBytes' /\ LoopInv'
    BY <2>1 DEF CacheInv, MemIsResidentBytes, Bytes, LoopInv, OverBudget
  <2>6. QED
    BY <2>2, <2>4, <2>5 DEF CacheInv
<1>5. CASE UNCHANGED vars
  BY <1>5 DEF vars, CacheInv, TypeOK, IndexesMatchEntries, MemIsResidentBytes, Bytes,
              LoopInv, OverBudget, ScoreAt
<1>6. QED
  BY <1>1, <1>2, <1>3, <1>4, <1>5 DEF Next

LEMMA CacheInvariant == Spec => []CacheInv
<1>1. QED
  BY InitCacheInv, NextCacheInv, PTL DEF Spec

\* The variables of the cache keep their types: no counter wraps below zero.
THEOREM CacheTyping == Spec => []TypeOK
<1>1. CacheInv => TypeOK
  BY DEF CacheInv
<1>2. QED
  BY <1>1, CacheInvariant, PTL

\* The three eviction indexes always file exactly the cached entries, each by the
\* node its entry points back to and with the score of its present frequency.
THEOREM IndexesStayInStep == Spec => []IndexesMatchEntries
<1>1. CacheInv => IndexesMatchEntries
  BY DEF CacheInv
<1>2. QED
  BY <1>1, CacheInvariant, PTL

\* The byte counter is the number of resident bytes, which are within the cache's memory
\* whenever mutex_ is free.
THEOREM CacheStaysWithinBudget == Spec => []BudgetIsHonoured
<1>1. CacheInv => BudgetIsHonoured
  BY DEF CacheInv, LoopInv, BudgetIsHonoured
<1>2. QED
  BY <1>1, CacheInvariant, PTL
------------------------------------------------------------------------------
(* Refinement: the cache is a least-frequently-used one. *)

LEMMA ScaledOrder ==
  ASSUME NEW a \in Nat \ {0}, NEW s \in Nat \ {0}, NEW c \in Nat,
         NEW m \in Nat, NEW n \in Nat
  PROVE  /\ a * m * s + c < a * n * s + c => m < n
         /\ a * m * s + c = a * n * s + c => m = n
<1>1. \A x, y \in Nat : x <= y => a * x * s + c <= a * y * s + c
  <2>1. ASSUME NEW x \in Nat, NEW d \in Nat
        PROVE  a * x * s + c <= a * (x + d) * s + c
    <3>1. a * d * s \in Nat /\ a * x * s \in Nat
      OBVIOUS
    <3>2. a * (x + d) * s = a * x * s + a * d * s
      OBVIOUS
    <3>3. QED
      BY <3>1, <3>2
  <2>2. ASSUME NEW x \in Nat, NEW y \in Nat, x <= y
        PROVE  a * x * s + c <= a * y * s + c
    <3>1. y - x \in Nat /\ y = x + (y - x)
      BY <2>2
    <3>2. QED
      BY <3>1, <2>1
  <2>3. QED
    BY <2>2
<1>2. \A x, y \in Nat : x < y => a * x * s + c < a * y * s + c
  <2>1. ASSUME NEW x \in Nat, NEW d \in Nat \ {0}
        PROVE  a * x * s + c < a * (x + d) * s + c
    <3>1. a * d * s \in Nat \ {0} /\ a * x * s \in Nat
      OBVIOUS
    <3>2. a * (x + d) * s = a * x * s + a * d * s
      OBVIOUS
    <3>3. QED
      BY <3>1, <3>2
  <2>2. ASSUME NEW x \in Nat, NEW y \in Nat, x < y
        PROVE  a * x * s + c < a * y * s + c
    <3>1. y - x \in Nat \ {0} /\ y = x + (y - x)
      BY <2>2
    <3>2. QED
      BY <3>1, <2>1
  <2>3. QED
    BY <2>2
<1>3. a * m * s + c \in Nat /\ a * n * s + c \in Nat
  OBVIOUS
<1>4. QED
  BY <1>1, <1>2, <1>3

\* The head of any of the three indexes is the least used entry, the one used the
\* longest ago among those: the weights of the profile cancel out.
LEMMA FirstIsLeastUsed ==
  ASSUME CacheInv, NEW v \in DOMAIN entries, IsFirst(entries[v].its[active], index[active])
  PROVE  Lfu!LeastUsed(v)
<1> DEFINE it(k) == entries[k].its[active]
<1>1. active \in Profiles /\ "balanced" \in Profiles
  BY DEF CacheInv, TypeOK, Profiles
<1>2. \A k \in DOMAIN entries : /\ it(k) \in index[active]
                                /\ it(k).at = entries[k].its["balanced"].at
                                /\ it(k).score = ScoreAt(entries[k], active, entries[k].last)
                                /\ entries[k].freq \in Nat /\ entries[k].last \in Nat
                                /\ it(k).score \in Nat /\ it(k).at \in Nat
  BY <1>1, CacheAssumption DEF CacheInv, IndexesMatchEntries, TypeOK, EntryType, NodeType
<1>3. /\ Weights(active).alpha \in Nat \ {0} /\ Weights(active).beta \in Nat
      /\ Scale \in Nat \ {0} /\ Weights(active).beta * Scale \in Nat
  <2>1. Weights(active).alpha \in Nat \ {0} /\ Weights(active).beta \in Nat
    BY <1>1 DEF Weights, Profiles
  <2>2. Scale \in Nat \ {0}
    BY CacheAssumption
  <2>3. \A a, b \in Nat : a * b \in Nat
    OBVIOUS
  <2>4. QED
    BY <2>1, <2>2, <2>3
<1>4. \A k \in DOMAIN entries :
        it(k).score = Weights(active).alpha * entries[k].freq * Scale
                        + Weights(active).beta * Scale
  BY <1>1, <1>2, FreshScore
<1>5. ASSUME NEW k \in DOMAIN entries
      PROVE  \/ entries[v].freq < entries[k].freq
             \/ /\ entries[v].freq = entries[k].freq
                /\ entries[v].its["balanced"].at <= entries[k].its["balanced"].at
  <2>1. \/ it(v).score < it(k).score
        \/ it(v).score = it(k).score /\ it(v).at <= it(k).at
    BY <1>2 DEF IsFirst
  <2>2. /\ it(v).score < it(k).score => entries[v].freq < entries[k].freq
        /\ it(v).score = it(k).score => entries[v].freq = entries[k].freq
    <3> DEFINE a == Weights(active).alpha
               c == Weights(active).beta * Scale
    <3>1. a \in Nat \ {0} /\ c \in Nat /\ Scale \in Nat \ {0}
      BY <1>3
    <3>2. /\ it(v).score = a * entries[v].freq * Scale + c
          /\ it(k).score = a * entries[k].freq * Scale + c
          /\ entries[v].freq \in Nat /\ entries[k].freq \in Nat
      BY <1>2, <1>4
    <3> HIDE DEF a, c, it
    <3>3. /\ a * entries[v].freq * Scale + c < a * entries[k].freq * Scale + c
               => entries[v].freq < entries[k].freq
          /\ a * entries[v].freq * Scale + c = a * entries[k].freq * Scale + c
               => entries[v].freq = entries[k].freq
      BY <3>1, <3>2, ScaledOrder
    <3>4. QED
      BY <3>2, <3>3
  <2>3. QED
    BY <1>2, <2>1, <2>2
<1>6. DOMAIN Contents = DOMAIN entries
      /\ \A k \in DOMAIN entries : /\ Contents[k].uses = entries[k].freq
                                    /\ Contents[k].at = entries[k].its["balanced"].at
  BY DEF Contents
<1>7. QED
  BY <1>5, <1>6 DEF Lfu!LeastUsed

\* LfuCache takes its own copy of Cardinality along.
LEMMA LfuCardinality == ASSUME NEW S PROVE Lfu!Cardinality(S) = Cardinality(S)
  BY DEF Lfu!Cardinality, Cardinality

LEMMA LfuBytes == Lfu!Bytes = Bytes /\ Lfu!Bytes' = Bytes'
  BY DEF Lfu!Bytes, Bytes, Contents

LEMMA RefileStores ==
  ASSUME NEW k, NEW new, Refile(k, new)
  PROVE  Lfu!Store(k, Lfu!Entry(new.size, new.freq, now))
<1>1. new.its["balanced"].at = now
  <2> DEFINE score == ScoreAt(new, "balanced", new.last)
  <2> HIDE DEF score
  <2>1. new.its["balanced"] = [score |-> score, at |-> now, key |-> k]
    BY DEF Refile, Profiles, score
  <2>2. QED
    BY <2>1
<1>2. DOMAIN entries' = DOMAIN entries \cup {k} /\ entries'[k] = new
      /\ \A x \in DOMAIN entries : x # k => entries'[x] = entries[x]
  BY DEF Refile
<1>3. Contents' = [x \in DOMAIN Contents \cup {k} |->
                     IF x = k THEN Lfu!Entry(new.size, new.freq, now) ELSE Contents[x]]
  BY <1>1, <1>2 DEF Contents, Lfu!Entry
<1>4. QED
  BY <1>3 DEF Lfu!Store

LEMMA InitIsLfu == Init => Lfu!Init
<1> SUFFICES ASSUME Init PROVE Lfu!Init
  OBVIOUS
<1>1. Contents = <<>>
  BY DEF Init, Contents
<1>2. QED
  BY <1>1 DEF Init, Lfu!Init

LEMMA NextIsLfu == CacheInv /\ CacheInv' /\ [Next]_vars => [Lfu!Next]_Lfu!vars
<1> SUFFICES ASSUME CacheInv, CacheInv', [Next]_vars PROVE [Lfu!Next]_Lfu!vars
  OBVIOUS
<1>a. (pc = "evict")' = (Lfu!Cardinality(Lfu!Bytes') > MaxBytes)
  <2>1. /\ mem' \in Nat /\ mem' = Cardinality(Bytes')
        /\ pc' \in {"free", "evict"}
        /\ pc' = "evict" => mem' > MaxBytes
        /\ pc' = "free" => mem' <= MaxBytes
    BY DEF CacheInv, TypeOK, MemIsResidentBytes, LoopInv, OverBudget
  <2>2. Lfu!Cardinality(Lfu!Bytes') = mem'
    <3>1. Lfu!Cardinality(Lfu!Bytes') = Lfu!Cardinality(Bytes')
      BY LfuBytes
    <3>2. QED
      BY <2>1, <3>1, LfuCardinality
  <2>3. (pc' = "evict") <=> (mem' > MaxBytes)
    BY <2>1, CacheAssumption
  <2>4. QED
    BY <2>2, <2>3
<1>1. ASSUME NEW k \in Keys, GetHit(k)
      PROVE  Lfu!Next
  <2>1. PICK new : Refile(k, new) /\ new.size = entries[k].size
                   /\ new.freq = entries[k].freq + 1
    BY <1>1, HitRefiles
  <2>2. Lfu!Store(k, Lfu!Entry(Contents[k].size, Contents[k].uses + 1, now))
    <3>1. k \in DOMAIN entries
      BY <1>1 DEF GetHit
    <3>2. new.size = Contents[k].size /\ new.freq = Contents[k].uses + 1
      BY <2>1, <3>1 DEF Contents
    <3>3. Lfu!Store(k, Lfu!Entry(new.size, new.freq, now))
      BY <2>1, RefileStores
    <3>4. QED
      BY <3>2, <3>3
  <2>3. Lfu!Use(k)
    BY <1>1, <2>2 DEF GetHit, Tick, Lfu!Use, Contents
  <2>4. QED
    BY <2>3 DEF Lfu!Next
<1>2. ASSUME NEW k \in Keys, NEW size \in Sizes, NEW f \in InitialFrequencies,
             NEW t \in 0..now, Put(k, size, f, t)
      PROVE  Lfu!Next
  <2>1. PICK new : Refile(k, new) /\ new.size = size /\ new.freq = StartFrequency(f)
    BY <1>2, PutRefiles
  <2>2. Lfu!Store(k, Lfu!Entry(size, StartFrequency(f), now))
    BY <2>1, RefileStores
  <2>3. Lfu!Insert(k, size, StartFrequency(f))
    BY <1>2, <2>2, <1>a DEF Put, Tick, Fits, Lfu!Insert
  <2>4. QED
    BY <2>3 DEF Lfu!Next
<1>3. ASSUME NEW victim \in index[active], EvictOne(victim)
      PROVE  Lfu!Next
  <2> DEFINE v == victim.key
  <2>1. /\ v \in DOMAIN entries /\ victim = entries[v].its[active]
        /\ entries' = [x \in DOMAIN entries \ {v} |-> entries[x]]
    BY <1>3, VictimIsCached
  <2> HIDE DEF v
  <2>2. Lfu!LeastUsed(v)
    BY <1>3, <2>1, FirstIsLeastUsed DEF EvictOne
  <2>3. Contents' = [x \in DOMAIN Contents \ {v} |-> Contents[x]]
    BY <2>1 DEF Contents
  <2>4. v \in DOMAIN Contents /\ v \in Keys
    BY <2>1 DEF Contents, CacheInv, TypeOK
  <2>5. Lfu!Evict(v)
    BY <1>3, <1>a, <2>2, <2>3, <2>4 DEF EvictOne, Lfu!Evict
  <2>6. QED
    BY <2>4, <2>5 DEF Lfu!Next
<1>4. ASSUME NEW rate \in HitRates, AdjustWeights(rate)
      PROVE  Lfu!Next
  <2>1. Contents' = Contents
    BY <1>4 DEF AdjustWeights, Contents
  <2>2. Lfu!Other
    BY <1>4, <2>1 DEF AdjustWeights, Tick, Lfu!Other
  <2>3. QED
    BY <2>2 DEF Lfu!Next
<1>5. CASE UNCHANGED vars
  BY <1>5 DEF vars, Lfu!vars, Contents
<1>6. QED
  BY <1>1, <1>2, <1>3, <1>4, <1>5 DEF Next

\* Whatever the profiles, weights and hit rates, what the cache evicts is what a
\* least-frequently-used cache with ties broken by last use evicts.
THEOREM CacheImplementsLfu == Spec => ImplementsLfu
<1>1. QED
  BY CacheInvariant, InitIsLfu, NextIsLfu, PTL DEF Spec, ImplementsLfu, Lfu!Spec
------------------------------------------------------------------------------
(* Eviction counts down *)

\* While the loop of EvictIfNeededLocked runs, every step is one of its rounds and takes an
\* entry with it.
EvictionCountsDown ==
  [][pc = "evict" => Cardinality(DOMAIN entries') < Cardinality(DOMAIN entries)]_vars

\* The loop never finds the active index empty, nor without a first node, over its budget.
EvictionCanGoOn == pc = "evict" => \E victim \in index[active] : IsFirst(victim, index[active])

\* < is well-founded on the numbers.
LEMMA LeastNumber == ASSUME NEW T, T \subseteq Nat, T # {}
                     PROVE  \E m \in T : \A k \in T : m <= k
<1>1. PICK m \in T : \A k \in T : ~(<<k, m>> \in OpToRel(<, Nat))
  BY NatLessThanWellFounded, WFMin
<1>2. \A k \in T : ~(k < m)
  BY <1>1 DEF OpToRel
<1> QED BY <1>2

LEMMA FirstExists ==
  ASSUME NEW nodes, nodes # {}, \A n \in nodes : n.score \in Nat /\ n.at \in Nat
  PROVE  \E n \in nodes : IsFirst(n, nodes)
<1> DEFINE scores == {n.score : n \in nodes}
<1>1. PICK s \in scores : \A x \in scores : s <= x
  <2>1. scores \subseteq Nat /\ scores # {}
    OBVIOUS
  <2> QED BY <2>1, LeastNumber
<1> DEFINE times == {n.at : n \in {m \in nodes : m.score = s}}
<1>2. PICK t \in times : \A x \in times : t <= x
  <2>1. times \subseteq Nat /\ times # {}
    BY <1>1
  <2> QED BY <2>1, LeastNumber
<1>3. PICK n \in nodes : n.score = s /\ n.at = t
  BY <1>2
<1>4. ASSUME NEW m \in nodes PROVE n.score < m.score \/ (n.score = m.score /\ n.at <= m.at)
  <2>1. n.score <= m.score
    BY <1>1, <1>3
  <2>2. m.score = n.score => n.at <= m.at
    BY <1>2, <1>3
  <2> QED BY <2>1, <2>2
<1> QED BY <1>4 DEF IsFirst

LEMMA EvictionStep ==
  ASSUME CacheInv, [Next]_vars, pc = "evict", vars' # vars
  PROVE  Cardinality(DOMAIN entries') < Cardinality(DOMAIN entries)
<1>1. PICK victim : EvictOne(victim)
  BY DEF Next, GetHit, Put, AdjustWeights
<1>2. /\ victim.key \in DOMAIN entries
      /\ DOMAIN entries' = DOMAIN entries \ {victim.key}
  BY <1>1, VictimIsCached
<1>3. IsFiniteSet(DOMAIN entries)
  BY CacheAssumption, FS_Subset DEF CacheInv, TypeOK
<1>4. /\ Cardinality(DOMAIN entries') = Cardinality(DOMAIN entries) - 1
      /\ Cardinality(DOMAIN entries) \in Nat
  BY <1>2, <1>3, FS_RemoveElement, FS_CardinalityType
<1> QED BY <1>4

\* Put evicts at most as many entries as are cached, then returns.
THEOREM EvictionIsBounded == Spec => EvictionCountsDown
<1>1. CacheInv /\ [Next]_vars
        => [pc = "evict" => Cardinality(DOMAIN entries') < Cardinality(DOMAIN entries)]_vars
  BY EvictionStep
<1> QED BY <1>1, CacheInvariant, PTL DEF Spec, EvictionCountsDown

\* As long as the contents are over the budget there is an entry to evict.
THEOREM EvictionNeverStalls == Spec => []EvictionCanGoOn
<1>1. ASSUME CacheInv, pc = "evict"
      PROVE  \E victim \in index[active] : IsFirst(victim, index[active])
  <2>1. active \in Profiles
    BY <1>1 DEF CacheInv, TypeOK
  <2>2. DOMAIN entries # {}
    <3> SUFFICES ASSUME DOMAIN entries = {} PROVE FALSE
      OBVIOUS
    <3>1. Bytes = {}
      BY DEF Bytes
    <3>2. mem = 0
      BY <1>1, <3>1, FS_EmptySet DEF CacheInv, MemIsResidentBytes
    <3> QED BY <1>1, <3>2, CacheAssumption DEF CacheInv, LoopInv, OverBudget
  <2>3. index[active] # {}
    <3>1. index[active] = {entries[k].its[active] : k \in DOMAIN entries}
      BY <1>1, <2>1 DEF CacheInv, IndexesMatchEntries
    <3> QED BY <2>2, <3>1
  <2>4. \A n \in index[active] : n.score \in Nat /\ n.at \in Nat
    BY <1>1, <2>1, CacheAssumption DEF CacheInv, TypeOK, NodeType
  <2> QED BY <2>3, <2>4, FirstExists
<1>2. CacheInv => EvictionCanGoOn
  BY <1>1 DEF EvictionCanGoOn
<1> QED BY <1>2, CacheInvariant, PTL
==============================================================================
