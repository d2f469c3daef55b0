---------------------------- MODULE WorkloadCache ----------------------------
(***************************************************************************)
(* cache/cache.cpp: the workload-aware cache.  Every entry is filed in     *)
(* three eviction indexes, one per score profile, and eviction follows the *)
(* index of the active profile.  Each method holds mutex_ throughout, so a *)
(* method is one action; only the eviction loop of Put, which still holds  *)
(* mutex_, is one action per round, and no other action can come between.  *)
(***************************************************************************)
EXTENDS Naturals, FiniteSets

CONSTANTS Keys,
          MaxBytes,            \* max_memory_usage_bytes_
          Sizes,               \* the content sizes handed to Put
          InitialFrequencies,  \* the initial_frequency arguments
          HitRates,            \* the rates handed to AdjustWeights, in percent
          Scale,               \* scores are multiplied by 2 * Scale
          MaxLag,              \* bound: how old Put's reading of the clock may be
          MaxOps               \* bound: how many operations are performed

Profiles == {"recencyHeavy", "balanced", "frequencyHeavy"}

ASSUME CacheAssumption == /\ IsFiniteSet(Keys)
                          /\ MaxBytes \in Nat \ {0}
                          /\ Sizes \subseteq Nat /\ InitialFrequencies \subseteq Nat
                          /\ HitRates \subseteq 0..100
                          /\ Scale \in Nat \ {0}
                          /\ MaxLag \in Nat /\ MaxOps \in Nat

VARIABLES entries,  \* entries_: the cached keys' entries
          index,    \* eviction_indexes_: for each profile its set of nodes
          mem,      \* current_memory_usage_bytes_
          active,   \* active_profile_
          pc,       \* "free", or "evict" inside EvictIfNeededLocked
          now       \* steady_clock; it also orders the insertions in the indexes

vars == <<entries, index, mem, active, pc, now>>
------------------------------------------------------------------------------
(* Scores.  A node of an index is a multimap node: its score, its key, and *)
(* when it was put in, as equal scores stand in insertion order.           *)

\* The weights doubled, so that 0.5 is an integer.
Weights(profile) == CASE profile = "recencyHeavy" -> [alpha |-> 1, beta |-> 16]
                      [] profile = "frequencyHeavy" -> [alpha |-> 4, beta |-> 6]
                      [] OTHER -> [alpha |-> 2, beta |-> 10]

\* alpha * frequency + beta / (age + 1), times 2 * Scale; exact if age + 1
\* divides Scale.
ScoreAt(e, profile, t) ==
  Weights(profile).alpha * e.freq * Scale
    + Weights(profile).beta * (Scale \div ((t - e.last) + 1))

\* Variants: of equal scores the newest goes; the entry just stored is passed over.
IsFirstNewest(n, nodes) == \A m \in nodes : \/ n.score < m.score
                                            \/ n.score = m.score /\ n.at >= m.at
IsFirstNotNew(n, nodes) ==
  n.at # now - 1 /\ \A m \in nodes : \/ n.score < m.score
                                     \/ n.score = m.score /\ n.at <= m.at

\* begin() of the multimap: the lowest score, the oldest of equal ones.
IsFirst(n, nodes) == \A m \in nodes : \/ n.score < m.score
                                      \/ n.score = m.score /\ n.at <= m.at

ProfileForHitRate(rate) == IF rate < 50 THEN "recencyHeavy"
                           ELSE IF rate > 80 THEN "frequencyHeavy"
                           ELSE "balanced"

NodesOf(k, e, t) == [p \in Profiles |-> [score |-> ScoreAt(e, p, t), at |-> now, key |-> k]]

\* Variant: only the active index is cleaned.
RemoveFromActiveIndex(idx, e) == [idx EXCEPT ![active] = @ \ {e.its[active]}]

RemoveFromIndexes(idx, e) == [p \in Profiles |-> idx[p] \ {e.its[p]}]
InsertIntoIndexes(idx, e) == [p \in Profiles |-> idx[p] \cup {e.its[p]}]

\* The bytes of the cached contents, each named by its key and its offset.
Bytes == {b \in Keys \X (1..MaxBytes) : b[1] \in DOMAIN entries
                                        /\ b[2] <= entries[b[1]].size}

\* max(1, initial_frequency)
StartFrequency(f) == IF f > 1 THEN f ELSE 1
------------------------------------------------------------------------------
Init == /\ entries = <<>>
        /\ index = [p \in Profiles |-> {}]
        /\ mem = 0
        /\ active \in Profiles  \* ProfileForWeights of the configured weights
        /\ pc = "free"
        /\ now = 0

Tick == now < MaxOps /\ now' = now + 1

GetHit(k) == /\ pc = "free" /\ k \in DOMAIN entries
             /\ LET old == entries[k]
                    used == [old EXCEPT !.freq = @ + 1, !.last = now]
                    new == [used EXCEPT !.its = NodesOf(k, used, now)]
                IN /\ index' = InsertIntoIndexes(RemoveFromIndexes(index, old), new)
                   /\ entries' = [entries EXCEPT ![k] = new]
             /\ Tick /\ UNCHANGED <<mem, active, pc>>

\* Variants: no content is too large; the bytes replaced are not given back.
FitsAlways(size) == TRUE
GivesBackNothing(k) == 0

Fits(size) == size <= MaxBytes
BytesReplaced(k) == IF k \in DOMAIN entries THEN entries[k].size ELSE 0
OverBudget(bytes) == bytes > MaxBytes

\* Put reads the clock before it takes mutex_: t may be older than the last use
\* of other entries.  A content larger than the whole cache is not taken, and
\* whatever was cached for the key stays.
PutStore(k, size, freq, t) ==
  LET scored == [size |-> size, freq |-> StartFrequency(freq), last |-> t]
      new == [size |-> size, freq |-> scored.freq, last |-> t,
              its |-> NodesOf(k, scored, t)]
      kept == IF k \in DOMAIN entries THEN RemoveFromIndexes(index, entries[k])
              ELSE index
  IN /\ index' = InsertIntoIndexes(kept, new)
     /\ entries' = [x \in DOMAIN entries \cup {k} |-> IF x = k THEN new ELSE entries[x]]
     /\ mem' = (mem - BytesReplaced(k)) + size

Put(k, size, freq, t) ==
  /\ pc = "free" /\ Fits(size)
  /\ t <= now /\ now <= t + MaxLag
  /\ PutStore(k, size, freq, t)
  /\ pc' = IF OverBudget(mem') THEN "evict" ELSE "free"
  /\ Tick /\ UNCHANGED active

\* One round of the loop of EvictIfNeededLocked.  A node whose key is not cached
\* would only be dropped from the active index.
EvictOne(victim) ==
  /\ pc = "evict"
  /\ victim \in index[active] /\ IsFirst(victim, index[active])
  /\ IF victim.key \in DOMAIN entries
     THEN /\ index' = RemoveFromIndexes(index, entries[victim.key])
          /\ mem' = mem - entries[victim.key].size
          /\ entries' = [x \in DOMAIN entries \ {victim.key} |-> entries[x]]
     ELSE /\ index' = [index EXCEPT ![active] = @ \ {victim}]
          /\ UNCHANGED <<mem, entries>>
  /\ pc' = IF OverBudget(mem') /\ index'[active] # {} THEN "evict" ELSE "free"
  /\ UNCHANGED <<active, now>>

AdjustWeights(rate) == /\ pc = "free"
                       /\ active' = ProfileForHitRate(rate)
                       /\ Tick /\ UNCHANGED <<entries, index, mem, pc>>

Next == \/ \E k \in Keys : GetHit(k)
        \/ \E k \in Keys, size \in Sizes, f \in InitialFrequencies, t \in 0..now :
              Put(k, size, f, t)
        \/ \E victim \in index[active] : EvictOne(victim)
        \/ \E rate \in HitRates : AdjustWeights(rate)

Spec == Init /\ [][Next]_vars

\* A thread inside Put goes on until Put returns.
FairSpec == Spec /\ WF_vars(\E victim \in index[active] : EvictOne(victim))
------------------------------------------------------------------------------
(* Properties *)

NodeType == [score : Nat, at : 0..MaxOps, key : Keys]
EntryType == [size : 0..MaxBytes, freq : Nat \ {0}, last : 0..MaxOps,
              its : [Profiles -> NodeType]]

TypeOK == /\ DOMAIN entries \subseteq Keys
          /\ entries \in [DOMAIN entries -> EntryType]
          /\ index \in [Profiles -> SUBSET NodeType]
          /\ mem \in Nat
          /\ active \in Profiles
          /\ pc \in {"free", "evict"}
          /\ now \in 0..MaxOps

\* Every index files every cached entry, once, under its key and the score of its
\* present frequency, by the very node the entry points back to, and nothing else:
\* so no erase goes through a stale iterator and no orphan node is left.
IndexesMatchEntries ==
  \A p \in Profiles :
    /\ index[p] = {entries[k].its[p] : k \in DOMAIN entries}
    /\ \A k \in DOMAIN entries : LET e == entries[k] IN
         /\ e.its[p].key = k
         /\ e.its[p].score = ScoreAt(e, p, e.last)
         /\ e.its[p].at < now
         /\ \A q \in Profiles : e.its[p].at = e.its[q].at

\* The byte counter is the number of resident bytes through every replacement
\* and eviction, so it cannot wrap below zero; and whenever mutex_ is free the
\* cached contents fit in the configured memory.
MemIsResidentBytes == mem = Cardinality(Bytes)
BudgetIsHonoured == MemIsResidentBytes /\ (pc = "free" => mem <= MaxBytes)

\* Eviction always ends, and with the cache within its budget.
EvictionEnds == pc = "evict" ~> pc = "free"

\* Which entry goes is decided by frequency and, among equals, by the last use,
\* whatever profile is active: with every score computed at the moment of its
\* entry's last use the three indexes hold the same order.
Contents == [k \in DOMAIN entries |-> [size |-> entries[k].size, uses |-> entries[k].freq,
                                        at |-> entries[k].its["balanced"].at]]

Lfu == INSTANCE LfuCache WITH
         Uses <- {StartFrequency(f) : f \in InitialFrequencies}, Budget <- MaxBytes,
         slot <- Contents, clock <- now, busy <- pc = "evict"
ImplementsLfu == Lfu!Spec

\* README: score = alpha * access_frequency + beta * recency, with recency =
\* 1 / (age_seconds + 1), and the recency-heavy profile "favors recently accessed
\* entries": what leaves under that profile has the lowest such score.
RecencyHonoured ==
  [][\A k \in DOMAIN entries \ DOMAIN entries' :
       active = "recencyHeavy" =>
         \A x \in DOMAIN entries :
           ScoreAt(entries[k], active, now) <= ScoreAt(entries[x], active, now)]_vars
==============================================================================
