------------------------ MODULE RequestHandlingProofs ------------------------
(***************************************************************************)
(* TLAPS proofs about RequestHandling, for any number of clients and       *)
(* handlers and any clock bound.                                           *)
(***************************************************************************)
EXTENDS RequestHandling, FiniteSetTheorems, SequenceTheorems, TLAPS

Holding == {c \in PastOpen : pc[c] # "closed"}
Hits == {c \in PastLookup : lookup[c] = "hit"}
Misses == {c \in PastLookup : lookup[c] = "miss"}

\* What a stage says of the client: before its request is read nothing is known of it,
\* and only a client request goes through the stages that touch the counters.
KindOfStage ==
  \A c \in Clients :
    /\ pc[c] \in {"queued", "reading"} => kind[c] = "unread"
    /\ pc[c] \in {"open"} \cup Serving \cup Completing \cup Adjusting
                   \cup {"closeLoad", "closeCas"} => kind[c] = "client"
    /\ pc[c] \in {"endLoad", "endStore", "closed"} => kind[c] # "unread"

\* What a handler has loaded: the loop of ConnectionClosed never tries to decrement
\* zero, and the metric is given a value the cache's memory has had.
LoadedValues ==
  \A c \in Clients :
    /\ pc[c] = "closeCas" => seen[c].val > 0
    /\ pc[c] \in {"putStore", "endStore"} => seen[c].val \in MemValues \cup {0}

HandlingInv == /\ TypeOK /\ KindOfStage /\ LoadedValues
               /\ ActiveIsOpen /\ EachRequestCountedOnce

Counts == <<active, total, hits, misses>>
CountSets == <<Holding, PastCount, Hits, Misses>>
------------------------------------------------------------------------------
(* Samples *)

LEMMA PrunedType ==
  ASSUME NEW s \in Seq(0..MaxTime), NEW t \in Nat
  PROVE  Pruned(s, t) \in Seq(0..MaxTime)
<1>1. /\ Len(s) \in Nat /\ \A i \in 1..Len(s) : s[i] \in 0..MaxTime
      /\ IsFiniteSet(1..Len(s)) /\ Cardinality(1..Len(s)) = Len(s)
  <2>1. Len(s) \in Nat /\ \A i \in 1..Len(s) : s[i] \in 0..MaxTime
    BY ElementOfSeq, LenProperties
  <2>2. \A n \in Nat : IsFiniteSet(1..n) /\ Cardinality(1..n) = n
    BY FS_Interval
  <2>3. QED
    BY <2>1, <2>2
<1>2. StalePrefix(s, t) \subseteq 1..Len(s)
  BY DEF StalePrefix
<1>3. /\ IsFiniteSet(StalePrefix(s, t)) /\ Cardinality(StalePrefix(s, t)) \in Nat
      /\ Cardinality(StalePrefix(s, t)) <= Len(s)
  BY <1>1, <1>2, FS_Subset, FS_CardinalityType
<1>4. \A k \in Nat : SubSeq(s, k + 1, Len(s)) \in Seq(0..MaxTime)
  <2> TAKE k \in Nat
  <2>1. \A i \in (k + 1)..Len(s) : s[i] \in 0..MaxTime
    BY <1>1
  <2>2. k + 1 \in Int /\ Len(s) \in Int
    BY <1>1
  <2>3. QED
    BY <2>1, <2>2, SubSeqProperties
<1>5. QED
  BY <1>3, <1>4 DEF Pruned

LEMMA PushedType ==
  ASSUME NEW s \in Seq(0..MaxTime), NEW t \in 0..MaxTime
  PROVE  Pruned(Append(s, t), t) \in Seq(0..MaxTime)
<1>1. Append(s, t) \in Seq(0..MaxTime) /\ t \in Nat
  BY HandlingAssumption
<1>2. QED
  BY <1>1, PrunedType
------------------------------------------------------------------------------
(* Steps and the counted sets *)

LEMMA SetsFinite == /\ IsFiniteSet(Holding) /\ IsFiniteSet(PastCount)
                    /\ IsFiniteSet(Hits) /\ IsFiniteSet(Misses)
<1>1. /\ Holding \subseteq Clients /\ PastCount \subseteq Clients
      /\ Hits \subseteq Clients /\ Misses \subseteq Clients
  BY DEF Holding, Hits, Misses, PastLookup, PastPush, PastCount, PastOpen, Recorded
<1>2. QED
  BY <1>1, FS_Subset, HandlingAssumption

LEMMA SameCounts ==
  ASSUME ActiveIsOpen, EachRequestCountedOnce, UNCHANGED Counts, UNCHANGED CountSets
  PROVE  ActiveIsOpen' /\ EachRequestCountedOnce'
<1>1. /\ Holding' = Holding /\ PastCount' = PastCount /\ Hits' = Hits /\ Misses' = Misses
      /\ active' = active /\ total' = total /\ hits' = hits /\ misses' = misses
  BY DEF CountSets, Counts
<1>2. /\ Cardinality(Holding') = Cardinality(Holding)
      /\ Cardinality(PastCount') = Cardinality(PastCount)
      /\ Cardinality(Hits') = Cardinality(Hits)
      /\ Cardinality(Misses') = Cardinality(Misses)
  BY <1>1
<1>3. /\ active = Cardinality(Holding) /\ total = Cardinality(PastCount)
      /\ hits = Cardinality(Hits) /\ misses = Cardinality(Misses)
  BY DEF ActiveIsOpen, EachRequestCountedOnce, Holding, Hits, Misses
<1>4. /\ active' = Cardinality(Holding') /\ total' = Cardinality(PastCount')
      /\ hits' = Cardinality(Hits') /\ misses' = Cardinality(Misses')
  BY <1>1, <1>2, <1>3
<1>5. QED
  BY <1>4 DEF ActiveIsOpen, EachRequestCountedOnce, Holding, Hits, Misses

\* The stage and the request of every other client are left alone.
OthersStay(c) == \A d \in Clients \ {c} :
                   pc'[d] = pc[d] /\ kind'[d] = kind[d] /\ lookup'[d] = lookup[d]

SameSides(c) == /\ c \in Holding' <=> c \in Holding
                /\ c \in PastCount' <=> c \in PastCount
                /\ c \in Hits' <=> c \in Hits
                /\ c \in Misses' <=> c \in Misses

\* The steps that change none of the counts.
LEMMA KeepsCounts ==
  ASSUME HandlingInv, NEW c \in Clients,
         \/ Begin(c) \/ ReadInternal(c) \/ ReadClient(c) \/ Serve(c) \/ ServeMiss(c)
         \/ ReadNow(c) \/ PushSample(c) \/ SnapHits(c) \/ SnapMisses(c) \/ SnapNow(c)
         \/ SnapPrune(c) \/ AdjustWeights(c) \/ LoadMemory(c) \/ StoreMemory(c)
  PROVE  UNCHANGED Counts /\ UNCHANGED CountSets
<1> USE DEF At, GoTo, Load, metrics, cache, request
<1>1. OthersStay(c) /\ UNCHANGED Counts
  BY DEF OthersStay, Counts, HandlingInv, TypeOK, Begin, ReadInternal, ReadClient, Serve,
         ServeMiss, ReadNow, PushSample, SnapHits, SnapMisses, SnapNow, SnapPrune,
         AdjustWeights, LoadMemory, StoreMemory
<1>0. pc \in [Clients -> Stages] /\ kind \in [Clients -> {"unread", "client", "internal"}]
      /\ lookup \in [Clients -> {"none", "hit", "miss"}] /\ KindOfStage
  BY DEF HandlingInv, TypeOK
<1>2. SameSides(c)
  <2> USE DEF SameSides, Holding, Hits, Misses, PastLookup, PastPush, PastCount, PastOpen,
              Recorded, BeforeOpen, Serving, Completing, Adjusting, Closing, Stages,
              KindOfStage
  <2>1. ASSUME Begin(c) PROVE SameSides(c)
    BY <2>1, <1>0 DEF Begin
  <2>2. ASSUME ReadInternal(c) PROVE SameSides(c)
    BY <2>2, <1>0 DEF ReadInternal
  <2>3. ASSUME ReadClient(c) PROVE SameSides(c)
    BY <2>3, <1>0 DEF ReadClient
  <2>4. ASSUME Serve(c) PROVE SameSides(c)
    BY <2>4, <1>0 DEF Serve
  <2>5. ASSUME ServeMiss(c) PROVE SameSides(c)
    BY <2>5, <1>0 DEF ServeMiss
  <2>6. ASSUME ReadNow(c) PROVE SameSides(c)
    BY <2>6, <1>0 DEF ReadNow
  <2>7. ASSUME PushSample(c) PROVE SameSides(c)
    BY <2>7, <1>0 DEF PushSample
  <2>8. ASSUME SnapHits(c) PROVE SameSides(c)
    BY <2>8, <1>0 DEF SnapHits
  <2>9. ASSUME SnapMisses(c) PROVE SameSides(c)
    BY <2>9, <1>0 DEF SnapMisses
  <2>10. ASSUME SnapNow(c) PROVE SameSides(c)
    BY <2>10, <1>0 DEF SnapNow
  <2>11. ASSUME SnapPrune(c) PROVE SameSides(c)
    BY <2>11, <1>0 DEF SnapPrune
  <2>12. ASSUME AdjustWeights(c) PROVE SameSides(c)
    BY <2>12, <1>0 DEF AdjustWeights
  <2>13. ASSUME LoadMemory(c) PROVE SameSides(c)
    BY <2>13, <1>0 DEF LoadMemory
  <2>14. ASSUME StoreMemory(c) PROVE SameSides(c)
    BY <2>14, <1>0 DEF StoreMemory
  <2>15. QED
    BY <2>1, <2>2, <2>3, <2>4, <2>5, <2>6, <2>7, <2>8, <2>9, <2>10,
       <2>11, <2>12, <2>13, <2>14 DEF SameSides
<1>3. UNCHANGED CountSets
  BY <1>1, <1>2 DEF SameSides, OthersStay, CountSets, Holding, Hits, Misses, PastLookup, PastPush,
                    PastCount, PastOpen, Recorded
<1>4. QED
  BY <1>1, <1>3

\* The client c enters, or leaves, a counted set.
LEMMA Enters == ASSUME NEW S, NEW T, NEW c, IsFiniteSet(S), c \notin S, T = S \cup {c}
                PROVE  Cardinality(T) = Cardinality(S) + 1
  BY FS_AddElement

LEMMA Leaves == ASSUME NEW S, NEW T, NEW c, IsFiniteSet(S), c \in S, T = S \ {c}
                PROVE  Cardinality(T) = Cardinality(S) - 1
  BY FS_RemoveElement

\* The four steps that do change a count.
LEMMA OpenCounts ==
  ASSUME HandlingInv, NEW c \in Clients, ConnectionOpened(c)
  PROVE  ActiveIsOpen' /\ EachRequestCountedOnce'
<1>1. /\ c \notin Holding /\ Holding' = Holding \cup {c}
      /\ PastCount' = PastCount /\ Hits' = Hits /\ Misses' = Misses
  BY DEF ConnectionOpened, At, GoTo, cache, request, HandlingInv, TypeOK, KindOfStage, Holding,
         Hits, Misses, PastLookup, PastPush, PastCount, PastOpen, Recorded, BeforeOpen,
         Serving, Stages
<1>2. Cardinality(Holding') = Cardinality(Holding) + 1
  BY <1>1, SetsFinite, Enters
<1>3. /\ active' = active + 1
      /\ total' = total /\ hits' = hits /\ misses' = misses
  BY DEF ConnectionOpened
<1>4. QED
  BY <1>1, <1>2, <1>3 DEF HandlingInv, ActiveIsOpen, EachRequestCountedOnce, Holding, Hits,
                          Misses

LEMMA CountCounts ==
  ASSUME HandlingInv, NEW c \in Clients, CountRequest(c)
  PROVE  ActiveIsOpen' /\ EachRequestCountedOnce'
<1>0. /\ pc[c] = "count" /\ pc'[c] = "stamp" /\ kind[c] = "client"
      /\ kind' = kind /\ lookup' = lookup /\ \A d \in Clients \ {c} : pc'[d] = pc[d]
  BY DEF CountRequest, At, GoTo, request, HandlingInv, TypeOK, KindOfStage, Serving, Completing
<1>1. /\ c \notin PastCount /\ PastCount' = PastCount \cup {c}
      /\ Holding' = Holding /\ Hits' = Hits /\ Misses' = Misses
  BY <1>0 DEF Holding, Hits, Misses, PastLookup, PastPush, PastCount, PastOpen, Recorded,
         BeforeOpen, Serving
<1>2. Cardinality(PastCount') = Cardinality(PastCount) + 1
  BY <1>1, SetsFinite, Enters
<1>3. /\ total' = total + 1
      /\ active' = active /\ hits' = hits /\ misses' = misses
  BY DEF CountRequest
<1>4. QED
  BY <1>1, <1>2, <1>3 DEF HandlingInv, ActiveIsOpen, EachRequestCountedOnce, Holding, Hits,
                          Misses

LEMMA LookupCounts ==
  ASSUME HandlingInv, NEW c \in Clients, RecordLookup(c)
  PROVE  ActiveIsOpen' /\ EachRequestCountedOnce'
<1>0. /\ pc[c] = "record" /\ pc'[c] = "snapHits" /\ kind[c] = "client"
      /\ kind' = kind /\ lookup' = lookup /\ \A d \in Clients \ {c} : pc'[d] = pc[d]
  BY DEF RecordLookup, At, GoTo, request, HandlingInv, TypeOK, KindOfStage, Serving, Completing
<1>1. /\ c \notin Hits /\ c \notin Misses
      /\ Hits' = IF lookup[c] = "hit" THEN Hits \cup {c} ELSE Hits
      /\ Misses' = IF lookup[c] = "miss" THEN Misses \cup {c} ELSE Misses
      /\ Holding' = Holding /\ PastCount' = PastCount
  BY <1>0 DEF Holding, Hits, Misses, PastLookup, PastPush, PastCount, PastOpen, Recorded,
         BeforeOpen, Serving
<1>2. /\ hits' = IF lookup[c] = "hit" THEN hits + 1 ELSE hits
      /\ misses' = IF lookup[c] = "miss" THEN misses + 1 ELSE misses
      /\ active' = active /\ total' = total
  BY DEF RecordLookup
<1>3. hits = Cardinality(Hits) /\ misses = Cardinality(Misses)
  BY DEF HandlingInv, EachRequestCountedOnce, Hits, Misses
<1>4. hits' = Cardinality(Hits')
  <2>1. CASE lookup[c] = "hit"
    BY <2>1, <1>1, <1>2, <1>3, SetsFinite, Enters
  <2>2. CASE lookup[c] # "hit"
    BY <2>2, <1>1, <1>2, <1>3
  <2>3. QED
    BY <2>1, <2>2
<1>5. misses' = Cardinality(Misses')
  <2>1. CASE lookup[c] = "miss"
    BY <2>1, <1>1, <1>2, <1>3, SetsFinite, Enters
  <2>2. CASE lookup[c] # "miss"
    BY <2>2, <1>1, <1>2, <1>3
  <2>3. QED
    BY <2>1, <2>2
<1>6. QED
  BY <1>1, <1>2, <1>4, <1>5 DEF HandlingInv, ActiveIsOpen, EachRequestCountedOnce, Holding,
                                Hits, Misses

\* As long as c holds the gauge, it is not zero.
LEMMA HolderCounts ==
  ASSUME HandlingInv, NEW c \in Clients, pc[c] \in {"closeLoad", "closeCas"}
  PROVE  c \in Holding /\ active > 0
<1>1. c \in Holding
  BY DEF HandlingInv, KindOfStage, Holding, PastOpen, Recorded, BeforeOpen
<1>2. IsFiniteSet(Holding) /\ Cardinality(Holding) \in Nat /\ Cardinality(Holding) # 0
  BY <1>1, SetsFinite, FS_CardinalityType, FS_EmptySet
<1>3. active = Cardinality(Holding)
  BY DEF HandlingInv, ActiveIsOpen, Holding
<1>4. QED
  BY <1>1, <1>2, <1>3

LEMMA CloseCounts ==
  ASSUME HandlingInv, NEW c \in Clients, CloseLoad(c) \/ CloseCas(c)
  PROVE  ActiveIsOpen' /\ EachRequestCountedOnce'
<1>1. pc[c] \in {"closeLoad", "closeCas"} /\ c \in Holding /\ active > 0
  BY HolderCounts DEF CloseLoad, CloseCas, At
<1>2. PastCount' = PastCount /\ Hits' = Hits /\ Misses' = Misses
  <2>1. /\ kind' = kind /\ lookup' = lookup /\ pc'[c] \in {"closed", "closeCas"}
        /\ \A d \in Clients : d # c => pc'[d] = pc[d]
    BY DEF CloseLoad, CloseCas, GoTo, HandlingInv, TypeOK
  <2>2. \A d \in Clients : /\ pc'[d] \in BeforeOpen <=> pc[d] \in BeforeOpen
                           /\ pc'[d] \in Serving <=> pc[d] \in Serving
                           /\ pc'[d] \in Completing <=> pc[d] \in Completing
                           /\ \A x \in Completing : pc'[d] = x <=> pc[d] = x
    BY <1>1, <2>1 DEF BeforeOpen, Serving, Completing
  <2>3. Recorded' = Recorded /\ PastOpen' = PastOpen /\ PastCount' = PastCount
    BY <2>1, <2>2 DEF Recorded, PastOpen, PastCount
  <2>4. PastLookup' = PastLookup
    BY <2>2, <2>3 DEF PastLookup, PastPush, PastCount, PastOpen, Recorded, Completing
  <2>5. QED
    BY <2>1, <2>3, <2>4 DEF Hits, Misses
<1>3. total' = total /\ hits' = hits /\ misses' = misses
  BY DEF CloseLoad, CloseCas, metrics
<1>4. active' = Cardinality(Holding')
  <2>1. active = Cardinality(Holding)
    BY DEF HandlingInv, ActiveIsOpen, Holding
  <2>2. CASE active' = active - 1 /\ GoTo(c, "closed")
    <3>1. kind' = kind
      BY DEF CloseLoad, CloseCas, metrics
    <3>2. Holding' = Holding \ {c}
      BY <1>1, <2>2, <3>1 DEF GoTo, HandlingInv, TypeOK, Holding, PastOpen, Recorded,
                              BeforeOpen
    <3>3. Cardinality(Holding') = Cardinality(Holding) - 1
      BY <1>1, <3>2, SetsFinite, Leaves
    <3>4. QED
      BY <2>1, <2>2, <3>3
  <2>3. CASE active' = active /\ GoTo(c, "closeCas")
    <3>1. kind' = kind
      BY DEF CloseLoad, CloseCas, metrics
    <3>2. Holding' = Holding
      BY <1>1, <2>3, <3>1 DEF GoTo, HandlingInv, TypeOK, Holding, PastOpen, Recorded,
                              BeforeOpen
    <3>3. QED
      BY <2>1, <2>3, <3>2
  <2>4. QED
    BY <1>1, <2>2, <2>3 DEF CloseLoad, CloseCas, metrics
<1>5. QED
  BY <1>2, <1>3, <1>4 DEF HandlingInv, ActiveIsOpen, EachRequestCountedOnce, Holding, Hits,
                          Misses
------------------------------------------------------------------------------
(* Types and stages *)

LEMMA InitHandlingInv == Init => HandlingInv
<1> SUFFICES ASSUME Init PROVE HandlingInv
  OBVIOUS
<1>1. /\ Holding = {} /\ PastCount = {} /\ Hits = {} /\ Misses = {}
  BY DEF Init, Holding, Hits, Misses, PastLookup, PastPush, PastCount, PastOpen, Recorded
<1>2. Cardinality({}) = 0
  BY FS_EmptySet
<1>3. ActiveIsOpen /\ EachRequestCountedOnce
  BY <1>1, <1>2 DEF Init, ActiveIsOpen, EachRequestCountedOnce, Holding, Hits, Misses
<1>4. TypeOK
  <2>1. samples \in Seq(0..MaxTime)
    BY EmptySeq DEF Init
  <2>2. /\ seen \in [Clients -> [hits : Nat, misses : Nat, now : 0..MaxTime, val : Nat]]
        /\ stamp \in [Clients -> 0..MaxTime] /\ clock \in 0..MaxTime
    BY HandlingAssumption DEF Init, Unseen
  <2>3. QED
    BY <2>1, <2>2 DEF Init, TypeOK, Stages, BeforeOpen
<1>5. KindOfStage /\ LoadedValues
  BY DEF Init, KindOfStage, LoadedValues, Serving, Completing, Adjusting
<1>6. QED
  BY <1>3, <1>4, <1>5 DEF HandlingInv

LEMMA StepKeepsStages ==
  ASSUME HandlingInv, NEW c \in Clients, Begin(c) \/ Handle(c)
  PROVE  KindOfStage' /\ LoadedValues'
<1> USE DEF At, GoTo, Load, metrics, cache, request
<1>0. pc \in [Clients -> Stages] /\ kind \in [Clients -> {"unread", "client", "internal"}]
      /\ lookup \in [Clients -> {"none", "hit", "miss"}] /\ KindOfStage /\ LoadedValues
      /\ seen \in [Clients -> [hits : Nat, misses : Nat, now : 0..MaxTime, val : Nat]]
      /\ active \in Nat /\ cacheMem \in MemValues \cup {0}
  BY DEF HandlingInv, TypeOK
<1> USE DEF KindOfStage, LoadedValues, PastLookup, PastPush, PastCount, PastOpen, Recorded,
            BeforeOpen, Serving, Completing, Adjusting, Closing, Stages, Unseen
<1>1. CASE Begin(c)
  BY <1>1, <1>0 DEF Begin
<1>2. CASE ReadInternal(c)
  BY <1>2, <1>0 DEF ReadInternal
<1>3. CASE ReadClient(c)
  BY <1>3, <1>0 DEF ReadClient
<1>4. CASE ConnectionOpened(c)
  BY <1>4, <1>0 DEF ConnectionOpened
<1>5. CASE Serve(c)
  BY <1>5, <1>0 DEF Serve
<1>6. CASE ServeMiss(c)
  BY <1>6, <1>0 DEF ServeMiss
<1>7. CASE CountRequest(c)
  BY <1>7, <1>0 DEF CountRequest
<1>8. CASE ReadNow(c)
  BY <1>8, <1>0 DEF ReadNow
<1>9. CASE PushSample(c)
  BY <1>9, <1>0 DEF PushSample
<1>10. CASE RecordLookup(c)
  BY <1>10, <1>0 DEF RecordLookup
<1>11. CASE SnapHits(c)
  BY <1>11, <1>0 DEF SnapHits
<1>12. CASE SnapMisses(c)
  BY <1>12, <1>0 DEF SnapMisses
<1>13. CASE SnapNow(c)
  BY <1>13, <1>0 DEF SnapNow
<1>14. CASE SnapPrune(c)
  BY <1>14, <1>0 DEF SnapPrune
<1>15. CASE AdjustWeights(c)
  BY <1>15, <1>0 DEF AdjustWeights
<1>16. CASE LoadMemory(c)
  BY <1>16, <1>0 DEF LoadMemory
<1>17. CASE StoreMemory(c)
  BY <1>17, <1>0 DEF StoreMemory
<1>18. CASE CloseLoad(c)
  BY <1>18, <1>0, HolderCounts DEF CloseLoad
<1>19. CASE CloseCas(c)
  BY <1>19, <1>0, HolderCounts DEF CloseCas
<1>20. QED
  BY <1>1, <1>2, <1>3, <1>4, <1>5, <1>6, <1>7, <1>8, <1>9, <1>10, <1>11, <1>12, <1>13,
     <1>14, <1>15, <1>16, <1>17, <1>18, <1>19 DEF Handle

LEMMA StepKeepsTypes ==
  ASSUME HandlingInv, NEW c \in Clients, Begin(c) \/ Handle(c)
  PROVE  TypeOK'
<1> USE DEF At, GoTo, Load, metrics, cache, request
<1>0. TypeOK /\ LoadedValues
  BY DEF HandlingInv
<1> USE DEF TypeOK, BeforeOpen, Serving, Completing, Adjusting, Closing, Stages, Unseen
<1>1. CASE Begin(c)
  BY <1>1, <1>0 DEF Begin
<1>2. CASE ReadInternal(c)
  BY <1>2, <1>0 DEF ReadInternal
<1>3. CASE ReadClient(c)
  BY <1>3, <1>0 DEF ReadClient
<1>4. CASE ConnectionOpened(c)
  BY <1>4, <1>0 DEF ConnectionOpened
<1>5. CASE Serve(c)
  BY <1>5, <1>0 DEF Serve
<1>6. CASE ServeMiss(c)
  BY <1>6, <1>0, HandlingAssumption DEF ServeMiss
<1>7. CASE CountRequest(c)
  BY <1>7, <1>0 DEF CountRequest
<1>8. CASE ReadNow(c)
  BY <1>8, <1>0 DEF ReadNow
<1>9. CASE PushSample(c)
  BY <1>9, <1>0, PushedType DEF PushSample
<1>10. CASE RecordLookup(c)
  BY <1>10, <1>0 DEF RecordLookup
<1>11. CASE SnapHits(c)
  BY <1>11, <1>0 DEF SnapHits
<1>12. CASE SnapMisses(c)
  BY <1>12, <1>0 DEF SnapMisses
<1>13. CASE SnapNow(c)
  BY <1>13, <1>0 DEF SnapNow
<1>14. CASE SnapPrune(c)
  <2>1. seen[c].now \in Nat /\ samples \in Seq(0..MaxTime)
    BY <1>0, HandlingAssumption
  <2>2. Pruned(samples, seen[c].now) \in Seq(0..MaxTime)
    BY <2>1, PrunedType
  <2>3. QED
    BY <1>14, <1>0, <2>2 DEF SnapPrune
<1>15. CASE AdjustWeights(c)
  BY <1>15, <1>0, HandlingAssumption DEF AdjustWeights, ProfileFor
<1>16. CASE LoadMemory(c)
  <2>1. cacheMem \in Nat
    BY <1>0, HandlingAssumption
  <2>2. seen' \in [Clients -> [hits : Nat, misses : Nat, now : 0..MaxTime, val : Nat]]
    BY <1>16, <1>0, <2>1 DEF LoadMemory
  <2>3. QED
    BY <1>16, <1>0, <2>2 DEF LoadMemory
<1>17. CASE StoreMemory(c)
  <2>1. seen[c].val \in MemValues \cup {0} /\ 0 \in 0..MaxTime
    BY <1>17, <1>0, HandlingAssumption DEF StoreMemory, LoadedValues
  <2>2. QED
    BY <1>17, <1>0, <2>1 DEF StoreMemory
<1>18. CASE CloseLoad(c)
  BY <1>18, <1>0 DEF CloseLoad
<1>19. CASE CloseCas(c)
  <2>1. active > 0 /\ 0 \in 0..MaxTime
    BY <1>19, HolderCounts, HandlingAssumption DEF CloseCas
  <2>2. active' \in Nat
    BY <1>19, <1>0, <2>1 DEF CloseCas
  <2>3. seen' \in [Clients -> [hits : Nat, misses : Nat, now : 0..MaxTime, val : Nat]]
    <3>1. CASE seen' = [seen EXCEPT ![c] = Unseen]
      BY <3>1, <1>0, <2>1
    <3>2. CASE Load(c, "val", active)
      <4>1. /\ seen \in [Clients -> [hits : Nat, misses : Nat, now : 0..MaxTime, val : Nat]]
            /\ active \in Nat /\ seen' = [seen EXCEPT ![c]["val"] = active]
        BY <3>2, <1>0
      <4> QED BY <4>1
    <3>3. QED
      BY <1>19, <3>1, <3>2 DEF CloseCas
  <2>4. QED
    BY <1>19, <1>0, <2>2, <2>3 DEF CloseCas
<1>20. QED
  BY <1>1, <1>2, <1>3, <1>4, <1>5, <1>6, <1>7, <1>8, <1>9, <1>10, <1>11, <1>12, <1>13,
     <1>14, <1>15, <1>16, <1>17, <1>18, <1>19 DEF Handle

LEMMA NextHandlingInv == HandlingInv /\ [Next]_vars => HandlingInv'
<1> SUFFICES ASSUME HandlingInv, [Next]_vars PROVE HandlingInv'
  OBVIOUS
<1>1. ASSUME NEW c \in Clients, Begin(c) \/ Handle(c)
      PROVE  HandlingInv'
  <2>1. TypeOK' /\ KindOfStage' /\ LoadedValues'
    BY <1>1, StepKeepsTypes, StepKeepsStages
  <2>2. ActiveIsOpen' /\ EachRequestCountedOnce'
    <3>1. CASE ConnectionOpened(c) \/ CountRequest(c) \/ RecordLookup(c)
               \/ CloseLoad(c) \/ CloseCas(c)
      BY <3>1, OpenCounts, CountCounts, LookupCounts, CloseCounts
    <3>2. CASE ~(ConnectionOpened(c) \/ CountRequest(c) \/ RecordLookup(c)
                 \/ CloseLoad(c) \/ CloseCas(c))
      <4>1. UNCHANGED Counts /\ UNCHANGED CountSets
        BY <1>1, <3>2, KeepsCounts DEF Handle
      <4>2. QED
        BY <4>1, SameCounts DEF HandlingInv
    <3>3. QED
      BY <3>1, <3>2
  <2>3. QED
    BY <2>1, <2>2 DEF HandlingInv
<1>2. CASE PeekNow \/ (\E t \in peeks : PeekPrune(t)) \/ Tick \/ UNCHANGED vars
  <2>1. /\ UNCHANGED Counts /\ UNCHANGED <<pc, kind, lookup, seen>>
    BY <1>2 DEF PeekNow, PeekPrune, Tick, vars, metrics, cache, request, Counts
  <2>2. UNCHANGED CountSets
    BY <2>1 DEF CountSets, Holding, Hits, Misses, PastLookup, PastPush, PastCount, PastOpen,
                Recorded
  <2>3. ActiveIsOpen' /\ EachRequestCountedOnce'
    BY <2>1, <2>2, SameCounts DEF HandlingInv
  <2>4. KindOfStage' /\ LoadedValues'
    BY <2>1 DEF HandlingInv, KindOfStage, LoadedValues
  <2>5. samples' \in Seq(0..MaxTime)
    <3>1. CASE samples' = samples
      BY <3>1 DEF HandlingInv, TypeOK
    <3>2. ASSUME NEW t \in peeks, PeekPrune(t)
          PROVE  samples' \in Seq(0..MaxTime)
      <4>1. t \in Nat /\ samples \in Seq(0..MaxTime)
        BY HandlingAssumption DEF HandlingInv, TypeOK
      <4>2. QED
        BY <3>2, <4>1, PrunedType DEF PeekPrune
    <3>3. QED
      BY <1>2, <3>1, <3>2 DEF PeekNow, Tick, vars, metrics
  <2>6. /\ clock' \in 0..MaxTime /\ peeks' \subseteq 0..MaxTime
        /\ UNCHANGED <<approx, cache, stamp>>
    <3>1. clock \in 0..MaxTime /\ peeks \subseteq 0..MaxTime /\ MaxTime \in Nat
      BY HandlingAssumption DEF HandlingInv, TypeOK
    <3>2. CASE PeekNow
      BY <3>1, <3>2 DEF PeekNow, metrics, cache, request
    <3>3. CASE \E t \in peeks : PeekPrune(t)
      BY <3>1, <3>3 DEF PeekPrune, cache, request
    <3>4. CASE Tick
      BY <3>1, <3>4 DEF Tick, metrics, cache, request
    <3>5. CASE UNCHANGED vars
      BY <3>1, <3>5 DEF vars, metrics, cache, request
    <3>6. QED
      BY <1>2, <3>2, <3>3, <3>4, <3>5
  <2>7. TypeOK'
    BY <2>1, <2>5, <2>6 DEF HandlingInv, TypeOK, Counts, cache
  <2>8. QED
    BY <2>3, <2>4, <2>7 DEF HandlingInv
<1>3. QED
  BY <1>1, <1>2 DEF Next

LEMMA HandlingInvariant == Spec => []HandlingInv
<1>1. QED
  BY InitHandlingInv, NextHandlingInv, PTL DEF Spec

\* The counters and the stages of the handlers keep their types: the gauge of active
\* connections never wraps below zero.
THEOREM HandlingTyping == Spec => []TypeOK
<1>1. HandlingInv => TypeOK
  BY DEF HandlingInv
<1>2. QED
  BY <1>1, HandlingInvariant, PTL

\* The gauge of active connections is the number of client requests under way.
THEOREM GaugeIsExact == Spec => []ActiveIsOpen
<1>1. HandlingInv => ActiveIsOpen
  BY DEF HandlingInv
<1>2. QED
  BY <1>1, HandlingInvariant, PTL

\* Every client request, and its cache lookup, is counted exactly once.
THEOREM RequestsAreCountedOnce == Spec => []EachRequestCountedOnce
<1>1. HandlingInv => EachRequestCountedOnce
  BY DEF HandlingInv
<1>2. QED
  BY <1>1, HandlingInvariant, PTL
------------------------------------------------------------------------------
(* The pool bounds the gauge *)

PoolBound == Cardinality(Handled) <= MaxHandlers

LEMMA InitPoolBound == Init => PoolBound
<1> SUFFICES ASSUME Init PROVE PoolBound
  OBVIOUS
<1>1. Handled = {}
  BY DEF Init, Handled
<1>2. Cardinality({}) = 0
  BY FS_EmptySet
<1>3. QED
  BY <1>1, <1>2, HandlingAssumption DEF PoolBound

\* Every step of a handler is taken between its begin and the closing of its socket.
LEMMA HandleKeepsHandled ==
  ASSUME HandlingInv, NEW c \in Clients, Handle(c)
  PROVE  Handled' \subseteq Handled
<1> USE DEF At, GoTo
<1>1. pc[c] \notin {"queued", "closed"}
  BY DEF Handle, ReadInternal, ReadClient, ConnectionOpened, Serve, ServeMiss, CountRequest,
         ReadNow, PushSample, RecordLookup, SnapHits, SnapMisses, SnapNow, SnapPrune,
         AdjustWeights, LoadMemory, StoreMemory, CloseLoad, CloseCas
<1>2. \A d \in Clients \ {c} : pc'[d] = pc[d]
  BY DEF HandlingInv, TypeOK, Handle, ReadInternal, ReadClient, ConnectionOpened, Serve,
         ServeMiss, CountRequest, ReadNow, PushSample, RecordLookup, SnapHits, SnapMisses,
         SnapNow, SnapPrune, AdjustWeights, LoadMemory, StoreMemory, CloseLoad, CloseCas
<1>3. QED
  BY <1>1, <1>2 DEF Handled

LEMMA NextPoolBound == HandlingInv /\ PoolBound /\ [Next]_vars => PoolBound'
<1> SUFFICES ASSUME HandlingInv, PoolBound, [Next]_vars PROVE PoolBound'
  OBVIOUS
<1>1. IsFiniteSet(Handled) /\ Cardinality(Handled) \in Nat
  <2>1. Handled \subseteq Clients
    BY DEF Handled
  <2>2. QED
    BY <2>1, FS_Subset, FS_CardinalityType, HandlingAssumption
<1>2. ASSUME NEW c \in Clients, Begin(c) PROVE PoolBound'
  <2>1. Handled' = Handled \cup {c} /\ c \notin Handled
    BY <1>2 DEF HandlingInv, TypeOK, Begin, At, GoTo, Handled
  <2>2. Cardinality(Handled') = Cardinality(Handled) + 1
    BY <2>1, <1>1, Enters
  <2>3. QED
    BY <1>1, <1>2, <2>2, HandlingAssumption DEF Begin, PoolBound
<1>3. ASSUME NEW c \in Clients, Handle(c) PROVE PoolBound'
  <2>1. Cardinality(Handled') \in Nat /\ Cardinality(Handled') <= Cardinality(Handled)
    BY <1>1, <1>3, HandleKeepsHandled, FS_Subset, FS_CardinalityType
  <2>2. QED
    BY <1>1, <2>1, HandlingAssumption DEF PoolBound
<1>4. CASE PeekNow \/ (\E t \in peeks : PeekPrune(t)) \/ Tick \/ UNCHANGED vars
  <2>1. UNCHANGED pc
    BY <1>4 DEF PeekNow, PeekPrune, Tick, vars, metrics, cache, request
  <2>2. Handled' = Handled
    BY <2>1 DEF Handled
  <2>3. QED
    BY <2>2 DEF PoolBound
<1>5. QED
  BY <1>2, <1>3, <1>4 DEF Next

\* The gauge of active connections never exceeds the number of worker threads, because
\* only the worker that handles a client counts it: so the prefetcher, which compares
\* the gauge with twice that number, never finds the load heavy.
THEOREM GaugeStaysWithinPool == Spec => [](active <= MaxHandlers)
<1>1. Spec => []PoolBound
  BY InitPoolBound, NextPoolBound, HandlingInvariant, PTL DEF Spec
<1>2. HandlingInv /\ PoolBound => active <= MaxHandlers
  <2> SUFFICES ASSUME HandlingInv, PoolBound PROVE active <= MaxHandlers
    OBVIOUS
  <2>1. Holding \subseteq Handled
    BY DEF Holding, Handled, PastOpen, Recorded, BeforeOpen
  <2>2. IsFiniteSet(Handled)
    <3>1. Handled \subseteq Clients
      BY DEF Handled
    <3>2. QED
      BY <3>1, FS_Subset, HandlingAssumption
  <2>3. /\ Cardinality(Holding) \in Nat /\ Cardinality(Handled) \in Nat
        /\ Cardinality(Holding) <= Cardinality(Handled)
    BY <2>1, <2>2, FS_Subset, FS_CardinalityType
  <2>4. active = Cardinality(Holding)
    BY DEF HandlingInv, ActiveIsOpen, Holding
  <2>5. QED
    BY <2>3, <2>4, HandlingAssumption DEF PoolBound
<1>3. QED
  BY <1>1, <1>2, HandlingInvariant, PTL
------------------------------------------------------------------------------
(* The request rate *)

\* The samples, and the completed requests, that are within the window at u.
Young(s, u) == {i \in 1..Len(s) : s[i] + Window >= u}
Completed(u) == {c \in PastPush : stamp[c] + Window >= u}

\* Nobody prunes by a time that is still to come.
ReadingsArePast == /\ \A c \in Clients : stamp[c] <= clock /\ seen[c].now <= clock
                   /\ \A t \in peeks : t <= clock

\* The inductive invariant: of the present and of every later time it holds that all the
\* requests within the window are among the samples.
AllRecentKept == \A u \in Nat : u >= clock =>
                   Cardinality(Young(samples, u)) = Cardinality(Completed(u))

RateInv == ReadingsArePast /\ AllRecentKept

\* What is pruned is the beginning of the sequence.
LEMMA StalePrefixIsInterval ==
  ASSUME NEW s \in Seq(0..MaxTime), NEW t \in Nat
  PROVE  \E k \in Nat : /\ k <= Len(s) /\ k = Cardinality(StalePrefix(s, t))
                        /\ StalePrefix(s, t) = 1..k
<1> DEFINE P == StalePrefix(s, t)
           k == Cardinality(P)
<1>1. Len(s) \in Nat /\ P \subseteq 1..Len(s)
  BY DEF StalePrefix
<1>2. \A n \in Nat : IsFiniteSet(1..n) /\ Cardinality(1..n) = n
  BY FS_Interval
<1>3. IsFiniteSet(P) /\ k \in Nat /\ k <= Len(s)
  BY <1>1, <1>2, FS_Subset, FS_CardinalityType
<1>4. \A i \in P : 1..i \subseteq P
  BY <1>1 DEF StalePrefix
<1> HIDE DEF P
<1>5. P \subseteq 1..k
  <2> SUFFICES ASSUME NEW i \in P PROVE i \in 1..k
    OBVIOUS
  <2>1. i \in Nat /\ 1 <= i
    BY <1>1
  <2>2. Cardinality(1..i) <= Cardinality(P)
    BY <1>3, <1>4, FS_Subset
  <2> QED BY <1>2, <1>3, <2>1, <2>2
<1>6. P = 1..k
  BY <1>2, <1>3, <1>5, FS_Subset
<1> QED BY <1>3, <1>6 DEF P

\* A sequence without its first k members.
LEMMA Suffix ==
  ASSUME NEW n \in Nat, NEW k \in Nat, k <= n, NEW s, \A i \in 1..n : s[i] \in Nat
  PROVE  /\ Len(SubSeq(s, k + 1, n)) = n - k
         /\ \A i \in 1..(n - k) : SubSeq(s, k + 1, n)[i] = s[i + k]
<1> DEFINE p == SubSeq(s, k + 1, n)
<1>1. k + 1 \in Int /\ n \in Int /\ \A i \in (k + 1)..n : s[i] \in Nat
  OBVIOUS
<1>2. /\ Len(p) = IF k + 1 <= n THEN n - (k + 1) + 1 ELSE 0
      /\ \A i \in 1..(n - (k + 1) + 1) : p[i] = s[(k + 1) + i - 1]
  BY <1>1, SubSeqProperties
<1> HIDE DEF p
<1>3. Len(p) = IF k + 1 <= n THEN n - (k + 1) + 1 ELSE 0
  BY <1>2
<1>4. n - (k + 1) + 1 = n - k
  OBVIOUS
<1>5. Len(p) = n - k
  BY <1>3
<1>6. ASSUME NEW i \in 1..(n - k) PROVE p[i] = s[i + k]
  <2>1. (k + 1) + i - 1 = i + k
    OBVIOUS
  <2>2. i \in 1..(n - (k + 1) + 1)
    BY <1>4
  <2> QED BY <1>2, <2>1, <2>2
<1> QED BY <1>5, <1>6 DEF p

\* What pruning leaves is the end of the sequence, from the first sample on that is not stale.
LEMMA PrunedIsEnd ==
  ASSUME NEW s \in Seq(0..MaxTime), NEW t \in Nat
  PROVE  \E k \in Nat :
           /\ k <= Len(s) /\ Len(Pruned(s, t)) = Len(s) - k
           /\ \A i \in 1..(Len(s) - k) : Pruned(s, t)[i] = s[i + k]
           /\ \A j \in 1..k : s[j] + Window < t
           /\ k < Len(s) => s[k + 1] + Window >= t
<1>1. PICK n \in Nat : n = Len(s)
  OBVIOUS
<1>2. \A i \in 1..n : s[i] \in Nat
  BY <1>1, HandlingAssumption
<1>3. PICK k \in Nat : /\ k <= n /\ k = Cardinality(StalePrefix(s, t))
                       /\ StalePrefix(s, t) = 1..k
  BY <1>1, StalePrefixIsInterval
<1>4. Pruned(s, t) = SubSeq(s, k + 1, n)
  BY <1>1, <1>3 DEF Pruned
<1>5. /\ Len(SubSeq(s, k + 1, n)) = n - k
      /\ \A i \in 1..(n - k) : SubSeq(s, k + 1, n)[i] = s[i + k]
  BY <1>2, <1>3, Suffix
<1>6. \A j \in 1..k : s[j] + Window < t
  BY <1>3 DEF StalePrefix
<1>7. ASSUME k < n PROVE s[k + 1] + Window >= t
  <2>1. k + 1 \in 1..n /\ k + 1 \notin StalePrefix(s, t)
    <3>1. k \in Nat /\ n \in Nat /\ StalePrefix(s, t) = 1..k
      BY <1>3
    <3>2. k + 1 \in 1..n /\ k + 1 \notin 1..k
      BY <1>7, <3>1
    <3> QED BY <3>1, <3>2, Zenon
  <2>2. PICK j \in 1..(k + 1) : ~(s[j] + Window < t)
    BY <1>1, <2>1 DEF StalePrefix
  <2>3. j = k + 1 /\ s[j] \in Nat
    BY <1>2, <1>3, <1>6, <2>1, <2>2
  <2> QED BY <2>2, <2>3, HandlingAssumption
<1>8. /\ k <= n /\ Len(Pruned(s, t)) = n - k
      /\ \A i \in 1..(n - k) : Pruned(s, t)[i] = s[i + k]
      /\ \A j \in 1..k : s[j] + Window < t
      /\ k < n => s[k + 1] + Window >= t
  BY <1>3, <1>4, <1>5, <1>6, <1>7, Zenon
<1> QED BY <1>1, <1>8, Zenon

\* Pruning by a time that is past takes no sample that is within the window.
LEMMA PruningKeepsYoung ==
  ASSUME NEW s \in Seq(0..MaxTime), NEW t \in Nat, NEW u \in Nat, t <= u
  PROVE  Cardinality(Young(Pruned(s, t), u)) = Cardinality(Young(s, u))
<1>1. PICK n \in Nat : n = Len(s)
  OBVIOUS
<1>2. \A i \in 1..n : s[i] \in Nat
  BY <1>1, HandlingAssumption
<1> DEFINE p == Pruned(s, t)
<1>3. PICK k \in Nat : /\ k <= n /\ Len(p) = n - k /\ \A i \in 1..(n - k) : p[i] = s[i + k]
                       /\ \A i \in 1..k : s[i] + Window < t
  BY <1>1, PrunedIsEnd, Zenon
<1> HIDE DEF p
<1>6. Young(s, u) = {j \in 1..n : s[j] + Window >= u}
  BY <1>1 DEF Young
<1>7. Young(p, u) = {i \in 1..(n - k) : s[i + k] + Window >= u}
  BY <1>3 DEF Young
<1>8. \A j \in Young(s, u) : j > k
  <2>1. \A i \in 1..k : s[i] + Window < t
    BY <1>3
  <2>2. SUFFICES ASSUME NEW j \in Young(s, u), ~(j > k) PROVE FALSE
    OBVIOUS
  <2>3. j \in 1..n /\ j \in 1..k /\ s[j] + Window >= u
    BY <1>1, <1>3, <1>6, <2>2
  <2>4. s[j] + Window < t /\ s[j] \in Nat
    BY <1>2, <2>1, <2>3
  <2> QED BY <2>3, <2>4, HandlingAssumption
<1> DEFINE f == [i \in Young(p, u) |-> i + k]
<1>9. f \in Bijection(Young(p, u), Young(s, u))
  <2>1. ASSUME NEW i \in Young(p, u) PROVE i \in Nat /\ i + k \in Young(s, u)
    <3>1. i \in 1..(n - k) /\ s[i + k] + Window >= u
      BY <1>7
    <3>2. i \in Nat /\ i + k \in 1..n
      BY <1>3, <3>1
    <3> QED BY <1>6, <3>1, <3>2
  <2>2. ASSUME NEW j \in Young(s, u) PROVE j - k \in Young(p, u) /\ (j - k) + k = j
    <3>1. j \in 1..n /\ j > k /\ s[j] + Window >= u
      BY <1>6, <1>8
    <3>2. j - k \in 1..(n - k) /\ (j - k) + k = j
      BY <1>3, <3>1
    <3> QED BY <1>7, <3>1, <3>2
  <2>3. f \in [Young(p, u) -> Young(s, u)]
    BY <2>1
  <2>4. f \in Injection(Young(p, u), Young(s, u))
    BY <2>1, <2>3 DEF Injection, IsInjective
  <2>5. f \in Surjection(Young(p, u), Young(s, u))
    BY <2>2, <2>3 DEF Surjection
  <2> QED BY <2>4, <2>5 DEF Bijection
<1>10. IsFiniteSet(Young(p, u))
  <2>1. n - k \in Nat
    BY <1>3
  <2>3. Young(p, u) \subseteq 1..(n - k)
    BY <1>7
  <2>2. IsFiniteSet(1..(n - k))
    BY <2>1, FS_Interval
  <2> QED BY <2>2, <2>3, FS_Subset
<1>11. ExistsBijection(Young(p, u), Young(s, u))
  BY <1>9 DEF ExistsBijection
<1> QED BY <1>10, <1>11, FS_Bijection DEF p

\* A sample that is pushed is one more if it is within the window.
LEMMA PushingAddsYoung ==
  ASSUME NEW s \in Seq(0..MaxTime), NEW t \in 0..MaxTime, NEW u \in Nat
  PROVE  Cardinality(Young(Append(s, t), u)) =
           Cardinality(Young(s, u)) + (IF t + Window >= u THEN 1 ELSE 0)
<1>1. /\ Len(s) \in Nat /\ Len(Append(s, t)) = Len(s) + 1
      /\ \A i \in 1..Len(s) : Append(s, t)[i] = s[i]
      /\ Append(s, t)[Len(s) + 1] = t
  OBVIOUS
<1>2. Young(Append(s, t), u) =
        IF t + Window >= u THEN Young(s, u) \cup {Len(s) + 1} ELSE Young(s, u)
  BY <1>1 DEF Young
<1>3. IsFiniteSet(Young(s, u)) /\ Len(s) + 1 \notin Young(s, u)
  <2>1. IsFiniteSet(1..Len(s)) /\ Young(s, u) \subseteq 1..Len(s)
    BY <1>1, FS_Interval DEF Young
  <2> QED BY <1>1, <2>1, FS_Subset
<1>4. Cardinality(Young(s, u)) \in Nat
  BY <1>3, FS_CardinalityType
<1>5. CASE t + Window >= u
  BY <1>2, <1>3, <1>5, Enters
<1>6. CASE ~(t + Window >= u)
  BY <1>2, <1>4, <1>6
<1> QED BY <1>5, <1>6

\* The set Completed counts changes by the client that pushes its sample.
LEMMA CompletedFinite == \A u : IsFiniteSet(Completed(u)) /\ Cardinality(Completed(u)) \in Nat
<1> SUFFICES ASSUME NEW u
             PROVE  IsFiniteSet(Completed(u)) /\ Cardinality(Completed(u)) \in Nat
  OBVIOUS
<1>1. Completed(u) \subseteq Clients
  BY DEF Completed, PastPush, PastCount, PastOpen, Recorded
<1> QED BY <1>1, FS_Subset, FS_CardinalityType, HandlingAssumption

\* The times a step reads are times of the clock.
LEMMA NextReadings ==
  ASSUME HandlingInv, ReadingsArePast, [Next]_vars
  PROVE  ReadingsArePast' /\ clock' \in Nat /\ clock' >= clock
<1> USE HandlingAssumption DEF At, GoTo, Load, metrics, cache, request
<1>1. /\ clock \in Nat /\ peeks \subseteq Nat
      /\ stamp \in [Clients -> Nat]
      /\ seen \in [Clients -> [hits : Nat, misses : Nat, now : Nat, val : Nat]]
  BY DEF HandlingInv, TypeOK
<1>2. ASSUME NEW c \in Clients, Begin(c) \/ Handle(c)
      PROVE  /\ clock' = clock /\ peeks' = peeks
             /\ \A d \in Clients : stamp'[d] \in {stamp[d], clock}
  BY <1>1, <1>2 DEF Handle, Begin, ReadInternal, ReadClient, ConnectionOpened, Serve,
                    ServeMiss, CountRequest, ReadNow, PushSample, RecordLookup, SnapHits,
                    SnapMisses, SnapNow, SnapPrune, AdjustWeights, LoadMemory, StoreMemory,
                    CloseLoad, CloseCas
<1>3. ASSUME NEW c \in Clients, Begin(c) \/ Handle(c)
      PROVE  \A d \in Clients : seen'[d].now \in {seen[d].now, clock, 0}
  BY <1>1, <1>3 DEF Handle, Begin, ReadInternal, ReadClient, ConnectionOpened, Serve,
                    ServeMiss, CountRequest, ReadNow, PushSample, RecordLookup, SnapHits,
                    SnapMisses, SnapNow, SnapPrune, AdjustWeights, LoadMemory, StoreMemory,
                    CloseLoad, CloseCas, Unseen
<1>4. ASSUME NEW c \in Clients, Begin(c) \/ Handle(c)
      PROVE  ReadingsArePast' /\ clock' \in Nat /\ clock' >= clock
  <2>1. clock' = clock /\ peeks' = peeks
    BY <1>2, <1>4
  <2>2. ASSUME NEW d \in Clients PROVE stamp'[d] <= clock /\ seen'[d].now <= clock
    <3>1. stamp'[d] \in {stamp[d], clock} /\ seen'[d].now \in {seen[d].now, clock, 0}
      BY <1>2, <1>3, <1>4
    <3>2. stamp[d] <= clock /\ seen[d].now <= clock
      BY DEF ReadingsArePast
    <3> QED BY <1>1, <3>1, <3>2
  <2> QED BY <1>1, <2>1, <2>2 DEF ReadingsArePast
<1>5. CASE PeekNow \/ (\E t \in peeks : PeekPrune(t)) \/ Tick \/ UNCHANGED vars
  <2>1. /\ UNCHANGED <<stamp, seen>>
        /\ clock' \in {clock, clock + 1}
        /\ peeks' \subseteq peeks \cup {clock}
    BY <1>5 DEF PeekNow, PeekPrune, Tick, vars
  <2> QED BY <1>1, <2>1 DEF ReadingsArePast
<1> QED BY <1>4, <1>5 DEF Next

\* The steps that neither push nor complete.
LEMMA QuietKeepsRecent ==
  ASSUME HandlingInv, AllRecentKept, UNCHANGED samples, UNCHANGED PastPush,
         \A c \in PastPush : stamp'[c] = stamp[c],
         clock' \in Nat, clock' >= clock
  PROVE  AllRecentKept'
<1> SUFFICES ASSUME NEW u \in Nat, u >= clock'
             PROVE  Cardinality(Young(samples', u)) = Cardinality(Completed(u)')
  BY DEF AllRecentKept, Young
<1>1. Completed(u)' = Completed(u)
  BY DEF Completed
<1>2. u >= clock
  BY DEF HandlingInv, TypeOK
<1> QED BY <1>1, <1>2 DEF AllRecentKept

\* The steps that prune by a time that is past.
LEMMA PruneKeepsRecent ==
  ASSUME HandlingInv, AllRecentKept, UNCHANGED <<PastPush, stamp, clock>>,
         NEW t \in 0..MaxTime, t <= clock, samples' = Pruned(samples, t)
  PROVE  AllRecentKept'
<1> SUFFICES ASSUME NEW u \in Nat, u >= clock'
             PROVE  Cardinality(Young(samples', u)) = Cardinality(Completed(u)')
  BY DEF AllRecentKept, Young
<1>1. Completed(u)' = Completed(u)
  BY DEF Completed
<1>2. t \in Nat /\ t <= u /\ u >= clock /\ samples \in Seq(0..MaxTime)
  BY HandlingAssumption DEF HandlingInv, TypeOK
<1>3. Cardinality(Young(Pruned(samples, t), u)) = Cardinality(Young(samples, u))
  BY <1>2, PruningKeepsYoung
<1> QED BY <1>1, <1>2, <1>3 DEF AllRecentKept

\* A push adds the client and its sample, and prunes by a time that is past.
LEMMA PushKeepsRecent ==
  ASSUME HandlingInv, RateInv, NEW c \in Clients, PushSample(c)
  PROVE  AllRecentKept'
<1> SUFFICES ASSUME NEW u \in Nat, u >= clock'
             PROVE  Cardinality(Young(samples', u)) = Cardinality(Completed(u)')
  BY DEF AllRecentKept, Young
<1> DEFINE more == IF stamp[c] + Window >= u THEN 1 ELSE 0
           pushed == Append(samples, stamp[c])
<1>1. /\ stamp[c] \in 0..MaxTime /\ stamp[c] \in Nat /\ stamp[c] <= u /\ u >= clock
      /\ samples \in Seq(0..MaxTime) /\ pushed \in Seq(0..MaxTime)
  BY HandlingAssumption DEF HandlingInv, TypeOK, PushSample, RateInv, ReadingsArePast
<1>2. samples' = Pruned(pushed, stamp[c])
  BY DEF PushSample
<1>3. Cardinality(Young(pushed, u)) = Cardinality(Young(samples, u)) + more
  BY <1>1, PushingAddsYoung
<1> HIDE DEF pushed
<1>4. Cardinality(Young(samples', u)) = Cardinality(Young(pushed, u))
  BY <1>1, <1>2, PruningKeepsYoung
<1>5. c \notin PastPush /\ PastPush' = PastPush \cup {c} /\ stamp' = stamp
  BY DEF PushSample, At, GoTo, HandlingInv, TypeOK, KindOfStage, PastPush, PastCount,
         PastOpen, Recorded, Completing, Adjusting, Serving, BeforeOpen, request
<1>6. Cardinality(Completed(u)') = Cardinality(Completed(u)) + more
  <2>1. CASE stamp[c] + Window >= u
    <3>1. Completed(u)' = Completed(u) \cup {c} /\ c \notin Completed(u)
      BY <1>5, <2>1 DEF Completed
    <3> QED BY <2>1, <3>1, CompletedFinite, Enters
  <2>2. CASE ~(stamp[c] + Window >= u)
    <3>1. Completed(u)' = Completed(u)
      BY <1>5, <2>2 DEF Completed
    <3> QED BY <2>2, <3>1, CompletedFinite
  <2> QED BY <2>1, <2>2
<1>7. Cardinality(Young(samples, u)) = Cardinality(Completed(u))
  BY <1>1 DEF RateInv, AllRecentKept
<1> QED BY <1>3, <1>4, <1>6, <1>7

\* The other steps of a handler leave the completed requests as they are.
LEMMA HandleKeepsCompleted ==
  ASSUME HandlingInv, NEW c \in Clients, Begin(c) \/ Handle(c), ~PushSample(c)
  PROVE  /\ UNCHANGED PastPush /\ \A d \in PastPush : stamp'[d] = stamp[d]
         /\ UNCHANGED clock
         /\ samples' = samples \/ SnapPrune(c)
<1> USE DEF At, GoTo, Load, metrics, cache, request
<1>1. UNCHANGED clock /\ (samples' = samples \/ SnapPrune(c))
  BY DEF Handle, Begin, ReadInternal, ReadClient, ConnectionOpened, Serve, ServeMiss,
         CountRequest, ReadNow, RecordLookup, SnapHits, SnapMisses, SnapNow, SnapPrune,
         AdjustWeights, LoadMemory, StoreMemory, CloseLoad, CloseCas
<1>2. \A d \in Clients \ {c} : /\ pc'[d] = pc[d] /\ kind'[d] = kind[d]
                               /\ stamp'[d] = stamp[d]
  BY DEF HandlingInv, TypeOK, Handle, Begin, ReadInternal, ReadClient, ConnectionOpened,
         Serve, ServeMiss, CountRequest, ReadNow, RecordLookup, SnapHits, SnapMisses,
         SnapNow, SnapPrune, AdjustWeights, LoadMemory, StoreMemory, CloseLoad, CloseCas
<1>3. /\ c \in PastPush' <=> c \in PastPush
      /\ c \in PastPush => stamp'[c] = stamp[c]
  <2> USE DEF PastPush, PastCount, PastOpen, Recorded, BeforeOpen, Serving, HandlingInv,
              TypeOK, KindOfStage, Completing, Adjusting
  <2>1. CASE Begin(c) \/ ReadInternal(c) \/ ReadClient(c) \/ ConnectionOpened(c)
    BY <2>1 DEF Begin, ReadInternal, ReadClient, ConnectionOpened
  <2>2. CASE Serve(c) \/ ServeMiss(c) \/ CountRequest(c) \/ ReadNow(c) \/ RecordLookup(c)
    BY <2>2 DEF Serve, ServeMiss, CountRequest, ReadNow, RecordLookup
  <2>3. CASE SnapHits(c) \/ SnapMisses(c) \/ SnapNow(c) \/ SnapPrune(c) \/ AdjustWeights(c)
    BY <2>3 DEF SnapHits, SnapMisses, SnapNow, SnapPrune, AdjustWeights
  <2>4. CASE LoadMemory(c) \/ StoreMemory(c)
    BY <2>4 DEF LoadMemory, StoreMemory
  <2>5. CASE CloseLoad(c) \/ CloseCas(c)
    BY <2>5 DEF CloseLoad, CloseCas
  <2> QED BY <2>1, <2>2, <2>3, <2>4, <2>5 DEF Handle
<1>4. PastPush' = PastPush
  BY <1>2, <1>3 DEF PastPush, PastCount, PastOpen, Recorded
<1> QED BY <1>1, <1>2, <1>3, <1>4 DEF PastPush, PastCount, PastOpen, Recorded

LEMMA InitRate == Init => RateInv
<1> SUFFICES ASSUME Init PROVE RateInv
  OBVIOUS
<1>1. ReadingsArePast
  BY DEF Init, ReadingsArePast, Unseen
<1>2. ASSUME NEW u PROVE Cardinality(Young(samples, u)) = Cardinality(Completed(u))
  <2>1. Young(samples, u) = {} /\ Completed(u) = {}
    BY DEF Init, Young, Completed, PastPush, PastCount, PastOpen, Recorded
  <2> QED BY <2>1
<1> QED BY <1>1, <1>2 DEF RateInv, AllRecentKept

LEMMA NextRate == HandlingInv /\ RateInv /\ [Next]_vars => RateInv'
<1> SUFFICES ASSUME HandlingInv, RateInv, [Next]_vars PROVE RateInv'
  OBVIOUS
<1>1. ReadingsArePast' /\ clock' \in Nat /\ clock' >= clock
  BY NextReadings DEF RateInv
<1>2. ASSUME NEW c \in Clients, PushSample(c) PROVE AllRecentKept'
  BY <1>2, PushKeepsRecent
<1>3. ASSUME NEW c \in Clients, Begin(c) \/ Handle(c), ~PushSample(c)
      PROVE  AllRecentKept'
  <2>1. CASE SnapPrune(c)
    <3>1. seen[c].now \in 0..MaxTime /\ seen[c].now <= clock
      BY DEF HandlingInv, TypeOK, RateInv, ReadingsArePast
    <3>2. UNCHANGED <<PastPush, stamp, clock>> /\ samples' = Pruned(samples, seen[c].now)
      BY <1>3, <2>1, HandleKeepsCompleted DEF SnapPrune, request
    <3> QED BY <3>1, <3>2, PruneKeepsRecent DEF RateInv
  <2>2. CASE ~SnapPrune(c)
    BY <1>1, <1>3, <2>2, HandleKeepsCompleted, QuietKeepsRecent DEF RateInv
  <2> QED BY <2>1, <2>2
<1>4. ASSUME NEW t \in peeks, PeekPrune(t) PROVE AllRecentKept'
  <2>1. t \in 0..MaxTime /\ t <= clock
    BY DEF HandlingInv, TypeOK, RateInv, ReadingsArePast
  <2>2. UNCHANGED <<PastPush, stamp, clock>> /\ samples' = Pruned(samples, t)
    BY <1>4 DEF PeekPrune, request, PastPush, PastCount, PastOpen, Recorded
  <2> QED BY <2>1, <2>2, PruneKeepsRecent DEF RateInv
<1>5. ASSUME NEW c \in Clients, Begin(c) \/ Handle(c) PROVE AllRecentKept'
  BY <1>2, <1>3, <1>5
<1>6. ASSUME PeekNow \/ Tick \/ UNCHANGED vars PROVE AllRecentKept'
  <2>1. UNCHANGED <<samples, PastPush, stamp>>
    BY <1>6 DEF PeekNow, Tick, vars, metrics, request, PastPush, PastCount, PastOpen,
                Recorded
  <2> QED BY <1>1, <2>1, QuietKeepsRecent DEF RateInv
<1>7. AllRecentKept'
  BY <1>4, <1>5, <1>6 DEF Next
<1> QED BY <1>1, <1>7 DEF RateInv

\* No request completed within the last second is missing from the request rate, and
\* none counts twice: however late a reading of the clock comes to rps_mutex_, it
\* prunes by a time that is past, and so nothing that is still within the window.
THEOREM RecentRequestsStayCounted == Spec => []RecentRequestsKept
<1>1. Spec => []RateInv
  BY InitRate, NextRate, HandlingInvariant, PTL DEF Spec
<1>2. HandlingInv /\ RateInv => RecentRequestsKept
  <2> SUFFICES ASSUME HandlingInv, RateInv PROVE RecentRequestsKept
    OBVIOUS
  <2>1. clock \in Nat /\ DOMAIN samples = 1..Len(samples)
    BY HandlingAssumption DEF HandlingInv, TypeOK
  <2>2. Cardinality(Young(samples, clock)) = Cardinality(Completed(clock))
    BY <2>1 DEF RateInv, AllRecentKept
  <2> QED BY <2>1, <2>2 DEF Young, Completed, RecentRequestsKept
<1> QED BY <1>1, <1>2, HandlingInvariant, PTL
------------------------------------------------------------------------------
(* Few requests are counted too long *)

\* The samples behind the i-th that are older than it, and the handlers that are about to
\* push a sample older than x.
Behind(s, i) == {j \in 1..Len(s) : i < j /\ s[j] < s[i]}
Late(x) == {c \in Clients : pc[c] = "push" /\ stamp[c] < x}

\* The inductive invariant: each sample that was pushed behind a younger one came from a
\* handler that had read its time before, and there are no more such handlers than worker
\* threads other than the one that pushed the younger sample.
BehindAndLate ==
  \A i \in 1..Len(samples) :
    /\ samples[i] <= clock
    /\ Cardinality(Behind(samples, i)) + Cardinality(Late(samples[i])) < MaxHandlers

LEMMA BehindFinite ==
  ASSUME NEW s \in Seq(0..MaxTime), NEW i
  PROVE  IsFiniteSet(Behind(s, i)) /\ Cardinality(Behind(s, i)) \in Nat
<1>1. IsFiniteSet(1..Len(s)) /\ Behind(s, i) \subseteq 1..Len(s)
  BY FS_Interval DEF Behind
<1> QED BY <1>1, FS_Subset, FS_CardinalityType

LEMMA LateFinite == \A x : IsFiniteSet(Late(x)) /\ Cardinality(Late(x)) \in Nat
<1> SUFFICES ASSUME NEW x PROVE IsFiniteSet(Late(x)) /\ Cardinality(Late(x)) \in Nat
  OBVIOUS
<1>1. Late(x) \subseteq Clients
  BY DEF Late
<1> QED BY <1>1, FS_Subset, FS_CardinalityType, HandlingAssumption

\* A sample that pruning leaves has no more older ones behind it than before.
LEMMA PruningKeepsBehind ==
  ASSUME NEW s \in Seq(0..MaxTime), NEW t \in Nat, NEW i \in 1..Len(Pruned(s, t))
  PROVE  \E j \in 1..Len(s) :
           /\ Pruned(s, t)[i] = s[j]
           /\ Cardinality(Behind(Pruned(s, t), i)) <= Cardinality(Behind(s, j))
<1> DEFINE p == Pruned(s, t)
<1>1. PICK n \in Nat : n = Len(s)
  OBVIOUS
<1>2. PICK k \in Nat : k <= n /\ Len(p) = n - k /\ \A m \in 1..(n - k) : p[m] = s[m + k]
  BY <1>1, PrunedIsEnd, Zenon
<1>3. i \in 1..Len(p)
  OBVIOUS
<1> HIDE DEF p
<1>4. i \in 1..(n - k) /\ i + k \in 1..n /\ p[i] = s[i + k]
  BY <1>2, <1>3
<1> DEFINE f == [m \in Behind(p, i) |-> m + k]
<1>5. ASSUME NEW m \in Behind(p, i) PROVE m \in Nat /\ m + k \in Behind(s, i + k)
  <2>1. m \in 1..(n - k) /\ i < m /\ p[m] < p[i]
    BY <1>2 DEF Behind
  <2>2. p[m] = s[m + k]
    BY <1>2, <2>1
  <2>3. m + k \in 1..n /\ i + k < m + k /\ m \in Nat
    BY <1>2, <1>4, <2>1
  <2> QED BY <1>1, <1>4, <2>1, <2>2, <2>3 DEF Behind
<1>6. f \in [Behind(p, i) -> Behind(s, i + k)]
  BY <1>5
<1>7. \A a, b \in Behind(p, i) : f[a] = f[b] => a = b
  BY <1>2, <1>5
<1> HIDE DEF f
<1>8. f \in Injection(Behind(p, i), Behind(s, i + k))
  BY <1>6, <1>7 DEF Injection, IsInjective
<1>9. Cardinality(Behind(p, i)) <= Cardinality(Behind(s, i + k))
  BY <1>8, BehindFinite, FS_Injection
<1> QED BY <1>1, <1>4, <1>9 DEF p

\* A sample that is pushed is behind every one that is younger.
LEMMA PushingAddsBehind ==
  ASSUME NEW s \in Seq(0..MaxTime), NEW t \in 0..MaxTime
  PROVE  /\ \A i \in 1..Len(s) :
              Cardinality(Behind(Append(s, t), i)) =
                Cardinality(Behind(s, i)) + (IF t < s[i] THEN 1 ELSE 0)
         /\ Cardinality(Behind(Append(s, t), Len(s) + 1)) = 0
<1>1. /\ Len(s) \in Nat /\ Len(Append(s, t)) = Len(s) + 1
      /\ \A i \in 1..Len(s) : Append(s, t)[i] = s[i]
      /\ Append(s, t)[Len(s) + 1] = t
  OBVIOUS
<1>2. ASSUME NEW i \in 1..Len(s)
      PROVE  Cardinality(Behind(Append(s, t), i)) =
               Cardinality(Behind(s, i)) + (IF t < s[i] THEN 1 ELSE 0)
  <2>1. Behind(Append(s, t), i) =
          IF t < s[i] THEN Behind(s, i) \cup {Len(s) + 1} ELSE Behind(s, i)
    BY <1>1 DEF Behind
  <2>2. Len(s) + 1 \notin Behind(s, i)
    BY <1>1 DEF Behind
  <2>3. CASE t < s[i]
    BY <2>1, <2>2, <2>3, BehindFinite, Enters
  <2>4. CASE ~(t < s[i])
    BY <2>1, <2>4, BehindFinite
  <2> QED BY <2>3, <2>4
<1>3. Behind(Append(s, t), Len(s) + 1) = {}
  BY <1>1 DEF Behind
<1> QED BY <1>2, <1>3, FS_EmptySet

\* A push: its client is no longer late for the samples the new one is behind; the new
\* sample has nothing behind it, and only the other handlers can still be late for it.
LEMMA PushKeepsFew ==
  ASSUME HandlingInv, PoolBound, BehindAndLate, ReadingsArePast,
         NEW c \in Clients, PushSample(c)
  PROVE  BehindAndLate'
<1> DEFINE pushed == Append(samples, stamp[c])
<1>1. /\ stamp[c] \in 0..MaxTime /\ stamp[c] \in Nat /\ samples \in Seq(0..MaxTime)
      /\ stamp[c] <= clock /\ clock' = clock /\ clock \in Nat /\ stamp' = stamp
      /\ pushed \in Seq(0..MaxTime) /\ samples' = Pruned(pushed, stamp[c])
  BY HandlingAssumption DEF HandlingInv, TypeOK, PushSample, ReadingsArePast, request
<1>2. /\ Len(samples) \in Nat /\ Len(pushed) = Len(samples) + 1
      /\ \A i \in 1..Len(samples) : pushed[i] = samples[i]
      /\ pushed[Len(samples) + 1] = stamp[c]
  BY <1>1
<1>3. /\ \A i \in 1..Len(samples) :
           Cardinality(Behind(pushed, i)) =
             Cardinality(Behind(samples, i)) + (IF stamp[c] < samples[i] THEN 1 ELSE 0)
      /\ Cardinality(Behind(pushed, Len(samples) + 1)) = 0
  BY <1>1, PushingAddsBehind
<1> HIDE DEF pushed
<1>4. pc[c] = "push" /\ pc'[c] # "push" /\ \A d \in Clients \ {c} : pc'[d] = pc[d]
  BY DEF PushSample, At, GoTo, HandlingInv, TypeOK
<1>5. \A x : Late(x)' = Late(x) \ {c}
  BY <1>1, <1>4 DEF Late
<1>6. ASSUME NEW j \in 1..Len(pushed), NEW x, x = pushed[j]
      PROVE  /\ x <= clock
             /\ Cardinality(Behind(pushed, j)) + Cardinality(Late(x)') < MaxHandlers
  <2>1. CASE j \in 1..Len(samples)
    <3>1. /\ x <= clock /\ x \in Nat /\ x = samples[j]
          /\ Cardinality(Behind(samples, j)) + Cardinality(Late(x)) < MaxHandlers
      BY <1>1, <1>2, <1>6, <2>1, HandlingAssumption DEF BehindAndLate
    <3>2. CASE stamp[c] < x
      <4>1. c \in Late(x)
        BY <1>4, <3>2 DEF Late
      <4>2. Cardinality(Late(x)') = Cardinality(Late(x)) - 1
        BY <1>5, <4>1, LateFinite, Leaves
      <4>3. Cardinality(Behind(pushed, j)) = Cardinality(Behind(samples, j)) + 1
        BY <1>3, <2>1, <3>1, <3>2
      <4> QED BY <1>1, <3>1, <4>2, <4>3, LateFinite, BehindFinite, HandlingAssumption
    <3>3. CASE ~(stamp[c] < x)
      <4>1. Late(x)' = Late(x)
        BY <1>5, <3>3 DEF Late
      <4>2. Cardinality(Behind(pushed, j)) = Cardinality(Behind(samples, j))
        BY <1>1, <1>3, <2>1, <3>1, <3>3, BehindFinite
      <4> QED BY <3>1, <4>1, <4>2
    <3> QED BY <3>2, <3>3
  <2>2. CASE j = Len(samples) + 1
    <3>1. x = stamp[c] /\ Cardinality(Behind(pushed, j)) = 0
      BY <1>2, <1>3, <1>6, <2>2
    <3>2. Late(x)' \subseteq Handled \ {c} /\ c \in Handled /\ Handled \subseteq Clients
      BY <1>4, <1>5 DEF Late, Handled
    <3>3. IsFiniteSet(Handled) /\ Cardinality(Handled) \in Nat
      BY <3>2, FS_Subset, FS_CardinalityType, HandlingAssumption
    <3>4. /\ IsFiniteSet(Handled \ {c})
          /\ Cardinality(Handled \ {c}) = Cardinality(Handled) - 1
      BY <3>2, <3>3, FS_RemoveElement
    <3>5. Cardinality(Late(x)') \in Nat /\ Cardinality(Late(x)') <= Cardinality(Handled) - 1
      BY <3>2, <3>4, FS_Subset, FS_CardinalityType
    <3> QED BY <1>1, <3>1, <3>3, <3>5, HandlingAssumption DEF PoolBound
  <2> QED BY <1>2, <2>1, <2>2
<1>7. ASSUME NEW i \in 1..Len(samples'), NEW x, x = samples'[i]
      PROVE  /\ x <= clock'
             /\ Cardinality(Behind(samples', i)) + Cardinality(Late(x)') < MaxHandlers
  <2>1. PICK j \in 1..Len(pushed) :
          /\ x = pushed[j]
          /\ Cardinality(Behind(samples', i)) <= Cardinality(Behind(pushed, j))
    BY <1>1, <1>7, PruningKeepsBehind
  <2>2. samples' \in Seq(0..MaxTime)
    BY <1>1, PrunedType
  <2>3. Cardinality(Late(x)') \in Nat
    BY <1>5, LateFinite, FS_RemoveElement, FS_CardinalityType
  <2>4. /\ Cardinality(Behind(samples', i)) \in Nat
        /\ Cardinality(Behind(pushed, j)) \in Nat
    BY <1>1, <2>2, BehindFinite
  <2> QED BY <1>1, <1>6, <2>1, <2>3, <2>4, HandlingAssumption
<1> QED BY <1>7 DEF BehindAndLate, Behind, Late

\* No step makes anybody late for a sample, because a time that is read now is no older
\* than any that was read before.
LEMMA NobodyBecomesLate ==
  ASSUME HandlingInv, NEW x \in Nat, x <= clock, [Next]_vars
  PROVE  Late(x)' \subseteq Late(x)
<1> USE DEF At, GoTo, Load, metrics, cache, request
<1>1. /\ pc \in [Clients -> Stages] /\ stamp \in [Clients -> 0..MaxTime]
      /\ lookup \in [Clients -> {"none", "hit", "miss"}] /\ clock \in Nat
  BY HandlingAssumption DEF HandlingInv, TypeOK
<1>2. ASSUME NEW c \in Clients, Begin(c) \/ Handle(c)
      PROVE  Late(x)' \subseteq Late(x)
  <2>1. \A d \in Clients \ {c} : pc'[d] = pc[d] /\ stamp'[d] = stamp[d]
    BY <1>1, <1>2 DEF Handle, Begin, ReadInternal, ReadClient, ConnectionOpened, Serve,
         ServeMiss, CountRequest, ReadNow, PushSample, RecordLookup, SnapHits, SnapMisses,
         SnapNow, SnapPrune, AdjustWeights, LoadMemory, StoreMemory, CloseLoad, CloseCas
  <2>2. pc'[c] = "push" => stamp'[c] = clock
    BY <1>1, <1>2 DEF Handle, Begin, ReadInternal, ReadClient, ConnectionOpened, Serve,
         ServeMiss, CountRequest, ReadNow, PushSample, RecordLookup, SnapHits, SnapMisses,
         SnapNow, SnapPrune, AdjustWeights, LoadMemory, StoreMemory, CloseLoad, CloseCas
  <2>3. c \notin Late(x)'
    BY <1>1, <2>2 DEF Late
  <2> QED BY <2>1, <2>3 DEF Late
<1>3. CASE PeekNow \/ (\E t \in peeks : PeekPrune(t)) \/ Tick \/ UNCHANGED vars
  BY <1>3 DEF PeekNow, PeekPrune, Tick, vars, Late
<1> QED BY <1>2, <1>3 DEF Next

\* The other steps leave the samples, or prune them.
LEMMA OthersKeepFew ==
  ASSUME HandlingInv, BehindAndLate, ReadingsArePast, [Next]_vars,
         \A c \in Clients : ~PushSample(c)
  PROVE  BehindAndLate'
<1>1. /\ samples \in Seq(0..MaxTime) /\ clock \in Nat /\ clock' \in Nat /\ clock' >= clock
      /\ \A i \in 1..Len(samples) : samples[i] \in Nat
  BY NextReadings, HandlingAssumption DEF HandlingInv, TypeOK
<1>2. samples' = samples \/ \E t \in Nat : samples' = Pruned(samples, t)
  <2>1. ASSUME NEW c \in Clients, Begin(c) \/ Handle(c)
        PROVE  samples' = samples \/ \E t \in Nat : samples' = Pruned(samples, t)
    <3>1. samples' = samples \/ SnapPrune(c)
      BY <2>1, HandleKeepsCompleted
    <3>2. seen[c].now \in Nat
      BY HandlingAssumption DEF HandlingInv, TypeOK
    <3> QED BY <3>1, <3>2 DEF SnapPrune
  <2>2. ASSUME NEW t \in peeks, PeekPrune(t)
        PROVE  \E u \in Nat : samples' = Pruned(samples, u)
    BY <2>2, HandlingAssumption DEF HandlingInv, TypeOK, PeekPrune
  <2>3. CASE PeekNow \/ Tick \/ UNCHANGED vars
    BY <2>3 DEF PeekNow, Tick, vars, metrics
  <2> QED BY <2>1, <2>2, <2>3 DEF Next
<1>3. ASSUME NEW i \in 1..Len(samples'), NEW x, x = samples'[i]
      PROVE  /\ x <= clock'
             /\ Cardinality(Behind(samples', i)) + Cardinality(Late(x)') < MaxHandlers
  <2>1. PICK j \in 1..Len(samples) :
          /\ x = samples[j]
          /\ Cardinality(Behind(samples', i)) <= Cardinality(Behind(samples, j))
    <3>1. CASE samples' = samples
      BY <1>1, <1>3, <3>1, BehindFinite
    <3>2. CASE \E t \in Nat : samples' = Pruned(samples, t)
      BY <1>1, <1>3, <3>2, PruningKeepsBehind
    <3> QED BY <1>2, <3>1, <3>2
  <2>2. /\ x \in Nat /\ x <= clock
        /\ Cardinality(Behind(samples, j)) + Cardinality(Late(x)) < MaxHandlers
    BY <1>1, <2>1 DEF BehindAndLate
  <2>3. samples' \in Seq(0..MaxTime)
    BY <1>1, <1>2, PrunedType
  <2>4. /\ Cardinality(Behind(samples', i)) \in Nat
        /\ Cardinality(Behind(samples, j)) \in Nat
    BY <1>1, <2>3, BehindFinite
  <2>5. Late(x)' \subseteq Late(x)
    BY <2>2, NobodyBecomesLate
  <2>6. Cardinality(Late(x)') \in Nat /\ Cardinality(Late(x)') <= Cardinality(Late(x))
    BY <2>5, LateFinite, FS_Subset, FS_CardinalityType
  <2>7. Cardinality(Late(x)) \in Nat
    BY LateFinite
  <2>8. x <= clock'
    BY <1>1, <2>2
  <2>9. Cardinality(Behind(samples', i)) + Cardinality(Late(x)') < MaxHandlers
    BY <2>1, <2>2, <2>4, <2>6, <2>7, HandlingAssumption
  <2> QED BY <2>8, <2>9
<1> QED BY <1>3 DEF BehindAndLate, Behind, Late

\* What a snapshot counts too long is behind the first sample that is left.
LEMMA OldOnesAreBehind ==
  ASSUME NEW s \in Seq(0..MaxTime), NEW t \in Nat, Pruned(s, t) # <<>>
  PROVE  {i \in 1..Len(Pruned(s, t)) : Pruned(s, t)[i] + Window < t}
           \subseteq Behind(Pruned(s, t), 1)
<1> DEFINE p == Pruned(s, t)
<1>1. p \in Seq(0..MaxTime) /\ Len(p) \in Nat /\ Len(p) # 0
  BY PrunedType
<1>2. PICK k \in Nat : /\ k <= Len(s) /\ Len(p) = Len(s) - k
                       /\ \A i \in 1..(Len(s) - k) : p[i] = s[i + k]
                       /\ k < Len(s) => s[k + 1] + Window >= t
  BY PrunedIsEnd, Zenon
<1> HIDE DEF p
<1>3. \A i \in 1..Len(p) : p[i] \in Nat
  BY <1>1, HandlingAssumption
<1>4. p[1] + Window >= t
  <2>1. Len(s) \in Nat /\ k < Len(s) /\ 1 \in 1..(Len(s) - k)
    BY <1>1, <1>2
  <2>2. p[1] = s[1 + k] /\ s[k + 1] + Window >= t /\ 1 + k = k + 1
    BY <1>2, <2>1
  <2> QED BY <2>2
<1>5. {i \in 1..Len(p) : p[i] + Window < t} \subseteq Behind(p, 1)
  BY <1>1, <1>3, <1>4, HandlingAssumption DEF Behind
<1> QED BY <1>5 DEF p

\* Pruning stops at the first recent sample although older ones may stand behind it, but
\* what a snapshot counts too long came from other handlers that were between reading the
\* clock and rps_mutex_ when that sample was pushed: fewer than there are worker threads.
THEOREM OldRequestsStayFew == Spec => OldRequestsAreFew
<1>1. Spec => [](HandlingInv /\ RateInv /\ PoolBound)
  BY InitRate, NextRate, InitPoolBound, NextPoolBound, HandlingInvariant, PTL DEF Spec
<1>2. Init => BehindAndLate
  BY DEF Init, BehindAndLate
<1>3. HandlingInv /\ RateInv /\ PoolBound /\ BehindAndLate /\ [Next]_vars => BehindAndLate'
  BY PushKeepsFew, OthersKeepFew DEF RateInv
<1>4. HandlingInv /\ HandlingInv' /\ BehindAndLate' /\ [Next]_vars
        => [\A t \in 0..MaxTime : CountsAt(t) =>
             Cardinality({i \in DOMAIN samples' : samples'[i] + Window < t}) < MaxHandlers]_vars
  <2> SUFFICES ASSUME HandlingInv, HandlingInv', BehindAndLate', NEW t \in 0..MaxTime, CountsAt(t)
               PROVE  Cardinality({i \in DOMAIN samples' : samples'[i] + Window < t}) < MaxHandlers
    OBVIOUS
  <2> DEFINE old == {i \in 1..Len(samples') : samples'[i] + Window < t}
  <2>1. /\ samples \in Seq(0..MaxTime) /\ samples' \in Seq(0..MaxTime)
        /\ DOMAIN samples' = 1..Len(samples') /\ t \in Nat
    BY HandlingAssumption DEF HandlingInv, TypeOK
  <2>2. samples' = Pruned(samples, t)
    BY DEF CountsAt, SnapPrune, PeekPrune
  <2>3. ASSUME samples' = <<>> PROVE Cardinality(old) < MaxHandlers
    <3>1. old = {}
      BY <2>3
    <3> HIDE DEF old
    <3> QED BY <3>1, FS_EmptySet, HandlingAssumption
  <2>4. ASSUME samples' # <<>> PROVE Cardinality(old) < MaxHandlers
    <3>1. old \subseteq Behind(samples', 1)
      BY <2>1, <2>2, <2>4, OldOnesAreBehind
    <3>2. 1 \in 1..Len(samples')
      BY <2>1, <2>4
    <3>3. PICK x : x = samples'[1]
      OBVIOUS
    <3>4. Cardinality(Behind(samples', 1)) + Cardinality(Late(x)') < MaxHandlers
      BY <3>2, <3>3 DEF BehindAndLate, Behind, Late
    <3>5. Cardinality(Late(x)') \in Nat
      <4>1. Late(x)' \subseteq Clients
        BY DEF Late
      <4> QED BY <4>1, FS_Subset, FS_CardinalityType, HandlingAssumption
    <3>6. /\ Cardinality(Behind(samples', 1)) \in Nat /\ Cardinality(old) \in Nat
          /\ Cardinality(old) <= Cardinality(Behind(samples', 1))
      BY <2>1, <3>1, BehindFinite, FS_Subset, FS_CardinalityType
    <3> HIDE DEF old
    <3> QED BY <3>4, <3>5, <3>6, HandlingAssumption
  <2>5. old = {i \in DOMAIN samples' : samples'[i] + Window < t}
    BY <2>1
  <2> QED BY <2>3, <2>4, <2>5, Zenon
<1> QED BY <1>1, <1>2, <1>3, <1>4, PTL DEF Spec, OldRequestsAreFew
------------------------------------------------------------------------------
(* The handlers count down *)

\* How many stages of a handler are left, at most.
StagesAfter(stage) ==
  CASE stage = "queued" -> 19
    [] stage = "reading" -> 18
    [] stage = "open" -> 17
    [] stage = "serve" -> 16
    [] stage = "putLoad" -> 15
    [] stage = "putStore" -> 14
    [] stage = "count" -> 13
    [] stage = "stamp" -> 12
    [] stage = "push" -> 11
    [] stage = "record" -> 10
    [] stage = "snapHits" -> 9
    [] stage = "snapMisses" -> 8
    [] stage = "snapNow" -> 7
    [] stage = "snapPrune" -> 6
    [] stage = "adjust" -> 5
    [] stage = "endLoad" -> 4
    [] stage = "endStore" -> 3
    [] stage = "closeLoad" -> 2
    [] stage = "closeCas" -> 1
    [] OTHER -> 0

\* How often the gauge can still change: each client that has not opened may open and close.
Unopened == {c \in Clients : pc[c] \in BeforeOpen}
GaugeChanges == 2 * Cardinality(Unopened) + Cardinality(Holding)

\* A handler that is about to compare a value which the gauge no longer has will try again.
Retries(c) == IF pc[c] = "closeCas" /\ seen[c].val # active THEN 1 ELSE 0

\* What is left to a handler: its stages, and a retry for every change of the gauge.
HandlerWork(c) == GaugeChanges + StagesAfter(pc[c]) + Retries(c)

\* Each of its steps leaves a handler less, each failed compare_exchange too, and nothing that
\* other handlers do adds to it.
HandlerCountsDown ==
  [][\A c \in Clients : /\ Begin(c) \/ Handle(c) => HandlerWork(c)' < HandlerWork(c)
                        /\ HandlerWork(c)' <= HandlerWork(c)]_vars

\* What a step of the handler of c does to the rest.
LEMMA HandlerStep ==
  ASSUME HandlingInv, NEW c \in Clients, Begin(c) \/ Handle(c)
  PROVE  /\ \A d \in Clients \ {c} : pc'[d] = pc[d] /\ seen'[d] = seen[d] /\ kind'[d] = kind[d]
         /\ \/ /\ active' = active
               /\ c \in Unopened' <=> c \in Unopened
               /\ c \in Holding' <=> c \in Holding
            \/ c \in Unopened /\ c \notin Unopened' /\ c \notin Holding
            \/ c \notin Unopened /\ c \notin Unopened' /\ c \in Holding /\ c \notin Holding'
         /\ \/ StagesAfter(pc'[c]) < StagesAfter(pc[c]) /\ Retries(c)' = 0
            \/ /\ StagesAfter(pc'[c]) <= StagesAfter(pc[c]) /\ active' = active
               /\ Retries(c) = 1 /\ Retries(c)' = 0
<1> USE DEF At, GoTo, Load, metrics, cache, request
<1>0. pc \in [Clients -> Stages] /\ kind \in [Clients -> {"unread", "client", "internal"}]
      /\ lookup \in [Clients -> {"none", "hit", "miss"}] /\ KindOfStage
      /\ seen \in [Clients -> [hits : Nat, misses : Nat, now : 0..MaxTime, val : Nat]]
      /\ active \in Nat
  BY DEF HandlingInv, TypeOK
<1> USE DEF KindOfStage, Unopened, Holding, PastOpen, Recorded, BeforeOpen, Serving, Completing,
            Adjusting, Closing, Stages, Unseen, StagesAfter, Retries
<1>1. CASE Begin(c)
  BY <1>1, <1>0 DEF Begin
<1>2. CASE ReadInternal(c)
  BY <1>2, <1>0 DEF ReadInternal
<1>3. CASE ReadClient(c)
  BY <1>3, <1>0 DEF ReadClient
<1>4. CASE ConnectionOpened(c)
  BY <1>4, <1>0 DEF ConnectionOpened
<1>5. CASE Serve(c)
  BY <1>5, <1>0 DEF Serve
<1>6. CASE ServeMiss(c)
  BY <1>6, <1>0 DEF ServeMiss
<1>7. CASE CountRequest(c)
  BY <1>7, <1>0 DEF CountRequest
<1>8. CASE ReadNow(c)
  BY <1>8, <1>0 DEF ReadNow
<1>9. CASE PushSample(c)
  BY <1>9, <1>0 DEF PushSample
<1>10. CASE RecordLookup(c)
  BY <1>10, <1>0 DEF RecordLookup
<1>11. CASE SnapHits(c)
  BY <1>11, <1>0 DEF SnapHits
<1>12. CASE SnapMisses(c)
  BY <1>12, <1>0 DEF SnapMisses
<1>13. CASE SnapNow(c)
  BY <1>13, <1>0 DEF SnapNow
<1>14. CASE SnapPrune(c)
  BY <1>14, <1>0 DEF SnapPrune
<1>15. CASE AdjustWeights(c)
  BY <1>15, <1>0 DEF AdjustWeights
<1>16. CASE LoadMemory(c)
  BY <1>16, <1>0 DEF LoadMemory
<1>17. CASE StoreMemory(c)
  BY <1>17, <1>0 DEF StoreMemory
<1>18. CASE CloseLoad(c)
  BY <1>18, <1>0, HolderCounts DEF CloseLoad
<1>19. CASE CloseCas(c)
  BY <1>19, <1>0 DEF CloseCas
<1> QED BY <1>1, <1>2, <1>3, <1>4, <1>5, <1>6, <1>7, <1>8, <1>9, <1>10,
          <1>11, <1>12, <1>13, <1>14, <1>15, <1>16, <1>17, <1>18, <1>19 DEF Handle
LEMMA GaugeType == /\ IsFiniteSet(Unopened) /\ IsFiniteSet(Holding)
                   /\ Cardinality(Unopened) \in Nat /\ Cardinality(Holding) \in Nat
                   /\ GaugeChanges \in Nat
<1>1. Unopened \subseteq Clients /\ Holding \subseteq Clients
  BY DEF Unopened, Holding, PastOpen, Recorded
<1>2. /\ IsFiniteSet(Unopened) /\ IsFiniteSet(Holding)
      /\ Cardinality(Unopened) \in Nat /\ Cardinality(Holding) \in Nat
  BY <1>1, FS_Subset, FS_CardinalityType, HandlingAssumption
<1> QED BY <1>2 DEF GaugeChanges

LEMMA GaugeTypeNext == GaugeChanges' \in Nat
<1>1. GaugeChanges \in Nat
  BY GaugeType
<1>2. (GaugeChanges \in Nat)'
  BY <1>1, PTL
<1> QED BY <1>2

\* The gauge cannot change for ever.
LEMMA GaugeStep ==
  ASSUME HandlingInv, NEW c \in Clients, Begin(c) \/ Handle(c)
  PROVE  /\ GaugeChanges' <= GaugeChanges
         /\ active' # active => GaugeChanges' < GaugeChanges
<1>1. /\ Unopened' = (Unopened' \cap {c}) \cup (Unopened \ {c})
      /\ Holding' = (Holding' \cap {c}) \cup (Holding \ {c})
  BY HandlerStep DEF Unopened, Holding, PastOpen, Recorded
<1>2. CASE /\ active' = active
           /\ c \in Unopened' <=> c \in Unopened
           /\ c \in Holding' <=> c \in Holding
  <2>1. Unopened' = Unopened /\ Holding' = Holding
    BY <1>1, <1>2
  <2> QED BY <1>2, <2>1, GaugeType DEF GaugeChanges
<1>3. CASE c \in Unopened /\ c \notin Unopened' /\ c \notin Holding
  <2>1. Unopened' = Unopened \ {c}
    BY <1>1, <1>3
  <2>2. Holding' = Holding \/ Holding' = Holding \cup {c}
    BY <1>1, <1>3
  <2>3. Cardinality(Unopened') = Cardinality(Unopened) - 1
    BY <1>3, <2>1, GaugeType, FS_RemoveElement
  <2>4. Cardinality(Holding') \in {Cardinality(Holding), Cardinality(Holding) + 1}
    BY <1>3, <2>2, GaugeType, FS_AddElement
  <2> QED BY <2>3, <2>4, GaugeType DEF GaugeChanges
<1>4. CASE c \notin Unopened /\ c \notin Unopened' /\ c \in Holding /\ c \notin Holding'
  <2>1. Unopened' = Unopened /\ Holding' = Holding \ {c}
    BY <1>1, <1>4
  <2>2. Cardinality(Holding') = Cardinality(Holding) - 1
    BY <1>4, <2>1, GaugeType, FS_RemoveElement
  <2> QED BY <2>1, <2>2, GaugeType DEF GaugeChanges
<1> QED BY <1>2, <1>3, <1>4, HandlerStep

LEMMA WorkStep ==
  ASSUME HandlingInv, [Next]_vars, NEW c \in Clients
  PROVE  /\ Begin(c) \/ Handle(c) => HandlerWork(c)' < HandlerWork(c)
         /\ HandlerWork(c)' <= HandlerWork(c)
<1>1. /\ GaugeChanges \in Nat /\ GaugeChanges' \in Nat
      /\ StagesAfter(pc[c]) \in Nat /\ StagesAfter(pc'[c]) \in Nat
      /\ Retries(c) \in {0, 1} /\ Retries(c)' \in {0, 1}
  BY GaugeType, GaugeTypeNext DEF StagesAfter, Retries
<1>2. CASE Begin(c) \/ Handle(c)
  <2>1. /\ GaugeChanges' <= GaugeChanges
        /\ active' # active => GaugeChanges' < GaugeChanges
    BY <1>2, GaugeStep
  <2>2. \/ StagesAfter(pc'[c]) < StagesAfter(pc[c]) /\ Retries(c)' = 0
        \/ /\ StagesAfter(pc'[c]) <= StagesAfter(pc[c]) /\ active' = active
           /\ Retries(c) = 1 /\ Retries(c)' = 0
    BY <1>2, HandlerStep
  <2> QED BY <1>1, <2>1, <2>2 DEF HandlerWork
<1>3. CASE \E d \in Clients \ {c} : Begin(d) \/ Handle(d)
  <2>1. PICK d \in Clients \ {c} : Begin(d) \/ Handle(d)
    BY <1>3
  <2>2. /\ GaugeChanges' <= GaugeChanges
        /\ active' # active => GaugeChanges' < GaugeChanges
    BY <2>1, GaugeStep
  <2>3. pc'[c] = pc[c] /\ seen'[c] = seen[c]
    BY <2>1, HandlerStep
  <2>4. active' = active => Retries(c)' = Retries(c)
    BY <2>3 DEF Retries
  <2>5. HandlerWork(c)' <= HandlerWork(c)
    BY <1>1, <2>2, <2>3, <2>4 DEF HandlerWork
  <2>6. ~(Begin(c) \/ Handle(c)) \/ HandlerWork(c)' < HandlerWork(c)
    BY <1>2
  <2> QED BY <2>5, <2>6
<1>4. CASE PeekNow \/ (\E t \in peeks : PeekPrune(t)) \/ Tick \/ UNCHANGED vars
  <2>1. UNCHANGED <<pc, seen, active, kind>>
    BY <1>4 DEF PeekNow, PeekPrune, Tick, vars, metrics, cache, request
  <2>2. /\ GaugeChanges' = GaugeChanges /\ Retries(c)' = Retries(c)
        /\ StagesAfter(pc'[c]) = StagesAfter(pc[c])
    BY <2>1 DEF GaugeChanges, Unopened, Holding, PastOpen, Recorded, Retries
  <2>3. HandlerWork(c)' <= HandlerWork(c)
    BY <1>1, <2>2 DEF HandlerWork
  <2>4. ~(Begin(c) \/ Handle(c)) \/ HandlerWork(c)' < HandlerWork(c)
    BY <1>2
  <2> QED BY <2>3, <2>4
<1> QED BY <1>2, <1>3, <1>4 DEF Next

\* However many handlers open and close connections while the compare_exchange of another one
\* fails, that one takes no more steps than it has stages and two for each connection.
THEOREM HandlersCountDown == Spec => HandlerCountsDown
<1>1. HandlingInv /\ [Next]_vars
        => [\A c \in Clients : /\ Begin(c) \/ Handle(c) => HandlerWork(c)' < HandlerWork(c)
                               /\ HandlerWork(c)' <= HandlerWork(c)]_vars
  BY WorkStep
<1> QED BY <1>1, HandlingInvariant, PTL DEF Spec, HandlerCountsDown
==============================================================================
