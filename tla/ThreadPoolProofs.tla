-------------------------- MODULE ThreadPoolProofs ---------------------------
(***************************************************************************)
(* TLAPS proofs about ThreadPool, for every number of workers, producers,  *)
(* tasks and starts.                                                       *)
(***************************************************************************)
EXTENDS ThreadPool, FiniteSetTheorems, SequenceTheorems, TLAPS

\* What each control state of Start and Stop means for the flags, the threads and
\* the queue.  TypeOK and ControlInv together are inductive: that StopReset leaves
\* an empty queue and no thread, for example, needs to be known from StopJoin on.
ControlInv ==
  /\ ctl \in {"down", "destroyed"} =>
       /\ ~started /\ ~stopping /\ tasks = <<>>
       /\ \A w \in Workers : wpc[w] = "none"
  /\ ctl = "startFailed" =>
       /\ ~started /\ ~stopping /\ tasks = <<>>
       /\ \A w \in Workers : wpc[w] \in {"none", "ready", "waiting"}
  /\ ctl = "up" =>
       /\ started /\ ~stopping
       /\ \A w \in Workers : wpc[w] \in {"ready", "waiting", "running"}
  /\ ctl \in {"notify", "join"} =>
       /\ started /\ stopping
       /\ \A w \in Workers : wpc[w] # "none"
  /\ ctl = "join" => \A w \in Workers : wpc[w] # "waiting"
  /\ ctl = "reset" =>
       /\ started /\ stopping /\ tasks = <<>>
       /\ \A w \in Workers : wpc[w] = "none"
  /\ \A w \in Workers : wpc[w] = "exited" => stopping /\ tasks = <<>>

PoolInv == TypeOK /\ ControlInv

LEMMA InitPoolInv == Init => PoolInv
<1> SUFFICES ASSUME Init PROVE PoolInv
  OBVIOUS
<1>1. TypeOK
  <2>1. tasks \in Seq(Jobs)
    BY EmptySeq DEF Init
  <2>2. starts \in 0..MaxStarts
    BY PoolAssumption DEF Init
  <2>3. \A w \in Workers : wpc[w] = "none" /\ wtask[w] = NoJob
    BY DEF Init
  <2>4. QED
    BY <2>1, <2>2, <2>3 DEF Init, TypeOK, WorkerStates, ControllerStates
<1>2. ControlInv
  BY DEF Init, ControlInv
<1>3. QED
  BY <1>1, <1>2 DEF PoolInv

LEMMA NextPoolInv == PoolInv /\ [Next]_vars => PoolInv'
<1> SUFFICES ASSUME PoolInv, [Next]_vars PROVE PoolInv'
  OBVIOUS
<1> USE PoolAssumption DEF PoolInv, TypeOK, ControlInv, WorkerStates, ControllerStates,
        Waiting, Alive, WaitPredicate, MustExit
<1>1. CASE Start
  <2>1. \A w \in Workers : wtask[w] = NoJob
    BY <1>1 DEF Start
  <2>2. starts' \in 0..MaxStarts
    BY <1>1 DEF Start
  <2>3. TypeOK'
    BY <1>1, <2>1, <2>2 DEF Start
  <2>4. ControlInv'
    BY <1>1 DEF Start
  <2>5. QED
    BY <2>3, <2>4
<1>2. ASSUME NEW created \in SUBSET Workers, StartThrows(created)
      PROVE  PoolInv'
  <2>1. \A w \in Workers : wtask[w] = NoJob
    BY <1>2 DEF StartThrows
  <2>2. starts' \in 0..MaxStarts
    BY <1>2 DEF StartThrows
  <2>3. TypeOK'
    BY <1>2, <2>1, <2>2 DEF StartThrows
  <2>4. ControlInv'
    BY <1>2 DEF StartThrows
  <2>5. QED
    BY <2>3, <2>4
<1>3. CASE StopBegin
  BY <1>3 DEF StopBegin
<1>4. CASE StopNotifyAll
  BY <1>4 DEF StopNotifyAll
<1>5. CASE StopJoin
  BY <1>5 DEF StopJoin
<1>6. CASE StopReset
  BY <1>6 DEF StopReset
<1>7. CASE Destroy
  BY <1>7 DEF Destroy
<1>8. ASSUME NEW p \in Producers, NEW j \in Jobs, Enqueue(p, j)
      PROVE  PoolInv'
  BY <1>8 DEF Enqueue, Accepting
<1>9. ASSUME NEW p \in Producers, NEW j \in Jobs, EnqueueThrows(p, j)
      PROVE  PoolInv'
  BY <1>9 DEF EnqueueThrows
<1>10. ASSUME NEW p \in Producers, NotifyOne(p)
       PROVE  PoolInv'
  BY <1>10 DEF NotifyOne
<1>11. ASSUME NEW w \in Workers, Sleep(w)
       PROVE  PoolInv'
  BY <1>11 DEF Sleep
<1>12. ASSUME NEW w \in Workers, Exit(w)
       PROVE  PoolInv'
  BY <1>12 DEF Exit
<1>13. ASSUME NEW w \in Workers, Take(w)
       PROVE  PoolInv'
  <2>1. Head(tasks) \in Jobs /\ Tail(tasks) \in Seq(Jobs)
    BY <1>13, HeadTailProperties DEF Take, WaitPredicate, MustExit, Front, Popped
  <2>2. QED
    BY <1>13, <2>1 DEF Take, WaitPredicate, MustExit, Front, Popped
<1>14. ASSUME NEW w \in Workers, Run(w)
       PROVE  PoolInv'
  BY <1>14 DEF Run
<1>15. ASSUME NEW w \in Workers, RunThrows(w)
       PROVE  PoolInv'
  BY <1>15 DEF RunThrows
<1>16. ASSUME NEW w \in Workers, SpuriousWakeup(w)
       PROVE  PoolInv'
  BY <1>16 DEF SpuriousWakeup
<1>17. CASE UNCHANGED vars
  BY <1>17 DEF vars
<1>18. QED
  BY <1>1, <1>2, <1>3, <1>4, <1>5, <1>6, <1>7, <1>8, <1>9, <1>10, <1>11, <1>12,
     <1>13, <1>14, <1>15, <1>16, <1>17 DEF Next, Stop, Loop

LEMMA PoolInvariant == Spec => []PoolInv
<1>1. QED
  BY InitPoolInv, NextPoolInv, PTL DEF Spec

\* The variables of the pool keep their types, and a worker holds a task exactly
\* while it runs one.
THEOREM PoolTyping == Spec => []TypeOK
<1>1. PoolInv => TypeOK
  BY DEF PoolInv
<1>2. QED
  BY <1>1, PoolInvariant, PTL

\* After notify_all no worker is left asleep for Stop to wait on for ever.
THEOREM StopWakesEveryWorker == Spec => []NoSleeperAtJoin
<1>1. PoolInv => NoSleeperAtJoin
  BY DEF PoolInv, ControlInv, NoSleeperAtJoin, Waiting
<1>2. QED
  BY <1>1, PoolInvariant, PTL

\* A worker leaves only behind an empty queue that nobody can fill again.
THEOREM StopLeavesNoTask == Spec => []NoTaskAfterExit
<1>1. PoolInv => NoTaskAfterExit
  BY DEF PoolInv, ControlInv, NoTaskAfterExit
<1>2. QED
  BY <1>1, PoolInvariant, PTL
------------------------------------------------------------------------------
(* No wakeup is lost. *)

LEMMA FiniteThreadSets ==
  /\ IsFiniteSet(Ready) /\ Cardinality(Ready) \in Nat
  /\ IsFiniteSet(Notifying) /\ Cardinality(Notifying) \in Nat
BY PoolAssumption, FS_Subset, FS_CardinalityType DEF Ready, Notifying

LEMMA InitNoLostWakeup == Init => NoLostWakeup
BY DEF Init, NoLostWakeup, Waiting

LEMMA NextNoLostWakeup == PoolInv /\ NoLostWakeup /\ [Next]_vars => NoLostWakeup'
<1> SUFFICES ASSUME PoolInv, NoLostWakeup, [Next]_vars, Waiting' # {}
             PROVE  Len(tasks') <= Cardinality(Ready') + Cardinality(Notifying')
  BY DEF NoLostWakeup
<1>a. /\ Len(tasks) \in Nat
      /\ Cardinality(Ready) \in Nat /\ Cardinality(Notifying) \in Nat
      /\ Cardinality(Ready') \in Nat /\ Cardinality(Notifying') \in Nat
  <2>1. PoolInv'
    BY NextPoolInv
  <2>2. Ready' \in SUBSET Workers /\ Notifying' \in SUBSET Producers
    BY DEF Ready, Notifying
  <2>3. IsFiniteSet(Ready') /\ IsFiniteSet(Notifying')
    BY <2>2, PoolAssumption, FS_Subset
  <2>4. Cardinality(Ready') \in Nat /\ Cardinality(Notifying') \in Nat
    BY <2>3, FS_CardinalityType
  <2>5. QED
    BY <2>4, FiniteThreadSets, LenProperties DEF PoolInv, TypeOK
<1>b. ASSUME tasks' = tasks, Ready' = Ready, Notifying' = Notifying, Waiting' = Waiting
      PROVE  Len(tasks') <= Cardinality(Ready') + Cardinality(Notifying')
  BY <1>a, <1>b DEF NoLostWakeup
<1>c. ASSUME tasks' = <<>>
      PROVE  Len(tasks') <= Cardinality(Ready') + Cardinality(Notifying')
  BY <1>a, <1>c
<1>1. CASE Start \/ StopNotifyAll \/ StopJoin
  BY <1>1 DEF Start, StopNotifyAll, StopJoin, Waiting
<1>2. CASE \E created \in SUBSET Workers : StartThrows(created)
  BY <1>2 DEF StartThrows, Waiting
<1>3. CASE StopBegin \/ StopReset \/ Destroy
  BY <1>3, <1>b DEF StopBegin, StopReset, Destroy, Ready, Notifying, Waiting
<1>4. ASSUME NEW p \in Producers, NEW j \in Jobs, Enqueue(p, j)
      PROVE  Len(tasks') <= Cardinality(Ready') + Cardinality(Notifying')
  <2>1. Len(tasks') = Len(tasks) + 1
    BY <1>4, AppendProperties DEF Enqueue, PoolInv, TypeOK
  <2>2. Notifying' = Notifying \cup {p} /\ p \notin Notifying
    BY <1>4 DEF Enqueue, Notifying, PoolInv, TypeOK
  <2>3. Cardinality(Notifying') = Cardinality(Notifying) + 1
    BY <2>2, FS_AddElement, FiniteThreadSets
  <2>4. Ready' = Ready /\ Waiting' = Waiting
    BY <1>4 DEF Enqueue, Ready, Waiting
  <2>5. QED
    BY <1>a, <2>1, <2>3, <2>4 DEF NoLostWakeup
<1>5. CASE \E p \in Producers, j \in Jobs : EnqueueThrows(p, j)
  BY <1>5, <1>b DEF EnqueueThrows, Ready, Notifying, Waiting
<1>6. ASSUME NEW p \in Producers, NotifyOne(p)
      PROVE  Len(tasks') <= Cardinality(Ready') + Cardinality(Notifying')
  <2>1. PICK w \in Waiting : wpc' = [wpc EXCEPT ![w] = "ready"]
    BY <1>6 DEF NotifyOne, Waiting
  <2>2. Notifying' = Notifying \ {p} /\ p \in Notifying
    BY <1>6 DEF NotifyOne, Notifying, PoolInv, TypeOK
  <2>3. Cardinality(Notifying') = Cardinality(Notifying) - 1
    BY <2>2, FS_RemoveElement, FiniteThreadSets
  <2>4. Ready' = Ready \cup {w} /\ w \notin Ready
    BY <2>1 DEF Ready, Waiting, PoolInv, TypeOK
  <2>5. Cardinality(Ready') = Cardinality(Ready) + 1
    BY <2>4, FS_AddElement, FiniteThreadSets
  <2>6. tasks' = tasks
    BY <1>6 DEF NotifyOne
  <2>7. QED
    BY <1>a, <2>1, <2>3, <2>5, <2>6 DEF NoLostWakeup
<1>7. CASE \E w \in Workers : Sleep(w) \/ Exit(w)
  BY <1>7, <1>c DEF Sleep, Exit, WaitPredicate, MustExit
<1>8. ASSUME NEW w \in Workers, Take(w)
      PROVE  Len(tasks') <= Cardinality(Ready') + Cardinality(Notifying')
  <2>1. Len(tasks') = Len(tasks) - 1
    BY <1>8, HeadTailProperties DEF Take, WaitPredicate, MustExit, Front, Popped, PoolInv, TypeOK
  <2>2. Ready' = Ready \ {w} /\ w \in Ready
    BY <1>8 DEF Take, WaitPredicate, MustExit, Front, Popped, Ready, PoolInv, TypeOK
  <2>3. Cardinality(Ready') = Cardinality(Ready) - 1
    BY <2>2, FS_RemoveElement, FiniteThreadSets
  <2>4. Waiting' = Waiting /\ Notifying' = Notifying
    BY <1>8 DEF Take, WaitPredicate, MustExit, Front, Popped, Waiting, Notifying, PoolInv, TypeOK
  <2>5. QED
    BY <1>a, <2>1, <2>3, <2>4 DEF NoLostWakeup
<1>9. ASSUME NEW w \in Workers, Run(w) \/ SpuriousWakeup(w)
      PROVE  Len(tasks') <= Cardinality(Ready') + Cardinality(Notifying')
  <2>1. Ready' = Ready \cup {w} /\ w \notin Ready
    BY <1>9 DEF Run, SpuriousWakeup, Ready, PoolInv, TypeOK
  <2>2. Cardinality(Ready') = Cardinality(Ready) + 1
    BY <2>1, FS_AddElement, FiniteThreadSets
  <2>3. Waiting' \subseteq Waiting /\ Notifying' = Notifying /\ tasks' = tasks
    BY <1>9 DEF Run, SpuriousWakeup, Waiting, Notifying, PoolInv, TypeOK
  <2>4. QED
    BY <1>a, <2>2, <2>3 DEF NoLostWakeup
<1>10. CASE \E w \in Workers : RunThrows(w)
  BY <1>10, <1>b DEF RunThrows, Ready, Notifying, Waiting
<1>11. CASE UNCHANGED vars
  BY <1>11, <1>b DEF vars, Ready, Notifying, Waiting
<1>12. QED
  BY <1>1, <1>2, <1>3, <1>4, <1>5, <1>6, <1>7, <1>8, <1>9, <1>10, <1>11
     DEF Next, Stop, Loop

\* While a worker sleeps, every queued task has a worker awake for it or a
\* notify_one under way, although Enqueue notifies outside the lock.
THEOREM PoolLosesNoWakeup == Spec => []NoLostWakeup
<1>1. QED
  BY InitNoLostWakeup, NextNoLostWakeup, PoolInvariant, PTL DEF Spec
------------------------------------------------------------------------------
(* Each task is in one place. *)

Queued(j) == \E i \in 1..Len(tasks) : tasks[i] = j
Held(j) == \E w \in Workers : wtask[w] = j

LEMMA InitEachTaskOnce == Init => EachTaskOnce
<1> SUFFICES ASSUME Init PROVE EachTaskOnce
  OBVIOUS
<1>1. Len(tasks) = 0
  BY DEF Init
<1>2. \A w \in Workers : wtask[w] = NoJob
  BY DEF Init
<1>3. \A j \in Jobs : fate[j] = "new" /\ j # NoJob
  BY PoolAssumption DEF Init
<1>4. QED
  BY <1>1, <1>2, <1>3 DEF EachTaskOnce

LEMMA NextEachTaskOnce == PoolInv /\ EachTaskOnce /\ [Next]_vars => EachTaskOnce'
<1> SUFFICES ASSUME PoolInv, EachTaskOnce, [Next]_vars PROVE EachTaskOnce'
  OBVIOUS
<1>a. ASSUME UNCHANGED <<tasks, wtask>>,
             \A j \in Jobs : fate'[j] = "accepted" <=> fate[j] = "accepted"
      PROVE  EachTaskOnce'
  BY <1>a DEF EachTaskOnce
<1>b. Len(tasks) \in Nat /\ \A i \in 1..Len(tasks) : tasks[i] \in Jobs
  BY LenProperties, ElementOfSeq DEF PoolInv, TypeOK
<1>1. CASE Start \/ Stop \/ Destroy \/ UNCHANGED vars
  BY <1>1, <1>a DEF Start, Stop, StopBegin, StopNotifyAll, StopJoin, StopReset, Destroy, vars
<1>2. CASE \E created \in SUBSET Workers : StartThrows(created)
  BY <1>2, <1>a DEF StartThrows
<1>3. ASSUME NEW p \in Producers, NEW j \in Jobs, Enqueue(p, j)
      PROVE  EachTaskOnce'
  <2>1. /\ Len(tasks') = Len(tasks) + 1
        /\ \A i \in 1..Len(tasks) : tasks'[i] = tasks[i]
        /\ tasks'[Len(tasks) + 1] = j
    BY <1>3, AppendProperties DEF Enqueue, PoolInv, TypeOK
  <2>2. fate[j] = "new" /\ wtask' = wtask
    BY <1>3 DEF Enqueue
  <2>3. /\ \A i \in 1..Len(tasks) : tasks[i] # j
        /\ \A w \in Workers : wtask[w] # j
    BY <2>2 DEF EachTaskOnce
  <2>4. \A i \in 1..Len(tasks') : i \in 1..Len(tasks) \/ i = Len(tasks) + 1
    BY <2>1, <1>b
  <2>5. \A k \in Jobs : fate'[k] = IF k = j THEN "accepted" ELSE fate[k]
    BY <1>3 DEF Enqueue, PoolInv, TypeOK
  <2>6. \A i, k \in 1..Len(tasks') : tasks'[i] = tasks'[k] => i = k
    BY <2>1, <2>3, <2>4, <1>b DEF EachTaskOnce
  <2>7. \A w \in Workers : wtask'[w] # NoJob =>
          \A i \in 1..Len(tasks') : tasks'[i] # wtask'[w]
    BY <2>1, <2>2, <2>3, <2>4 DEF EachTaskOnce
  <2>8. ASSUME NEW k \in Jobs
        PROVE  fate'[k] = "accepted" <=> \/ \E i \in 1..Len(tasks') : tasks'[i] = k
                                         \/ \E w \in Workers : wtask'[w] = k
    <3>1. CASE k = j
      <4>1. Len(tasks) + 1 \in 1..Len(tasks')
        BY <2>1, <1>b
      <4>2. QED
        BY <3>1, <4>1, <2>1, <2>5
    <3>2. CASE k # j
      <4>1. 1..Len(tasks) \subseteq 1..Len(tasks')
        BY <2>1, <1>b
      <4>2. (\E i \in 1..Len(tasks') : tasks'[i] = k) <=> Queued(k)
        BY <3>2, <4>1, <2>1, <2>4 DEF Queued
      <4>3. QED
        BY <3>2, <4>2, <2>2, <2>5 DEF EachTaskOnce, Queued
    <3>3. QED
      BY <3>1, <3>2
  <2>9. \A v, w \in Workers : wtask'[v] # NoJob /\ wtask'[v] = wtask'[w] => v = w
    BY <2>2 DEF EachTaskOnce
  <2>10. QED
    BY <2>6, <2>7, <2>8, <2>9 DEF EachTaskOnce
<1>4. CASE \E p \in Producers, j \in Jobs : EnqueueThrows(p, j)
  BY <1>4, <1>a DEF EnqueueThrows, PoolInv, TypeOK
<1>5. CASE \E p \in Producers : NotifyOne(p)
  BY <1>5, <1>a DEF NotifyOne
<1>6. ASSUME NEW w \in Workers, Sleep(w) \/ Exit(w) \/ RunThrows(w) \/ SpuriousWakeup(w)
      PROVE  EachTaskOnce'
  BY <1>6, <1>a DEF Sleep, Exit, RunThrows, SpuriousWakeup
<1>7. ASSUME NEW w \in Workers, Take(w)
      PROVE  EachTaskOnce'
  <2> DEFINE j == tasks[1]
  <2>1. /\ Len(tasks) >= 1 /\ Len(tasks') = Len(tasks) - 1
        /\ \A i \in 1..Len(tasks') : tasks'[i] = tasks[i + 1]
        /\ Head(tasks) = j /\ j \in Jobs
    BY <1>7, <1>b, HeadTailProperties, EmptySeq
       DEF Take, WaitPredicate, MustExit, Front, Popped, PoolInv, TypeOK
  <2>2. /\ wtask[w] = NoJob /\ fate' = fate
        /\ \A v \in Workers : wtask'[v] = IF v = w THEN j ELSE wtask[v]
    BY <1>7, <2>1 DEF Take, WaitPredicate, MustExit, Front, Popped, PoolInv, TypeOK
  <2>3. \A i \in 1..Len(tasks') : i + 1 \in 1..Len(tasks) /\ i + 1 # 1
    BY <2>1, <1>b
  <2>4. /\ \A i \in 1..Len(tasks') : tasks'[i] # j
        /\ \A v \in Workers : wtask[v] # j
    <3>1. 1 \in 1..Len(tasks)
      BY <2>1, <1>b
    <3>2. j # NoJob
      BY <2>1, PoolAssumption
    <3>3. QED
      BY <3>1, <3>2, <2>1, <2>3 DEF EachTaskOnce
  <2>5. \A i, k \in 1..Len(tasks') : tasks'[i] = tasks'[k] => i = k
    <3>1. \A i, k \in 1..Len(tasks') : tasks'[i] = tasks'[k] => i + 1 = k + 1
      BY <2>1, <2>3 DEF EachTaskOnce
    <3>2. \A i, k \in 1..Len(tasks') : i + 1 = k + 1 => i = k
      OBVIOUS
    <3>3. QED
      BY <3>1, <3>2
  <2>6. \A v \in Workers : wtask'[v] # NoJob =>
          \A i \in 1..Len(tasks') : tasks'[i] # wtask'[v]
    BY <2>1, <2>2, <2>3, <2>4 DEF EachTaskOnce
  <2>7. ASSUME NEW k \in Jobs
        PROVE  fate'[k] = "accepted" <=> \/ \E i \in 1..Len(tasks') : tasks'[i] = k
                                         \/ \E v \in Workers : wtask'[v] = k
    <3>1. CASE k = j
      <4>1. 1 \in 1..Len(tasks)
        BY <2>1, <1>b
      <4>2. QED
        BY <3>1, <4>1, <2>2 DEF EachTaskOnce
    <3>2. CASE k # j
      <4>1. \A i \in 1..Len(tasks) : i # 1 => i - 1 \in 1..Len(tasks') /\ (i - 1) + 1 = i
        BY <2>1, <1>b
      <4>2. (\E i \in 1..Len(tasks') : tasks'[i] = k) => Queued(k)
        BY <2>1, <2>3 DEF Queued
      <4>3. Queued(k) => \E i \in 1..Len(tasks') : tasks'[i] = k
        <5> SUFFICES ASSUME NEW i \in 1..Len(tasks), tasks[i] = k
                     PROVE  \E m \in 1..Len(tasks') : tasks'[m] = k
          BY DEF Queued
        <5>1. i # 1
          BY <3>2
        <5>2. i - 1 \in 1..Len(tasks') /\ (i - 1) + 1 = i
          BY <5>1, <4>1
        <5>3. tasks'[i - 1] = k
          BY <5>2, <2>1
        <5>4. QED
          BY <5>2, <5>3
      <4>4. (\E v \in Workers : wtask'[v] = k) <=> Held(k)
        <5>1. k # NoJob
          BY PoolAssumption
        <5>2. QED
          BY <3>2, <5>1, <2>2 DEF Held
      <4>5. QED
        BY <4>2, <4>3, <4>4, <2>2 DEF EachTaskOnce, Queued, Held
    <3>3. QED
      BY <3>1, <3>2
  <2>8. \A u, v \in Workers : wtask'[u] # NoJob /\ wtask'[u] = wtask'[v] => u = v
    BY <2>2, <2>4 DEF EachTaskOnce
  <2>9. QED
    BY <2>5, <2>6, <2>7, <2>8 DEF EachTaskOnce
<1>8. ASSUME NEW w \in Workers, Run(w)
      PROVE  EachTaskOnce'
  <2> DEFINE j == wtask[w]
  <2>1. j \in Jobs /\ j # NoJob
    BY <1>8 DEF Run, PoolInv, TypeOK
  <2>2. /\ tasks' = tasks
        /\ \A v \in Workers : wtask'[v] = IF v = w THEN NoJob ELSE wtask[v]
        /\ \A k \in Jobs : fate'[k] = IF k = j THEN "done" ELSE fate[k]
    BY <1>8, <2>1 DEF Run, PoolInv, TypeOK
  <2>3. \A v \in Workers : v # w => wtask[v] # j
    BY <2>1 DEF EachTaskOnce
  <2>4. \A i \in 1..Len(tasks) : tasks[i] # j
    BY <2>1 DEF EachTaskOnce
  <2>5. \A k \in Jobs : k # NoJob
    BY PoolAssumption
  <2>6. ASSUME NEW k \in Jobs
        PROVE  fate'[k] = "accepted" <=> \/ \E i \in 1..Len(tasks') : tasks'[i] = k
                                         \/ \E v \in Workers : wtask'[v] = k
    <3>1. CASE k = j
      BY <3>1, <2>2, <2>3, <2>4, <2>5
    <3>2. CASE k # j
      BY <3>2, <2>2, <2>5 DEF EachTaskOnce
    <3>3. QED
      BY <3>1, <3>2
  <2>7. QED
    BY <2>2, <2>6 DEF EachTaskOnce
<1>9. QED
  BY <1>1, <1>2, <1>3, <1>4, <1>5, <1>6, <1>7, <1>8 DEF Next, Loop

\* No task is lost, duplicated, or run after it was refused.
THEOREM PoolKeepsEachTaskOnce == Spec => []EachTaskOnce
<1>1. QED
  BY InitEachTaskOnce, NextEachTaskOnce, PoolInvariant, PTL DEF Spec
------------------------------------------------------------------------------
(* The pool implements JobPool. *)

LEMMA InitImplements == Init => Pool!Init
BY DEF Init, Pool!Init, Phase

LEMMA NextImplements == PoolInv /\ EachTaskOnce /\ [Next]_vars => [Pool!Next]_(Pool!vars)
<1> SUFFICES ASSUME PoolInv, EachTaskOnce, [Next]_vars
             PROVE  Pool!Next \/ UNCHANGED Pool!vars
  OBVIOUS
<1>a. ASSUME UNCHANGED <<tasks, wtask, fate, started, stopping>>
      PROVE  UNCHANGED Pool!vars
  BY <1>a DEF Pool!vars, Phase
<1>1. CASE Start
  <2>1. Phase = "closed" /\ Phase' = "open"
    BY <1>1 DEF Start, Phase
  <2>2. Pool!Open
    BY <1>1, <2>1 DEF Start, Pool!Open
  <2>3. QED
    BY <2>2 DEF Pool!Next
<1>2. ASSUME NEW created \in SUBSET Workers, StartThrows(created)
      PROVE  UNCHANGED Pool!vars
  BY <1>2 DEF StartThrows, Pool!vars, Phase
<1>3. CASE StopBegin
  <2>1. Phase = "open" /\ Phase' = "closing"
    BY <1>3 DEF StopBegin, Phase, PoolInv, ControlInv
  <2>2. Pool!Close
    BY <1>3, <2>1 DEF StopBegin, Pool!Close
  <2>3. QED
    BY <2>2 DEF Pool!Next
<1>4. CASE StopNotifyAll \/ StopJoin \/ Destroy
  BY <1>4, <1>a DEF StopNotifyAll, StopJoin, Destroy
<1>5. CASE StopReset
  <2>1. Phase = "closing" /\ Phase' = "closed"
    BY <1>5 DEF StopReset, Phase, PoolInv, ControlInv
  <2>2. Len(tasks) = 0 /\ \A w \in Workers : wtask[w] = NoJob
    BY <1>5 DEF StopReset, PoolInv, ControlInv, TypeOK
  <2>3. \A j \in Jobs : fate[j] # "accepted"
    BY <2>2, PoolAssumption DEF EachTaskOnce
  <2>4. Pool!Drained
    BY <1>5, <2>1, <2>3 DEF StopReset, Pool!Drained
  <2>5. QED
    BY <2>4 DEF Pool!Next
<1>6. ASSUME NEW p \in Producers, NEW j \in Jobs, Enqueue(p, j)
      PROVE  Pool!Next
  <2>1. Phase = "open" /\ Phase' = "open"
    BY <1>6 DEF Enqueue, Accepting, Phase
  <2>2. Pool!Accept(j)
    BY <1>6, <2>1 DEF Enqueue, Pool!Accept
  <2>3. QED
    BY <2>2 DEF Pool!Next
<1>7. ASSUME NEW p \in Producers, NEW j \in Jobs, EnqueueThrows(p, j)
      PROVE  Pool!Next
  <2>1. Phase # "open" /\ Phase' = Phase
    BY <1>7 DEF EnqueueThrows, Accepting, Phase
  <2>2. Pool!Refuse(j)
    BY <1>7, <2>1 DEF EnqueueThrows, Pool!Refuse
  <2>3. QED
    BY <2>2 DEF Pool!Next
<1>8. CASE \E p \in Producers : NotifyOne(p)
  BY <1>8, <1>a DEF NotifyOne
<1>9. ASSUME NEW w \in Workers, Sleep(w) \/ Exit(w) \/ RunThrows(w) \/ SpuriousWakeup(w)
      PROVE  UNCHANGED Pool!vars
  BY <1>9, <1>a DEF Sleep, Exit, RunThrows, SpuriousWakeup
<1>10. ASSUME NEW w \in Workers, Take(w)
       PROVE  Pool!Next
  <2>1. wtask[w] = NoJob /\ Phase' = Phase
    BY <1>10 DEF Take, WaitPredicate, MustExit, Front, Popped, Phase, PoolInv, TypeOK
  <2>2. Pool!Begin(w)
    BY <1>10, <2>1 DEF Take, WaitPredicate, MustExit, Front, Popped, Pool!Begin
  <2>3. QED
    BY <2>2 DEF Pool!Next
<1>11. ASSUME NEW w \in Workers, Run(w)
       PROVE  Pool!Next
  <2>1. wtask[w] # NoJob /\ Phase' = Phase
    BY <1>11 DEF Run, Phase, PoolInv, TypeOK
  <2>2. Pool!Finish(w)
    BY <1>11, <2>1 DEF Run, Pool!Finish
  <2>3. QED
    BY <2>2 DEF Pool!Next
<1>12. CASE UNCHANGED vars
  BY <1>12, <1>a DEF vars
<1>13. QED
  BY <1>1, <1>2, <1>3, <1>4, <1>5, <1>6, <1>7, <1>8, <1>9, <1>10, <1>11, <1>12
     DEF Next, Stop, Loop

\* Every behaviour of the pool is one of JobPool: jobs start in the order they were
\* accepted, each once, one a worker, and Stop returns on a drained pool.
THEOREM PoolImplementsJobPool == Spec => ImplementsJobPool
<1>1. Spec => [](PoolInv /\ EachTaskOnce)
  BY PoolInvariant, PoolKeepsEachTaskOnce, PTL
<1>2. QED
  BY <1>1, InitImplements, NextImplements, PTL DEF Spec, ImplementsJobPool, Pool!Spec

------------------------------------------------------------------------------
(* Stop counts down *)

\* What Stop waits for while it joins: a queued task has to be taken and run, a running one
\* to return, and each worker that is awake to leave.
Running == {w \in Workers : wpc[w] = "running"}
WorkLeft == 2 * (Len(tasks) + Cardinality(Running)) + Cardinality(Ready)

\* While Stop joins there is less of it with every step of a worker, and never more.
JoinCountsDown ==
  [][ctl = "join" => /\ WorkLeft' <= WorkLeft
                     /\ (\E w \in Workers : Loop(w) \/ Run(w)) => WorkLeft' < WorkLeft]_vars

\* While Stop joins, the process has not ended and a worker has not returned, one of them
\* can go on: it runs a task, or wants the mutex and will not sleep.
JoinCanGoOn ==
  ctl = "join" => \/ \A w \in Workers : wpc[w] = "exited"
                  \/ Running # {}
                  \/ Ready # {} /\ WaitPredicate

LEMMA WorkLeftType ==
  ASSUME PoolInv
  PROVE  /\ Len(tasks) \in Nat
         /\ IsFiniteSet(Running) /\ Cardinality(Running) \in Nat
         /\ IsFiniteSet(Ready) /\ Cardinality(Ready) \in Nat
  BY PoolAssumption, FS_Subset, FS_CardinalityType, LenProperties
     DEF Ready, Running, PoolInv, TypeOK

LEMMA JoinStep ==
  ASSUME PoolInv, [Next]_vars, ctl = "join"
  PROVE  /\ WorkLeft' <= WorkLeft
         /\ (\E w \in Workers : Loop(w) \/ Run(w)) => WorkLeft' < WorkLeft
<1>1. /\ stopping /\ started /\ Waiting = {}
      /\ \A w \in Workers : wpc[w] \in {"ready", "running", "exited"}
      /\ wpc \in [Workers -> WorkerStates] /\ tasks \in Seq(Jobs)
  BY DEF PoolInv, TypeOK, ControlInv, WorkerStates, Waiting
<1>2. ASSUME NEW w \in Workers, Exit(w) PROVE WorkLeft' < WorkLeft
  <2>1. tasks' = tasks /\ Running' = Running /\ Ready' = Ready \ {w} /\ w \in Ready
    BY <1>1, <1>2 DEF Exit, Running, Ready
  <2>2. Cardinality(Ready') = Cardinality(Ready) - 1
    BY <2>1, WorkLeftType, FS_RemoveElement
  <2> QED BY <2>1, <2>2, WorkLeftType DEF WorkLeft
<1>3. ASSUME NEW w \in Workers, Take(w) PROVE WorkLeft' < WorkLeft
  <2>1. /\ Running' = Running \cup {w} /\ w \notin Running
        /\ Ready' = Ready \ {w} /\ w \in Ready
    BY <1>1, <1>3 DEF Take, Running, Ready
  <2>2. Len(tasks') = Len(tasks) - 1
    BY <1>1, <1>3, HeadTailProperties, EmptySeq DEF Take, WaitPredicate, MustExit, Popped
  <2>3. /\ Cardinality(Ready') = Cardinality(Ready) - 1
        /\ Cardinality(Running') = Cardinality(Running) + 1
    BY <2>1, WorkLeftType, FS_RemoveElement, FS_AddElement
  <2> QED BY <2>2, <2>3, WorkLeftType DEF WorkLeft
<1>4. ASSUME NEW w \in Workers, Run(w) PROVE WorkLeft' < WorkLeft
  <2>1. /\ tasks' = tasks /\ Running' = Running \ {w} /\ w \in Running
        /\ Ready' = Ready \cup {w} /\ w \notin Ready
    BY <1>1, <1>4 DEF Run, Running, Ready
  <2>2. /\ Cardinality(Ready') = Cardinality(Ready) + 1
        /\ Cardinality(Running') = Cardinality(Running) - 1
    BY <2>1, WorkLeftType, FS_RemoveElement, FS_AddElement
  <2> QED BY <2>1, <2>2, WorkLeftType DEF WorkLeft
<1>5. ~\E w \in Workers : Sleep(w)
  BY <1>1 DEF Sleep, WaitPredicate
<1>6. CASE \E w \in Workers : Loop(w) \/ Run(w)
  <2>1. WorkLeft' < WorkLeft
    BY <1>2, <1>3, <1>4, <1>5, <1>6 DEF Loop
  <2>2. WorkLeft \in Nat /\ WorkLeft' \in Nat
    <3>1. PoolInv'
      BY NextPoolInv
    <3>2. /\ Len(tasks') \in Nat
          /\ Ready' \in SUBSET Workers /\ Running' \in SUBSET Workers
      BY <3>1, LenProperties DEF Ready, Running, PoolInv, TypeOK
    <3>3. Cardinality(Ready') \in Nat /\ Cardinality(Running') \in Nat
      BY <3>2, PoolAssumption, FS_Subset, FS_CardinalityType
    <3> QED BY <3>2, <3>3, WorkLeftType DEF WorkLeft
  <2> QED BY <2>1, <2>2
<1>7. CASE ~\E w \in Workers : Loop(w) \/ Run(w)
  <2>1. Running' = Running /\ Ready' = Ready /\ tasks' = tasks
    <3>1. CASE StopJoin
      BY <1>1, <3>1 DEF StopJoin, Running, Ready
    <3>2. CASE ~StopJoin
      <4>1. wpc' = wpc /\ tasks' = tasks
        BY <1>1, <1>7, <3>2 DEF Next, Stop, Start, StopBegin, StopNotifyAll, StopReset, Destroy,
             StartThrows, Enqueue, Accepting, EnqueueThrows, NotifyOne, RunThrows,
             SpuriousWakeup, Waiting, vars
      <4> QED BY <4>1 DEF Running, Ready
    <3> QED BY <3>1, <3>2
  <2> QED BY <1>7, <2>1, WorkLeftType DEF WorkLeft
<1> QED BY <1>6, <1>7

\* While Stop joins its threads, each of their steps leaves them less to do and nothing adds
\* to it: with a worker that can always go on Stop takes a bounded number of them.
THEOREM JoiningCountsDown == Spec => JoinCountsDown
<1>1. PoolInv /\ [Next]_vars
        => [ctl = "join" => /\ WorkLeft' <= WorkLeft
                            /\ (\E w \in Workers : Loop(w) \/ Run(w))
                                 => WorkLeft' < WorkLeft]_vars
  BY JoinStep
<1> QED BY <1>1, PoolInvariant, PTL DEF Spec, JoinCountsDown

\* Until the last of the threads has returned one of them has a task to run or the mutex to
\* take and no reason to sleep: Stop never waits for threads that all wait.
THEOREM JoiningCanGoOn == Spec => []JoinCanGoOn
<1>1. PoolInv => JoinCanGoOn
  BY DEF PoolInv, TypeOK, ControlInv, JoinCanGoOn, Running, Ready, WaitPredicate,
         WorkerStates
<1> QED BY <1>1, PoolInvariant, PTL
==============================================================================
