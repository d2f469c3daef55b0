---------------------------- MODULE JobPoolProofs ----------------------------
(***************************************************************************)
(* What follows from the promise of a pool alone, for any jobs and slots,  *)
(* and so for everything shown to implement it.                            *)
(***************************************************************************)
EXTENDS JobPool, Integers, FiniteSetTheorems, SequenceTheorems, TLAPS

PoolTypeOK == /\ pending \in Seq(Jobs)
              /\ active \in [Slots -> Jobs \cup {Idle}]
              /\ fate \in [Jobs -> {"new", "accepted", "refused", "done"}]
              /\ phase \in {"open", "closing", "closed"}

\* An accepted job is queued or in a slot, and there is nothing else there.
Queued == {pending[i] : i \in 1..Len(pending)}
Begun == {active[s] : s \in Slots} \ {Idle}

\* Every accepted job is in one place: once in the queue or in one slot.
InOnePlace == /\ \A j \in Queued \cup Begun : fate[j] = "accepted"
              /\ \A i, k \in 1..Len(pending) : pending[i] = pending[k] => i = k
              /\ \A s, t \in Slots : active[s] # Idle /\ active[s] = active[t] => s = t
              /\ Queued \cap Begun = {}

\* A closed pool has nothing left to do.
ClosedIsEmpty == phase = "closed" => \A j \in Jobs : fate[j] # "accepted"

\* No job that has been accepted is lost: it is still there until it is done.
NoneIsLost == \A j \in Jobs : fate[j] = "accepted" => j \in Queued \cup Begun

JobsInv == PoolTypeOK /\ InOnePlace /\ NoneIsLost /\ ClosedIsEmpty

LEMMA InitJobs == ASSUME Idle \notin Jobs, Init PROVE JobsInv
  BY DEF Init, JobsInv, PoolTypeOK, InOnePlace, NoneIsLost, ClosedIsEmpty, Queued, Begun

LEMMA AcceptJobs ==
  ASSUME Idle \notin Jobs, JobsInv, NEW j \in Jobs, Accept(j) PROVE JobsInv'
<1> USE DEF JobsInv, Accept
<1>1. PoolTypeOK'
  BY DEF PoolTypeOK
<1>2. /\ Len(pending') = Len(pending) + 1
      /\ \A i \in 1..Len(pending) : pending'[i] = pending[i]
      /\ pending'[Len(pending) + 1] = j
      /\ Len(pending) \in Nat
  BY DEF PoolTypeOK
<1>3. Queued' = Queued \cup {j}
  BY <1>2 DEF Queued
<1>4. Begun' = Begun
  BY DEF Begun
<1>5. j \notin Queued \cup Begun
  BY DEF InOnePlace
<1>6. \A i \in 1..Len(pending) : pending[i] # j
  BY <1>5 DEF Queued
<1>7. \A m \in Queued \cup Begun : m \in Jobs
  BY DEF PoolTypeOK, Queued, Begun
<1>8. InOnePlace'
  <2>1. (\A m \in Queued \cup Begun : fate[m] = "accepted")'
    BY <1>3, <1>4, <1>5, <1>7 DEF PoolTypeOK, InOnePlace
  <2>2. (\A i, k \in 1..Len(pending) : pending[i] = pending[k] => i = k)'
    BY <1>2, <1>6 DEF InOnePlace
  <2>3. (Queued \cap Begun = {})'
    BY <1>3, <1>4, <1>5 DEF InOnePlace
  <2>4. QED BY <2>1, <2>2, <2>3 DEF InOnePlace
<1>9. ClosedIsEmpty'
  BY DEF ClosedIsEmpty
<1>10. NoneIsLost'
  BY <1>3, <1>4 DEF NoneIsLost, PoolTypeOK
<1> QED BY <1>1, <1>8, <1>9, <1>10

LEMMA RefuseJobs ==
  ASSUME Idle \notin Jobs, JobsInv, NEW j \in Jobs, Refuse(j) PROVE JobsInv'
<1> USE DEF JobsInv, Refuse
<1>1. Queued' = Queued /\ Begun' = Begun
  BY DEF Queued, Begun
<1>2. j \notin Queued \cup Begun
  BY DEF InOnePlace
<1>3. \A m \in Queued \cup Begun : m \in Jobs
  BY DEF PoolTypeOK, Queued, Begun
<1>4. NoneIsLost'
  BY <1>1 DEF NoneIsLost, PoolTypeOK
<1> QED BY <1>1, <1>2, <1>3, <1>4 DEF PoolTypeOK, InOnePlace, ClosedIsEmpty

LEMMA BeginJobs ==
  ASSUME Idle \notin Jobs, JobsInv, NEW s \in Slots, Begin(s) PROVE JobsInv'
<1> USE DEF JobsInv, Begin
<1> DEFINE j == Head(pending)
<1>1. /\ j = pending[1] /\ j \in Jobs
      /\ Len(pending) \in Nat /\ Len(pending) >= 1
      /\ Len(pending') = Len(pending) - 1
      /\ \A i \in 1..Len(pending') : pending'[i] = pending[i + 1]
      /\ pending' \in Seq(Jobs)
  BY DEF PoolTypeOK
<1>2. PoolTypeOK'
  BY <1>1 DEF PoolTypeOK
<1> HIDE DEF j
<1>3. active' = [active EXCEPT ![s] = j]
  BY DEF j
<1>4. Queued' \subseteq Queued \ {j}
  BY <1>1 DEF Queued, InOnePlace
<1>5. j \in Queued
  BY <1>1 DEF Queued
<1>6. \A t \in Slots : active[t] # j
  <2> SUFFICES ASSUME NEW t \in Slots, active[t] = j PROVE FALSE
    OBVIOUS
  <2>1. j \in Begun
    BY <1>1 DEF Begun
  <2> QED BY <2>1, <1>5 DEF InOnePlace
<1>7. Begun' \subseteq Begun \cup {j}
  BY <1>3 DEF Begun, PoolTypeOK
<1>8. InOnePlace'
  <2>1. (\A m \in Queued \cup Begun : fate[m] = "accepted")'
    BY <1>4, <1>5, <1>7 DEF InOnePlace
  <2>2. (\A i, k \in 1..Len(pending) : pending[i] = pending[k] => i = k)'
    BY <1>1 DEF InOnePlace
  <2>3. (\A t, u \in Slots : active[t] # Idle /\ active[t] = active[u] => t = u)'
    BY <1>3, <1>6 DEF InOnePlace, PoolTypeOK
  <2>4. (Queued \cap Begun = {})'
    BY <1>4, <1>7 DEF InOnePlace
  <2>5. QED BY <2>1, <2>2, <2>3, <2>4 DEF InOnePlace
<1>9. ClosedIsEmpty'
  BY DEF ClosedIsEmpty
<1>10. NoneIsLost'
  <2>1. Queued \ {j} \subseteq Queued'
    <3> SUFFICES ASSUME NEW i \in 1..Len(pending), pending[i] # j PROVE pending[i] \in Queued'
      BY DEF Queued
    <3>1. i - 1 \in 1..Len(pending') /\ pending'[i - 1] = pending[i]
      BY <1>1
    <3> QED BY <3>1 DEF Queued
  <2>2. Begun \cup {j} \subseteq Begun'
    <3>1. j # Idle
      BY <1>1
    <3> QED BY <1>3, <3>1 DEF Begun, PoolTypeOK
  <2> QED BY <2>1, <2>2 DEF NoneIsLost
<1> QED BY <1>2, <1>8, <1>9, <1>10

LEMMA FinishJobs ==
  ASSUME Idle \notin Jobs, JobsInv, NEW s \in Slots, Finish(s) PROVE JobsInv'
<1> USE DEF JobsInv, Finish
<1> DEFINE j == active[s]
<1>1. j \in Jobs /\ j \in Begun
  BY DEF PoolTypeOK, Begun
<1>2. PoolTypeOK'
  BY <1>1 DEF PoolTypeOK
<1>3. Queued' = Queued /\ j \notin Queued
  BY <1>1 DEF Queued, InOnePlace
<1>4. Begun' \subseteq Begun \ {j}
  BY DEF Begun, PoolTypeOK, InOnePlace
<1>5. \A m \in Queued \cup Begun : m \in Jobs
  BY DEF PoolTypeOK, Queued, Begun
<1>6. (\A m \in Queued \cup Begun : fate[m] = "accepted")'
  BY <1>3, <1>4, <1>5 DEF InOnePlace, PoolTypeOK
<1>7. (\A t, u \in Slots : active[t] # Idle /\ active[t] = active[u] => t = u)'
  BY DEF InOnePlace, PoolTypeOK
<1>8. InOnePlace'
  BY <1>3, <1>4, <1>6, <1>7 DEF InOnePlace
<1>9. ClosedIsEmpty'
  BY DEF ClosedIsEmpty, PoolTypeOK
<1>10. NoneIsLost'
  <2>1. Begun \ {j} \subseteq Begun'
    BY DEF Begun, PoolTypeOK
  <2> QED BY <1>1, <1>3, <2>1 DEF NoneIsLost, PoolTypeOK
<1> QED BY <1>2, <1>8, <1>9, <1>10

\* Opening, closing and waiting for the jobs touch neither queue nor slots.
LEMMA PhaseJobs ==
  ASSUME JobsInv, Open \/ Close \/ Drained \/ UNCHANGED vars PROVE JobsInv'
<1>1. Queued' = Queued /\ Begun' = Begun /\ pending' = pending /\ active' = active
        /\ fate' = fate
  BY DEF Queued, Begun, Open, Close, Drained, vars
<1>2. phase' \in {"open", "closing", "closed"}
  BY DEF Open, Close, Drained, vars, JobsInv, PoolTypeOK
<1>3. ClosedIsEmpty'
  BY <1>1 DEF ClosedIsEmpty, JobsInv, Open, Close, Drained, vars
<1> QED BY <1>1, <1>2, <1>3 DEF JobsInv, PoolTypeOK, InOnePlace, NoneIsLost

LEMMA StepJobs == ASSUME Idle \notin Jobs, JobsInv, [Next]_vars PROVE JobsInv'
  BY AcceptJobs, RefuseJobs, BeginJobs, FinishJobs, PhaseJobs DEF Next

\* A pool that keeps its promise has every job it has accepted and not done in one place,
\* once, and none when it is closed, however it is opened, closed and handed jobs.
THEOREM JobsAreInOnePlace ==
  ASSUME Idle \notin Jobs PROVE Spec => [](InOnePlace /\ NoneIsLost /\ ClosedIsEmpty)
<1>1. Init => JobsInv
  BY InitJobs
<1>2. JobsInv /\ [Next]_vars => JobsInv'
  BY StepJobs
<1>3. JobsInv => InOnePlace /\ NoneIsLost /\ ClosedIsEmpty
  BY DEF JobsInv
<1> QED BY <1>1, <1>2, <1>3, PTL DEF Spec
------------------------------------------------------------------------------
(* The jobs count down. *)

\* A job that is new is accepted, begun and done, or refused.
Busy == {s \in Slots : active[s] # Idle}
New == {j \in Jobs : fate[j] = "new"}
JobsLeft == 3 * Cardinality(New) + 2 * Len(pending) + Cardinality(Busy)

\* Whatever happens to a job leaves less to happen to it, and opening and closing the pool
\* gives nobody anything to do.
JobsCountDown ==
  [][/\ (\E j \in Jobs : Accept(j) \/ Refuse(j)) \/ (\E s \in Slots : Begin(s) \/ Finish(s))
          => JobsLeft' < JobsLeft
     /\ JobsLeft' <= JobsLeft]_vars

LEMMA JobsLeftType ==
  ASSUME IsFiniteSet(Jobs), IsFiniteSet(Slots), PoolTypeOK
  PROVE  /\ IsFiniteSet(New) /\ IsFiniteSet(Busy)
         /\ Cardinality(New) \in Nat /\ Cardinality(Busy) \in Nat
         /\ Len(pending) \in Nat /\ JobsLeft \in Nat
<1>1. New \subseteq Jobs /\ Busy \subseteq Slots
  BY DEF New, Busy
<1>2. /\ IsFiniteSet(New) /\ IsFiniteSet(Busy)
      /\ Cardinality(New) \in Nat /\ Cardinality(Busy) \in Nat
  BY <1>1, FS_Subset, FS_CardinalityType
<1>3. Len(pending) \in Nat
  BY LenProperties DEF PoolTypeOK
<1> QED BY <1>2, <1>3 DEF JobsLeft

LEMMA JobsLeftStep ==
  ASSUME IsFiniteSet(Jobs), IsFiniteSet(Slots), Idle \notin Jobs, JobsInv, [Next]_vars
  PROVE  /\ (\E j \in Jobs : Accept(j) \/ Refuse(j)) \/ (\E s \in Slots : Begin(s) \/ Finish(s))
              => JobsLeft' < JobsLeft
         /\ JobsLeft' <= JobsLeft /\ JobsLeft \in Nat /\ JobsLeft' \in Nat
<1>0. PoolTypeOK
  BY DEF JobsInv
<1>1. /\ IsFiniteSet(New) /\ IsFiniteSet(Busy)
      /\ Cardinality(New) \in Nat /\ Cardinality(Busy) \in Nat
      /\ Len(pending) \in Nat /\ JobsLeft \in Nat
  BY <1>0, JobsLeftType
<1>2. ASSUME NEW j \in Jobs, Accept(j) \/ Refuse(j) PROVE JobsLeft' < JobsLeft /\ JobsLeft' \in Nat
  <2>1. New' = New \ {j} /\ j \in New /\ Busy' = Busy
    BY <1>0, <1>2 DEF Accept, Refuse, New, Busy, PoolTypeOK
  <2>2. Cardinality(New') = Cardinality(New) - 1 /\ Cardinality(New') \in Nat
    BY <1>1, <2>1, FS_RemoveElement, FS_CardinalityType
  <2>3. Len(pending') = Len(pending) \/ Len(pending') = Len(pending) + 1
    BY <1>0, <1>2, AppendProperties DEF Accept, Refuse, PoolTypeOK
  <2>4. JobsLeft' = 3 * (Cardinality(New) - 1) + 2 * Len(pending') + Cardinality(Busy)
    BY <2>1, <2>2 DEF JobsLeft
  <2>5. Cardinality(New) >= 1
    BY <1>1, <2>2
  <2> HIDE DEF New, Busy
  <2>6. JobsLeft = 3 * Cardinality(New) + 2 * Len(pending) + Cardinality(Busy)
    BY DEF JobsLeft
  <2>7. /\ Cardinality(New) \in Nat /\ Cardinality(Busy) \in Nat /\ Len(pending) \in Nat
    BY <1>1
  <2>8. ASSUME NEW n \in Nat, n >= 1, NEW b \in Nat, NEW l \in Nat, NEW m \in {l, l + 1}
        PROVE  3 * (n - 1) + 2 * m + b < 3 * n + 2 * l + b /\ 3 * (n - 1) + 2 * m + b \in Nat
    BY <2>8
  <2> QED BY <2>3, <2>4, <2>5, <2>6, <2>7, <2>8
<1>3. ASSUME NEW s \in Slots, Begin(s) PROVE JobsLeft' < JobsLeft /\ JobsLeft' \in Nat
  <2>1. Head(pending) \in Jobs /\ Len(pending') = Len(pending) - 1 /\ Len(pending) >= 1
    BY <1>0, <1>3, HeadTailProperties, EmptySeq DEF Begin, PoolTypeOK
  <2>2. Busy' = Busy \cup {s} /\ s \notin Busy /\ New' = New
    BY <1>0, <1>3, <2>1 DEF Begin, Busy, New, PoolTypeOK
  <2>3. Cardinality(Busy') = Cardinality(Busy) + 1
    BY <1>1, <2>2, FS_AddElement
  <2> QED BY <1>1, <2>1, <2>2, <2>3 DEF JobsLeft
<1>4. ASSUME NEW s \in Slots, Finish(s) PROVE JobsLeft' < JobsLeft /\ JobsLeft' \in Nat
  <2>1. Busy' = Busy \ {s} /\ s \in Busy /\ pending' = pending
    BY <1>0, <1>4 DEF Finish, Busy, PoolTypeOK
  <2>2. New' = New
    BY <1>0, <1>4 DEF Finish, New, JobsInv, InOnePlace, Begun, PoolTypeOK
  <2>3. Cardinality(Busy') = Cardinality(Busy) - 1 /\ Cardinality(Busy') \in Nat
    BY <1>1, <2>1, FS_RemoveElement, FS_CardinalityType
  <2> QED BY <1>1, <2>1, <2>2, <2>3 DEF JobsLeft
<1>5. ASSUME Open \/ Close \/ Drained \/ UNCHANGED vars PROVE JobsLeft' = JobsLeft
  BY <1>5 DEF Open, Close, Drained, vars, JobsLeft, New, Busy
<1>6. CASE \/ \E j \in Jobs : Accept(j) \/ Refuse(j)
           \/ \E s \in Slots : Begin(s) \/ Finish(s)
  <2>1. JobsLeft' < JobsLeft /\ JobsLeft' \in Nat
    BY <1>2, <1>3, <1>4, <1>6
  <2> QED BY <1>1, <2>1
<1>7. CASE ~(\/ \E j \in Jobs : Accept(j) \/ Refuse(j)
             \/ \E s \in Slots : Begin(s) \/ Finish(s))
  <2>1. JobsLeft' = JobsLeft
    BY <1>5, <1>7 DEF Next
  <2> QED BY <1>1, <1>7, <2>1
<1> QED BY <1>6, <1>7

\* Finitely many jobs take a bounded number of steps, however often the pool is opened and
\* closed between them.
THEOREM PoolCountsDown ==
  ASSUME IsFiniteSet(Jobs), IsFiniteSet(Slots), Idle \notin Jobs
  PROVE  Spec => JobsCountDown
<1>1. Init => JobsInv
  BY InitJobs
<1>2. JobsInv /\ [Next]_vars => JobsInv'
  BY StepJobs
<1>3. JobsInv /\ [Next]_vars
        => [/\ \/ \E j \in Jobs : Accept(j) \/ Refuse(j)
               \/ \E s \in Slots : Begin(s) \/ Finish(s)
               => JobsLeft' < JobsLeft
            /\ JobsLeft' <= JobsLeft]_vars
  BY JobsLeftStep
<1> QED BY <1>1, <1>2, <1>3, PTL DEF Spec, JobsCountDown
==============================================================================
