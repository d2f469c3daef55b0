------------------------- MODULE StaticServingProofs -------------------------
(***************************************************************************)
(* Theorems about RequestPaths and StaticServing, for any text, clients,   *)
(* targets, pages and links and any limits.                                *)
(***************************************************************************)
EXTENDS StaticServing, FiniteSetTheorems, WellFoundedInduction, SequenceTheorems, TLAPS
------------------------------------------------------------------------------
(* Induction *)

\* The numbers are well-founded, which gives induction over a set of them.
LEMMA Least == ASSUME NEW T, T \subseteq Nat, T # {}
               PROVE  \E m \in T : \A k \in T : m <= k
<1>1. PICK m \in T : \A k \in T : ~(<<k, m>> \in OpToRel(<, Nat))
  BY NatLessThanWellFounded, WFMin
<1>2. \A k \in T : ~(k < m)
  BY <1>1 DEF OpToRel
<1> QED BY <1>2

LEMMA Induction == ASSUME NEW T, 0 \in T, \A n \in Nat : n \in T => n + 1 \in T
                   PROVE  \A n \in Nat : n \in T
<1> SUFFICES ASSUME NEW n \in Nat, n \notin T PROVE FALSE
  OBVIOUS
<1> DEFINE U == {i \in Nat : i \notin T}
<1>1. PICK m \in U : \A k \in U : m <= k
  <2>1. U \subseteq Nat /\ U # {}
    OBVIOUS
  <2> HIDE DEF U
  <2> QED BY <2>1, Least
<1>2. m # 0 /\ m \in Nat /\ m \notin T
  OBVIOUS
<1>3. m - 1 \in Nat /\ m - 1 \notin U /\ (m - 1) + 1 = m
  BY <1>1, <1>2
<1> QED BY <1>2, <1>3

------------------------------------------------------------------------------
(* Folds *)

\* The largest of some of the first n numbers.
LEMMA MaxOfSome ==
  ASSUME NEW n \in Nat, NEW s, s \subseteq 1..n, s # {}
  PROVE  Max(s) \in s /\ \A y \in s : y <= Max(s)
<1> DEFINE U == {m \in Nat : \A y \in s : y <= m}
<1>1. U \subseteq Nat /\ n \in U
  OBVIOUS
<1>2. PICK m \in U : \A k \in U : m <= k
  <2> HIDE DEF U
  <2> QED BY <1>1, Least
<1>3. m \in s
  <2> SUFFICES ASSUME m \notin s PROVE FALSE
    OBVIOUS
  <2>1. PICK y \in s : y \in 1..n /\ y <= m
    BY <1>2
  <2>2. m - 1 \in Nat /\ \A z \in s : z <= m - 1
    BY <1>2, <2>1
  <2>3. m - 1 \in U
    BY <2>2
  <2> QED BY <1>2, <2>3
<1>4. \E x \in s : \A y \in s : x >= y
  BY <1>2, <1>3
<1>5. Max(s) \in s /\ \A y \in s : Max(s) >= y
  BY <1>4 DEF Max
<1> QED BY <1>5

\* A fold over the first n numbers from the left, as MapThenFoldSet defines it: on the sets
\* of numbers still to be folded, by a step F that is a function.
IsFold(it, b, F, n) ==
  it = [s \in SUBSET (1..n) |-> IF s = {} THEN b ELSE F[<<it[s \ {Max(s)}], Max(s)>>]]
StaysIn(it, D, n) == \A s \in SUBSET (1..n) : it[s] \in D

LEMMA FoldGrows ==
  ASSUME NEW D, NEW b \in D, NEW n \in Nat, NEW F \in [D \X (1..n) -> D],
         NEW m \in Nat, m + 1 <= n,
         NEW old, IsFold(old, b, F, m), StaysIn(old, D, m)
  PROVE  \E it : IsFold(it, b, F, m + 1) /\ StaysIn(it, D, m + 1)
<1> DEFINE it == [s \in SUBSET (1..(m + 1)) |->
                    IF m + 1 \in s THEN F[<<old[s \ {m + 1}], m + 1>>] ELSE old[s]]
<1>1. m + 1 \in Nat /\ m + 1 \in 1..n
  OBVIOUS
<1>2. ASSUME NEW s \in SUBSET (1..(m + 1)), m + 1 \in s
      PROVE  /\ s \ {m + 1} \in SUBSET (1..m) /\ Max(s) = m + 1
             /\ s \ {m + 1} \in SUBSET (1..(m + 1))
  <2>1. s \ {m + 1} \in SUBSET (1..m) /\ s \ {m + 1} \in SUBSET (1..(m + 1))
    OBVIOUS
  <2>2. Max(s) \in s /\ \A y \in s : y <= Max(s)
    BY <1>1, <1>2, MaxOfSome
  <2>3. Max(s) \in 1..(m + 1) /\ m + 1 <= Max(s)
    BY <1>2, <2>2
  <2> QED BY <2>1, <2>3
<1>3. ASSUME NEW s \in SUBSET (1..(m + 1)), m + 1 \notin s
      PROVE  /\ s \in SUBSET (1..m)
             /\ s # {} => Max(s) \in s /\ s \ {Max(s)} \in SUBSET (1..m)
  <2>1. s \in SUBSET (1..m)
    BY <1>3
  <2>2. s # {} => Max(s) \in s
    BY <2>1, MaxOfSome
  <2> QED BY <2>1, <2>2
<1>4. ASSUME NEW s \in SUBSET (1..(m + 1))
      PROVE  /\ it[s] = IF s = {} THEN b ELSE F[<<it[s \ {Max(s)}], Max(s)>>]
             /\ it[s] \in D
  <2>1. CASE m + 1 \in s
    <3>1. it[s] = F[<<old[s \ {m + 1}], m + 1>>] /\ it[s \ {m + 1}] = old[s \ {m + 1}]
      BY <1>2, <2>1
    <3>2. old[s \ {m + 1}] \in D
      BY <1>2, <2>1 DEF StaysIn
    <3>3. <<old[s \ {m + 1}], m + 1>> \in D \X (1..n)
      BY <1>1, <3>2
    <3>4. s # {} /\ Max(s) = m + 1
      BY <1>2, <2>1
    <3> HIDE DEF it
    <3> QED BY <3>1, <3>3, <3>4
  <2>2. CASE m + 1 \notin s
    <3>1. it[s] = old[s] /\ (s # {} => it[s \ {Max(s)}] = old[s \ {Max(s)}])
      BY <1>3, <2>2
    <3>2. /\ old[s] = IF s = {} THEN b ELSE F[<<old[s \ {Max(s)}], Max(s)>>]
          /\ old[s] \in D
      BY <1>3, <2>2 DEF IsFold, StaysIn
    <3> HIDE DEF it
    <3> QED BY <3>1, <3>2
  <2> QED BY <2>1, <2>2
<1>5. it = [s \in SUBSET (1..(m + 1)) |-> it[s]]
  OBVIOUS
<1> HIDE DEF it
<1>6. IsFold(it, b, F, m + 1)
  BY <1>4, <1>5, Zenon DEF IsFold
<1>7. StaysIn(it, D, m + 1)
  BY <1>4 DEF StaysIn
<1> QED BY <1>6, <1>7

\* Such a fold exists, and keeps to the set D of the values of its step.
LEMMA FoldExists ==
  ASSUME NEW D, NEW b \in D, NEW n \in Nat, NEW F \in [D \X (1..n) -> D]
  PROVE  \E it : IsFold(it, b, F, n) /\ StaysIn(it, D, n)
<1> DEFINE T == {m \in Nat : m <= n => \E it : IsFold(it, b, F, m) /\ StaysIn(it, D, m)}
<1>1. 0 \in T
  <2> DEFINE it == [s \in SUBSET (1..0) |-> b]
  <2>1. \A s \in SUBSET (1..0) : s = {}
    OBVIOUS
  <2>2. IsFold(it, b, F, 0) /\ StaysIn(it, D, 0)
    BY <2>1 DEF IsFold, StaysIn
  <2> QED BY <2>2
<1>2. ASSUME NEW m \in Nat, m \in T PROVE m + 1 \in T
  <2>1. ASSUME m + 1 <= n PROVE \E it : IsFold(it, b, F, m + 1) /\ StaysIn(it, D, m + 1)
    <3>1. m <= n
      BY <2>1
    <3>2. PICK old : IsFold(old, b, F, m) /\ StaysIn(old, D, m)
      BY <1>2, <3>1
    <3> QED BY <2>1, <3>2, FoldGrows
  <2> QED BY <2>1
<1>3. n \in T
  <2> HIDE DEF T
  <2> QED BY <1>1, <1>2, Induction
<1> QED BY <1>3

\* What such a fold does to the first i numbers is its step on what it does to the first
\* i - 1.
LEMMA FoldOfFirst ==
  ASSUME NEW n \in Nat, NEW i \in 1..n
  PROVE  /\ 1..i \in SUBSET (1..n) /\ 1..i # {} /\ Max(1..i) = i
         /\ (1..i) \ {i} = 1..(i - 1)
<1>1. i \in Nat /\ 1..i \subseteq 1..n /\ 1..i # {} /\ (1..i) \ {i} = 1..(i - 1)
  OBVIOUS
<1>2. Max(1..i) \in 1..i /\ \A y \in 1..i : y <= Max(1..i)
  BY <1>1, MaxOfSome
<1>3. i \in 1..i
  OBVIOUS
<1>4. i <= Max(1..i) /\ Max(1..i) <= i
  BY <1>2, <1>3
<1> QED BY <1>1, <1>2, <1>4

\* What holds of nothing folded, and of the first i numbers when it holds of the first i - 1,
\* holds all the way.
LEMMA FoldReaches ==
  ASSUME NEW D, NEW n \in Nat, NEW it, it[1..0] \in D,
         \A i \in 1..n : it[1..(i - 1)] \in D => it[1..i] \in D
  PROVE  \A i \in 0..n : it[1..i] \in D
<1> DEFINE T == {i \in Nat : i <= n => it[1..i] \in D}
<1>1. 0 \in T
  OBVIOUS
<1>2. ASSUME NEW i \in Nat, i \in T PROVE i + 1 \in T
  <2>1. CASE i + 1 <= n
    <3>1. i + 1 \in 1..n /\ (i + 1) - 1 = i /\ it[1..i] \in D
      BY <1>2, <2>1
    <3>2. it[1..(i + 1)] \in D
      BY <3>1
    <3> QED BY <3>2
  <2>2. CASE ~(i + 1 <= n)
    BY <2>2
  <2> QED BY <2>1, <2>2
<1> HIDE DEF T
<1>3. \A i \in Nat : i \in T
  BY <1>1, <1>2, Induction
<1> QED BY <1>3 DEF T

\* A function on a first stretch of the numbers is a sequence.
LEMMA FunctionIsSeq ==
  ASSUME NEW S, NEW n \in Nat, NEW s \in [1..n -> S]
  PROVE  s \in Seq(S) /\ Len(s) = n
<1>1. s \in Seq(S)
  BY SeqDef
<1> QED BY <1>1, LenProperties
------------------------------------------------------------------------------
(* Paths *)

\* One token changes a directory: names of O stay names of O.
Steps == {"/", ".", ".."}
LEMMA DownType ==
  ASSUME NEW O, NEW names \in Seq(O), NEW t \in O \cup Steps
  PROVE  Down(names, t) \in Seq(O)
<1>1. CASE t \in {"/", "."}
  BY <1>1 DEF Down
<1>2. CASE t = ".."
  <2>1. CASE names = <<>>
    BY <1>2, <2>1 DEF Down
  <2>2. CASE names # <<>>
    <3>1. Len(names) \in Nat /\ Len(names) - 1 \in Nat /\ 1 \in Int /\ Len(names) - 1 \in Int
      BY <2>2, EmptySeq
    <3>2. \A i \in 1..(Len(names) - 1) : names[i] \in O
      BY <3>1, ElementOfSeq
    <3>3. SubSeq(names, 1, Len(names) - 1) \in Seq(O)
      BY <3>1, <3>2, SubSeqProperties
    <3> QED BY <1>2, <2>2, <3>3 DEF Down, Front
  <2> QED BY <2>1, <2>2
<1>3. CASE t \notin Steps
  <2>1. Append(names, t) \in Seq(O)
    BY <1>3, AppendProperties
  <2> QED BY <1>3, <2>1 DEF Down, Steps
<1> QED BY <1>1, <1>2, <1>3 DEF Steps

\* A walk: where each token of a text leads from the directory base.
IsWalk(h, base, text) == /\ h[0] = base
                         /\ \A i \in 1..Len(text) : h[i] = Down(h[i - 1], text[i])

\* The fold of Down over a text is the end of the walk.
LEMMA FoldIsWalk ==
  ASSUME NEW O, NEW base \in Seq(O), NEW text \in Seq(O \cup Steps)
  PROVE  \E h \in [0..Len(text) -> Seq(O)] :
           IsWalk(h, base, text) /\ FoldLeft(Down, base, text) = h[Len(text)]
<1> DEFINE n == Len(text)
           F == [x \in Seq(O) \X (1..n) |-> Down(x[1], text[x[2]])]
           Walks(it) == it = [s \in SUBSET (1..n) |->
                                IF s = {} THEN base
                                ELSE Down(it[s \ {Max(s)}], text[Max(s)])]
           it0 == CHOOSE it : Walks(it)
<1>1. n \in Nat /\ DOMAIN text = 1..n /\ \A i \in 1..n : text[i] \in O \cup Steps
  BY LenProperties, ElementOfSeq
<1>2. FoldLeft(Down, base, text) = it0[1..n]
  <2>1. FoldLeft(Down, base, text) =
          (CHOOSE it : it = [s \in SUBSET DOMAIN text |->
                               IF s = {} THEN base
                               ELSE Down(it[s \ {Max(s)}], text[Max(s)])])[DOMAIN text]
    BY DEF FoldLeft, MapThenFoldSet
  <2> QED BY <1>1, <2>1
<1>3. F \in [Seq(O) \X (1..n) -> Seq(O)]
  BY <1>1, DownType
<1>4. \E it : Walks(it) /\ StaysIn(it, Seq(O), n)
  <2> HIDE DEF F, n
  <2>1. PICK it : IsFold(it, base, F, n) /\ StaysIn(it, Seq(O), n)
    BY <1>1, <1>3, FoldExists
  <2>2. ASSUME NEW s \in SUBSET (1..n), s # {}
        PROVE  F[<<it[s \ {Max(s)}], Max(s)>>] = Down(it[s \ {Max(s)}], text[Max(s)])
    <3>1. Max(s) \in 1..n /\ it[s \ {Max(s)}] \in Seq(O)
      BY <1>1, <2>1, <2>2, MaxOfSome DEF StaysIn
    <3> QED BY <3>1 DEF F
  <2>3. Walks(it)
    BY <2>1, <2>2 DEF IsFold
  <2> QED BY <2>1, <2>3
<1>5. Walks(it0)
  <2> HIDE DEF Walks
  <2> QED BY <1>4
<1> DEFINE h == [i \in 0..n |-> it0[1..i]]
<1> HIDE DEF it0, F, n
<1>6. it0[1..0] = base
  <2>1. 1..0 = {}
    OBVIOUS
  <2>2. {} \in SUBSET (1..n)
    OBVIOUS
  <2> QED BY <1>5, <2>1, <2>2
<1>7. ASSUME NEW i \in 1..n PROVE it0[1..i] = Down(it0[1..(i - 1)], text[i])
  <2> DEFINE s == 1..i
  <2>1. s \in SUBSET (1..n) /\ s # {} /\ Max(s) = i /\ s \ {i} = 1..(i - 1)
    BY <1>1, FoldOfFirst
  <2> HIDE DEF s
  <2>2. it0[s] = Down(it0[s \ {Max(s)}], text[Max(s)])
    BY <1>5, <2>1
  <2>3. it0[s] = Down(it0[1..(i - 1)], text[i])
    BY <2>1, <2>2
  <2> QED BY <2>3 DEF s
<1>8. \A i \in 0..n : it0[1..i] \in Seq(O)
  <2>1. \A i \in 1..n : it0[1..(i - 1)] \in Seq(O) => it0[1..i] \in Seq(O)
    BY <1>1, <1>7, DownType
  <2> QED BY <1>1, <1>6, <2>1, FoldReaches
<1>9. h \in [0..n -> Seq(O)]
  BY <1>1, <1>8
<1>10. IsWalk(h, base, text)
  <2>1. h[0] = base
    BY <1>1, <1>6
  <2>2. ASSUME NEW i \in 1..n PROVE h[i] = Down(h[i - 1], text[i])
    BY <1>1, <1>7
  <2> QED BY <2>1, <2>2 DEF IsWalk, n
<1>11. FoldLeft(Down, base, text) = h[n]
  BY <1>1, <1>2
<1> QED BY <1>9, <1>10, <1>11 DEF n

\* Two walks along one text are one.
LEMMA WalksAgree ==
  ASSUME NEW g, NEW h, NEW base, NEW text, Len(text) \in Nat,
         IsWalk(g, base, text), IsWalk(h, base, text)
  PROVE  \A i \in 0..Len(text) : g[i] = h[i]
<1> DEFINE T == {i \in Nat : i <= Len(text) => g[i] = h[i]}
<1>1. 0 \in T
  BY DEF IsWalk
<1>2. ASSUME NEW i \in Nat, i \in T PROVE i + 1 \in T
  <2>1. CASE i + 1 <= Len(text)
    <3>1. i + 1 \in 1..Len(text) /\ (i + 1) - 1 = i /\ g[i] = h[i]
      BY <1>2, <2>1
    <3>2. g[i + 1] = Down(g[i], text[i + 1]) /\ h[i + 1] = Down(h[i], text[i + 1])
      BY <3>1 DEF IsWalk
    <3> QED BY <3>1, <3>2
  <2>2. CASE ~(i + 1 <= Len(text))
    BY <2>2
  <2> QED BY <2>1, <2>2
<1> HIDE DEF T
<1>3. \A i \in Nat : i \in T
  BY <1>1, <1>2, Induction
<1> QED BY <1>3 DEF T

\* So whatever walk there is along a text, the fold is its end.
LEMMA WalkIsFold ==
  ASSUME NEW O, NEW base \in Seq(O), NEW text \in Seq(O \cup Steps),
         NEW h, IsWalk(h, base, text)
  PROVE  FoldLeft(Down, base, text) = h[Len(text)]
<1>1. PICK g \in [0..Len(text) -> Seq(O)] :
        IsWalk(g, base, text) /\ FoldLeft(Down, base, text) = g[Len(text)]
  BY FoldIsWalk
<1>2. Len(text) \in Nat
  BY LenProperties
<1>3. \A i \in 0..Len(text) : g[i] = h[i]
  BY <1>1, <1>2, WalksAgree
<1> QED BY <1>1, <1>2, <1>3

LEMMA FoldType ==
  ASSUME NEW O, NEW base \in Seq(O), NEW text \in Seq(O \cup Steps)
  PROVE  FoldLeft(Down, base, text) \in Seq(O)
<1>1. Len(text) \in Nat
  BY LenProperties
<1> QED BY <1>1, FoldIsWalk

\* Following one text and then another is following both at once.
LEMMA FoldOfConcat ==
  ASSUME NEW O, NEW base \in Seq(O), NEW s \in Seq(O \cup Steps), NEW t \in Seq(O \cup Steps)
  PROVE  FoldLeft(Down, base, s \o t) = FoldLeft(Down, FoldLeft(Down, base, s), t)
<1> DEFINE mid == FoldLeft(Down, base, s)
<1>1. PICK g \in [0..Len(s) -> Seq(O)] : IsWalk(g, base, s) /\ mid = g[Len(s)]
  BY FoldIsWalk
<1>2. mid \in Seq(O)
  BY FoldType
<1> HIDE DEF mid
<1>3. PICK h \in [0..Len(t) -> Seq(O)] :
        IsWalk(h, mid, t) /\ FoldLeft(Down, mid, t) = h[Len(t)]
  BY <1>2, FoldIsWalk
<1> DEFINE n == Len(s)
           m == Len(t)
           both == [i \in 0..(n + m) |-> IF i <= n THEN g[i] ELSE h[i - n]]
<1>4. /\ n \in Nat /\ m \in Nat /\ Len(s \o t) = n + m /\ s \o t \in Seq(O \cup Steps)
      /\ \A i \in 1..(n + m) : (s \o t)[i] = IF i <= n THEN s[i] ELSE t[i - n]
  BY LenProperties, ConcatProperties
<1> HIDE DEF n, m
<1>5. both[0] = base /\ both[n + m] = h[m]
  <2>1. g[0] = base /\ h[0] = g[n]
    BY <1>1, <1>3 DEF IsWalk, n
  <2> QED BY <1>4, <2>1
<1>6. ASSUME NEW i \in 1..(n + m) PROVE both[i] = Down(both[i - 1], (s \o t)[i])
  <2>1. CASE i <= n
    <3>1. i \in 1..n /\ both[i] = g[i] /\ both[i - 1] = g[i - 1] /\ (s \o t)[i] = s[i]
      BY <1>4, <2>1
    <3> QED BY <1>1, <3>1 DEF IsWalk, n
  <2>2. CASE ~(i <= n)
    <3>1. /\ i - n \in 1..m /\ both[i] = h[i - n] /\ (s \o t)[i] = t[i - n]
          /\ (i - n) - 1 = (i - 1) - n
      BY <1>4, <2>2
    <3>2. both[i - 1] = h[(i - n) - 1]
      <4>1. h[0] = g[n]
        BY <1>1, <1>3 DEF IsWalk, n
      <4>2. CASE i - 1 = n
        BY <1>4, <2>2, <4>1, <4>2
      <4>3. CASE i - 1 # n
        BY <1>4, <2>2, <4>3
      <4> QED BY <4>2, <4>3
    <3>3. h[i - n] = Down(h[(i - n) - 1], t[i - n])
      BY <1>3, <3>1 DEF IsWalk, m
    <3> HIDE DEF both
    <3> QED BY <3>1, <3>2, <3>3
  <2> QED BY <2>1, <2>2
<1> HIDE DEF both
<1>7. IsWalk(both, base, s \o t)
  BY <1>4, <1>5, <1>6 DEF IsWalk
<1>8. FoldLeft(Down, base, s \o t) = both[n + m]
  BY <1>4, <1>7, WalkIsFold
<1> QED BY <1>3, <1>5, <1>8 DEF m, mid

\* The least of some of the first n numbers.
LEMMA MinOfSome ==
  ASSUME NEW n \in Nat, NEW s, s \subseteq 1..n, s # {}
  PROVE  Min(s) \in s /\ \A y \in s : Min(s) <= y
<1>1. s \subseteq Nat
  OBVIOUS
<1>2. \E x \in s : \A y \in s : x <= y
  BY <1>1, Least
<1> QED BY <1>2 DEF Min

\* Before cuts a text at the first mark, or nowhere.
LEMMA BeforeCuts ==
  ASSUME NEW S, NEW text \in Seq(S), NEW marks
  PROVE  \E k \in 0..Len(text) : /\ Before(text, marks) = SubSeq(text, 1, k)
                                 /\ \A i \in 1..k : text[i] \notin marks
                                 /\ k < Len(text) => text[k + 1] \in marks
<1> DEFINE I == {i \in 1..Len(text) : text[i] \in marks}
           at == SelectInSeq(text, LAMBDA t : t \in marks)
<1>1. Len(text) \in Nat /\ I \subseteq 1..Len(text)
  BY LenProperties
<1>2. at = IF I # {} THEN Min(I) ELSE 0
  BY DEF SelectInSeq
<1>3. Before(text, marks) = IF at = 0 THEN text ELSE SubSeq(text, 1, at - 1)
  BY DEF Before
<1>4. \A i \in 1..Len(text) : text[i] \in marks <=> i \in I
  OBVIOUS
<1> HIDE DEF at, I
<1>5. CASE I = {}
  <2>1. Before(text, marks) = SubSeq(text, 1, Len(text))
    BY <1>2, <1>3, <1>5, SubSeqFull
  <2> QED BY <1>1, <1>4, <1>5, <2>1
<1>6. CASE I # {}
  <2>1. at \in I /\ \A y \in I : at <= y
    BY <1>1, <1>2, <1>6, MinOfSome
  <2>2. at \in 1..Len(text) /\ at - 1 \in 0..Len(text) /\ (at - 1) + 1 = at
    BY <1>1, <2>1
  <2>3. Before(text, marks) = SubSeq(text, 1, at - 1)
    BY <1>3, <2>2
  <2>4. \A i \in 1..(at - 1) : text[i] \notin marks
    BY <1>1, <1>4, <2>1, <2>2
  <2>5. text[at] \in marks
    BY <1>4, <2>1, <2>2
  <2> QED BY <2>2, <2>3, <2>4, <2>5
<1> QED BY <1>5, <1>6

\* A beginning of a sequence.
LEMMA Beginning ==
  ASSUME NEW S, NEW s \in Seq(S), NEW k \in 0..Len(s)
  PROVE  /\ Len(SubSeq(s, 1, k)) = k
         /\ \A i \in 1..k : SubSeq(s, 1, k)[i] = s[i]
         /\ \A T : (\A i \in 1..k : s[i] \in T) => SubSeq(s, 1, k) \in Seq(T)
<1>1. Len(s) \in Nat /\ k \in Nat /\ k \in Int /\ 1 \in Int
  BY LenProperties
<1>2. ASSUME NEW T, \A i \in 1..k : s[i] \in T
      PROVE  /\ SubSeq(s, 1, k) \in Seq(T)
             /\ Len(SubSeq(s, 1, k)) = IF 1 <= k THEN k - 1 + 1 ELSE 0
             /\ \A i \in 1..(k - 1 + 1) : SubSeq(s, 1, k)[i] = s[1 + i - 1]
    BY <1>1, <1>2, SubSeqProperties
<1>3. \A i \in 1..k : s[i] \in S
  BY <1>1, ElementOfSeq
<1>4. /\ Len(SubSeq(s, 1, k)) = IF 1 <= k THEN k - 1 + 1 ELSE 0
      /\ \A i \in 1..(k - 1 + 1) : SubSeq(s, 1, k)[i] = s[1 + i - 1]
  BY <1>2, <1>3
<1>5. Len(SubSeq(s, 1, k)) = k /\ \A i \in 1..k : SubSeq(s, 1, k)[i] = s[i]
  BY <1>1, <1>4
<1> QED BY <1>2, <1>5

LEMMA BeforeType ==
  ASSUME NEW S, NEW text \in Seq(S), NEW marks
  PROVE  Before(text, marks) \in Seq(S \ marks)
<1>1. PICK k \in 0..Len(text) : /\ Before(text, marks) = SubSeq(text, 1, k)
                                /\ \A i \in 1..k : text[i] \notin marks
  BY BeforeCuts
<1>2. \A i \in 1..k : text[i] \in S \ marks
  BY <1>1, LenProperties, ElementOfSeq
<1> QED BY <1>1, <1>2, Beginning

\* The names a normal path is made of, and the normal paths: the root is a directory.
Ordinary == STRING \ {"/", "\\", "?", "#", ".", ".."}
NormalPaths == {p \in [names : Seq(Ordinary), dir : BOOLEAN] : p.names = <<>> => p.dir}

LEMMA NormalPathsArePaths == NormalPaths \subseteq Paths
<1>1. Ordinary \subseteq STRING
  BY DEF Ordinary
<1>2. \A s \in Seq(Ordinary) : s \in Seq(STRING)
  BY <1>1, SeqMonotonic
<1> QED BY <1>2 DEF NormalPaths, Paths

\* What is left of a text without its query and its backslashes.
LEMMA SlashedType ==
  ASSUME NEW S, NEW text \in Seq(S)
  PROVE  /\ Slashed(text) \in Seq((S \ {"\\"}) \cup {"/"})
         /\ Len(Slashed(text)) = Len(text)
         /\ \A i \in 1..Len(text) : Slashed(text)[i] = IF text[i] = "\\" THEN "/" ELSE text[i]
<1>1. Len(text) \in Nat /\ DOMAIN text = 1..Len(text) /\ \A i \in 1..Len(text) : text[i] \in S
  BY LenProperties, ElementOfSeq
<1>2. Slashed(text) \in [1..Len(text) -> (S \ {"\\"}) \cup {"/"}]
  BY <1>1 DEF Slashed
<1> QED BY <1>1, <1>2, FunctionIsSeq DEF Slashed

LEMMA CleanType ==
  ASSUME NEW text \in Seq(STRING)
  PROVE  Slashed(StripQueryAndFragment(text)) \in Seq(Ordinary \cup Steps)
<1>1. StripQueryAndFragment(text) \in Seq(STRING \ {"?", "#"})
  BY BeforeType DEF StripQueryAndFragment
<1> DEFINE rest == ((STRING \ {"?", "#"}) \ {"\\"}) \cup {"/"}
<1>2. Slashed(StripQueryAndFragment(text)) \in Seq(rest)
  BY <1>1, SlashedType
<1>3. rest \subseteq Ordinary \cup Steps
  BY DEF Ordinary, Steps
<1> HIDE DEF rest
<1> QED BY <1>2, <1>3, SeqMonotonic

\* Whatever is joined to a directory of ordinary names is a normal path.
LEMMA NormalType ==
  ASSUME NEW base \in Seq(Ordinary), NEW text \in Seq(Ordinary \cup Steps)
  PROVE  Normal(base, text) \in NormalPaths
<1>1. FoldLeft(Down, base, text) \in Seq(Ordinary)
  BY FoldType
<1> QED BY <1>1 DEF Normal, NormalPaths

LEMMA UrlDecodeType ==
  ASSUME NEW text \in Seq(STRING)
  PROVE  UrlDecode(text) \in Seq(STRING)
<1>1. Len(text) \in Nat /\ DOMAIN text = 1..Len(text) /\ \A i \in 1..Len(text) : text[i] \in STRING
  BY LenProperties, ElementOfSeq
<1>2. UrlDecode(text) \in [1..Len(text) -> STRING]
  BY <1>1, TokensAssumption DEF UrlDecode
<1> QED BY <1>1, <1>2, FunctionIsSeq

LEMMA EmptyNames == <<>> \in Seq(Ordinary)
  BY EmptySeq

LEMMA NormalizeUrlPathType ==
  ASSUME NEW text \in Seq(STRING) PROVE NormalizeUrlPath(text) \in NormalPaths
  BY CleanType, NormalType, EmptyNames DEF NormalizeUrlPath

\* Whatever a target is, escapes and all, its path is below the document root: no name of
\* it is a dot, two dots or a separator, and nothing of the query is in it.
THEOREM RequestsStayBelowRoot == \A target \in Seq(STRING) : RequestPath(target) \in NormalPaths
<1> SUFFICES ASSUME NEW target \in Seq(STRING) PROVE RequestPath(target) \in NormalPaths
  OBVIOUS
<1>1. Before(target, {"?"}) \in Seq(STRING \ {"?"})
  BY BeforeType
<1>2. Before(target, {"?"}) \in Seq(STRING)
  BY <1>1, SeqMonotonic
<1> QED BY <1>2, UrlDecodeType, NormalizeUrlPathType DEF RequestPath

LEMMA ParentPathType ==
  ASSUME NEW p \in NormalPaths, NEW O, p.names \in Seq(O) PROVE ParentPath(p) \in Seq(O)
<1>1. ~p.dir => p.names # <<>>
  BY DEF NormalPaths
<1>2. CASE p.dir
  BY <1>2 DEF ParentPath
<1>3. CASE ~p.dir
  <2>1. Len(p.names) - 1 \in 0..Len(p.names)
    BY <1>1, <1>3, EmptySeq
  <2>2. \A i \in 1..(Len(p.names) - 1) : p.names[i] \in O
    BY <2>1, ElementOfSeq, LenProperties
  <2>3. SubSeq(p.names, 1, Len(p.names) - 1) \in Seq(O)
    BY <2>1, <2>2, Beginning
  <2> QED BY <1>3, <2>3 DEF ParentPath, Front
<1> QED BY <1>2, <1>3

\* The same of a link, from whatever page.
THEOREM LinksStayBelowRoot ==
  \A base \in NormalPaths, url \in Seq(STRING) :
    NormalizeDependentPath(base, url) \in NormalPaths \cup {NoPath}
<1>1. \A base \in NormalPaths : ParentPath(base) \in Seq(Ordinary)
  BY ParentPathType DEF NormalPaths
<1> QED BY <1>1, CleanType, EmptyNames, NormalType DEF NormalizeDependentPath

LEMMA CacheKeyType ==
  ASSUME NEW p \in NormalPaths PROVE CacheKeyForPath(p) \in NormalPaths
<1>1. "index.html" \in Ordinary
  BY TokensAssumption DEF Ordinary
<1>2. p.names \in Seq(Ordinary)
  BY DEF NormalPaths
<1>3. Append(p.names, "index.html") \in Seq(Ordinary) /\ Append(p.names, "index.html") # <<>>
  BY <1>1, <1>2, AppendProperties
<1> QED BY <1>2, <1>3 DEF CacheKeyForPath, NormalPaths

LEMMA ResolveType ==
  ASSUME NEW p \in NormalPaths PROVE ResolveRequestPath(p) \in Seq(Ordinary)
<1>1. "index.html" \in Ordinary
  BY TokensAssumption DEF Ordinary
<1>2. p.names \in Seq(Ordinary)
  BY DEF NormalPaths
<1> QED BY <1>1, <1>2, AppendProperties DEF ResolveRequestPath
------------------------------------------------------------------------------
(* Normalising again *)

\* generic_string of a normal path: a slash before each name, and one after a directory.
Spelled(p) == [i \in 1..(2 * Len(p.names) + (IF p.dir THEN 1 ELSE 0)) |->
                 IF i % 2 = 1 THEN "/" ELSE p.names[i \div 2]]

LEMMA SpelledType ==
  ASSUME NEW O, NEW names \in Seq(O), NEW dir \in BOOLEAN
  PROVE  /\ Spelled([names |-> names, dir |-> dir]) \in Seq(O \cup {"/"})
         /\ Len(Spelled([names |-> names, dir |-> dir])) =
              2 * Len(names) + (IF dir THEN 1 ELSE 0)
<1> DEFINE p == [names |-> names, dir |-> dir]
           n == 2 * Len(names) + (IF dir THEN 1 ELSE 0)
<1>1. Len(names) \in Nat /\ n \in Nat
  BY LenProperties
<1>2. ASSUME NEW i \in 1..n PROVE Spelled(p)[i] \in O \cup {"/"}
  <2>1. CASE i % 2 = 1
    BY <2>1 DEF Spelled
  <2>2. CASE i % 2 # 1
    <3>1. i \div 2 \in 1..Len(names)
      BY <1>1, <2>2
    <3> QED BY <2>2, <3>1, ElementOfSeq DEF Spelled
  <2> QED BY <2>1, <2>2
<1>3. Spelled(p) \in [1..n -> O \cup {"/"}]
  BY <1>2 DEF Spelled
<1> DEFINE text == Spelled(p)
<1>4. text \in Seq(O \cup {"/"}) /\ Len(text) = n
  <2> HIDE DEF text, n
  <2> QED BY <1>1, <1>3, FunctionIsSeq DEF text
<1> QED BY <1>4

\* One name further along.
LEMMA OneFurther ==
  ASSUME NEW S, NEW s \in Seq(S), NEW k \in 1..Len(s)
  PROVE  SubSeq(s, 1, k) = Append(SubSeq(s, 1, k - 1), s[k])
<1>1. Len(s) \in Nat /\ k \in Nat /\ k - 1 \in 0..Len(s) /\ k \in 0..Len(s)
  BY LenProperties
<1>2. \A i \in 1..Len(s) : s[i] \in S
  BY ElementOfSeq
<1>3. /\ SubSeq(s, 1, k - 1) \in Seq(S) /\ Len(SubSeq(s, 1, k - 1)) = k - 1
      /\ \A i \in 1..(k - 1) : SubSeq(s, 1, k - 1)[i] = s[i]
  BY <1>1, <1>2, Beginning
<1>4. /\ SubSeq(s, 1, k) \in Seq(S) /\ Len(SubSeq(s, 1, k)) = k
      /\ \A i \in 1..k : SubSeq(s, 1, k)[i] = s[i]
  BY <1>1, <1>2, Beginning
<1> DEFINE t == SubSeq(s, 1, k - 1)
<1> HIDE DEF t
<1>5. /\ Append(t, s[k]) \in Seq(S) /\ Len(Append(t, s[k])) = k
      /\ \A i \in 1..k : Append(t, s[k])[i] = s[i]
  <2>1. s[k] \in S
    BY <1>2
  <2>2. t \in Seq(S) /\ Len(t) = k - 1 /\ \A i \in 1..(k - 1) : t[i] = s[i]
    BY <1>3 DEF t
  <2> QED BY <1>1, <2>1, <2>2, AppendProperties
<1>6. SubSeq(s, 1, k) = Append(t, s[k])
  BY <1>4, <1>5, SeqEqual
<1> QED BY <1>6 DEF t

\* Following the text of a path from the root leads to its names.
LEMMA SpelledLeads ==
  ASSUME NEW names \in Seq(Ordinary), NEW dir \in BOOLEAN
  PROVE  FoldLeft(Down, <<>>, Spelled([names |-> names, dir |-> dir])) = names
<1> DEFINE p == [names |-> names, dir |-> dir]
           n == 2 * Len(names) + (IF dir THEN 1 ELSE 0)
           text == Spelled(p)
           h == [i \in 0..n |-> SubSeq(names, 1, i \div 2)]
<1>1. Len(names) \in Nat /\ n \in Nat /\ n \div 2 = Len(names)
  BY LenProperties
<1>2. text \in Seq(Ordinary \cup {"/"}) /\ Len(text) = n
  BY SpelledType
<1>3. text \in Seq(Ordinary \cup Steps)
  <2>1. Ordinary \cup {"/"} \subseteq Ordinary \cup Steps
    BY DEF Steps
  <2> HIDE DEF text
  <2> QED BY <1>2, <2>1, SeqMonotonic
<1>4. h[0] = <<>>
  <2>1. h[0] = SubSeq(names, 1, 0)
    BY <1>1
  <2>2. SubSeq(names, 1, 0) = <<>>
    BY SubSeqEmpty
  <2> QED BY <2>1, <2>2
<1>5. ASSUME NEW i \in 1..n PROVE h[i] = Down(h[i - 1], text[i])
  <2>1. CASE i % 2 = 1
    <3>1. text[i] = "/" /\ i \div 2 = (i - 1) \div 2
      BY <1>1, <2>1 DEF Spelled
    <3>2. h[i] = h[i - 1]
      <4>1. i \in 0..n /\ i - 1 \in 0..n
        BY <1>1
      <4>2. h[i] = SubSeq(names, 1, i \div 2) /\ h[i - 1] = SubSeq(names, 1, (i - 1) \div 2)
        BY <4>1
      <4> HIDE DEF h, n, text
      <4> QED BY <3>1, <4>2
    <3> HIDE DEF h, n, text
    <3> QED BY <3>1, <3>2 DEF Down
  <2>2. CASE i % 2 # 1
    <3> DEFINE k == i \div 2
    <3>1. k \in 1..Len(names) /\ (i - 1) \div 2 = k - 1
      BY <1>1, <2>2
    <3>2. text[i] = names[k]
      BY <2>2 DEF Spelled
    <3>3. h[i] = SubSeq(names, 1, k) /\ h[i - 1] = SubSeq(names, 1, k - 1)
      BY <1>1, <3>1
    <3>4. names[k] \in Ordinary
      BY <3>1, ElementOfSeq
    <3> HIDE DEF h, text, k
    <3>5. SubSeq(names, 1, k) = Append(SubSeq(names, 1, k - 1), names[k])
      BY <3>1, OneFurther
    <3> QED BY <3>2, <3>3, <3>4, <3>5 DEF Down, Ordinary
  <2> QED BY <2>1, <2>2
<1> HIDE DEF h, text
<1>6. IsWalk(h, <<>>, text)
  BY <1>2, <1>4, <1>5 DEF IsWalk
<1>7. FoldLeft(Down, <<>>, text) = h[Len(text)]
  BY <1>3, <1>6, EmptyNames, WalkIsFold
<1>8. h[n] = names
  <2>1. h[n] = SubSeq(names, 1, Len(names))
    BY <1>1 DEF h
  <2> QED BY <2>1, SubSeqFull
<1> QED BY <1>2, <1>7, <1>8 DEF text

\* What has no mark is not cut, and what has no backslash is as it was.
LEMMA BeforeNone ==
  ASSUME NEW S, NEW text \in Seq(S), NEW marks, marks \cap S = {}
  PROVE  Before(text, marks) = text
<1>1. PICK k \in 0..Len(text) : /\ Before(text, marks) = SubSeq(text, 1, k)
                                /\ k < Len(text) => text[k + 1] \in marks
  BY BeforeCuts
<1>2. Len(text) \in Nat
  BY LenProperties
<1>3. k = Len(text)
  <2> SUFFICES ASSUME k < Len(text) PROVE FALSE
    BY <1>2
  <2>1. k + 1 \in 1..Len(text)
    BY <1>2
  <2>2. text[k + 1] \in S
    BY <2>1, ElementOfSeq
  <2> QED BY <1>1, <2>2
<1> QED BY <1>1, <1>3, SubSeqFull

LEMMA SlashedNone ==
  ASSUME NEW S, NEW text \in Seq(S), "\\" \notin S
  PROVE  Slashed(text) = text
<1>1. /\ DOMAIN text = 1..Len(text) /\ text = [i \in DOMAIN text |-> text[i]]
      /\ \A i \in DOMAIN text : text[i] \in S
  BY LenProperties, ElementOfSeq
<1> QED BY <1>1 DEF Slashed

LEMMA SpelledIsNormal ==
  ASSUME NEW names \in Seq(Ordinary), NEW dir \in BOOLEAN, names = <<>> => dir
  PROVE  NormalizeUrlPath(Spelled([names |-> names, dir |-> dir])) =
           [names |-> names, dir |-> dir]
<1> DEFINE text == Spelled([names |-> names, dir |-> dir])
           n == 2 * Len(names) + (IF dir THEN 1 ELSE 0)
<1>1. /\ Len(names) \in Nat /\ n \in Nat /\ (names # <<>> => Len(names) # 0)
      /\ \A i \in 1..Len(names) : names[i] \in Ordinary
  BY LenProperties, ElementOfSeq, EmptySeq
<1>2. text \in Seq(Ordinary \cup {"/"}) /\ Len(text) = n
  BY SpelledType
<1>3. \A i \in 1..n : text[i] = IF i % 2 = 1 THEN "/" ELSE names[i \div 2]
  BY DEF Spelled
<1>4. FoldLeft(Down, <<>>, text) = names
  BY SpelledLeads
<1> HIDE DEF text
<1>5. Last(text) = IF dir THEN "/" ELSE names[Len(names)]
  <2>1. CASE dir
    <3>1. n \in 1..n /\ n % 2 = 1
      BY <1>1, <2>1
    <3> QED BY <1>2, <1>3, <2>1, <3>1 DEF Last
  <2>2. CASE ~dir
    <3>1. n \in 1..n /\ n % 2 = 0 /\ n \div 2 = Len(names)
      BY <1>1, <2>2
    <3> QED BY <1>2, <1>3, <2>2, <3>1 DEF Last
  <2> QED BY <2>1, <2>2
<1>6. names = <<>> \/ Last(text) \in {"/", ".", ".."} <=> dir
  <2>1. CASE dir
    BY <1>5, <2>1
  <2>2. CASE ~dir
    <3>1. names[Len(names)] \in Ordinary /\ names # <<>>
      BY <1>1, <2>2
    <3> QED BY <1>5, <2>2, <3>1 DEF Ordinary
  <2> QED BY <2>1, <2>2
<1>7. StripQueryAndFragment(text) = text
  <2>1. {"?", "#"} \cap (Ordinary \cup {"/"}) = {}
    BY DEF Ordinary
  <2> QED BY <1>2, <2>1, BeforeNone DEF StripQueryAndFragment
<1>8. Slashed(text) = text
  <2>1. "\\" \notin Ordinary \cup {"/"}
    BY DEF Ordinary
  <2> QED BY <1>2, <2>1, SlashedNone
<1>9. NormalizeUrlPath(text) = Normal(<<>>, text)
  BY <1>7, <1>8 DEF NormalizeUrlPath
<1>10. Normal(<<>>, text) = [names |-> names, dir |-> dir]
  BY <1>4, <1>6 DEF Normal
<1> QED BY <1>9, <1>10 DEF text

\* Normalising the text of a normal path changes nothing, which is why it makes no
\* difference that ServeStaticFile, ResolveRequestPath and NormalizeDependentPath normalise
\* what the parser has normalised.
THEOREM NormalizingAgainChangesNothing ==
  \A p \in NormalPaths : NormalizeUrlPath(Spelled(p)) = p
<1> SUFFICES ASSUME NEW p \in NormalPaths PROVE NormalizeUrlPath(Spelled(p)) = p
  OBVIOUS
<1>1. PICK names \in Seq(Ordinary), dir \in BOOLEAN : p = [names |-> names, dir |-> dir]
  BY DEF NormalPaths
<1>2. names = <<>> => dir
  BY <1>1 DEF NormalPaths
<1> QED BY <1>1, <1>2, SpelledIsNormal
------------------------------------------------------------------------------
(* Links and requests *)

\* There is one such cut.
LEMMA OneCut ==
  ASSUME NEW S, NEW s \in Seq(S), NEW marks, NEW k \in 0..Len(s),
         \A i \in 1..k : s[i] \notin marks, k < Len(s) => s[k + 1] \in marks
  PROVE  Before(s, marks) = SubSeq(s, 1, k)
<1>1. PICK j \in 0..Len(s) : /\ Before(s, marks) = SubSeq(s, 1, j)
                             /\ \A i \in 1..j : s[i] \notin marks
                             /\ j < Len(s) => s[j + 1] \in marks
  BY BeforeCuts
<1>2. Len(s) \in Nat
  BY LenProperties
<1>3. ~(j < k) /\ ~(k < j)
  <2>1. j < k => j + 1 \in 1..k
    BY <1>2
  <2>2. k < j => k + 1 \in 1..j
    BY <1>2
  <2> QED BY <1>1, <1>2, <2>1, <2>2
<1>4. j = k
  BY <1>2, <1>3
<1> QED BY <1>1, <1>4

\* A cut in what is joined to a text without marks.
LEMMA BeforeConcat ==
  ASSUME NEW S, NEW d \in Seq(S), NEW U, NEW t \in Seq(U), NEW marks, marks \cap S = {}
  PROVE  Before(d \o t, marks) = d \o Before(t, marks)
<1>1. PICK k \in 0..Len(t) : /\ Before(t, marks) = SubSeq(t, 1, k)
                             /\ \A i \in 1..k : t[i] \notin marks
                             /\ k < Len(t) => t[k + 1] \in marks
  BY BeforeCuts
<1> DEFINE n == Len(d)
           m == Len(t)
           V == S \cup U
<1>2. n \in Nat /\ m \in Nat /\ k \in Nat /\ k <= m /\ n + k \in 0..(n + m)
  BY LenProperties
<1>3. d \in Seq(V) /\ t \in Seq(V) /\ \A i \in 1..n : d[i] \in S
  BY SeqMonotonic, ElementOfSeq
<1>4. /\ d \o t \in Seq(V) /\ Len(d \o t) = n + m
      /\ \A i \in 1..(n + m) : (d \o t)[i] = IF i <= n THEN d[i] ELSE t[i - n]
  <2> HIDE DEF V
  <2> QED BY <1>3, ConcatProperties
<1> HIDE DEF V, n, m
<1>5. \A i \in 1..(n + k) : (d \o t)[i] \notin marks
  <2> SUFFICES ASSUME NEW i \in 1..(n + k) PROVE (d \o t)[i] \notin marks
    OBVIOUS
  <2>1. i \in 1..(n + m)
    BY <1>2
  <2>2. CASE i <= n
    BY <1>2, <1>3, <1>4, <2>1, <2>2
  <2>3. CASE ~(i <= n)
    <3>1. i - n \in 1..k
      BY <1>2, <2>3
    <3> QED BY <1>1, <1>4, <2>1, <2>3, <3>1
  <2> QED BY <2>2, <2>3
<1>6. n + k < n + m => (d \o t)[n + k + 1] \in marks
  <2> SUFFICES ASSUME n + k < n + m PROVE (d \o t)[n + k + 1] \in marks
    OBVIOUS
  <2>1. n + k + 1 \in 1..(n + m) /\ ~(n + k + 1 <= n) /\ (n + k + 1) - n = k + 1 /\ k < m
    BY <1>2
  <2> QED BY <1>1, <1>4, <2>1 DEF m
<1>7. Before(d \o t, marks) = SubSeq(d \o t, 1, n + k)
  BY <1>2, <1>4, <1>5, <1>6, OneCut
<1> DEFINE u == SubSeq(t, 1, k)
           w == SubSeq(d \o t, 1, n + k)
<1>8. u \in Seq(V) /\ Len(u) = k /\ \A i \in 1..k : u[i] = t[i]
  BY <1>1, <1>3, Beginning, ElementOfSeq, LenProperties DEF m
<1>9. w \in Seq(V) /\ Len(w) = n + k /\ \A i \in 1..(n + k) : w[i] = (d \o t)[i]
  <2> DEFINE both == d \o t
  <2> HIDE DEF both
  <2>1. both \in Seq(V) /\ n + k \in 0..Len(both)
    BY <1>2, <1>4 DEF both
  <2>2. \A i \in 1..(n + k) : both[i] \in V
    BY <2>1, ElementOfSeq, LenProperties
  <2> QED BY <2>1, <2>2, Beginning DEF both
<1> HIDE DEF u, w
<1>10. /\ d \o u \in Seq(V) /\ Len(d \o u) = n + k
       /\ \A i \in 1..(n + k) : (d \o u)[i] = IF i <= n THEN d[i] ELSE u[i - n]
  <2>1. /\ d \o u \in Seq(V) /\ Len(d \o u) = Len(d) + Len(u)
        /\ \A i \in 1..(Len(d) + Len(u)) :
             (d \o u)[i] = IF i <= Len(d) THEN d[i] ELSE u[i - Len(d)]
    <3>1. d \in Seq(V) /\ u \in Seq(V)
      BY <1>3, <1>8
    <3> QED BY <3>1, ConcatProperties
  <2> QED BY <1>8, <2>1 DEF n
<1>11. ASSUME NEW i \in 1..(n + k) PROVE w[i] = (d \o u)[i]
  <2>1. i \in 1..(n + m) /\ (~(i <= n) => i - n \in 1..k)
    BY <1>2
  <2> QED BY <1>4, <1>8, <1>9, <1>10, <2>1
<1>12. w = d \o u
  BY <1>9, <1>10, <1>11, SeqEqual
<1> QED BY <1>1, <1>7, <1>12 DEF u, w

\* To cut at a first mark and then at more is to cut at all of them.
LEMMA BeforeTwice ==
  ASSUME NEW S, NEW s \in Seq(S), NEW few, NEW marks, few \subseteq marks
  PROVE  Before(Before(s, few), marks) = Before(s, marks)
<1>1. PICK j \in 0..Len(s) : /\ Before(s, few) = SubSeq(s, 1, j)
                             /\ j < Len(s) => s[j + 1] \in few
  BY BeforeCuts
<1>2. PICK k \in 0..Len(s) : /\ Before(s, marks) = SubSeq(s, 1, k)
                             /\ \A i \in 1..k : s[i] \notin marks
                             /\ k < Len(s) => s[k + 1] \in marks
  BY BeforeCuts
<1>3. Len(s) \in Nat /\ \A i \in 1..Len(s) : s[i] \in S
  BY LenProperties, ElementOfSeq
<1>4. k <= j
  <2> SUFFICES ASSUME j < k PROVE FALSE
    BY <1>3
  <2>1. j + 1 \in 1..k /\ j < Len(s)
    BY <1>3
  <2> QED BY <1>1, <1>2, <2>1
<1> DEFINE u == SubSeq(s, 1, j)
<1>5. u \in Seq(S) /\ Len(u) = j /\ \A i \in 1..j : u[i] = s[i]
  BY <1>3, Beginning
<1> HIDE DEF u
<1>6. Before(u, marks) = SubSeq(u, 1, k)
  <2>1. k \in 0..Len(u) /\ \A i \in 1..k : u[i] \notin marks
    BY <1>2, <1>3, <1>4, <1>5
  <2>2. k < Len(u) => u[k + 1] \in marks
    BY <1>2, <1>3, <1>4, <1>5
  <2> QED BY <1>5, <2>1, <2>2, OneCut
<1>7. SubSeq(u, 1, k) = SubSeq(s, 1, k)
  <2>1. /\ SubSeq(u, 1, k) \in Seq(S) /\ Len(SubSeq(u, 1, k)) = k
        /\ \A i \in 1..k : SubSeq(u, 1, k)[i] = u[i]
    BY <1>3, <1>4, <1>5, Beginning
  <2>2. /\ SubSeq(s, 1, k) \in Seq(S) /\ Len(SubSeq(s, 1, k)) = k
        /\ \A i \in 1..k : SubSeq(s, 1, k)[i] = s[i]
    BY <1>3, Beginning
  <2>3. \A i \in 1..k : u[i] = s[i]
    BY <1>3, <1>4, <1>5
  <2> DEFINE v == SubSeq(u, 1, k)
             w == SubSeq(s, 1, k)
  <2> HIDE DEF v, w
  <2>4. v \in Seq(S) /\ w \in Seq(S) /\ Len(v) = k /\ Len(w) = k /\ \A i \in 1..k : v[i] = w[i]
    BY <2>1, <2>2, <2>3 DEF v, w
  <2>5. v = w
    BY <2>4, SeqEqual
  <2> QED BY <2>5 DEF v, w
<1> QED BY <1>1, <1>2, <1>6, <1>7 DEF u

\* Backslashes in what is joined to a text without them.
LEMMA SlashedConcat ==
  ASSUME NEW S, NEW d \in Seq(S), NEW U, NEW t \in Seq(U), "\\" \notin S
  PROVE  Slashed(d \o t) = d \o Slashed(t)
<1> DEFINE n == Len(d)
           m == Len(t)
           V == S \cup U \cup {"/"}
<1>1. n \in Nat /\ m \in Nat /\ \A i \in 1..n : d[i] \in S
  BY LenProperties, ElementOfSeq
<1>2. d \in Seq(V) /\ t \in Seq(V)
  BY SeqMonotonic
<1>3. Slashed(t) \in Seq(V) /\ Len(Slashed(t)) = m
      /\ \A i \in 1..m : Slashed(t)[i] = IF t[i] = "\\" THEN "/" ELSE t[i]
  <2>1. (U \ {"\\"}) \cup {"/"} \subseteq V
    OBVIOUS
  <2> HIDE DEF V
  <2> QED BY <2>1, SlashedType, SeqMonotonic
<1> DEFINE u == Slashed(t)
           both == d \o t
<1> HIDE DEF V, u
<1>4. /\ both \in Seq(V) /\ Len(both) = n + m
      /\ \A i \in 1..(n + m) : both[i] = IF i <= n THEN d[i] ELSE t[i - n]
  BY <1>2, ConcatProperties
<1>5. /\ d \o u \in Seq(V) /\ Len(d \o u) = n + m
      /\ \A i \in 1..(n + m) : (d \o u)[i] = IF i <= n THEN d[i] ELSE u[i - n]
  <2>1. u \in Seq(V) /\ Len(u) = m
    BY <1>3 DEF u
  <2>2. /\ d \o u \in Seq(V) /\ Len(d \o u) = Len(d) + Len(u)
        /\ \A i \in 1..(Len(d) + Len(u)) :
             (d \o u)[i] = IF i <= Len(d) THEN d[i] ELSE u[i - Len(d)]
    BY <1>2, <2>1, ConcatProperties
  <2> QED BY <2>1, <2>2 DEF n
<1> HIDE DEF n, m, both
<1>6. /\ Slashed(both) \in Seq((V \ {"\\"}) \cup {"/"}) /\ Len(Slashed(both)) = n + m
      /\ \A i \in 1..(n + m) : Slashed(both)[i] = IF both[i] = "\\" THEN "/" ELSE both[i]
  BY <1>4, SlashedType
<1>7. Slashed(both) \in Seq(V)
  <2>1. (V \ {"\\"}) \cup {"/"} \subseteq V
    BY DEF V
  <2> QED BY <1>6, <2>1, SeqMonotonic
<1>8. ASSUME NEW i \in 1..(n + m) PROVE Slashed(both)[i] = (d \o u)[i]
  <2>1. CASE i <= n
    <3>1. i \in 1..n
      BY <1>1, <2>1
    <3> QED BY <1>1, <1>4, <1>5, <1>6, <2>1, <3>1
  <2>2. CASE ~(i <= n)
    <3>1. i - n \in 1..m
      BY <1>1, <2>2
    <3> QED BY <1>3, <1>4, <1>5, <1>6, <2>2, <3>1 DEF u
  <2> QED BY <2>1, <2>2
<1>9. Slashed(both) = d \o u
  BY <1>5, <1>6, <1>7, <1>8, SeqEqual
<1> QED BY <1>9 DEF both, u

\* What has no escape is decoded to itself.
Escapes == {"%2F", "%5C", "%3F", "%23", "%2E", "%2E%2E"}
LEMMA DecodeNone ==
  ASSUME NEW S, NEW text \in Seq(S), Escapes \cap S = {}
  PROVE  UrlDecode(text) = text
<1>1. /\ DOMAIN text = 1..Len(text) /\ text = [i \in DOMAIN text |-> text[i]]
      /\ \A i \in DOMAIN text : text[i] \in S
  BY LenProperties, ElementOfSeq
<1> QED BY <1>1 DEF UrlDecode, Escapes

\* The directory of a page is that of its key.
LEMMA KeyKeepsParent ==
  ASSUME NEW p \in NormalPaths PROVE ParentPath(CacheKeyForPath(p)) = ParentPath(p)
<1>1. p.names \in Seq(Ordinary) /\ "index.html" \in Ordinary
  BY TokensAssumption DEF NormalPaths, Ordinary
<1>2. CASE p.dir
  <2> DEFINE s == Append(p.names, "index.html")
  <2>1. ParentPath(CacheKeyForPath(p)) = Front(s) /\ ParentPath(p) = p.names
    BY <1>2 DEF ParentPath, CacheKeyForPath
  <2>2. /\ s \in Seq(Ordinary) /\ Len(s) = Len(p.names) + 1 /\ Len(p.names) \in Nat
        /\ \A i \in 1..Len(p.names) : s[i] = p.names[i]
    BY <1>1, AppendProperties, LenProperties
  <2> HIDE DEF s
  <2>3. Len(s) - 1 = Len(p.names) /\ Len(p.names) \in 0..Len(s)
        /\ \A i \in 1..Len(p.names) : s[i] \in Ordinary
    BY <1>1, <2>2, ElementOfSeq
  <2>4. /\ SubSeq(s, 1, Len(p.names)) \in Seq(Ordinary)
        /\ Len(SubSeq(s, 1, Len(p.names))) = Len(p.names)
        /\ \A i \in 1..Len(p.names) : SubSeq(s, 1, Len(p.names))[i] = s[i]
    BY <2>2, <2>3, Beginning
  <2>5. SubSeq(s, 1, Len(p.names)) = p.names
    BY <1>1, <2>2, <2>4, SeqEqual
  <2> QED BY <2>1, <2>3, <2>5 DEF Front
<1>3. CASE ~p.dir
  BY <1>3 DEF CacheKeyForPath
<1> QED BY <1>2, <1>3

\* What the client of a page asks for when it follows a link in it: the link itself, or the
\* link below the directory of the page.
Asked(page, url) ==
  IF Head(url) \in {"/", "\\"} THEN url
  ELSE Spelled([names |-> ParentPath(page), dir |-> TRUE]) \o url

\* A link that is no escape leads the prefetcher where the request for it leads the handler.
LEMMA AskedIsLinked ==
  ASSUME NEW page \in NormalPaths, page.names \in Seq(Ordinary \ Escapes),
         NEW url \in Seq(STRING \ Escapes),
         NormalizeDependentPath(CacheKeyForPath(page), url) # NoPath
  PROVE  RequestPath(Asked(page, url)) = NormalizeDependentPath(CacheKeyForPath(page), url)
<1> DEFINE Plain == STRING \ Escapes
           both == {"?", "#"}
           b == Before(url, {"?"})
           strip == Before(url, both)
           text == Slashed(strip)
           up == ParentPath(page)
<1>1. /\ text # <<>>
      /\ NormalizeDependentPath(CacheKeyForPath(page), url) =
           Normal(IF Head(text) = "/" THEN <<>> ELSE up, text)
  BY KeyKeepsParent DEF NormalizeDependentPath, StripQueryAndFragment
<1>2. b \in Seq(Plain) /\ strip \in Seq(Plain) /\ Before(b, both) = strip
  <2>1. Plain \ {"?"} \subseteq Plain /\ Plain \ both \subseteq Plain /\ {"?"} \subseteq both
    OBVIOUS
  <2> HIDE DEF Plain, both
  <2>2. url \in Seq(Plain)
    BY DEF Plain
  <2> QED BY <2>1, <2>2, BeforeType, BeforeTwice, SeqMonotonic
<1>3. Head(text) = "/" <=> Head(url) \in {"/", "\\"}
  <2>1. PICK k \in 0..Len(url) : strip = SubSeq(url, 1, k)
    BY BeforeCuts
  <2>2. Len(strip) = k /\ \A i \in 1..k : strip[i] = url[i]
    BY <2>1, Beginning
  <2>3. /\ text \in Seq((Plain \ {"\\"}) \cup {"/"}) /\ Len(text) = Len(strip)
        /\ \A i \in 1..Len(strip) : text[i] = IF strip[i] = "\\" THEN "/" ELSE strip[i]
    <3> HIDE DEF strip, Plain
    <3> QED BY <1>2, SlashedType
  <2>4. Len(url) \in Nat /\ Len(text) # 0
    <3> HIDE DEF text
    <3> QED BY <1>1, <2>3, EmptySeq, LenProperties
  <2> HIDE DEF text, strip
  <2>5. 1 \in 1..k /\ Len(url) # 0
    BY <2>2, <2>3, <2>4
  <2>6. Head(text) = text[1] /\ Head(url) = url[1]
    OBVIOUS
  <2> QED BY <2>2, <2>3, <2>5, <2>6
<1>4. text \in Seq(Ordinary \cup Steps)
  <2>1. url \in Seq(STRING)
    <3>1. STRING \ Escapes \subseteq STRING
      OBVIOUS
    <3> QED BY <3>1, SeqMonotonic
  <2> QED BY <2>1, CleanType DEF StripQueryAndFragment
<1>5. CASE Head(url) \in {"/", "\\"}
  <2>1. Asked(page, url) = url
    BY <1>5 DEF Asked
  <2>2. UrlDecode(b) = b
    <3>1. Escapes \cap Plain = {}
      OBVIOUS
    <3> HIDE DEF b, Plain
    <3> QED BY <1>2, <3>1, DecodeNone
  <2>3. RequestPath(url) = Normal(<<>>, text)
    BY <1>2, <2>2 DEF RequestPath, NormalizeUrlPath, StripQueryAndFragment
  <2> QED BY <1>1, <1>3, <1>5, <2>1, <2>3
<1>6. CASE Head(url) \notin {"/", "\\"}
  <2> DEFINE O == Ordinary \ Escapes
             d == Spelled([names |-> up, dir |-> TRUE])
             D == O \cup {"/"}
  <2>1. Asked(page, url) = d \o url
    BY <1>6 DEF Asked
  <2>2. up \in Seq(O)
    BY ParentPathType
  <2>3. up \in Seq(Ordinary)
    BY ParentPathType DEF NormalPaths
  <2> HIDE DEF up
  <2>4. FoldLeft(Down, <<>>, d) = up
    BY <2>3, SpelledLeads
  <2>5. d \in Seq(D)
    <3> HIDE DEF O
    <3> QED BY <2>2, SpelledType
  <2>6. /\ {"?"} \cap D = {} /\ both \cap D = {} /\ "\\" \notin D
        /\ Escapes \cap (D \cup Plain) = {} /\ D \subseteq Ordinary \cup Steps
    BY DEF Ordinary, Escapes, Steps
  <2> HIDE DEF d, D, O
  <2>7. Before(d \o url, {"?"}) = d \o b
    BY <2>5, <2>6, BeforeConcat
  <2>8. UrlDecode(d \o b) = d \o b
    <3>1. d \in Seq(D \cup Plain) /\ b \in Seq(D \cup Plain)
      <4> HIDE DEF b, Plain
      <4> QED BY <1>2, <2>5, SeqMonotonic
    <3>2. d \o b \in Seq(D \cup Plain)
      <4> HIDE DEF b, Plain
      <4> QED BY <3>1, ConcatProperties
    <3> QED BY <2>6, <3>2, DecodeNone
  <2>9. Before(d \o b, both) = d \o strip
    <3> HIDE DEF b, both, strip, Plain
    <3>1. d \in Seq(D) /\ b \in Seq(Plain) /\ both \cap D = {}
      BY <1>2, <2>5, <2>6
    <3>2. Before(d \o b, both) = d \o Before(b, both)
      BY <3>1, BeforeConcat
    <3> QED BY <1>2, <3>2
  <2>10. Slashed(d \o strip) = d \o text
    <3> HIDE DEF strip, Plain
    <3> QED BY <1>2, <2>5, <2>6, SlashedConcat
  <2>11. RequestPath(d \o url) = Normal(<<>>, d \o text)
    BY <2>7, <2>8, <2>9, <2>10 DEF RequestPath, NormalizeUrlPath, StripQueryAndFragment
  <2> HIDE DEF text
  <2>12. d \in Seq(Ordinary \cup Steps)
    BY <2>5, <2>6, SeqMonotonic
  <2>13. FoldLeft(Down, <<>>, d \o text) = FoldLeft(Down, up, text)
    <3> DEFINE root == <<>>
    <3>1. root \in Seq(Ordinary)
      BY EmptyNames
    <3> HIDE DEF root
    <3>2. text \in Seq(Ordinary \cup Steps) /\ d \in Seq(Ordinary \cup Steps)
      BY <1>4, <2>12
    <3>3. FoldLeft(Down, root, d \o text) = FoldLeft(Down, FoldLeft(Down, root, d), text)
      BY <3>1, <3>2, FoldOfConcat
    <3> QED BY <2>4, <3>3 DEF root
  <2>14. Last(d \o text) = Last(text)
    <3>1. /\ Len(d \o text) = Len(d) + Len(text) /\ Len(d) \in Nat /\ Len(text) \in Nat \ {0}
          /\ \A i \in 1..(Len(d) + Len(text)) :
               (d \o text)[i] = IF i <= Len(d) THEN d[i] ELSE text[i - Len(d)]
      BY <1>1, <1>4, <2>12, ConcatProperties, LenProperties, EmptySeq
    <3>2. /\ Len(d) + Len(text) \in 1..(Len(d) + Len(text)) /\ ~(Len(d) + Len(text) <= Len(d))
          /\ (Len(d) + Len(text)) - Len(d) = Len(text)
      BY <3>1
    <3> QED BY <3>1, <3>2 DEF Last
  <2>15. Normal(<<>>, d \o text) = Normal(up, text)
    BY <2>13, <2>14 DEF Normal
  <2> QED BY <1>1, <1>3, <1>6, <2>1, <2>11, <2>15
<1> QED BY <1>5, <1>6

\* A link without escapes in a page whose names have none is prefetched under the key under
\* which a request for it is looked up, unless it leads to a directory: ProcessJob files it
\* under its path, and ServeStaticFile completes the path of a directory first.
THEOREM LinksMeetRequests ==
  \A page \in NormalPaths, url \in Seq(STRING \ Escapes) :
    LET linked == NormalizeDependentPath(CacheKeyForPath(page), url)
        key == CacheKeyForPath(RequestPath(Asked(page, url)))
    IN page.names \in Seq(Ordinary \ Escapes) /\ linked # NoPath
         => (key = linked <=> ~linked.dir)
<1> SUFFICES ASSUME NEW page \in NormalPaths, NEW url \in Seq(STRING \ Escapes),
                    page.names \in Seq(Ordinary \ Escapes),
                    NormalizeDependentPath(CacheKeyForPath(page), url) # NoPath
             PROVE  CacheKeyForPath(RequestPath(Asked(page, url))) =
                      NormalizeDependentPath(CacheKeyForPath(page), url)
                      <=> ~NormalizeDependentPath(CacheKeyForPath(page), url).dir
  OBVIOUS
<1> DEFINE linked == NormalizeDependentPath(CacheKeyForPath(page), url)
<1>1. RequestPath(Asked(page, url)) = linked
  BY AskedIsLinked
<1> HIDE DEF linked
<1>2. CacheKeyForPath(linked) = linked <=> ~linked.dir
  <2>1. CASE linked.dir
    <3>1. CacheKeyForPath(linked).dir = FALSE
      BY <2>1 DEF CacheKeyForPath
    <3> QED BY <2>1, <3>1
  <2>2. CASE ~linked.dir
    BY <2>2 DEF CacheKeyForPath
  <2> QED BY <2>1, <2>2
<1> QED BY <1>1, <1>2 DEF linked
------------------------------------------------------------------------------
(* The cache *)

\* The inductive invariant: every content in the cache was read from the file that its
\* key resolves to.
CachedIsFile == \A k \in DOMAIN cached : cached[k] = ResolveRequestPath(k)

\* A path and its key resolve to the same file: CacheKeyForPath and ResolveRequestPath
\* complete a directory in the same way.
LEMMA KeyKeepsFile ==
  ASSUME NEW path0 PROVE ResolveRequestPath(CacheKeyForPath(path0)) = ResolveRequestPath(path0)
BY DEF ResolveRequestPath, CacheKeyForPath

\* Put stores a content under a key that resolves to its file, and evicts or not.
LEMMA PutKeepsFiles ==
  ASSUME NEW key, CachedIsFile, PutStored(key, ResolveRequestPath(key))
  PROVE  CachedIsFile'
<1> DEFINE all == [j \in DOMAIN cached \cup {key} |->
                     IF j = key THEN ResolveRequestPath(key) ELSE cached[j]]
<1>1. \A k \in DOMAIN all : all[k] = ResolveRequestPath(k)
  BY DEF CachedIsFile
<1>2. \/ cached' = all
      \/ \E v \in DOMAIN all : cached' = Restrict(all, DOMAIN all \ {v})
  BY DEF PutStored
<1> HIDE DEF all
<1>3. CASE cached' = all
  BY <1>1, <1>3 DEF CachedIsFile
<1>4. CASE \E v \in DOMAIN all : cached' = Restrict(all, DOMAIN all \ {v})
  BY <1>1, <1>4 DEF CachedIsFile, Restrict
<1>5. QED BY <1>2, <1>3, <1>4

\* No step breaks it: only the two Puts change the cache.
LEMMA StepKeepsFiles == CachedIsFile /\ [Next]_vars => CachedIsFile'
<1> SUFFICES ASSUME CachedIsFile, [Next]_vars PROVE CachedIsFile'
  OBVIOUS
<1>1. CASE UNCHANGED cached
  BY <1>1 DEF CachedIsFile
<1>2. CASE \E c \in Clients : PutFile(c)
  <2> PICK c \in Clients : PutFile(c)
    BY <1>2
  <2>1. PutRefused \/ PutStored(Key(c), File(c))
    BY DEF PutFile
  <2>2. File(c) = ResolveRequestPath(Key(c))
    BY KeyKeepsFile DEF File, Key
  <2>3. QED BY <1>1, <2>1, <2>2, PutKeepsFiles DEF PutRefused
<1>3. CASE PutResource
  <2>1. PutRefused \/ PutStored(cur, ResolveRequestPath(cur))
    BY <1>3 DEF PutResource
  <2>2. QED BY <1>1, <2>1, PutKeepsFiles DEF PutRefused
<1>4. Next => \/ UNCHANGED cached
              \/ \E c \in Clients : PutFile(c)
              \/ PutResource
  <2>1. ASSUME NEW c \in Clients, Accept(c) \/ Handle(c)
        PROVE  UNCHANGED cached \/ PutFile(c)
    BY <2>1 DEF Accept, Handle, Lookup, ReadFile, CheckUsage, CheckLoad, Schedule,
                NotScheduled, Leave
  <2>2. ASSUME NEW c \in Clients, NEW target \in Targets, Begin(c, target)
        PROVE  UNCHANGED cached
    BY <2>2 DEF Begin
  <2>3. ASSUME Start \/ StopBegin \/ StopNotify \/ StopJoin \/ StopReset
        PROVE  UNCHANGED cached
    BY <2>3 DEF Start, StopBegin, StopNotify, StopJoin, StopReset
  <2>4. ASSUME Loop \/ Process \/ JobThrows \/ SpuriousWakeup
        PROVE  UNCHANGED cached \/ PutResource
    BY <2>4 DEF Loop, Sleep, Exit, Take, Process, LookUsage, LookLoad, NextUrl,
                LookContains, LookSize, ReadResource, JobThrows, SpuriousWakeup
  <2>5. QED BY <2>1, <2>2, <2>3, <2>4 DEF Next
<1>5. UNCHANGED vars => UNCHANGED cached
  BY DEF vars
<1>6. QED BY <1>1, <1>2, <1>3, <1>4, <1>5

\* Whatever spellings clients use and whatever pages link to, a hit under the key of a
\* request is the file its path resolves to: a handler and the prefetcher never file two
\* different files under one key.
THEOREM HitsAreTheFile == Spec => []HitIsTheFile
<1>1. Init => CachedIsFile
  BY DEF Init, CachedIsFile
<1>2. CachedIsFile => HitIsTheFile
  BY KeyKeepsFile DEF CachedIsFile, HitIsTheFile, Key, File
<1>3. QED BY <1>1, <1>2, StepKeepsFiles, PTL DEF Spec
------------------------------------------------------------------------------
(* The prefetcher's queue and thread *)

QueueTypeOK == /\ hpc \in [Clients -> Stages]
               /\ started \in BOOLEAN /\ stopping \in BOOLEAN
               /\ ctl \in {"down", "up", "failed", "notify", "join", "reset"}
               /\ jobs \in Seq(Clients) /\ Len(jobs) <= MaxQueue
               /\ wpc \in ThreadStages
               /\ job \in Clients \cup {NoClient}
               /\ wpc \in Looking <=> job # NoClient
               /\ fate \in [Clients -> {"new", "accepted", "done"}]

\* Where the caller of Start and Stop is says what the flags are and whether there is a
\* thread.
ControlInv == /\ started <=> ctl # "down"
              /\ stopping <=> ctl \in {"notify", "join", "reset"}
              /\ ctl \in {"down", "reset", "failed"} => wpc = "none"
              /\ ctl = "up" => wpc \notin {"none", "exited"}
              /\ ctl = "failed" => Connected = {}

\* A thread that sleeps, has exited or was never there leaves nothing in the queue, and
\* none sleeps once Stop has notified.
IdleInv == /\ wpc \in {"none", "waiting", "exited"} => jobs = <<>>
           /\ wpc = "waiting" => ctl \notin {"join", "reset"}
           /\ wpc = "exited" => ctl \in {"notify", "join"}

\* A page that has been accepted is in the queue or being looked through, and its
\* handler is past the push.
InQueue == {jobs[i] : i \in 1..Len(jobs)}
PlaceInv == \A c \in Clients :
              /\ fate[c] = "accepted" => c \in InQueue \cup {job}
              /\ c \in InQueue \cup {job} => fate[c] # "new"
              /\ fate[c] # "new" => hpc[c] \in {"leave", "closed"}

QueueInv == QueueTypeOK /\ ControlInv /\ IdleInv /\ PlaceInv

LEMMA InitQueue == Init => QueueInv
<1> SUFFICES ASSUME Init PROVE QueueInv
  OBVIOUS
<1>1. Len(<<>>) = 0 /\ <<>> \in Seq(Clients) /\ 0 <= MaxQueue
  BY ServingAssumption
<1>2. QueueTypeOK
  BY <1>1 DEF Init, QueueTypeOK, Stages, ThreadStages, Looking
<1>3. ControlInv /\ IdleInv
  BY DEF Init, ControlInv, IdleInv, Connected
<1>4. PlaceInv
  BY ServingAssumption DEF Init, PlaceInv, InQueue
<1> QED BY <1>2, <1>3, <1>4 DEF QueueInv

\* What a handler does but for its push.
LEMMA HandlerQueue ==
  ASSUME QueueInv, NEW c \in Clients,
         \/ Accept(c) \/ \E target \in Targets : Begin(c, target)
         \/ Lookup(c) \/ ReadFile(c) \/ PutFile(c) \/ CheckUsage(c) \/ CheckLoad(c)
         \/ NotScheduled(c) \/ Leave(c)
  PROVE  QueueInv'
<1>1. /\ UNCHANGED <<control, jobs, wpc, job, fate>>
      /\ \E stage \in Stages : GoTo(c, stage)
  BY DEF Accept, Begin, Lookup, ReadFile, PutFile, CheckUsage, CheckLoad, NotScheduled, Leave,
         thread, AfterAnswer, Stages, Open
<1>2. hpc[c] \in {"leave", "closed"} => hpc'[c] \in {"leave", "closed"}
  BY DEF Accept, Begin, Lookup, ReadFile, PutFile, CheckUsage, CheckLoad, NotScheduled, Leave,
         GoTo, QueueInv, QueueTypeOK
<1>3. ctl = "failed" => FALSE
  BY DEF Accept, Begin, Lookup, ReadFile, PutFile, CheckUsage, CheckLoad, NotScheduled, Leave,
         QueueInv, ControlInv, Connected
<1>4. QueueTypeOK'
  BY <1>1 DEF QueueInv, QueueTypeOK, GoTo, control
<1>5. ControlInv' /\ IdleInv'
  BY <1>1, <1>3 DEF QueueInv, ControlInv, IdleInv, control
<1>6. PlaceInv'
  BY <1>1, <1>2 DEF QueueInv, QueueTypeOK, PlaceInv, InQueue, GoTo
<1> QED BY <1>4, <1>5, <1>6 DEF QueueInv

LEMMA ScheduleQueue == ASSUME QueueInv, NEW c \in Clients, Schedule(c) PROVE QueueInv'
<1>1. /\ Len(jobs) \in Nat /\ Len(jobs') = Len(jobs) + 1 /\ jobs' \in Seq(Clients)
      /\ \A i \in 1..Len(jobs) : jobs'[i] = jobs[i]
      /\ jobs'[Len(jobs) + 1] = c
  BY DEF Schedule, QueueInv, QueueTypeOK
<1>2. ctl = "up"
  BY DEF Schedule, HasRoom, QueueInv, QueueTypeOK, ControlInv, Connected
<1>3. QueueTypeOK'
  <2>1. Len(jobs') <= MaxQueue
    BY <1>1, ServingAssumption DEF Schedule, HasRoom
  <2>2. wpc' \in ThreadStages /\ (wpc' \in Looking <=> wpc \in Looking)
    BY DEF Schedule, Notified, QueueInv, QueueTypeOK, ThreadStages, Looking
  <2> QED BY <1>1, <2>1, <2>2 DEF Schedule, QueueInv, QueueTypeOK, control, GoTo, Stages, Open
<1>4. ControlInv' /\ IdleInv'
  BY <1>2 DEF Schedule, Notified, QueueInv, ControlInv, IdleInv, control
<1>5. InQueue' = InQueue \cup {c}
  BY <1>1 DEF InQueue
<1>6. PlaceInv'
  BY <1>5 DEF Schedule, QueueInv, QueueTypeOK, PlaceInv, GoTo
<1> QED BY <1>3, <1>4, <1>6 DEF QueueInv

LEMMA ControlQueue ==
  ASSUME QueueInv, Start \/ StopBegin \/ StopNotify \/ StopJoin \/ StopReset
  PROVE  QueueInv'
<1>1. /\ UNCHANGED <<hpc, jobs, job, fate>>
  BY DEF Start, StopBegin, StopNotify, StopJoin, StopReset, server, thread
<1>2. PlaceInv'
  BY <1>1 DEF QueueInv, PlaceInv, InQueue
<1>3. Connected' = Connected
  BY <1>1 DEF Connected
<1> USE DEF QueueInv, QueueTypeOK, ControlInv, IdleInv, ThreadStages, Looking
<1>4. CASE Start
  BY <1>1, <1>2, <1>3, <1>4 DEF Start
<1>5. CASE StopBegin
  BY <1>1, <1>2, <1>3, <1>5 DEF StopBegin, thread
<1>6. CASE StopNotify
  BY <1>1, <1>2, <1>3, <1>6 DEF StopNotify, Notified
<1>7. CASE StopJoin
  BY <1>1, <1>2, <1>3, <1>7 DEF StopJoin
<1>8. CASE StopReset
  BY <1>1, <1>2, <1>3, <1>8 DEF StopReset, thread
<1> QED BY <1>4, <1>5, <1>6, <1>7, <1>8

\* The thread's waits, and a page taken from the queue.
LEMMA LoopQueue == ASSUME QueueInv, Loop \/ SpuriousWakeup PROVE QueueInv'
<1>1. UNCHANGED <<hpc, control, fate>> /\ Connected' = Connected
  BY DEF Loop, Sleep, Exit, Take, SpuriousWakeup, server, Connected
<1> USE DEF QueueInv, control
<1>2. CASE Sleep \/ Exit \/ SpuriousWakeup
  <2>1. PlaceInv'
    BY <1>1, <1>2 DEF Sleep, Exit, SpuriousWakeup, PlaceInv, InQueue
  <2>2. (QueueTypeOK /\ ControlInv /\ IdleInv)'
    BY <1>1, <1>2 DEF Sleep, Exit, MustExit, SpuriousWakeup, QueueTypeOK, ControlInv, IdleInv,
                      ThreadStages, Looking
  <2> QED BY <2>1, <2>2
<1>3. CASE Take
  <2>1. /\ job' \in Clients /\ job' = jobs[1] /\ jobs' \in Seq(Clients)
        /\ Len(jobs) \in Nat \ {0} /\ Len(jobs') = Len(jobs) - 1
        /\ \A i \in 1..Len(jobs') : jobs'[i] = jobs[i + 1]
        /\ job = NoClient /\ wpc = "ready" /\ wpc' = "usage"
    BY <1>3 DEF Take, Oldest, QueueTypeOK, Looking
  <2>2. InQueue' \cup {job'} \subseteq InQueue
    BY <2>1 DEF InQueue
  <2>3. InQueue \subseteq InQueue' \cup {job'}
    <3> SUFFICES ASSUME NEW i \in 1..Len(jobs), jobs[i] # job' PROVE jobs[i] \in InQueue'
      BY DEF InQueue
    <3>1. i - 1 \in 1..Len(jobs') /\ jobs'[i - 1] = jobs[i]
      BY <2>1
    <3> QED BY <3>1 DEF InQueue
  <2>4. PlaceInv'
    BY <1>1, <2>1, <2>2, <2>3, ServingAssumption DEF PlaceInv
  <2>5. QueueTypeOK'
    BY <1>1, <2>1, ServingAssumption DEF QueueTypeOK, ThreadStages, Looking
  <2>6. ControlInv' /\ IdleInv'
    BY <1>1, <2>1 DEF ControlInv, IdleInv
  <2> QED BY <2>4, <2>5, <2>6
<1> QED BY <1>2, <1>3 DEF Loop

\* While it looks through a page it goes on, or the page is done.
LEMMA LookingStep ==
  ASSUME QueueInv, Process \/ JobThrows
  PROVE  /\ UNCHANGED <<hpc, control, jobs>>
         /\ wpc \in Looking
         /\ \/ wpc' \in Looking /\ UNCHANGED <<job, fate>>
            \/ JobIsOver
  BY DEF Process, LookUsage, LookLoad, NextUrl, LookContains, LookSize, ReadResource,
         PutResource, JobThrows, GoOn, Looking, server

LEMMA LookingQueue == ASSUME QueueInv, Process \/ JobThrows PROVE QueueInv'
<1>1. UNCHANGED <<hpc, control, jobs>> /\ wpc \in Looking /\ InQueue' = InQueue
        /\ Connected' = Connected
  BY LookingStep DEF InQueue, Connected
<1> USE DEF QueueInv, control
<1>2. CASE wpc' \in Looking /\ UNCHANGED <<job, fate>>
  BY <1>1, <1>2 DEF QueueTypeOK, ControlInv, IdleInv, PlaceInv, ThreadStages, Looking
<1>3. CASE JobIsOver
  <2>1. job \in Clients
    BY <1>1 DEF QueueTypeOK
  <2>2. QueueTypeOK' /\ ControlInv' /\ IdleInv'
    BY <1>1, <1>3, <2>1
    DEF JobIsOver, QueueTypeOK, ControlInv, IdleInv, ThreadStages, Looking
  <2>3. PlaceInv'
    <3>1. \A c \in Clients : fate'[c] = IF c = job THEN "done" ELSE fate[c]
      BY <1>3 DEF JobIsOver, QueueTypeOK
    <3>2. hpc[job] \in {"leave", "closed"}
      BY <2>1, <1>1 DEF PlaceInv
    <3>3. job' = NoClient
      BY <1>3 DEF JobIsOver
    <3> QED BY <1>1, <3>1, <3>2, <3>3, ServingAssumption DEF PlaceInv
  <2> QED BY <2>2, <2>3
<1> QED BY <1>2, <1>3, LookingStep

LEMMA StepQueue == QueueInv /\ [Next]_vars => QueueInv'
<1> SUFFICES ASSUME QueueInv, [Next]_vars PROVE QueueInv'
  OBVIOUS
<1>1. CASE UNCHANGED vars
  BY <1>1 DEF vars, server, control, thread, QueueInv, QueueTypeOK, ControlInv, IdleInv,
              PlaceInv, InQueue, Connected
<1> QED BY <1>1, HandlerQueue, ScheduleQueue, ControlQueue, LoopQueue, LookingQueue
        DEF Next, Handle

LEMMA Queues == Spec => []QueueInv
  BY InitQueue, StepQueue, PTL DEF Spec

\* Whatever handlers push and whenever Stop comes, the thread never waits while there is
\* a page to look through or a Stop that has notified and joins.
THEOREM ThreadNeverSleepsOverWork == Spec => []NeverSleepsOverWork
<1>1. QueueInv => NeverSleepsOverWork
  BY DEF QueueInv, IdleInv, NeverSleepsOverWork
<1> QED BY <1>1, Queues, PTL

\* A sequence has no more members than places.
LEMMA MembersBounded ==
  ASSUME NEW S, NEW q \in Seq(S)
  PROVE  LET R == {q[i] : i \in 1..Len(q)} IN IsFiniteSet(R) /\ Cardinality(R) <= Len(q)
<1> DEFINE R == {q[i] : i \in 1..Len(q)}
           f == [i \in 1..Len(q) |-> q[i]]
<1>1. f \in Surjection(1..Len(q), R)
  BY DEF Surjection
<1>2. IsFiniteSet(1..Len(q)) /\ Cardinality(1..Len(q)) = Len(q)
  <2>1. \A n \in Nat : IsFiniteSet(1..n) /\ Cardinality(1..n) = n
    BY FS_Interval
  <2> QED BY <2>1, LenProperties
<1>3. IsFiniteSet(R) /\ Cardinality(R) <= Cardinality(1..Len(q))
  BY <1>1, <1>2, FS_Surjection
<1> QED BY <1>2, <1>3

\* However many handlers schedule at once, no more pages are accepted and not done than
\* the queue holds and the one being looked through.
THEOREM BacklogStaysBounded == Spec => []BacklogIsBounded
<1>1. QueueInv => BacklogIsBounded
  <2> SUFFICES ASSUME QueueInv PROVE BacklogIsBounded
    OBVIOUS
  <2> DEFINE A == {c \in Clients : fate[c] = "accepted"}
  <2>1. A \subseteq InQueue \cup {job}
    BY DEF QueueInv, PlaceInv
  <2>2. /\ IsFiniteSet(InQueue) /\ Cardinality(InQueue) <= Len(jobs)
        /\ Len(jobs) \in Nat /\ Len(jobs) <= MaxQueue
    BY MembersBounded DEF InQueue, QueueInv, QueueTypeOK
  <2>3. /\ IsFiniteSet(InQueue \cup {job})
        /\ Cardinality(InQueue \cup {job}) <= Cardinality(InQueue) + 1
    <3>1. Cardinality(InQueue) \in Nat
      BY <2>2, FS_CardinalityType
    <3>2. /\ IsFiniteSet(InQueue \cup {job})
          /\ Cardinality(InQueue \cup {job}) =
               IF job \in InQueue THEN Cardinality(InQueue) ELSE Cardinality(InQueue) + 1
      BY <2>2, FS_AddElement
    <3> QED BY <3>1, <3>2
  <2>4. Cardinality(A) <= Cardinality(InQueue \cup {job}) /\ IsFiniteSet(A)
    BY <2>1, <2>3, FS_Subset
  <2> HIDE DEF A
  <2>5. Cardinality(A) <= MaxQueue + 1
    BY <2>2, <2>3, <2>4, FS_CardinalityType, ServingAssumption
  <2> QED BY <2>5 DEF A, BacklogIsBounded
<1> QED BY <1>1, Queues, PTL
------------------------------------------------------------------------------
(* The prefetcher implements JobPool *)

LEMMA InitIsQueue == Init => Queue!Init
  BY DEF Init, Queue!Init, Phase, OneSlot

LEMMA StepIsQueue == QueueInv /\ [Next]_vars => [Queue!Next]_Queue!vars
<1> SUFFICES ASSUME QueueInv, [Next]_vars PROVE Queue!Next \/ UNCHANGED Queue!vars
  OBVIOUS
<1>a. UNCHANGED <<jobs, job, fate, started, stopping>> => UNCHANGED Queue!vars
  BY DEF Queue!vars, Phase
<1>1. ASSUME NEW c \in Clients,
             \/ Accept(c) \/ \E target \in Targets : Begin(c, target)
             \/ Lookup(c) \/ ReadFile(c) \/ PutFile(c) \/ CheckUsage(c) \/ CheckLoad(c)
             \/ NotScheduled(c) \/ Leave(c)
      PROVE  UNCHANGED Queue!vars
  BY <1>1, <1>a DEF Accept, Begin, Lookup, ReadFile, PutFile, CheckUsage, CheckLoad,
                    NotScheduled, Leave, thread, control
<1>2. ASSUME NEW c \in Clients, Schedule(c) PROVE Queue!Next
  <2>1. Phase = "open" /\ Phase' = "open"
    BY <1>2 DEF Schedule, HasRoom, Phase, control
  <2>2. fate[c] = "new"
    BY <1>2 DEF Schedule, QueueInv, QueueTypeOK, PlaceInv
  <2>3. Queue!Accept(c)
    BY <1>2, <2>1, <2>2 DEF Schedule, Queue!Accept
  <2> QED BY <2>3 DEF Queue!Next
<1>3. CASE Start
  <2>1. Phase = "closed" /\ Phase' = "open"
    BY <1>3 DEF Start, Phase
  <2>2. Queue!Open
    BY <1>3, <2>1 DEF Start, Queue!Open
  <2> QED BY <2>2 DEF Queue!Next
<1>4. CASE StopBegin
  <2>1. Phase = "open" /\ Phase' = "closing"
    BY <1>4 DEF StopBegin, Phase, QueueInv, ControlInv, QueueTypeOK
  <2>2. Queue!Close
    BY <1>4, <2>1 DEF StopBegin, Queue!Close, thread
  <2> QED BY <2>2 DEF Queue!Next
<1>5. CASE StopNotify \/ StopJoin
  BY <1>5, <1>a DEF StopNotify, StopJoin
<1>6. CASE StopReset
  <2>1. Phase = "closing" /\ Phase' = "closed"
    BY <1>6 DEF StopReset, Phase, QueueInv, ControlInv, QueueTypeOK
  <2>2. jobs = <<>> /\ job = NoClient
    BY <1>6 DEF StopReset, QueueInv, ControlInv, IdleInv, QueueTypeOK, Looking
  <2>3. \A c \in Clients : fate[c] # "accepted"
    BY <2>2, ServingAssumption DEF QueueInv, PlaceInv, InQueue
  <2>4. Queue!Drained
    BY <1>6, <2>1, <2>3 DEF StopReset, Queue!Drained, thread
  <2> QED BY <2>4 DEF Queue!Next
<1>7. CASE Sleep \/ Exit \/ SpuriousWakeup
  BY <1>7, <1>a DEF Sleep, Exit, SpuriousWakeup, control
<1>8. CASE Take
  <2>1. job = NoClient /\ Phase' = Phase
    BY <1>8 DEF Take, QueueInv, QueueTypeOK, Looking, Phase, control
  <2>2. Queue!Begin("thread")
    BY <1>8, <2>1 DEF Take, Oldest, Queue!Begin, OneSlot
  <2> QED BY <2>2 DEF Queue!Next, OneSlot
<1>9. CASE Process \/ JobThrows
  <2>1. CASE UNCHANGED <<job, fate>>
    BY <1>9, <1>a, <2>1, LookingStep DEF control
  <2>2. CASE JobIsOver /\ wpc \in Looking
    <3>1. job # NoClient /\ Phase' = Phase /\ jobs' = jobs
      BY <1>9, <2>2, LookingStep DEF QueueInv, QueueTypeOK, Phase, control
    <3>2. Queue!Finish("thread")
      BY <2>2, <3>1 DEF JobIsOver, Queue!Finish, OneSlot
    <3> QED BY <3>2 DEF Queue!Next, OneSlot
  <2> QED BY <1>9, <2>1, <2>2, LookingStep
<1>10. CASE UNCHANGED vars
  BY <1>10, <1>a DEF vars, thread, control
<1> QED BY <1>1, <1>2, <1>3, <1>4, <1>5, <1>6, <1>7, <1>8, <1>9, <1>10
        DEF Next, Handle, Loop

\* Every behaviour of the prefetcher is one of JobPool: pages are looked through in the
\* order they were accepted, each once, and Stop returns when none is left.
THEOREM PrefetcherImplementsJobPool == Spec => ImplementsJobPool
  BY InitIsQueue, StepIsQueue, Queues, PTL DEF Spec, ImplementsJobPool, Queue!Spec
------------------------------------------------------------------------------
(* The URLs of a page *)

\* What ExtractResourceUrls returns is a list of URLs, each once.
Urls == Seq(STRING)
EachOnce(s) == \A i, k \in 1..Len(s) : s[i] = s[k] => i = k
Listed == {s \in Seq(Urls) : EachOnce(s)}

LEMMA AppendOnce ==
  ASSUME NEW s \in Listed, NEW u \in Urls, u \notin ToSet(s)
  PROVE  Append(s, u) \in Listed /\ Len(Append(s, u)) = Len(s) + 1
<1>1. /\ Len(s) \in Nat /\ DOMAIN s = 1..Len(s) /\ s \in Seq(Urls)
      /\ \A i \in 1..Len(s) : s[i] # u
  BY LenProperties DEF Listed, ToSet
<1>2. /\ Append(s, u) \in Seq(Urls) /\ Len(Append(s, u)) = Len(s) + 1
      /\ \A i \in 1..Len(s) : Append(s, u)[i] = s[i]
      /\ Append(s, u)[Len(s) + 1] = u
  BY <1>1, AppendProperties
<1> DEFINE t == Append(s, u)
<1> HIDE DEF t
<1>3. EachOnce(t)
  BY <1>1, <1>2 DEF EachOnce, Listed, t
<1> QED BY <1>2, <1>3 DEF Listed, t

\* What one pattern has, when it starts with len URLs: it may go on only below twice
\* MaxResources, or with nothing new yet.
Extracting(len) ==
  {a \in [urls : Listed, full : BOOLEAN] :
     \/ Len(a.urls) <= len
     \/ Len(a.urls) < 2 * MaxResources
     \/ a.full /\ (Len(a.urls) <= len + 1 \/ Len(a.urls) <= 2 * MaxResources)}

LEMMA AddUrlType ==
  ASSUME NEW len \in Nat, NEW a \in Extracting(len), NEW u \in Urls
  PROVE  AddUrl(a, u) \in Extracting(len)
<1>1. CASE a.full
  BY <1>1 DEF AddUrl
<1>2. CASE ~a.full
  <2> DEFINE urls == IF u \in ToSet(a.urls) THEN a.urls ELSE Append(a.urls, u)
  <2>1. /\ a.urls \in Listed /\ Len(a.urls) \in Nat /\ MaxResources \in Nat
        /\ Len(a.urls) <= len \/ Len(a.urls) < 2 * MaxResources
    BY <1>2, LenProperties, ServingAssumption DEF Extracting, Listed
  <2>2. urls \in Listed /\ (Len(urls) = Len(a.urls) \/ Len(urls) = Len(a.urls) + 1)
    BY <2>1, AppendOnce
  <2> DEFINE full == Len(urls) >= 2 * MaxResources
  <2>3. AddUrl(a, u) = [urls |-> urls, full |-> full]
    BY <1>2 DEF AddUrl
  <2> HIDE DEF urls
  <2>4. full \in BOOLEAN
    OBVIOUS
  <2>5. \/ Len(urls) <= len
        \/ Len(urls) < 2 * MaxResources
        \/ full /\ (Len(urls) <= len + 1 \/ Len(urls) <= 2 * MaxResources)
    BY <2>1, <2>2
  <2> HIDE DEF full
  <2>6. [urls |-> urls, full |-> full] \in [urls : Listed, full : BOOLEAN]
    BY <2>2, <2>4
  <2>7. [urls |-> urls, full |-> full] \in Extracting(len)
    BY <2>5, <2>6 DEF Extracting
  <2> QED BY <2>3, <2>7
<1> QED BY <1>1, <1>2

LEMMA FoldOfUrls ==
  ASSUME NEW len \in Nat, NEW a \in Extracting(len), NEW tags \in Seq(Urls)
  PROVE  FoldLeft(AddUrl, a, tags) \in Extracting(len)
<1> DEFINE D == Extracting(len)
           n == Len(tags)
           F == [x \in D \X (1..n) |-> AddUrl(x[1], tags[x[2]])]
           Folds(it) == it = [s \in SUBSET (1..n) |->
                                IF s = {} THEN a
                                ELSE AddUrl(it[s \ {Max(s)}], tags[Max(s)])]
           it0 == CHOOSE it : Folds(it)
<1>1. n \in Nat /\ DOMAIN tags = 1..n /\ \A i \in 1..n : tags[i] \in Urls
  BY LenProperties, ElementOfSeq
<1>2. FoldLeft(AddUrl, a, tags) = it0[1..n]
  <2>1. FoldLeft(AddUrl, a, tags) =
          (CHOOSE it : it = [s \in SUBSET DOMAIN tags |->
                               IF s = {} THEN a
                               ELSE AddUrl(it[s \ {Max(s)}], tags[Max(s)])])[DOMAIN tags]
    BY DEF FoldLeft, MapThenFoldSet
  <2> QED BY <1>1, <2>1
<1> HIDE DEF D
<1>3. F \in [D \X (1..n) -> D]
  BY <1>1, AddUrlType DEF D
<1>4. \E it : Folds(it)
  <2> HIDE DEF F, n
  <2>1. PICK it : IsFold(it, a, F, n) /\ StaysIn(it, D, n)
    BY <1>1, <1>3, FoldExists DEF D
  <2>2. ASSUME NEW s \in SUBSET (1..n), s # {}
        PROVE  F[<<it[s \ {Max(s)}], Max(s)>>] = AddUrl(it[s \ {Max(s)}], tags[Max(s)])
    <3>1. Max(s) \in 1..n /\ it[s \ {Max(s)}] \in D
      BY <1>1, <2>1, <2>2, MaxOfSome DEF StaysIn
    <3> QED BY <3>1 DEF F
  <2>3. Folds(it)
    BY <2>1, <2>2, Zenon DEF IsFold
  <2> HIDE DEF Folds
  <2> QED BY <2>3
<1>5. Folds(it0)
  <2> HIDE DEF Folds
  <2> QED BY <1>4
<1> HIDE DEF it0, F, n
<1>6. it0[1..0] = a
  <2>1. 1..0 = {} /\ {} \in SUBSET (1..n)
    OBVIOUS
  <2> QED BY <1>5, <2>1
<1>7. ASSUME NEW i \in 1..n, it0[1..(i - 1)] \in D PROVE it0[1..i] \in D
  <2> DEFINE s == 1..i
  <2>1. s \in SUBSET (1..n) /\ s # {} /\ Max(s) = i /\ s \ {i} = 1..(i - 1)
    BY <1>1, FoldOfFirst
  <2> HIDE DEF s
  <2>2. it0[s] = AddUrl(it0[s \ {Max(s)}], tags[Max(s)])
    BY <1>5, <2>1
  <2>3. it0[s] = AddUrl(it0[1..(i - 1)], tags[i])
    BY <2>1, <2>2
  <2> QED BY <1>1, <1>7, <2>3, AddUrlType DEF s, D
<1>8. it0[1..n] \in D
  <2>1. a \in D
    BY DEF D
  <2>2. \A i \in 0..n : it0[1..i] \in D
    BY <1>1, <1>6, <1>7, <2>1, FoldReaches
  <2> QED BY <1>1, <2>2
<1> QED BY <1>2, <1>8 DEF D

\* One pattern adds at most one URL beyond the limit.
LEMMA CollectedType ==
  ASSUME NEW found \in Listed, NEW tags \in Seq(Urls)
  PROVE  /\ Collected(found, tags) \in Listed
         /\ Len(Collected(found, tags)) \in Nat
         /\ \/ Len(Collected(found, tags)) <= Len(found) + 1
            \/ Len(Collected(found, tags)) <= 2 * MaxResources
<1> DEFINE a == [urls |-> found, full |-> FALSE]
<1>1. Len(found) \in Nat /\ MaxResources \in Nat
  BY LenProperties, ServingAssumption DEF Listed
<1>2. a \in Extracting(Len(found))
  BY <1>1 DEF Extracting
<1> DEFINE b == FoldLeft(AddUrl, a, tags)
<1>3. Collected(found, tags) = b.urls
  BY DEF Collected
<1> HIDE DEF a
<1>4. b \in Extracting(Len(found))
  BY <1>1, <1>2, FoldOfUrls
<1> HIDE DEF b
<1>5. b.urls \in Listed /\ Len(b.urls) \in Nat
  BY <1>4, LenProperties DEF Extracting, Listed
<1>6. Len(b.urls) <= Len(found) + 1 \/ Len(b.urls) <= 2 * MaxResources
  BY <1>1, <1>4, <1>5 DEF Extracting
<1> QED BY <1>3, <1>5, <1>6

\* Three patterns: the first stays within the limit, or at one URL, and each of the others
\* adds one at most.
PageLimit == (IF MaxResources = 0 THEN 1 ELSE 2 * MaxResources) + 2

LEMMA ExtractedType ==
  ASSUME NEW f \in Pages
  PROVE  Extracted[f] \in Listed /\ Len(Extracted[f]) <= PageLimit
<1> DEFINE one == Collected(<<>>, Links[f]["link"])
           two == Collected(one, Links[f]["script"])
           three == Collected(two, Links[f]["img"])
<1>1. Extracted[f] = three
  BY DEF Extracted
<1>2. /\ Links[f]["link"] \in Seq(Urls) /\ Links[f]["script"] \in Seq(Urls)
      /\ Links[f]["img"] \in Seq(Urls) /\ MaxResources \in Nat
  BY ServingAssumption DEF Pages, Urls
<1>3. <<>> \in Listed /\ Len(<<>>) = 0
  BY EmptySeq DEF Listed, EachOnce
<1>4. one \in Listed /\ Len(one) \in Nat /\ (Len(one) <= 1 \/ Len(one) <= 2 * MaxResources)
  <2> DEFINE none == <<>>
             tags == Links[f]["link"]
  <2>1. none \in Listed /\ Len(none) = 0 /\ tags \in Seq(Urls)
    BY <1>2, <1>3
  <2> HIDE DEF none, tags
  <2>2. /\ Collected(none, tags) \in Listed /\ Len(Collected(none, tags)) \in Nat
        /\ \/ Len(Collected(none, tags)) <= Len(none) + 1
           \/ Len(Collected(none, tags)) <= 2 * MaxResources
    BY <2>1, CollectedType
  <2>3. one = Collected(none, tags) /\ Len(none) + 1 = 1
    BY <2>1 DEF none, tags
  <2> QED BY <2>2, <2>3
<1> HIDE DEF one
<1>5. /\ two \in Listed /\ Len(two) \in Nat
      /\ Len(two) <= Len(one) + 1 \/ Len(two) <= 2 * MaxResources
  BY <1>2, <1>4, CollectedType
<1> HIDE DEF two
<1>6. /\ three \in Listed /\ Len(three) \in Nat
      /\ Len(three) <= Len(two) + 1 \/ Len(three) <= 2 * MaxResources
  BY <1>2, <1>5, CollectedType
<1> HIDE DEF three
<1>7. Len(three) <= PageLimit
  BY <1>2, <1>4, <1>5, <1>6 DEF PageLimit
<1> QED BY <1>1, <1>6, <1>7
------------------------------------------------------------------------------
(* What requests and pages lead to *)

\* Requests and keys are normal paths; a page that waits to be looked through, or has been,
\* is one whose links are known.
Scheduling == {"usage", "load", "push"}
ServedInv == /\ DOMAIN cached \subseteq NormalPaths
             /\ path \in [Clients -> NormalPaths \cup {NoPath}]
             /\ \A c \in Clients : hpc[c] \notin {"new", "accepted"} => path[c] \in NormalPaths
             /\ \A c \in Clients : hpc[c] \in Scheduling \/ fate[c] # "new" => File(c) \in Pages

\* The URLs of a page are a bounded list, and one is gone into only below the limit.
Visiting == {"contains", "size", "read", "put"}
PageInv == /\ todo \in Listed /\ Len(todo) <= PageLimit
           /\ cur \in NormalPaths \cup {NoPath}
           /\ fetched \in 0..MaxResources
           /\ wpc \in Visiting => cur \in NormalPaths /\ fetched < MaxResources

LEMMA InitServed == Init => ServedInv /\ PageInv
<1> SUFFICES ASSUME Init PROVE ServedInv /\ PageInv
  OBVIOUS
<1>1. ServedInv
  BY DEF Init, ServedInv, Scheduling
<1>2. <<>> \in Listed /\ Len(<<>>) = 0 /\ 0 <= PageLimit /\ MaxResources \in Nat
  BY EmptySeq, ServingAssumption DEF Listed, EachOnce, PageLimit
<1>3. PageInv
  BY <1>2 DEF Init, PageInv, Visiting
<1> QED BY <1>1, <1>3

LEMMA PutNormal ==
  ASSUME NEW k \in NormalPaths, NEW file, DOMAIN cached \subseteq NormalPaths,
         PutStored(k, file)
  PROVE  DOMAIN cached' \subseteq NormalPaths
<1> DEFINE all == [j \in DOMAIN cached \cup {k} |-> IF j = k THEN file ELSE cached[j]]
<1>1. DOMAIN all \subseteq NormalPaths
  OBVIOUS
<1>2. cached' = all \/ \E v \in DOMAIN all : cached' = Restrict(all, DOMAIN all \ {v})
  BY DEF PutStored
<1> HIDE DEF all
<1> QED BY <1>1, <1>2 DEF Restrict

\* A handler that has read its request.
LEMMA HandlerServed ==
  ASSUME QueueInv, CachedIsFile, ServedInv, NEW c \in Clients, Handle(c)
  PROVE  ServedInv'
<1>1. /\ path' = path /\ path[c] \in NormalPaths /\ Key(c) \in NormalPaths
      /\ hpc \in [Clients -> Stages]
  <2>1. path' = path /\ hpc[c] \in Open \cup {"internal"} /\ hpc \in [Clients -> Stages]
    BY DEF Handle, Lookup, ReadFile, PutFile, CheckUsage, CheckLoad, Schedule, NotScheduled,
           Leave, Open, QueueInv, QueueTypeOK
  <2>2. path[c] \in NormalPaths
    BY <2>1 DEF ServedInv, Open
  <2> QED BY <2>1, <2>2, CacheKeyType DEF Key
<1>2. DOMAIN cached' \subseteq NormalPaths
  <2>1. CASE PutFile(c)
    BY <1>1, <2>1, PutNormal DEF PutFile, PutRefused, ServedInv
  <2>2. CASE ~PutFile(c)
    <3>1. cached' = cached
      BY <2>2 DEF Handle, Lookup, ReadFile, CheckUsage, CheckLoad, Schedule, NotScheduled,
                  Leave
    <3> QED BY <3>1 DEF ServedInv
  <2> QED BY <2>1, <2>2
<1>3. \E stage \in Stages \ {"new", "accepted"} :
         GoTo(c, stage) /\ (stage \in Scheduling => File(c) \in Pages)
  <2>1. File(c) = ResolveRequestPath(Key(c))
    BY KeyKeepsFile DEF File, Key
  <2>2. CASE Lookup(c)
    <3>1. Key(c) \in DOMAIN cached => cached[Key(c)] = File(c)
      BY <2>1 DEF CachedIsFile
    <3> QED BY <2>2, <3>1 DEF Lookup, AfterAnswer, Stages, Open, Scheduling
  <2>3. CASE ReadFile(c) \/ NotScheduled(c) \/ Schedule(c) \/ Leave(c)
    BY <2>3 DEF ReadFile, NotScheduled, Schedule, Leave, Stages, Open, Scheduling
  <2>4. CASE PutFile(c)
    BY <2>4 DEF PutFile, AfterAnswer, Stages, Open, Scheduling
  <2>5. CASE CheckUsage(c) \/ CheckLoad(c)
    <3>1. File(c) \in Pages
      BY <2>5 DEF CheckUsage, CheckLoad, ServedInv, Scheduling
    <3> QED BY <2>5, <3>1 DEF CheckUsage, CheckLoad, Stages, Open, Scheduling
  <2> QED BY <2>2, <2>3, <2>4, <2>5 DEF Handle
<1>4. \A d \in Clients : fate'[d] # "new" => File(d) \in Pages
  <2>1. CASE Schedule(c)
    <3>1. File(c) \in Pages /\ fate' = [fate EXCEPT ![c] = "accepted"]
      BY <2>1 DEF Schedule, ServedInv, Scheduling
    <3> QED BY <3>1 DEF ServedInv, QueueInv, QueueTypeOK
  <2>2. CASE ~Schedule(c)
    <3>1. fate' = fate
      BY <2>2 DEF Handle, Lookup, ReadFile, PutFile, CheckUsage, CheckLoad, NotScheduled,
                  Leave
    <3> QED BY <3>1 DEF ServedInv
  <2> QED BY <2>1, <2>2
<1>5. \A d \in Clients : File(d)' = File(d)
  BY <1>1 DEF File
<1>6. \A d \in Clients : hpc'[d] \notin {"new", "accepted"} => path[d] \in NormalPaths
  BY <1>1, <1>3 DEF GoTo, ServedInv
<1>7. \A d \in Clients : hpc'[d] \in Scheduling => File(d) \in Pages
  BY <1>1, <1>3 DEF GoTo, ServedInv
<1> QED BY <1>1, <1>2, <1>4, <1>5, <1>6, <1>7 DEF ServedInv

\* A client that is accepted, and one whose request is read.
LEMMA ArrivalServed ==
  ASSUME QueueInv, ServedInv, NEW c \in Clients,
         Accept(c) \/ \E target \in Targets : Begin(c, target)
  PROVE  ServedInv'
<1>1. /\ hpc \in [Clients -> Stages] /\ cached' = cached /\ fate' = fate
      /\ \A d \in Clients : fate[d] # "new" => hpc[d] \in {"leave", "closed"}
  BY DEF Accept, Begin, QueueInv, QueueTypeOK, PlaceInv
<1>2. CASE Accept(c)
  <2>1. path' = path /\ hpc' = [hpc EXCEPT ![c] = "accepted"]
    BY <1>2 DEF Accept, GoTo
  <2>2. \A d \in Clients : File(d)' = File(d)
    BY <2>1 DEF File
  <2> QED BY <1>1, <2>1, <2>2 DEF ServedInv, Scheduling
<1>3. CASE \E target \in Targets : Begin(c, target)
  <2>1. PICK target \in Targets : Begin(c, target)
    BY <1>3
  <2>2. RequestPath(target) \in NormalPaths
    BY ServingAssumption, RequestsStayBelowRoot
  <2>3. /\ hpc[c] = "accepted" /\ path' = [path EXCEPT ![c] = RequestPath(target)]
        /\ \E stage \in {"internal", "get"} : hpc' = [hpc EXCEPT ![c] = stage]
    BY <2>1 DEF Begin, GoTo
  <2>4. path' \in [Clients -> NormalPaths \cup {NoPath}]
    BY <2>2, <2>3 DEF ServedInv
  <2>5. \A d \in Clients : hpc'[d] \notin {"new", "accepted"} => path'[d] \in NormalPaths
    BY <1>1, <2>2, <2>3 DEF ServedInv
  <2>6. \A d \in Clients \ {c} : File(d)' = File(d) /\ hpc'[d] = hpc[d]
    BY <1>1, <2>3 DEF File, ServedInv
  <2>7. hpc'[c] \notin Scheduling /\ fate'[c] = "new"
    BY <1>1, <2>3 DEF Scheduling
  <2>8. \A d \in Clients : hpc'[d] \in Scheduling \/ fate'[d] # "new" => File(d)' \in Pages
    BY <1>1, <2>6, <2>7 DEF ServedInv
  <2> QED BY <1>1, <2>4, <2>5, <2>8 DEF ServedInv
<1> QED BY <1>2, <1>3

\* Steps of the prefetcher and of its owner: a page they finish was scheduled.
LEMMA OtherServed ==
  ASSUME QueueInv, ServedInv, PageInv,
         \/ Start \/ StopBegin \/ StopNotify \/ StopJoin \/ StopReset
         \/ Loop \/ Process \/ JobThrows \/ SpuriousWakeup
  PROVE  ServedInv'
<1>1. UNCHANGED server
  BY DEF Start, StopBegin, StopNotify, StopJoin, StopReset, Loop, Sleep, Exit, Take, Process,
         LookUsage, LookLoad, NextUrl, LookContains, LookSize, ReadResource, PutResource,
         JobThrows, SpuriousWakeup
<1>2. UNCHANGED fate \/ (wpc \in Looking /\ fate' = [fate EXCEPT ![job] = "done"])
  <2>1. CASE Process \/ JobThrows
    BY <2>1, LookingStep DEF JobIsOver
  <2>2. CASE ~(Process \/ JobThrows)
    BY <2>2 DEF Start, StopBegin, StopNotify, StopJoin, StopReset, Loop, Sleep, Exit, Take,
                SpuriousWakeup, thread
  <2> QED BY <2>1, <2>2
<1>3. \A d \in Clients : fate'[d] # "new" => fate[d] # "new"
  <2>1. wpc \in Looking => job \in Clients /\ fate[job] # "new"
    BY DEF QueueInv, QueueTypeOK, PlaceInv
  <2> QED BY <1>2, <2>1 DEF QueueInv, QueueTypeOK
<1>4. \A d \in Clients : File(d)' = File(d) /\ hpc'[d] = hpc[d] /\ path'[d] = path[d]
  BY <1>1 DEF server, File
<1>5. DOMAIN cached' \subseteq NormalPaths
  <2>1. CASE PutResource
    <3>1. cur \in NormalPaths /\ DOMAIN cached \subseteq NormalPaths
      BY <2>1 DEF PutResource, PageInv, Visiting, ServedInv
    <3> QED BY <2>1, <3>1, PutNormal DEF PutResource, PutRefused
  <2>2. CASE ~PutResource
    <3>1. cached' = cached
      BY <2>2 DEF Start, StopBegin, StopNotify, StopJoin, StopReset, Loop, Sleep, Exit, Take,
                  Process, LookUsage, LookLoad, NextUrl, LookContains, LookSize,
                  ReadResource, JobThrows, SpuriousWakeup
    <3> QED BY <3>1 DEF ServedInv
  <2> QED BY <2>1, <2>2
<1> QED BY <1>1, <1>3, <1>4, <1>5 DEF ServedInv, server

LEMMA TailOnce ==
  ASSUME NEW s \in Listed, s # <<>>
  PROVE  /\ Head(s) \in Urls /\ Tail(s) \in Listed
         /\ Len(Tail(s)) \in Nat /\ Len(s) \in Nat /\ Len(Tail(s)) <= Len(s)
<1>1. /\ Head(s) \in Urls /\ Tail(s) \in Seq(Urls) /\ Len(Tail(s)) = Len(s) - 1
      /\ Len(s) \in Nat \ {0} /\ \A i \in 1..Len(Tail(s)) : Tail(s)[i] = s[i + 1]
  BY HeadTailProperties, EmptySeq DEF Listed
<1>2. EachOnce(Tail(s))
  <2> SUFFICES ASSUME NEW i \in 1..Len(Tail(s)), NEW k \in 1..Len(Tail(s)),
                      Tail(s)[i] = Tail(s)[k]
               PROVE  i = k
    BY DEF EachOnce
  <2>1. i + 1 \in 1..Len(s) /\ k + 1 \in 1..Len(s) /\ s[i + 1] = s[k + 1]
    BY <1>1
  <2>2. i + 1 = k + 1
    BY <2>1 DEF Listed, EachOnce
  <2> QED BY <2>2
<1> QED BY <1>1, <1>2 DEF Listed

\* The thread's steps through a page.
LEMMA ProcessPage ==
  ASSUME QueueInv, ServedInv, PageInv, Process \/ JobThrows
  PROVE  PageInv'
<1>1. /\ job \in Clients /\ path[job] \in NormalPaths /\ File(job) \in Pages
      /\ Key(job) \in NormalPaths
  <2>1. job \in Clients /\ fate[job] # "new" /\ hpc[job] \in {"leave", "closed"}
    BY LookingStep DEF QueueInv, QueueTypeOK, PlaceInv
  <2>2. path[job] \in NormalPaths /\ File(job) \in Pages
    BY <2>1 DEF ServedInv
  <2> QED BY <2>1, <2>2, CacheKeyType DEF Key
<1>2. MaxResources \in Nat /\ fetched \in Nat /\ fetched <= MaxResources
  BY ServingAssumption DEF PageInv
<1>3. CASE JobIsOver
  <2>1. <<>> \in Listed /\ Len(<<>>) = 0 /\ 0 <= PageLimit
    BY <1>2, EmptySeq DEF Listed, EachOnce, PageLimit
  <2> QED BY <1>2, <1>3, <2>1 DEF JobIsOver, PageInv, Visiting
<1>4. ASSUME NEW stage \in Looking, GoOn(stage),
             stage \in Visiting => wpc \in Visiting
      PROVE  PageInv'
  BY <1>4 DEF GoOn, PageInv
<1>5. CASE LookUsage \/ JobThrows
  BY <1>3, <1>4, <1>5 DEF LookUsage, JobThrows, Looking, Visiting
<1>6. CASE LookLoad
  <2>1. CASE ~JobIsOver
    <3>1. todo' = Extracted[File(job)] /\ wpc' = "next" /\ UNCHANGED <<cur, fetched>>
      BY <1>6, <2>1 DEF LookLoad
    <3> QED BY <1>1, <3>1, ExtractedType DEF PageInv, Visiting
  <2> QED BY <1>3, <2>1
<1>7. CASE NextUrl
  <2>1. CASE ~JobIsOver
    <3>1. /\ todo # <<>> /\ ~Enough /\ todo' = Tail(todo) /\ UNCHANGED fetched
          /\ cur' = NormalizeDependentPath(Key(job), Head(todo))
          /\ wpc' = IF cur' = NoPath THEN "next" ELSE "contains"
      BY <1>7, <2>1 DEF NextUrl
    <3>2. Head(todo) \in Urls /\ todo' \in Listed /\ Len(todo') <= PageLimit
      <4>1. PageLimit \in Nat
        BY <1>2 DEF PageLimit
      <4> QED BY <3>1, <4>1, TailOnce DEF PageInv
    <3>3. cur' \in NormalPaths \cup {NoPath}
      BY <1>1, <3>1, <3>2, LinksStayBelowRoot DEF Urls
    <3> QED BY <1>2, <3>1, <3>2, <3>3 DEF PageInv, Visiting, Enough
  <2> QED BY <1>3, <2>1
<1>8. CASE LookContains \/ LookSize \/ ReadResource
  BY <1>4, <1>8 DEF LookContains, LookSize, ReadResource, Looking, Visiting
<1>9. CASE PutResource
  BY <1>2, <1>9 DEF PutResource, PageInv, Visiting
<1> QED BY <1>5, <1>6, <1>7, <1>8, <1>9 DEF Process

\* The other steps leave the page alone.
LEMMA OtherPage ==
  ASSUME PageInv, [Next]_vars, ~(Process \/ JobThrows)
  PROVE  PageInv'
<1>1. UNCHANGED <<todo, cur, fetched>> /\ (wpc' \in Visiting => wpc \in Visiting)
  BY DEF Next, vars, thread, Accept, Begin, Handle, Lookup, ReadFile, PutFile, CheckUsage,
         CheckLoad, Schedule, NotScheduled, Leave, Start, StopBegin, StopNotify, StopJoin,
         StopReset, Loop, Sleep, Exit, Take, SpuriousWakeup, Notified, Visiting
<1> QED BY <1>1 DEF PageInv

ServingInv == QueueInv /\ CachedIsFile /\ ServedInv /\ PageInv

LEMMA StepServing == ServingInv /\ [Next]_vars => ServingInv'
<1> SUFFICES ASSUME ServingInv, [Next]_vars PROVE ServingInv'
  OBVIOUS
<1>1. QueueInv' /\ CachedIsFile'
  BY StepQueue, StepKeepsFiles DEF ServingInv
<1>2. ServedInv'
  <2>1. CASE UNCHANGED vars
    BY <2>1 DEF vars, server, ServingInv, ServedInv, File
  <2> QED BY <2>1, HandlerServed, ArrivalServed, OtherServed DEF Next, ServingInv
<1>3. PageInv'
  BY ProcessPage, OtherPage DEF ServingInv
<1> QED BY <1>1, <1>2, <1>3 DEF ServingInv

LEMMA Servings == Spec => []ServingInv
<1>1. Init => ServingInv
  <2>1. Init => CachedIsFile
    BY DEF Init, CachedIsFile
  <2> QED BY <2>1, InitQueue, InitServed DEF ServingInv
<1> QED BY <1>1, StepServing, PTL DEF Spec

\* However many URLs a page has, and whatever becomes of each, no more are looked at than
\* twice the limit and two (three if the limit is zero), each once, and no more contents than
\* the limit are stored.
THEOREM PageStaysBounded == Spec => []PageIsBounded
<1>1. ServingInv => PageIsBounded
  <2> SUFFICES ASSUME ServingInv PROVE PageIsBounded
    OBVIOUS
  <2>1. /\ fetched <= MaxResources /\ todo \in Listed /\ Len(todo) <= PageLimit
    BY ServingAssumption DEF ServingInv, PageInv
  <2>2. DOMAIN todo = 1..Len(todo)
    BY <2>1, LenProperties DEF Listed
  <2> QED BY <2>1, <2>2 DEF PageIsBounded, PageLimit, Listed, EachOnce
<1> QED BY <1>1, Servings, PTL

\* Every content in the cache was read from a file below the document root, by a path whose
\* names are ordinary: neither the target of a request nor a link leads elsewhere.
THEOREM CachedFilesAreBelowRoot == Spec => [](\A k \in DOMAIN cached : cached[k] \in Seq(Ordinary))
<1>1. ServingInv => \A k \in DOMAIN cached : cached[k] \in Seq(Ordinary)
  BY ResolveType DEF ServingInv, CachedIsFile, ServedInv
<1> QED BY <1>1, Servings, PTL

StartsInv == starts \in 0..MaxStarts

\* Nothing that clients, pages or the owner do takes the server's or the prefetcher's
\* variables out of their types.
THEOREM ServingIsTyped == Spec => []TypeOK
<1>1. Init => StartsInv
  BY ServingAssumption DEF Init, StartsInv
<1>2. StartsInv /\ [Next]_vars => StartsInv'
  <2> SUFFICES ASSUME StartsInv, [Next]_vars PROVE StartsInv'
    OBVIOUS
  <2>1. CASE Start
    BY <2>1, ServingAssumption DEF Start, StartsInv
  <2>2. CASE ~Start
    <3>1. starts' = starts
      BY <2>2 DEF Next, vars, control, Accept, Begin, Handle, Lookup, ReadFile, PutFile,
             CheckUsage, CheckLoad, Schedule, NotScheduled, Leave, StopBegin, StopNotify,
             StopJoin, StopReset, Loop, Sleep, Exit, Take, SpuriousWakeup, Process, LookUsage,
             LookLoad, NextUrl, LookContains, LookSize, ReadResource, PutResource, JobThrows
    <3> QED BY <3>1 DEF StartsInv
  <2> QED BY <2>1, <2>2
<1>3. ServingInv /\ StartsInv => TypeOK
  <2> SUFFICES ASSUME ServingInv, StartsInv PROVE TypeOK
    OBVIOUS
  <2>1. \A k \in DOMAIN cached : cached[k] \in Seq(STRING)
    <3>1. \A k \in DOMAIN cached : cached[k] \in Seq(Ordinary)
      BY ResolveType DEF ServingInv, CachedIsFile, ServedInv
    <3>2. Ordinary \subseteq STRING
      BY DEF Ordinary
    <3> QED BY <3>1, <3>2, SeqMonotonic
  <2>2. /\ DOMAIN cached \subseteq Paths
        /\ path \in [Clients -> Paths \cup {NoPath}] /\ cur \in Paths \cup {NoPath}
    BY NormalPathsArePaths DEF ServingInv, ServedInv, PageInv
  <2>3. todo \in Seq(Seq(STRING)) /\ fetched \in Nat
    BY ServingAssumption DEF ServingInv, PageInv, Listed, Urls
  <2> QED BY <2>1, <2>2, <2>3 DEF ServingInv, QueueInv, QueueTypeOK, StartsInv, TypeOK
<1> QED BY <1>1, <1>2, <1>3, Servings, PTL DEF Spec

------------------------------------------------------------------------------
(* The prefetcher's thread counts down *)

\* What the thread has left to do, in steps: each page in the queue from its first step to
\* its last, and of the page it is at the URLs not come to and the stages of this one.
PageWork == 5 * PageLimit + 4
StageWork == CASE wpc = "usage" -> PageWork
               [] wpc = "load" -> PageWork - 1
               [] wpc = "contains" -> 5 * Len(todo) + 6
               [] wpc = "size" -> 5 * Len(todo) + 5
               [] wpc = "read" -> 5 * Len(todo) + 4
               [] wpc = "put" -> 5 * Len(todo) + 3
               [] wpc = "next" -> 5 * Len(todo) + 2
               [] wpc \in {"ready", "waiting"} -> 1
               [] OTHER -> 0
ThreadWork == PageWork * Len(jobs) + StageWork

\* Each step of the thread but going to sleep leaves it less, and while Stop joins it
\* nothing adds to that.
ThreadCountsDown == [][/\ Exit \/ Take \/ Process \/ JobThrows => ThreadWork' < ThreadWork
                       /\ ctl = "join" => ThreadWork' <= ThreadWork]_vars

\* While Stop joins the thread it has ended or can go on.
JoinCanGoOn == ctl = "join" => \/ wpc \in {"exited", "none"}
                               \/ wpc = "ready" /\ (MustExit \/ jobs # <<>>)
                               \/ wpc \in Looking

LEMMA WorkType ==
  ASSUME ServingInv
  PROVE  /\ PageLimit \in Nat /\ PageWork \in Nat /\ PageWork = 5 * PageLimit + 4
         /\ Len(jobs) \in Nat /\ Len(todo) \in Nat /\ Len(todo) <= PageLimit
         /\ StageWork \in Nat
         /\ wpc \in Looking => StageWork > 1
<1>1. MaxResources \in Nat /\ Len(jobs) \in Nat /\ Len(todo) \in Nat /\ Len(todo) <= PageLimit
  BY ServingAssumption, LenProperties DEF ServingInv, QueueInv, QueueTypeOK, PageInv, Listed
<1>2. PageLimit \in Nat
  BY <1>1 DEF PageLimit
<1>3. PageWork \in Nat /\ PageWork = 5 * PageLimit + 4
  BY <1>2 DEF PageWork
<1>4. StageWork \in Nat /\ (wpc \in Looking => StageWork > 1)
  BY <1>1, <1>2, <1>3 DEF StageWork, Looking
<1> QED BY <1>1, <1>2, <1>3, <1>4

LEMMA WorkNow == ServingInv => StageWork \in Nat /\ ThreadWork \in Nat
<1> SUFFICES ASSUME ServingInv PROVE StageWork \in Nat /\ ThreadWork \in Nat
  OBVIOUS
<1>1. PageWork \in Nat /\ Len(jobs) \in Nat /\ StageWork \in Nat
  BY WorkType
<1> QED BY <1>1 DEF ThreadWork

LEMMA WorkNext == ServingInv' => (StageWork \in Nat /\ ThreadWork \in Nat)'
  BY WorkNow, PTL

\* A step through a page.
LEMMA ProcessCounts ==
  ASSUME ServingInv, ServingInv', Process \/ JobThrows
  PROVE  jobs' = jobs /\ StageWork' < StageWork
<1>1. /\ jobs' = jobs /\ wpc \in Looking
      /\ Len(todo) \in Nat /\ Len(todo') \in Nat /\ Len(todo) <= PageLimit
      /\ Len(todo') <= PageLimit /\ PageLimit \in Nat
      /\ PageWork = 5 * PageLimit + 4 /\ StageWork > 1 /\ StageWork \in Nat
  <2>1. Len(todo') \in Nat /\ Len(todo') <= PageLimit
    BY LenProperties DEF ServingInv, PageInv, Listed
  <2> QED BY <2>1, LookingStep, WorkType DEF ServingInv
<1>2. CASE JobIsOver
  <2>1. StageWork' = 1
    BY <1>2 DEF JobIsOver, StageWork
  <2> QED BY <1>1, <2>1
<1>3. CASE LookUsage \/ JobThrows
  <2>1. JobIsOver \/ (wpc = "usage" /\ wpc' = "load")
    BY <1>3 DEF LookUsage, JobThrows, GoOn
  <2> QED BY <1>1, <1>2, <2>1 DEF StageWork, PageWork, PageLimit
<1>4. CASE LookLoad
  <2>1. JobIsOver \/ (wpc = "load" /\ wpc' = "next")
    BY <1>4 DEF LookLoad
  <2>2. CASE wpc = "load" /\ wpc' = "next"
    <3>1. StageWork = PageWork - 1 /\ StageWork' = 5 * Len(todo') + 2
      BY <2>2 DEF StageWork
    <3> QED BY <1>1, <3>1
  <2> QED BY <1>1, <1>2, <2>1, <2>2
<1>5. CASE NextUrl
  <2>1. \/ JobIsOver
        \/ wpc = "next" /\ wpc' \in {"next", "contains"} /\ todo # <<>> /\ todo' = Tail(todo)
    BY <1>5 DEF NextUrl
  <2>2. CASE wpc = "next" /\ wpc' \in {"next", "contains"} /\ todo # <<>> /\ todo' = Tail(todo)
    <3>1. Len(todo') = Len(todo) - 1
      BY <2>2, HeadTailProperties DEF ServingInv, PageInv, Listed
    <3>2. StageWork = 5 * Len(todo) + 2
      BY <2>2 DEF StageWork
    <3>3. StageWork' = 5 * Len(todo') + 2 \/ StageWork' = 5 * Len(todo') + 6
      BY <2>2 DEF StageWork
    <3> QED BY <1>1, <3>1, <3>2, <3>3
  <2> QED BY <1>1, <1>2, <2>1, <2>2
<1>6. CASE LookContains \/ LookSize \/ ReadResource \/ PutResource
  <2>1. /\ todo' = todo
        /\ \/ wpc = "contains" /\ wpc' \in {"next", "size"}
           \/ wpc = "size" /\ wpc' \in {"next", "read"}
           \/ wpc = "read" /\ wpc' \in {"next", "put"}
           \/ wpc = "put" /\ wpc' = "next"
    BY <1>6 DEF LookContains, LookSize, ReadResource, PutResource, GoOn
  <2> QED BY <1>1, <2>1 DEF StageWork
<1> QED BY <1>1, <1>3, <1>4, <1>5, <1>6 DEF Process

LEMMA Distributes ==
  ASSUME NEW p \in Nat, NEW n \in Nat, n # 0
  PROVE  p * (n - 1) = p * n - p /\ p * n \in Nat /\ p * (n - 1) \in Nat
  OBVIOUS

LEMMA ThreadStep ==
  ASSUME ServingInv, [Next]_vars
  PROVE  /\ Exit \/ Take \/ Process \/ JobThrows => ThreadWork' < ThreadWork
         /\ ctl = "join" => ThreadWork' <= ThreadWork
<1>1. ServingInv'
  BY StepServing
<1>2. /\ PageWork \in Nat /\ Len(jobs) \in Nat /\ StageWork \in Nat
      /\ Len(jobs') \in Nat /\ PageWork' = PageWork
      /\ PageWork * Len(jobs) \in Nat
  <2>1. Len(jobs') \in Nat
    BY <1>1, LenProperties DEF ServingInv, QueueInv, QueueTypeOK
  <2>2. PageWork' = PageWork
    BY DEF PageWork, PageLimit
  <2> QED BY <2>1, <2>2, WorkType
<1>3. CASE Process \/ JobThrows
  <2>1. jobs' = jobs /\ StageWork' < StageWork
    BY <1>1, <1>3, ProcessCounts
  <2>2. StageWork' \in Nat
    BY <1>1, WorkNext
  <2> QED BY <1>2, <2>1, <2>2 DEF ThreadWork
<1>4. CASE Exit
  <2>1. jobs' = jobs /\ StageWork = 1 /\ StageWork' = 0
    BY <1>4 DEF Exit, StageWork
  <2> QED BY <1>2, <2>1 DEF ThreadWork
<1>5. CASE Take
  <2>1. StageWork = 1 /\ StageWork' = PageWork
    BY <1>2, <1>5 DEF Take, StageWork
  <2>2. Len(jobs') = Len(jobs) - 1 /\ Len(jobs) # 0
    BY <1>5, HeadTailProperties, EmptySeq DEF Take, ServingInv, QueueInv, QueueTypeOK
  <2>3. PageWork * Len(jobs') = PageWork * Len(jobs) - PageWork
    BY <1>2, <2>2, Distributes
  <2> QED BY <1>2, <2>1, <2>2, <2>3 DEF ThreadWork
<1>6. CASE ~(Exit \/ Take \/ Process \/ JobThrows) /\ ctl = "join"
  <2>1. stopping /\ wpc # "waiting"
    BY <1>6 DEF ServingInv, QueueInv, ControlInv, IdleInv
  <2>2. jobs' = jobs /\ todo' = todo
    BY <1>6, <2>1 DEF Next, vars, thread, Accept, Begin, Handle, Lookup, ReadFile, PutFile,
         CheckUsage, CheckLoad, Schedule, HasRoom, NotScheduled, Leave, Start, StopBegin,
         StopNotify, StopJoin, StopReset, Loop, Sleep, SpuriousWakeup
  <2>3. wpc' = wpc \/ (wpc \in {"exited", "none"} /\ wpc' = "none")
    BY <1>6, <2>1 DEF Next, vars, thread, Accept, Begin, Handle, Lookup, ReadFile, PutFile,
         CheckUsage, CheckLoad, Schedule, HasRoom, NotScheduled, Leave, Start, StopBegin,
         StopNotify, StopJoin, StopReset, Loop, Sleep, SpuriousWakeup
  <2>4. StageWork' = StageWork
    <3>1. CASE wpc' = wpc
      BY <1>2, <2>2, <3>1 DEF StageWork
    <3>2. CASE wpc \in {"exited", "none"} /\ wpc' = "none"
      BY <3>2 DEF StageWork
    <3> QED BY <2>3, <3>1, <3>2
  <2> QED BY <1>2, <1>6, <2>2, <2>4 DEF ThreadWork
<1>7. ThreadWork \in Nat /\ ThreadWork' \in Nat
  BY <1>1, WorkNow, WorkNext
<1> QED BY <1>3, <1>4, <1>5, <1>6, <1>7

\* However many pages are queued and whatever they link to, the thread has a bounded number
\* of steps to take before it has ended, once Stop joins it.
THEOREM ThreadWorkCountsDown == Spec => ThreadCountsDown
<1>1. ServingInv /\ [Next]_vars
        => [/\ Exit \/ Take \/ Process \/ JobThrows => ThreadWork' < ThreadWork
            /\ ctl = "join" => ThreadWork' <= ThreadWork]_vars
  BY ThreadStep
<1> QED BY <1>1, Servings, PTL DEF Spec, ThreadCountsDown

\* Until the thread has returned it is somewhere in a page, has a page to take or leaves: Stop
\* never waits for a thread that sleeps.
THEOREM JoiningCanGoOn == Spec => []JoinCanGoOn
<1>1. ServingInv => JoinCanGoOn
  BY DEF ServingInv, QueueInv, QueueTypeOK, ControlInv, IdleInv, JoinCanGoOn, MustExit,
         ThreadStages
<1> QED BY <1>1, Servings, PTL
==============================================================================
