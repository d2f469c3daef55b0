------------------------------ MODULE LfuCache -------------------------------
(***************************************************************************)
(* A cache with a byte budget and one eviction rule: while it holds more   *)
(* than its budget it drops the entry used least often and, among those,   *)
(* the one whose last use is the oldest.  There are no profiles, weights,  *)
(* scores, ages or indexes in it.                                          *)
(***************************************************************************)
EXTENDS Naturals, FiniteSets

CONSTANTS Keys,
          Budget,  \* in bytes
          Sizes,   \* the sizes an entry may have
          Uses     \* the numbers of uses an entry may start with

VARIABLES slot,   \* the resident keys' size, number of uses and last use
          clock,  \* orders the uses
          busy    \* an insertion has left more than Budget bytes resident

vars == <<slot, clock, busy>>

\* The resident bytes, each named by its key and its offset.
Bytes == {b \in Keys \X (1..Budget) : b[1] \in DOMAIN slot /\ b[2] <= slot[b[1]].size}

Init == slot = <<>> /\ clock = 0 /\ busy = FALSE

Entry(size, uses, at) == [size |-> size, uses |-> uses, at |-> at]
Store(k, e) == slot' = [x \in DOMAIN slot \cup {k} |-> IF x = k THEN e ELSE slot[x]]

Insert(k, size, uses) == /\ ~busy
                         /\ size <= Budget
                         /\ Store(k, Entry(size, uses, clock))
                         /\ clock' = clock + 1
                         /\ busy' = (Cardinality(Bytes') > Budget)

Use(k) == /\ ~busy
          /\ k \in DOMAIN slot
          /\ Store(k, Entry(slot[k].size, slot[k].uses + 1, clock))
          /\ clock' = clock + 1
          /\ UNCHANGED busy

\* Everything else the cache is asked to do leaves its contents alone.
Other == /\ ~busy
         /\ clock' = clock + 1
         /\ UNCHANGED <<slot, busy>>

LeastUsed(v) == \A k \in DOMAIN slot : \/ slot[v].uses < slot[k].uses
                                       \/ /\ slot[v].uses = slot[k].uses
                                          /\ slot[v].at <= slot[k].at

Evict(v) == /\ busy
            /\ v \in DOMAIN slot /\ LeastUsed(v)
            /\ slot' = [x \in DOMAIN slot \ {v} |-> slot[x]]
            /\ busy' = (Cardinality(Bytes') > Budget)
            /\ UNCHANGED clock

Next == \/ \E k \in Keys, size \in Sizes, uses \in Uses : Insert(k, size, uses)
        \/ \E k \in Keys : Use(k) \/ Evict(k)
        \/ Other

Spec == Init /\ [][Next]_vars
==============================================================================
