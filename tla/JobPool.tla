------------------------------- MODULE JobPool -------------------------------
(***************************************************************************)
(* What a fixed-size worker pool promises to the code that hands it jobs,  *)
(* with no threads, locks or condition variables in it: jobs start in the  *)
(* order they were accepted, each once, never more of them at a time than  *)
(* there are slots; the pool refuses jobs while it is not open; and it is  *)
(* closed only when every job it accepted has been carried out.            *)
(***************************************************************************)
EXTENDS Sequences

CONSTANTS Jobs,   \* the jobs that may ever be handed to the pool
          Slots,  \* the pool's execution slots, one per worker
          Idle    \* what a slot holds while it executes nothing

VARIABLES pending,  \* accepted and not begun, oldest first
          active,   \* the job in each slot, or Idle
          fate,     \* "new", "accepted", "refused" or "done", for every job
          phase     \* "open", "closing" or "closed"

vars == <<pending, active, fate, phase>>

Init == /\ pending = <<>>
        /\ active = [s \in Slots |-> Idle]
        /\ fate = [j \in Jobs |-> "new"]
        /\ phase = "closed"

Accept(j) == /\ phase = "open"
             /\ fate[j] = "new"
             /\ pending' = Append(pending, j)
             /\ fate' = [fate EXCEPT ![j] = "accepted"]
             /\ UNCHANGED <<active, phase>>

Refuse(j) == /\ phase # "open"
             /\ fate[j] = "new"
             /\ fate' = [fate EXCEPT ![j] = "refused"]
             /\ UNCHANGED <<pending, active, phase>>

Begin(s) == /\ pending # <<>>
            /\ active[s] = Idle
            /\ active' = [active EXCEPT ![s] = Head(pending)]
            /\ pending' = Tail(pending)
            /\ UNCHANGED <<fate, phase>>

Finish(s) == /\ active[s] # Idle
             /\ fate' = [fate EXCEPT ![active[s]] = "done"]
             /\ active' = [active EXCEPT ![s] = Idle]
             /\ UNCHANGED <<pending, phase>>

Open == /\ phase = "closed"
        /\ phase' = "open"
        /\ UNCHANGED <<pending, active, fate>>

Close == /\ phase = "open"
         /\ phase' = "closing"
         /\ UNCHANGED <<pending, active, fate>>

\* Closing ends only when nothing accepted is left to do.
Drained == /\ phase = "closing"
           /\ \A j \in Jobs : fate[j] # "accepted"
           /\ phase' = "closed"
           /\ UNCHANGED <<pending, active, fate>>

Next == \/ \E j \in Jobs : Accept(j) \/ Refuse(j)
        \/ \E s \in Slots : Begin(s) \/ Finish(s)
        \/ Open \/ Close \/ Drained

Spec == Init /\ [][Next]_vars
==============================================================================
