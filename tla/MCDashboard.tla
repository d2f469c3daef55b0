----------------------------- MODULE MCDashboard -----------------------------
(* Finite instances of Dashboard for TLC. *)
EXTENDS Dashboard

CONSTANTS h1, h2,  \* handlers
          p1, p2   \* polls in flight

OneHandler == {h1}
TwoHandlers == {h1, h2}
TwoPolls == {p1, p2}
==============================================================================
