--------------------------- MODULE MCStaticServing ---------------------------
(* Finite instances of StaticServing for TLC. *)
EXTENDS StaticServing, TLC

CONSTANTS c1, c2, c3  \* clients

MCClients == {c1, c2, c3}
TwoClients == {c1, c2}
MCSymmetry == Permutations(MCClients)

\* The page in two spellings, a resource and a monitoring path.
Root == <<"/", "?">>
Index == <<"/", "x", "%5C", "%2E%2E", "/", "index.html">>
Style == <<"/", "style.css">>
Panel == <<"/", "monitor", "%2F">>
MCTargets == {Root, Index, Style, Panel}
SpelledOnce == {Root, Style, Panel}

\* What the page links to: with MaxResources = 1 each pattern runs into its limit.
StyleLink == <<"style.css", "?">>
AwayLink == <<"/", "\\", "host">>
PanelLink == <<"/", "monitor", "/">>
HomeLink == <<"..", "/", "index.html", "#">>
MCLinks == [f \in {<<"index.html">>} |->
              [link |-> <<StyleLink, StyleLink, AwayLink, HomeLink>>,
               script |-> <<PanelLink, HomeLink>>,
               img |-> <<HomeLink, AwayLink>>]]
==============================================================================
