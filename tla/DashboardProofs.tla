--------------------------- MODULE DashboardProofs ---------------------------
(***************************************************************************)
(* Theorems about the dashboard, for any number of polls, handlers and     *)
(* requests and any length of the line.  PageInv ties the parts of the     *)
(* page's state together; AgeInv says which of what is shown, what has     *)
(* been read for an answer and what the server counts is the oldest.       *)
(***************************************************************************)
EXTENDS Dashboard, TLAPS

Fields == {"total", "hits", "misses", "rps", "alpha", "beta"}

\* Every field is read once, and reading one leads to the next or to the end.
LEMMA AfterTyped == /\ DOMAIN After = Fields
                    /\ \A f \in Fields : After[f] \in {"ready"} \cup Fields
  BY DEF After, Fields

\* What a field is read as is a natural number.
LEMMA ReadingsTyped ==
  ASSUME TypeOK, NEW f \in Fields, NEW v \in Readings(f) PROVE v \in Nat
<1>1. CASE f \in Counters
  <2>1. Readings(f) = {count[f]}
    BY <1>1 DEF Readings, Counters
  <2> QED BY <1>1, <2>1 DEF TypeOK
<1>2. CASE f = "rps"
  <2>1. count.total \in Nat
    BY DEF TypeOK, Counters
  <2>2. Rates \subseteq Nat
    BY <2>1 DEF Rates
  <2> QED BY <1>2, <2>2 DEF Readings, Counters
<1>3. CASE f \in {"alpha", "beta"}
  <2>1. Readings(f) = {Weights[profile][f]}
    BY <1>3 DEF Readings, Counters
  <2>2. Weights[profile] \in [alpha : Nat, beta : Nat]
    BY DEF TypeOK, Profiles, Weights
  <2> QED BY <1>3, <2>1, <2>2
<1> QED BY <1>1, <1>2, <1>3 DEF Fields, Counters

\* The line keeps its newest point and at most History points.
LEMMA LineIsTrimmed ==
  ASSUME NEW line \in Seq(Nat), Len(line) <= History, NEW x \in Nat
  PROVE  LET new == Trimmed(Append(line, x))
         IN /\ new \in Seq(Nat) /\ Len(new) <= History
            /\ new # <<>> /\ new[Len(new)] = x
<1> DEFINE longer == Append(line, x)
<1>1. /\ longer \in Seq(Nat) /\ Len(longer) = Len(line) + 1
      /\ longer[Len(longer)] = x
  OBVIOUS
<1>2. CASE Len(longer) > History
  <2>1. Tail(longer) \in Seq(Nat) /\ Len(Tail(longer)) = Len(line)
    BY <1>1
  <2>2. Len(line) = History
    BY <1>1, <1>2, DashboardAssumption
  <2>3. Tail(longer)[Len(line)] = longer[Len(line) + 1]
    BY <1>1, <2>1, <2>2, DashboardAssumption
  <2> QED BY <1>1, <1>2, <2>1, <2>2, <2>3, DashboardAssumption DEF Trimmed
<1>3. CASE ~(Len(longer) > History)
  BY <1>1, <1>3, DashboardAssumption DEF Trimmed
<1> QED BY <1>2, <1>3
------------------------------------------------------------------------------
(* Typing *)

\* Polls that are sent are polls, and none of them is overtaken.
LEMMA SendTyped ==
  ASSUME TypeOK, NEW S, Send(S)
  PROVE  /\ poll' \in [Polls -> [at : {"free", "ready"} \cup DOMAIN After, m : Metrics]]
         /\ overtaken' \subseteq InFlight'
<1>1. [at |-> "total", m |-> Unread]
        \in [at : {"free", "ready"} \cup DOMAIN After, m : Metrics]
  BY AfterTyped DEF Unread, Metrics, Fields
<1>2. poll' \in [Polls -> [at : {"free", "ready"} \cup DOMAIN After, m : Metrics]]
  BY <1>1 DEF TypeOK, Send
<1>3. ASSUME NEW s \in overtaken' PROVE s \in InFlight'
  BY <1>3 DEF TypeOK, Send, InFlight
<1> QED BY <1>2, <1>3

\* So are the others when one is over.
LEMMA OverTyped ==
  ASSUME TypeOK, NEW s \in Polls, Over(s)
  PROVE  /\ poll' \in [Polls -> [at : {"free", "ready"} \cup DOMAIN After, m : Metrics]]
         /\ InFlight' = InFlight \ {s}
  BY DEF TypeOK, Over, Unread, Metrics, InFlight

\* A read fills in a field.
LEMMA LoadTyped ==
  ASSUME TypeOK, NEW s \in Polls, Load(s)
  PROVE  /\ poll' \in [Polls -> [at : {"free", "ready"} \cup DOMAIN After, m : Metrics]]
         /\ InFlight' = InFlight
<1> DEFINE f == poll[s].at
<1>1. f \in Fields
  BY AfterTyped DEF Load
<1>2. PICK v \in Readings(f) :
        poll' = [poll EXCEPT ![s].m[f] = v, ![s].at = After[f]]
  BY DEF Load, TypeOK
<1>3. v \in Nat
  BY <1>1, <1>2, ReadingsTyped
<1>4. poll[s].m \in Metrics
  BY DEF TypeOK
<1>5. [poll[s].m EXCEPT ![f] = v] \in Metrics
  BY <1>1, <1>3, <1>4 DEF Metrics, Fields
<1>6. After[f] \in {"ready"} \cup Fields
  BY <1>1, AfterTyped
<1>7. poll' \in [Polls -> [at : {"free", "ready"} \cup DOMAIN After, m : Metrics]]
  BY <1>2, <1>5, <1>6, AfterTyped DEF TypeOK
<1>8. poll'[s].at # "free" /\ poll[s].at # "free"
  BY <1>1, <1>2, <1>6 DEF TypeOK, Fields
<1> QED BY <1>2, <1>7, <1>8 DEF TypeOK, InFlight

\* The server's steps keep the types, and leave polls and page alone.
LEMMA HandleTyped ==
  ASSUME TypeOK, NEW h \in Handlers, Handle(h) PROVE TypeOK'
<1> DEFINE Stages == {"idle", "completed", "hits", "misses", "adjust"}
           Handler == [at : Stages, hits : Nat, misses : Nat]
<1>1. /\ handler \in [Handlers -> Handler] /\ handler[h] \in Handler
      /\ count \in [Counters -> Nat] /\ profile \in Profiles
  BY DEF TypeOK
<1>2. /\ UNCHANGED <<poll, page, mounted, effects, hidden, overtaken>>
      /\ count' \in [Counters -> Nat]
  <2>1. CASE Complete(h)
    BY <1>1, <2>1 DEF Complete, Counters
  <2>2. CASE Record(h)
    BY <1>1, <2>2 DEF Record, Counters
  <2>3. CASE Sample(h, "hits") \/ Sample(h, "misses") \/ Adjust(h)
    BY <1>1, <2>3 DEF Sample, Adjust
  <2> QED BY <2>1, <2>2, <2>3 DEF Handle
<1>3. profile' \in Profiles
  BY <1>1 DEF Handle, Complete, Record, Sample, Adjust, ProfileForHitRate, Profiles
<1>4. handler' \in [Handlers -> Handler]
  <2> SUFFICES ASSUME NEW v \in Handler, handler' = [handler EXCEPT ![h] = v]
               PROVE  handler' \in [Handlers -> Handler]
    <3>1. CASE Complete(h)
      <4> DEFINE v == [handler[h] EXCEPT !.at = "completed"]
      <4>1. v \in Handler /\ handler' = [handler EXCEPT ![h] = v]
        BY <1>1, <3>1 DEF Complete
      <4> QED BY <4>1
    <3>2. CASE Record(h)
      <4> DEFINE v == [handler[h] EXCEPT !.at = "hits"]
      <4>1. v \in Handler /\ handler' = [handler EXCEPT ![h] = v]
        BY <1>1, <3>2 DEF Record
      <4> QED BY <4>1
    <3>3. ASSUME NEW c \in {"hits", "misses"}, Sample(h, c)
          PROVE  \E v \in Handler : handler' = [handler EXCEPT ![h] = v]
      <4> DEFINE stage == IF c = "hits" THEN "misses" ELSE "adjust"
                 v == [handler[h] EXCEPT ![c] = count[c], !.at = stage]
      <4>1. handler' = [handler EXCEPT ![h] = v]
        BY <1>1, <3>3 DEF Sample
      <4>2. count[c] \in Nat
        BY <1>1 DEF Counters
      <4>3. v \in Handler
        <5>1. CASE c = "hits"
          BY <1>1, <4>2, <5>1
        <5>2. CASE c = "misses"
          BY <1>1, <4>2, <5>2
        <5> QED BY <5>1, <5>2
      <4> QED BY <4>1, <4>3
    <3>4. CASE Adjust(h)
      BY <3>4 DEF Adjust
    <3> QED BY <3>1, <3>2, <3>3, <3>4 DEF Handle
  <2> QED BY <1>1
<1> QED BY <1>2, <1>3, <1>4 DEF TypeOK, InFlight, page

LEMMA InitTyped == Init => TypeOK
<1> SUFFICES ASSUME Init PROVE TypeOK
  OBVIOUS
<1>1. poll \in [Polls -> [at : {"free", "ready"} \cup DOMAIN After, m : Metrics]]
  BY DEF Init, Unread, Metrics
<1>2. rpsSeries \in Seq(Nat) /\ Len(rpsSeries) <= History
  BY DashboardAssumption DEF Init
<1>3. overtaken \subseteq InFlight
  BY DEF Init
<1>4. /\ count \in [Counters -> Nat] /\ profile \in Profiles
      /\ handler \in [Handlers -> [at : {"idle", "completed", "hits", "misses", "adjust"},
                                   hits : Nat, misses : Nat]]
  BY DEF Init, Counters, Profiles
<1> QED BY <1>1, <1>2, <1>3, <1>4 DEF Init, TypeOK

LEMMA NextTyped == TypeOK /\ [Next]_vars => TypeOK'
<1> SUFFICES ASSUME TypeOK, [Next]_vars PROVE TypeOK'
  OBVIOUS
<1>1. ASSUME NEW h \in Handlers, Handle(h) PROVE TypeOK'
  BY <1>1, HandleTyped
<1>2. ASSUME NEW s \in Polls, Load(s) PROVE TypeOK'
  BY <1>2, LoadTyped DEF TypeOK, Load, server, page
<1>3. ASSUME NEW s \in Polls, Settle(s) PROVE TypeOK'
  <2>1. poll[s].m \in Metrics /\ poll[s].m.rps \in Nat
    BY DEF TypeOK, Metrics
  <2>2. rpsSeries' \in Seq(Nat) /\ Len(rpsSeries') <= History
    BY <1>3, <2>1, LineIsTrimmed DEF TypeOK, Settle
  <2>3. /\ poll' \in [Polls -> [at : {"free", "ready"} \cup DOMAIN After, m : Metrics]]
        /\ overtaken' \subseteq InFlight'
    BY <1>3, OverTyped DEF TypeOK, Settle
  <2> QED BY <1>3, <2>1, <2>2, <2>3 DEF TypeOK, Settle, server
<1>4. ASSUME NEW s \in Polls, Fail(s) PROVE TypeOK'
  <2>1. /\ poll' \in [Polls -> [at : {"free", "ready"} \cup DOMAIN After, m : Metrics]]
        /\ overtaken' \subseteq InFlight'
    BY <1>4, OverTyped DEF TypeOK, Fail
  <2> QED BY <1>4, <2>1 DEF TypeOK, Fail, server
<1>5. ASSUME NEW s \in Polls, FirstPoll(s) PROVE TypeOK'
  <2>1. effects' \in [timers : Nat, listeners : Nat, due : Nat]
    <3>1. effects.due \in Nat /\ effects.due > 0
      BY <1>5 DEF TypeOK, FirstPoll
    <3>2. effects.due - 1 \in Nat
      BY <3>1
    <3> QED BY <1>5, <3>2 DEF TypeOK, FirstPoll
  <2>2. Send({s})
    BY <1>5 DEF FirstPoll
  <2>3. /\ poll' \in [Polls -> [at : {"free", "ready"} \cup DOMAIN After, m : Metrics]]
        /\ overtaken' \subseteq InFlight'
    BY <2>2, SendTyped
  <2> QED BY <1>5, <2>1, <2>3 DEF TypeOK, FirstPoll, server, page
<1>6. ASSUME NEW s \in Polls, Tick(s) PROVE TypeOK'
  <2>1. Send({s})
    BY <1>6 DEF Tick
  <2>2. /\ poll' \in [Polls -> [at : {"free", "ready"} \cup DOMAIN After, m : Metrics]]
        /\ overtaken' \subseteq InFlight'
    BY <2>1, SendTyped
  <2> QED BY <1>6, <2>2 DEF TypeOK, Tick, server, page
<1>7. ASSUME NEW S \in SUBSET Polls, Show(S) PROVE TypeOK'
  BY <1>7, SendTyped DEF TypeOK, Show, server, page
<1>8. CASE Mount
  <2>1. effects' \in [timers : Nat, listeners : Nat, due : Nat]
    BY <1>8 DEF TypeOK, Mount, Ran, Cleaned
  <2> QED BY <1>8, <2>1 DEF TypeOK, Mount, server, page, InFlight
<1>9. CASE Hide
  BY <1>9 DEF TypeOK, Hide, server, page, InFlight
<1>10. CASE UNCHANGED vars
  BY <1>10 DEF TypeOK, vars, server, page, InFlight
<1> QED BY <1>1, <1>2, <1>3, <1>4, <1>5, <1>6, <1>7, <1>8, <1>9, <1>10 DEF Next, Proceed

\* What the server counts, what polls have read, what the page shows and how it polls
\* is always of its type, and the line never has more than History points.
THEOREM DashboardTyping == Spec => []TypeOK
  BY InitTyped, NextTyped, PTL DEF Spec
------------------------------------------------------------------------------
(* The page *)

\* What a step of the server, of an answer or of the browser leaves alone.
LEMMA PageIsLeftAlone ==
  ASSUME [Next]_vars
  PROVE  \/ UNCHANGED page
         \/ \E s \in Polls : Settle(s) \/ Fail(s)
  BY DEF Next, Handle, Complete, Record, Sample, Adjust, Proceed, Load, FirstPoll, Tick,
         Show, Mount, Hide, vars, page

\* The panels hang together: values, a time and a line come and go as one, and the
\* only page that is neither loading nor has values has the alert.
PageInv == /\ Shown => updatedAt /\ ~loading /\ rpsSeries # <<>>
                         /\ rpsSeries[Len(rpsSeries)] = metrics.rps
           /\ ~Shown => ~updatedAt /\ rpsSeries = <<>> /\ (~loading => error)

LEMMA PageInvWhole == TypeOK /\ PageInv => PageIsWhole
<1> SUFFICES ASSUME TypeOK, PageInv PROVE PageIsWhole
  OBVIOUS
<1>1. CASE Shown
  <2>1. PieShows # "skeleton"
    BY <1>1 DEF PieShows
  <2> QED BY <1>1, <2>1 DEF PageInv, PageIsWhole, CardsShow, UsageShows, LineShows,
                            SummaryShows, StrategyShows, HeaderShows, AlertShows
<1>2. CASE ~Shown
  <2>1. PieShows = "skeleton"
    BY <1>2 DEF PieShows, PieData
  <2> QED BY <1>2, <2>1 DEF PageInv, PageIsWhole, CardsShow, UsageShows, LineShows,
                            SummaryShows, StrategyShows, HeaderShows, AlertShows
<1> QED BY <1>1, <1>2

LEMMA NextPage == TypeOK /\ PageInv /\ [Next]_vars => PageInv'
<1> SUFFICES ASSUME TypeOK, PageInv, [Next]_vars PROVE PageInv'
  OBVIOUS
<1>1. CASE UNCHANGED page
  BY <1>1 DEF PageInv, page, Shown
<1>2. ASSUME NEW s \in Polls, Settle(s) PROVE PageInv'
  <2>1. poll[s].m \in Metrics /\ poll[s].m.rps \in Nat
    BY DEF TypeOK, Metrics
  <2>2. rpsSeries' # <<>> /\ rpsSeries'[Len(rpsSeries')] = poll[s].m.rps
    BY <1>2, <2>1, LineIsTrimmed DEF Settle, TypeOK
  <2>3. metrics' = poll[s].m /\ metrics' # Nothing
    BY <1>2, <2>1, DashboardAssumption DEF Settle
  <2> QED BY <1>2, <2>2, <2>3 DEF PageInv, Settle, Shown
<1>3. ASSUME NEW s \in Polls, Fail(s) PROVE PageInv'
  BY <1>3 DEF PageInv, Fail, Shown
<1> QED BY <1>1, <1>2, <1>3, PageIsLeftAlone

\* In whatever order answers and failures arrive, the panels of the page agree, and it
\* is never blank without saying why.
THEOREM PanelsAgree == Spec => []PageIsWhole
<1>1. Init => PageInv
  BY DEF Init, PageInv, Shown
<1> QED BY <1>1, NextPage, PageInvWhole, DashboardTyping, PTL DEF Spec

\* Nothing polls before the effects have run.
EffectInv == IF mounted THEN effects.timers = 1 /\ effects.listeners = 1
                        ELSE effects = [timers |-> 0, listeners |-> 0, due |-> 0]

\* One interval and one listener poll, however often React has run the effects.
THEOREM EffectsDoNotPileUp == Spec => []OnePoller
<1>1. Init => EffectInv
  BY DEF Init, EffectInv
<1>2. TypeOK /\ EffectInv /\ [Next]_vars => EffectInv'
  <2> SUFFICES ASSUME TypeOK, EffectInv, [Next]_vars PROVE EffectInv'
    OBVIOUS
  <2>1. CASE UNCHANGED <<mounted, effects>>
    BY <2>1 DEF EffectInv
  <2>2. ASSUME NEW s \in Polls, FirstPoll(s) PROVE EffectInv'
    BY <2>2 DEF EffectInv, FirstPoll, TypeOK
  <2>3. CASE Mount
    BY <2>3 DEF EffectInv, Mount, Ran, Cleaned
  <2> QED BY <2>1, <2>2, <2>3 DEF Next, Handle, Complete, Record, Sample, Adjust,
                                   Proceed, Load, Settle, Fail, Tick, Show, Hide, vars
<1>3. EffectInv => OnePoller
  BY DEF EffectInv, OnePoller
<1> QED BY <1>1, <1>2, <1>3, DashboardTyping, PTL DEF Spec
------------------------------------------------------------------------------
(* Old answers *)

\* The counter c has been read for poll s.
HasRead(s, c) == CASE c = "total" -> poll[s].at # "total"
                   [] c = "hits" -> poll[s].at \notin {"total", "hits"}
                   [] c = "misses" -> poll[s].at \notin {"total", "hits", "misses"}

\* The server counts on, so it is ahead of all that has been read; and what is shown
\* is no younger than what is read for a poll that no other has overtaken.
AgeInv == \A c \in Counters :
            /\ Shown => metrics[c] <= count[c]
            /\ \A s \in Polls : poll[s].m[c] <= count[c]
            /\ \A s \in InFlight \ overtaken :
                 Shown /\ HasRead(s, c) => metrics[c] <= poll[s].m[c]

LEMMA CountersTyped ==
  ASSUME TypeOK, NEW c \in Counters
  PROVE  /\ count[c] \in Nat
         /\ \A s \in Polls : poll[s].m[c] \in Nat
         /\ Shown => metrics \in Metrics /\ metrics[c] \in Nat
  BY DEF TypeOK, Counters, Metrics, Shown

LEMMA InitAge == Init => AgeInv
  BY DEF Init, AgeInv, Shown, InFlight, Counters, Unread

\* The counters never go back, and only handlers count.
LEMMA CountersGrow ==
  ASSUME TypeOK, NEW h \in Handlers, Handle(h), NEW c \in Counters
  PROVE  count'[c] \in Nat /\ count[c] <= count'[c]
  BY DEF TypeOK, Handle, Complete, Record, Sample, Adjust, Counters

LEMMA NextAge == TypeOK /\ TypeOK' /\ AgeInv /\ [Next]_vars => AgeInv'
<1> SUFFICES ASSUME TypeOK, TypeOK', AgeInv, [Next]_vars, NEW c \in Counters
             PROVE  /\ Shown' => metrics'[c] <= count'[c]
                    /\ \A s \in Polls : poll'[s].m[c] <= count'[c]
                    /\ \A s \in InFlight' \ overtaken' :
                         Shown' /\ HasRead(s, c)' => metrics'[c] <= poll'[s].m[c]
  BY DEF AgeInv
<1> DEFINE Goal == /\ Shown' => metrics'[c] <= count'[c]
                   /\ \A s \in Polls : poll'[s].m[c] <= count'[c]
                   /\ \A s \in InFlight' \ overtaken' :
                        Shown' /\ HasRead(s, c)' => metrics'[c] <= poll'[s].m[c]
<1>1. ASSUME NEW h \in Handlers, Handle(h) PROVE Goal
  <2>1. UNCHANGED <<poll, page, overtaken>>
    BY <1>1 DEF Handle, Complete, Record, Sample, Adjust
  <2>2. count'[c] \in Nat /\ count[c] <= count'[c]
    BY <1>1, CountersGrow
  <2>3. InFlight' = InFlight /\ \A s \in Polls : HasRead(s, c)' = HasRead(s, c)
    BY <2>1 DEF InFlight, HasRead
  <2>4. metrics' = metrics /\ poll' = poll /\ overtaken' = overtaken
    BY <2>1 DEF page
  <2>5. Shown' => metrics'[c] <= count'[c]
    BY <2>2, <2>4, CountersTyped DEF AgeInv, Shown
  <2>6. ASSUME NEW s \in Polls PROVE poll'[s].m[c] <= count'[c]
    BY <2>2, <2>4, CountersTyped DEF AgeInv
  <2>7. ASSUME NEW s \in InFlight' \ overtaken', Shown', HasRead(s, c)'
        PROVE  metrics'[c] <= poll'[s].m[c]
    BY <2>3, <2>4, <2>7 DEF AgeInv, Shown, InFlight
  <2> QED BY <2>5, <2>6, <2>7
<1>2. ASSUME NEW s \in Polls, Load(s) PROVE Goal
  <2>1. UNCHANGED <<count, metrics, overtaken>> /\ InFlight' = InFlight
    BY <1>2, LoadTyped DEF Load, server, page
  <2>2. \A r \in Polls \ {s} : poll'[r] = poll[r]
    BY <1>2 DEF Load, TypeOK
  <2>3. PICK v \in Readings(poll[s].at) :
          poll'[s] = [at |-> After[poll[s].at],
                      m |-> [poll[s].m EXCEPT ![poll[s].at] = v]]
    BY <1>2 DEF Load, TypeOK
  <2>4. poll[s].m \in Metrics /\ poll[s].at \in Fields
    BY <1>2, AfterTyped DEF TypeOK, Load
  <2>5. \/ poll[s].at = c /\ poll'[s].m[c] = count[c]
        \/ poll[s].at # c /\ poll'[s].m[c] = poll[s].m[c]
    <3>1. CASE poll[s].at = c
      BY <2>3, <2>4, <3>1 DEF Readings, Metrics, Counters
    <3>2. CASE poll[s].at # c
      BY <2>3, <2>4, <3>2 DEF Metrics, Counters
    <3> QED BY <3>1, <3>2
  <2>6. poll[s].at # c /\ HasRead(s, c)' => HasRead(s, c)
    <3>1. poll'[s].at = After[poll[s].at]
      BY <2>3
    <3>2. CASE c = "total"
      BY <3>2 DEF HasRead
    <3>3. CASE c = "hits"
      BY <2>4, <3>1, <3>3 DEF HasRead, After, Fields
    <3>4. CASE c = "misses"
      BY <2>4, <3>1, <3>4 DEF HasRead, After, Fields
    <3> QED BY <3>2, <3>3, <3>4 DEF Counters
  <2>7. Shown' => metrics'[c] <= count'[c]
    BY <2>1 DEF AgeInv, Shown
  <2>8. ASSUME NEW r \in Polls PROVE poll'[r].m[c] <= count'[c]
    BY <2>1, <2>2, <2>5, CountersTyped DEF AgeInv
  <2>9. ASSUME NEW r \in InFlight' \ overtaken', Shown', HasRead(r, c)'
        PROVE  metrics'[c] <= poll'[r].m[c]
    <3>1. r \in InFlight \ overtaken /\ Shown
      BY <2>1, <2>9 DEF Shown
    <3>2. CASE r = s
      BY <2>1, <2>5, <2>6, <2>9, <3>1, <3>2 DEF AgeInv
    <3>3. CASE r # s
      <4>1. HasRead(r, c) /\ poll'[r] = poll[r]
        BY <2>2, <2>9, <3>1, <3>3 DEF HasRead, InFlight
      <4> QED BY <2>1, <3>1, <4>1 DEF AgeInv
    <3> QED BY <3>2, <3>3
  <2> QED BY <2>7, <2>8, <2>9
<1>3. ASSUME NEW s \in Polls, Settle(s) PROVE Goal
  <2>1. /\ count' = count /\ metrics' = poll[s].m
        /\ InFlight' = InFlight \ {s} /\ InFlight' \subseteq overtaken'
    BY <1>3, OverTyped DEF Settle, server
  <2>2. \A r \in Polls : poll'[r].m[c] \in {poll[r].m[c], 0}
    BY <1>3 DEF Settle, Over, TypeOK, Unread, Counters
  <2> QED BY <2>1, <2>2, CountersTyped DEF AgeInv
<1>4. ASSUME NEW s \in Polls, Fail(s) PROVE Goal
  <2>1. /\ UNCHANGED <<count, metrics>>
        /\ InFlight' \ overtaken' \subseteq (InFlight \ overtaken) \ {s}
    BY <1>4, OverTyped DEF Fail, server
  <2>2. /\ poll'[s].m[c] = 0
        /\ \A r \in Polls \ {s} : poll'[r] = poll[r]
    BY <1>4 DEF Fail, Over, TypeOK, Unread, Counters
  <2>3. \A r \in Polls \ {s} : HasRead(r, c)' = HasRead(r, c)
    BY <2>2 DEF HasRead
  <2>4. Shown' => metrics'[c] <= count'[c]
    BY <2>1 DEF AgeInv, Shown
  <2>5. ASSUME NEW r \in Polls PROVE poll'[r].m[c] <= count'[c]
    BY <2>1, <2>2, CountersTyped DEF AgeInv
  <2>6. ASSUME NEW r \in InFlight' \ overtaken', Shown', HasRead(r, c)'
        PROVE  metrics'[c] <= poll'[r].m[c]
    BY <2>1, <2>2, <2>3, <2>6 DEF AgeInv, Shown, InFlight
  <2> QED BY <2>4, <2>5, <2>6
<1>5. ASSUME NEW S \in SUBSET Polls, Send(S), UNCHANGED <<count, metrics>> PROVE Goal
  <2>1. \A s \in S : poll'[s].at = "total" /\ poll'[s].m[c] = 0
    BY <1>5 DEF Send, Unread, Counters
  <2>2. \A s \in Polls \ S : poll'[s] = poll[s]
    BY <1>5 DEF Send
  <2>3. InFlight' \ overtaken' \subseteq (InFlight \ overtaken) \cup S
    BY <1>5 DEF Send, InFlight
  <2>4. \A s \in S : ~HasRead(s, c)'
    BY <2>1 DEF HasRead, Counters
  <2>5. \A s \in Polls \ S : HasRead(s, c)' = HasRead(s, c)
    BY <2>2 DEF HasRead
  <2> QED BY <1>5, <2>1, <2>2, <2>3, <2>4, <2>5, CountersTyped DEF AgeInv, Shown, InFlight
<1>6. CASE UNCHANGED <<count, metrics, poll, overtaken>>
  BY <1>6 DEF AgeInv, Shown, InFlight, HasRead
<1>7. ASSUME NEW s \in Polls, FirstPoll(s) \/ Tick(s) PROVE Goal
  BY <1>5, <1>7 DEF FirstPoll, Tick, server, page
<1>8. ASSUME NEW S \in SUBSET Polls, Show(S) PROVE Goal
  BY <1>5, <1>8 DEF Show, server, page
<1>9. CASE Mount \/ Hide \/ UNCHANGED vars
  BY <1>6, <1>9 DEF Mount, Hide, vars, server, page
<1> QED BY <1>1, <1>2, <1>3, <1>4, <1>7, <1>8, <1>9 DEF Next, Proceed

\* A counter on the page goes back only with the answer to a poll that another one has
\* overtaken, whatever the reads of the answers are interleaved with.
THEOREM PageGoesBackOnlyOnOverlap == Spec => OnlyOverlapsGoBack
<1> DEFINE Back == Shown /\ metrics' # Nothing
                     /\ \E c \in Counters : metrics'[c] < metrics[c]
           FromOld == \E s \in overtaken : poll[s].at = "ready" /\ metrics' = poll[s].m
<1>1. ASSUME TypeOK, AgeInv, [Next]_vars, Back PROVE FromOld
  <2>1. PICK c \in Counters : metrics'[c] < metrics[c]
    BY <1>1
  <2>2. metrics[c] \in Nat
    BY <1>1, CountersTyped
  <2>3. metrics' # metrics
    BY <2>1, <2>2
  <2>4. PICK s \in Polls : Settle(s)
    BY <1>1, <2>3, PageIsLeftAlone DEF page, Fail
  <2>5. poll[s].at = "ready" /\ metrics' = poll[s].m
    BY <2>4 DEF Settle
  <2>6. HasRead(s, c) /\ s \in InFlight
    BY <2>5 DEF HasRead, Counters, InFlight
  <2>7. ~(metrics[c] <= poll[s].m[c])
    BY <1>1, <2>1, <2>2, <2>5, CountersTyped
  <2> QED BY <1>1, <2>5, <2>6, <2>7 DEF AgeInv
<1>2. Spec => []AgeInv
  BY InitAge, NextAge, DashboardTyping, PTL DEF Spec
<1>3. TypeOK /\ AgeInv /\ [Next]_vars => [Back => FromOld]_vars
  BY <1>1
<1>4. Spec => [][Back => FromOld]_vars
  BY <1>2, <1>3, DashboardTyping, PTL DEF Spec
<1> QED BY <1>4 DEF OnlyOverlapsGoBack
==============================================================================
