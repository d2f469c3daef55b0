------------------------------ MODULE Dashboard ------------------------------
(***************************************************************************)
(* monitor-ui/src/components/monitor-dashboard.tsx: the page that polls    *)
(* /metrics and shows the last answer, with the server as far as an answer *)
(* depends on it.  An answer is no snapshot: BuildMetricsJson loads one    *)
(* atomic after the other and takes the cache's mutex once for each of the *)
(* two weights, while handlers go on counting and adjusting the weights.   *)
(* RequestHandling has the handlers in detail.                             *)
(*                                                                         *)
(* The page waits for no poll before it starts the next, so answers may    *)
(* arrive in any order.  A callback of the page runs to its end, and React *)
(* renders the updates of one callback together.                           *)
(***************************************************************************)
EXTENDS Integers, Sequences, FiniteSets

CONSTANTS Handlers,    \* the worker threads that handle client requests
          Polls,       \* bound: the polls that can be in flight at a time
          Aging,       \* FALSE: no request of the instance is ever a second old
          History,     \* RPS_HISTORY
          MaxRequests, \* bound: the client requests
          Nothing      \* null

\* The fields of an answer that the panels below differ by.
Metrics == [total : Nat, hits : Nat, misses : Nat, rps : Nat, alpha : Nat, beta : Nat]

ASSUME DashboardAssumption == /\ Aging \in BOOLEAN
                              /\ History \in Nat \ {0} /\ MaxRequests \in Nat
                              /\ Nothing \notin Metrics

VARIABLES count,     \* the server's total_requests_, cache_hits_ and cache_misses_
          profile,   \* the cache's active_profile_
          handler,   \* what each handler does after its answer, and what it has read
          poll,      \* where each poll is, and what has been read for its answer
          metrics, error, loading, rpsSeries, updatedAt,  \* the state of the page
          mounted,   \* the effects have run
          effects,   \* how many intervals, listeners and queued microtasks they left
          hidden,    \* document.hidden
          overtaken  \* history: the polls in flight while another one settled

server == <<count, profile, handler>>
page == <<metrics, error, loading, rpsSeries, updatedAt>>
vars == <<server, poll, page, mounted, effects, hidden, overtaken>>

Profiles == {"recencyHeavy", "balanced", "frequencyHeavy"}
Counters == {"total", "hits", "misses"}

\* WeightsForProfile, in halves.
Weights == [recencyHeavy   |-> [alpha |-> 1, beta |-> 16],
            balanced       |-> [alpha |-> 2, beta |-> 10],
            frequencyHeavy |-> [alpha |-> 4, beta |-> 6]]

\* 0 of 0 counts as a rate of 0.
ProfileForHitRate(hits, misses) ==
  IF hits + misses = 0 \/ 2 * hits < hits + misses THEN "recencyHeavy"
  ELSE IF 5 * hits > 4 * (hits + misses) THEN "frequencyHeavy"
  ELSE "balanced"

Unread == [total |-> 0, hits |-> 0, misses |-> 0, rps |-> 0, alpha |-> 0, beta |-> 0]

\* BuildMetricsJson reads the fields in this order; a poll whose answer is complete
\* is "ready".
After == [total |-> "hits", hits |-> "misses", misses |-> "rps",
          rps |-> "alpha", alpha |-> "beta", beta |-> "ready"]
InFlight == {s \in Polls : poll[s].at # "free"}
Free == Polls \ InFlight

Init == /\ count = [total |-> 0, hits |-> 0, misses |-> 0]
        /\ profile = "balanced"
        /\ handler = [h \in Handlers |-> [at |-> "idle", hits |-> 0, misses |-> 0]]
        /\ poll = [s \in Polls |-> [at |-> "free", m |-> Unread]]
        /\ metrics = Nothing /\ error = FALSE /\ loading = TRUE
        /\ rpsSeries = <<>> /\ updatedAt = FALSE
        /\ mounted = FALSE /\ effects = [timers |-> 0, listeners |-> 0, due |-> 0]
        /\ hidden \in BOOLEAN
        /\ overtaken = {}
------------------------------------------------------------------------------
(* The server: the end of HandleClient for a client request. *)

\* RequestCompleted
Complete(h) ==
  /\ handler[h].at = "idle" /\ count.total < MaxRequests
  /\ count' = [count EXCEPT !.total = @ + 1]
  /\ handler' = [handler EXCEPT ![h].at = "completed"]
  /\ UNCHANGED <<profile, poll, page, mounted, effects, hidden, overtaken>>

\* RecordCacheHit, RecordCacheMiss or, where nothing was looked up, neither.
Record(h) ==
  /\ handler[h].at = "completed"
  /\ \/ UNCHANGED count
     \/ \E c \in {"hits", "misses"} : count' = [count EXCEPT ![c] = @ + 1]
  /\ handler' = [handler EXCEPT ![h].at = "hits"]
  /\ UNCHANGED <<profile, poll, page, mounted, effects, hidden, overtaken>>

\* Snapshot, for its hit rate.
Sample(h, c) ==
  /\ handler[h].at = c
  /\ handler' = [handler EXCEPT ![h][c] = count[c],
                                ![h].at = IF c = "hits" THEN "misses" ELSE "adjust"]
  /\ UNCHANGED <<count, profile, poll, page, mounted, effects, hidden, overtaken>>

\* Variant: the counters start anew with each profile.
AdjustAndReset(h) ==
  /\ handler[h].at = "adjust"
  /\ profile' = ProfileForHitRate(handler[h].hits, handler[h].misses)
  /\ count' = IF profile' = profile THEN count ELSE [c \in Counters |-> 0]
  /\ handler' = [handler EXCEPT ![h] = [at |-> "idle", hits |-> 0, misses |-> 0]]
  /\ UNCHANGED <<poll, page, mounted, effects, hidden, overtaken>>

\* AdjustWeights
Adjust(h) ==
  /\ handler[h].at = "adjust"
  /\ profile' = ProfileForHitRate(handler[h].hits, handler[h].misses)
  /\ handler' = [handler EXCEPT ![h] = [at |-> "idle", hits |-> 0, misses |-> 0]]
  /\ UNCHANGED <<count, poll, page, mounted, effects, hidden, overtaken>>

\* Of the completed requests any number may be within the last second.
Rates == IF Aging THEN 0..count.total ELSE {count.total}

\* What a field of an answer can be read as.
Readings(field) == CASE field \in Counters -> {count[field]}
                     [] field = "rps" -> Rates
                     [] OTHER -> {Weights[profile][field]}

\* One read of BuildMetricsJson for a poll.
Load(s) == /\ poll[s].at \in DOMAIN After
           /\ \E v \in Readings(poll[s].at) :
                poll' = [poll EXCEPT ![s].m[poll[s].at] = v, ![s].at = After[@]]
           /\ UNCHANGED <<server, page, mounted, effects, hidden, overtaken>>
------------------------------------------------------------------------------
(* fetchMetrics *)

\* fetchMetrics up to its first await, called once for each poll in S.
Send(S) == /\ S \subseteq Free
           /\ poll' = [s \in Polls |-> IF s \in S THEN [at |-> "total", m |-> Unread]
                                                  ELSE poll[s]]
           /\ overtaken' = overtaken \ S

\* The poll is over.
Over(s) == poll' = [poll EXCEPT ![s] = [at |-> "free", m |-> Unread]]

\* Variant: one point more than the last History.
OnePointMore(series) ==
  IF Len(series) > History + 1 THEN Tail(series) ELSE series

\* The last History points of the series, which has grown by one.
Trimmed(series) == IF Len(series) > History THEN Tail(series) ELSE series

\* Variant: the alert of an earlier failure stays.
SettleKeepsAlert(s) ==
  /\ poll[s].at = "ready"
  /\ metrics' = poll[s].m
  /\ loading' = FALSE /\ updatedAt' = TRUE
  /\ rpsSeries' = Trimmed(Append(rpsSeries, poll[s].m.rps))
  /\ Over(s)
  /\ overtaken' = (overtaken \cup InFlight) \ {s}
  /\ UNCHANGED <<server, error, mounted, effects, hidden>>

\* The answer has arrived and is shown.
Settle(s) == /\ poll[s].at = "ready"
             /\ metrics' = poll[s].m
             /\ error' = FALSE /\ loading' = FALSE /\ updatedAt' = TRUE
             /\ rpsSeries' = Trimmed(Append(rpsSeries, poll[s].m.rps))
             /\ Over(s)
             /\ overtaken' = (overtaken \cup InFlight) \ {s}
             /\ UNCHANGED <<server, mounted, effects, hidden>>

\* Variant: the catch clause also clears the metrics.
FailClears(s) == /\ s \in InFlight
                 /\ error' = TRUE /\ loading' = FALSE /\ metrics' = Nothing
                 /\ Over(s)
                 /\ overtaken' = overtaken \ {s}
                 /\ UNCHANGED <<server, rpsSeries, updatedAt, mounted, effects, hidden>>

\* There is no answer, or one that is not ok or not JSON: what is shown stays.
Fail(s) == /\ s \in InFlight
           /\ error' = TRUE /\ loading' = FALSE
           /\ Over(s)
           /\ overtaken' = overtaken \ {s}
           /\ UNCHANGED <<server, metrics, rpsSeries, updatedAt, mounted, effects, hidden>>
------------------------------------------------------------------------------
(* The effects *)

\* The effects run: an interval, a listener and a microtask.
Ran(e) == [timers |-> e.timers + 1, listeners |-> e.listeners + 1, due |-> e.due + 1]

\* Variant: an interval that nobody clears.
CleanedListener(e) == [e EXCEPT !.listeners = @ - 1]

\* Their clean-up functions run.
Cleaned(e) == [e EXCEPT !.timers = @ - 1, !.listeners = @ - 1]

\* React runs the effects once or, under StrictMode in a development build, runs them,
\* cleans up and runs them again.
Mount == /\ ~mounted
         /\ mounted' = TRUE
         /\ effects' \in {Ran(effects), Ran(Cleaned(Ran(effects)))}
         /\ UNCHANGED <<server, poll, page, hidden, overtaken>>

\* The microtask of an effect polls, whether anybody sees the page or not.
FirstPoll(s) == /\ effects.due > 0
                /\ Send({s})
                /\ effects' = [effects EXCEPT !.due = @ - 1]
                /\ UNCHANGED <<server, page, mounted, hidden>>

\* An interval polls only then.
Visible == ~hidden

\* An interval fires, a second after it last did.
Tick(s) == /\ effects.timers > 0 /\ Visible
           /\ Send({s})
           /\ UNCHANGED <<server, page, mounted, effects, hidden>>

Hide == /\ ~hidden
        /\ hidden' = TRUE
        /\ UNCHANGED <<server, poll, page, mounted, effects, overtaken>>

\* The page becomes visible, and each listener polls.
Show(S) == /\ hidden
           /\ hidden' = FALSE
           /\ Cardinality(S) = effects.listeners
           /\ Send(S)
           /\ UNCHANGED <<server, page, mounted, effects>>
------------------------------------------------------------------------------
Handle(h) == Complete(h) \/ Record(h) \/ Sample(h, "hits") \/ Sample(h, "misses")
               \/ Adjust(h)
Proceed(s) == Load(s) \/ Settle(s) \/ Fail(s)

Next == \/ \E h \in Handlers : Handle(h)
        \/ \E s \in Polls : Proceed(s) \/ FirstPoll(s) \/ Tick(s)
        \/ \E S \in SUBSET Polls : Show(S)
        \/ Mount \/ Hide

Spec == Init /\ [][Next]_vars

\* React runs the effects, the browser runs microtasks and intervals, and a poll is
\* answered or fails.  Nobody has to look at the page or send a request.
FairSpec == /\ Spec
            /\ WF_vars(Mount)
            /\ WF_vars(\E s \in Polls : FirstPoll(s))
            /\ WF_vars(\E s \in Polls : Tick(s))
            /\ \A s \in Polls : WF_vars(Proceed(s))
------------------------------------------------------------------------------
(* What the page shows *)

Shown == metrics # Nothing

HeaderShows == IF updatedAt THEN "time" ELSE "nothing"
AlertShows == IF error THEN "message" ELSE "nothing"
CardsShow == IF loading /\ ~Shown THEN "skeleton" ELSE IF Shown THEN "values" ELSE "nothing"
UsageShows == IF Shown THEN "bar" ELSE "nothing"
PieData == IF ~Shown THEN <<>>
           ELSE IF metrics.hits + metrics.misses = 0 THEN <<>>
           ELSE <<metrics.hits, metrics.misses>>
PieShows == IF PieData # <<>> THEN "chart" ELSE IF Shown THEN "noLookups" ELSE "skeleton"
LineShows == IF rpsSeries # <<>> THEN "chart" ELSE "skeleton"
SummaryShows == IF Shown THEN "values" ELSE "skeleton"
StrategyShows == IF Shown THEN "values" ELSE "nothing"

\* The label of the strategy, from the hit rate of the answer and by the thresholds of
\* the server.  The rate is exact here; the answer has six digits of it.
Strategy == ProfileForHitRate(metrics.hits, metrics.misses)
------------------------------------------------------------------------------
(* Properties *)

TypeOK ==
  /\ count \in [Counters -> Nat] /\ profile \in Profiles
  /\ handler \in [Handlers -> [at : {"idle", "completed", "hits", "misses", "adjust"},
                               hits : Nat, misses : Nat]]
  /\ poll \in [Polls -> [at : {"free", "ready"} \cup DOMAIN After, m : Metrics]]
  /\ metrics \in Metrics \cup {Nothing}
  /\ error \in BOOLEAN /\ loading \in BOOLEAN /\ updatedAt \in BOOLEAN
  /\ rpsSeries \in Seq(Nat) /\ Len(rpsSeries) <= History
  /\ mounted \in BOOLEAN /\ hidden \in BOOLEAN
  /\ effects \in [timers : Nat, listeners : Nat, due : Nat]
  /\ overtaken \subseteq InFlight

\* No counter on the page goes back unless polls overlap: an answer is older than the
\* one it replaces only if that one arrived while its own poll was in flight, however
\* the reads of the answers interleave with each other and with the handlers.
OnlyOverlapsGoBack ==
  [][Shown /\ metrics' # Nothing /\ (\E c \in Counters : metrics'[c] < metrics[c])
       => \E s \in overtaken : poll[s].at = "ready" /\ metrics' = poll[s].m]_vars

\* The panels agree, whatever order answers and failures come in: all that need an
\* answer have one or none has, the line ends with the rate on the card, and the page
\* has neither values nor skeletons in its first row only beside the alert.
PageIsWhole ==
  /\ \/ /\ CardsShow = "values" /\ UsageShows = "bar" /\ SummaryShows = "values"
        /\ StrategyShows = "values" /\ HeaderShows = "time"
        /\ PieShows # "skeleton" /\ LineShows = "chart"
        /\ rpsSeries[Len(rpsSeries)] = metrics.rps
     \/ /\ CardsShow # "values" /\ UsageShows = "nothing" /\ SummaryShows = "skeleton"
        /\ StrategyShows = "nothing" /\ HeaderShows = "nothing"
        /\ PieShows = "skeleton" /\ LineShows = "skeleton"
  /\ CardsShow = "nothing" => AlertShows = "message"

\* Also where React has run the effects twice, one interval and one listener poll, and
\* not two of each for as long as the page is open.
OnePoller == mounted => effects.timers = 1 /\ effects.listeners = 1

\* A page that stays visible, and no poll of which fails any more, takes back its alert
\* and comes to show what the server has counted and the weights of its profile, and goes
\* on showing it: neither an overtaken answer or failure nor an answer that was read while
\* the profile changed is the last word.
CatchesUp ==
  <>[]~hidden /\ <>[][\A s \in Polls : ~Fail(s)]_vars
    => <>[](/\ Shown /\ ~error
            /\ \A c \in Counters : metrics[c] = count[c]
            /\ [alpha |-> metrics.alpha, beta |-> metrics.beta] = Weights[profile])

\* README: the page shows the active cache strategy: at the latest when every handler is
\* through with its request, something was looked up and the page has every count.
StrategyIsActive ==
  /\ Shown /\ \A h \in Handlers : handler[h].at = "idle"
  /\ count.hits + count.misses > 0 /\ \A c \in Counters : metrics[c] = count[c]
  => Strategy = profile
==============================================================================
