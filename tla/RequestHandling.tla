--------------------------- MODULE RequestHandling ---------------------------
(***************************************************************************)
(* server/http_server.cpp, HandleClient, and metrics/metrics.cpp: what the *)
(* worker threads of the pool do to the shared counters while they handle  *)
(* one client each.  The counters are atomics, so every load, store,       *)
(* fetch_add and compare_exchange is an action; the request-rate samples   *)
(* are under rps_mutex_, so a critical section of it is one action.        *)
(*                                                                         *)
(* The variables of a handler are indexed by the client it handles; at     *)
(* most MaxHandlers of them run at a time.                                 *)
(***************************************************************************)
EXTENDS Naturals, Sequences, FiniteSets

CONSTANTS Clients,      \* the accepted connections, each handled once
          MaxHandlers,  \* the number of worker threads
          Window,       \* the one second of the request rate
          MemValues,    \* what the cache's memory may be after a Put
          MaxTime,      \* bound: the last value of the clock
          MaxPeeks      \* bound: other callers inside Snapshot at a time

ASSUME HandlingAssumption == /\ IsFiniteSet(Clients)
                             /\ MaxHandlers \in Nat \ {0} /\ Window \in Nat
                             /\ MemValues \subseteq Nat
                             /\ MaxTime \in Nat /\ MaxPeeks \in Nat

VARIABLES active,    \* active_connections_
          total,     \* total_requests_
          hits,      \* cache_hits_
          misses,    \* cache_misses_
          approx,    \* approximate_memory_usage_bytes_
          samples,   \* recent_requests_, oldest push first
          clock,     \* steady_clock
          peeks,     \* what other callers of Snapshot have read as now
          cacheMem,  \* the cache's current_memory_usage_bytes_
          profile,   \* the cache's active_profile_
          pc,        \* where the handler of each client is
          kind,      \* what the client sent: "unread", "client" or "internal"
          lookup,    \* cache_lookup: "none", "hit" or "miss"
          stamp,     \* now of the client's RequestCompleted
          seen       \* what the handler has loaded: counters, now, memory

metrics == <<active, total, hits, misses, approx, samples>>
cache == <<cacheMem, profile>>
request == <<kind, lookup, stamp, seen>>
vars == <<metrics, clock, peeks, cache, pc, request>>

\* The stages of a handler, in their order.
BeforeOpen == {"queued", "reading", "open"}
Serving == {"serve", "putLoad", "putStore", "count"}
Completing == {"stamp", "push", "record"}
Adjusting == {"snapHits", "snapMisses", "snapNow", "snapPrune", "adjust"}
Closing == {"endLoad", "endStore", "closeLoad", "closeCas"}
Stages == BeforeOpen \cup Serving \cup Completing \cup Adjusting \cup Closing
            \cup {"closed"}

Handled == {c \in Clients : pc[c] \notin {"queued", "closed"}}
Unseen == [hits |-> 0, misses |-> 0, now |-> 0, val |-> 0]

Init == /\ active = 0 /\ total = 0 /\ hits = 0 /\ misses = 0 /\ approx = 0
        /\ samples = <<>> /\ clock = 0 /\ peeks = {}
        /\ cacheMem = 0 /\ profile = "balanced"
        /\ pc = [c \in Clients |-> "queued"]
        /\ kind = [c \in Clients |-> "unread"]
        /\ lookup = [c \in Clients |-> "none"]
        /\ stamp = [c \in Clients |-> 0]
        /\ seen = [c \in Clients |-> Unseen]

At(c, stage) == pc[c] = stage
GoTo(c, stage) == pc' = [pc EXCEPT ![c] = stage]
Load(c, field, value) == seen' = [seen EXCEPT ![c][field] = value]
------------------------------------------------------------------------------
(* MetricsCollector *)

\* The samples older than t - 1 s that no younger one stands in front of.
StalePrefix(s, t) == {i \in 1..Len(s) : \A j \in 1..i : s[j] + Window < t}

\* Variant: erase up to the last stale sample.
PrunedToLastStale(s, t) ==
  LET stale == {i \in 1..Len(s) : s[i] + Window < t}
  IN SubSeq(s, Cardinality({i \in 1..Len(s) : \E j \in stale : i <= j}) + 1, Len(s))

\* PruneOldSamplesLocked pops from the front while the front is stale.
Pruned(s, t) == SubSeq(s, Cardinality(StalePrefix(s, t)) + 1, Len(s))

\* 0 of 0 counts as a rate of 0.
ProfileFor(h, m) == IF h + m = 0 \/ 2 * h < h + m THEN "recencyHeavy"
                    ELSE IF 5 * h > 4 * (h + m) THEN "frequencyHeavy"
                    ELSE "balanced"
------------------------------------------------------------------------------
(* HandleClient, step by step. *)

\* A worker thread takes the client's task.
Begin(c) == /\ At(c, "queued") /\ Cardinality(Handled) < MaxHandlers
            /\ GoTo(c, "reading")
            /\ UNCHANGED <<metrics, clock, peeks, cache, request>>

\* ReadFromSocket fails, or the path is one of the monitoring paths: nothing is
\* recorded for such a request.
ReadInternal(c) == /\ At(c, "reading")
                   /\ kind' = [kind EXCEPT ![c] = "internal"]
                   /\ GoTo(c, "endLoad")
                   /\ UNCHANGED <<metrics, clock, peeks, cache, lookup, stamp, seen>>

ReadClient(c) == /\ At(c, "reading")
                 /\ kind' = [kind EXCEPT ![c] = "client"]
                 /\ GoTo(c, "open")
                 /\ UNCHANGED <<metrics, clock, peeks, cache, lookup, stamp, seen>>

ConnectionOpened(c) == /\ At(c, "open")
                       /\ active' = active + 1
                       /\ GoTo(c, "serve")
                       /\ UNCHANGED <<total, hits, misses, approx, samples, clock,
                                      peeks, cache, request>>

\* HandleRequest without a Put: no lookup (an error answer, a POST), or a hit.
Serve(c) == /\ At(c, "serve")
            /\ \E found \in {"none", "hit"} : lookup' = [lookup EXCEPT ![c] = found]
            /\ GoTo(c, "count")
            /\ UNCHANGED <<metrics, clock, peeks, cache, kind, stamp, seen>>

\* A miss.  The file is not readable, or it is read and put into the cache.
ServeMiss(c) == /\ At(c, "serve")
                /\ lookup' = [lookup EXCEPT ![c] = "miss"]
                /\ \/ GoTo(c, "count") /\ UNCHANGED cacheMem
                   \/ GoTo(c, "putLoad") /\ cacheMem' \in MemValues
                /\ UNCHANGED <<metrics, clock, peeks, profile, kind, stamp, seen>>

\* RequestCompleted
CountRequest(c) == /\ At(c, "count")
                   /\ total' = total + 1
                   /\ GoTo(c, "stamp")
                   /\ UNCHANGED <<active, hits, misses, approx, samples, clock, peeks,
                                  cache, request>>

ReadNow(c) == /\ At(c, "stamp")
              /\ stamp' = [stamp EXCEPT ![c] = clock]
              /\ GoTo(c, "push")
              /\ UNCHANGED <<metrics, clock, peeks, cache, kind, lookup, seen>>

PushSample(c) == /\ At(c, "push")
                 /\ samples' = Pruned(Append(samples, stamp[c]), stamp[c])
                 /\ GoTo(c, IF lookup[c] = "none" THEN "snapHits" ELSE "record")
                 /\ UNCHANGED <<active, total, hits, misses, approx, clock, peeks,
                                cache, request>>

\* Variant: the lookup is not looked at again.
RecordMissAlways(c) ==
  /\ At(c, "record")
  /\ misses' = misses + 1
  /\ GoTo(c, "snapHits")
  /\ UNCHANGED <<active, hits, total, approx, samples, clock, peeks, cache, request>>

\* RecordCacheHit or RecordCacheMiss
RecordLookup(c) == /\ At(c, "record")
                   /\ hits' = IF lookup[c] = "hit" THEN hits + 1 ELSE hits
                   /\ misses' = IF lookup[c] = "miss" THEN misses + 1 ELSE misses
                   /\ GoTo(c, "snapHits")
                   /\ UNCHANGED <<active, total, approx, samples, clock, peeks, cache,
                                  request>>

\* Snapshot, of which the handler uses the hit rate; then AdjustWeights.
SnapHits(c) == /\ At(c, "snapHits")
               /\ Load(c, "hits", hits)
               /\ GoTo(c, "snapMisses")
               /\ UNCHANGED <<metrics, clock, peeks, cache, kind, lookup, stamp>>

SnapMisses(c) == /\ At(c, "snapMisses")
                 /\ Load(c, "misses", misses)
                 /\ GoTo(c, "snapNow")
                 /\ UNCHANGED <<metrics, clock, peeks, cache, kind, lookup, stamp>>

SnapNow(c) == /\ At(c, "snapNow")
              /\ Load(c, "now", clock)
              /\ GoTo(c, "snapPrune")
              /\ UNCHANGED <<metrics, clock, peeks, cache, kind, lookup, stamp>>

\* Variant: a snapshot counts what the last completion has left.
SnapCountOnly(c) == /\ At(c, "snapPrune")
                    /\ GoTo(c, "adjust")
                    /\ UNCHANGED <<metrics, clock, peeks, cache, request>>

SnapPrune(c) == /\ At(c, "snapPrune")
                /\ samples' = Pruned(samples, seen[c].now)
                /\ GoTo(c, "adjust")
                /\ UNCHANGED <<active, total, hits, misses, approx, clock, peeks, cache,
                               request>>

AdjustWeights(c) == /\ At(c, "adjust")
                    /\ profile' = ProfileFor(seen[c].hits, seen[c].misses)
                    /\ seen' = [seen EXCEPT ![c] = Unseen]
                    /\ GoTo(c, "endLoad")
                    /\ UNCHANGED <<metrics, clock, peeks, cacheMem, kind, lookup, stamp>>

\* UpdateApproximateMemoryMetric, after a Put and at the end of every request:
\* GetStats, then the store.
LoadMemory(c) == /\ pc[c] \in {"putLoad", "endLoad"}
                 /\ Load(c, "val", cacheMem)
                 /\ GoTo(c, IF At(c, "putLoad") THEN "putStore" ELSE "endStore")
                 /\ UNCHANGED <<metrics, clock, peeks, cache, kind, lookup, stamp>>

\* Variant: the bytes are added to the metric, as every other counter is counted up.
StoreMemoryAdds(c) ==
  /\ pc[c] \in {"putStore", "endStore"}
  /\ approx' = approx + seen[c].val
  /\ GoTo(c, IF At(c, "putStore") THEN "count"
             ELSE IF kind[c] = "client" THEN "closeLoad" ELSE "closed")
  /\ seen' = [seen EXCEPT ![c] = Unseen]
  /\ UNCHANGED <<active, total, hits, misses, samples, clock, peeks, cache, kind, lookup,
                 stamp>>

StoreMemory(c) == /\ pc[c] \in {"putStore", "endStore"}
                  /\ approx' = seen[c].val
                  /\ GoTo(c, IF At(c, "putStore") THEN "count"
                             ELSE IF kind[c] = "client" THEN "closeLoad" ELSE "closed")
                  /\ seen' = [seen EXCEPT ![c] = Unseen]
                  /\ UNCHANGED <<active, total, hits, misses, samples, clock, peeks,
                                 cache, kind, lookup, stamp>>

\* ConnectionClosed: the load, then the loop of compare_exchange_weak, whose
\* failure loads the counter again.  The socket is closed on return.
CloseLoad(c) == /\ At(c, "closeLoad")
                /\ Load(c, "val", active)
                /\ GoTo(c, IF active > 0 THEN "closeCas" ELSE "closed")
                /\ UNCHANGED <<metrics, clock, peeks, cache, kind, lookup, stamp>>

\* Variants: a plain store for the compare_exchange; a failure that does not load
\* the counter.
CloseStore(c) == /\ At(c, "closeCas")
                 /\ active' = seen[c].val - 1
                 /\ seen' = [seen EXCEPT ![c] = Unseen]
                 /\ GoTo(c, "closed")
                 /\ UNCHANGED <<total, hits, misses, approx, samples, clock, peeks,
                                cache, kind, lookup, stamp>>
CloseCasNoReload(c) == /\ At(c, "closeCas") /\ active = seen[c].val
                       /\ active' = active - 1
                       /\ GoTo(c, "closed")
                       /\ UNCHANGED <<total, hits, misses, approx, samples, clock, peeks,
                                      cache, request>>

CloseCas(c) == /\ At(c, "closeCas")
               /\ \/ /\ active = seen[c].val
                     /\ active' = active - 1
                     /\ seen' = [seen EXCEPT ![c] = Unseen]
                     /\ GoTo(c, "closed")
                  \/ /\ active # seen[c].val
                     /\ Load(c, "val", active)
                     /\ GoTo(c, IF active > 0 THEN "closeCas" ELSE "closed")
                     /\ UNCHANGED active
               /\ UNCHANGED <<total, hits, misses, approx, samples, clock, peeks, cache,
                              kind, lookup, stamp>>
------------------------------------------------------------------------------
(* The other callers of Snapshot: a /metrics request and the two checks of *)
(* the prefetcher.                                                         *)

PeekNow == /\ Cardinality(peeks) < MaxPeeks
           /\ peeks' = peeks \cup {clock}
           /\ UNCHANGED <<metrics, clock, cache, pc, request>>

PeekPrune(t) == /\ samples' = Pruned(samples, t)
                /\ peeks' = peeks \ {t}
                /\ UNCHANGED <<active, total, hits, misses, approx, clock, cache, pc,
                               request>>

Tick == /\ clock < MaxTime
        /\ clock' = clock + 1
        /\ UNCHANGED <<metrics, peeks, cache, pc, request>>

Handle(c) == \/ ReadInternal(c) \/ ReadClient(c)
             \/ ConnectionOpened(c) \/ Serve(c) \/ ServeMiss(c)
             \/ CountRequest(c) \/ ReadNow(c) \/ PushSample(c) \/ RecordLookup(c)
             \/ SnapHits(c) \/ SnapMisses(c) \/ SnapNow(c) \/ SnapPrune(c)
             \/ AdjustWeights(c)
             \/ LoadMemory(c) \/ StoreMemory(c)
             \/ CloseLoad(c) \/ CloseCas(c)

Next == \/ \E c \in Clients : Begin(c) \/ Handle(c)
        \/ PeekNow \/ \E t \in peeks : PeekPrune(t)
        \/ Tick

Spec == Init /\ [][Next]_vars

\* A worker thread keeps running, and reading from a client ends: a recv that gets
\* nothing times out, and what a client may send is bounded.
FairSpec == Spec /\ \A c \in Clients : WF_vars(Handle(c))
------------------------------------------------------------------------------
(* Properties *)

TypeOK == /\ active \in Nat /\ total \in Nat /\ hits \in Nat /\ misses \in Nat
          /\ approx \in MemValues \cup {0} /\ cacheMem \in MemValues \cup {0}
          /\ samples \in Seq(0..MaxTime)
          /\ clock \in 0..MaxTime /\ peeks \subseteq 0..MaxTime
          /\ profile \in {"recencyHeavy", "balanced", "frequencyHeavy"}
          /\ pc \in [Clients -> Stages]
          /\ kind \in [Clients -> {"unread", "client", "internal"}]
          /\ lookup \in [Clients -> {"none", "hit", "miss"}]
          /\ stamp \in [Clients -> 0..MaxTime]
          /\ seen \in [Clients -> [hits : Nat, misses : Nat, now : 0..MaxTime,
                                   val : Nat]]

Recorded == {c \in Clients : kind[c] = "client"}
PastOpen == {c \in Recorded : pc[c] \notin BeforeOpen}
PastCount == {c \in PastOpen : pc[c] \notin Serving}
PastPush == {c \in PastCount : pc[c] \notin {"stamp", "push"}}
PastLookup == {c \in PastPush : pc[c] # "record"}

\* The gauge of active connections is the number of client requests between their
\* ConnectionOpened and their ConnectionClosed: concurrent closes lose no decrement
\* and the guard against zero never swallows one.
ActiveIsOpen == active = Cardinality({c \in PastOpen : pc[c] # "closed"})

\* Every client request is counted once, and its lookup once and on the right side:
\* so hits and misses never exceed the requests counted, and no failure, internal
\* request or parse error is in any of the three.
EachRequestCountedOnce ==
  /\ total = Cardinality(PastCount)
  /\ hits = Cardinality({c \in PastLookup : lookup[c] = "hit"})
  /\ misses = Cardinality({c \in PastLookup : lookup[c] = "miss"})

\* However the clock readings overtake each other on their way to rps_mutex_, no
\* request completed within the last second is missing from the request rate.
RecentRequestsKept ==
  Cardinality({i \in DOMAIN samples : samples[i] + Window >= clock})
    = Cardinality({c \in PastPush : stamp[c] + Window >= clock})

\* A step that counts the samples for a snapshot whose time is t.
CountsAt(t) == \/ t \in peeks /\ PeekPrune(t)
               \/ \E c \in Clients : seen[c].now = t /\ SnapPrune(c)

\* Pruning stops at the first recent sample and samples are out of order, so a snapshot
\* may count requests older than a second; but they are fewer than the handlers,
\* whatever the order in which clock readings come to rps_mutex_ and however many
\* requests there were.
OldRequestsAreFew ==
  [][\A t \in 0..MaxTime : CountsAt(t) =>
       Cardinality({i \in DOMAIN samples' : samples'[i] + Window < t}) < MaxHandlers]_vars

\* Every handler that starts reaches its end and closes its socket: the loop of
\* ConnectionClosed is not kept going by the other handlers.
HandlersFinish == \A c \in Clients : At(c, "reading") ~> At(c, "closed")
==============================================================================
