---------------------------- MODULE StaticServing ----------------------------
(***************************************************************************)
(* server/http_server.cpp, ServeStaticFile, and prefetch/prefetcher.cpp:   *)
(* the worker threads that answer GET requests from the cache or the disk, *)
(* and the prefetcher's own thread, which reads what a served HTML page    *)
(* links to into the same cache.  An action is one critical section of the *)
(* prefetcher's mutex_ or one call of the cache, the metrics or the file   *)
(* system; between two of them any other thread may run.                   *)
(*                                                                         *)
(* The disk belongs to somebody else: what a look at it returns is chosen. *)
(* Every content weighs one unit in the cache, may be too large for it and *)
(* is known by the file it was read from.                                  *)
(***************************************************************************)
EXTENDS RequestPaths, FiniteSets

CONSTANTS Clients,       \* the connections, one GET request each
          Threads,       \* thread_count
          Targets,       \* what clients ask for
          Links,         \* for each text/html file the URLs of its link, script
                         \* and img tags
          NoClient,
          Capacity,      \* how many contents fit in the cache
          UsageLimit,    \* cache_usage_threshold, in contents
          MaxResources,  \* max_prefetch_resources
          MaxQueue,      \* max_queue_depth
          MaxStarts      \* bound: how many times Start is called

ASSUME ServingAssumption ==
  /\ IsFiniteSet(Clients) /\ NoClient \notin Clients
  /\ NoPath \notin Paths /\ Targets \subseteq Seq(STRING)
  /\ \A f \in DOMAIN Links : Links[f] \in [{"link", "script", "img"} -> Seq(Seq(STRING))]
  /\ {Threads, Capacity, UsageLimit, MaxResources, MaxQueue, MaxStarts} \subseteq Nat

VARIABLES cached,    \* for each key in the cache the file its content is from
          hpc,       \* where the handler of each client is
          path,      \* the path of each client's request, once it is read
          started,   \* started_ of the prefetcher
          stopping,  \* stopping_
          jobs,      \* jobs_: the clients whose pages wait to be looked through
          ctl,       \* where the caller of the prefetcher's Start and Stop is
          starts,    \* how many times it has called Start
          wpc,       \* where the prefetcher's thread is
          job,       \* the client whose page it looks through, or NoClient
          todo,      \* the resource URLs it has not come to yet
          cur,       \* the key it is at
          fetched,   \* prefetched: how many it has stored for this page
          fate       \* history: what has become of each client's page

server == <<hpc, path>>
thread == <<wpc, job, todo, cur, fetched>>
control == <<started, stopping, ctl, starts>>
vars == <<cached, server, control, jobs, thread, fate>>

Pages == DOMAIN Links
Key(c) == CacheKeyForPath(path[c])
File(c) == ResolveRequestPath(path[c])

\* The stages of a handler between ConnectionOpened and ConnectionClosed, and all.
Open == {"get", "read", "put", "usage", "load", "push", "leave"}
Stages == Open \cup {"new", "accepted", "internal", "closed"}

\* The stages of ProcessJob, and all of the prefetcher's thread.
Looking == {"usage", "load", "next", "contains", "size", "read", "put"}
ThreadStages == Looking \cup {"none", "ready", "waiting", "exited"}

InPool == {c \in Clients : hpc[c] \in Open \cup {"internal"}}
Connected == {c \in Clients : hpc[c] \notin {"new", "closed"}}
Active == Cardinality({c \in Clients : hpc[c] \in Open})

\* The threshold that HttpServer passes; the prefetcher's default for a threshold of 0 never
\* applies, because main takes positive numbers of threads only.
HeavyLoad == 2 * Threads
UsageTooHigh == Cardinality(DOMAIN cached) >= UsageLimit

Init == /\ cached = <<>>
        /\ hpc = [c \in Clients |-> "new"] /\ path = [c \in Clients |-> NoPath]
        /\ started = FALSE /\ stopping = FALSE /\ ctl = "down" /\ starts = 0
        /\ jobs = <<>>
        /\ wpc = "none" /\ job = NoClient /\ todo = <<>> /\ cur = NoPath /\ fetched = 0
        /\ fate = [c \in Clients |-> "new"]

GoTo(c, stage) == hpc' = [hpc EXCEPT ![c] = stage]

\* Put: a content larger than the cache is refused; another replaces what its key
\* had, and others go until all fit.
PutRefused == UNCHANGED cached
PutStored(k, file) ==
  LET all == [j \in DOMAIN cached \cup {k} |-> IF j = k THEN file ELSE cached[j]]
  IN cached' \in IF Cardinality(DOMAIN all) <= Capacity THEN {all}
                 ELSE {Restrict(all, DOMAIN all \ {v}) : v \in DOMAIN all}
------------------------------------------------------------------------------
(* Handlers *)

Accept(c) == /\ ctl = "up" /\ hpc[c] = "new"
             /\ GoTo(c, "accepted")
             /\ UNCHANGED <<cached, path, control, jobs, thread, fate>>

\* A worker thread of the pool takes the client and reads its request.  One for a
\* monitoring path uses neither the cache nor the prefetcher.
Begin(c, target) ==
  /\ hpc[c] = "accepted" /\ Cardinality(InPool) < Threads
  /\ path' = [path EXCEPT ![c] = RequestPath(target)]
  /\ GoTo(c, IF IsInternalMonitoringPath(path'[c]) THEN "internal" ELSE "get")
  /\ UNCHANGED <<cached, control, jobs, thread, fate>>

\* What follows an answer with a page, and with anything else.
AfterAnswer(file) == IF file \in Pages THEN "usage" ELSE "leave"

\* The file may not exist or be outside the document root, which is an answer
\* without a lookup.
Lookup(c) == /\ hpc[c] = "get"
             /\ \/ GoTo(c, "leave")
                \/ GoTo(c, IF Key(c) \in DOMAIN cached THEN AfterAnswer(cached[Key(c)])
                        ELSE "read")
             /\ UNCHANGED <<cached, path, control, jobs, thread, fate>>

ReadFile(c) == /\ hpc[c] = "read"
               /\ GoTo(c, "put") \/ GoTo(c, "leave")
               /\ UNCHANGED <<cached, path, control, jobs, thread, fate>>

PutFile(c) == /\ hpc[c] = "put"
              /\ PutRefused \/ PutStored(Key(c), File(c))
              /\ GoTo(c, AfterAnswer(File(c)))
              /\ UNCHANGED <<path, control, jobs, thread, fate>>

\* ScheduleHtmlPrefetch: an empty page and a cache that is too full end it; then
\* so does a heavy load; then the queue is looked at under mutex_.
CheckUsage(c) == /\ hpc[c] = "usage"
                 /\ \/ GoTo(c, "leave")
                    \/ ~UsageTooHigh /\ GoTo(c, "load")
                 /\ UNCHANGED <<cached, path, control, jobs, thread, fate>>

CheckLoad(c) == /\ hpc[c] = "load"
                /\ GoTo(c, IF Active > HeavyLoad THEN "leave" ELSE "push")
                /\ UNCHANGED <<cached, path, control, jobs, thread, fate>>

\* Variants: a full queue, a stopping prefetcher, or the sleeping thread forgotten.
HasRoomAlways == started /\ ~stopping
HasRoomWhileStopping == started /\ Len(jobs) < MaxQueue
NotNotified == wpc

HasRoom == started /\ ~stopping /\ Len(jobs) < MaxQueue
Notified == IF wpc = "waiting" THEN "ready" ELSE wpc

Schedule(c) == /\ hpc[c] = "push" /\ HasRoom
               /\ jobs' = Append(jobs, c)
               /\ wpc' = Notified
               /\ fate' = [fate EXCEPT ![c] = "accepted"]
               /\ GoTo(c, "leave")
               /\ UNCHANGED <<cached, path, control, job, todo, cur, fetched>>

NotScheduled(c) == /\ hpc[c] = "push" /\ ~HasRoom
                   /\ GoTo(c, "leave")
                   /\ UNCHANGED <<cached, path, control, jobs, thread, fate>>

Leave(c) == /\ hpc[c] \in {"leave", "internal"}
            /\ GoTo(c, "closed")
            /\ UNCHANGED <<cached, path, control, jobs, thread, fate>>

Handle(c) == \/ Lookup(c) \/ ReadFile(c) \/ PutFile(c)
             \/ CheckUsage(c) \/ CheckLoad(c) \/ Schedule(c) \/ NotScheduled(c)
             \/ Leave(c)
------------------------------------------------------------------------------
(* Start and Stop of the prefetcher *)

\* started_ is set before the thread is created, which may fail.  HttpServer has
\* stopped its pool before it starts again, so no client of an earlier run is left.
Start == /\ ctl = "down" /\ ~started /\ starts < MaxStarts
         /\ Connected = {}
         /\ started' = TRUE /\ stopping' = FALSE
         /\ starts' = starts + 1
         /\ \/ ctl' = "up" /\ wpc' = "ready"
            \/ ctl' = "failed" /\ wpc' = "none"
         /\ UNCHANGED <<cached, server, jobs, job, todo, cur, fetched, fate>>

StopBegin == /\ ctl \in {"up", "failed"} /\ started
             /\ stopping' = TRUE
             /\ ctl' = "notify"
             /\ UNCHANGED <<cached, server, started, starts, jobs, thread, fate>>

StopNotify == /\ ctl = "notify"
              /\ wpc' = Notified
              /\ ctl' = "join"
              /\ UNCHANGED <<cached, server, started, stopping, starts, jobs, job, todo,
                             cur, fetched, fate>>

StopJoin == /\ ctl = "join" /\ wpc \in {"exited", "none"}
            /\ wpc' = "none"
            /\ ctl' = "reset"
            /\ UNCHANGED <<cached, server, started, stopping, starts, jobs, job, todo,
                           cur, fetched, fate>>

StopReset == /\ ctl = "reset"
             /\ started' = FALSE /\ stopping' = FALSE
             /\ ctl' = "down"
             /\ UNCHANGED <<cached, server, starts, jobs, thread, fate>>
------------------------------------------------------------------------------
(* The prefetcher's thread *)

\* Variant: a stop does not wait for the queue.
ExitAtOnce == stopping

MustExit == stopping /\ jobs = <<>>
Oldest == Head(jobs)

Sleep == /\ wpc = "ready" /\ ~stopping /\ jobs = <<>>
         /\ wpc' = "waiting"
         /\ UNCHANGED <<cached, server, control, jobs, job, todo, cur, fetched, fate>>

SpuriousWakeup == /\ wpc = "waiting"
                  /\ wpc' = "ready"
                  /\ UNCHANGED <<cached, server, control, jobs, job, todo, cur, fetched,
                                 fate>>

Exit == /\ wpc = "ready" /\ MustExit
        /\ wpc' = "exited"
        /\ UNCHANGED <<cached, server, control, jobs, job, todo, cur, fetched, fate>>

Take == /\ wpc = "ready" /\ ~MustExit /\ jobs # <<>>
        /\ job' = Oldest /\ jobs' = Tail(jobs)
        /\ wpc' = "usage"
        /\ UNCHANGED <<cached, server, control, todo, cur, fetched, fate>>

\* Variant: what is left of the page is kept.
JobIsOverKeepsJob == /\ wpc' = "ready"
                     /\ fate' = [fate EXCEPT ![job] = "done"]
                     /\ UNCHANGED <<job, todo, cur, fetched>>

\* ProcessJob returns: the loop of the thread comes round.
JobIsOver == /\ wpc' = "ready" /\ job' = NoClient
             /\ todo' = <<>> /\ cur' = NoPath /\ fetched' = 0
             /\ fate' = [fate EXCEPT ![job] = "done"]

GoOn(stage) == wpc' = stage /\ UNCHANGED <<job, todo, cur, fetched, fate>>

LookUsage == /\ wpc = "usage"
             /\ IF UsageTooHigh THEN JobIsOver ELSE GoOn("load")
             /\ UNCHANGED <<cached, server, control, jobs>>

\* ExtractResourceUrls: the link tags, then the script tags, then the img tags.
\* Each pattern stops once twice max_prefetch_resources URLs are there, but only
\* after a first match of its own.
AddUrl(a, u) ==
  IF a.full THEN a
  ELSE LET urls == IF u \in ToSet(a.urls) THEN a.urls ELSE Append(a.urls, u)
       IN [urls |-> urls, full |-> Len(urls) >= 2 * MaxResources]
Collected(found, tags) == FoldLeft(AddUrl, [urls |-> found, full |-> FALSE], tags).urls
Extracted ==
  [p \in Pages |-> Collected(Collected(Collected(<<>>, Links[p]["link"]),
                                      Links[p]["script"]),
                            Links[p]["img"])]

LookLoad == /\ wpc = "load"
            /\ IF Active > HeavyLoad THEN JobIsOver
               ELSE /\ wpc' = "next" /\ todo' = Extracted[File(job)]
                    /\ UNCHANGED <<job, cur, fetched, fate>>
            /\ UNCHANGED <<cached, server, control, jobs>>

\* Variant: the limit on stored resources is missed by one.
EnoughPlusOne == fetched > MaxResources

Enough == fetched >= MaxResources

\* The head of the loop: on to the next URL, or over.
NextUrl == /\ wpc = "next"
           /\ IF todo = <<>> \/ Enough \/ UsageTooHigh THEN JobIsOver
              ELSE /\ cur' = NormalizeDependentPath(Key(job), Head(todo))
                   /\ todo' = Tail(todo)
                   /\ wpc' = IF cur' = NoPath THEN "next" ELSE "contains"
                   /\ UNCHANGED <<job, fetched, fate>>
           /\ UNCHANGED <<cached, server, control, jobs>>

LookContains == /\ wpc = "contains"
                /\ GoOn(IF cur \in DOMAIN cached THEN "next" ELSE "size")
                /\ UNCHANGED <<cached, server, control, jobs>>

\* Outside the document root, missing, or larger than max_prefetch_file_bytes.
LookSize == /\ wpc = "size"
            /\ GoOn("next") \/ GoOn("read")
            /\ UNCHANGED <<cached, server, control, jobs>>

ReadResource == /\ wpc = "read"
                /\ GoOn("next") \/ GoOn("put")
                /\ UNCHANGED <<cached, server, control, jobs>>

PutResource == /\ wpc = "put"
               /\ \/ PutRefused /\ UNCHANGED fetched
                  \/ PutStored(cur, ResolveRequestPath(cur)) /\ fetched' = fetched + 1
               /\ wpc' = "next"
               /\ UNCHANGED <<server, control, jobs, job, todo, cur, fate>>

\* An exception out of ProcessJob is caught, and the job is over.
JobThrows == /\ wpc \in Looking
             /\ JobIsOver
             /\ UNCHANGED <<cached, server, control, jobs>>

Process == \/ LookUsage \/ LookLoad \/ NextUrl \/ LookContains \/ LookSize
           \/ ReadResource \/ PutResource
Loop == Sleep \/ Exit \/ Take
------------------------------------------------------------------------------
Next == \/ \E c \in Clients : Accept(c) \/ Handle(c)
        \/ \E c \in Clients, target \in Targets : Begin(c, target)
        \/ Start \/ StopBegin \/ StopNotify \/ StopJoin \/ StopReset
        \/ Loop \/ Process \/ JobThrows \/ SpuriousWakeup

Spec == Init /\ [][Next]_vars

\* The prefetcher's thread keeps running, and Stop with it.
FairSpec == /\ Spec
            /\ WF_vars(Loop \/ Process)
            /\ WF_vars(StopNotify \/ StopJoin \/ StopReset)
------------------------------------------------------------------------------
(* Properties *)

TypeOK == /\ DOMAIN cached \subseteq Paths
          /\ \A k \in DOMAIN cached : cached[k] \in Seq(STRING)
          /\ hpc \in [Clients -> Stages]
          /\ path \in [Clients -> Paths \cup {NoPath}]
          /\ started \in BOOLEAN /\ stopping \in BOOLEAN
          /\ ctl \in {"down", "up", "failed", "notify", "join", "reset"}
          /\ starts \in 0..MaxStarts
          /\ jobs \in Seq(Clients)
          /\ wpc \in ThreadStages
          /\ job \in Clients \cup {NoClient}
          /\ wpc \in Looking <=> job # NoClient
          /\ todo \in Seq(Seq(STRING))
          /\ cur \in Paths \cup {NoPath}
          /\ fetched \in Nat
          /\ fate \in [Clients -> {"new", "accepted", "done"}]

\* The prefetcher's thread never sleeps over work: while it waits the queue is
\* empty, and once Stop has notified it does not wait any more.
NeverSleepsOverWork == wpc = "waiting" => jobs = <<>> /\ ctl \notin {"join", "reset"}

\* What one page can cost: never more than MaxResources contents are stored for it,
\* and never more than two URLs beyond twice that are looked at, each once.  Where
\* MaxResources is zero a first URL is there all the same.
PageIsBounded == /\ fetched <= MaxResources
                 /\ Len(todo) <= (IF MaxResources = 0 THEN 1 ELSE 2 * MaxResources) + 2
                 /\ \A i, k \in DOMAIN todo : todo[i] = todo[k] => i = k

\* However many handlers schedule at once, at most MaxQueue pages and the one the
\* thread is at are not done: that is all Stop ever has to wait for.
BacklogIsBounded == Cardinality({c \in Clients : fate[c] = "accepted"}) <= MaxQueue + 1

\* A hit is the client's own file: whoever has stored it, a handler for another way to
\* write the path or the prefetcher for a link, what is found under the key of a
\* request was read from the file that the path of the request resolves to.
HitIsTheFile == \A c \in Clients :
                  path[c] # NoPath /\ Key(c) \in DOMAIN cached => cached[Key(c)] = File(c)

\* The prefetcher is a JobPool with one slot: the pages scheduled are looked
\* through in order, each once, and Stop leaves none of them behind.
Phase == IF ~started THEN "closed" ELSE IF stopping THEN "closing" ELSE "open"
OneSlot == {"thread"}
Queue == INSTANCE JobPool WITH Jobs <- Clients, Slots <- OneSlot, Idle <- NoClient,
           pending <- jobs, active <- [s \in OneSlot |-> job], phase <- Phase
ImplementsJobPool == Queue!Spec

\* Every page scheduled is looked through in the end.
ScheduledPagesAreDone == \A c \in Clients : fate[c] = "accepted" ~> fate[c] = "done"

\* Stop of the prefetcher returns.
PrefetcherStops == ctl = "notify" ~> ctl = "down"

\* README: internal monitoring and metrics routes are not stored in the cache.
MonitoringIsNotCached == \A k \in DOMAIN cached : ~IsInternalMonitoringPath(k)
==============================================================================
