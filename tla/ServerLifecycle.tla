--------------------------- MODULE ServerLifecycle ---------------------------
(***************************************************************************)
(* server/http_server.cpp, Start, Stop and AcceptLoop, and main.cpp: the   *)
(* main thread, the accept thread, and what they start and stop.  The      *)
(* worker pool and the prefetcher are two instances of JobPool, which      *)
(* ThreadPool and StaticServing are shown to implement: the tasks of the   *)
(* first are the clients, the jobs of the second the pages served to them. *)
(***************************************************************************)
EXTENDS Naturals, Sequences, FiniteSets

CONSTANTS Clients,   \* the connections clients make, each named by its descriptor
          Workers,   \* the worker threads of the pool
          NoClient   \* no connection

ASSUME LifecycleAssumption == /\ IsFiniteSet(Clients) /\ NoClient \notin Clients
                              /\ IsFiniteSet(Workers) /\ Workers # {}

VARIABLES mpc,        \* where the main thread is
          failing,    \* Start is undoing what it has done
          orphans,    \* worker threads nobody will join are left in the pool
          running,    \* running_
          listening,  \* the listening socket is open
          apc,        \* where the accept thread is
          held,       \* the connection it has accepted and not handed over
          conn,       \* what has become of each connection
          pending, active, fate, phase,  \* the pool
          pages, looking, looked, ears   \* the prefetcher

pool == <<pending, active, fate, phase>>
prefetcher == <<pages, looking, looked, ears>>
main == <<mpc, failing, orphans>>
acceptor == <<apc, held>>
vars == <<main, running, listening, acceptor, conn, pool, prefetcher>>

Pool == INSTANCE JobPool WITH Jobs <- Clients, Slots <- Workers, Idle <- NoClient
OneThread == {"thread"}
Prefetch == INSTANCE JobPool WITH Jobs <- Clients, Slots <- OneThread, Idle <- NoClient,
              pending <- pages, active <- looking, fate <- looked, phase <- ears

StartStages == {"listen", "startPool", "startPrefetcher", "launch"}
StopStages == {"closeListener", "joinAcceptor", "stopPool", "stopPrefetcher"}
MainStages == StartStages \cup StopStages \cup {"serving", "stopped", "failed",
                                                "terminated"}

Init == /\ mpc = "listen" /\ failing = FALSE /\ orphans = FALSE
        /\ running = FALSE /\ listening = FALSE
        /\ apc = "none" /\ held = NoClient
        /\ conn = [c \in Clients |-> "new"]
        /\ Pool!Init /\ Prefetch!Init
------------------------------------------------------------------------------
(* The main thread: main, HttpServer::Start *)

\* The order of the steps of HttpServer::Stop, and of the catch block of Start.
\* Variant: Stop stops the pool before it joins the accept thread.
PoolFirst == [closeListener |-> "stopPool", stopPool |-> "joinAcceptor",
              joinAcceptor |-> "stopPrefetcher", stopPrefetcher |-> "stopped"]

StopOrder == [closeListener |-> "joinAcceptor", joinAcceptor |-> "stopPool",
              stopPool |-> "stopPrefetcher", stopPrefetcher |-> "stopped"]
UndoOrder == [closeListener |-> "stopPrefetcher", stopPrefetcher |-> "stopPool",
              stopPool |-> "failed"]
After == (IF failing THEN UndoOrder ELSE StopOrder)[mpc]

\* A step of Start succeeds, or throws into its catch block.
Undo == mpc' = "closeListener" /\ failing' = TRUE

\* CreateListeningSocket throws before anything needs undoing.
Listen == /\ mpc = "listen"
          /\ \/ mpc' = "startPool" /\ listening' = TRUE
             \/ mpc' = "failed" /\ UNCHANGED listening
          /\ UNCHANGED <<failing, orphans, running, acceptor, conn, pool, prefetcher>>

\* ThreadPool::Start may throw with some of its threads created.
StartPool == /\ mpc = "startPool"
             /\ \/ /\ Pool!Open
                   /\ mpc' = "startPrefetcher" /\ UNCHANGED <<failing, orphans>>
                \/ /\ Undo
                   /\ orphans' \in IF Cardinality(Workers) > 1 THEN BOOLEAN ELSE {FALSE}
                   /\ UNCHANGED pool
             /\ UNCHANGED <<running, listening, acceptor, conn, prefetcher>>

StartPrefetcher == /\ mpc = "startPrefetcher"
                   /\ \/ Prefetch!Open /\ mpc' = "launch" /\ UNCHANGED failing
                      \/ Undo /\ UNCHANGED prefetcher
                   /\ UNCHANGED <<orphans, running, listening, acceptor, conn, pool>>

\* running_ is set and the accept thread created.
Launch == /\ mpc = "launch"
          /\ running' = TRUE
          /\ \/ mpc' = "serving" /\ apc' = "check" /\ UNCHANGED failing
             \/ Undo /\ UNCHANGED apc
          /\ UNCHANGED <<orphans, listening, held, conn, pool, prefetcher>>
------------------------------------------------------------------------------
(* The main thread: HttpServer::Stop, and the catch block of Start *)

\* A signal ends the waiting loop of main, which calls Stop.
Shutdown == /\ mpc = "serving"
            /\ running' = FALSE
            /\ mpc' = "closeListener"
            /\ UNCHANGED <<failing, orphans, listening, acceptor, conn, pool, prefetcher>>

\* With the socket go the connections that nobody has accepted.
CloseListener == /\ mpc = "closeListener"
                 /\ listening' = FALSE
                 /\ conn' = [c \in Clients |-> IF conn[c] = "backlog" THEN "reset"
                                               ELSE conn[c]]
                 /\ mpc' = After
                 /\ UNCHANGED <<failing, orphans, running, acceptor, pool, prefetcher>>

JoinAcceptor == /\ mpc = "joinAcceptor" /\ apc = "exited"
                /\ apc' = "none"
                /\ mpc' = After
                /\ UNCHANGED <<failing, orphans, running, listening, held, conn, pool,
                               prefetcher>>

\* Stop returns when the joins have, at once if there is nothing to stop.  The last
\* step of the catch block resets running_; then ~HttpServer destroys the pool.
StopPool == /\ mpc = "stopPool"
            /\ \/ Pool!Close /\ UNCHANGED <<mpc, running>>
               \/ /\ Pool!Drained \/ (phase = "closed" /\ UNCHANGED pool)
                  /\ mpc' = IF orphans THEN "terminated" ELSE After
                  /\ running' = IF failing THEN FALSE ELSE running
            /\ UNCHANGED <<failing, orphans, listening, acceptor, conn, prefetcher>>

\* Variant: Stop does not wait for the prefetcher's thread.
StopPrefetcherAtOnce ==
  /\ mpc = "stopPrefetcher"
  /\ mpc' = After
  /\ UNCHANGED <<failing, orphans, running, listening, acceptor, conn, pool, prefetcher>>

StopPrefetcher == /\ mpc = "stopPrefetcher"
                  /\ \/ Prefetch!Close /\ UNCHANGED mpc
                     \/ /\ Prefetch!Drained \/ (ears = "closed" /\ UNCHANGED prefetcher)
                        /\ mpc' = After
                  /\ UNCHANGED <<failing, orphans, running, listening, acceptor, conn,
                                 pool>>
------------------------------------------------------------------------------
(* The accept thread and the kernel behind it *)

Connect(c) == /\ listening /\ conn[c] = "new"
              /\ conn' = [conn EXCEPT ![c] = "backlog"]
              /\ UNCHANGED <<main, running, listening, acceptor, pool, prefetcher>>

CheckRunning == /\ apc = "check"
                /\ apc' = IF running THEN "accept" ELSE "exited"
                /\ UNCHANGED <<main, running, listening, held, conn, pool, prefetcher>>

Accept(c) == /\ apc = "accept" /\ listening /\ conn[c] = "backlog"
             /\ conn' = [conn EXCEPT ![c] = "held"]
             /\ held' = c /\ apc' = "dispatch"
             /\ UNCHANGED <<main, running, listening, pool, prefetcher>>

\* Variant: a failed accept is always tried again.
TryAgain == "accept"

AfterFailure == IF running THEN "check" ELSE "exited"

\* accept fails: the socket is closed, under the thread that sleeps in it or before it
\* has read listen_fd_, or EINTR, or an error of the connection or of the process.
AcceptFails == /\ apc = "accept"
               /\ apc' = AfterFailure
               /\ UNCHANGED <<main, running, listening, held, conn, pool, prefetcher>>

\* Variant: the loop keeps the connection it has handed over.
DispatchKeepsHeld == /\ apc = "dispatch"
                     /\ Pool!Accept(held) /\ conn' = [conn EXCEPT ![held] = "given"]
                     /\ apc' = "check"
                     /\ UNCHANGED <<main, running, listening, held, prefetcher>>

\* Enqueue; if it throws the connection is closed here.
Dispatch == /\ apc = "dispatch"
            /\ \/ Pool!Accept(held) /\ conn' = [conn EXCEPT ![held] = "given"]
               \/ Pool!Refuse(held) /\ conn' = [conn EXCEPT ![held] = "closed"]
            /\ held' = NoClient /\ apc' = "check"
            /\ UNCHANGED <<main, running, listening, prefetcher>>
------------------------------------------------------------------------------
(* The threads of the pool and of the prefetcher *)

TakeClient(w) == /\ Pool!Begin(w)
                 /\ UNCHANGED <<main, running, listening, acceptor, conn, prefetcher>>

\* While it is handled a client may be served a page, which is scheduled if the
\* prefetcher takes it.
ServePage(w) == /\ active[w] # NoClient
                /\ Prefetch!Accept(active[w])
                /\ UNCHANGED <<main, running, listening, acceptor, conn, pool>>

\* Variant: a handler returns without its ConnectionGuard.
FinishUnguarded(w) == /\ Pool!Finish(w)
                      /\ UNCHANGED <<main, running, listening, acceptor, conn, prefetcher>>

\* HandleClient returns, and its ConnectionGuard closes the connection.
FinishClient(w) == /\ Pool!Finish(w)
                   /\ conn' = [conn EXCEPT ![active[w]] = "closed"]
                   /\ UNCHANGED <<main, running, listening, acceptor, prefetcher>>

LookThrough(s) == /\ Prefetch!Begin(s) \/ Prefetch!Finish(s)
                  /\ UNCHANGED <<main, running, listening, acceptor, conn, pool>>
------------------------------------------------------------------------------
Starting == Listen \/ StartPool \/ StartPrefetcher \/ Launch
Stopping == CloseListener \/ JoinAcceptor \/ StopPool \/ StopPrefetcher

Next == \/ Starting \/ Shutdown \/ Stopping
        \/ \E c \in Clients : Connect(c) \/ Accept(c)
        \/ CheckRunning \/ AcceptFails \/ Dispatch
        \/ \E w \in Workers : TakeClient(w) \/ ServePage(w) \/ FinishClient(w)
        \/ \E s \in OneThread : LookThrough(s)

Spec == Init /\ [][Next]_vars

\* Threads keep running; accept returns once its socket is closed; the pool and the
\* prefetcher carry out what they have accepted.  Nothing obliges accept to return
\* otherwise, a client to connect, or anyone to send a signal.
FairSpec == /\ Spec
            /\ WF_vars(Stopping)
            /\ WF_vars(CheckRunning \/ Dispatch \/ (AcceptFails /\ ~listening))
            /\ \A w \in Workers : WF_vars(TakeClient(w)) /\ WF_vars(FinishClient(w))
            /\ \A s \in OneThread : WF_vars(LookThrough(s))
------------------------------------------------------------------------------
(* Properties *)

TypeOK == /\ mpc \in MainStages /\ failing \in BOOLEAN /\ orphans \in BOOLEAN
          /\ running \in BOOLEAN /\ listening \in BOOLEAN
          /\ apc \in {"none", "check", "accept", "dispatch", "exited"}
          /\ held \in Clients \cup {NoClient}
          /\ apc = "dispatch" <=> held # NoClient
          /\ conn \in [Clients -> {"new", "backlog", "reset", "held", "given", "closed"}]
          /\ pending \in Seq(Clients) /\ pages \in Seq(Clients)
          /\ active \in [Workers -> Clients \cup {NoClient}]
          /\ looking \in [OneThread -> Clients \cup {NoClient}]
          /\ fate \in [Clients -> {"new", "accepted", "refused", "done"}]
          /\ looked \in [Clients -> {"new", "accepted", "done"}]
          /\ {phase, ears} \subseteq {"open", "closing", "closed"}

\* No accepted connection is turned away, although clients are accepted right up to
\* the moment the socket is closed: Stop lets the accept thread finish before it
\* stops the pool, so Enqueue never throws there.
NobodyIsRefused == \A c \in Clients : fate[c] # "refused"

\* What the pool holds is what the accept thread has given it, and a connection stays
\* open exactly as long as somebody has it: none is leaked and none closed twice.
EachConnectionHasOneOwner ==
  \A c \in Clients : /\ conn[c] = "held" <=> held = c
                     /\ conn[c] = "given" <=> fate[c] = "accepted"
                     /\ fate[c] \in {"done", "refused"} => conn[c] = "closed"

\* When Stop has returned, or a failed Start has cleaned up, nothing runs and nothing
\* is open: no thread will touch the cache, metrics and logger that are destroyed next.
Quiet == /\ ~running /\ ~listening
         /\ apc = "none"
         /\ phase = "closed" /\ ears = "closed"
         /\ \A c \in Clients : conn[c] \notin {"backlog", "held", "given"}
         /\ \A c \in Clients : looked[c] # "accepted"
StopLeavesNothing == mpc \in {"stopped", "failed"} => Quiet

\* Stop returns although it closes the socket under a thread that may be anywhere in
\* its loop, and every client and page accepted before it is still dealt with.
ServerStops == mpc = "closeListener" ~> mpc \in {"stopped", "failed", "terminated"}

\* Every connection the server accepts is closed in the end, shutdown or not.
AcceptedIsClosed == \A c \in Clients : conn[c] = "held" ~> conn[c] = "closed"
==============================================================================
