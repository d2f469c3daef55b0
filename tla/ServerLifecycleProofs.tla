------------------------ MODULE ServerLifecycleProofs ------------------------
(***************************************************************************)
(* Theorems about ServerLifecycle, for any connections and worker threads. *)
(***************************************************************************)
EXTENDS ServerLifecycle, FiniteSetTheorems, TLAPS

\* What the two pools promise, of which JobPoolProofs has the consequences.
P == INSTANCE JobPoolProofs WITH Jobs <- Clients, Slots <- Workers, Idle <- NoClient
Q == INSTANCE JobPoolProofs WITH Jobs <- Clients, Slots <- OneThread, Idle <- NoClient,
       pending <- pages, active <- looking, fate <- looked, phase <- ears

PoolsInv == P!JobsInv /\ Q!JobsInv

LEMMA PoolStep ==
  ASSUME P!JobsInv, Pool!Next \/ UNCHANGED pool PROVE P!JobsInv'
  BY P!StepJobs, LifecycleAssumption
  DEF P!Next, P!Accept, P!Refuse, P!Begin, P!Finish, P!Open, P!Close, P!Drained, P!vars,
      pool, Pool!Next, Pool!Accept, Pool!Refuse, Pool!Begin, Pool!Finish, Pool!Open,
      Pool!Close, Pool!Drained

LEMMA PrefetchStep ==
  ASSUME Q!JobsInv, Prefetch!Next \/ UNCHANGED prefetcher PROVE Q!JobsInv'
  BY Q!StepJobs, LifecycleAssumption
  DEF Q!Next, Q!Accept, Q!Refuse, Q!Begin, Q!Finish, Q!Open, Q!Close, Q!Drained, Q!vars,
      prefetcher, Prefetch!Next, Prefetch!Accept, Prefetch!Refuse, Prefetch!Begin,
      Prefetch!Finish, Prefetch!Open, Prefetch!Close, Prefetch!Drained

LEMMA InitPools == Init => PoolsInv
  BY P!InitJobs, Q!InitJobs, LifecycleAssumption
  DEF Init, PoolsInv, Pool!Init, Prefetch!Init, P!Init, Q!Init

\* Where the main thread is says what it has started and not yet stopped.
StageInv ==
  /\ failing => mpc \in {"closeListener", "stopPrefetcher", "stopPool", "failed", "terminated"}
  /\ orphans => failing
  /\ mpc \in {"startPrefetcher", "launch"} => phase = "open"
  /\ apc # "none" => /\ ~failing /\ phase = "open"
                     /\ mpc \in {"serving", "closeListener", "joinAcceptor"}
  /\ running => IF failing THEN mpc \in {"closeListener", "stopPrefetcher", "stopPool"}
                ELSE mpc = "serving"
  /\ listening => mpc \in {"startPool", "startPrefetcher", "launch", "serving",
                           "closeListener"}
  /\ phase # "closed" =>
       mpc \in IF failing THEN {"closeListener", "stopPrefetcher", "stopPool"}
               ELSE {"startPrefetcher", "launch", "serving", "closeListener",
                     "joinAcceptor", "stopPool"}
  /\ ears # "closed" =>
       mpc \in IF failing THEN {"closeListener", "stopPrefetcher"}
               ELSE {"launch", "serving", "closeListener", "joinAcceptor", "stopPool",
                     "stopPrefetcher"}

\* Who has a connection, and that none is turned away.
ConnInv ==
  \A c \in Clients : /\ conn[c] = "backlog" => listening
                     /\ conn[c] = "held" <=> held = c
                     /\ conn[c] = "given" <=> fate[c] = "accepted"
                     /\ fate[c] = "done" => conn[c] = "closed"
                     /\ fate[c] # "refused"

LifeInv == TypeOK /\ PoolsInv /\ StageInv /\ ConnInv

\* What the invariants of the two pools say, as far as the steps below need it.
LEMMA PoolsTyped ==
  ASSUME PoolsInv
  PROVE  /\ pending \in Seq(Clients) /\ pages \in Seq(Clients)
         /\ active \in [Workers -> Clients \cup {NoClient}]
         /\ looking \in [OneThread -> Clients \cup {NoClient}]
         /\ fate \in [Clients -> {"new", "accepted", "refused", "done"}]
         /\ {phase, ears} \subseteq {"open", "closing", "closed"}
         /\ \A w \in Workers : active[w] # NoClient => fate[active[w]] = "accepted"
         /\ phase = "closed" => \A c \in Clients : fate[c] # "accepted"
         /\ ears = "closed" => \A c \in Clients : looked[c] # "accepted"
  BY DEF PoolsInv, P!JobsInv, Q!JobsInv, P!PoolTypeOK, Q!PoolTypeOK, P!InOnePlace,
         P!ClosedIsEmpty, Q!ClosedIsEmpty, P!Begun

LEMMA InitLife == Init => LifeInv
<1> SUFFICES ASSUME Init PROVE LifeInv
  OBVIOUS
<1>1. PoolsInv
  BY InitPools
<1>2. TypeOK
  <2>1. mpc \in MainStages
    BY DEF Init, MainStages, StartStages
  <2> QED BY <2>1, PoolsTyped, <1>1 DEF Init, Prefetch!Init, TypeOK
<1>3. StageInv /\ ConnInv
  BY LifecycleAssumption DEF Init, Pool!Init, Prefetch!Init, StageInv, ConnInv
<1> QED BY <1>1, <1>2, <1>3 DEF LifeInv

\* Every step is one of the pool and one of the prefetcher, or leaves them alone.
LEMMA StepsOfPools ==
  ASSUME LifeInv, [Next]_vars
  PROVE  /\ Pool!Next \/ UNCHANGED pool
         /\ Prefetch!Next \/ UNCHANGED prefetcher
<1> USE DEF LifeInv
<1>1. CASE Starting
  BY <1>1 DEF Starting, Listen, StartPool, StartPrefetcher, Launch, Pool!Next, Prefetch!Next
<1>2. CASE Shutdown
  BY <1>2 DEF Shutdown
<1>3. CASE Stopping
  BY <1>3 DEF Stopping, CloseListener, JoinAcceptor, StopPool, StopPrefetcher, Pool!Next,
              Prefetch!Next
<1>4. ASSUME NEW c \in Clients, Connect(c) \/ Accept(c)
      PROVE  UNCHANGED pool /\ UNCHANGED prefetcher
  BY <1>4 DEF Connect, Accept
<1>5. CASE CheckRunning \/ AcceptFails
  BY <1>5 DEF CheckRunning, AcceptFails
<1>6. CASE Dispatch
  <2>1. held \in Clients
    BY <1>6 DEF Dispatch, TypeOK
  <2> QED BY <1>6, <2>1 DEF Dispatch, Pool!Next
<1>7. ASSUME NEW w \in Workers, TakeClient(w) \/ ServePage(w) \/ FinishClient(w)
      PROVE  /\ Pool!Next \/ UNCHANGED pool
             /\ Prefetch!Next \/ UNCHANGED prefetcher
  <2>1. active[w] # NoClient => active[w] \in Clients
    BY DEF TypeOK
  <2> QED BY <1>7, <2>1 DEF TakeClient, ServePage, FinishClient, Pool!Next, Prefetch!Next
<1>8. ASSUME NEW s \in OneThread, LookThrough(s)
      PROVE  UNCHANGED pool /\ Prefetch!Next
  BY <1>8 DEF LookThrough, Prefetch!Next
<1>9. CASE UNCHANGED vars
  BY <1>9 DEF vars
<1> QED BY <1>1, <1>2, <1>3, <1>4, <1>5, <1>6, <1>7, <1>8, <1>9 DEF Next

LEMMA StepPools == LifeInv /\ [Next]_vars => PoolsInv'
  BY StepsOfPools, PoolStep, PrefetchStep DEF LifeInv, PoolsInv

\* The main thread starts.
LEMMA StartingLife ==
  ASSUME LifeInv, Starting PROVE (TypeOK /\ StageInv /\ ConnInv)'
<1> USE DEF LifeInv
<1>1. mpc' \in MainStages
  BY DEF Starting, Listen, StartPool, StartPrefetcher, Launch, Undo, MainStages, StartStages,
         StopStages
<1> USE DEF pool, prefetcher, acceptor
<1>2. CASE Listen
  <2>1. TypeOK'
    BY <1>1, <1>2 DEF Listen, TypeOK
  <2>2. StageInv' /\ ConnInv'
    BY <1>2 DEF Listen, StageInv, ConnInv
  <2> QED BY <2>1, <2>2
<1>3. CASE StartPool
  <2>1. TypeOK'
    BY <1>1, <1>3 DEF StartPool, Undo, Pool!Open, TypeOK
  <2>2. StageInv' /\ ConnInv'
    <3>1. ~failing /\ apc = "none" /\ ~running /\ phase = "closed" /\ ears = "closed"
      BY <1>3 DEF StartPool, StageInv
    <3>2. CASE Pool!Open /\ mpc' = "startPrefetcher" /\ UNCHANGED <<failing, orphans>>
      BY <1>3, <3>1, <3>2 DEF StartPool, Pool!Open, StageInv, ConnInv
    <3>3. CASE Undo /\ UNCHANGED pool
      BY <1>3, <3>1, <3>3 DEF StartPool, Undo, StageInv, ConnInv
    <3> QED BY <1>3, <3>2, <3>3 DEF StartPool
  <2> QED BY <2>1, <2>2
<1>4. CASE StartPrefetcher
  <2>1. TypeOK'
    BY <1>1, <1>4 DEF StartPrefetcher, Undo, Prefetch!Open, TypeOK
  <2>2. StageInv' /\ ConnInv'
    BY <1>4 DEF StartPrefetcher, Undo, Prefetch!Open, StageInv, ConnInv
  <2> QED BY <2>1, <2>2
<1>5. CASE Launch
  <2>1. TypeOK'
    <3>1. apc = "none"
      BY <1>5 DEF Launch, StageInv
    <3> QED BY <1>1, <1>5, <3>1 DEF Launch, Undo, TypeOK
  <2>2. StageInv' /\ ConnInv'
    <3>1. ~failing /\ phase = "open" /\ ~orphans /\ apc = "none"
      BY <1>5 DEF Launch, StageInv
    <3>2. CASE mpc' = "serving" /\ apc' = "check" /\ UNCHANGED failing
      BY <1>5, <3>1, <3>2 DEF Launch, StageInv, ConnInv
    <3>3. CASE Undo /\ UNCHANGED apc
      BY <1>5, <3>1, <3>3 DEF Launch, Undo, StageInv, ConnInv
    <3> QED BY <1>5, <3>2, <3>3 DEF Launch
  <2> QED BY <2>1, <2>2
<1> QED BY <1>2, <1>3, <1>4, <1>5 DEF Starting

\* It stops, or undoes what it has started.
LEMMA StoppingLife ==
  ASSUME LifeInv, Shutdown \/ Stopping PROVE (TypeOK /\ StageInv /\ ConnInv)'
<1> USE DEF LifeInv, MainStages, StopStages
<1>1. CASE Shutdown
  BY <1>1 DEF Shutdown, TypeOK, StageInv, ConnInv, pool, prefetcher, acceptor
<1>2. CASE CloseListener
  <2>1. mpc' \in {"joinAcceptor", "stopPrefetcher"} /\ (mpc' = "joinAcceptor" <=> ~failing)
    BY <1>2 DEF CloseListener, After, StopOrder, UndoOrder, TypeOK
  <2>2. TypeOK' /\ StageInv'
    BY <1>2, <2>1 DEF CloseListener, TypeOK, StageInv, pool, prefetcher, acceptor
  <2>3. ConnInv'
    BY <1>2 DEF CloseListener, TypeOK, ConnInv, pool, acceptor
  <2> QED BY <2>2, <2>3
<1>3. CASE JoinAcceptor
  <2>1. mpc' = "stopPool"
    BY <1>3 DEF JoinAcceptor, After, StopOrder, StageInv
  <2> QED BY <1>3, <2>1 DEF JoinAcceptor, TypeOK, StageInv, ConnInv, pool, prefetcher
<1>4. CASE StopPool
  <2>1. \/ mpc' = mpc /\ phase = "open" /\ phase' = "closing" /\ running' = running
        \/ /\ mpc' = IF orphans THEN "terminated"
                     ELSE IF failing THEN "failed" ELSE "stopPrefetcher"
           /\ phase' = "closed"
           /\ running' = IF failing THEN FALSE ELSE running
    BY <1>4 DEF StopPool, After, StopOrder, UndoOrder, Pool!Close, Pool!Drained, pool
  <2>2. UNCHANGED <<pending, active, fate>>
    BY <1>4 DEF StopPool, Pool!Close, Pool!Drained, pool
  <2> QED BY <1>4, <2>1, <2>2 DEF StopPool, TypeOK, StageInv, ConnInv, prefetcher, acceptor
<1>5. CASE StopPrefetcher
  <2>1. \/ mpc' = mpc /\ ears' = "closing" /\ ears = "open"
        \/ mpc' = (IF failing THEN "stopPool" ELSE "stopped") /\ ears' = "closed"
    BY <1>5 DEF StopPrefetcher, After, StopOrder, UndoOrder, Prefetch!Close,
                Prefetch!Drained, prefetcher
  <2>2. UNCHANGED <<pages, looking, looked>>
    BY <1>5 DEF StopPrefetcher, Prefetch!Close, Prefetch!Drained, prefetcher
  <2> QED BY <1>5, <2>1, <2>2 DEF StopPrefetcher, TypeOK, StageInv, ConnInv, pool, acceptor
<1> QED BY <1>1, <1>2, <1>3, <1>4, <1>5 DEF Stopping

\* The accept thread: while it runs the pool is open, so no connection is turned away.
LEMMA AcceptingLife ==
  ASSUME LifeInv,
         (\E c \in Clients : Connect(c) \/ Accept(c)) \/ CheckRunning \/ AcceptFails \/ Dispatch
  PROVE  (TypeOK /\ StageInv /\ ConnInv)'
<1> USE DEF LifeInv
<1>1. ASSUME NEW c \in Clients, Connect(c) PROVE (TypeOK /\ StageInv /\ ConnInv)'
  BY <1>1 DEF Connect, TypeOK, StageInv, ConnInv, pool, prefetcher, acceptor, main
<1>2. ASSUME NEW c \in Clients, Accept(c) PROVE (TypeOK /\ StageInv /\ ConnInv)'
  BY <1>2, LifecycleAssumption
  DEF Accept, TypeOK, StageInv, ConnInv, pool, prefetcher, main
<1>3. CASE CheckRunning
  BY <1>3 DEF CheckRunning, TypeOK, StageInv, ConnInv, pool, prefetcher, main
<1>4. CASE AcceptFails
  BY <1>4 DEF AcceptFails, AfterFailure, TypeOK, StageInv, ConnInv, pool, prefetcher, main
<1>5. CASE Dispatch
  <2>1. held \in Clients /\ phase = "open"
    BY <1>5 DEF Dispatch, TypeOK, StageInv
  <2>2. Pool!Accept(held) /\ conn' = [conn EXCEPT ![held] = "given"]
    BY <1>5, <2>1 DEF Dispatch, Pool!Refuse
  <2>3. pending' \in Seq(Clients)
    BY <2>1, <2>2 DEF Pool!Accept, TypeOK
  <2>4. TypeOK' /\ StageInv'
    BY <1>5, <2>1, <2>2, <2>3
    DEF Dispatch, Pool!Accept, TypeOK, StageInv, prefetcher, main
  <2>5. ConnInv'
    BY <1>5, <2>1, <2>2, LifecycleAssumption DEF Dispatch, Pool!Accept, TypeOK, ConnInv
  <2> QED BY <2>4, <2>5
<1> QED BY <1>1, <1>2, <1>3, <1>4, <1>5

\* The threads of the pool and of the prefetcher.
LEMMA ThreadsLife ==
  ASSUME LifeInv,
         \/ \E w \in Workers : TakeClient(w) \/ ServePage(w) \/ FinishClient(w)
         \/ \E s \in OneThread : LookThrough(s)
  PROVE  (TypeOK /\ StageInv /\ ConnInv)'
<1> USE DEF LifeInv
<1>1. PoolsInv'
  BY StepPools DEF Next
<1>2. ASSUME NEW w \in Workers, TakeClient(w) PROVE (TypeOK /\ StageInv /\ ConnInv)'
  <2>1. pending' \in Seq(Clients) /\ active' \in [Workers -> Clients \cup {NoClient}]
    BY <1>1, PoolsTyped DEF PoolsInv, P!JobsInv, P!PoolTypeOK
  <2> QED BY <1>2, <2>1 DEF TakeClient, Pool!Begin, TypeOK, StageInv, ConnInv, prefetcher,
                            acceptor, main
<1>3. ASSUME NEW w \in Workers, ServePage(w) PROVE (TypeOK /\ StageInv /\ ConnInv)'
  <2>1. active[w] \in Clients
    BY <1>3 DEF ServePage, TypeOK
  <2>2. pages' \in Seq(Clients)
    BY <1>1 DEF PoolsInv, Q!JobsInv, Q!PoolTypeOK
  <2> QED BY <1>3, <2>1, <2>2 DEF ServePage, Prefetch!Accept, TypeOK, StageInv, ConnInv,
                                  pool, acceptor, main
<1>4. ASSUME NEW w \in Workers, FinishClient(w) PROVE (TypeOK /\ StageInv /\ ConnInv)'
  <2>1. active[w] \in Clients /\ fate[active[w]] = "accepted" /\ conn[active[w]] = "given"
    BY <1>4, PoolsTyped DEF FinishClient, Pool!Finish, TypeOK, ConnInv
  <2>2. TypeOK' /\ StageInv'
    BY <1>4, <2>1 DEF FinishClient, Pool!Finish, TypeOK, StageInv, prefetcher, acceptor,
                      main
  <2>3. ConnInv'
    BY <1>4, <2>1 DEF FinishClient, Pool!Finish, TypeOK, ConnInv, acceptor
  <2> QED BY <2>2, <2>3
<1>5. ASSUME NEW s \in OneThread, LookThrough(s) PROVE (TypeOK /\ StageInv /\ ConnInv)'
  <2>1. pages' \in Seq(Clients) /\ looking' \in [OneThread -> Clients \cup {NoClient}]
    BY <1>1 DEF PoolsInv, Q!JobsInv, Q!PoolTypeOK
  <2>2. looked' \in [Clients -> {"new", "accepted", "done"}]
    BY <1>5 DEF LookThrough, Prefetch!Begin, Prefetch!Finish, TypeOK
  <2>3. ears' = ears
    BY <1>5 DEF LookThrough, Prefetch!Begin, Prefetch!Finish
  <2> QED BY <1>5, <2>1, <2>2, <2>3 DEF LookThrough, TypeOK, StageInv, ConnInv, pool,
                                        acceptor, main
<1> QED BY <1>2, <1>3, <1>4, <1>5

LEMMA StepLife == LifeInv /\ [Next]_vars => LifeInv'
<1> SUFFICES ASSUME LifeInv, [Next]_vars PROVE (TypeOK /\ StageInv /\ ConnInv)'
  BY StepPools DEF LifeInv
<1>1. CASE UNCHANGED vars
  BY <1>1 DEF LifeInv, vars, main, acceptor, pool, prefetcher, TypeOK, StageInv, ConnInv
<1> QED BY <1>1, StartingLife, StoppingLife, AcceptingLife, ThreadsLife DEF Next

LEMMA Life == Spec => []LifeInv
  BY InitLife, StepLife, PTL DEF Spec

\* The server's state is always of its type; the accept thread has a connection in hand
\* exactly between accept and Enqueue.
THEOREM LifecycleTyping == Spec => []TypeOK
<1>1. LifeInv => TypeOK
  BY DEF LifeInv
<1> QED BY <1>1, Life, PTL

\* However many connections come while the server stops, Enqueue throws for none of them.
THEOREM NobodyIsTurnedAway == Spec => []NobodyIsRefused
<1>1. LifeInv => NobodyIsRefused
  BY DEF LifeInv, ConnInv, NobodyIsRefused
<1> QED BY <1>1, Life, PTL

\* A connection is open exactly as long as the accept thread or the pool has it.
THEOREM ConnectionsHaveOneOwner == Spec => []EachConnectionHasOneOwner
<1>1. LifeInv => EachConnectionHasOneOwner
  BY DEF LifeInv, ConnInv, EachConnectionHasOneOwner
<1> QED BY <1>1, Life, PTL

\* After Stop, and after a Start that has failed and cleaned up, nothing runs, nothing is
\* open, and no client and no page is left undone.
THEOREM ServerStopsClean == Spec => []StopLeavesNothing
<1>1. LifeInv => StopLeavesNothing
  <2> SUFFICES ASSUME LifeInv, mpc \in {"stopped", "failed"} PROVE Quiet
    BY DEF StopLeavesNothing
  <2>1. ~running /\ ~listening /\ apc = "none" /\ phase = "closed" /\ ears = "closed"
    BY DEF LifeInv, StageInv
  <2>2. held = NoClient
    BY <2>1 DEF LifeInv, TypeOK
  <2> QED BY <2>1, <2>2, PoolsTyped, LifecycleAssumption DEF LifeInv, ConnInv, Quiet
<1> QED BY <1>1, Life, PTL
------------------------------------------------------------------------------
(* Shutdown counts down *)

\* The steps left to the main thread: the stages of Stop or of the catch block, and of each
\* pool that it has to close and to wait for.
StagesLeft == CASE mpc = "closeListener" -> 4
                [] mpc = "joinAcceptor" -> 3
                [] mpc = "stopPool" -> IF failing THEN 1 ELSE 2
                [] mpc = "stopPrefetcher" -> IF failing THEN 2 ELSE 1
                [] OTHER -> 0
PhaseLeft(p) == CASE p = "open" -> 2 [] p = "closing" -> 1 [] OTHER -> 0
MainLeft == StagesLeft + PhaseLeft(phase) + PhaseLeft(ears)

\* The steps left to the accept thread once running_ is reset.
AcceptorLeft == CASE apc = "accept" -> 3 [] apc = "dispatch" -> 2 [] apc = "check" -> 1
                  [] OTHER -> 0

\* The clients that may still connect, until the socket is closed.
Absent == {c \in Clients : conn[c] = "new"}

ShutdownLeft == MainLeft + AcceptorLeft + Cardinality(Absent) + P!JobsLeft + Q!JobsLeft

\* From the moment Stop is called, or Start fails, every step of every thread and of every
\* client is one of a bounded number.
ShuttingDown == mpc \in StopStages
ShutdownCountsDown == [][ShuttingDown => ShutdownLeft' < ShutdownLeft]_vars

\* Whoever the main thread waits for can go on: the accept thread has exited, will exit, has
\* a connection to hand over or sleeps on a closed socket, and a pool that is not empty has a
\* job for an idle worker or one in hand.
CanWork(queue, slots) == queue # <<>> \/ \E s \in DOMAIN slots : slots[s] # NoClient
ShutdownCanGoOn ==
  /\ mpc = "joinAcceptor" => \/ apc \in {"exited", "check"}
                             \/ apc = "accept" /\ ~listening
                             \/ apc = "dispatch" /\ phase = "open" /\ fate[held] = "new"
  /\ mpc = "stopPool" => \/ CanWork(pending, active)
                         \/ \A c \in Clients : fate[c] # "accepted"
  /\ mpc = "stopPrefetcher" => \/ CanWork(pages, looking)
                               \/ \A c \in Clients : looked[c] # "accepted"

LEMMA FinitePools == /\ P!IsFiniteSet(Clients) /\ P!IsFiniteSet(Workers)
                     /\ Q!IsFiniteSet(Clients) /\ Q!IsFiniteSet(OneThread)
<1>1. IsFiniteSet(Clients) /\ IsFiniteSet(Workers)
  BY LifecycleAssumption
<1>2. IsFiniteSet(OneThread)
  BY FS_Singleton DEF OneThread
<1> QED BY <1>1, <1>2 DEF P!IsFiniteSet, Q!IsFiniteSet, IsFiniteSet

\* A pool's jobs count down in the server's steps.
LEMMA PoolLeft ==
  ASSUME P!JobsInv, Pool!Next \/ UNCHANGED pool
  PROVE  /\ P!JobsLeft' <= P!JobsLeft /\ P!JobsLeft \in Nat /\ P!JobsLeft' \in Nat
         /\ \/ \E w \in Workers : Pool!Begin(w) \/ Pool!Finish(w)
            \/ \E c \in Clients : Pool!Accept(c)
            => P!JobsLeft' < P!JobsLeft
<1>1. P!Next \/ UNCHANGED P!vars
  BY DEF P!Next, P!Accept, P!Refuse, P!Begin, P!Finish, P!Open, P!Close, P!Drained, P!vars,
      pool, Pool!Next, Pool!Accept, Pool!Refuse, Pool!Begin, Pool!Finish, Pool!Open,
      Pool!Close, Pool!Drained
<1>2. /\ \A w : (Pool!Begin(w) <=> P!Begin(w)) /\ (Pool!Finish(w) <=> P!Finish(w))
      /\ \A c : Pool!Accept(c) <=> P!Accept(c)
  BY DEF P!Accept, P!Begin, P!Finish, Pool!Accept, Pool!Begin, Pool!Finish
<1> QED BY <1>1, <1>2, P!JobsLeftStep, FinitePools, LifecycleAssumption

LEMMA PrefetchLeft ==
  ASSUME Q!JobsInv, Prefetch!Next \/ UNCHANGED prefetcher
  PROVE  /\ Q!JobsLeft' <= Q!JobsLeft /\ Q!JobsLeft \in Nat /\ Q!JobsLeft' \in Nat
         /\ \/ \E s \in OneThread : Prefetch!Begin(s) \/ Prefetch!Finish(s)
            \/ \E c \in Clients : Prefetch!Accept(c)
            => Q!JobsLeft' < Q!JobsLeft
<1>1. Q!Next \/ UNCHANGED Q!vars
  BY DEF Q!Next, Q!Accept, Q!Refuse, Q!Begin, Q!Finish, Q!Open, Q!Close, Q!Drained, Q!vars,
      prefetcher, Prefetch!Next, Prefetch!Accept, Prefetch!Refuse, Prefetch!Begin,
      Prefetch!Finish, Prefetch!Open, Prefetch!Close, Prefetch!Drained
<1>2. /\ \A w : (Prefetch!Begin(w) <=> Q!Begin(w)) /\ (Prefetch!Finish(w) <=> Q!Finish(w))
      /\ \A c : Prefetch!Accept(c) <=> Q!Accept(c)
  BY DEF Q!Accept, Q!Begin, Q!Finish, Prefetch!Accept, Prefetch!Begin, Prefetch!Finish
<1> QED BY <1>1, <1>2, Q!JobsLeftStep, FinitePools, LifecycleAssumption

LEMMA ShutdownStep ==
  ASSUME LifeInv, Next, ShuttingDown
  PROVE  ShutdownLeft' < ShutdownLeft
<1> USE DEF LifeInv
<1>1. /\ mpc \in StopStages /\ (listening => mpc = "closeListener")
      /\ apc # "none" => ~running
      /\ {phase, ears} \subseteq {"open", "closing", "closed"}
  BY DEF ShuttingDown, StageInv, TypeOK, StopStages
<1>2. /\ P!JobsLeft' <= P!JobsLeft /\ P!JobsLeft \in Nat /\ P!JobsLeft' \in Nat
      /\ Q!JobsLeft' <= Q!JobsLeft /\ Q!JobsLeft \in Nat /\ Q!JobsLeft' \in Nat
  BY StepsOfPools, PoolLeft, PrefetchLeft DEF PoolsInv
<1>3. /\ Absent' \subseteq Absent /\ IsFiniteSet(Absent)
      /\ Cardinality(Absent') <= Cardinality(Absent)
      /\ Cardinality(Absent) \in Nat /\ Cardinality(Absent') \in Nat
  <2>1. \A c \in Clients : conn'[c] = "new" => conn[c] = "new"
    BY DEF TypeOK, Next, Starting, Stopping, Shutdown, Listen, StartPool, StartPrefetcher, Launch,
           CloseListener, JoinAcceptor, StopPool, StopPrefetcher, Connect, Accept, CheckRunning,
           AcceptFails, Dispatch, TakeClient, ServePage, FinishClient, LookThrough
  <2>2. Absent' \subseteq Absent /\ IsFiniteSet(Absent)
    BY <2>1, LifecycleAssumption, FS_Subset DEF Absent
  <2> QED BY <2>2, FS_Subset, FS_CardinalityType
<1>4. /\ StagesLeft \in Nat /\ StagesLeft' \in Nat /\ AcceptorLeft \in Nat
      /\ AcceptorLeft' \in Nat
      /\ \A p : PhaseLeft(p) \in Nat
      /\ MainLeft = StagesLeft + PhaseLeft(phase) + PhaseLeft(ears)
      /\ MainLeft' = StagesLeft' + PhaseLeft(phase') + PhaseLeft(ears')
  BY DEF StagesLeft, AcceptorLeft, PhaseLeft, MainLeft
<1>5. MainLeft \in Nat /\ MainLeft' \in Nat
  BY <1>4
<1>6. ASSUME MainLeft' <= MainLeft, AcceptorLeft' <= AcceptorLeft,
             \/ MainLeft' < MainLeft \/ AcceptorLeft' < AcceptorLeft
             \/ Cardinality(Absent') < Cardinality(Absent)
             \/ P!JobsLeft' < P!JobsLeft \/ Q!JobsLeft' < Q!JobsLeft
      PROVE  ShutdownLeft' < ShutdownLeft
  BY <1>2, <1>3, <1>4, <1>5, <1>6 DEF ShutdownLeft
<1>7. ~Starting /\ ~Shutdown
  BY <1>1 DEF Starting, Listen, StartPool, StartPrefetcher, Launch, Shutdown, StopStages
<1>8. CASE CloseListener \/ JoinAcceptor
  <2>1. StagesLeft' < StagesLeft
    BY <1>8 DEF CloseListener, JoinAcceptor, After, StopOrder, UndoOrder, StagesLeft, StageInv
  <2>2. UNCHANGED <<phase, ears>>
    BY <1>8 DEF CloseListener, JoinAcceptor, pool, prefetcher
  <2>3. AcceptorLeft' <= AcceptorLeft
    BY <1>8 DEF CloseListener, JoinAcceptor, acceptor, AcceptorLeft
  <2>4. MainLeft' < MainLeft
    BY <1>4, <2>1, <2>2
  <2> QED BY <1>5, <1>6, <2>3, <2>4
<1>9. CASE StopPool \/ StopPrefetcher
  <2>1. AcceptorLeft' <= AcceptorLeft
    <3>1. apc' = apc
      BY <1>9 DEF StopPool, StopPrefetcher, acceptor
    <3> QED BY <1>4, <3>1 DEF AcceptorLeft
  <2>2. CASE StopPool
    <3>1. \/ StagesLeft' = StagesLeft /\ phase = "open" /\ phase' = "closing"
          \/ StagesLeft' < StagesLeft /\ phase' = "closed"
      <4>1. \/ mpc' = mpc /\ phase = "open" /\ phase' = "closing"
            \/ /\ mpc' \in {"terminated", IF failing THEN "failed" ELSE "stopPrefetcher"}
               /\ phase' = "closed"
        BY <2>2 DEF StopPool, Pool!Close, Pool!Drained, pool, After, StopOrder, UndoOrder
      <4>2. mpc = "stopPool" /\ failing' = failing
        BY <2>2 DEF StopPool
      <4> QED BY <4>1, <4>2 DEF StagesLeft
    <3>2. ears' = ears
      BY <2>2 DEF StopPool, prefetcher
    <3>3. MainLeft' < MainLeft
      BY <1>4, <3>1, <3>2 DEF PhaseLeft
    <3> QED BY <1>5, <1>6, <2>1, <3>3
  <2>3. CASE StopPrefetcher
    <3>1. \/ StagesLeft' = StagesLeft /\ ears = "open" /\ ears' = "closing"
          \/ StagesLeft' < StagesLeft /\ ears' = "closed"
      BY <2>3 DEF StopPrefetcher, Prefetch!Close, Prefetch!Drained, prefetcher, After, StopOrder,
              UndoOrder, StagesLeft, StageInv
    <3>2. phase' = phase
      BY <2>3 DEF StopPrefetcher, pool
    <3>3. MainLeft' < MainLeft
      BY <1>4, <3>1, <3>2 DEF PhaseLeft
    <3> QED BY <1>5, <1>6, <2>1, <3>3
  <2> QED BY <1>9, <2>2, <2>3
<1>10. ASSUME ~Stopping PROVE MainLeft' = MainLeft
  BY <1>7, <1>10 DEF Next, Connect, Accept, CheckRunning, AcceptFails, Dispatch, TakeClient,
     ServePage, FinishClient, LookThrough, main, pool, prefetcher, MainLeft, StagesLeft,
     Pool!Accept, Pool!Refuse, Pool!Begin, Pool!Finish, Prefetch!Accept, Prefetch!Begin,
     Prefetch!Finish
<1>11. CASE ~Stopping
  <2>1. MainLeft' <= MainLeft
    BY <1>5, <1>10, <1>11
  <2>2. ASSUME AcceptorLeft' < AcceptorLeft PROVE ShutdownLeft' < ShutdownLeft
    BY <1>4, <1>6, <2>1, <2>2
  <2>3. ASSUME UNCHANGED apc, \/ Cardinality(Absent') < Cardinality(Absent)
                              \/ P!JobsLeft' < P!JobsLeft \/ Q!JobsLeft' < Q!JobsLeft
        PROVE  ShutdownLeft' < ShutdownLeft
    <3>1. AcceptorLeft' <= AcceptorLeft
      BY <1>4, <2>3 DEF AcceptorLeft
    <3> QED BY <1>6, <2>1, <2>3, <3>1
  <2>4. ASSUME NEW c \in Clients, Connect(c) PROVE ShutdownLeft' < ShutdownLeft
    <3>1. c \in Absent /\ c \notin Absent' /\ apc' = apc
      BY <2>4 DEF Connect, Absent, acceptor, TypeOK
    <3>2. Absent' \subseteq Absent \ {c}
      BY <1>3, <3>1
    <3>3. Cardinality(Absent \ {c}) = Cardinality(Absent) - 1 /\ IsFiniteSet(Absent \ {c})
      BY <1>3, <3>1, FS_RemoveElement
    <3>4. Cardinality(Absent') <= Cardinality(Absent \ {c})
      BY <3>2, <3>3, FS_Subset
    <3> QED BY <1>3, <2>3, <3>1, <3>3, <3>4
  <2>5. ASSUME (\E c \in Clients : Accept(c)) \/ CheckRunning \/ AcceptFails
        PROVE  ShutdownLeft' < ShutdownLeft
    <3>1. AcceptorLeft' < AcceptorLeft
      BY <1>1, <2>5 DEF Accept, CheckRunning, AcceptFails, AfterFailure, AcceptorLeft
    <3> QED BY <2>2, <3>1
  <2>6. ASSUME Dispatch PROVE ShutdownLeft' < ShutdownLeft
    <3>1. AcceptorLeft' < AcceptorLeft
      BY <2>6 DEF Dispatch, AcceptorLeft
    <3> QED BY <2>2, <3>1
  <2>7. ASSUME NEW w \in Workers, TakeClient(w) \/ FinishClient(w)
        PROVE  ShutdownLeft' < ShutdownLeft
    <3>1. P!JobsLeft' < P!JobsLeft
      BY <2>7, StepsOfPools, PoolLeft DEF TakeClient, FinishClient, PoolsInv
    <3> QED BY <2>3, <2>7, <3>1 DEF TakeClient, FinishClient, acceptor
  <2>8. ASSUME NEW w \in Workers, ServePage(w) PROVE ShutdownLeft' < ShutdownLeft
    <3>1. active[w] \in Clients
      BY <2>8 DEF ServePage, TypeOK
    <3>2. Q!JobsLeft' < Q!JobsLeft
      BY <2>8, <3>1, StepsOfPools, PrefetchLeft DEF ServePage, PoolsInv
    <3> QED BY <2>3, <2>8, <3>2 DEF ServePage, acceptor
  <2>9. ASSUME NEW s \in OneThread, LookThrough(s) PROVE ShutdownLeft' < ShutdownLeft
    <3>1. Q!JobsLeft' < Q!JobsLeft
      BY <2>9, StepsOfPools, PrefetchLeft DEF LookThrough, PoolsInv
    <3> QED BY <2>3, <2>9, <3>1 DEF LookThrough, acceptor
  <2> QED BY <1>7, <1>11, <2>4, <2>5, <2>6, <2>7, <2>8, <2>9 DEF Next
<1> QED BY <1>8, <1>9, <1>11 DEF Stopping

\* However many connections are queued and pages scheduled when the server is told to stop, a
\* bounded number of steps is left to everybody.
THEOREM ShutdownIsBounded == Spec => ShutdownCountsDown
<1>1. LifeInv /\ [Next]_vars => [ShuttingDown => ShutdownLeft' < ShutdownLeft]_vars
  BY ShutdownStep
<1> QED BY <1>1, Life, PTL DEF Spec, ShutdownCountsDown

\* While Stop has an accept thread to join there is one.
AcceptorRuns == /\ mpc \in {"serving", "joinAcceptor"} => apc # "none"
                /\ mpc = "closeListener" /\ ~failing => apc # "none"

LEMMA StepAcceptor == LifeInv /\ AcceptorRuns /\ [Next]_vars => AcceptorRuns'
<1> SUFFICES ASSUME LifeInv, AcceptorRuns, [Next]_vars PROVE AcceptorRuns'
  OBVIOUS
<1>1. CASE Starting
  BY <1>1 DEF Starting, Listen, StartPool, StartPrefetcher, Launch, Undo, AcceptorRuns
<1>2. CASE Shutdown
  BY <1>2 DEF Shutdown, AcceptorRuns, acceptor
<1>3. CASE Stopping
  <2>1. CASE CloseListener
    <3>1. mpc' = (IF failing THEN "stopPrefetcher" ELSE "joinAcceptor") /\ apc' = apc
      BY <2>1 DEF CloseListener, After, StopOrder, UndoOrder, acceptor
    <3> QED BY <2>1, <3>1 DEF CloseListener, AcceptorRuns
  <2>2. CASE JoinAcceptor
    <3>1. mpc' = "stopPool"
      BY <2>2 DEF JoinAcceptor, After, StopOrder, LifeInv, StageInv
    <3> QED BY <3>1 DEF AcceptorRuns
  <2>3. CASE StopPool
    <3>1. mpc' \in {"stopPool", "stopPrefetcher", "terminated", "failed"}
      BY <2>3 DEF StopPool, After, StopOrder, UndoOrder
    <3> QED BY <3>1 DEF AcceptorRuns
  <2>4. CASE StopPrefetcher
    <3>1. mpc' \in {"stopPrefetcher", "stopPool", "stopped"}
      BY <2>4 DEF StopPrefetcher, After, StopOrder, UndoOrder
    <3> QED BY <3>1 DEF AcceptorRuns
  <2> QED BY <1>3, <2>1, <2>2, <2>3, <2>4 DEF Stopping
<1>4. CASE ~(Starting \/ Shutdown \/ Stopping)
  <2>1. UNCHANGED main /\ (apc # "none" => apc' # "none")
    BY <1>4 DEF Next, Connect, Accept, CheckRunning, AcceptFails, AfterFailure, Dispatch,
       TakeClient, ServePage, FinishClient, LookThrough, acceptor, vars
  <2> QED BY <2>1 DEF main, AcceptorRuns
<1> QED BY <1>1, <1>2, <1>3, <1>4

\* Stop never waits for an accept thread that nothing wakes, nor for a pool whose jobs nobody
\* can take or finish.
THEOREM ShutdownIsNeverStuck == Spec => []ShutdownCanGoOn
<1>1. LifeInv /\ AcceptorRuns => ShutdownCanGoOn
  <2> SUFFICES ASSUME LifeInv, AcceptorRuns PROVE ShutdownCanGoOn
    OBVIOUS
  <2>1. mpc = "joinAcceptor" => \/ apc \in {"exited", "check"}
                                \/ apc = "accept" /\ ~listening
                                \/ apc = "dispatch" /\ phase = "open" /\ fate[held] = "new"
    BY DEF LifeInv, TypeOK, StageInv, ConnInv, AcceptorRuns
  <2>2. CanWork(pending, active) \/ \A c \in Clients : fate[c] # "accepted"
    <3> SUFFICES ASSUME NEW c \in Clients, fate[c] = "accepted" PROVE CanWork(pending, active)
      OBVIOUS
    <3>1. c \in P!Queued \/ c \in P!Begun
      BY DEF LifeInv, PoolsInv, P!JobsInv, P!NoneIsLost
    <3>2. c \in P!Queued => pending # <<>>
      BY DEF P!Queued
    <3>3. c \in P!Begun => \E s \in DOMAIN active : active[s] # NoClient
      BY DEF P!Begun, LifeInv, TypeOK
    <3> QED BY <3>1, <3>2, <3>3 DEF CanWork
  <2>3. CanWork(pages, looking) \/ \A c \in Clients : looked[c] # "accepted"
    <3> SUFFICES ASSUME NEW c \in Clients, looked[c] = "accepted" PROVE CanWork(pages, looking)
      OBVIOUS
    <3>1. c \in Q!Queued \/ c \in Q!Begun
      BY DEF LifeInv, PoolsInv, Q!JobsInv, Q!NoneIsLost
    <3>2. c \in Q!Queued => pages # <<>>
      BY DEF Q!Queued
    <3>3. c \in Q!Begun => \E s \in DOMAIN looking : looking[s] # NoClient
      BY DEF Q!Begun, LifeInv, TypeOK
    <3> QED BY <3>1, <3>2, <3>3 DEF CanWork
  <2> QED BY <2>1, <2>2, <2>3 DEF ShutdownCanGoOn
<1>2. Init => AcceptorRuns
  BY DEF Init, AcceptorRuns
<1> QED BY <1>1, <1>2, StepAcceptor, Life, PTL DEF Spec
==============================================================================
