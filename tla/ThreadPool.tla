----------------------------- MODULE ThreadPool ------------------------------
(***************************************************************************)
(* threadpool/thread_pool.cpp: a fixed number of worker threads that take  *)
(* jobs from one FIFO queue guarded by mutex_, and sleep on cv_ while the  *)
(* queue is empty.  Every critical section of mutex_ is one action; what   *)
(* the code does outside the lock (notify_one, notify_all, the task, the   *)
(* joins) is an action of its own, so that every interleaving of those     *)
(* with the critical sections of other threads is a behaviour.             *)
(*                                                                         *)
(* One controller thread calls Start, Stop and the destructor, as          *)
(* HttpServer does; any number of producer threads call Enqueue.           *)
(***************************************************************************)
EXTENDS Naturals, Sequences, FiniteSets

CONSTANTS Workers,       \* the thread_count_ threads of the pool
          Producers,     \* the threads that call Enqueue
          Jobs,          \* the tasks, each handed over once
          ThrowingJobs,  \* those whose task() lets an exception escape
          NoJob,         \* what a worker holds between two tasks
          MaxStarts      \* bound: how many times Start gets past its guard

ASSUME PoolAssumption == /\ IsFiniteSet(Workers) /\ Workers # {}
                         /\ IsFiniteSet(Producers)
                         /\ ThrowingJobs \subseteq Jobs
                         /\ NoJob \notin Jobs
                         /\ MaxStarts \in Nat

VARIABLES started,   \* started_
          stopping,  \* stopping_
          tasks,     \* tasks_, oldest first
          wpc,       \* where each worker thread is
          wtask,     \* the task each worker has popped
          ppc,       \* "idle", or "notify": in Enqueue between push and notify_one
          ctl,       \* where the controller is in Start, Stop and ~ThreadPool
          starts,    \* the calls of Start that got past its guard
          fate       \* history: what has become of each job

vars == <<started, stopping, tasks, wpc, wtask, ppc, ctl, starts, fate>>

WorkerStates ==
  {"none",     \* no such thread
   "ready",    \* wants mutex_, to evaluate the wait predicate
   "waiting",  \* blocked in cv_.wait
   "running",  \* inside task()
   "exited"}   \* WorkerLoop has returned, the thread is not joined yet

ControllerStates ==
  {"down",         \* no Start under way, or Stop has returned
   "up",           \* Start has returned
   "startFailed",  \* Start has thrown
   "notify",       \* Stop has set stopping_ and not called notify_all yet
   "join",         \* Stop is joining the workers
   "reset",        \* Stop has cleared workers_ and not reset the flags yet
   "destroyed",    \* the pool has been destructed
   "terminated"}   \* std::terminate has ended the process

Waiting == {w \in Workers : wpc[w] = "waiting"}
Ready == {w \in Workers : wpc[w] = "ready"}
Notifying == {p \in Producers : ppc[p] = "notify"}
Alive == ctl # "terminated"

Init == /\ started = FALSE /\ stopping = FALSE
        /\ tasks = <<>>
        /\ wpc = [w \in Workers |-> "none"]
        /\ wtask = [w \in Workers |-> NoJob]
        /\ ppc = [p \in Producers |-> "idle"]
        /\ ctl = "down" /\ starts = 0
        /\ fate = [j \in Jobs |-> "new"]
------------------------------------------------------------------------------
(* The controller *)

Start == /\ ctl = "down" /\ ~started /\ starts < MaxStarts
         /\ stopping' = FALSE
         /\ wpc' = [w \in Workers |-> "ready"]
         /\ started' = TRUE
         /\ ctl' = "up" /\ starts' = starts + 1
         /\ UNCHANGED <<tasks, wtask, ppc, fate>>

\* A std::thread cannot be created: emplace_back throws out of the loop with
\* the threads created so far in workers_ and started_ still FALSE.
StartThrows(created) ==
         /\ ctl = "down" /\ ~started /\ starts < MaxStarts
         /\ created # Workers
         /\ stopping' = FALSE
         /\ wpc' = [w \in Workers |-> IF w \in created THEN "ready" ELSE "none"]
         /\ ctl' = "startFailed" /\ starts' = starts + 1
         /\ UNCHANGED <<started, tasks, wtask, ppc, fate>>

StopBegin == /\ ctl = "up" /\ started
             /\ stopping' = TRUE
             /\ ctl' = "notify"
             /\ UNCHANGED <<started, tasks, wpc, wtask, ppc, starts, fate>>

\* Variant: notify_one for notify_all.
StopNotifyOne == /\ ctl = "notify"
                 /\ \/ \E w \in Waiting : wpc' = [wpc EXCEPT ![w] = "ready"]
                    \/ Waiting = {} /\ UNCHANGED wpc
                 /\ ctl' = "join"
                 /\ UNCHANGED <<started, stopping, tasks, wtask, ppc, starts, fate>>

StopNotifyAll == /\ ctl = "notify"
                 /\ wpc' = [w \in Workers |->
                              IF w \in Waiting THEN "ready" ELSE wpc[w]]
                 /\ ctl' = "join"
                 /\ UNCHANGED <<started, stopping, tasks, wtask, ppc, starts, fate>>

\* The loop of joins ends when every worker has returned; then workers_.clear().
StopJoin == /\ ctl = "join"
            /\ \A w \in Workers : wpc[w] = "exited"
            /\ wpc' = [w \in Workers |-> "none"]
            /\ ctl' = "reset"
            /\ UNCHANGED <<started, stopping, tasks, wtask, ppc, starts, fate>>

StopReset == /\ ctl = "reset"
             /\ started' = FALSE /\ stopping' = FALSE
             /\ ctl' = "down"
             /\ UNCHANGED <<tasks, wpc, wtask, ppc, starts, fate>>

\* ~ThreadPool: Stop returns at once, as started_ is FALSE, and destroying
\* workers_ with a joinable thread in it calls std::terminate.  The owner
\* destroys a pool only when no thread is inside Enqueue.
Destroy == /\ ctl \in {"down", "startFailed"}
           /\ Notifying = {}
           /\ ctl' = IF \E w \in Workers : wpc[w] # "none"
                     THEN "terminated" ELSE "destroyed"
           /\ UNCHANGED <<started, stopping, tasks, wpc, wtask, ppc, starts, fate>>
------------------------------------------------------------------------------
(* Producers *)

Accepting == started /\ ~stopping

\* Variant: only an Enqueue into an empty queue notifies.
EnqueueNotifiesIfEmpty(p, j) ==
  /\ Alive /\ ctl # "destroyed" /\ ppc[p] = "idle" /\ fate[j] = "new" /\ Accepting
  /\ tasks' = Append(tasks, j)
  /\ ppc' = [ppc EXCEPT ![p] = IF tasks = <<>> THEN "notify" ELSE "idle"]
  /\ fate' = [fate EXCEPT ![j] = "accepted"]
  /\ UNCHANGED <<started, stopping, wpc, wtask, ctl, starts>>

Enqueue(p, j) == /\ Alive /\ ctl # "destroyed"
                 /\ ppc[p] = "idle" /\ fate[j] = "new"
                 /\ Accepting
                 /\ tasks' = Append(tasks, j)
                 /\ ppc' = [ppc EXCEPT ![p] = "notify"]
                 /\ fate' = [fate EXCEPT ![j] = "accepted"]
                 /\ UNCHANGED <<started, stopping, wpc, wtask, ctl, starts>>

EnqueueThrows(p, j) == /\ Alive /\ ctl # "destroyed"
                       /\ ppc[p] = "idle" /\ fate[j] = "new"
                       /\ ~Accepting
                       /\ fate' = [fate EXCEPT ![j] = "refused"]
                       /\ UNCHANGED <<started, stopping, tasks, wpc, wtask, ppc,
                                      ctl, starts>>

\* notify_one outside the lock: it wakes some waiter, or nobody if none waits.
NotifyOne(p) == /\ Alive /\ ppc[p] = "notify"
                /\ ppc' = [ppc EXCEPT ![p] = "idle"]
                /\ \/ \E w \in Waiting : wpc' = [wpc EXCEPT ![w] = "ready"]
                   \/ Waiting = {} /\ UNCHANGED wpc
                /\ UNCHANGED <<started, stopping, tasks, wtask, ctl, starts, fate>>
------------------------------------------------------------------------------
(* Workers.  A "ready" worker that gets mutex_ evaluates the predicate of  *)
(* cv_.wait and does one of Sleep, Exit and Take before it releases it.    *)

\* Variants: the predicate forgets stopping_; the exit forgets the queue; the
\* newest task is taken; the task is kept after its run.
PredicateOnQueue == tasks # <<>>
ExitAtOnce == stopping
Newest == tasks[Len(tasks)]
RunKeepsTask(w) ==
  /\ Alive /\ wpc[w] = "running" /\ wtask[w] \notin ThrowingJobs
  /\ fate' = [fate EXCEPT ![wtask[w]] = "done"]
  /\ wpc' = [wpc EXCEPT ![w] = "ready"]
  /\ UNCHANGED <<started, stopping, tasks, wtask, ppc, ctl, starts>>

WaitPredicate == stopping \/ tasks # <<>>
MustExit == stopping /\ tasks = <<>>
Front == Head(tasks)
Popped == Tail(tasks)

Sleep(w) == /\ Alive /\ wpc[w] = "ready"
            /\ ~WaitPredicate
            /\ wpc' = [wpc EXCEPT ![w] = "waiting"]
            /\ UNCHANGED <<started, stopping, tasks, wtask, ppc, ctl, starts, fate>>

Exit(w) == /\ Alive /\ wpc[w] = "ready"
           /\ WaitPredicate /\ MustExit
           /\ wpc' = [wpc EXCEPT ![w] = "exited"]
           /\ UNCHANGED <<started, stopping, tasks, wtask, ppc, ctl, starts, fate>>

Take(w) == /\ Alive /\ wpc[w] = "ready"
           /\ WaitPredicate /\ ~MustExit
           /\ wtask' = [wtask EXCEPT ![w] = Front]
           /\ tasks' = Popped
           /\ wpc' = [wpc EXCEPT ![w] = "running"]
           /\ UNCHANGED <<started, stopping, ppc, ctl, starts, fate>>

\* task() returns; the loop comes round.
Run(w) == /\ Alive /\ wpc[w] = "running" /\ wtask[w] \notin ThrowingJobs
          /\ fate' = [fate EXCEPT ![wtask[w]] = "done"]
          /\ wtask' = [wtask EXCEPT ![w] = NoJob]
          /\ wpc' = [wpc EXCEPT ![w] = "ready"]
          /\ UNCHANGED <<started, stopping, tasks, ppc, ctl, starts>>

\* task() throws: nothing on the thread catches it.
RunThrows(w) == /\ Alive /\ wpc[w] = "running" /\ wtask[w] \in ThrowingJobs
                /\ ctl' = "terminated"
                /\ UNCHANGED <<started, stopping, tasks, wpc, wtask, ppc, starts, fate>>

\* cv_.wait may return although nobody notified.
SpuriousWakeup(w) ==
          /\ Alive /\ wpc[w] = "waiting"
          /\ wpc' = [wpc EXCEPT ![w] = "ready"]
          /\ UNCHANGED <<started, stopping, tasks, wtask, ppc, ctl, starts, fate>>
------------------------------------------------------------------------------
Loop(w) == Sleep(w) \/ Exit(w) \/ Take(w)
Stop == StopBegin \/ StopNotifyAll \/ StopJoin \/ StopReset

Next == \/ Start \/ Stop \/ Destroy
        \/ \E created \in SUBSET Workers : StartThrows(created)
        \/ \E p \in Producers, j \in Jobs : Enqueue(p, j) \/ EnqueueThrows(p, j)
        \/ \E p \in Producers : NotifyOne(p)
        \/ \E w \in Workers : Loop(w) \/ Run(w) \/ RunThrows(w) \/ SpuriousWakeup(w)

Spec == Init /\ [][Next]_vars

\* A thread that can run eventually does, a thread that wants mutex_ eventually
\* gets it, and a task eventually returns or throws (a client handler ends with
\* its connection).  Nothing obliges anyone to call Start, Stop or Enqueue, or to
\* wake up spuriously.
Fairness == /\ \A w \in Workers : WF_vars(Loop(w)) /\ WF_vars(Run(w) \/ RunThrows(w))
            /\ \A p \in Producers : WF_vars(NotifyOne(p))
            /\ WF_vars(StopNotifyAll) /\ WF_vars(StopJoin) /\ WF_vars(StopReset)

FairSpec == Spec /\ Fairness
------------------------------------------------------------------------------
(* Properties *)

TypeOK == /\ started \in BOOLEAN /\ stopping \in BOOLEAN
          /\ tasks \in Seq(Jobs)
          /\ wpc \in [Workers -> WorkerStates]
          /\ wtask \in [Workers -> Jobs \cup {NoJob}]
          /\ \A w \in Workers : wpc[w] = "running" <=> wtask[w] # NoJob
          /\ ppc \in [Producers -> {"idle", "notify"}]
          /\ ctl \in ControllerStates
          /\ starts \in 0..MaxStarts
          /\ fate \in [Jobs -> {"new", "accepted", "refused", "done"}]

\* No wakeup is lost although Enqueue notifies after it has released mutex_:
\* while a worker sleeps, every queued task has a worker that is awake and about
\* to look at the queue, or a notify_one still to come.
NoLostWakeup ==
  Waiting # {} => Len(tasks) <= Cardinality(Ready) + Cardinality(Notifying)

\* Once Stop has called notify_all no worker sleeps any more, so the joins end.
NoSleeperAtJoin == ctl \in {"join", "reset"} => Waiting = {}

\* A worker returns from WorkerLoop only for good: from then until the flags are
\* reset the queue is empty and stays so, so no task is left with no thread.
NoTaskAfterExit == (\E w \in Workers : wpc[w] = "exited") \/ ctl = "reset"
                      => stopping /\ tasks = <<>>

\* Every accepted task is in the queue once or in the hands of one worker, and
\* nothing else is: no task is lost, duplicated or run after it was refused.
EachTaskOnce ==
  /\ \A i, k \in 1..Len(tasks) : tasks[i] = tasks[k] => i = k
  /\ \A v, w \in Workers : wtask[v] # NoJob /\ wtask[v] = wtask[w] => v = w
  /\ \A w \in Workers : wtask[w] # NoJob => \A i \in 1..Len(tasks) : tasks[i] # wtask[w]
  /\ \A j \in Jobs : fate[j] = "accepted" <=> \/ \E i \in 1..Len(tasks) : tasks[i] = j
                                              \/ \E w \in Workers : wtask[w] = j

Phase == IF ~started THEN "closed" ELSE IF stopping THEN "closing" ELSE "open"

\* The pool is a JobPool: FIFO starts, each job once, at most one job a worker,
\* and Stop returns only when everything Enqueue accepted has been carried out.
Pool == INSTANCE JobPool WITH Slots <- Workers, Idle <- NoJob,
          pending <- tasks, active <- wtask, phase <- Phase
ImplementsJobPool == Pool!Spec

\* Every job Enqueue accepted is carried out, unless an exception that escapes
\* a task ends the process.
AcceptedJobsAreDone ==
  \A j \in Jobs : fate[j] = "accepted" ~> fate[j] = "done" \/ ~Alive

\* Stop returns, unless an exception that escapes a task ends the process.
StopReturns == ctl = "notify" ~> ctl = "down" \/ ~Alive
==============================================================================
