----------------------------- MODULE ThreadPool -----------------------------
(***************************************************************************)
(* chromatic_thread_pool (chromatic_imap/chromatic_thread_pool.cpp): an    *)
(* ACE_Task whose threads all run svc(), take event handlers from one      *)
(* message queue and call handle_input() on each.  stop() reads the number *)
(* of active threads once, queues one null block for each of them and      *)
(* polls the counter until it is zero.                                     *)
(*                                                                         *)
(* One thread, the owner, runs the reactor's event loop: it is the only    *)
(* one that calls enqueue() and stop().                                    *)
(***************************************************************************)
EXTENDS Integers, Sequences, FiniteSets

CONSTANTS
  Workers,      \* the threads start() may create (pool_size of them)
  Handlers,     \* the event handlers enqueued
  Null          \* the null pointer: a shutdown block, or no job

ASSUME PoolAssumption ==
  /\ IsFiniteSet(Workers)
  /\ Null \notin Handlers

VARIABLES
  msg_queue,       \* the task's message queue
  thread,          \* where each thread is in svc()
  job,             \* the handler a thread runs handle_input() on
  active_threads,  \* active_threads_
  owner,           \* what the owner thread is doing
  counter,         \* the local variable counter of stop()
  raced            \* history: stop() has read active_threads_ while a thread
                   \* was on its way from its creation to the counter

poolVars == <<msg_queue, thread, job, active_threads, owner, counter, raced>>

ThreadStates == {"absent", "svc", "getq", "input", "exited"}
OwnerStates == {"looping", "posting", "draining", "stopped", "cancelled"}

\* The threads that hold a chromatic_counter_guard.
Counted == {w \in Workers : thread[w] \in {"getq", "input"}}

Queued(h) == \E i \in DOMAIN msg_queue : msg_queue[i] = h
Running(h) == \E w \in Workers : job[w] = h
Pending(h) == Queued(h) \/ Running(h)

PoolInit ==
  /\ msg_queue = <<>>
  /\ thread = [w \in Workers |-> "absent"]
  /\ job = [w \in Workers |-> Null]
  /\ active_threads = 0
  /\ owner = "looping"
  /\ counter = 0
  /\ raced = FALSE

-----------------------------------------------------------------------------
(* Mutated forms of the actions below, each a plausible slip in the code.   *)
(* No specification uses them.                                              *)

\* svc() without the guard's destructor: the counter is never counted down.
ExitUncounted(w) ==
  /\ thread[w] = "getq"
  /\ msg_queue # <<>>
  /\ Head(msg_queue) = Null
  /\ msg_queue' = Tail(msg_queue)
  /\ thread' = [thread EXCEPT ![w] = "exited"]
  /\ UNCHANGED <<job, active_threads, owner, counter, raced>>

\* stop() without the loop that polls active_threads_.
StopReturnAtOnce ==
  /\ owner = "draining"
  /\ owner' = "stopped"
  /\ UNCHANGED <<msg_queue, thread, job, active_threads, counter, raced>>

\* getq() takes the newest block instead of the oldest.
TakeNewest(w) ==
  LET n == Len(msg_queue) IN
  /\ thread[w] = "getq"
  /\ n > 0
  /\ msg_queue[n] # Null
  /\ job' = [job EXCEPT ![w] = msg_queue[n]]
  /\ msg_queue' = SubSeq(msg_queue, 1, n - 1)
  /\ thread' = [thread EXCEPT ![w] = "input"]
  /\ UNCHANGED <<active_threads, owner, counter, raced>>

-----------------------------------------------------------------------------
(* The owner's operations. *)

\* start(): activate() creates the threads.  It may create only some of
\* them before it fails; acceptor::open ignores the result.
Start(S) ==
  /\ owner = "looping"
  /\ \A w \in Workers : thread[w] = "absent"
  /\ thread' = [w \in Workers |-> IF w \in S THEN "svc" ELSE "absent"]
  /\ UNCHANGED <<msg_queue, job, active_threads, owner, counter, raced>>

\* enqueue(handler) of a handler, from handle_input() in the event loop.
Enqueue(h) ==
  /\ owner = "looping"
  /\ msg_queue' = Append(msg_queue, h)
  /\ UNCHANGED <<thread, job, active_threads, owner, counter, raced>>

\* stop() reads the counter, once.
StopRead ==
  /\ owner = "looping"
  /\ owner' = "posting"
  /\ counter' = active_threads
  /\ raced' = (\E w \in Workers : thread[w] = "svc")
  /\ UNCHANGED <<msg_queue, thread, job, active_threads>>

\* while ( counter-- ) enqueue ( 0L );
StopPost ==
  /\ owner = "posting"
  /\ counter > 0
  /\ counter' = counter - 1
  /\ msg_queue' = Append(msg_queue, Null)
  /\ UNCHANGED <<thread, job, active_threads, owner, raced>>

StopPosted ==
  /\ owner = "posting"
  /\ counter = 0
  /\ owner' = "draining"
  /\ UNCHANGED <<msg_queue, thread, job, active_threads, counter, raced>>

\* while ( active_threads_.value () ) sleep; return 0
StopReturn ==
  /\ owner = "draining"
  /\ active_threads = 0
  /\ owner' = "stopped"
  /\ UNCHANGED <<msg_queue, thread, job, active_threads, counter, raced>>

\* The event loop ends and the thread manager cancels every thread.
CancelAll ==
  /\ owner = "looping"
  /\ owner' = "cancelled"
  /\ UNCHANGED <<msg_queue, thread, job, active_threads, counter, raced>>

-----------------------------------------------------------------------------
(* A thread's steps in svc(). *)

\* testcancel() is looked at once, before the thread counts itself.
SvcCancelled(w) ==
  /\ thread[w] = "svc"
  /\ owner = "cancelled"
  /\ thread' = [thread EXCEPT ![w] = "exited"]
  /\ UNCHANGED <<msg_queue, job, active_threads, owner, counter, raced>>

\* The thread constructs its counter guard and enters the loop.
SvcEnter(w) ==
  /\ thread[w] = "svc"
  /\ thread' = [thread EXCEPT ![w] = "getq"]
  /\ active_threads' = active_threads + 1
  /\ UNCHANGED <<msg_queue, job, owner, counter, raced>>

\* getq() returns a handler.
Take(w) ==
  /\ thread[w] = "getq"
  /\ msg_queue # <<>>
  /\ Head(msg_queue) # Null
  /\ job' = [job EXCEPT ![w] = Head(msg_queue)]
  /\ msg_queue' = Tail(msg_queue)
  /\ thread' = [thread EXCEPT ![w] = "input"]
  /\ UNCHANGED <<active_threads, owner, counter, raced>>

\* handle_input() has returned (and handle_close(), if it returned -1).
Return(w) ==
  /\ thread[w] = "input"
  /\ job' = [job EXCEPT ![w] = Null]
  /\ thread' = [thread EXCEPT ![w] = "getq"]
  /\ UNCHANGED <<msg_queue, active_threads, owner, counter, raced>>

\* getq() returns a null block: svc() returns, the guard counts down.
Exit(w) ==
  /\ thread[w] = "getq"
  /\ msg_queue # <<>>
  /\ Head(msg_queue) = Null
  /\ msg_queue' = Tail(msg_queue)
  /\ thread' = [thread EXCEPT ![w] = "exited"]
  /\ active_threads' = active_threads - 1
  /\ UNCHANGED <<job, owner, counter, raced>>

-----------------------------------------------------------------------------
StopStep == StopPost \/ StopPosted \/ StopReturn

PoolNext ==
  \/ \E S \in SUBSET Workers : Start(S)
  \/ \E h \in Handlers : ~Pending(h) /\ Enqueue(h)
  \/ StopRead
  \/ StopStep
  \/ CancelAll
  \/ \E w \in Workers :
       SvcCancelled(w) \/ SvcEnter(w) \/ Take(w) \/ Return(w) \/ Exit(w)

PoolSpec == PoolInit /\ [][PoolNext]_poolVars

\* Every thread the operating system runs makes progress: a thread that can
\* leave getq() does, handle_input() returns, and stop() goes on.
WorkerStep(w) == SvcEnter(w) \/ Take(w) \/ Return(w) \/ Exit(w)
PoolFairness ==
  /\ \A w \in Workers : WF_poolVars(WorkerStep(w))
  /\ WF_poolVars(StopStep)

PoolFairSpec == PoolSpec /\ PoolFairness

-----------------------------------------------------------------------------
(* The abstract pool. *)

\* The handlers in the queue: as many as there are, from its front, since the
\* null blocks of stop() are behind them.
Waiting(queue) ==
  SubSeq(queue, 1, Cardinality({i \in DOMAIN queue : queue[i] # Null}))

Work == INSTANCE WorkQueue WITH pending <- Waiting(msg_queue), running <- job

-----------------------------------------------------------------------------
(* Properties. *)

\* The pool keeps the promise of WorkQueue: FIFO, one thread per handler,
\* nothing lost or served twice, shutdown included.
ServesInOrder == Work!Spec

\* The range of every variable of the pool.
PoolTypeOK ==
  /\ msg_queue \in Seq(Handlers \cup {Null})
  /\ thread \in [Workers -> ThreadStates]
  /\ job \in [Workers -> Handlers \cup {Null}]
  /\ active_threads \in Nat
  /\ owner \in OwnerStates
  /\ counter \in Nat
  /\ raced \in BOOLEAN

\* A thread has a job exactly while it runs handle_input() for it, and the
\* counter of svc() counts exactly the threads that hold a guard.
CounterExact ==
  /\ \A w \in Workers : job[w] # Null <=> thread[w] = "input"
  /\ active_threads = Cardinality(Counted)

\* The null blocks of stop() are queued behind every handler: no handler is
\* ever left behind a block that ends a thread.
ShutdownLast ==
  \A i, j \in DOMAIN msg_queue :
    i < j /\ msg_queue[i] = Null => msg_queue[j] = Null

\* stop() shuts the pool down: when it has returned, no thread is in svc()
\* and no handler that was enqueued is waiting or being served - provided
\* that every thread was counted when stop() read the counter.
StopMeansStopped ==
  owner = "stopped" /\ ~raced =>
    /\ \A w \in Workers : thread[w] \in {"absent", "exited"}
    /\ (\E w \in Workers : thread[w] = "exited") => msg_queue = <<>>
    /\ \A w \in Workers : job[w] = Null

\* From its first null block to its return, stop() has queued one null block
\* for each active thread but the counter that are left to queue, and they
\* are the last of the queue: no thread is left in getq() for ever, and none
\* is told to end before the handlers are served.  The same proviso.
Stopping == owner \in {"posting", "draining", "stopped"}
EnoughShutdowns ==
  Stopping /\ ~raced =>
    LET posted == active_threads - counter IN
    /\ posted \in 0 .. Len(msg_queue)
    /\ \A i \in DOMAIN msg_queue :
         msg_queue[i] = Null <=> i > Len(msg_queue) - posted

\* stop() returns once it is called, under the same proviso: a thread that
\* was not counted may take the null block meant for another.
StopReturns == (owner = "posting" /\ ~raced) ~> owner = "stopped"

\* While some thread is in the loop of svc(), a queued handler gets its
\* handle_input() call, whatever stop() does meanwhile.
QueuedIsServed ==
  \A h \in Handlers :
    (Queued(h) /\ Counted # {}) ~> ~Queued(h)
=============================================================================
