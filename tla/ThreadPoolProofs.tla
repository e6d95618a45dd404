-------------------------- MODULE ThreadPoolProofs --------------------------
(***************************************************************************)
(* Theorems about ThreadPool, for any finite set of threads and any        *)
(* handlers.                                                               *)
(***************************************************************************)
EXTENDS ThreadPool, FiniteSetTheorems, WellFoundedInduction, TLAPS

-----------------------------------------------------------------------------
(* Facts about the queue and about the set of counted threads. *)

\* What Head and Tail of a queue that is not empty are.
LEMMA DequeueFacts ==
  ASSUME NEW S, NEW q \in Seq(S), q # <<>>
  PROVE  /\ Head(q) \in S
         /\ Head(q) = q[1]
         /\ Tail(q) \in Seq(S)
         /\ Len(q) \in Nat \ {0}
         /\ Len(Tail(q)) = Len(q) - 1
         /\ \A i \in DOMAIN Tail(q) : i + 1 \in DOMAIN q /\ Tail(q)[i] = q[i + 1]
  OBVIOUS

\* What appending to a queue does.
LEMMA EnqueueFacts ==
  ASSUME NEW S, NEW q \in Seq(S), NEW m \in S
  PROVE  /\ Append(q, m) \in Seq(S)
         /\ Len(q) \in Nat
         /\ Len(Append(q, m)) = Len(q) + 1
         /\ DOMAIN Append(q, m) = DOMAIN q \cup {Len(q) + 1}
         /\ \A i \in DOMAIN q : Append(q, m)[i] = q[i]
         /\ Append(q, m)[Len(q) + 1] = m
  OBVIOUS

\* The counted threads are finitely many; active_threads = 0 means none.
LEMMA CountedFacts ==
  /\ IsFiniteSet(Counted)
  /\ Cardinality(Counted) \in Nat
  /\ Cardinality(Counted) = 0 <=> Counted = {}
  BY PoolAssumption, FS_Subset, FS_CardinalityType, FS_EmptySet DEF Counted

-----------------------------------------------------------------------------
(* Types and the counter. *)

CountInv == PoolTypeOK /\ CounterExact

\* Nothing is counted before start().
LEMMA CountInit == PoolInit => CountInv
<1> SUFFICES ASSUME PoolInit PROVE CountInv
  OBVIOUS
<1>1. Counted = {}
  BY DEF PoolInit, Counted
<1>2. CounterExact
  BY <1>1, FS_EmptySet DEF PoolInit, CounterExact
<1>3. raced \in BOOLEAN
  BY DEF PoolInit
<1>4. QED
  BY <1>2, <1>3, SMT DEF PoolInit, CountInv, PoolTypeOK, ThreadStates, OwnerStates

\* Every step keeps the types, and changes the counter as it changes the set
\* of threads that hold a guard.
LEMMA CountStep == CountInv /\ [PoolNext]_poolVars => CountInv'
<1> SUFFICES ASSUME CountInv, [PoolNext]_poolVars PROVE CountInv'
  OBVIOUS
<1> USE PoolAssumption DEF CountInv, PoolTypeOK, ThreadStates, OwnerStates
<1> DEFINE Blocks == Handlers \cup {Null}
<1>1. ASSUME NEW S \in SUBSET Workers, Start(S) PROVE CountInv'
  <2>1. Counted = {} /\ Counted' = {}
    BY <1>1 DEF Start, Counted
  <2>2. CounterExact'
    BY <1>1, <2>1 DEF Start, CounterExact
  <2>3. QED
    BY <1>1, <2>2 DEF Start
<1>2. ASSUME UNCHANGED <<thread, job, active_threads>>, PoolTypeOK' PROVE CountInv'
  BY <1>2 DEF CounterExact, Counted
<1>3. ASSUME NEW h \in Handlers, Enqueue(h) PROVE CountInv'
  BY <1>2, <1>3, EnqueueFacts DEF Enqueue
<1>4. CASE StopRead
  BY <1>2, <1>4 DEF StopRead
<1>5. CASE StopStep
  <2>1. CASE StopPost
    <3>1. Append(msg_queue, Null) \in Seq(Blocks)
      BY EnqueueFacts
    <3>2. QED
      BY <1>2, <2>1, <3>1 DEF StopPost
  <2>2. CASE StopPosted \/ StopReturn
    BY <1>2, <2>2 DEF StopPosted, StopReturn
  <2>3. QED
    BY <1>5, <2>1, <2>2 DEF StopStep
<1>6. CASE CancelAll
  BY <1>2, <1>6 DEF CancelAll
<1>7. ASSUME NEW w \in Workers, SvcCancelled(w) PROVE CountInv'
  <2>1. Counted' = Counted
    BY <1>7 DEF SvcCancelled, Counted
  <2>2. CounterExact'
    BY <1>7, <2>1 DEF SvcCancelled, CounterExact
  <2>3. QED
    BY <1>7, <2>2 DEF SvcCancelled
<1>8. ASSUME NEW w \in Workers, SvcEnter(w) PROVE CountInv'
  <2>1. Counted' = Counted \cup {w} /\ w \notin Counted
    BY <1>8 DEF SvcEnter, Counted
  <2>2. Cardinality(Counted') = Cardinality(Counted) + 1
    BY <2>1, CountedFacts, FS_AddElement
  <2>3. CounterExact'
    BY <1>8, <2>2 DEF SvcEnter, CounterExact
  <2>4. QED
    BY <1>8, <2>3 DEF SvcEnter
<1>9. ASSUME NEW w \in Workers, Take(w) PROVE CountInv'
  <2>1. Counted' = Counted
    BY <1>9 DEF Take, Counted
  <2>2. Head(msg_queue) \in Handlers /\ Tail(msg_queue) \in Seq(Blocks)
    BY <1>9, DequeueFacts DEF Take
  <2>3. CounterExact'
    BY <1>9, <2>1, <2>2 DEF Take, CounterExact
  <2>4. QED
    BY <1>9, <2>2, <2>3 DEF Take
<1>10. ASSUME NEW w \in Workers, Return(w) PROVE CountInv'
  <2>1. Counted' = Counted
    BY <1>10 DEF Return, Counted
  <2>2. CounterExact'
    BY <1>10, <2>1 DEF Return, CounterExact
  <2>3. QED
    BY <1>10, <2>2 DEF Return
<1>11. ASSUME NEW w \in Workers, Exit(w) PROVE CountInv'
  <2>1. Counted' = Counted \ {w} /\ w \in Counted
    BY <1>11 DEF Exit, Counted
  <2>2. Cardinality(Counted') = Cardinality(Counted) - 1
    BY <2>1, CountedFacts, FS_RemoveElement
  <2>3. Cardinality(Counted) # 0
    BY <2>1, CountedFacts
  <2>4. Tail(msg_queue) \in Seq(Blocks)
    BY <1>11, DequeueFacts DEF Exit
  <2>5. CounterExact' /\ active_threads' \in Nat
    BY <1>11, <2>2, <2>3, CountedFacts DEF Exit, CounterExact
  <2>6. QED
    BY <1>11, <2>4, <2>5 DEF Exit
<1>12. CASE UNCHANGED poolVars
  BY <1>2, <1>12 DEF poolVars
<1>13. QED
  BY <1>1, <1>3, <1>4, <1>5, <1>6, <1>7, <1>8, <1>9, <1>10, <1>11, <1>12
     DEF PoolNext

\* Type correctness of the pool: each variable keeps its range.
THEOREM PoolTyped == PoolSpec => []PoolTypeOK
<1>1. CountInv => PoolTypeOK
  BY DEF CountInv
<1>2. QED
  BY CountInit, CountStep, <1>1, PTL DEF PoolSpec

\* active_threads_ counts exactly the threads that hold a counter guard.
THEOREM PoolCounts == PoolSpec => []CounterExact
<1>1. CountInv => CounterExact
  BY DEF CountInv
<1>2. QED
  BY CountInit, CountStep, <1>1, PTL DEF PoolSpec

-----------------------------------------------------------------------------
(* The null blocks of stop(). *)

\* Null blocks come from stop() only.
NullFromStop == \A i \in DOMAIN msg_queue : msg_queue[i] = Null => Stopping

QueueInv == NullFromStop /\ ShutdownLast

\* The queue is empty before start().
LEMMA QueueInit == PoolInit => QueueInv
  BY DEF PoolInit, QueueInv, NullFromStop, ShutdownLast

\* No step puts a handler behind a null block: a handler is enqueued in the
\* event loop only, which does not run once stop() has been called.
LEMMA QueueStep == CountInv /\ QueueInv /\ [PoolNext]_poolVars => QueueInv'
<1> SUFFICES ASSUME CountInv, QueueInv, [PoolNext]_poolVars PROVE QueueInv'
  OBVIOUS
<1> USE PoolAssumption DEF QueueInv, NullFromStop, ShutdownLast, Stopping
<1> DEFINE Blocks == Handlers \cup {Null}
<1>1. msg_queue \in Seq(Blocks) /\ owner \in OwnerStates
  BY DEF CountInv, PoolTypeOK
<1>2. ASSUME UNCHANGED msg_queue, Stopping => Stopping' PROVE QueueInv'
  BY <1>2
<1>3. ASSUME NEW h \in Handlers, Enqueue(h) PROVE QueueInv'
  <2>1. msg_queue' = Append(msg_queue, h) /\ ~Stopping
    BY <1>3 DEF Enqueue
  <2>2. \A i \in DOMAIN msg_queue' : msg_queue'[i] # Null
    BY <1>1, <2>1, EnqueueFacts
  <2>3. QED
    BY <2>2
<1>4. CASE StopPost
  <2>1. msg_queue' = Append(msg_queue, Null) /\ Stopping'
    BY <1>4 DEF StopPost
  <2>2. ASSUME NEW i \in DOMAIN msg_queue', NEW j \in DOMAIN msg_queue',
               i < j, msg_queue'[i] = Null
        PROVE  msg_queue'[j] = Null
    BY <1>1, <2>1, <2>2, EnqueueFacts
  <2>3. QED
    BY <2>1, <2>2
<1>5. CASE \E w \in Workers : Take(w) \/ Exit(w)
  <2>1. msg_queue # <<>> /\ msg_queue' = Tail(msg_queue) /\ owner' = owner
    BY <1>5 DEF Take, Exit
  <2>2. \A i \in DOMAIN msg_queue' :
          i + 1 \in DOMAIN msg_queue /\ msg_queue'[i] = msg_queue[i + 1]
    BY <1>1, <2>1, DequeueFacts
  <2>3. DOMAIN msg_queue' \subseteq Int
    BY <1>1, <2>1, DequeueFacts
  <2>4. QED
    BY <2>1, <2>2, <2>3
<1>6. CASE \/ \E S \in SUBSET Workers : Start(S)
           \/ StopRead \/ StopPosted \/ StopReturn \/ CancelAll
           \/ \E w \in Workers : SvcCancelled(w) \/ SvcEnter(w) \/ Return(w)
           \/ UNCHANGED poolVars
  BY <1>2, <1>6 DEF Start, StopRead, StopPosted, StopReturn, CancelAll,
                    SvcCancelled, SvcEnter, Return, poolVars
<1>7. QED
  BY <1>3, <1>4, <1>5, <1>6 DEF PoolNext, StopStep

\* Every handler that was enqueued is in front of every null block.
THEOREM ShutdownIsLast == PoolSpec => []ShutdownLast
<1>1. QueueInv => ShutdownLast
  BY DEF QueueInv
<1>2. QED
  BY CountInit, CountStep, QueueInit, QueueStep, <1>1, PTL DEF PoolSpec

-----------------------------------------------------------------------------
(* stop(). *)

\* The invariant behind stop(): if it did not race, the null blocks queued
\* make up for the threads counted and no thread is on its way to the
\* counter any more; and a thread has left svc() only because nothing but
\* null blocks was left.
StopInv ==
  /\ EnoughShutdowns
  /\ Stopping /\ ~raced => \A w \in Workers : thread[w] # "svc"
  /\ owner \in {"draining", "stopped"} => counter = 0
  /\ owner = "stopped" /\ ~raced => active_threads = 0
  /\ (\E w \in Workers : thread[w] = "exited") /\ owner # "cancelled" =>
       Stopping /\ \A i \in DOMAIN msg_queue : msg_queue[i] = Null

\* Nothing is stopping before start().
LEMMA StopInit == PoolInit => StopInv
  BY DEF PoolInit, StopInv, EnoughShutdowns, Stopping

\* Every step keeps StopInv.
LEMMA StopInvStep ==
  ASSUME CountInv, QueueInv, StopInv, [PoolNext]_poolVars
  PROVE  StopInv'
<1> USE PoolAssumption DEF StopInv, EnoughShutdowns, Stopping
<1> DEFINE Blocks == Handlers \cup {Null}
           n == Len(msg_queue)
<1>1. /\ msg_queue \in Seq(Blocks)
      /\ thread \in [Workers -> ThreadStates]
      /\ owner \in OwnerStates
      /\ active_threads \in Nat
      /\ counter \in Nat
      /\ n \in Nat
      /\ DOMAIN msg_queue = 1 .. n
  BY DEF CountInv, PoolTypeOK
<1>2. ~Stopping => \A i \in DOMAIN msg_queue : msg_queue[i] # Null
  BY DEF QueueInv, NullFromStop
<1>3. ASSUME NEW S \in SUBSET Workers, Start(S) PROVE StopInv'
  BY <1>1, <1>3 DEF Start
<1>4. ASSUME NEW h \in Handlers, Enqueue(h) PROVE StopInv'
  BY <1>1, <1>4 DEF Enqueue
<1>5. CASE StopRead
  BY <1>1, <1>2, <1>5 DEF StopRead
<1>6. CASE StopPost
  <2>1. /\ msg_queue' = Append(msg_queue, Null)
        /\ Len(msg_queue') = n + 1
        /\ DOMAIN msg_queue' = 1 .. (n + 1)
        /\ \A i \in 1 .. n : msg_queue'[i] = msg_queue[i]
        /\ msg_queue'[n + 1] = Null
    BY <1>1, <1>6 DEF StopPost
  <2>2. /\ owner = "posting" /\ owner' = owner
        /\ counter' = counter - 1 /\ active_threads' = active_threads
        /\ thread' = thread /\ raced' = raced
    BY <1>6 DEF StopPost
  <2>3. EnoughShutdowns'
    BY <1>1, <2>1, <2>2
  <2>4. (\E w \in Workers : thread[w] = "exited") =>
          \A i \in 1 .. (n + 1) : msg_queue'[i] = Null
    BY <1>1, <2>1, <2>2
  <2>5. QED
    BY <2>1, <2>2, <2>3, <2>4
<1>7. CASE StopPosted
  BY <1>1, <1>7 DEF StopPosted
<1>8. CASE StopReturn
  BY <1>1, <1>8 DEF StopReturn
<1>9. CASE CancelAll
  BY <1>1, <1>9 DEF CancelAll
<1>10. ASSUME NEW w \in Workers, SvcCancelled(w) PROVE StopInv'
  BY <1>1, <1>10 DEF SvcCancelled
<1>11. ASSUME NEW w \in Workers, SvcEnter(w) PROVE StopInv'
  BY <1>1, <1>11 DEF SvcEnter
<1>12. ASSUME NEW w \in Workers, Take(w) PROVE StopInv'
  <2>1. /\ msg_queue[1] # Null
        /\ msg_queue' = Tail(msg_queue)
        /\ n > 0
        /\ Len(msg_queue') = n - 1
        /\ DOMAIN msg_queue' = 1 .. (n - 1)
        /\ \A i \in 1 .. (n - 1) : msg_queue'[i] = msg_queue[i + 1]
    BY <1>1, <1>12, DequeueFacts DEF Take
  <2>2. UNCHANGED <<owner, counter, active_threads, raced>>
    BY <1>12 DEF Take
  <2>3. EnoughShutdowns'
    BY <1>1, <2>1, <2>2
  <2>4. ~(\E v \in Workers : thread[v] = "exited") \/ owner = "cancelled"
    BY <1>1, <2>1
  <2>5. thread' = [thread EXCEPT ![w] = "input"]
    BY <1>12 DEF Take
  <2>6. QED
    BY <1>1, <2>2, <2>3, <2>4, <2>5
<1>13. ASSUME NEW w \in Workers, Return(w) PROVE StopInv'
  BY <1>1, <1>13 DEF Return
<1>14. ASSUME NEW w \in Workers, Exit(w) PROVE StopInv'
  <2>1. /\ msg_queue[1] = Null
        /\ msg_queue' = Tail(msg_queue)
        /\ n > 0
        /\ Len(msg_queue') = n - 1
        /\ DOMAIN msg_queue' = 1 .. (n - 1)
        /\ \A i \in 1 .. (n - 1) : msg_queue'[i] = msg_queue[i + 1]
    BY <1>1, <1>14, DequeueFacts DEF Exit
  <2>2. /\ UNCHANGED <<owner, counter, raced>>
        /\ active_threads' = active_threads - 1
        /\ thread' = [thread EXCEPT ![w] = "exited"]
    BY <1>14 DEF Exit
  <2>3. Stopping /\ \A i \in 1 .. n : msg_queue[i] = Null
    BY <1>1, <1>2, <2>1 DEF QueueInv, ShutdownLast
  <2>4. ~raced => active_threads - counter = n
    BY <1>1, <2>1, <2>3
  <2>5. EnoughShutdowns'
    <3>1. SUFFICES ASSUME ~raced'
                   PROVE  /\ active_threads' - counter' \in 0 .. Len(msg_queue')
                          /\ \A i \in DOMAIN msg_queue' :
                               msg_queue'[i] = Null <=>
                                 i > Len(msg_queue') - (active_threads' - counter')
      OBVIOUS
    <3>2. active_threads' - counter' = n - 1
      BY ONLY <1>1, <2>2, <2>4, <3>1
    <3>3. \A i \in 1 .. (n - 1) : msg_queue'[i] = Null /\ i > (n - 1) - (n - 1)
      BY ONLY <1>1, <2>1, <2>3
    <3>4. QED
      BY ONLY <1>1, <2>1, <3>2, <3>3
  <2>6. ~raced => active_threads # 0 /\ owner # "stopped"
    BY <1>1, <2>1, <2>4
  <2>7. QED
    BY <1>1, <2>1, <2>2, <2>3, <2>5, <2>6
<1>15. CASE UNCHANGED poolVars
  BY <1>15 DEF poolVars
<1>16. QED
  BY <1>3, <1>4, <1>5, <1>6, <1>7, <1>8, <1>9, <1>10, <1>11, <1>12, <1>13,
     <1>14, <1>15 DEF PoolNext, StopStep

\* What StopInv says of the moment stop() has returned.
LEMMA StopInvStopped == CountInv /\ StopInv => StopMeansStopped
<1> SUFFICES ASSUME CountInv, StopInv, owner = "stopped", ~raced
             PROVE  StopMeansStopped
  BY DEF StopMeansStopped
<1>1. Counted = {}
  BY CountedFacts DEF CountInv, CounterExact, StopInv
<1>2. \A w \in Workers : thread[w] \in {"absent", "exited"} /\ job[w] = Null
  BY <1>1 DEF Counted, CountInv, CounterExact, PoolTypeOK, ThreadStates,
              StopInv, Stopping
<1>3. ASSUME \E w \in Workers : thread[w] = "exited" PROVE msg_queue = <<>>
  <2>1. msg_queue \in Seq(Handlers \cup {Null})
    BY DEF CountInv, PoolTypeOK
  <2>2. \A i \in DOMAIN msg_queue : msg_queue[i] = Null /\ i > Len(msg_queue)
    BY <1>3, <2>1 DEF StopInv, EnoughShutdowns, Stopping
  <2>3. QED
    BY <2>1, <2>2
<1>4. QED
  BY <1>2, <1>3 DEF StopMeansStopped

\* stop() shuts the pool down: if every thread was counted when it read the
\* counter, it returns only when no thread is in svc(), no handle_input() is
\* running and no handler or null block is left in the queue.
THEOREM StopStops == PoolSpec => []StopMeansStopped
<1>1. StopInv /\ CountInv /\ QueueInv /\ [PoolNext]_poolVars => StopInv'
  BY StopInvStep
<1>2. QED
  BY CountInit, CountStep, QueueInit, QueueStep, StopInit, <1>1,
     StopInvStopped, PTL DEF PoolSpec

\* Under the same condition stop() queues exactly the null blocks the
\* counted threads need.
THEOREM StopPostsEnough == PoolSpec => []EnoughShutdowns
<1>1. StopInv /\ CountInv /\ QueueInv /\ [PoolNext]_poolVars => StopInv'
  BY StopInvStep
<1>2. StopInv => EnoughShutdowns
  BY DEF StopInv
<1>3. QED
  BY CountInit, CountStep, QueueInit, QueueStep, StopInit, <1>1, <1>2, PTL
     DEF PoolSpec

-----------------------------------------------------------------------------
(* The pool implements WorkQueue. *)

\* The handlers of a queue of which the first k blocks, and only those, are
\* handlers.
LEMMA WaitingIs ==
  ASSUME NEW S, NEW q \in Seq(S), NEW k \in 0 .. Len(q),
         \A i \in 1 .. Len(q) : q[i] # Null <=> i <= k
  PROVE  Waiting(q) = [i \in 1 .. k |-> q[i]]
<1>1. {i \in DOMAIN q : q[i] # Null} = 1 .. k
  OBVIOUS
<1>2. Cardinality(1 .. k) = k
  BY FS_Interval
<1>3. Waiting(q) = SubSeq(q, 1, k)
  BY <1>1, <1>2 DEF Waiting
<1>4. CASE k = 0
  BY <1>3, <1>4
<1>5. CASE k # 0
  BY <1>3, <1>5
<1> QED
  BY <1>4, <1>5

\* A queue in which no handler is behind a null block is such a queue.
LEMMA HandlersFirst ==
  ASSUME CountInv, ShutdownLast
  PROVE  \E k \in 0 .. Len(msg_queue) :
           \A i \in 1 .. Len(msg_queue) : msg_queue[i] # Null <=> i <= k
<1> DEFINE n == Len(msg_queue)
           nulls == {i \in 1 .. n : msg_queue[i] = Null}
<1>1. n \in Nat /\ DOMAIN msg_queue = 1 .. n
  BY DEF CountInv, PoolTypeOK
<1>2. CASE nulls = {}
  <2>1. \A i \in 1 .. n : msg_queue[i] # Null <=> i <= n
    BY <1>1, <1>2
  <2>2. n \in 0 .. n
    BY <1>1
  <2> QED
    BY <2>1, <2>2
<1>3. CASE nulls # {}
  <2>1. PICK m \in nulls : \A j \in nulls : <<j, m>> \notin OpToRel(<, Nat)
    <3>1. nulls \subseteq Nat
      BY <1>1
    <3> QED
      BY <1>3, <3>1, NatLessThanWellFounded, WFMin
  <2>2. \A j \in nulls : ~(j < m)
    <3>1. nulls \subseteq Nat
      BY <1>1
    <3> QED
      BY <2>1, <3>1, Zenon DEF OpToRel
  <2>3. m - 1 \in 0 .. n
    BY <1>1
  <2>4. ASSUME NEW i \in 1 .. n
        PROVE  msg_queue[i] # Null <=> i <= m - 1
    BY <1>1, <2>2, <2>4 DEF ShutdownLast
  <2> QED
    BY <2>3, <2>4
<1> QED
  BY <1>2, <1>3

LEMMA PoolWaits ==
  ASSUME CountInv, QueueInv, [PoolNext]_poolVars
  PROVE  [Work!Next]_(Work!queueVars)
<1> DEFINE n == Len(msg_queue)
           Blocks == Handlers \cup {Null}
<1> USE PoolAssumption
<1>1. /\ msg_queue \in Seq(Blocks)
      /\ job \in [Workers -> Blocks]
      /\ n \in Nat
      /\ DOMAIN msg_queue = 1 .. n
  BY DEF CountInv, PoolTypeOK
<1>2. PICK k \in 0 .. n : \A i \in 1 .. n : msg_queue[i] # Null <=> i <= k
  BY HandlersFirst DEF QueueInv
<1>3. Waiting(msg_queue) = [i \in 1 .. k |-> msg_queue[i]]
  BY <1>1, <1>2, WaitingIs
<1>4. ASSUME UNCHANGED <<msg_queue, job>>
      PROVE  UNCHANGED Work!queueVars
  BY <1>4 DEF Work!queueVars
<1>5. ASSUME NEW h \in Handlers, ~Pending(h), Enqueue(h)
      PROVE  Work!Submit(h)
  <2>1. msg_queue' = Append(msg_queue, h) /\ UNCHANGED job /\ ~Stopping
    BY <1>5 DEF Enqueue, Stopping
  <2>2. \A i \in 1 .. n : msg_queue[i] # Null
    BY <1>1, <2>1 DEF QueueInv, NullFromStop
  <2>3. Waiting(msg_queue) = msg_queue
    <3>1. n = k
      <4>1. ASSUME n # k
            PROVE  FALSE
        <5> HIDE DEF n
        <5>1. k < n /\ n \in 1 .. n
          BY <1>1, <1>2, <4>1
        <5>2. n <= k
          BY <1>2, <2>2, <5>1
        <5> QED
          BY <1>1, <1>2, <5>1, <5>2
      <4> QED
        BY <4>1
    <3> QED
      BY <1>1, <1>2, <1>3, <3>1
  <2>4. Waiting(msg_queue') = msg_queue'
    <3>1. msg_queue' \in Seq(Blocks) /\ Len(msg_queue') = n + 1
      BY <1>1, <2>1, EnqueueFacts
    <3>2. \A i \in 1 .. n + 1 : msg_queue'[i] # Null
      BY <1>1, <2>1, <2>2, EnqueueFacts
    <3>3. Waiting(msg_queue') = [i \in 1 .. n + 1 |-> msg_queue'[i]]
      <4>1. n + 1 \in 0 .. Len(msg_queue')
        BY <1>1, <3>1
      <4>2. \A i \in 1 .. Len(msg_queue') : msg_queue'[i] # Null <=> i <= n + 1
        BY <1>1, <3>1, <3>2
      <4> QED
        BY <3>1, <4>1, <4>2, WaitingIs
    <3> QED
      BY <1>1, <3>1, <3>3
  <2>5. /\ \A i \in DOMAIN msg_queue : msg_queue[i] # h
        /\ \A w \in Workers : job[w] # h
    BY <1>5 DEF Pending, Queued, Running
  <2> QED
    BY <2>1, <2>3, <2>4, <2>5 DEF Work!Submit
<1>6. CASE StopPost
  <2>1. msg_queue' = Append(msg_queue, Null) /\ UNCHANGED job
    BY <1>6 DEF StopPost
  <2>2. /\ msg_queue' \in Seq(Blocks) /\ Len(msg_queue') = n + 1
        /\ \A i \in 1 .. n : msg_queue'[i] = msg_queue[i]
        /\ msg_queue'[n + 1] = Null
    BY <1>1, <2>1, EnqueueFacts
  <2>3. k \in 0 .. Len(msg_queue')
        /\ \A i \in 1 .. Len(msg_queue') : msg_queue'[i] # Null <=> i <= k
    BY <1>1, <1>2, <2>2
  <2>4. Waiting(msg_queue') = [i \in 1 .. k |-> msg_queue'[i]]
    BY <2>2, <2>3, WaitingIs
  <2>5. [i \in 1 .. k |-> msg_queue'[i]] = [i \in 1 .. k |-> msg_queue[i]]
    BY <1>1, <1>2, <2>2
  <2>6. Waiting(msg_queue') = Waiting(msg_queue)
    BY <1>3, <2>4, <2>5
  <2> QED
    BY <2>1, <2>6 DEF Work!queueVars
<1>7. ASSUME msg_queue # <<>>, msg_queue' = Tail(msg_queue)
      PROVE  Waiting(msg_queue') = [i \in 1 .. k - 1 |-> msg_queue[i + 1]]
  <2>1. /\ n > 0
        /\ msg_queue' \in Seq(Blocks)
        /\ Len(msg_queue') = n - 1
        /\ \A i \in 1 .. n - 1 : msg_queue'[i] = msg_queue[i + 1]
    BY <1>1, <1>7, DequeueFacts
  <2>2. CASE k = 0
    <3>1. 0 \in 0 .. Len(msg_queue')
          /\ \A i \in 1 .. Len(msg_queue') : msg_queue'[i] # Null <=> i <= 0
      BY <1>1, <1>2, <2>1, <2>2
    <3>2. Waiting(msg_queue') = [i \in 1 .. 0 |-> msg_queue'[i]]
      BY <2>1, <3>1, WaitingIs
    <3> QED
      BY <2>2, <3>2
  <2>3. CASE k # 0
    <3>1. k - 1 \in 0 .. Len(msg_queue')
          /\ \A i \in 1 .. Len(msg_queue') : msg_queue'[i] # Null <=> i <= k - 1
      BY <1>1, <1>2, <2>1, <2>3
    <3>2. Waiting(msg_queue') = [i \in 1 .. k - 1 |-> msg_queue'[i]]
      BY <2>1, <3>1, WaitingIs
    <3> QED
      BY <1>1, <1>2, <2>1, <3>2
  <2> QED
    BY <2>2, <2>3
<1>8. ASSUME NEW w \in Workers, Take(w)
      PROVE  Work!Begin(w)
  <2>1. /\ msg_queue # <<>> /\ msg_queue' = Tail(msg_queue)
        /\ Head(msg_queue) # Null
        /\ job' = [job EXCEPT ![w] = Head(msg_queue)]
    BY <1>8 DEF Take
  <2>2. Head(msg_queue) = msg_queue[1] /\ n > 0
    BY <1>1, <2>1, DequeueFacts
  <2>3. k >= 1
    BY <1>1, <1>2, <2>1, <2>2
  <2>4. /\ Waiting(msg_queue) \in Seq(Blocks)
        /\ Len(Waiting(msg_queue)) = k
        /\ Waiting(msg_queue) # <<>>
        /\ Head(Waiting(msg_queue)) = msg_queue[1]
        /\ Tail(Waiting(msg_queue)) = [i \in 1 .. k - 1 |-> msg_queue[i + 1]]
    <3> DEFINE wq == Waiting(msg_queue)
    <3>1. wq \in [1 .. k -> Blocks]
      BY <1>1, <1>2, <1>3
    <3>2. wq \in Seq(Blocks) /\ Len(wq) = k
      BY <1>1, <1>2, <3>1
    <3>3. \A i \in 1 .. k : wq[i] = msg_queue[i]
      BY <1>3
    <3> HIDE DEF wq
    <3>4. wq # <<>> /\ Head(wq) = wq[1]
      BY <2>3, <3>2
    <3>5. Tail(wq) = [i \in 1 .. k - 1 |-> wq[i + 1]]
      <4>1. /\ Tail(wq) \in Seq(Blocks) /\ Len(Tail(wq)) = k - 1
            /\ \A i \in DOMAIN Tail(wq) : Tail(wq)[i] = wq[i + 1]
        BY <3>2, <3>4, DequeueFacts
      <4> DEFINE tq == Tail(wq)
      <4> HIDE DEF tq
      <4>2. tq \in Seq(Blocks) /\ Len(tq) = k - 1
            /\ \A i \in DOMAIN tq : tq[i] = wq[i + 1]
        BY <4>1 DEF tq
      <4>3. DOMAIN tq = 1 .. k - 1 /\ tq = [i \in DOMAIN tq |-> tq[i]]
        BY <4>2
      <4>4. tq = [i \in 1 .. k - 1 |-> wq[i + 1]]
        BY <4>2, <4>3
      <4> QED
        BY <4>4 DEF tq
    <3>6. \A i \in 1 .. k - 1 : wq[i + 1] = msg_queue[i + 1]
      BY <1>2, <3>3
    <3>7. Tail(wq) = [i \in 1 .. k - 1 |-> msg_queue[i + 1]]
      BY <3>5, <3>6
    <3>8. Head(wq) = msg_queue[1]
      BY <2>3, <3>3, <3>4
    <3> QED
      BY <3>2, <3>4, <3>7, <3>8 DEF wq
  <2>5. job[w] = Null
    BY <1>8 DEF Take, CountInv, CounterExact
  <2>6. Waiting(msg_queue') = Tail(Waiting(msg_queue))
    BY <1>7, <2>1, <2>4
  <2>7. job' = [job EXCEPT ![w] = Head(Waiting(msg_queue))]
    BY <2>1, <2>2, <2>4
  <2> QED
    BY <2>4, <2>5, <2>6, <2>7 DEF Work!Begin
<1>9. ASSUME NEW w \in Workers, Return(w)
      PROVE  Work!End(w)
  BY <1>9 DEF Return, CountInv, CounterExact, Work!End
<1>10. ASSUME NEW w \in Workers, Exit(w)
       PROVE  UNCHANGED Work!queueVars
  <2>1. /\ msg_queue # <<>> /\ msg_queue' = Tail(msg_queue)
        /\ Head(msg_queue) = Null /\ UNCHANGED job
    BY <1>10 DEF Exit
  <2>2. Head(msg_queue) = msg_queue[1] /\ n > 0
    BY <1>1, <2>1, DequeueFacts
  <2>3. k = 0
    BY <1>1, <1>2, <2>1, <2>2
  <2>4. Waiting(msg_queue') = Waiting(msg_queue)
    <3>1. Waiting(msg_queue') = [i \in 1 .. k - 1 |-> msg_queue[i + 1]]
      BY <1>7, <2>1
    <3>2. 1 .. k - 1 = {} /\ 1 .. k = {}
      BY <2>3
    <3> QED
      BY <1>3, <3>1, <3>2
  <2> QED
    BY <2>1, <2>4 DEF Work!queueVars
<1>11. CASE \/ \E S \in SUBSET Workers : Start(S)
            \/ StopRead \/ StopPosted \/ StopReturn \/ CancelAll
            \/ \E w \in Workers : SvcCancelled(w) \/ SvcEnter(w)
            \/ UNCHANGED poolVars
  BY <1>4, <1>11 DEF Start, StopRead, StopPosted, StopReturn, CancelAll,
                     SvcCancelled, SvcEnter, poolVars
<1> QED
  BY <1>5, <1>6, <1>8, <1>9, <1>10, <1>11 DEF PoolNext, StopStep, Work!Next

\* The pool is a queue of work: handlers are begun in the order they were
\* enqueued, each by one thread, and none is lost, repeated or invented,
\* whatever stop() does meanwhile.
THEOREM PoolImplementsQueue == PoolSpec => ServesInOrder
<1>1. PoolInit => Work!Init
  <2> SUFFICES ASSUME PoolInit
               PROVE  Work!Init
    OBVIOUS
  <2>1. msg_queue = <<>> /\ job = [w \in Workers |-> Null]
    BY DEF PoolInit
  <2>2. Waiting(<<>>) = <<>>
    <3>1. <<>> \in Seq(Handlers) /\ Len(<<>>) = 0
      OBVIOUS
    <3>2. 0 \in 0 .. Len(<<>>) /\ \A i \in 1 .. Len(<<>>) : <<>>[i] # Null <=> i <= 0
      BY <3>1
    <3>3. Waiting(<<>>) = [i \in 1 .. 0 |-> <<>>[i]]
      BY <3>1, <3>2, WaitingIs
    <3> QED
      BY <3>3
  <2> QED
    BY <2>1, <2>2 DEF Work!Init
<1>2. CountInv /\ QueueInv /\ [PoolNext]_poolVars => [Work!Next]_(Work!queueVars)
  BY PoolWaits
<1> QED
  BY CountInit, CountStep, QueueInit, QueueStep, <1>1, <1>2, PTL
     DEF PoolSpec, ServesInOrder, Work!Spec
=============================================================================
