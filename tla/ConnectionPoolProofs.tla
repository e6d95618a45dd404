------------------------ MODULE ConnectionPoolProofs ------------------------
(***************************************************************************)
(* Theorems about ConnectionPool, for any finite set of threads and any    *)
(* handlers.                                                               *)
(***************************************************************************)
EXTENDS ConnectionPool, ThreadPoolProofs

-----------------------------------------------------------------------------
(* A handler is in one place. *)

Blocks == Handlers \cup {Null}

\* The pool's half of OnePlace.
OneInPool ==
  /\ \A i, j \in DOMAIN msg_queue :
       msg_queue[i] = msg_queue[j] /\ msg_queue[i] # Null => i = j
  /\ \A v, w \in Workers : job[v] = job[w] /\ job[v] # Null => v = w
  /\ \A h \in Handlers : ~(Queued(h) /\ Running(h))

\* A step that only touches null blocks and threads without a job leaves the
\* handlers of the pool where they are.
LEMMA EnqueuePlaces ==
  ASSUME CountInv, OneInPool, NEW h \in Handlers, Enqueue(h), ~Pending(h)
  PROVE  /\ OneInPool'
         /\ \A g \in Handlers : Pending(g)' <=> Pending(g) \/ g = h
<1> USE PoolAssumption
<1>1. /\ msg_queue \in Seq(Blocks)
      /\ msg_queue' = Append(msg_queue, h)
      /\ job' = job
  BY DEF CountInv, PoolTypeOK, Enqueue, Blocks
<1>2. /\ Len(msg_queue) \in Nat
      /\ DOMAIN msg_queue = 1 .. Len(msg_queue)
      /\ DOMAIN msg_queue' = DOMAIN msg_queue \cup {Len(msg_queue) + 1}
      /\ \A i \in DOMAIN msg_queue : msg_queue'[i] = msg_queue[i]
      /\ msg_queue'[Len(msg_queue) + 1] = h
  BY <1>1, EnqueueFacts DEF Blocks
<1>3. \A g \in Handlers : Queued(g)' <=> Queued(g) \/ g = h
  BY <1>2 DEF Queued
<1>4. \A g \in Handlers : Running(g)' <=> Running(g)
  BY <1>1 DEF Running
<1>5. \A i \in DOMAIN msg_queue : msg_queue[i] # h
  BY DEF Pending, Queued
<1>6. \A i, j \in DOMAIN msg_queue' :
        msg_queue'[i] = msg_queue'[j] /\ msg_queue'[i] # Null => i = j
  BY <1>2, <1>5 DEF OneInPool
<1>7. QED
  BY <1>1, <1>3, <1>4, <1>6 DEF OneInPool, Pending

\* getq() moves a handler from the queue to the thread.
LEMMA TakePlaces ==
  ASSUME CountInv, OneInPool, NEW w \in Workers, Take(w)
  PROVE  /\ OneInPool'
         /\ \A g \in Handlers : Pending(g)' <=> Pending(g)
         /\ job'[w] \in Handlers
         /\ Pending(job'[w])
         /\ thread'[w] = "input"
         /\ thread[w] # "input"
         /\ \A v \in Workers : v # w => thread'[v] = thread[v] /\ job'[v] = job[v]
<1> USE PoolAssumption
<1> DEFINE h == Head(msg_queue)
<1>1. /\ msg_queue \in Seq(Blocks)
      /\ msg_queue # <<>>
      /\ msg_queue' = Tail(msg_queue)
      /\ h # Null
      /\ job \in [Workers -> Blocks]
      /\ job' = [job EXCEPT ![w] = h]
      /\ thread \in [Workers -> ThreadStates]
      /\ thread' = [thread EXCEPT ![w] = "input"]
      /\ thread[w] = "getq"
      /\ job[w] = Null
  BY DEF CountInv, PoolTypeOK, CounterExact, Take, Blocks
<1>2. /\ h \in Handlers
      /\ h = msg_queue[1]
      /\ Len(msg_queue) \in Nat \ {0}
      /\ DOMAIN msg_queue = 1 .. Len(msg_queue)
      /\ DOMAIN msg_queue' = 1 .. (Len(msg_queue) - 1)
      /\ \A i \in DOMAIN msg_queue' :
           i + 1 \in DOMAIN msg_queue /\ msg_queue'[i] = msg_queue[i + 1]
  BY <1>1, DequeueFacts DEF Blocks
<1> HIDE DEF h
<1>3. Queued(h) /\ ~Running(h)
  BY <1>2 DEF Queued, OneInPool
<1>4. \A i \in DOMAIN msg_queue : msg_queue[i] = h => i = 1
  BY <1>1, <1>2 DEF OneInPool
<1>5. \A g \in Handlers : Queued(g)' <=> Queued(g) /\ g # h
  <2>1. ASSUME NEW g \in Handlers, Queued(g)' PROVE Queued(g) /\ g # h
    BY <1>2, <1>4, <2>1 DEF Queued
  <2>2. ASSUME NEW g \in Handlers, Queued(g), g # h PROVE Queued(g)'
    <3>1. PICK i \in DOMAIN msg_queue : msg_queue[i] = g
      BY <2>2 DEF Queued
    <3>2. i # 1
      BY <1>2, <2>2, <3>1
    <3>3. i - 1 \in DOMAIN msg_queue' /\ msg_queue'[i - 1] = msg_queue[(i - 1) + 1]
      BY <1>2, <3>1, <3>2
    <3>4. (i - 1) + 1 = i
      BY <1>2, <3>1
    <3>5. QED
      BY <3>1, <3>3, <3>4 DEF Queued
  <2>3. QED
    BY <2>1, <2>2
<1>6. \A g \in Handlers : Running(g)' <=> Running(g) \/ g = h
  BY <1>1, <1>2 DEF Running
<1>7. \A i, j \in DOMAIN msg_queue' :
        msg_queue'[i] = msg_queue'[j] /\ msg_queue'[i] # Null => i = j
  <2>1. TAKE i, j \in DOMAIN msg_queue'
  <2>2. HAVE msg_queue'[i] = msg_queue'[j] /\ msg_queue'[i] # Null
  <2>3. i + 1 = j + 1
    BY <1>2, <2>2 DEF OneInPool
  <2>4. QED
    BY <1>2, <2>3
<1>8. \A v, u \in Workers : job'[v] = job'[u] /\ job'[v] # Null => v = u
  BY <1>1, <1>3 DEF OneInPool, Running
<1>9. QED
  BY <1>1, <1>2, <1>3, <1>5, <1>6, <1>7, <1>8 DEF OneInPool, Pending

\* A thread that is done with its handler no longer has it, nor has any other.
LEMMA ReturnPlaces ==
  ASSUME CountInv, OneInPool, NEW w \in Workers, Return(w)
  PROVE  /\ OneInPool'
         /\ job[w] \in Handlers
         /\ Pending(job[w])
         /\ \A g \in Handlers : Pending(g)' <=> Pending(g) /\ g # job[w]
         /\ \A v \in Workers : v # w => thread'[v] = thread[v] /\ job'[v] = job[v]
<1> USE PoolAssumption
<1>1. /\ job \in [Workers -> Blocks]
      /\ job[w] \in Handlers
      /\ job' = [job EXCEPT ![w] = Null]
      /\ thread' = [thread EXCEPT ![w] = "getq"]
      /\ msg_queue' = msg_queue
  BY DEF CountInv, PoolTypeOK, CounterExact, Return, Blocks
<1>2. \A g \in Handlers : Queued(g)' <=> Queued(g)
  BY <1>1 DEF Queued
<1>3. \A g \in Handlers : Running(g)' <=> Running(g) /\ g # job[w]
  BY <1>1 DEF Running, OneInPool
<1>4. Running(job[w]) /\ ~Queued(job[w])
  BY <1>1 DEF Running, OneInPool
<1>5. \A v, u \in Workers : job'[v] = job'[u] /\ job'[v] # Null => v = u
  BY <1>1 DEF OneInPool
<1>6. \A v \in Workers : v # w => thread'[v] = thread[v] /\ job'[v] = job[v]
  BY <1>1 DEF CountInv, PoolTypeOK
<1>7. OneInPool'
  BY <1>1, <1>2, <1>3, <1>5 DEF OneInPool
<1>8. QED
  BY <1>1, <1>2, <1>3, <1>4, <1>6, <1>7 DEF Pending

\* The steps of the pool that concern no handler leave every handler, and
\* every thread in handle_input(), where it is.
Machinery ==
  \/ \E S \in SUBSET Workers : Start(S)
  \/ StopRead \/ StopStep \/ CancelAll
  \/ \E w \in Workers : SvcCancelled(w) \/ SvcEnter(w) \/ Exit(w)

LEMMA MachineryPlaces ==
  ASSUME CountInv, OneInPool, Machinery
  PROVE  /\ OneInPool'
         /\ job' = job
         /\ \A g \in Handlers : Pending(g)' <=> Pending(g)
         /\ \A v \in Workers : thread[v] = "input" <=> thread'[v] = "input"
<1> USE PoolAssumption
<1>1. /\ msg_queue \in Seq(Blocks)
      /\ job \in [Workers -> Blocks]
      /\ thread \in [Workers -> ThreadStates]
  BY DEF CountInv, PoolTypeOK, Blocks
<1>2. job' = job
  BY DEF Machinery, Start, StopRead, StopStep, StopPost, StopPosted, StopReturn,
         CancelAll, SvcCancelled, SvcEnter, Exit
<1>3. \A v \in Workers : thread[v] = "input" <=> thread'[v] = "input"
  BY <1>1 DEF Machinery, Start, StopRead, StopStep, StopPost, StopPosted,
         StopReturn, CancelAll, SvcCancelled, SvcEnter, Exit, ThreadStates
<1>4. \A g \in Handlers : Running(g)' <=> Running(g)
  BY <1>2 DEF Running
<1> DEFINE QueueKept ==
      /\ \A g \in Handlers : Queued(g)' <=> Queued(g)
      /\ \A i, j \in DOMAIN msg_queue' :
           msg_queue'[i] = msg_queue'[j] /\ msg_queue'[i] # Null => i = j
<1>5. ASSUME QueueKept
      PROVE  OneInPool' /\ \A g \in Handlers : Pending(g)' <=> Pending(g)
  <2>1. \A v, u \in Workers : job'[v] = job'[u] /\ job'[v] # Null => v = u
    BY <1>2 DEF OneInPool
  <2>2. OneInPool'
    BY <1>4, <1>5, <2>1 DEF OneInPool
  <2>3. QED
    BY <1>4, <1>5, <2>2 DEF Pending
<1>6. CASE msg_queue' = msg_queue
  <2>1. QueueKept
    BY <1>6 DEF OneInPool, Queued
  <2>2. QED
    BY <1>2, <1>3, <1>5, <2>1
<1>7. CASE StopPost
  <2>1. /\ msg_queue' = Append(msg_queue, Null)
        /\ DOMAIN msg_queue' = DOMAIN msg_queue \cup {Len(msg_queue) + 1}
        /\ \A i \in DOMAIN msg_queue : msg_queue'[i] = msg_queue[i]
        /\ msg_queue'[Len(msg_queue) + 1] = Null
    BY <1>1, <1>7, EnqueueFacts DEF StopPost, Blocks
  <2>2. \A g \in Handlers : Queued(g)' <=> Queued(g)
    BY <2>1 DEF Queued
  <2>3. \A i, j \in DOMAIN msg_queue' :
          msg_queue'[i] = msg_queue'[j] /\ msg_queue'[i] # Null => i = j
    BY <2>1 DEF OneInPool
  <2>4. QueueKept
    BY <2>2, <2>3
  <2>5. QED
    BY <1>2, <1>3, <1>5, <2>4
<1>8. CASE \E w \in Workers : Exit(w)
  <2>1. /\ msg_queue[1] = Null
        /\ msg_queue' = Tail(msg_queue)
        /\ Len(msg_queue) \in Nat \ {0}
        /\ DOMAIN msg_queue = 1 .. Len(msg_queue)
        /\ DOMAIN msg_queue' = 1 .. (Len(msg_queue) - 1)
        /\ \A i \in DOMAIN msg_queue' :
             i + 1 \in DOMAIN msg_queue /\ msg_queue'[i] = msg_queue[i + 1]
    BY <1>1, <1>8, DequeueFacts DEF Exit
  <2>2. ASSUME NEW g \in Handlers, Queued(g) PROVE Queued(g)'
    <3>1. PICK i \in DOMAIN msg_queue : msg_queue[i] = g
      BY <2>2 DEF Queued
    <3>2. i # 1
      BY <2>1, <3>1
    <3>3. i - 1 \in DOMAIN msg_queue' /\ msg_queue'[i - 1] = msg_queue[(i - 1) + 1]
      BY <2>1, <3>1, <3>2
    <3>4. (i - 1) + 1 = i
      BY <2>1, <3>1
    <3>5. QED
      BY <3>1, <3>3, <3>4 DEF Queued
  <2>3. ASSUME NEW g \in Handlers, Queued(g)' PROVE Queued(g)
    BY <2>1, <2>3 DEF Queued
  <2>4. ASSUME NEW i \in DOMAIN msg_queue', NEW j \in DOMAIN msg_queue',
               msg_queue'[i] = msg_queue'[j], msg_queue'[i] # Null
        PROVE  i = j
    <3>1. i + 1 = j + 1
      BY <2>1, <2>4 DEF OneInPool
    <3>2. QED
      BY <2>1, <2>4, <3>1
  <2>5. QueueKept
    BY <2>2, <2>3, <2>4
  <2>6. QED
    BY <1>2, <1>3, <1>5, <2>5
<1>9. (msg_queue' = msg_queue) \/ StopPost \/ \E w \in Workers : Exit(w)
  BY DEF Machinery, Start, StopRead, StopStep, StopPosted, StopReturn,
         CancelAll, SvcCancelled, SvcEnter
<1>10. QED
  BY <1>2, <1>3, <1>6, <1>7, <1>8, <1>9

-----------------------------------------------------------------------------
(* The inductive invariant of the handlers. *)

\* Where a handler is, whether it is alive and whether its timer runs go
\* together; a freed handler in the pool is one whose timer has fired; no
\* timer can find a handler idle in the pool that is served promptly.
ConnInv ==
  /\ ConnTypeOK
  /\ OneInPool
  /\ \A h \in registered : Live(h) /\ ~Pending(h)
  /\ \A h \in Handlers : Pending(h) => h \in opened
  /\ \A h \in Handlers : Freed(h) => h \in opened
  /\ \A w \in closing : thread[w] = "input"
  /\ TimerWhileAlive
  /\ NeverStranded
  /\ TouchedOnlyAfterTimeout
  /\ \A h \in Handlers : Pending(h) /\ Freed(h) => h \in expired
  /\ \A h \in Handlers \ Slow : Pending(h) => Live(h) /\ h \notin idle

\* Nothing is open at the start.
LEMMA ConnInitInv == ConnInit => ConnInv
<1> SUFFICES ASSUME ConnInit PROVE ConnInv
  OBVIOUS
<1>1. /\ msg_queue = <<>>
      /\ \A w \in Workers : job[w] = Null
      /\ \A h \in Handlers : frees[h] = 0
  BY DEF ConnInit, PoolInit
<1>2. \A h \in Handlers : ~Queued(h) /\ ~Running(h) /\ ~Freed(h)
  BY <1>1, PoolAssumption DEF Queued, Running, Freed
<1>3. OneInPool
  BY <1>1, <1>2 DEF OneInPool
<1>4. ConnTypeOK
  BY DEF ConnInit, ConnTypeOK
<1>5. QED
  BY <1>1, <1>2, <1>3, <1>4
     DEF ConnInit, ConnInv, Live, Pending, TimerWhileAlive, NeverStranded,
         TouchedOnlyAfterTimeout

\* Every step of the handlers is a step of the pool, or leaves the pool
\* alone: a handler is never queued while the pool still has it.
LEMMA ConnStepPool ==
  CountInv /\ ConnInv /\ [ConnNext]_vars => [PoolNext]_poolVars
<1> SUFFICES ASSUME CountInv, ConnInv, [ConnNext]_vars PROVE [PoolNext]_poolVars
  OBVIOUS
<1>1. ASSUME NEW h \in Handlers, HandleInput(h) PROVE PoolNext
  BY <1>1 DEF HandleInput, ConnInv, PoolNext
<1>2. CASE PoolOnly
  BY <1>2 DEF PoolOnly, PoolNext
<1>3. ASSUME NEW w \in Workers, ThreadStep(w) PROVE [PoolNext]_poolVars
  BY <1>3 DEF ThreadStep, Dispatch, Serve, EndSession, Destroy, PoolNext
<1>4. ASSUME NEW h \in Handlers,
             \/ Send(h) \/ HangUp(h) \/ Quiet(h) \/ Open(h) \/ OpenFails(h)
             \/ TimeoutRegistered(h) \/ TimeoutInPool(h) \/ ReactorClose(h)
      PROVE  UNCHANGED poolVars
  BY <1>4 DEF Send, HangUp, Quiet, Open, OpenFails, TimeoutRegistered,
              TimeoutInPool, ReactorClose
<1>5. QED
  BY <1>1, <1>2, <1>3, <1>4 DEF ConnNext, vars

\* Steps that leave the pool alone leave every handler in it where it is.
LEMMA SamePlaces ==
  ASSUME OneInPool, UNCHANGED poolVars
  PROVE  OneInPool' /\ \A g \in Handlers : Pending(g)' <=> Pending(g)
  BY DEF poolVars, OneInPool, Pending, Queued, Running

\* A step of the client or of the clock keeps the invariant.
LEMMA ClientStep ==
  ASSUME ConnInv, NEW h \in Handlers, Send(h) \/ HangUp(h) \/ Quiet(h)
  PROVE  ConnInv'
<1>1. /\ UNCHANGED <<poolVars, opened, registered, timer, closing, frees,
                      expired, touched, aborted>>
      /\ readable' \subseteq Handlers
      /\ hungup' \subseteq Handlers
      /\ idle' \subseteq Handlers
      /\ \/ idle' = idle
         \/ (h \in Slow \/ ~Pending(h)) /\ idle' = idle \cup {h}
  BY DEF Send, HangUp, Quiet, ConnInv, ConnTypeOK
<1>2. OneInPool' /\ \A g \in Handlers : Pending(g)' <=> Pending(g)
  BY <1>1, SamePlaces DEF ConnInv
<1>3. \A g \in Handlers : (Live(g)' <=> Live(g)) /\ (Freed(g)' <=> Freed(g))
  BY <1>1 DEF Live, Freed
<1>4. ConnTypeOK'
  BY <1>1 DEF ConnInv, ConnTypeOK
<1>5. \A w \in closing' : thread'[w] = "input"
  BY <1>1 DEF ConnInv, poolVars
<1>6. \A g \in Handlers \ Slow : Pending(g)' => Live(g)' /\ g \notin idle'
  BY <1>1, <1>2, <1>3 DEF ConnInv
<1>7. \A g \in registered' : Live(g)' /\ ~Pending(g)'
  BY <1>1, <1>2, <1>3 DEF ConnInv, ConnTypeOK
<1>8. TimerWhileAlive' /\ NeverStranded' /\ TouchedOnlyAfterTimeout'
  BY <1>1, <1>2, <1>3
     DEF ConnInv, TimerWhileAlive, NeverStranded, TouchedOnlyAfterTimeout
<1>9. QED
  BY <1>1, <1>2, <1>3, <1>4, <1>5, <1>6, <1>7, <1>8 DEF ConnInv

\* A callback of the reactor that leaves the pool alone keeps the invariant.
LEMMA ReactorStep ==
  ASSUME ConnInv, NEW h \in Handlers,
         \/ Open(h) \/ OpenFails(h)
         \/ TimeoutRegistered(h) \/ TimeoutInPool(h) \/ ReactorClose(h)
  PROVE  ConnInv'
<1>1. /\ UNCHANGED <<poolVars, readable, hungup, closing, idle>>
      /\ UNCHANGED poolVars
  BY DEF Open, OpenFails, TimeoutRegistered, TimeoutInPool, ReactorClose
<1>2. OneInPool' /\ \A g \in Handlers : Pending(g)' <=> Pending(g)
  BY <1>1, SamePlaces DEF ConnInv
<1>3. \A w \in closing' : thread'[w] = "input"
  BY <1>1 DEF ConnInv, poolVars
<1>4. /\ ConnTypeOK
      /\ frees \in [Handlers -> Nat]
      /\ \A g \in Handlers : g \notin opened => frees[g] = 0 /\ ~Pending(g)
  BY DEF ConnInv, ConnTypeOK, Freed
<1> USE DEF ConnInv, TimerWhileAlive, NeverStranded, TouchedOnlyAfterTimeout,
            Live, Freed
<1>5. CASE Open(h)
  <2>1. ConnTypeOK'
    BY <1>4, <1>5 DEF Open, ConnTypeOK
  <2>2. QED
    BY <1>1, <1>2, <1>3, <1>4, <1>5, <2>1 DEF Open, ConnTypeOK
<1>6. CASE OpenFails(h)
  <2>1. ConnTypeOK'
    BY <1>4, <1>6 DEF OpenFails, ConnTypeOK
  <2>2. \A g \in Handlers : frees'[g] = IF g = h THEN 1 ELSE frees[g]
    BY <1>4, <1>6 DEF OpenFails
  <2>3. QED
    BY <1>1, <1>2, <1>3, <1>4, <1>6, <2>1, <2>2 DEF OpenFails, ConnTypeOK
<1>7. CASE TimeoutRegistered(h)
  <2>1. ConnTypeOK'
    BY <1>4, <1>7 DEF TimeoutRegistered, ConnTypeOK
  <2>2. QED
    BY <1>1, <1>2, <1>3, <1>4, <1>7, <2>1 DEF TimeoutRegistered, ConnTypeOK
<1>8. CASE TimeoutInPool(h)
  <2>1. ~Freed(h) /\ UNCHANGED <<touched, aborted>>
    BY <1>4, <1>8 DEF TimeoutInPool, Touch
  <2>2. ConnTypeOK'
    BY <1>4, <1>8, <2>1 DEF TimeoutInPool, ConnTypeOK
  <2>3. Pending(h) /\ h \in Slow
    BY <1>8, ConnAssumption DEF TimeoutInPool
  <2>4. \A g \in Handlers : frees'[g] = IF g = h THEN 1 ELSE frees[g]
    BY <1>4, <1>8, <2>1 DEF TimeoutInPool
  <2>5. QED
    BY <1>1, <1>2, <1>3, <1>4, <1>8, <2>1, <2>2, <2>3, <2>4
       DEF TimeoutInPool, ConnTypeOK
<1>9. CASE ReactorClose(h)
  <2>1. ConnTypeOK'
    BY <1>4, <1>9 DEF ReactorClose, ConnTypeOK
  <2>2. /\ \A g \in Handlers : frees'[g] = IF g = h THEN 1 ELSE frees[g]
        /\ ~Pending(h)
    BY <1>4, <1>9 DEF ReactorClose
  <2>3. QED
    BY <1>1, <1>2, <1>3, <1>4, <1>9, <2>1, <2>2 DEF ReactorClose, ConnTypeOK
<1>10. QED
  BY <1>5, <1>6, <1>7, <1>8, <1>9

\* The reactor hands a handler over to the pool.
LEMMA HandOverStep ==
  ASSUME CountInv, ConnInv, NEW h \in Handlers, HandleInput(h) PROVE ConnInv'
<1>1. /\ h \in registered /\ ~Pending(h) /\ Live(h)
      /\ Enqueue(h)
      /\ idle' = idle \ {h}
      /\ registered' = registered \ {h}
      /\ UNCHANGED <<opened, timer, readable, hungup, closing, frees, expired,
                     touched, aborted, thread>>
  BY DEF HandleInput, Enqueue, ConnInv
<1>2. OneInPool' /\ \A g \in Handlers : Pending(g)' <=> Pending(g) \/ g = h
  BY <1>1, EnqueuePlaces DEF ConnInv
<1>3. ConnTypeOK'
  BY <1>1 DEF ConnInv, ConnTypeOK
<1>4. QED
  BY <1>1, <1>2, <1>3
     DEF ConnInv, ConnTypeOK, TimerWhileAlive, NeverStranded,
         TouchedOnlyAfterTimeout, Live, Freed

\* The machinery of the pool touches no handler.
LEMMA PoolOnlyStep == ASSUME CountInv, ConnInv, PoolOnly PROVE ConnInv'
<1>1. Machinery /\ UNCHANGED connVars
  BY DEF PoolOnly, Machinery
<1>2. /\ OneInPool'
      /\ \A g \in Handlers : Pending(g)' <=> Pending(g)
      /\ \A v \in Workers : thread[v] = "input" <=> thread'[v] = "input"
  BY <1>1, MachineryPlaces DEF ConnInv
<1>3. ConnTypeOK'
  BY <1>1 DEF ConnInv, ConnTypeOK, connVars
<1>4. QED
  BY <1>1, <1>2, <1>3
     DEF ConnInv, ConnTypeOK, TimerWhileAlive, NeverStranded,
         TouchedOnlyAfterTimeout, Live, Freed, connVars

\* What using a handler of the pool does to touched.
LEMMA TouchFacts ==
  ASSUME ConnInv, NEW h \in Handlers, Pending(h), Touch(h)
  PROVE  /\ touched' \subseteq touched \cup expired
         /\ touched \subseteq touched'
         /\ Freed(h) => h \in touched'
         /\ aborted' \in BOOLEAN
  BY DEF Touch, ConnInv, ConnTypeOK

\* A thread of the pool takes, serves, or ends a session.
LEMMA ThreadStepInv ==
  ASSUME CountInv, ConnInv, NEW w \in Workers, ThreadStep(w) PROVE ConnInv'
<1> USE DEF ConnInv, TimerWhileAlive, NeverStranded, TouchedOnlyAfterTimeout,
            Live, Freed
<1>1. /\ ConnTypeOK
      /\ frees \in [Handlers -> Nat]
      /\ closing \subseteq Workers
  BY DEF ConnTypeOK
<1>2. CASE Dispatch(w)
  <2> DEFINE h == job'[w]
  <2>1. /\ OneInPool'
        /\ \A g \in Handlers : Pending(g)' <=> Pending(g)
        /\ h \in Handlers
        /\ Pending(h)
        /\ thread[w] # "input"
        /\ \A v \in Workers : v # w => thread'[v] = thread[v]
    BY <1>2, TakePlaces DEF Dispatch
  <2>2. Touch(h) /\ idle' = idle \ {h}
    BY <1>2 DEF Dispatch
  <2>3. UNCHANGED <<opened, registered, timer, readable, hungup, closing, frees,
                    expired>>
    BY <1>2 DEF Dispatch
  <2> HIDE DEF h
  <2>4. /\ touched' \subseteq touched \cup expired
        /\ touched \subseteq touched'
        /\ aborted' \in BOOLEAN
    BY <2>1, <2>2, TouchFacts
  <2>5. ConnTypeOK'
    BY <1>1, <2>2, <2>3, <2>4 DEF ConnTypeOK
  <2>6. \A v \in closing' : thread'[v] = "input"
    BY <1>1, <2>1, <2>3
  <2>7. QED
    BY <1>1, <2>1, <2>2, <2>3, <2>4, <2>5, <2>6 DEF ConnTypeOK
<1>3. CASE Serve(w)
  <2> DEFINE h == job[w]
  <2>1. /\ OneInPool'
        /\ h \in Handlers
        /\ Pending(h)
        /\ \A g \in Handlers : Pending(g)' <=> Pending(g) /\ g # h
        /\ \A v \in Workers : v # w => thread'[v] = thread[v]
    BY <1>3, ReturnPlaces DEF Serve
  <2>2. /\ Touch(h)
        /\ w \notin closing
        /\ readable' = readable \ {h}
        /\ registered' = IF Freed(h) THEN registered ELSE registered \cup {h}
        /\ UNCHANGED <<opened, timer, idle, hungup, closing, frees, expired>>
    BY <1>3 DEF Serve
  <2> HIDE DEF h
  <2>3. /\ touched' \subseteq touched \cup expired
        /\ touched \subseteq touched'
        /\ aborted' \in BOOLEAN
    BY <2>1, <2>2, TouchFacts
  <2>4. ConnTypeOK'
    BY <1>1, <2>1, <2>2, <2>3 DEF ConnTypeOK
  <2>5. \A v \in closing' : thread'[v] = "input"
    BY <1>1, <2>1, <2>2
  <2>6. QED
    BY <1>1, <2>1, <2>2, <2>3, <2>4, <2>5 DEF ConnTypeOK
<1>4. CASE EndSession(w)
  <2> DEFINE h == job[w]
  <2>1. /\ UNCHANGED poolVars
        /\ thread[w] = "input"
        /\ Touch(h)
        /\ readable' = readable \ {h}
        /\ closing' = closing \cup {w}
        /\ UNCHANGED <<opened, registered, timer, idle, hungup, frees, expired>>
    BY <1>4 DEF EndSession
  <2>2. h \in Handlers /\ Pending(h)
    BY <2>1, PoolAssumption DEF CountInv, PoolTypeOK, CounterExact, Pending, Running
  <2>3. OneInPool' /\ \A g \in Handlers : Pending(g)' <=> Pending(g)
    BY <2>1, SamePlaces
  <2> HIDE DEF h
  <2>4. /\ touched' \subseteq touched \cup expired
        /\ touched \subseteq touched'
        /\ aborted' \in BOOLEAN
    BY <2>1, <2>2, TouchFacts
  <2>5. ConnTypeOK'
    BY <1>1, <2>1, <2>4 DEF ConnTypeOK
  <2>6. \A v \in closing' : thread'[v] = "input"
    BY <1>1, <2>1 DEF poolVars
  <2>7. QED
    BY <1>1, <2>1, <2>2, <2>3, <2>4, <2>5, <2>6 DEF ConnTypeOK
<1>5. CASE Destroy(w)
  <2> DEFINE h == job[w]
  <2>1. /\ OneInPool'
        /\ h \in Handlers
        /\ Pending(h)
        /\ \A g \in Handlers : Pending(g)' <=> Pending(g) /\ g # h
        /\ \A v \in Workers : v # w => thread'[v] = thread[v]
    BY <1>5, ReturnPlaces DEF Destroy
  <2>2. /\ Touch(h)
        /\ closing' = closing \ {w}
        /\ timer' = timer \ {h}
        /\ frees' = [frees EXCEPT ![h] = @ + 1]
        /\ UNCHANGED <<opened, registered, idle, readable, hungup, expired>>
    BY <1>5 DEF Destroy
  <2> HIDE DEF h
  <2>3. /\ touched' \subseteq touched \cup expired
        /\ touched \subseteq touched'
        /\ Freed(h) => h \in touched'
        /\ aborted' \in BOOLEAN
    BY <2>1, <2>2, TouchFacts
  <2>4. ConnTypeOK'
    BY <1>1, <2>1, <2>2, <2>3 DEF ConnTypeOK
  <2>5. \A v \in closing' : thread'[v] = "input"
    BY <1>1, <2>1, <2>2
  <2>6. /\ \A g \in Handlers : frees'[g] = IF g = h THEN frees[g] + 1 ELSE frees[g]
        /\ h \in opened /\ h \notin registered
    BY <1>1, <2>1, <2>2
  <2>7. TouchedOnlyAfterTimeout'
    BY <1>1, <2>1, <2>2, <2>3, <2>6 DEF ConnTypeOK
  <2>8. QED
    BY <1>1, <2>1, <2>2, <2>3, <2>4, <2>5, <2>6, <2>7 DEF ConnTypeOK
<1>6. QED
  BY <1>2, <1>3, <1>4, <1>5 DEF ThreadStep

\* Every step keeps the invariant of the handlers.
LEMMA ConnStep == CountInv /\ ConnInv /\ [ConnNext]_vars => ConnInv'
<1> SUFFICES ASSUME CountInv, ConnInv, [ConnNext]_vars PROVE ConnInv'
  OBVIOUS
<1>1. CASE UNCHANGED vars
  <2>1. OneInPool' /\ \A g \in Handlers : Pending(g)' <=> Pending(g)
    BY <1>1, SamePlaces DEF vars, ConnInv
  <2>2. QED
    BY <1>1, <2>1
       DEF vars, poolVars, connVars, ConnInv, ConnTypeOK, TimerWhileAlive,
           NeverStranded, TouchedOnlyAfterTimeout, Live, Freed
<1>2. QED
  BY <1>1, ClientStep, ReactorStep, HandOverStep, PoolOnlyStep, ThreadStepInv
     DEF ConnNext

-----------------------------------------------------------------------------
(* Theorems. *)

\* A connection uses the pool only as the pool expects, so what is proved of
\* the pool holds of the server: a handler is never queued while it is queued
\* or served.
THEOREM ConnUsesPool == ConnSpec => UsesPool
<1>1. ConnInit => PoolInit
  BY DEF ConnInit
<1>2. QED
  BY <1>1, ConnInitInv, CountInit, CountStep, ConnStep, ConnStepPool, PTL
     DEF ConnSpec, UsesPool, PoolSpec

\* Both invariants hold of the server.
LEMMA ConnAlways == ConnSpec => [](CountInv /\ ConnInv)
<1>1. ConnInit => PoolInit
  BY DEF ConnInit
<1>2. QED
  BY <1>1, ConnInitInv, CountInit, CountStep, ConnStep, ConnStepPool, PTL
     DEF ConnSpec

\* Type correctness of the handlers.
THEOREM ConnTyped == ConnSpec => []ConnTypeOK
<1>1. ConnInv => ConnTypeOK
  BY DEF ConnInv
<1>2. QED
  BY <1>1, ConnAlways, PTL

\* A handler is in one place at a time: no two threads ever run process() on
\* the same session, and the reactor never watches one that a thread has.
THEOREM ConnOnePlace == ConnSpec => []OnePlace
<1>1. ConnInv => OnePlace
  BY DEF ConnInv, OneInPool, OnePlace
<1>2. QED
  BY <1>1, ConnAlways, PTL

\* Freed handlers are used again only after handle_timeout() has found them
\* idle.
THEOREM ConnTouched == ConnSpec => []TouchedOnlyAfterTimeout
<1>1. ConnInv => TouchedOnlyAfterTimeout
  BY DEF ConnInv
<1>2. QED
  BY <1>1, ConnAlways, PTL

\* A handler that is served promptly is alive while the pool has it.
THEOREM ConnPoolLive == ConnSpec => []PoolHasLiveHandlers
<1>1. ConnInv => PoolHasLiveHandlers
  BY DEF ConnInv, PoolHasLiveHandlers
<1>2. QED
  BY <1>1, ConnAlways, PTL

\* A live handler is in the reactor or in the pool.
THEOREM ConnNeverStranded == ConnSpec => []NeverStranded
<1>1. ConnInv => NeverStranded
  BY DEF ConnInv
<1>2. QED
  BY <1>1, ConnAlways, PTL

\* The idle timer of a handler is scheduled exactly while the handler is
\* alive: ~chromatic_handler() cancels it, whoever runs "delete this".
THEOREM ConnTimer == ConnSpec => []TimerWhileAlive
<1>1. ConnInv => TimerWhileAlive
  BY DEF ConnInv
<1> QED
  BY <1>1, ConnAlways, PTL
=============================================================================
