--------------------------- MODULE ConnectionPool ---------------------------
(***************************************************************************)
(* The life of the connection handlers (chromatic_handler) in the thread   *)
(* pool mode: the owner thread accepts connections, waits for input and    *)
(* runs the idle timers in the reactor; a readable handler is taken out of *)
(* the reactor and queued; a thread of the pool runs process() on it and   *)
(* puts it back, or deletes it when its session is over.                   *)
(*                                                                         *)
(* A handler is freed by "delete this" in destroy().  frees counts how     *)
(* often that has run: once is the end of the handler, twice is undefined  *)
(* behaviour, and so is any use of a handler that has been freed.  The     *)
(* build either aborts there or goes on; a freed address is not reused.    *)
(***************************************************************************)
EXTENDS ThreadPool

CONSTANTS
  Slow   \* the handlers that may stay in the queue, or in process(), as
         \* long as the maximum inactivity; the others are served promptly

ASSUME ConnAssumption == Slow \subseteq Handlers

VARIABLES
  opened,      \* handlers whose open() has run
  registered,  \* handlers bound in the reactor for READ
  timer,       \* handlers whose idle timer is scheduled
  idle,        \* handlers for which now - m_lastActivityTime has reached
               \* m_maximumTimeToWait
  readable,    \* handlers whose socket holds a request
  hungup,      \* handlers whose client has closed the connection
  closing,     \* threads that are in handle_close() for their job
  frees,       \* how often "delete this" has run for a handler
  expired,     \* handlers handle_timeout() has found idle
  touched,     \* handlers used after they were freed
  aborted      \* the process has been aborted

connVars == <<opened, registered, timer, idle, readable, hungup, closing,
              frees, expired, touched, aborted>>
vars == <<poolVars, connVars>>

ConnInit ==
  /\ PoolInit
  /\ opened = {}
  /\ registered = {}
  /\ timer = {}
  /\ idle = {}
  /\ readable = {}
  /\ hungup = {}
  /\ closing = {}
  /\ frees = [h \in Handlers |-> 0]
  /\ expired = {}
  /\ touched = {}
  /\ aborted = FALSE

Freed(h) == frees[h] > 0
Live(h) == h \in opened /\ ~Freed(h)

\* A use of h, which is undefined behaviour if h has been freed.
Touch(h) ==
  IF Freed(h)
  THEN touched' = touched \cup {h} /\ aborted' \in BOOLEAN
  ELSE UNCHANGED <<touched, aborted>>

-----------------------------------------------------------------------------
(* The client and the clock. *)

Send(h) ==
  /\ ~aborted
  /\ Live(h)
  /\ h \notin hungup
  /\ readable' = readable \cup {h}
  /\ UNCHANGED <<poolVars, opened, registered, timer, idle, hungup, closing,
                 frees, expired, touched, aborted>>

HangUp(h) ==
  /\ ~aborted
  /\ Live(h)
  /\ hungup' = hungup \cup {h}
  /\ UNCHANGED <<poolVars, opened, registered, timer, idle, readable, closing,
                 frees, expired, touched, aborted>>

\* m_maximumTimeToWait passes with no call of handle_input().
Quiet(h) ==
  /\ ~aborted
  /\ Live(h)
  /\ h \in Slow \/ (~Pending(h) /\ h \notin readable \cup hungup)
  /\ idle' = idle \cup {h}
  /\ UNCHANGED <<poolVars, opened, registered, timer, readable, hungup, closing,
                 frees, expired, touched, aborted>>

-----------------------------------------------------------------------------
(* Mutated forms of the actions below, each a plausible slip in the code.   *)
(* No specification uses them.                                              *)

\* handle_input() without remove_handler().
HandleInputStays(h) ==
  /\ ~aborted
  /\ h \in registered
  /\ h \in readable \cup hungup
  /\ idle' = idle \ {h}
  /\ Enqueue(h)
  /\ UNCHANGED <<opened, registered, timer, readable, hungup, closing, frees,
                 expired, touched, aborted>>

\* handle_input() that leaves the reactor and is not queued.
HandleInputUnqueued(h) ==
  /\ ~aborted
  /\ owner = "looping"
  /\ h \in registered
  /\ h \in readable \cup hungup
  /\ registered' = registered \ {h}
  /\ UNCHANGED <<poolVars, opened, timer, idle, readable, hungup, closing, frees,
                 expired, touched, aborted>>

\* handle_input() does not register the handler again.
ServeUnregistered(w) ==
  /\ ~aborted
  /\ thread[w] = "input"
  /\ w \notin closing
  /\ readable' = readable \ {job[w]}
  /\ Touch(job[w])
  /\ Return(w)
  /\ UNCHANGED <<opened, registered, timer, idle, hungup, closing, frees, expired>>

\* svc() destroys the handler after handle_close() has.
DestroyTwice(w) ==
  LET h == job[w] IN
  /\ ~aborted
  /\ w \in closing
  /\ closing' = closing \ {w}
  /\ timer' = timer \ {h}
  /\ frees' = [frees EXCEPT ![h] = @ + 2]
  /\ touched' = touched \cup {h}
  /\ aborted' \in BOOLEAN
  /\ Return(w)
  /\ UNCHANGED <<opened, registered, idle, readable, hungup, expired>>

-----------------------------------------------------------------------------
(* The owner thread: accepting, the reactor's callbacks, shutdown. *)

\* open(): the manager is made, the idle timer scheduled and the handler
\* registered for READ.
Open(h) ==
  /\ ~aborted
  /\ owner = "looping"
  /\ h \notin opened
  /\ opened' = opened \cup {h}
  /\ timer' = timer \cup {h}
  /\ registered' = registered \cup {h}
  /\ UNCHANGED <<poolVars, idle, readable, hungup, closing, frees, expired,
                 touched, aborted>>

\* open() returns -1, because the peer has no address any more or cannot be
\* registered; the acceptor calls close(), which deletes the handler.
OpenFails(h) ==
  /\ ~aborted
  /\ owner = "looping"
  /\ h \notin opened
  /\ opened' = opened \cup {h}
  /\ frees' = [frees EXCEPT ![h] = @ + 1]
  /\ UNCHANGED <<poolVars, registered, timer, idle, readable, hungup, closing,
                 expired, touched, aborted>>

\* handle_input() on the creator thread: the handler leaves the reactor and
\* is queued for the pool.
HandleInput(h) ==
  /\ ~aborted
  /\ h \in registered
  /\ h \in readable \cup hungup
  /\ idle' = idle \ {h}
  /\ registered' = registered \ {h}
  /\ Enqueue(h)
  /\ UNCHANGED <<opened, timer, readable, hungup, closing, frees, expired,
                 touched, aborted>>

\* handle_timeout() of an idle handler that is registered: remove_handler()
\* without DONT_CALL runs handle_close(), which destroys the handler, and
\* destroy() is then called on what has been freed.
TimeoutRegistered(h) ==
  /\ ~aborted
  /\ owner = "looping"
  /\ h \in timer \cap idle
  /\ h \in registered
  /\ expired' = expired \cup {h}
  /\ registered' = registered \ {h}
  /\ timer' = timer \ {h}
  /\ frees' = [frees EXCEPT ![h] = @ + 2]
  /\ touched' = touched \cup {h}
  /\ aborted' \in BOOLEAN
  /\ UNCHANGED <<poolVars, opened, idle, readable, hungup, closing>>

\* handle_timeout() of an idle handler that is out of the reactor, because
\* the pool has it: remove_handler() finds nothing, destroy() deletes.
TimeoutInPool(h) ==
  /\ ~aborted
  /\ owner = "looping"
  /\ h \in timer \cap idle
  /\ h \notin registered
  /\ expired' = expired \cup {h}
  /\ timer' = timer \ {h}
  /\ frees' = [frees EXCEPT ![h] = @ + 1]
  /\ Touch(h)
  /\ UNCHANGED <<poolVars, opened, registered, idle, readable, hungup, closing>>

\* The reactor's destructor, after stop(): handle_close() of every handler
\* that is still registered.
ReactorClose(h) ==
  /\ ~aborted
  /\ owner = "stopped"
  /\ h \in registered
  /\ registered' = registered \ {h}
  /\ timer' = timer \ {h}
  /\ frees' = [frees EXCEPT ![h] = @ + 1]
  /\ UNCHANGED <<poolVars, opened, idle, readable, hungup, closing, expired,
                 touched, aborted>>

\* Steps of the pool's machinery that concern no handler.
PoolOnly ==
  /\ ~aborted
  /\ \/ \E S \in SUBSET Workers : Start(S)
     \/ StopRead \/ StopStep \/ CancelAll
     \/ \E w \in Workers : SvcCancelled(w) \/ SvcEnter(w) \/ Exit(w)
  /\ UNCHANGED connVars

-----------------------------------------------------------------------------
(* A thread of the pool. *)

\* svc() takes a handler and calls handle_input() on it, which first sets
\* m_lastActivityTime.
Dispatch(w) ==
  /\ ~aborted
  /\ Take(w)
  /\ idle' = idle \ {job'[w]}
  /\ Touch(job'[w])
  /\ UNCHANGED <<opened, registered, timer, readable, hungup, closing, frees,
                 expired>>

\* process() returns 0 - a command was served, or recv() timed out or found
\* the connection closed - and the handler is registered again.  The socket
\* of a freed handler is closed: register_handler() fails on it.
Serve(w) ==
  LET h == job[w] IN
  /\ ~aborted
  /\ thread[w] = "input"
  /\ w \notin closing
  /\ readable' = readable \ {h}
  /\ registered' = IF Freed(h) THEN registered ELSE registered \cup {h}
  /\ Touch(h)
  /\ Return(w)
  /\ UNCHANGED <<opened, timer, idle, hungup, closing, frees, expired>>

\* process() returns -1 for logout, ctrl-c or ctrl-z, and svc() calls
\* handle_close(), which says goodbye and calls destroy().
EndSession(w) ==
  LET h == job[w] IN
  /\ ~aborted
  /\ thread[w] = "input"
  /\ w \notin closing
  /\ h \in readable
  /\ readable' = readable \ {h}
  /\ closing' = closing \cup {w}
  /\ Touch(h)
  /\ UNCHANGED <<poolVars, opened, registered, timer, idle, hungup, frees, expired>>

\* destroy(): remove_handler() finds nothing, "delete this" cancels the
\* timer, and svc() goes back to getq().
Destroy(w) ==
  LET h == job[w] IN
  /\ ~aborted
  /\ w \in closing
  /\ closing' = closing \ {w}
  /\ timer' = timer \ {h}
  /\ frees' = [frees EXCEPT ![h] = @ + 1]
  /\ Touch(h)
  /\ Return(w)
  /\ UNCHANGED <<opened, registered, idle, readable, hungup, expired>>

-----------------------------------------------------------------------------
ThreadStep(w) == Dispatch(w) \/ Serve(w) \/ EndSession(w) \/ Destroy(w)

ConnNext ==
  \/ \E h \in Handlers :
       \/ Send(h) \/ HangUp(h) \/ Quiet(h)
       \/ Open(h) \/ OpenFails(h) \/ HandleInput(h)
       \/ TimeoutRegistered(h) \/ TimeoutInPool(h) \/ ReactorClose(h)
  \/ PoolOnly
  \/ \E w \in Workers : ThreadStep(w)

ConnSpec == ConnInit /\ [][ConnNext]_vars

\* The reactor looks at every handle that is ready and at every timer that
\* is due, the system runs every thread, and process() returns: its recv()
\* waits a bounded time for a bounded request.
ConnFairness ==
  /\ \A h \in Handlers : WF_vars(HandleInput(h))
  /\ \A w \in Workers : WF_vars(ThreadStep(w))
  /\ \A w \in Workers :
       WF_vars(~aborted /\ (SvcEnter(w) \/ Exit(w)) /\ UNCHANGED connVars)
  /\ WF_vars(~aborted /\ StopStep /\ UNCHANGED connVars)

ConnFairSpec == ConnSpec /\ ConnFairness

-----------------------------------------------------------------------------
(* Properties. *)

\* The range of every variable the handlers add to those of the pool.
ConnTypeOK ==
  /\ opened \subseteq Handlers
  /\ registered \subseteq Handlers
  /\ timer \subseteq Handlers
  /\ idle \subseteq Handlers
  /\ readable \subseteq Handlers
  /\ hungup \subseteq Handlers
  /\ closing \subseteq Workers
  /\ frees \in [Handlers -> Nat]
  /\ expired \subseteq Handlers
  /\ touched \subseteq Handlers
  /\ aborted \in BOOLEAN

\* A handler is in one place at a time: in the reactor, at one place of the
\* queue, or with one thread.  So process() never runs twice at once for a
\* session, whose state has no lock.
OnePlace ==
  /\ \A h \in registered : ~Pending(h)
  /\ \A i, j \in DOMAIN msg_queue :
       msg_queue[i] = msg_queue[j] /\ msg_queue[i] # Null => i = j
  /\ \A v, w \in Workers : job[v] = job[w] /\ job[v] # Null => v = w
  /\ \A h \in Handlers : ~(Queued(h) /\ Running(h))

\* Only the idle timer makes the server use a handler it has freed: sessions
\* that end by a command, failed opens and shutdown free it once and last.
TouchedOnlyAfterTimeout ==
  /\ touched \subseteq expired
  /\ \A h \in Handlers : frees[h] > 1 => h \in touched

\* A handler that is queued or served has not been freed, if its service is
\* prompt.
PoolHasLiveHandlers == \A h \in Handlers \ Slow : Pending(h) => Live(h)

\* A handler that is still alive can be reached: it waits in the reactor, or
\* the pool has it.
NeverStranded ==
  \A h \in Handlers : Live(h) => h \in registered \/ Pending(h)

\* The idle timer of a handler is scheduled exactly while it is alive: no
\* timer fires on freed memory.
TimerWhileAlive == \A h \in Handlers : h \in timer <=> Live(h)

\* destroy(), which the class calls its actual destructor, runs once for a
\* handler.
DestroyedOnce == \A h \in Handlers : frees[h] <= 1

\* The handlers use the pool as it expects: no handler is queued twice.
UsesPool == PoolSpec

\* A request on an idle connection is read, unless the connection or the
\* server goes away first.
RequestIsRead ==
  \A h \in Handlers :
    (h \in readable \cap registered /\ Counted # {}) ~>
      (h \notin readable \/ Freed(h) \/ owner # "looping" \/ aborted)
=============================================================================
