-------------------------- MODULE ConnectionThread --------------------------
(***************************************************************************)
(* The life of the connection handlers (chromatic_handler) when every      *)
(* connection has a thread of its own: open() activates the handler, whose *)
(* svc() calls process() until it returns -1; ACE then calls close() on    *)
(* the same thread.  Only the idle timer runs elsewhere, in the reactor.   *)
(*                                                                         *)
(* As in ConnectionPool, frees counts the runs of "delete this" for a      *)
(* handler; what a thread does with a handler that has been freed is       *)
(* undefined: the process is aborted or goes on with what is left there.   *)
(***************************************************************************)
EXTENDS Integers

CONSTANT Handlers   \* the connections

VARIABLES
  place,     \* where the thread of a handler is: "none" before open(), in
             \* "recv" or "perform" inside process(), "asleep" between two
             \* calls, in "close" or "destroy", or "ended"
  readable,  \* handlers whose socket holds a request
  hungup,    \* handlers whose client has closed the connection
  timer,     \* handlers whose idle timer is scheduled
  due,       \* handlers whose timer has reached m_maximumTimeToWait
  managers,  \* how often m_ptrImap of a handler has been deleted
  frees,     \* how often "delete this" has run for a handler
  expired,   \* handlers handle_timeout() has destroyed
  touched,   \* handlers used after they were freed
  aborted    \* the process has been aborted

client == <<readable, hungup>>
clock == <<timer, due>>
memory == <<managers, frees, expired, touched, aborted>>
vars == <<place, client, clock, memory>>

ThreadInit ==
  /\ place = [h \in Handlers |-> "none"]
  /\ readable = {}
  /\ hungup = {}
  /\ timer = {}
  /\ due = {}
  /\ managers = [h \in Handlers |-> 0]
  /\ frees = [h \in Handlers |-> 0]
  /\ expired = {}
  /\ touched = {}
  /\ aborted = FALSE

Freed(h) == frees[h] > 0
Live(h) == place[h] # "none" /\ ~Freed(h)

\* The thread of h is at p, and its next step takes it to q.
Move(h, p, q) ==
  /\ ~aborted
  /\ place[h] = p
  /\ place' = [place EXCEPT ![h] = q]

\* A use of h, which is undefined behaviour if h has been freed.
Touch(h) ==
  IF Freed(h)
  THEN touched' = touched \cup {h} /\ aborted' \in BOOLEAN
  ELSE UNCHANGED <<touched, aborted>>

-----------------------------------------------------------------------------
(* Mutated forms of the actions below, each a plausible slip in the code.   *)
(* No specification uses them.                                              *)

\* svc() deletes the handler itself before ACE calls close().
PerformEndsAndFrees(h) ==
  /\ Move(h, "perform", "close")
  /\ frees' = [frees EXCEPT ![h] = @ + 1]
  /\ Touch(h)
  /\ UNCHANGED <<client, clock, managers, expired>>

\* close() that goes straight to destroy().
CloseKeepsManager(h) ==
  /\ Move(h, "close", "destroy")
  /\ Touch(h)
  /\ UNCHANGED <<client, clock, managers, frees, expired>>

\* handle_timeout() that looks at nothing and cancels nothing.
TimeoutKeepsHandler(h) ==
  /\ ~aborted
  /\ h \in timer \cap due
  /\ timer' = timer \ {h}
  /\ UNCHANGED <<place, client, due, memory>>

-----------------------------------------------------------------------------
(* The client and the clock. *)

Send(h) ==
  /\ ~aborted
  /\ Live(h)
  /\ h \notin hungup
  /\ readable' = readable \cup {h}
  /\ UNCHANGED <<place, hungup, clock, memory>>

HangUp(h) ==
  /\ ~aborted
  /\ Live(h)
  /\ hungup' = hungup \cup {h}
  /\ UNCHANGED <<place, readable, clock, memory>>

\* m_maximumTimeToWait passes since open(): the timer is due, and due again
\* every m_maximumTimeToWait / 60 from then on.
Elapse(h) ==
  /\ ~aborted
  /\ h \in timer
  /\ due' = due \cup {h}
  /\ UNCHANGED <<place, client, timer, memory>>

-----------------------------------------------------------------------------
(* The acceptor and the reactor. *)

\* open(): the manager is made, the timer scheduled, the thread started.
Open(h) ==
  /\ Move(h, "none", "recv")
  /\ timer' = timer \cup {h}
  /\ UNCHANGED <<client, due, memory>>

\* activate() finds no thread, and the acceptor calls close().
OpenFails(h) ==
  /\ Move(h, "none", "ended")
  /\ managers' = [managers EXCEPT ![h] = @ + 1]
  /\ frees' = [frees EXCEPT ![h] = @ + 1]
  /\ UNCHANGED <<client, clock, expired, touched, aborted>>

\* handle_timeout(): nothing sets m_lastActivityTime in this mode, so the
\* handler looks idle whenever the timer is due.  It is not in the reactor,
\* remove_handler() finds nothing, and destroy() deletes it, whatever its
\* thread is doing.
Timeout(h) ==
  /\ ~aborted
  /\ h \in timer \cap due
  /\ timer' = timer \ {h}
  /\ expired' = expired \cup {h}
  /\ frees' = [frees EXCEPT ![h] = @ + 1]
  /\ UNCHANGED <<place, client, due, managers, touched, aborted>>

-----------------------------------------------------------------------------
(* The thread of a handler. *)

\* recv() in process() returns a request.
Receive(h) ==
  /\ Move(h, "recv", "perform")
  /\ ~Freed(h)
  /\ h \in readable
  /\ readable' = readable \ {h}
  /\ UNCHANGED <<hungup, timer, due, memory>>

\* recv() times out, finds the connection closed by the client, or fails
\* because the handler has been destroyed: process() returns 0.
RecvNothing(h) ==
  /\ Move(h, "recv", "asleep")
  /\ Freed(h) \/ h \notin readable
  /\ Touch(h)
  /\ UNCHANGED <<client, clock, managers, frees, expired>>

\* perform(): the request is served, and svc() sleeps for 50 ms.
Perform(h) ==
  /\ Move(h, "perform", "asleep")
  /\ Touch(h)
  /\ UNCHANGED <<client, clock, managers, frees, expired>>

\* logout, ctrl-c or ctrl-z: process() and svc() return -1.
PerformEnds(h) ==
  /\ Move(h, "perform", "close")
  /\ Touch(h)
  /\ UNCHANGED <<client, clock, managers, frees, expired>>

Wake(h) ==
  /\ Move(h, "asleep", "recv")
  /\ Touch(h)
  /\ UNCHANGED <<client, clock, managers, frees, expired>>

\* close() deletes the manager if m_ptrImap is set: what is left of it in a
\* handler that has been freed is anything.
Close(h) ==
  /\ Move(h, "close", "destroy")
  /\ \/ managers' = [managers EXCEPT ![h] = @ + 1]
     \/ Freed(h) /\ UNCHANGED managers
  /\ Touch(h)
  /\ UNCHANGED <<client, clock, frees, expired>>

\* destroy(): nothing to remove from the reactor; "delete this" cancels the
\* timer, and the thread ends.
Destroy(h) ==
  /\ Move(h, "destroy", "ended")
  /\ timer' = timer \ {h}
  /\ frees' = [frees EXCEPT ![h] = @ + 1]
  /\ Touch(h)
  /\ UNCHANGED <<client, due, managers, expired>>

-----------------------------------------------------------------------------
ThreadStep(h) ==
  \/ Receive(h) \/ RecvNothing(h) \/ Perform(h) \/ PerformEnds(h)
  \/ Wake(h) \/ Close(h) \/ Destroy(h)

ThreadNext ==
  \E h \in Handlers :
    \/ Send(h) \/ HangUp(h) \/ Elapse(h)
    \/ Open(h) \/ OpenFails(h) \/ Timeout(h)
    \/ ThreadStep(h)

ThreadSpec == ThreadInit /\ [][ThreadNext]_vars

\* The system runs every thread, recv() waits 50 seconds at most, time
\* passes, and the reactor looks at every timer that is due.
ThreadFairness ==
  \A h \in Handlers :
    WF_vars(ThreadStep(h)) /\ WF_vars(Elapse(h)) /\ WF_vars(Timeout(h))

ThreadFairSpec == ThreadSpec /\ ThreadFairness

-----------------------------------------------------------------------------
(* Properties. *)

\* The range of every variable.
ThreadTypeOK ==
  /\ place \in [Handlers -> {"none", "recv", "perform", "asleep", "close",
                             "destroy", "ended"}]
  /\ readable \subseteq Handlers /\ hungup \subseteq Handlers
  /\ timer \subseteq Handlers /\ due \subseteq Handlers
  /\ managers \in [Handlers -> 0 .. 1]
  /\ frees \in [Handlers -> 0 .. 2]
  /\ expired \subseteq Handlers /\ touched \subseteq Handlers
  /\ aborted \in BOOLEAN

\* A thread uses memory that has been freed, or frees it again, only after
\* the idle timer destroyed its handler.
MisusedOnlyAfterTimeout ==
  /\ touched \subseteq expired
  /\ \A h \in Handlers : frees[h] > 1 => h \in expired

\* Whoever frees a handler first leaves nothing that fires on it later: its
\* timer is scheduled exactly while it is alive.
TimerWhileAlive == \A h \in Handlers : h \in timer <=> Live(h)

\* A session that no timer destroyed gives its manager, and with it the
\* database connection, back once and before its handler is gone.
ManagerReleased ==
  \A h \in Handlers : Freed(h) /\ h \notin expired => managers[h] = 1

\* A handler that no timer destroyed outlives its thread.
OutlivesThread ==
  \A h \in Handlers :
    Freed(h) /\ h \notin expired => place[h] = "ended"

\* A client that hangs up without a word does not keep its connection for
\* ever: its thread never notices, but the timer destroys the handler.
HungUpIsReleased ==
  \A h \in Handlers : h \in hungup ~> (Freed(h) \/ aborted)
=============================================================================
