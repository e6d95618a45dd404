---------------------------- MODULE TimerService ----------------------------
(***************************************************************************)
(* The timer services: each directive of the configuration calls init(),   *)
(* which schedules a timer in the reactor all services share; a service    *)
(* that has timed out often enough ends the event loop of all.  Several    *)
(* directives may name one service, as Timer_Service_1 is named on the     *)
(* command line and in svc.conf2.                                          *)
(***************************************************************************)
EXTENDS Integers

CONSTANTS
  Services,
  Limits,         \* what directives give for max_timeouts_, as atoi() has it
  MAX_TIMEOUTS,   \* the limit when they give 0
  Garbage,        \* what is in a variable nothing was assigned to
  MaxInits,       \* bound: directives
  MaxCount        \* bound: timeouts of a service that are counted

ASSUME TimerAssumption ==
  Limits \cup Garbage \cup {MAX_TIMEOUTS, MaxInits, MaxCount} \subseteq Int

VARIABLES
  max_timeouts_,
  cur_timeouts_,
  timers,         \* of each service: the directives whose timer is in the queue
  limited,        \* the services whose directives gave a limit
  inits,          \* directives processed
  loop            \* "configure", "failed", "run", "end" (requested) or "ended"

timerVars == <<max_timeouts_, cur_timeouts_, timers, limited, inits, loop>>

\* The constructor assigns neither number.
TimerInit ==
  /\ max_timeouts_ \in [Services -> Garbage]
  /\ cur_timeouts_ \in [Services -> Garbage]
  /\ timers = [s \in Services |-> {}]
  /\ limited = {}
  /\ inits = 0
  /\ loop = "configure"

-----------------------------------------------------------------------------
\* The limit: the argument, a default for 0, or what was there if there is
\* no argument.
SetLimit(s) ==
  \/ UNCHANGED <<max_timeouts_, limited>>
  \/ \E limit \in Limits :
       /\ max_timeouts_' = [max_timeouts_ EXCEPT ![s] = IF limit = 0 THEN MAX_TIMEOUTS ELSE limit]
       /\ limited' = limited \cup {s}

\* A timer more, whatever timers the service has.  Without it init() fails,
\* and with it the configuration.
ScheduleTimer(s) ==
  \/ /\ timers' = [timers EXCEPT ![s] = @ \cup {inits'}]
     /\ UNCHANGED loop
  \/ UNCHANGED timers /\ loop' = "failed"

\* Mutated form of the next definition: the count goes on.
InitKeepsCount(s) ==
  /\ loop = "configure" /\ inits < MaxInits
  /\ inits' = inits + 1
  /\ SetLimit(s)
  /\ ScheduleTimer(s)
  /\ UNCHANGED cur_timeouts_

init(s) ==
  /\ loop = "configure" /\ inits < MaxInits
  /\ inits' = inits + 1
  /\ SetLimit(s)
  /\ cur_timeouts_' = [cur_timeouts_ EXCEPT ![s] = 0]
  /\ ScheduleTimer(s)

RunEventLoop ==
  /\ loop = "configure" /\ inits > 0
  /\ loop' = "run"
  /\ UNCHANGED <<max_timeouts_, cur_timeouts_, timers, limited, inits>>

\* One of the timers of a service is due.  At the limit the reactor calls
\* handle_close(), which cancels all of them and asks the loop to end; the
\* other timers that are due go off all the same.
handle_timeout(s) ==
  /\ loop \in {"run", "end"} /\ timers[s] # {}
  /\ cur_timeouts_[s] < MaxCount
  /\ cur_timeouts_' = [cur_timeouts_ EXCEPT ![s] = @ + 1]
  /\ IF cur_timeouts_'[s] = max_timeouts_[s]
     THEN timers' = [timers EXCEPT ![s] = {}] /\ loop' = "end"
     ELSE UNCHANGED <<timers, loop>>
  /\ UNCHANGED <<max_timeouts_, limited, inits>>

EndEventLoop ==
  /\ loop = "end"
  /\ loop' = "ended"
  /\ UNCHANGED <<max_timeouts_, cur_timeouts_, timers, limited, inits>>

TimerNext ==
  \/ RunEventLoop \/ EndEventLoop
  \/ \E s \in Services : init(s) \/ handle_timeout(s)

TimerSpec == TimerInit /\ [][TimerNext]_timerVars

-----------------------------------------------------------------------------
(* Properties. *)

\* However many directives name a service, and so however many timers count
\* for it, it does not count past its limit, which handle_timeout() compares
\* for equality; when it has reached it, none of its timers is left and the
\* loop ends.  A service that was given no limit, or a negative one, is the
\* exception: it may time out for ever.
LimitIsMet ==
  \A s \in limited :
    max_timeouts_[s] > 0 =>
      \/ timers[s] # {} /\ cur_timeouts_[s] < max_timeouts_[s]
      \/ timers[s] = {} /\ loop \in {"failed", "end", "ended"}
=============================================================================
