--------------------------- MODULE MessageService ---------------------------
(***************************************************************************)
(* Starting and stopping the Windows predecessor: the service's svc(), the *)
(* control request that stops it, the protocol thread it creates, and the  *)
(* detached threads of the connections.                                    *)
(*                                                                         *)
(* The service thread owns OemoProtocolData, the protocol thread the       *)
(* acceptor and the reactor, on their stacks: what is used after its owner *)
(* has returned is recorded in misused.                                    *)
(***************************************************************************)
EXTENDS Integers

CONSTANT Connections   \* the connections

VARIABLES
  mode,       \* "service", or "debug": run with -d, stopped with Ctrl+C
  stop_,      \* stop_
  control,    \* handle_control(): "idle", "stop", "notify" or "done"
  notified,   \* the reactor of the service has been notified
  svc,        \* where svc() is
  finished,   \* g_dwFinished
  timed_out,  \* WaitForSingleObject() gave up
  protocol,   \* OemoProtocolThreadProc(): "none", "open", "serve", "cancel", "ended"
  handlers,   \* the thread of a connection: "none", "serving" or "ended"
  data,       \* OemoProtocolData: "none", "live" or "freed"
  misused     \* who used what was gone: "protocol" or "handler"

controls == <<mode, control>>
threads == <<protocol, handlers>>
serviceVars ==
  <<controls, stop_, notified, svc, finished, timed_out, threads, data, misused>>

ServiceInit ==
  /\ mode \in {"service", "debug"}
  /\ stop_ = FALSE
  /\ control = "idle"
  /\ notified = FALSE
  /\ svc = "params"
  /\ finished = FALSE
  /\ timed_out = FALSE
  /\ protocol = "none"
  /\ handlers = [h \in Connections |-> "none"]
  /\ data = "none"
  /\ misused = {}

-----------------------------------------------------------------------------
(* The control request. *)

\* The service manager sends it no sooner than SERVICE_RUNNING is reported;
\* Ctrl+C may come as soon as ConsoleHandler() is set, before svc() begins.
Stoppable == mode = "debug" \/ svc \notin {"params", "failed"}

Request ==
  /\ control = "idle" /\ Stoppable
  /\ control' = "stop"
  /\ UNCHANGED <<mode, stop_, notified, svc, finished, timed_out, threads, data, misused>>

SetStop ==
  /\ control = "stop" /\ control' = "notify"
  /\ stop_' = TRUE
  /\ UNCHANGED <<mode, notified, svc, finished, timed_out, threads, data, misused>>

\* Mutated form of the next definition: the reactor is not woken.
NoNotify ==
  /\ control = "notify" /\ control' = "done"
  /\ UNCHANGED <<mode, stop_, notified, svc, finished, timed_out, threads, data, misused>>

Notify ==
  /\ control = "notify" /\ control' = "done"
  /\ notified' = TRUE
  /\ UNCHANGED <<mode, stop_, svc, finished, timed_out, threads, data, misused>>

-----------------------------------------------------------------------------
(* svc() of the service. *)

At(from, to) == svc = from /\ svc' = to /\ UNCHANGED controls

ReadParams ==
  /\ At("params", "running") \/ At("params", "failed")
  /\ UNCHANGED <<stop_, notified, finished, timed_out, threads, data, misused>>

\* stop_ = 0, after the service has been reported to run.
Reset ==
  /\ At("running", "create")
  /\ stop_' = FALSE
  /\ data' = "live"
  /\ UNCHANGED <<notified, finished, timed_out, threads, misused>>

\* CreateThread() may fail, which is not looked at.
CreateProtocolThread ==
  /\ At("create", "loop")
  /\ protocol' \in {"none", "open"}
  /\ UNCHANGED <<stop_, notified, finished, timed_out, handlers, data, misused>>

TestStop ==
  /\ At("loop", IF stop_ THEN "finish" ELSE "events")
  /\ UNCHANGED <<stop_, notified, finished, timed_out, threads, data, misused>>

\* handle_events() has nothing but a notification to wait for.
HandleEvents ==
  /\ At("events", "loop")
  /\ notified
  /\ notified' = FALSE
  /\ UNCHANGED <<stop_, finished, timed_out, threads, data, misused>>

Finish ==
  /\ At("finish", "wait")
  /\ finished' = TRUE
  /\ UNCHANGED <<stop_, notified, timed_out, threads, data, misused>>

\* Mutated form of the next definition: the thread is not waited for.
DoNotWait ==
  /\ At("wait", "return")
  /\ UNCHANGED <<stop_, notified, finished, timed_out, threads, data, misused>>

\* Five seconds for the protocol thread.
WaitForThread ==
  /\ At("wait", "return")
  /\ timed_out' = (protocol \notin {"none", "ended"})
  /\ UNCHANGED <<stop_, notified, finished, threads, data, misused>>

\* The data is deleted with the frame of svc().
Return ==
  /\ At("return", "returned")
  /\ data' = "freed"
  /\ UNCHANGED <<stop_, notified, finished, timed_out, threads, misused>>

-----------------------------------------------------------------------------
(* The protocol thread. *)

others == <<controls, stop_, notified, svc, finished, timed_out, data>>

Uses(who, gone) == misused' = IF gone THEN misused \cup {who} ELSE misused

\* open() reads the port and the size of the pool.
OpenAcceptor ==
  /\ protocol = "open"
  /\ protocol' \in {"serve", "ended"}
  /\ Uses("protocol", data = "freed")
  /\ UNCHANGED <<others, handlers>>

\* handle_events() for at most a second: a connection, or nothing.  The new
\* handler's open() reads the data and starts a detached thread.
Accept(h) ==
  /\ protocol = "serve" /\ handlers[h] = "none"
  /\ handlers' = [handlers EXCEPT ![h] = "serving"]
  /\ Uses("protocol", data = "freed")
  /\ UNCHANGED <<others, protocol>>

Leave ==
  /\ protocol = "serve" /\ finished
  /\ protocol' = "cancel"
  /\ UNCHANGED <<others, handlers, misused>>

\* cancel_all() leaves a mark that OemoHandler::svc() never tests; wait()
\* abandons detached threads, so that there is none it waits for.
CancelAndWait ==
  /\ protocol = "cancel"
  /\ protocol' = "ended"
  /\ UNCHANGED <<others, handlers, misused>>

\* A request to a handler, which may come until the process exits, some time
\* after svc() has returned: SEARCH goes through the acceptor to the data.
Serve(h) ==
  /\ handlers[h] = "serving"
  /\ Uses("handler", data = "freed" \/ protocol = "ended")
  /\ UNCHANGED <<others, threads>>

\* The client hangs up; destroy() goes to the reactor.
Disconnect(h) ==
  /\ handlers[h] = "serving"
  /\ handlers' = [handlers EXCEPT ![h] = "ended"]
  /\ Uses("handler", protocol = "ended")
  /\ UNCHANGED <<others, protocol>>

ServiceStep ==
  \/ ReadParams \/ Reset \/ CreateProtocolThread \/ TestStop \/ HandleEvents
  \/ Finish \/ WaitForThread \/ Return

ServiceNext ==
  \/ Request \/ SetStop \/ Notify
  \/ ServiceStep
  \/ OpenAcceptor \/ Leave \/ CancelAndWait
  \/ \E h \in Connections : Accept(h) \/ Serve(h) \/ Disconnect(h)

ServiceSpec == ServiceInit /\ [][ServiceNext]_serviceVars

\* Every thread is scheduled; clients need not do anything.
ServiceFairness ==
  /\ WF_serviceVars(SetStop) /\ WF_serviceVars(Notify)
  /\ WF_serviceVars(ServiceStep)
  /\ WF_serviceVars(OpenAcceptor) /\ WF_serviceVars(Leave) /\ WF_serviceVars(CancelAndWait)

ServiceFairSpec == ServiceSpec /\ ServiceFairness

-----------------------------------------------------------------------------
(* Properties. *)

\* A stop that svc() has not overwritten ends the service and its protocol
\* thread, wherever the reactor of the service is when it comes.
StopIsHonoured ==
  stop_ /\ svc \notin {"params", "running", "failed"} ~>
    svc = "returned" /\ protocol \in {"none", "ended"}

\* The protocol thread uses the data after svc() has deleted it only when it
\* took more than five seconds to end.
ProtocolOutlivedByData == "protocol" \in misused => timed_out
=============================================================================
