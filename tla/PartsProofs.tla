----------------------------- MODULE PartsProofs -----------------------------
(***************************************************************************)
(* Theorems about the parts that share no state with the others: the       *)
(* connections that have a thread each, the statements of OemoDbManip, for *)
(* any kinds and number of them, the timer services, for any services,     *)
(* limits and number of directives, and the threads of the Windows         *)
(* service.                                                                *)
(***************************************************************************)
EXTENDS ConnectionThread, DbCommands, TimerService, MessageService, TLAPS

-----------------------------------------------------------------------------
(* A connection with a thread of its own. *)

(* The invariant counts.  A handler is freed once by the timer, if that has *)
(* run for it, and once by its own thread, if that has ended: which of the  *)
(* two came first does not matter, and nothing else frees it.               *)
Counted(h) ==
  /\ frees[h] = (IF h \in expired THEN 1 ELSE 0)
                  + (IF place[h] = "ended" THEN 1 ELSE 0)
  /\ h \in expired => place[h] # "none"
  /\ h \in timer <=> Live(h)
  /\ h \in touched => h \in expired
  /\ IF place[h] \in {"destroy", "ended"}
     THEN managers[h] = 1 \/ h \in expired
     ELSE managers[h] = 0

ThreadInv ==
  /\ ThreadTypeOK
  /\ \A h \in Handlers : Counted(h)

LEMMA ThreadInvInit == ThreadInit => ThreadInv
<1> SUFFICES ASSUME ThreadInit
             PROVE  ThreadInv
  OBVIOUS
<1>1. ThreadTypeOK
  <2>1. place \in [Handlers -> {"none", "recv", "perform", "asleep", "close",
                               "destroy", "ended"}]
    BY DEF ThreadInit
  <2>2. managers \in [Handlers -> 0 .. 1] /\ frees \in [Handlers -> 0 .. 2]
    BY DEF ThreadInit
  <2>3. expired = {} /\ touched = {} /\ aborted \in BOOLEAN
    BY DEF ThreadInit
  <2> QED
    BY <2>1, <2>2, <2>3 DEF ThreadInit, ThreadTypeOK
<1>2. ASSUME NEW h \in Handlers
      PROVE  Counted(h)
  BY DEF ThreadInit, Counted, Live, Freed
<1> QED
  BY <1>1, <1>2 DEF ThreadInv

\* A step keeps the range of the variables and the count of every handler.
LEMMA ThreadInvNext == ThreadInv /\ [ThreadNext]_vars => ThreadInv'
<1> SUFFICES ASSUME ThreadInv, [ThreadNext]_vars
             PROVE  ThreadInv'
  OBVIOUS
<1> USE DEF ThreadInv, ThreadTypeOK, Counted, Live, Freed
<1>1. ASSUME NEW h \in Handlers, Send(h) \/ HangUp(h) \/ Elapse(h)
      PROVE  ThreadInv'
  BY <1>1 DEF Send, HangUp, Elapse, memory, client, clock
<1>2. ASSUME NEW h \in Handlers, Open(h)
      PROVE  ThreadInv'
  BY <1>2 DEF Open, Move, memory, client
<1>3. ASSUME NEW h \in Handlers, OpenFails(h)
      PROVE  ThreadInv'
  BY <1>3 DEF OpenFails, Move, clock, client
<1>4. ASSUME NEW h \in Handlers, Timeout(h)
      PROVE  ThreadInv'
  BY <1>4 DEF Timeout, client
<1>5. ASSUME NEW h \in Handlers, Receive(h)
      PROVE  ThreadInv'
  BY <1>5 DEF Receive, Move, memory
<1>6. ASSUME NEW h \in Handlers,
             RecvNothing(h) \/ Perform(h) \/ PerformEnds(h) \/ Wake(h)
      PROVE  ThreadInv'
  BY <1>6 DEF RecvNothing, Perform, PerformEnds, Wake, Move, Touch, clock, client
<1>7. ASSUME NEW h \in Handlers, Close(h)
      PROVE  ThreadInv'
  BY <1>7 DEF Close, Move, Touch, clock, client
<1>8. ASSUME NEW h \in Handlers, Destroy(h)
      PROVE  ThreadInv'
  BY <1>8 DEF Destroy, Move, Touch, client
<1>9. CASE UNCHANGED vars
  BY <1>9 DEF vars, client, clock, memory
<1> QED
  BY <1>1, <1>2, <1>3, <1>4, <1>5, <1>6, <1>7, <1>8, <1>9
  DEF ThreadNext, ThreadStep

LEMMA ThreadInvariant == ThreadSpec => []ThreadInv
BY ThreadInvInit, ThreadInvNext, PTL DEF ThreadSpec

\* Every variable keeps its range; in particular a handler is freed at most
\* twice, and its manager deleted at most once.
THEOREM ThreadTyped == ThreadSpec => []ThreadTypeOK
<1>1. ThreadInv => ThreadTypeOK
  BY DEF ThreadInv
<1> QED
  BY <1>1, ThreadInvariant, PTL

\* Memory that has been freed is used, or freed again, only for a handler
\* the idle timer destroyed.
THEOREM MisuseNeedsTimeout == ThreadSpec => []MisusedOnlyAfterTimeout
<1>1. ThreadInv => MisusedOnlyAfterTimeout
  BY DEF ThreadInv, ThreadTypeOK, Counted, MisusedOnlyAfterTimeout
<1> QED
  BY <1>1, ThreadInvariant, PTL

\* The timer of a handler is scheduled exactly while the handler is alive.
THEOREM TimerIsAlive == ThreadSpec => []TimerWhileAlive
<1>1. ThreadInv => TimerWhileAlive
  BY DEF ThreadInv, Counted, TimerWhileAlive
<1> QED
  BY <1>1, ThreadInvariant, PTL

\* Sessions that end by themselves, or never begin, give their manager back,
\* and their handler is freed only when its thread has ended.
THEOREM SessionsCleanUp == ThreadSpec => [](ManagerReleased /\ OutlivesThread)
<1>1. ThreadInv => ManagerReleased /\ OutlivesThread
  BY DEF ThreadInv, ThreadTypeOK, Counted, Freed, ManagerReleased, OutlivesThread
<1> QED
  BY <1>1, ThreadInvariant, PTL

-----------------------------------------------------------------------------
(* The statements. *)

LEMMA EffectsAreOfTheCall ==
  \A e \in Effects : e.call = calls /\ e.kind = kind /\ EffectsOf(e.call, e.kind) = Effects
  BY DEF Effects, EffectsOf

\* What has been answered for, and with automatic commits the statement that
\* was just executed.
Answered ==
  acknowledged \cup unsure \cup (IF phase = "executed" /\ autocommit THEN Effects ELSE {})

UpdatesAnswered == \A e \in stored : e.kind = "update" => e \in Answered

ProceduresWhole ==
  ~autocommit => \A e \in stored : e.kind = "procedure" =>
    EffectsOf(e.call, e.kind) \subseteq stored

\* What is pending is of the statement that was executed last, or will be
\* rolled back; and what a call has stored itself, with automatic commits,
\* is accounted for as soon as the call is over.
DbInv ==
  /\ acknowledged \cup unsure \subseteq stored
  /\ UpdatesAnswered
  /\ ProceduresWhole
  /\ phase = "new" => stored = {}
  /\ phase = "executed" =>
       /\ pending \subseteq Effects
       /\ alive \/ autocommit => Effects \subseteq stored \cup pending
       /\ kind = "procedure" \/ autocommit => pending = {}
  /\ phase \in {"new", "idle", "bound", "crashed"} => pending = {}

\* The steps that write nothing.
LEMMA DbQuiet ==
  ASSUME DbInv, UNCHANGED <<stored, ledger>>,
         phase # "executed", phase' # "executed", phase' # "new",
         phase = "new" \/ autocommit' = autocommit,
         phase' \in {"new", "idle", "bound", "crashed"} => pending' = {}
  PROVE  DbInv'
<1>1. UpdatesAnswered'
  BY DEF DbInv, UpdatesAnswered, Answered, ledger
<1>2. ProceduresWhole'
  BY DEF DbInv, ProceduresWhole, ledger
<1> QED
  BY <1>1, <1>2 DEF DbInv, ledger

LEMMA DbInvNext == DbInv /\ [DbNext]_dbVars => DbInv'
<1> SUFFICES ASSUME DbInv, [DbNext]_dbVars
             PROVE  DbInv'
  OBVIOUS
<1>1. CASE Initialize
  BY <1>1, DbQuiet DEF Initialize, DbInv
<1>2. CASE Execute
  BY <1>2, DbQuiet DEF Execute, ReInitialize, DbInv
<1>3. CASE BindFails \/ BadCast
  BY <1>3, DbQuiet DEF BindFails, BadCast, DbInv, link
<1>4. CASE Run
  <2>1. /\ phase = "bound" /\ phase' = "executed" /\ pending = {}
        /\ UNCHANGED <<autocommit, alive, kind, calls, acknowledged, unsure>>
        /\ Effects' = Effects
    BY <1>4 DEF Run, DbInv, link, ledger, Effects
  <2>2. /\ stored \subseteq stored' /\ stored' \subseteq stored \cup Effects
        /\ pending' \subseteq Effects /\ Effects \subseteq stored' \cup pending'
        /\ kind = "procedure" \/ autocommit => pending' = {}
        /\ ~autocommit /\ stored' # stored => Effects \subseteq stored' \/ kind = "myisam"
        /\ kind = "update" /\ ~autocommit => stored' = stored
    BY <1>4, <2>1 DEF Run, Write
  <2>3. UpdatesAnswered'
    BY <2>1, <2>2, EffectsAreOfTheCall DEF DbInv, UpdatesAnswered, Answered
  <2>4. ProceduresWhole'
    BY <2>1, <2>2, EffectsAreOfTheCall DEF DbInv, ProceduresWhole
  <2> QED
    BY <2>1, <2>2, <2>3, <2>4 DEF DbInv
<1>5. CASE RunFails
  <2>1. /\ phase = "bound" /\ phase' = "failed" /\ pending = {}
        /\ UNCHANGED <<autocommit, alive, kind, calls, acknowledged>>
    BY <1>5 DEF RunFails, DbInv, link, ledger
  <2>2. CASE UNCHANGED <<pending, stored, unsure>>
    BY <2>1, <2>2, DbQuiet DEF ledger
  <2>3. CASE ~UNCHANGED <<pending, stored, unsure>>
    <3>1. PICK done \in Remains :
            /\ Write(done)
            /\ unsure' = unsure \cup (IF Effects \subseteq stored' THEN Effects ELSE {})
      BY <1>5, <2>3 DEF RunFails
    <3>2. done \subseteq Effects /\ (kind = "update" => done \in {{}, Effects})
      BY DEF Remains
    <3>3. /\ stored \subseteq stored' /\ stored' \subseteq stored \cup done
          /\ ~autocommit /\ kind = "procedure" => stored' = stored \/ done = Effects
          /\ Effects \subseteq stored' \/ stored' = stored \/ done # Effects
      BY <2>1, <3>1 DEF Write
    <3>4. acknowledged' \cup unsure' \subseteq stored'
      BY <2>1, <3>1, <3>3 DEF DbInv
    <3>5. ASSUME NEW e \in stored', e.kind = "update"
          PROVE  e \in acknowledged' \cup unsure'
      <4>1. CASE e \in stored
        BY <2>1, <3>1, <3>5, <4>1 DEF DbInv, UpdatesAnswered, Answered
      <4>2. CASE e \notin stored
        BY <3>1, <3>2, <3>3, <3>5, <4>2, EffectsAreOfTheCall
      <4> QED
        BY <4>1, <4>2
    <3>6. UpdatesAnswered'
      BY <3>5 DEF UpdatesAnswered, Answered
    <3>7. ProceduresWhole'
      BY <2>1, <3>2, <3>3, EffectsAreOfTheCall DEF DbInv, ProceduresWhole
    <3> QED
      BY <2>1, <3>4, <3>6, <3>7 DEF DbInv
  <2> QED
    BY <2>2, <2>3
<1>6. CASE Commit
  <2>1. /\ phase = "executed" /\ phase' \in {"idle", "failed"}
        /\ UNCHANGED <<autocommit, alive, kind, calls>>
    BY <1>6 DEF Commit, link
  <2>2. CASE kind = "select"
    <3>1. Effects = {} /\ UNCHANGED <<stored, pending, acknowledged, unsure>>
      BY <1>6, <2>2 DEF Commit, ledger, Effects, EffectsOf
    <3>2. UpdatesAnswered' /\ ProceduresWhole'
      BY <2>1, <3>1 DEF DbInv, UpdatesAnswered, Answered, ProceduresWhole
    <3> QED
      BY <2>1, <3>1, <3>2 DEF DbInv
  <2>3. CASE kind # "select" /\ ~alive
    <3>1. /\ UNCHANGED <<stored, pending, acknowledged>> /\ phase' = "failed"
          /\ unsure' = IF autocommit THEN unsure \cup Effects ELSE unsure
      BY <1>6, <2>3 DEF Commit
    <3>2. UpdatesAnswered' /\ ProceduresWhole'
      BY <2>1, <3>1 DEF DbInv, UpdatesAnswered, Answered, ProceduresWhole
    <3>3. acknowledged' \cup unsure' \subseteq stored'
      BY <2>1, <3>1 DEF DbInv
    <3> QED
      BY <3>1, <3>2, <3>3 DEF DbInv
  <2>4. CASE kind # "select" /\ alive
    <3>1. /\ stored' = stored \cup pending /\ pending' = {}
          /\ acknowledged' \cup unsure' = acknowledged \cup unsure \cup Effects
      BY <1>6, <2>4 DEF Commit
    <3>2. UpdatesAnswered'
      BY <2>1, <3>1 DEF DbInv, UpdatesAnswered, Answered
    <3>3. ProceduresWhole'
      BY <2>1, <3>1, EffectsAreOfTheCall DEF DbInv, ProceduresWhole
    <3> QED
      BY <2>1, <2>4, <3>1, <3>2, <3>3 DEF DbInv
  <2> QED
    BY <2>2, <2>3, <2>4
<1>7. CASE Rollback
  BY <1>7, DbQuiet DEF Rollback, link
<1>8. CASE Break
  <2>1. Effects' = Effects
    BY <1>8 DEF Break, Effects
  <2>2. UpdatesAnswered' /\ ProceduresWhole'
    BY <1>8, <2>1 DEF Break, link, ledger, DbInv, UpdatesAnswered, Answered, ProceduresWhole
  <2> QED
    BY <1>8, <2>1, <2>2 DEF Break, link, ledger, DbInv
<1>9. CASE UNCHANGED dbVars
  <2>1. Effects' = Effects
    BY <1>9 DEF dbVars, Effects
  <2> QED
    BY <1>9, <2>1 DEF dbVars, link, ledger, DbInv, UpdatesAnswered, Answered, ProceduresWhole
<1> QED
  BY <1>1, <1>2, <1>3, <1>4, <1>5, <1>6, <1>7, <1>8, <1>9 DEF DbNext

\* Whatever fails, and whenever the connection breaks: a call that returned
\* is stored, and of a call that threw no statement on an InnoDB table is,
\* nor, if commits are not automatic, a part of a procedure, not even later.
THEOREM StatementsAreWhole == DbSpec => []StoredIsAcknowledged
<1>1. DbInit => DbInv
  BY DEF DbInit, DbInv, UpdatesAnswered, ProceduresWhole
<1>2. DbInv => StoredIsAcknowledged
  BY DEF DbInv, StoredIsAcknowledged, UpdatesAnswered, Answered, ProceduresWhole
<1> QED
  BY <1>1, <1>2, DbInvNext, PTL DEF DbSpec

-----------------------------------------------------------------------------
(* The timers. *)

\* While the directives are processed, a service that was given a limit has
\* a timer and has counted nothing.
TimerInv ==
  /\ max_timeouts_ \in [Services -> Int]
  /\ cur_timeouts_ \in [Services -> Int]
  /\ timers \in [Services -> SUBSET Int]
  /\ limited \subseteq Services
  /\ inits \in Int
  /\ loop = "configure" =>
       \A s \in limited : timers[s] # {} /\ cur_timeouts_[s] = 0
  /\ LimitIsMet

LEMMA TimerInvNext == TimerInv /\ [TimerNext]_timerVars => TimerInv'
<1> SUFFICES ASSUME TimerInv, [TimerNext]_timerVars
             PROVE  TimerInv'
  OBVIOUS
<1> USE TimerAssumption DEF TimerInv, LimitIsMet
<1>1. ASSUME NEW s \in Services, init(s)
      PROVE  TimerInv'
  BY <1>1 DEF init, SetLimit, ScheduleTimer
<1>2. ASSUME NEW s \in Services, handle_timeout(s)
      PROVE  TimerInv'
  BY <1>2 DEF handle_timeout
<1>3. CASE RunEventLoop \/ EndEventLoop
  BY <1>3 DEF RunEventLoop, EndEventLoop
<1>4. CASE UNCHANGED timerVars
  BY <1>4 DEF timerVars
<1> QED
  BY <1>1, <1>2, <1>3, <1>4 DEF TimerNext

\* A service that was given a limit never counts past it, although the test
\* is for equality and several of its timers may be due at once.
THEOREM ServicesMeetLimits == TimerSpec => []LimitIsMet
<1>1. TimerInit => TimerInv
  BY TimerAssumption DEF TimerInit, TimerInv, LimitIsMet
<1>2. TimerInv => LimitIsMet
  BY DEF TimerInv
<1> QED
  BY <1>1, <1>2, TimerInvNext, PTL DEF TimerSpec

-----------------------------------------------------------------------------
(* The service. *)

\* The data goes with the frame of svc(), after the wait, and a wait that was
\* not given up found no protocol thread running: none is created later.
DataInv ==
  /\ data = "freed" => svc = "returned"
  /\ svc \in {"return", "returned"} /\ ~timed_out => protocol \in {"none", "ended"}
  /\ "protocol" \in misused => svc = "returned" /\ timed_out

LEMMA DataInvNext == DataInv /\ [ServiceNext]_serviceVars => DataInv'
<1> SUFFICES ASSUME DataInv, [ServiceNext]_serviceVars
             PROVE  DataInv'
  OBVIOUS
<1> USE DEF DataInv, controls, threads
<1>1. CASE Request \/ SetStop \/ Notify
  BY <1>1 DEF Request, SetStop, Notify
<1>2. CASE ServiceStep
  <2>1. CASE ReadParams \/ Reset \/ TestStop \/ HandleEvents \/ Finish
    BY <2>1 DEF ReadParams, Reset, TestStop, HandleEvents, Finish, At
  <2>2. CASE CreateProtocolThread
    BY <2>2 DEF CreateProtocolThread, At
  <2>3. CASE WaitForThread
    BY <2>3 DEF WaitForThread, At
  <2>4. CASE Return
    BY <2>4 DEF Return, At
  <2> QED
    BY <1>2, <2>1, <2>2, <2>3, <2>4 DEF ServiceStep
<1>3. CASE OpenAcceptor
  BY <1>3 DEF OpenAcceptor, Uses, others
<1>4. CASE Leave \/ CancelAndWait
  BY <1>4 DEF Leave, CancelAndWait, others
<1>5. ASSUME NEW h \in Connections, Accept(h)
      PROVE  DataInv'
  BY <1>5 DEF Accept, Uses, others
<1>6. ASSUME NEW h \in Connections, Serve(h) \/ Disconnect(h)
      PROVE  DataInv'
  BY <1>6 DEF Serve, Disconnect, Uses, others
<1>7. CASE UNCHANGED serviceVars
  BY <1>7 DEF serviceVars
<1> QED
  BY <1>1, <1>2, <1>3, <1>4, <1>5, <1>6, <1>7 DEF ServiceNext

\* Only a protocol thread that took more than the five seconds svc() waits
\* for it uses OemoProtocolData after svc() has deleted it.
THEOREM DataOutlivesProtocol == ServiceSpec => []ProtocolOutlivedByData
<1>1. ServiceInit => DataInv
  BY DEF ServiceInit, DataInv
<1>2. DataInv => ProtocolOutlivedByData
  BY DEF DataInv, ProtocolOutlivedByData
<1> QED
  BY <1>1, <1>2, DataInvNext, PTL DEF ServiceSpec
=============================================================================
