----------------------------- MODULE DbCommands -----------------------------
(***************************************************************************)
(* OemoDbManip: a connection of its own or one it is given, statements     *)
(* with bound parameters, a commit after each but a select, a rollback     *)
(* after a failure.  The statements are built for Windows only.  (The      *)
(* forms of Execute() for a cache of statements and for the last statement *)
(* again do not compile, and are left out.)                                *)
(*                                                                         *)
(* The database is external; its tables are those of oemo.sql, so that     *)
(* there are four kinds of statements: "select", "update" (one statement   *)
(* on an InnoDB table), "myisam" (on tables without transactions) and      *)
(* "procedure" (on InnoDB tables, with a COMMIT of its own at its end).    *)
(* What a statement does is two effects, [call, kind, part].               *)
(***************************************************************************)
EXTENDS Integers

CONSTANTS
  Kinds,      \* of statements
  MaxCalls    \* bound: calls of Execute()

VARIABLES
  use_local,     \* UseLocal(): the connection is m_con
  initialized,   \* Initialized()
  autocommit,    \* of the connection
  alive,         \* the connection is open
  kind,          \* of the statement
  calls,         \* calls of Execute()
  phase,         \* "new", "idle", "bound", "executed", "failed" or "crashed"
  pending,       \* effects not committed
  stored,        \* effects in the database for good
  acknowledged,  \* effects of the calls that returned
  unsure         \* effects of the calls committed without an answer

link == <<use_local, initialized, autocommit>>
ledger == <<acknowledged, unsure>>
dbVars == <<link, alive, kind, calls, phase, pending, stored, ledger>>

EffectsOf(call, of) ==
  IF of = "select" THEN {} ELSE {[call |-> call, kind |-> of, part |-> p] : p \in {1, 2}}

Effects == EffectsOf(calls, kind)

DbInit ==
  /\ use_local = FALSE
  /\ initialized = FALSE
  /\ autocommit = TRUE
  /\ alive = FALSE
  /\ kind = "select"
  /\ calls = 0
  /\ phase = "new"
  /\ pending = {}
  /\ stored = {}
  /\ acknowledged = {}
  /\ unsure = {}

-----------------------------------------------------------------------------
\* Initialize(), by the constructor: nothing is thrown; a connection of its
\* own that fails is left to ReInitialize(), one it was given is not tried
\* again.  If that is open already, its commits are left as its owner had
\* them.  A library that is not found is final.
Initialize ==
  /\ phase = "new"
  /\ phase' = "idle"
  /\ \/ use_local' = TRUE /\ initialized' = TRUE /\ alive' = TRUE /\ autocommit' = FALSE
     \/ use_local' = FALSE /\ initialized' = TRUE /\ alive' = TRUE /\ autocommit' \in BOOLEAN
     \/ use_local' \in BOOLEAN /\ UNCHANGED <<initialized, alive, autocommit>>
  /\ UNCHANGED <<kind, calls, pending, stored, ledger>>

\* ReInitialize(): connects again, and leaves the commits automatic.
ReInitialize ==
  /\ use_local /\ ~initialized
  /\ initialized' = TRUE
  /\ alive' = TRUE

\* Execute() up to the statement.  It throws if there is no connection, or
\* if the last result cannot be closed.
Execute ==
  /\ phase = "idle" /\ calls < MaxCalls
  /\ calls' = calls + 1
  /\ kind' \in Kinds
  /\ \/ initialized /\ phase' = "bound" /\ UNCHANGED <<initialized, alive>>
     \/ ReInitialize /\ phase' = "bound"
     \/ UNCHANGED <<initialized, alive, phase>>
  /\ UNCHANGED <<use_local, autocommit, pending, stored, ledger>>

\* DeconstructParams(): after a failure it rolls back through
\* m_ptrConnection, which is NULL when the connection is m_con.
BindFails ==
  /\ phase = "bound"
  /\ phase' = IF use_local THEN "crashed" ELSE "failed"
  /\ UNCHANGED <<link, alive, kind, calls, pending, stored, ledger>>

\* A parameter that is no number: boost::bad_lexical_cast, which leaves
\* Execute() past the handler and its rollback.
BadCast ==
  /\ phase = "bound"
  /\ phase' = "idle"
  /\ UNCHANGED <<link, alive, kind, calls, pending, stored, ledger>>

\* The database does what is `done' of the statement: the end of a procedure
\* commits, and what has no transaction is stored at once.
Write(done) ==
  \/ /\ kind = "procedure" /\ done = Effects
     /\ stored' = stored \cup pending \cup done
     /\ pending' = {}
  \/ /\ kind # "procedure" \/ done # Effects
     /\ IF autocommit \/ kind = "myisam"
        THEN stored' = stored \cup done /\ UNCHANGED pending
        ELSE pending' = pending \cup done /\ UNCHANGED stored

Run ==
  /\ phase = "bound" /\ alive
  /\ Write(Effects)
  /\ phase' = "executed"
  /\ UNCHANGED <<link, alive, kind, calls, ledger>>

\* What is left of a statement that fails: nothing, all of it if the answer
\* was lost, and half of what is more than a statement on an InnoDB table.
Remains ==
  {{}, Effects} \cup (IF kind = "update" THEN {} ELSE {{e \in Effects : e.part = 1}})

\* The statement fails, half way perhaps, or the connection is gone.
RunFails ==
  /\ phase = "bound"
  /\ \/ /\ alive
        /\ \E done \in Remains :
             /\ Write(done)
             /\ unsure' = unsure \cup (IF Effects \subseteq stored' THEN Effects ELSE {})
     \/ UNCHANGED <<pending, stored, unsure>>
  /\ phase' = "failed"
  /\ UNCHANGED <<link, alive, kind, calls, acknowledged>>

\* A select is not followed by a commit.
Commit ==
  /\ phase = "executed"
  /\ \/ /\ kind = "select"
        /\ phase' = "idle"
        /\ UNCHANGED <<pending, stored, ledger>>
     \/ /\ kind # "select" /\ alive
        /\ stored' = stored \cup pending
        /\ pending' = {}
        /\ \/ acknowledged' = acknowledged \cup Effects /\ phase' = "idle" /\ UNCHANGED unsure
           \/ unsure' = unsure \cup Effects /\ phase' = "failed" /\ UNCHANGED acknowledged
     \/ /\ kind # "select" /\ ~alive
        /\ unsure' = IF autocommit THEN unsure \cup Effects ELSE unsure
        /\ phase' = "failed"
        /\ UNCHANGED <<pending, stored, acknowledged>>
  /\ UNCHANGED <<link, alive, kind, calls>>

\* Mutated form of the next definition: the failure is only reported.
NoRollback ==
  /\ phase = "failed"
  /\ phase' = "idle"
  /\ UNCHANGED <<link, alive, kind, calls, pending, stored, ledger>>

\* The handler of SAException; what the rollback itself throws is ignored.
\* What is stored stays.
Rollback ==
  /\ phase = "failed"
  /\ pending' = {}
  /\ phase' = "idle"
  /\ UNCHANGED <<link, alive, kind, calls, stored, ledger>>

\* The connection breaks, and the database rolls back.  Nothing connects
\* again: initialized stays true.
Break ==
  /\ alive
  /\ alive' = FALSE
  /\ pending' = {}
  /\ UNCHANGED <<link, kind, calls, phase, stored, ledger>>

DbNext ==
  \/ Initialize \/ Execute \/ BindFails \/ BadCast \/ Run \/ RunFails \/ Commit
  \/ Rollback \/ Break

DbSpec == DbInit /\ [][DbNext]_dbVars

-----------------------------------------------------------------------------
(* Properties. *)

\* Execute() over several calls, failures and losses of the connection:
\* what a call that returned was to do is stored; of a statement on an
\* InnoDB table that threw nothing is stored, then or by the commit of a
\* later call (but what was committed without an answer); and where the
\* commits are not automatic, a procedure is stored whole or not at all.
\* What MyISAM tables keep of a failure, and what a procedure has committed
\* before Execute() threw, it does not exclude: see FailureIsUndone.
StoredIsAcknowledged ==
  /\ acknowledged \cup unsure \subseteq stored
  /\ \A e \in stored : e.kind = "update" =>
       e \in acknowledged \cup unsure \cup (IF phase = "executed" THEN Effects ELSE {})
  /\ ~autocommit => \A e \in stored : e.kind = "procedure" =>
       EffectsOf(e.call, e.kind) \subseteq stored

\* What the handler of Execute() says of itself, "on error rollback changes":
\* after a call that threw nothing of it is stored, but what was committed
\* without an answer.
FailureIsUndone ==
  phase = "idle" => stored \subseteq acknowledged \cup unsure
=============================================================================
