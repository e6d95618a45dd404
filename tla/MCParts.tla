------------------------------ MODULE MCParts ------------------------------
(* The parts that share no state with the others, one at a time: request   *)
(* lines, message sets and the criteria of SEARCH, the statements of       *)
(* OemoDbManip, the linked list, and the timer services.  In a behaviour   *)
(* one part runs and the others stay idle.                                 *)
EXTENDS RequestLine, MessageSet, SearchCriteria, DbCommands, SingleLink, TimerService

VARIABLE part   \* the part that runs

partsVars == <<part, requestVars, vars, searchVars, dbVars, linkVars, timerVars>>

\* Requests with and without parameters, longer and shorter, one with
\* control-C, one with too long a token, one with no command and one longer
\* than the buffer for a command.
Crlf == <<"\r", "\n">>
SomeLines ==
  {<<"a", " ", "n">> \o Crlf,
   <<"a", " ", "s", " ", "x">> \o Crlf,
   <<"a", " ", "s", " ", "i", "n", "b", "o">> \o Crlf,
   <<"a", "a", "a", "a", " ", "n">> \o Crlf,
   <<"a", " ", "^C">> \o Crlf,
   <<"a">> \o Crlf,
   <<"a", " ", "s", " ", "i", "n", "b", " ", "x">> \o Crlf}

\* Message sets and keys for the criteria: single, open and overlapping
\* ranges, some that are no message set, and keys known and unknown.
Number(n) == [kind |-> "number", left |-> n]
Star(n) == [kind |-> "star", left |-> n]
Between(a, b) == [kind |-> "range", left |-> a, right |-> b]

SomeWords ==
  {Number(0), Number(2), Star(2), Between(1, 2), Between(2, 4), Between(3, 1),
   Key("all"), Key("text"), Key("from")}

SomeCriteria == SeqOf(SomeWords, 3)

SomeGarbage == {-1, 3}

Lowest == -1

MessageSetIdle ==
  /\ request = <<>> /\ present = <<>> /\ dwMax = 0 /\ stage = "idle" /\ next = 1
  /\ subatoms = <<>>

SearchIdle ==
  /\ words = <<>> /\ uid = FALSE /\ messages = <<>> /\ m_dwMaxUid = 0
  /\ message_set = NilSet
  /\ step = "idle" /\ results = <<>> /\ at = 1 /\ search_result_set = <<>> /\ vints = <<>>

LinkIdle ==
  /\ m_ptr_head = nullptr /\ m_ptr_next = <<>> /\ m_dwData = <<>> /\ allocated = {}
  /\ broken = FALSE /\ lost = FALSE /\ kept = <<>>

TimerIdle ==
  /\ max_timeouts_ = <<>> /\ cur_timeouts_ = <<>> /\ timers = <<>> /\ limited = {}
  /\ inits = 0 /\ loop = "idle"

MCInit ==
  /\ part \in {"requests", "sets", "search", "database", "list", "timers"}
  /\ RequestInit
  /\ IF part = "sets" THEN MessageSetInit ELSE MessageSetIdle
  /\ IF part = "search" THEN SearchInit ELSE SearchIdle
  /\ DbInit
  /\ IF part = "list" THEN LinkInit ELSE LinkIdle
  /\ IF part = "timers" THEN TimerInit ELSE TimerIdle

MCNext ==
  /\ UNCHANGED part
  /\ \/ /\ part = "requests" /\ RequestNext
        /\ UNCHANGED <<vars, searchVars, dbVars, linkVars, timerVars>>
     \/ /\ part = "sets" /\ MessageSetNext
        /\ UNCHANGED <<requestVars, searchVars, dbVars, linkVars, timerVars>>
     \/ /\ part = "search" /\ SearchNext
        /\ UNCHANGED <<requestVars, vars, dbVars, linkVars, timerVars>>
     \/ /\ part = "database" /\ DbNext
        /\ UNCHANGED <<requestVars, vars, searchVars, linkVars, timerVars>>
     \/ /\ part = "list" /\ LinkNext
        /\ UNCHANGED <<requestVars, vars, searchVars, dbVars, timerVars>>
     \/ /\ part = "timers" /\ TimerNext
        /\ UNCHANGED <<requestVars, vars, searchVars, dbVars, linkVars>>

MCSpec == MCInit /\ [][MCNext]_partsVars
=============================================================================
