---------------------------- MODULE OemoSession ----------------------------
(***************************************************************************)
(* The session protocol of the Windows predecessor: the command handlers   *)
(* of OemoHandler and the state its OemoImapMgr keeps between commands.    *)
(* chromatic_imap is its port; ImapSession is shown to implement this      *)
(* module, so that a client of the old server finds its states and answers *)
(* again in the new one.                                                   *)
(*                                                                         *)
(* The manager's operations are described by what they return and change:  *)
(* r is "true", "false" or "throw" (OemoImapMgrError).  A handler checks   *)
(* the state of the connection, calls the manager and answers.             *)
(***************************************************************************)
EXTENDS Integers, Sequences

CONSTANTS
  Folders,      \* the mailboxes a client names
  None,         \* no mailbox: the empty name
  AppendSize    \* the size of a literal, in packets

VARIABLES
  current_state,  \* m_currentState
  command,        \* m_currentCommand: a handler's name, "none" or "error"
  mbx,            \* MbxInfo().Name()
  read_only,      \* MbxInfo().ReadOnly()
  close_expunge,  \* m_bCloseExpunge
  listed,         \* the folder Messages() was filled from
  received,       \* packets of the literal in AppendRec().Stream()
  reply,          \* the statuses sent for the last request
  over            \* process() has returned -1

mgr == <<mbx, read_only, close_expunge, listed>>
oemoVars == <<current_state, command, mgr, received, reply, over>>

OemoInit ==
  /\ current_state = {}
  /\ command = "none"
  /\ mbx = None
  /\ read_only = FALSE
  /\ close_expunge = FALSE
  /\ listed = None
  /\ received = 0
  /\ reply = <<>>
  /\ over = FALSE

-----------------------------------------------------------------------------
(* The manager. *)

Succeeds(r) == r = "true" /\ UNCHANGED mgr
MaySayFalse(r) == r \in {"true", "false"} /\ UNCHANGED mgr
MayThrow(r) == r \in {"true", "false", "throw"} /\ UNCHANGED mgr

OnLogin(r) == MaySayFalse(r)
OnLogout(r) == Succeeds(r)
OnCapability(r) == Succeeds(r)
OnList(r) == MaySayFalse(r)
OnLsub(r) == MaySayFalse(r)
OnCreate(r) == MayThrow(r)
OnDelete(r) == MayThrow(r)
OnRename(r) == MayThrow(r)
OnSubscribe(r) == MayThrow(r)
OnUnsubscribe(r) == MayThrow(r)
OnSearch(r) == r \in {"true", "throw"} /\ UNCHANGED mgr
OnCopy(r) == MayThrow(r)
OnAppend(r) == MayThrow(r)

\* Messages() is cleared and filled; an exception leaves it cleared or cut
\* short and is not noticed.
FillMessageListByDb(folder) == listed' \in {folder, None}

\* MbxInfo() is cleared and filled by a later statement, which may fail
\* unnoticed.
UpdateMailBoxInfoByDb(folder, bReadOnly) ==
  /\ FillMessageListByDb(folder)
  /\ \/ mbx' = folder /\ read_only' = bReadOnly
     \/ mbx' = None /\ read_only' = FALSE
  /\ UNCHANGED close_expunge

\* The form for STATUS fills an info of its own, and Messages().
UpdateInfoByDb(folder) ==
  /\ FillMessageListByDb(folder)
  /\ UNCHANGED <<mbx, read_only, close_expunge>>

\* folder is None if the line names no mailbox.
OnSelect(folder, r) ==
  \/ r \in {"false", "throw"} /\ UNCHANGED mgr
  \/ r = "true" /\ folder # None /\ UpdateMailBoxInfoByDb(folder, FALSE)

OnExamine(folder, r) ==
  \/ r \in {"false", "throw"} /\ UNCHANGED mgr
  \/ r = "true" /\ folder # None /\ UpdateMailBoxInfoByDb(folder, TRUE)

\* New messages make it refresh the mailbox, for writing.
OnNoop(r) ==
  \/ r \in {"true", "false"} /\ UNCHANGED mgr
  \/ r = "true" /\ UpdateMailBoxInfoByDb(mbx, FALSE)

\* It throws on parameters it cannot parse, then refreshes, then throws on
\* items it does not know.
OnFetch(r) ==
  \/ r = "throw" /\ UNCHANGED mgr
  \/ r \in {"true", "throw"} /\ UpdateMailBoxInfoByDb(mbx, FALSE)

OnStatus(folder, r) ==
  \/ r \in {"false", "throw"} /\ UNCHANGED mgr
  \/ r = "true" /\ folder # None /\ UpdateInfoByDb(folder)

OnStore(r) ==
  /\ r \in IF read_only THEN {"throw"} ELSE {"true", "throw"}
  /\ UNCHANGED mgr

OnClose(r) ==
  /\ r = "true"
  /\ close_expunge' = TRUE
  /\ UNCHANGED <<mbx, read_only, listed>>

OnExpunge(r) ==
  \/ r \in {"false", "throw"} /\ UNCHANGED mgr
  \/ r = "true" /\ ~close_expunge /\ UpdateMailBoxInfoByDb(mbx, FALSE)
  \/ /\ r = "true" /\ close_expunge
     /\ mbx' = None /\ read_only' = FALSE /\ listed' = None
     /\ close_expunge' = FALSE

-----------------------------------------------------------------------------
(* From a line to its handler, and back to the client. *)

\* c is what the line leaves in m_currentCommand.
Perform(c) ==
  /\ ~over
  /\ command # "append"
  /\ command' = c
  /\ over' = (c = "logout")
  /\ UNCHANGED received

CheckConnectionState(states) == states \subseteq current_state
AuthenticatedState == {"authenticated"}
SelectedState == {"authenticated", "selected"}

OutputOkResponse == <<"OK">>
OutputNoResponse == <<"NO">>
Output(r) == IF r = "true" THEN OutputOkResponse ELSE OutputNoResponse

\* ErrorPacket() is set, and FormatPacketError() answers.
PacketError ==
  Perform("error") /\ reply' = OutputNoResponse /\ UNCHANGED <<current_state, mgr>>

\* The handler of c, which needs the connection to be in some states before
\* it calls the manager.
Needs(states, c, Call) ==
  IF CheckConnectionState(states) THEN Perform(c) /\ Call ELSE PacketError

Says(r) == reply' = Output(r) /\ UNCHANGED current_state

Results == {"true", "false", "throw"}

\* No token, a token too long, no command, an unknown command, no payload.
ParseCommandFails == PacketError

\* A line feed alone, CHECK and STARTTLS.
ProcessIgnores ==
  Perform(command) /\ reply' = <<>> /\ UNCHANGED <<current_state, mgr>>

\* ctrl-c and ctrl-z.
ProcessBreaks ==
  /\ ~over
  /\ over' = TRUE
  /\ reply' = <<>>
  /\ UNCHANGED <<current_state, command, mgr, received>>

\* A packet while m_currentCommand is oecAppend.
ProcessAppends ==
  /\ ~over
  /\ command = "append"
  /\ received < AppendSize
  /\ received' = received + 1
  /\ reply' = <<>>
  /\ UNCHANGED <<current_state, command, mgr, over>>

-----------------------------------------------------------------------------
(* The handlers. *)

HandleCapability ==
  Perform("capability") /\ \E r \in Results : OnCapability(r) /\ Says(r)

HandleLogin ==
  IF CheckConnectionState(AuthenticatedState) THEN PacketError
  ELSE /\ Perform("login")
       /\ \E r \in Results :
            /\ OnLogin(r)
            /\ reply' = Output(r)
            /\ current_state' =
                 IF r = "true" THEN current_state \cup {"authenticated"}
                 ELSE current_state

HandleLogout ==
  Perform("logout") /\ \E r \in Results : OnLogout(r) /\ Says(r)

HandleCreate ==
  Needs(AuthenticatedState, "create", \E r \in Results : OnCreate(r) /\ Says(r))

HandleDelete ==
  Needs(AuthenticatedState, "delete", \E r \in Results : OnDelete(r) /\ Says(r))

HandleRename ==
  Needs(AuthenticatedState, "rename", \E r \in Results : OnRename(r) /\ Says(r))

HandleSubscribe ==
  Needs(AuthenticatedState, "subscribe", \E r \in Results : OnSubscribe(r) /\ Says(r))

HandleUnsubscribe ==
  Needs(AuthenticatedState, "unsubscribe", \E r \in Results : OnUnsubscribe(r) /\ Says(r))

HandleList ==
  Needs(AuthenticatedState, "list", \E r \in Results : OnList(r) /\ Says(r))

HandleLsub ==
  Needs(AuthenticatedState, "lsub", \E r \in Results : OnLsub(r) /\ Says(r))

\* What SELECT and EXAMINE do with the manager's result.
Opens(r) ==
  /\ reply' = Output(r)
  /\ current_state' =
       IF r = "true" THEN current_state \cup {"selected"} ELSE current_state

HandleSelect(folder) ==
  Needs(AuthenticatedState, "select",
        \E r \in Results : OnSelect(folder, r) /\ Opens(r))

HandleExamine(folder) ==
  Needs(AuthenticatedState, "examine",
        \E r \in Results : OnExamine(folder, r) /\ Opens(r))

HandleStatus(folder) ==
  Perform("status") /\ \E r \in Results : OnStatus(folder, r) /\ Says(r)

\* The state goes whatever the manager says.
HandleClose ==
  Needs(SelectedState, "close",
        \E r \in Results :
          /\ OnClose(r)
          /\ reply' = Output(r)
          /\ current_state' = current_state \ {"selected"})

HandleExpunge ==
  Needs(SelectedState, "expunge", \E r \in Results : OnExpunge(r) /\ Says(r))

HandleCopy ==
  Needs(SelectedState, "copy", \E r \in Results : OnCopy(r) /\ Says(r))

HandleStore ==
  Needs(SelectedState, "store", \E r \in Results : OnStore(r) /\ Says(r))

HandleFetch ==
  Needs(SelectedState, "fetch", \E r \in Results : OnFetch(r) /\ Says(r))

HandleSearch ==
  Needs(AuthenticatedState, "search", \E r \in Results : OnSearch(r) /\ Says(r))

\* FETCH and SEARCH leave their OK to UID, which says it in any case: after
\* their NO, or before the packet error.
HandleUidFetch ==
  /\ IF CheckConnectionState(SelectedState)
     THEN /\ Perform("fetch")
          /\ \E r \in Results :
               /\ OnFetch(r)
               /\ reply' = IF r = "true" THEN <<"OK">> ELSE <<"NO", "OK">>
     ELSE Perform("error") /\ reply' = <<"OK", "NO">> /\ UNCHANGED mgr
  /\ UNCHANGED current_state

HandleUidSearch ==
  /\ IF CheckConnectionState(AuthenticatedState)
     THEN /\ Perform("search")
          /\ \E r \in Results :
               /\ OnSearch(r)
               /\ reply' = IF r = "true" THEN <<"OK">> ELSE <<"NO", "OK">>
     ELSE Perform("error") /\ reply' = <<"OK", "NO">> /\ UNCHANGED mgr
  /\ UNCHANGED current_state

\* UID with anything else.
HandleUid ==
  Perform(command) /\ reply' = OutputOkResponse /\ UNCHANGED <<current_state, mgr>>

\* Silent without a selection; what the manager says is not looked at.
HandleNoop ==
  /\ Perform("noop")
  /\ IF CheckConnectionState(SelectedState)
     THEN \E r \in Results : OnNoop(r) /\ reply' = OutputOkResponse
     ELSE reply' = <<>> /\ UNCHANGED mgr
  /\ UNCHANGED current_state

\* oecAppend is set first, and stays if the answer is NO.
HandleAppend ==
  /\ Perform("append")
  /\ \E r \in Results :
       OnAppend(r) /\ reply' = IF r = "true" THEN <<"+">> ELSE OutputNoResponse
  /\ UNCHANGED current_state

-----------------------------------------------------------------------------
OemoNext ==
  \/ ParseCommandFails \/ ProcessIgnores \/ ProcessBreaks \/ ProcessAppends
  \/ HandleCapability \/ HandleLogin \/ HandleLogout
  \/ HandleCreate \/ HandleDelete \/ HandleRename
  \/ HandleSubscribe \/ HandleUnsubscribe \/ HandleList \/ HandleLsub
  \/ \E folder \in Folders \cup {None} :
       HandleSelect(folder) \/ HandleExamine(folder) \/ HandleStatus(folder)
  \/ HandleClose \/ HandleExpunge \/ HandleCopy \/ HandleStore
  \/ HandleFetch \/ HandleSearch \/ HandleUidFetch \/ HandleUidSearch
  \/ HandleUid \/ HandleNoop \/ HandleAppend

OemoSpec == OemoInit /\ [][OemoNext]_oemoVars
=============================================================================
