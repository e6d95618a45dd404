---------------------------- MODULE ImapSession ----------------------------
(***************************************************************************)
(* One IMAP session: the command handlers of chromatic_handler and the     *)
(* state its chromatic_imap_mgr keeps between commands.  A pool thread     *)
(* serves a request in one call of process(), and OnePlace of              *)
(* ConnectionPool says that no other thread runs process() for the session *)
(* meanwhile: a request is one step.                                       *)
(*                                                                         *)
(* The database is shared with other sessions and programs, so what a      *)
(* query finds is not determined by the session: each action chooses it.   *)
(* Names, payloads and the wording of replies are left out; a reply is its *)
(* status.  shown, mode, refreshed, statused, failed and closes are        *)
(* history: what the client has been told, and what has happened since.    *)
(***************************************************************************)
EXTENDS Integers, Sequences

CONSTANTS
  Folders,      \* the mailboxes a client names
  None,         \* no mailbox: the empty name
  AppendSize    \* the size of a literal, in packets

ASSUME SessionAssumption ==
  /\ None \notin Folders
  /\ AppendSize \in Nat \ {0}

VARIABLES
  current_state,  \* m_currentState: a set of "authenticated", "selected"
  command,        \* m_currentCommand: a handler's name, "none" or "error"
  mbx,            \* mbx_info().name()
  read_only,      \* mbx_info().read_only()
  close_expunge,  \* m_bCloseExpunge
  listed,         \* the folder messages() was filled from
  received,       \* packets of the literal in append_rec().stream()
  reply,          \* the statuses sent for the last request
  over,           \* process() has returned -1
  shown,          \* the mailbox the client has been told is selected
  mode,           \* how it was told: "read-write" or "read-only"
  refreshed,      \* a command has refreshed mbx_info() since then
  statused,       \* a STATUS has filled messages() since the last refresh
  failed,         \* a query for mbx_info() or messages() has failed
  closes          \* a CLOSE has been served in this session

mgr == <<mbx, read_only, close_expunge, listed>>
client == <<shown, mode>>
past == <<refreshed, statused, failed, closes>>
vars == <<current_state, command, mgr, received, reply, over, client, past>>

SessionInit ==
  /\ current_state = {}
  /\ command = "none"
  /\ mbx = None
  /\ read_only = FALSE
  /\ close_expunge = FALSE
  /\ listed = None
  /\ received = 0
  /\ reply = <<>>
  /\ over = FALSE
  /\ shown = None
  /\ mode = "read-write"
  /\ refreshed = FALSE
  /\ statused = FALSE
  /\ failed = FALSE
  /\ closes = FALSE

Authenticated == "authenticated" \in current_state
Selected == "authenticated" \in current_state /\ "selected" \in current_state

\* A line reaches perform(), which calls the handler of its command; c is
\* what the handler leaves in m_currentCommand.
Perform(c) ==
  /\ ~over
  /\ command # "append"
  /\ command' = c
  /\ over' = (c = "logout")
  /\ UNCHANGED received

\* The names the handlers give m_currentCommand.
Commands == {"append", "capability", "close", "copy", "create", "delete",
             "examine", "expunge", "fetch", "list", "login", "logout", "lsub",
             "noop", "rename", "search", "select", "status", "store",
             "subscribe", "unsubscribe"}

\* The handler changes neither the state of the connection nor that of the
\* manager.
Unchanged == UNCHANGED <<current_state, mgr, client, past>>

\* A request that is refused, or answered, with nothing else to it.
Refuse == reply' = <<"NO">> /\ Unchanged
Answer == reply' \in {<<"OK">>, <<"NO">>} /\ Unchanged

\* error_packet() is set, by the parser or by a handler that finds the
\* connection in the wrong state: format_packet_error() answers.
PacketError == Perform("error") /\ Refuse

\* What the two queries of update_mailbox_info_by_db() leave behind: both
\* catch their exceptions.  If the first fails, messages() is empty or cut
\* short; if the second does, mbx_info() stays cleared.
Query(folder, readonly, failedBefore) ==
  \E listOK, infoOK \in BOOLEAN :
    /\ listed' = IF listOK THEN folder ELSE None
    /\ mbx' = IF infoOK THEN folder ELSE None
    /\ read_only' = (infoOK /\ readonly)
    /\ failed' = (failedBefore \/ ~listOK \/ ~infoOK)
    /\ statused' = FALSE

\* A mailbox is opened.
Opened(folder, newMode) ==
  /\ Query(folder, newMode = "read-only", FALSE)
  /\ reply' = <<"OK">>
  /\ current_state' = current_state \cup {"selected"}
  /\ shown' = folder
  /\ mode' = newMode
  /\ refreshed' = FALSE
  /\ UNCHANGED <<close_expunge, closes>>

\* The mailbox that is selected is looked at again, for writing: the
\* parameter bReadOnly is left to its default.
Refresh ==
  /\ Query(mbx, FALSE, failed)
  /\ refreshed' = TRUE
  /\ UNCHANGED <<current_state, close_expunge, client, closes>>

-----------------------------------------------------------------------------
(* Mutated forms of the actions below, each a plausible slip in the code.   *)
(* No specification uses them.                                              *)

\* on_close() without the erase of oesSelected.
CloseKeepsState ==
  /\ Perform("close")
  /\ Selected
  /\ close_expunge' = TRUE
  /\ closes' = TRUE
  /\ shown' = None
  /\ reply' = <<"OK">>
  /\ UNCHANGED <<current_state, mbx, read_only, listed, mode, refreshed,
                 statused, failed>>

\* A mailbox that cannot be found is deselected by a failed SELECT.
SelectForgets ==
  /\ Perform("select")
  /\ Authenticated
  /\ reply' = <<"NO">>
  /\ mbx' = None
  /\ UNCHANGED <<current_state, read_only, close_expunge, listed, client, past>>

\* on_examine() that opens the mailbox for writing.
ExamineWrites(folder) ==
  /\ Perform("examine")
  /\ Authenticated
  /\ Query(folder, FALSE, FALSE)
  /\ reply' = <<"OK">>
  /\ current_state' = current_state \cup {"selected"}
  /\ shown' = folder
  /\ mode' = "read-only"
  /\ refreshed' = FALSE
  /\ UNCHANGED <<close_expunge, closes>>

\* on_expunge() that forgets the mailbox but keeps its messages.
ExpungeKeepsMessages ==
  /\ Perform("expunge")
  /\ Selected
  /\ reply' = <<"OK">>
  /\ close_expunge
  /\ mbx' = None
  /\ read_only' = FALSE
  /\ close_expunge' = FALSE
  /\ refreshed' = TRUE
  /\ UNCHANGED <<current_state, listed, client, statused, failed, closes>>

\* on_store() without the test of read_only().
StoreAnyway ==
  \/ ~Selected /\ PacketError
  \/ Selected /\ Perform("store") /\ Answer

-----------------------------------------------------------------------------
(* Lines that reach no handler. *)

\* parse_command() finds no token, a token too long or no command, or
\* perform() does not find the command.
Malformed == PacketError

\* A line feed alone is parsed in vain and ignored; on_check() and
\* on_starttls() do nothing, not even answer.
Unanswered ==
  /\ Perform(command)
  /\ reply' = <<>>
  /\ Unchanged

\* ctrl-c or ctrl-z anywhere in the packet.
Break ==
  /\ ~over
  /\ over' = TRUE
  /\ reply' = <<>>
  /\ UNCHANGED <<current_state, command, mgr, received, client, past>>

\* While m_currentCommand is oecAppend a packet is data for the literal,
\* whatever it holds.
AppendData ==
  /\ ~over
  /\ command = "append"
  /\ received < AppendSize
  /\ received' = received + 1
  /\ reply' = <<>>
  /\ UNCHANGED <<current_state, command, mgr, over, client, past>>

-----------------------------------------------------------------------------
(* The handlers, by what they look at and change. *)

Capability ==
  /\ Perform("capability")
  /\ reply' = <<"OK">>
  /\ Unchanged

\* on_search(), alone or from on_uid(); the manager's part is commented out.
Search(uid) ==
  /\ Unchanged
  /\ \/ Authenticated /\ Perform("search") /\ reply' = <<"OK">>
     \/ /\ ~Authenticated
        /\ Perform("error")
        /\ reply' = IF uid THEN <<"OK", "NO">> ELSE <<"NO">>

\* on_login(): refused if logged in already or if a name or password is
\* missing, granted otherwise.
Login ==
  \/ Authenticated /\ PacketError
  \/ ~Authenticated /\ Perform("login") /\ Refuse
  \/ /\ ~Authenticated
     /\ Perform("login")
     /\ reply' = <<"OK">>
     /\ current_state' = current_state \cup {"authenticated"}
     /\ UNCHANGED <<mgr, client, past>>

Logout ==
  /\ Perform("logout")
  /\ reply' = <<"OK">>
  /\ Unchanged

\* A command that needs a login and touches the database only.
FolderCommand(c) ==
  \/ ~Authenticated /\ PacketError
  \/ Authenticated /\ Perform(c) /\ Answer

Create == FolderCommand("create")
Delete == FolderCommand("delete")
Rename == FolderCommand("rename")
Subscribe == FolderCommand("subscribe")
Unsubscribe == FolderCommand("unsubscribe")
List == FolderCommand("list")
Lsub == FolderCommand("lsub")

\* on_select() of a mailbox that is there.
Select(folder) ==
  /\ Perform("select")
  /\ Authenticated
  /\ Opened(folder, "read-write")

Examine(folder) ==
  /\ Perform("examine")
  /\ Authenticated
  /\ Opened(folder, "read-only")

\* on_select() and on_examine() without a login, without a name, or of a
\* mailbox that does not exist or is denied: the selection stays.
SelectFails ==
  \/ ~Authenticated /\ PacketError
  \/ Authenticated /\ (Perform("select") \/ Perform("examine")) /\ Refuse

\* on_close() expunges nothing: it leaves a note for the next on_expunge().
Close ==
  \/ ~Selected /\ PacketError
  \/ /\ Selected
     /\ Perform("close")
     /\ close_expunge' = TRUE
     /\ closes' = TRUE
     /\ current_state' = current_state \ {"selected"}
     /\ shown' = None
     /\ reply' = <<"OK">>
     /\ UNCHANGED <<mbx, read_only, listed, mode, refreshed, statused, failed>>

\* on_expunge() without a selection, or it fails in the database or on a file
\* it cannot remove.
ExpungeFails ==
  \/ ~Selected /\ PacketError
  \/ Selected /\ Perform("expunge") /\ Refuse

\* on_expunge(): the note of an earlier CLOSE, of whatever mailbox, makes it
\* clear the state of the mailbox that is selected now.
Expunge ==
  /\ Perform("expunge")
  /\ Selected
  /\ reply' = <<"OK">>
  /\ \/ ~close_expunge /\ Refresh
     \/ /\ close_expunge
        /\ mbx' = None
        /\ read_only' = FALSE
        /\ listed' = None
        /\ close_expunge' = FALSE
        /\ refreshed' = TRUE
        /\ statused' = FALSE
        /\ UNCHANGED <<current_state, client, failed, closes>>

\* on_fetch(), alone or from on_uid(), which adds its own OK in any case.
\* The mailbox is refreshed once the parameters are parsed.
Fetch(uid) ==
  \/ /\ ~Selected
     /\ Perform("error")
     /\ reply' = IF uid THEN <<"OK", "NO">> ELSE <<"NO">>
     /\ Unchanged
  \/ /\ Selected
     /\ Perform("fetch")
     /\ \/ Unchanged /\ reply' = IF uid THEN <<"NO", "OK">> ELSE <<"NO">>
        \/ Refresh /\ reply' \in {<<"OK">>, IF uid THEN <<"NO", "OK">> ELSE <<"NO">>}

\* on_uid() for anything but FETCH and SEARCH does nothing and says OK.
UidOther ==
  /\ Perform(command)
  /\ reply' = <<"OK">>
  /\ Unchanged

\* on_store(): refused without a selection or if read_only(); it changes no
\* state of the session, the flags it sets being those of a copy.
Store ==
  \/ ~Selected /\ PacketError
  \/ /\ Selected
     /\ Perform("store")
     /\ IF read_only THEN Refuse ELSE Answer

Copy ==
  \/ ~Selected /\ PacketError
  \/ Selected /\ Perform("copy") /\ Answer

\* on_noop(): silent without a selection; it refreshes when the database has
\* more messages than messages().
Noop ==
  /\ Perform("noop")
  /\ \/ ~Selected /\ reply' = <<>> /\ Unchanged
     \/ Selected /\ reply' = <<"OK">> /\ Unchanged
     \/ Selected /\ reply' = <<"OK">> /\ Refresh

\* on_status() fills messages() for the mailbox it is asked about.
Status(folder) ==
  /\ Perform("status")
  /\ \/ Refuse
     \/ /\ reply' = <<"OK">>
        /\ \/ listed' = folder /\ failed' = failed
           \/ listed' = None /\ failed' = TRUE
        /\ statused' = TRUE
        /\ UNCHANGED <<current_state, mbx, read_only, close_expunge, client,
                       refreshed, closes>>

\* on_append() sets oecAppend before it looks at anything; what follows is
\* data even if the answer is NO.
Append_ ==
  /\ Perform("append")
  /\ reply' \in {<<"+">>, <<"NO">>}
  /\ Unchanged

-----------------------------------------------------------------------------
SessionNext ==
  \/ Malformed \/ Unanswered \/ Break \/ AppendData
  \/ Capability \/ Login \/ Logout
  \/ Create \/ Delete \/ Rename \/ Subscribe \/ Unsubscribe \/ List \/ Lsub
  \/ \E folder \in Folders :
       Select(folder) \/ Examine(folder) \/ Status(folder)
  \/ SelectFails \/ Close \/ ExpungeFails \/ Expunge
  \/ \E uid \in BOOLEAN : Fetch(uid) \/ Search(uid)
  \/ UidOther \/ Store \/ Copy \/ Noop \/ Append_

SessionSpec == SessionInit /\ [][SessionNext]_vars

\* A client that has begun a literal sends all of it.
SessionFairSpec == SessionSpec /\ WF_vars(AppendData)

-----------------------------------------------------------------------------
(* Properties. *)

Oemo == INSTANCE OemoSession

\* To every command the session answers and changes its state as its
\* predecessor on Windows could have to the same command: what a client
\* relies on in the one, it may rely on in the other.
KeepsProtocol == Oemo!OemoSpec

\* The range of every variable of the session.
SessionTypeOK ==
  /\ current_state \subseteq {"authenticated", "selected"}
  /\ command \in Commands \cup {"none", "error"}
  /\ mbx \in Folders \cup {None}
  /\ read_only \in BOOLEAN
  /\ close_expunge \in BOOLEAN
  /\ listed \in Folders \cup {None}
  /\ received \in 0 .. AppendSize
  /\ reply \in {<<>>, <<"OK">>, <<"NO">>, <<"+">>, <<"NO", "OK">>, <<"OK", "NO">>}
  /\ over \in BOOLEAN
  /\ shown \in Folders \cup {None}
  /\ mode \in {"read-write", "read-only"}
  /\ refreshed \in BOOLEAN /\ statused \in BOOLEAN
  /\ failed \in BOOLEAN /\ closes \in BOOLEAN

\* Client and server agree on whether a mailbox is selected, whatever
\* commands failed in between.
SelectionAgreed == Selected <=> shown # None

\* The manager works on the mailbox the client has selected, unless a query
\* failed or a CLOSE has left its note for a later EXPUNGE.
MailboxAgreed ==
  Selected /\ mbx # shown => mbx = None /\ (failed \/ closes)

\* A mailbox that was examined cannot be stored into until some command has
\* refreshed it, and one that was selected always can.
ReadOnlyUntilRefresh ==
  Selected =>
    /\ mode = "read-only" /\ ~refreshed /\ ~failed => read_only
    /\ mode = "read-write" => ~read_only

\* Message numbers are numbers in the selected mailbox, unless a STATUS came
\* after the last refresh or a query failed.
NumbersOfMailbox ==
  Selected /\ listed # mbx => statused \/ failed

\* The data of a literal is never taken for a command.
LiteralIsData ==
  [][command = "append" =>
       command' = "append" /\ UNCHANGED <<current_state, mgr>>]_vars

\* Once its literal is there an APPEND is completed, and the session takes
\* commands again.
AppendCompletes ==
  (command = "append" /\ received = AppendSize) ~> (command # "append" \/ over)
=============================================================================
