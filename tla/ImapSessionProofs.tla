------------------------- MODULE ImapSessionProofs -------------------------
(***************************************************************************)
(* Theorems about ImapSession, for every set of folders.                   *)
(***************************************************************************)
EXTENDS ImapSession, TLAPS

\* What a handler that leaves the session alone keeps.
LEMMA RefuseUnchanged ==
  Refuse \/ Answer => Unchanged
BY DEF Refuse, Answer

\* The names the handlers give m_currentCommand are Commands.
LEMMA CommandNames ==
  /\ {"capability", "login", "logout", "select", "examine", "status"} \subseteq Commands
  /\ {"close", "expunge", "fetch", "search", "store", "copy"} \subseteq Commands
  /\ {"noop", "append"} \subseteq Commands
BY DEF Commands

-----------------------------------------------------------------------------
\* Every variable of the session keeps its range, whichever handler runs.
THEOREM SessionTyped == SessionSpec => []SessionTypeOK
<1>1. SessionInit => SessionTypeOK
  <2> SUFFICES ASSUME SessionInit
               PROVE  SessionTypeOK
    OBVIOUS
  <2> USE DEF SessionInit
  <2>1. current_state \subseteq {"authenticated", "selected"}
    OBVIOUS
  <2>2. received \in 0 .. AppendSize
    BY SessionAssumption
  <2>3. reply = <<>>
    OBVIOUS
  <2> QED
    BY <2>1, <2>2, <2>3 DEF SessionTypeOK
<1>2. SessionTypeOK /\ [SessionNext]_vars => SessionTypeOK'
  <2> SUFFICES ASSUME SessionTypeOK, [SessionNext]_vars
               PROVE  SessionTypeOK'
    OBVIOUS
  <2> USE SessionAssumption, CommandNames
      DEF SessionTypeOK, Perform, PacketError, Refuse, Unchanged,
          mgr, client, past
  <2>1. CASE Malformed \/ SelectFails \/ ExpungeFails
    BY <2>1 DEF Malformed, SelectFails, ExpungeFails, Refuse
  <2>2. CASE Unanswered \/ Break
    BY <2>2 DEF Unanswered, Break
  <2>3. CASE AppendData
    <3>1. received' \in 0 .. AppendSize
      BY <2>3 DEF AppendData
    <3> QED
      BY <2>3, <3>1 DEF AppendData
  <2>4. CASE Capability \/ Logout
    BY <2>4 DEF Capability, Logout
  <2>5. ASSUME NEW c \in Commands \ {"logout"}, FolderCommand(c)
        PROVE  SessionTypeOK'
    BY <2>5 DEF FolderCommand, Answer
  <2>6. CASE Login
    BY <2>6 DEF Login, Refuse
  <2>7. ASSUME NEW folder \in Folders, Select(folder) \/ Examine(folder)
        PROVE  SessionTypeOK'
    BY <2>7 DEF Select, Examine, Opened, Query
  <2>8. ASSUME NEW folder \in Folders, Status(folder)
        PROVE  SessionTypeOK'
    BY <2>8 DEF Status, Refuse
  <2>9. CASE Close
    BY <2>9 DEF Close, Refuse
  <2>10. CASE Expunge
    BY <2>10 DEF Expunge, Refresh, Query
  <2>11. ASSUME NEW uid \in BOOLEAN, Fetch(uid)
         PROVE  SessionTypeOK'
    BY <2>11 DEF Fetch, Refresh, Query
  <2>12. ASSUME NEW uid \in BOOLEAN, Search(uid)
         PROVE  SessionTypeOK'
    BY <2>12 DEF Search
  <2>13. CASE UidOther \/ Store \/ Copy
    BY <2>13 DEF UidOther, Store, Copy, Refuse, Answer
  <2>14. CASE Noop
    BY <2>14 DEF Noop, Refresh, Query
  <2>15. CASE Append_
    BY <2>15 DEF Append_
  <2>16. CASE UNCHANGED vars
    BY <2>16 DEF vars
  <2> QED
    BY <2>1, <2>2, <2>4, <2>6, <2>7, <2>8, <2>9, <2>10, <2>11, <2>12, <2>13,
       <2>14, <2>15, <2>16, <2>3, <2>5
    DEF SessionNext, Commands, Create, Delete, Rename, Subscribe, Unsubscribe, List, Lsub
<1> QED
  BY <1>1, <1>2, PTL DEF SessionSpec

-----------------------------------------------------------------------------
(* The invariant.  SelectionAgreed, MailboxAgreed, ReadOnlyUntilRefresh and *)
(* NumbersOfMailbox speak of a selected mailbox; across a CLOSE and the     *)
(* next SELECT they need what is true without one: "selected" is only ever  *)
(* there with "authenticated", and a note for EXPUNGE comes from a CLOSE.   *)
SessionInv ==
  /\ SessionTypeOK
  /\ "selected" \in current_state => "authenticated" \in current_state
  /\ close_expunge => closes
  /\ SelectionAgreed
  /\ MailboxAgreed
  /\ ReadOnlyUntilRefresh
  /\ NumbersOfMailbox

LEMMA SessionInvInductive == SessionSpec => []SessionInv
<1> USE DEF Selected, Authenticated
<1>1. SessionInit /\ SessionTypeOK => SessionInv
  BY DEF SessionInit, SessionInv, SelectionAgreed, MailboxAgreed,
         ReadOnlyUntilRefresh, NumbersOfMailbox
<1>2. SessionTypeOK' /\ SessionInv /\ [SessionNext]_vars => SessionInv'
  <2> SUFFICES ASSUME SessionTypeOK', SessionInv, [SessionNext]_vars
               PROVE  SessionInv'
    OBVIOUS
  <2> USE SessionAssumption
      DEF SessionInv, SelectionAgreed, MailboxAgreed, ReadOnlyUntilRefresh,
          NumbersOfMailbox
  <2>1. CASE Unchanged
    BY <2>1 DEF Unchanged, mgr, client, past
  <2>2. ASSUME Refresh, Selected
        PROVE  SessionInv'
    BY <2>2 DEF Refresh, Query, client, SessionTypeOK
  <2>3. ASSUME NEW folder \in Folders, Select(folder) \/ Examine(folder)
        PROVE  SessionInv'
    BY <2>3 DEF Select, Examine, Opened, Query, SessionTypeOK
  <2>4. ASSUME NEW folder \in Folders, Status(folder)
        PROVE  SessionInv'
    BY <2>4, <2>1 DEF Status, Refuse, client
  <2>5. CASE Login
    BY <2>5, <2>1 DEF Login, PacketError, Refuse, mgr, client, past
  <2>6. CASE Close
    BY <2>6, <2>1 DEF Close, PacketError, Refuse
  <2>7. CASE Expunge
    BY <2>7, <2>2 DEF Expunge, client
  <2>8. ASSUME NEW uid \in BOOLEAN, Fetch(uid) \/ Search(uid)
        PROVE  SessionInv'
    BY <2>8, <2>1, <2>2 DEF Fetch, Search
  <2>9. CASE Noop
    BY <2>9, <2>1, <2>2 DEF Noop
  <2>10. CASE Break \/ AppendData
    BY <2>10 DEF Break, AppendData, mgr, client, past
  <2>11. CASE \/ Malformed \/ Unanswered \/ Capability \/ Logout
              \/ (\E c \in Commands : FolderCommand(c))
              \/ SelectFails \/ ExpungeFails \/ UidOther \/ Store \/ Copy \/ Append_
    BY <2>11, <2>1, RefuseUnchanged
    DEF Malformed, Unanswered, Capability, Logout, FolderCommand, SelectFails,
        ExpungeFails, UidOther, Store, Copy, Append_, PacketError
  <2>12. CASE UNCHANGED vars
    BY <2>12 DEF vars, mgr, client, past
  <2> QED
    BY <2>3, <2>4, <2>5, <2>6, <2>7, <2>8, <2>9, <2>10, <2>11, <2>12
    DEF SessionNext, Commands, Create, Delete, Rename, Subscribe, Unsubscribe, List, Lsub
<1> QED
  BY <1>1, <1>2, SessionTyped, PTL DEF SessionSpec

\* Client and server agree on whether a mailbox is selected.
THEOREM SelectionIsAgreed == SessionSpec => []SelectionAgreed
<1>1. SessionInv => SelectionAgreed
  BY DEF SessionInv
<1> QED
  BY <1>1, SessionInvInductive, PTL

\* The session works on the mailbox its client selected, save after a failed
\* query or a CLOSE.
THEOREM MailboxIsAgreed == SessionSpec => []MailboxAgreed
<1>1. SessionInv => MailboxAgreed
  BY DEF SessionInv
<1> QED
  BY <1>1, SessionInvInductive, PTL

\* STORE is refused in an examined mailbox until a command refreshes it.
THEOREM ReadOnlyHeld == SessionSpec => []ReadOnlyUntilRefresh
<1>1. SessionInv => ReadOnlyUntilRefresh
  BY DEF SessionInv
<1> QED
  BY <1>1, SessionInvInductive, PTL

\* Message numbers are those of the selected mailbox, save after a STATUS or
\* a failed query.
THEOREM NumbersAreOfMailbox == SessionSpec => []NumbersOfMailbox
<1>1. SessionInv => NumbersOfMailbox
  BY DEF SessionInv
<1> QED
  BY <1>1, SessionInvInductive, PTL

\* The data of a literal is never taken for a command, and never changes the
\* selection.
THEOREM LiteralsAreData == SessionSpec => LiteralIsData
<1>1. [SessionNext]_vars =>
        [command = "append" =>
           command' = "append" /\ UNCHANGED <<current_state, mgr>>]_vars
  <2> SUFFICES ASSUME SessionNext, command = "append"
               PROVE  command' = "append" /\ UNCHANGED <<current_state, mgr>>
    BY DEF vars
  <2>1. Break \/ AppendData
    BY DEF SessionNext, Malformed, Unanswered, Capability, Search, Login, Logout,
      FolderCommand, Create, Delete, Rename, Subscribe, Unsubscribe, List, Lsub,
      Select, Examine, Status, SelectFails, Close, ExpungeFails,
      Expunge, Fetch, UidOther, Store, Copy, Noop, Append_, PacketError, Perform
  <2> QED
    BY <2>1 DEF Break, AppendData, mgr
<1> QED
  BY <1>1, PTL DEF SessionSpec, LiteralIsData

-----------------------------------------------------------------------------
\* The session implements the protocol of its predecessor, for every set of
\* folders and every size of a literal.
THEOREM SessionKeepsProtocol == SessionSpec => KeepsProtocol
<1> USE DEF Perform, Oemo!Perform, mgr, Oemo!mgr, Unchanged
<1>1. SessionInit => Oemo!OemoInit
  BY DEF SessionInit, Oemo!OemoInit
<1>2. [SessionNext]_vars => [Oemo!OemoNext]_(Oemo!oemoVars)
  <2> SUFFICES ASSUME SessionNext
               PROVE  Oemo!OemoNext
    BY DEF vars, Oemo!oemoVars
  <2> USE DEF Oemo!Needs, Oemo!Says, Oemo!Output, Oemo!OutputOkResponse,
      Oemo!OutputNoResponse, Oemo!PacketError, Oemo!CheckConnectionState,
      Oemo!AuthenticatedState, Oemo!SelectedState, Oemo!Results,
      Authenticated, Selected, PacketError, Refuse, Answer
  <2>1. CASE Malformed
    BY <2>1 DEF Malformed, Oemo!ParseCommandFails, Oemo!OemoNext
  <2>2. CASE Unanswered
    BY <2>2 DEF Unanswered, Oemo!ProcessIgnores, Oemo!OemoNext
  <2>3. CASE Break
    BY <2>3 DEF Break, Oemo!ProcessBreaks, Oemo!OemoNext
  <2>4. CASE AppendData
    BY <2>4 DEF AppendData, Oemo!ProcessAppends, Oemo!OemoNext
  <2>5. CASE Capability
    <3>1. Oemo!OnCapability("true") /\ Oemo!Says("true")
      BY <2>5 DEF Capability, Oemo!OnCapability, Oemo!Succeeds
    <3> QED
      BY <2>5, <3>1 DEF Capability, Oemo!HandleCapability, Oemo!OemoNext
  <2>6. CASE Logout
    <3>1. Oemo!OnLogout("true") /\ Oemo!Says("true")
      BY <2>6 DEF Logout, Oemo!OnLogout, Oemo!Succeeds
    <3> QED
      BY <2>6, <3>1 DEF Logout, Oemo!HandleLogout, Oemo!OemoNext
  <2>7. CASE Login
    BY <2>7 DEF Login, Oemo!HandleLogin, Oemo!OnLogin, Oemo!MaySayFalse,
                Oemo!OemoNext
  <2>8. CASE Create \/ Delete \/ Rename
    BY <2>8 DEF Create, Delete, Rename, FolderCommand, Oemo!HandleCreate,
      Oemo!HandleDelete, Oemo!HandleRename, Oemo!OnCreate, Oemo!OnDelete,
      Oemo!OnRename, Oemo!MayThrow, Oemo!OemoNext
  <2>9. CASE Subscribe \/ Unsubscribe
    BY <2>9 DEF Subscribe, Unsubscribe, FolderCommand, Oemo!HandleSubscribe,
      Oemo!HandleUnsubscribe, Oemo!OnSubscribe, Oemo!OnUnsubscribe,
      Oemo!MayThrow, Oemo!OemoNext
  <2>10. CASE List \/ Lsub
    BY <2>10 DEF List, Lsub, FolderCommand, Oemo!HandleList, Oemo!HandleLsub,
      Oemo!OnList, Oemo!OnLsub, Oemo!MaySayFalse, Oemo!OemoNext
  <2>11. ASSUME NEW folder \in Folders, Select(folder)
         PROVE  Oemo!OemoNext
    <3>1. Oemo!OnSelect(folder, "true") /\ Oemo!Opens("true")
      BY <2>11, SessionAssumption DEF Select, Opened, Query, Oemo!OnSelect, Oemo!Opens,
                  Oemo!UpdateMailBoxInfoByDb, Oemo!FillMessageListByDb
    <3> QED
      BY <2>11, <3>1 DEF Select, Oemo!HandleSelect, Oemo!OemoNext
  <2>12. ASSUME NEW folder \in Folders, Examine(folder)
         PROVE  Oemo!OemoNext
    <3>1. Oemo!OnExamine(folder, "true") /\ Oemo!Opens("true")
      BY <2>12, SessionAssumption DEF Examine, Opened, Query, Oemo!OnExamine, Oemo!Opens,
                   Oemo!UpdateMailBoxInfoByDb, Oemo!FillMessageListByDb
    <3> QED
      BY <2>12, <3>1 DEF Examine, Oemo!HandleExamine, Oemo!OemoNext
  <2>13. ASSUME NEW folder \in Folders, Status(folder)
         PROVE  Oemo!OemoNext
    <3>1. \E r \in {"true", "false"} : Oemo!OnStatus(folder, r) /\ Oemo!Says(r)
      BY <2>13, SessionAssumption DEF Status, Oemo!OnStatus, Oemo!UpdateInfoByDb,
                   Oemo!FillMessageListByDb
    <3> QED
      BY <2>13, <3>1 DEF Status, Oemo!HandleStatus, Oemo!OemoNext
  <2>14. CASE SelectFails
    <3>1. CASE ~Authenticated
      BY <2>14, <2>1, <3>1 DEF SelectFails, Malformed
    <3>2. CASE Authenticated
      <4>1. /\ Oemo!OnSelect(None, "false") /\ Oemo!Opens("false")
            /\ Oemo!OnExamine(None, "false")
        BY <2>14, <3>2 DEF SelectFails, Oemo!OnSelect, Oemo!OnExamine, Oemo!Opens
      <4>2. CASE Perform("select")
        <5>1. Oemo!HandleSelect(None)
          BY <3>2, <4>1, <4>2 DEF Oemo!HandleSelect
        <5> QED
          BY <5>1 DEF Oemo!OemoNext
      <4>3. CASE Perform("examine")
        <5>1. Oemo!HandleExamine(None)
          BY <3>2, <4>1, <4>3 DEF Oemo!HandleExamine
        <5> QED
          BY <5>1 DEF Oemo!OemoNext
      <4> QED
        BY <2>14, <3>2, <4>2, <4>3 DEF SelectFails
    <3> QED
      BY <3>1, <3>2
  <2>15. CASE ExpungeFails
    BY <2>15 DEF ExpungeFails, Oemo!HandleExpunge, Oemo!OnExpunge, Oemo!OemoNext
  <2>16. CASE Close
    BY <2>16 DEF Close, Oemo!HandleClose, Oemo!OnClose, Oemo!OemoNext
  <2>17. CASE Expunge
    <3>1. Oemo!OnExpunge("true") /\ Oemo!Says("true")
      BY <2>17 DEF Expunge, Refresh, Query, Oemo!OnExpunge,
                   Oemo!UpdateMailBoxInfoByDb, Oemo!FillMessageListByDb
    <3> QED
      BY <2>17, <3>1 DEF Expunge, Oemo!HandleExpunge, Oemo!OemoNext
  <2>18. ASSUME NEW uid \in BOOLEAN, Fetch(uid)
         PROVE  Oemo!OemoNext
    <3> DEFINE ok(r) == IF r = "true" THEN <<"OK">> ELSE <<"NO">>
               uidOk(r) == IF r = "true" THEN <<"OK">> ELSE <<"NO", "OK">>
    <3>1. Refresh => /\ Oemo!UpdateMailBoxInfoByDb(mbx, FALSE)
                     /\ UNCHANGED current_state
      BY DEF Refresh, Query, Oemo!UpdateMailBoxInfoByDb, Oemo!FillMessageListByDb
    <3>2. CASE ~Selected
      BY <2>18, <3>2 DEF Fetch, Oemo!HandleFetch, Oemo!HandleUidFetch, Oemo!OemoNext
    <3>3. CASE Selected
      <4>1. \E r \in {"true", "throw"} :
              Oemo!OnFetch(r) /\ reply' = (IF uid THEN uidOk(r) ELSE ok(r))
        BY <2>18, <3>1, <3>3 DEF Fetch, Oemo!OnFetch
      <4>2. UNCHANGED current_state
        BY <2>18, <3>1, <3>3 DEF Fetch
      <4>3. Perform("fetch") /\ Oemo!CheckConnectionState(Oemo!SelectedState)
        BY <2>18, <3>3 DEF Fetch
      <4>4. CASE uid
        BY <4>1, <4>2, <4>3, <4>4 DEF Oemo!HandleUidFetch, Oemo!OemoNext
      <4>5. CASE ~uid
        BY <4>1, <4>2, <4>3, <4>5 DEF Oemo!HandleFetch, Oemo!OemoNext
      <4> QED
        BY <4>4, <4>5
    <3> QED
      BY <3>2, <3>3
  <2>19. ASSUME NEW uid \in BOOLEAN, Search(uid)
         PROVE  Oemo!OemoNext
    BY <2>19 DEF Search, Oemo!HandleSearch, Oemo!HandleUidSearch, Oemo!OnSearch,
                 Oemo!OemoNext
  <2>20. CASE UidOther
    BY <2>20 DEF UidOther, Oemo!HandleUid, Oemo!OemoNext
  <2>21. CASE Store
    <3>1. CASE ~Selected
      BY <2>21, <2>1, <3>1 DEF Store, Malformed
    <3>2. CASE Selected
      <4>1. \E r \in {"true", "throw"} : Oemo!OnStore(r) /\ Oemo!Says(r)
        BY <2>21, <3>2 DEF Store, Oemo!OnStore
      <4> QED
        BY <2>21, <3>2, <4>1 DEF Store, Oemo!HandleStore, Oemo!OemoNext
    <3> QED
      BY <3>1, <3>2
  <2>22. CASE Copy
    BY <2>22 DEF Copy, Oemo!HandleCopy, Oemo!OnCopy, Oemo!MayThrow, Oemo!OemoNext
  <2>23. CASE Noop
    <3>1. CASE ~Selected
      BY <2>23, <3>1 DEF Noop, Oemo!HandleNoop, Oemo!OemoNext
    <3>2. CASE Selected
      <4>1. Oemo!OnNoop("true") /\ reply' = <<"OK">> /\ UNCHANGED current_state
        BY <2>23, <3>2 DEF Noop, Refresh, Query, Oemo!OnNoop,
                   Oemo!UpdateMailBoxInfoByDb, Oemo!FillMessageListByDb
      <4> QED
        BY <2>23, <3>2, <4>1 DEF Noop, Oemo!HandleNoop, Oemo!OemoNext
    <3> QED
      BY <3>1, <3>2
  <2>24. CASE Append_
    <3>1. \E r \in {"true", "false"} :
            Oemo!OnAppend(r) /\ reply' = (IF r = "true" THEN <<"+">> ELSE <<"NO">>)
      BY <2>24 DEF Append_, Oemo!OnAppend, Oemo!MayThrow
    <3> QED
      BY <2>24, <3>1 DEF Append_, Oemo!HandleAppend, Oemo!OemoNext
  <2> QED
    BY <2>1, <2>2, <2>3, <2>4, <2>5, <2>6, <2>7, <2>8, <2>11, <2>12, <2>13,
       <2>14, <2>15, <2>16, <2>17, <2>18, <2>19, <2>20, <2>21, <2>22, <2>23,
       <2>24, <2>9, <2>10
    DEF SessionNext
<1> QED
  BY <1>1, <1>2, PTL DEF SessionSpec, KeepsProtocol, Oemo!OemoSpec
=============================================================================
