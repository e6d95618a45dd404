------------------------------ MODULE MailStore ------------------------------
(***************************************************************************)
(* One mailbox as several sessions see it: the tables of oemo.sql, which   *)
(* other programs fill while the sessions read them, and the copy of them  *)
(* each chromatic_imap_mgr keeps in messages() and mbx_info().             *)
(*                                                                         *)
(* A message is its idx, the key of oemoarchivehash and the UID of IMAP.   *)
(* oemoarchivehash is a MyISAM table, the offsets and the flags are InnoDB *)
(* tables, and nobody opens a transaction over several statements: each    *)
(* statement takes effect by itself, with its triggers, and nothing larger *)
(* does.  A command that refreshes the session's copy runs three           *)
(* statements, list, count and max, and is a step of its own for each.     *)
(* Statements that fail are the subject of ImapSession and DbCommands, not *)
(* of this module.                                                         *)
(*                                                                         *)
(* view and hidden are what a client has been told.  What may be expected  *)
(* of numbers, counts and flags depends on what the other programs did:    *)
(* shrunk, disordered and withdrawn are the history of that.               *)
(***************************************************************************)
EXTENDS Integers, Sequences, FiniteSets, SequencesExt

CONSTANTS
  Sessions,   \* the sessions that have the mailbox selected
  MaxIdx      \* bound: how many messages are ever delivered

ASSUME StoreAssumption == MaxIdx \in Nat

VARIABLES
  rows,       \* the keys in oemoarchivehash
  nextIdx,    \* its AUTO_INCREMENT
  archived,   \* rows whose column archived is 1
  offsets,    \* rows of oemomessagefolderoffset, by message
  flagRows,   \* rows of oemomessageflags, by message
  flagged,    \* of these, the ones whose column deleted is 1
  files,      \* messages whose xml file is in the proxy store
  stage,      \* "out", "idle", or the statement a session is about to run
  op,         \* the command a session is serving
  messages,   \* messages(): number |-> message
  deleted,    \* messages in messages() with omfDeleted
  exists,     \* mbx_info().exists()
  uid_next,   \* mbx_info().uid_next()
  view,       \* the message a client means by a number
  hidden,     \* messages a client has been told are expunged
  shrunk,     \* history: a row has been deleted
  disordered, \* history: a message was archived before an older one
  withdrawn   \* history: messages whose flag was taken back since a session
              \* last filled its list

tables == <<rows, nextIdx, archived, offsets, flagRows, flagged, files>>
copies == <<messages, deleted, exists, uid_next>>
clients == <<view, hidden>>
past == <<shrunk, disordered, withdrawn>>
vars == <<tables, stage, op, copies, clients, past>>

StoreInit ==
  /\ rows = {} /\ nextIdx = 1
  /\ archived = {} /\ offsets = {}
  /\ flagRows = {} /\ flagged = {}
  /\ files = {}
  /\ stage = [s \in Sessions |-> "out"]
  /\ op = [s \in Sessions |-> "none"]
  /\ messages = [s \in Sessions |-> <<>>]
  /\ deleted = [s \in Sessions |-> {}]
  /\ exists = [s \in Sessions |-> 0]
  /\ uid_next = [s \in Sessions |-> 0]
  /\ view = [s \in Sessions |-> <<>>]
  /\ hidden = [s \in Sessions |-> {}]
  /\ shrunk = FALSE /\ disordered = FALSE
  /\ withdrawn = [s \in Sessions |-> {}]

-----------------------------------------------------------------------------
(* Mutated forms of definitions below, each a plausible slip.  No            *)
(* specification uses them.                                                 *)

\* MAX( idx ) left out: dwUidnext is 0 + 1.
NoIdx == 0

\* has_new_messages_by_folder_ex() with its test the wrong way round.
HasFewer(n) == Cardinality(offsets \cap flagRows) < n

\* enumerate_messages_by_folder() with ORDER BY idx DESC.
NewestFirst(S) ==
  [n \in 1 .. Cardinality(S) |-> CHOOSE i \in S : Cardinality({j \in S : j > i}) = n - 1]

\* update_archive_message() without its trigger.
ArchiveUntriggered(i) ==
  /\ i \in rows \ archived
  /\ archived' = archived \cup {i}
  /\ files' = files \cup {i}
  /\ UNCHANGED <<rows, nextIdx, offsets, flagRows, flagged, stage, op, copies, clients, past>>

\* fill_message_list_by_db() without messages()->clear().
AddsToRead(s) == deleted[s] \cup (flagged \cap archived)

-----------------------------------------------------------------------------
(* The queries of the stored procedures. *)

\* enumerate_messages_by_folder(): an inner join with the offsets.
Enumerated == {i \in archived : i \in offsets}

\* get_message_flags_by_folder_ex(), its first SELECT and its MAX( idx ).
Total == Cardinality(archived)
LastIdx == CHOOSE m \in rows \cup {0} : \A i \in rows : i <= m

\* has_new_messages_by_folder_ex(): an inner join with offsets and flags,
\* whatever archived says.
Joined == {i \in rows : i \in offsets /\ i \in flagRows}
HasNew(n) == Cardinality(Joined) > n

\* ORDER BY idx: the n-th is the one with n - 1 before it.
InOrderOfIdx(S) ==
  [n \in 1 .. Cardinality(S) |-> CHOOSE i \in S : Cardinality({j \in S : j < i}) = n - 1]

\* str_to_mbx_flags(): the names it looks for, and the one on_store() gives
\* it for \Deleted, after lcase().
FlagNames == {"\\Answered", "\\Flagged", "\\Deleted", "\\Seen", "\\Draft", "\\Recent"}
Lower(name) == IF name = "\\Deleted" THEN "\\deleted" ELSE name
ParsedFlags(names) == FlagNames \cap names

\* update_message_flags(): rows are found by absolute_url_string; the
\* manager has replaced the url of a message by its base64 tag.
AbsoluteUrl(i) == <<"absolute", i>>
ManagerUrl(i) == <<"base64", i>>
RowsAt(url) == {i \in flagRows : AbsoluteUrl(i) = url}

-----------------------------------------------------------------------------
(* Other programs: delivery, archiving and clean-up. *)

\* INSERT INTO oemoarchivehash, with its trigger.
Deliver ==
  /\ nextIdx <= MaxIdx
  /\ rows' = rows \cup {nextIdx}
  /\ flagRows' = flagRows \cup {nextIdx}
  /\ nextIdx' = nextIdx + 1
  /\ UNCHANGED <<archived, offsets, flagged, files, stage, op, copies, clients, past>>

\* update_archive_message() and its trigger, once the file is there.
Archive(i) ==
  /\ i \in rows \ archived
  /\ archived' = archived \cup {i}
  /\ offsets' = offsets \cup {i}
  /\ files' = files \cup {i}
  /\ disordered' = (disordered \/ \E j \in rows \ archived : j < i)
  /\ UNCHANGED <<rows, nextIdx, flagRows, flagged, stage, op, copies, clients,
                 shrunk, withdrawn>>

\* Another program calls update_message_flags() with the url of the row:
\* isDeleted is written as it is given, 0 as well as 1.
UpdateFlags(i, isDeleted) ==
  /\ i \in flagRows
  /\ IF isDeleted
     THEN flagged' = flagged \cup {i} /\ UNCHANGED withdrawn
     ELSE /\ flagged' = flagged \ {i}
          /\ withdrawn' = [s \in Sessions |-> withdrawn[s] \cup {i}]
  /\ UNCHANGED <<rows, nextIdx, archived, offsets, flagRows, files, stage, op,
                 copies, clients, shrunk, disordered>>

\* DELETE FROM oemoarchivehash, with its trigger.
DeleteRow(i) ==
  /\ i \in rows
  /\ rows' = rows \ {i}
  /\ archived' = archived \ {i}
  /\ offsets' = offsets \ {i}
  /\ flagRows' = flagRows \ {i}
  /\ flagged' = flagged \ {i}
  /\ shrunk' = TRUE
  /\ UNCHANGED <<nextIdx, files, stage, op, copies, clients, disordered, withdrawn>>

-----------------------------------------------------------------------------
(* The sessions. *)

\* The command o begins to refresh the session's copy.
Refresh(s, o) ==
  /\ stage' = [stage EXCEPT ![s] = "list"]
  /\ op' = [op EXCEPT ![s] = o]

\* on_select()
Select(s) ==
  /\ stage[s] \in {"out", "idle"}
  /\ Refresh(s, "select")
  /\ UNCHANGED <<tables, copies, clients, past>>

\* on_noop()
Noop(s) ==
  /\ stage[s] = "idle"
  /\ HasNew(Len(messages[s]))
  /\ Refresh(s, "noop")
  /\ UNCHANGED <<tables, copies, clients, past>>

\* on_fetch(), until the list is there for which the request is resolved.
Fetch(s) ==
  /\ stage[s] = "idle"
  /\ Refresh(s, "fetch")
  /\ UNCHANGED <<tables, copies, clients, past>>

\* The messages fill_message_list_by_db() gives omfDeleted: it starts from an
\* empty list.
ReadDeleted(s) == flagged \cap Enumerated

\* fill_message_list_by_db()
FillList(s) ==
  /\ stage[s] = "list"
  /\ messages' = [messages EXCEPT ![s] = InOrderOfIdx(Enumerated)]
  /\ deleted' = [deleted EXCEPT ![s] = ReadDeleted(s)]
  /\ withdrawn' = [withdrawn EXCEPT ![s] = {}]
  /\ stage' = [stage EXCEPT ![s] = "count"]
  /\ UNCHANGED <<tables, op, exists, uid_next, clients, shrunk, disordered>>

\* get_message_flags_by_folder_ex(): the count.
CountAll(s) ==
  /\ stage[s] = "count"
  /\ exists' = [exists EXCEPT ![s] = Total]
  /\ stage' = [stage EXCEPT ![s] = "max"]
  /\ UNCHANGED <<tables, op, messages, deleted, uid_next, clients, past>>

\* get_message_flags_by_folder_ex(): the next UID.  The command is over, and
\* SELECT and NOOP have told the client how many messages there are now.
LastOfAll(s) ==
  /\ stage[s] = "max"
  /\ uid_next' = [uid_next EXCEPT ![s] = LastIdx + 1]
  /\ stage' = [stage EXCEPT ![s] = "idle"]
  /\ op' = [op EXCEPT ![s] = "none"]
  /\ IF op[s] \in {"select", "noop"}
     THEN /\ view' = [view EXCEPT ![s] = messages[s]]
          /\ hidden' = [hidden EXCEPT ![s] = IF op[s] = "select" THEN {} ELSE @]
     ELSE UNCHANGED <<view, hidden>>
  /\ UNCHANGED <<tables, messages, deleted, exists, past>>

\* What a client is left with when it is told which messages are gone.
Without(seq, gone) ==
  LET kept == InOrderOfIdx({n \in DOMAIN seq : seq[n] \notin gone})
  IN [n \in DOMAIN kept |-> seq[kept[n]]]

\* The numbers of the messages on_expunge() tries to remove the files of.
Removes(s) == {n \in DOMAIN messages[s] : messages[s][n] \in deleted[s]}

\* on_expunge() without the note of a CLOSE: expunge_messages_by_idx() is
\* given the name of the mailbox, which is 0 as a number, and no row has
\* that idx.  The files go one after the other, until one is missing.
Expunge(s) ==
  LET missing == {n \in Removes(s) : messages[s][n] \notin files}
      reached == {n \in Removes(s) : \A m \in missing : n < m}
      before == {messages[s][n] : n \in reached}
  IN
  /\ stage[s] = "idle"
  /\ files' = files \ before
  /\ IF missing = {}
     THEN /\ Refresh(s, "expunge")
          /\ hidden' = [hidden EXCEPT ![s] = @ \cup before]
          /\ view' = [view EXCEPT ![s] = Without(@, before)]
     ELSE UNCHANGED <<stage, op, hidden, view>>
  /\ UNCHANGED <<rows, nextIdx, archived, offsets, flagRows, flagged, copies, past>>

\* on_store() with +FLAGS (\Deleted) for a message of the list: the flags it
\* finds are set for the rows it finds, and the answer is OK.
Store(s, i) ==
  LET flags == ParsedFlags({Lower("\\Deleted")})
      there == RowsAt(ManagerUrl(i))
  IN
  /\ stage[s] = "idle"
  /\ i \in ToSet(messages[s])
  /\ flagged' = IF "\\Deleted" \in flags THEN flagged \cup there ELSE flagged \ there
  /\ UNCHANGED <<rows, nextIdx, archived, offsets, flagRows, files, stage, op,
                 copies, clients, past>>

-----------------------------------------------------------------------------
SessionStep(s) == FillList(s) \/ CountAll(s) \/ LastOfAll(s)

StoreNext ==
  \/ Deliver
  \/ \E i \in rows : Archive(i) \/ DeleteRow(i)
  \/ \E i \in rows : \E isDeleted \in BOOLEAN : UpdateFlags(i, isDeleted)
  \/ \E s \in Sessions :
       \/ Select(s) \/ Noop(s) \/ Fetch(s) \/ SessionStep(s) \/ Expunge(s)
       \/ \E i \in 1 .. MaxIdx : Store(s, i)

StoreSpec == StoreInit /\ [][StoreNext]_vars

\* A statement that was begun is answered, and a client that has selected
\* the mailbox goes on polling with NOOP.
StoreFairness ==
  \A s \in Sessions : WF_vars(SessionStep(s)) /\ SF_vars(Noop(s))

StoreFairSpec == StoreSpec /\ StoreFairness

-----------------------------------------------------------------------------
(* Properties. *)

\* The three queries, each with joins of its own, count the same messages:
\* EXISTS, the list and the test of NOOP agree when nothing changes.
QueriesAgree == Enumerated = archived /\ Joined = archived

\* As long as no row has been deleted, UIDNEXT and EXISTS cover the list
\* although they are asked for later, and by a different statement.
InfoCoversList ==
  ~shrunk => \A s \in Sessions : stage[s] = "idle" =>
    /\ Len(messages[s]) <= exists[s]
    /\ \A i \in ToSet(messages[s]) : i < uid_next[s]

\* As long as messages were archived in order and none was deleted, a number
\* keeps its message for a client that was told of no EXPUNGE, whatever
\* refreshes ran.
NumbersKept ==
  ~disordered /\ ~shrunk =>
    \A s \in Sessions :
      hidden[s] = {} /\ stage[s] # "out" => IsPrefix(view[s], messages[s])

\* EXPUNGE goes by the session's copy of the flags, and the tables have moved
\* on since.  The file of a message that is still there is removed only for a
\* session that has read it as deleted, and if it is not flagged now, another
\* program took the flag back after this session last filled its list: that
\* is the one way in which the copy is too old.
FilesOfFlagged ==
  [][\A i \in (archived \cap files) \ files' :
       \E s \in Sessions : i \in deleted[s] /\ i \in flagged \cup withdrawn[s]]_vars

\* A message that is archived gets to every client that has selected the
\* mailbox and polls, as long as no row is deleted.
PollingFindsIt ==
  \A s \in Sessions : \A i \in 1 .. MaxIdx :
    (i \in archived /\ stage[s] = "idle") ~> (i \in ToSet(messages[s]) \/ shrunk)
=============================================================================
