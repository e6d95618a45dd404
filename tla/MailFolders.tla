---------------------------- MODULE MailFolders ----------------------------
(***************************************************************************)
(* The folders of one user and the subscriptions to them: the tables       *)
(* oemosubscribefolders and oemofoldersubscriptions, their stored          *)
(* procedures, and the commands of chromatic_imap_mgr that ask whether a   *)
(* folder exists, decide, and then change the tables in a later statement. *)
(* Nothing holds a lock from one statement to the next, so the statements  *)
(* of several sessions of the user interleave.                             *)
(*                                                                         *)
(* A name is a sequence of components.  Names in the table are whole       *)
(* ("/USER/WORK" is <<User, "work">>), a client leaves the user out.  The  *)
(* root of the user, "/USER/", is the name whose last component is empty.  *)
(* A name that begins with the user begins with a slash, and a slash is    *)
(* before and after every other component.  Case, wildcards in names and   *)
(* names with a common beginning are left out; the attributes of a row     *)
(* never change.                                                           *)
(***************************************************************************)
EXTENDS Integers, Sequences, FiniteSets, SequencesExt

CONSTANTS
  Sessions,   \* the sessions of the user
  Components, \* the components of names
  User,       \* the first component of the user's folders
  Empty,      \* the component of the root
  Inbox,      \* the component of the inbox
  Defaults,   \* the components of the folders a new user is given
  Paths,      \* the names clients use
  NewNames,   \* the names they give in RENAME
  MaxIdx      \* bound on the folders ever created

ASSUME FoldersAssumption ==
  /\ MaxIdx \in Nat
  /\ User \in Components /\ Empty \in Components /\ Inbox \in Components
  /\ Defaults \in Seq(Components)
  /\ Inbox \in Range(Defaults)
  /\ Empty \notin Range(Defaults)
  /\ IsInjective(Defaults)
  /\ Paths \subseteq Seq(Components) /\ NewNames \subseteq Seq(Components)
  /\ <<>> \notin Paths

VARIABLES
  rows,       \* oemosubscribefolders: the whole name of each idx
  next_idx,   \* its AUTO_INCREMENT
  subs,       \* oemofoldersubscriptions: the idx's the user subscribes to
  doing,      \* the command of each session that has passed its tests, or the
              \* answer to its last one
  inboxMoved  \* history: a RENAME of the inbox has been run

vars == <<rows, next_idx, subs, doing, inboxMoved>>
tables == <<rows, next_idx, subs>>

RootName == <<User, Empty>>
InboxName == <<User, Inbox>>

\* check_folder_name() that leaves a name with a leading slash as it is.
RawName(path) == path

CheckFolderName(path) == <<User>> \o path

RowsNamed(name) == {i \in DOMAIN rows : rows[i] = name}
Present(name) == RowsNamed(name) # {}

\* The trigger of a new user makes the root and the default folders.
FoldersInit ==
  /\ rows = [i \in 1 .. Len(Defaults) + 1 |->
               IF i = 1 THEN RootName ELSE <<User, Defaults[i - 1]>>]
  /\ next_idx = Len(Defaults) + 2
  /\ subs = {}
  /\ doing = [s \in Sessions |-> [at |-> "OK"]]
  /\ inboxMoved = FALSE

-----------------------------------------------------------------------------
(* Whether a folder exists. *)

\* The parent of a name ends before the first component, not the last, that
\* is equal to the last one.
ParentName(name) ==
  SubSeq(name, 1, SelectInSeq(name, LAMBDA c : c = Last(name)) - 1)

\* subscribe_folder_exists() that selects nothing for any folder that is not
\* there.
OrphanAll(name) == Last(name) # Empty /\ ~Present(name)

\* No row has the parent of the name, or anything below it.
Orphan(name) ==
  /\ Last(name) # Empty
  /\ \A i \in DOMAIN rows : ~IsPrefix(ParentName(name), rows[i])

\* subscribe_folder_exists() selects nothing for an orphan, and dwExists,
\* like the result itself, keeps what was on the stack.  An exception is
\* taken for a denial.
FolderExists(name) ==
  {"denied"} \cup
  IF Orphan(name) THEN {"not found", "success", "garbage"}
  ELSE IF Present(name) THEN {"success"} ELSE {"not found"}

\* The session is idle again.
Idle(s) == doing[s].at \in {"OK", "NO"}
Reply(s, status) == doing' = [doing EXCEPT ![s] = [at |-> status]]

\* History: the folder is not there, but its parent is, or a folder below it.
Ghost(name) ==
  ~Present(name) /\ \E i \in DOMAIN rows : IsPrefix(Front(name), rows[i])

\* on_create(): not if it is there or denied, and never the inbox.
CreateMay(found, name) == found \notin {"success", "denied"} /\ name # InboxName
\* on_delete() without the test for the inbox.
DeleteMayInbox(found, name) == found \notin {"not found", "denied"}

\* on_delete(): not if it is not there or denied, and never the inbox.
DeleteMay(found, name) == found \notin {"not found", "denied"} /\ name # InboxName
\* on_rename(), on_subscribe(), on_unsubscribe().
ChangeMay(found, name) == found \notin {"not found", "denied"}
\* on_select(), on_examine(): the name is compared with the inbox while atom
\* is still empty, so isInbox is false.
OpenMay(found, name) == found \notin {"not found", "denied"}

\* The test of each command.
May(op, found, name) ==
  CASE op = "create" -> CreateMay(found, name)
    [] op = "delete" -> DeleteMay(found, name)
    [] op = "open" -> OpenMay(found, name)
    [] OTHER -> ChangeMay(found, name)

\* Every command calls folder_exists() first, and answers "mailbox does not
\* exist", "mailbox already exists" or "access denied", or goes on.
Ask(s, op, path, to) ==
  /\ Idle(s)
  /\ LET name == CheckFolderName(path)
     IN \E found \in FolderExists(name) :
          IF May(op, found, name)
          THEN doing' = [doing EXCEPT ![s] =
                 [at |-> "may", op |-> op, name |-> name, to |-> to,
                  ghost |-> Ghost(name)]]
          ELSE Reply(s, "NO")
  /\ UNCHANGED <<tables, inboxMoved>>

Asked(s, op) == doing[s].at = "may" /\ doing[s].op = op

\* A statement throws before it does anything.
Fail(s) ==
  /\ doing[s].at = "moved" \/ (doing[s].at = "may" /\ doing[s].op # "open")
  /\ Reply(s, "NO")
  /\ UNCHANGED <<tables, inboxMoved>>

-----------------------------------------------------------------------------
(* The statements that change the tables. *)

\* The key on folder_name.
KeyHolds(names) ==
  \A i, j \in DOMAIN names : names[i] = names[j] => i = j

\* A row that takes the place of one deleted earlier.
LowestIdx == CHOOSE i \in 1 .. next_idx :
  i \notin DOMAIN rows /\ \A j \in 1 .. i - 1 : j \in DOMAIN rows

NewIdx == next_idx

\* on_create(): insert_into_subscribe_folders().
Create(s) ==
  /\ Asked(s, "create")
  /\ next_idx <= MaxIdx
  /\ LET new == [i \in DOMAIN rows \cup {NewIdx} |->
                   IF i = NewIdx THEN doing[s].name ELSE rows[i]]
     IN IF KeyHolds(new)
        THEN rows' = new /\ next_idx' = next_idx + 1 /\ Reply(s, "OK")
        ELSE UNCHANGED <<rows, next_idx>> /\ Reply(s, "NO")
  /\ UNCHANGED <<subs, inboxMoved>>

\* on_delete(): the folder goes, its children and subscriptions stay.  A
\* client that names the root in full gets
\* get_subcribe_folder_attributes(), called with one argument for five, and
\* its failure.
Delete(s) ==
  /\ Asked(s, "delete")
  /\ \/ /\ rows' = [i \in DOMAIN rows \ RowsNamed(doing[s].name) |-> rows[i]]
        /\ Reply(s, "OK")
     \/ /\ doing[s].name = RootName
        /\ UNCHANGED rows
        /\ Reply(s, "NO")
  /\ UNCHANGED <<next_idx, subs, inboxMoved>>

\* LIKE CONCAT( '%' , folder_name , '/%' ): the old name anywhere in a name,
\* with a component behind it.
LikeBelow(old, name) ==
  \E k \in 1 .. Len(name) - Len(old) : SubSeq(name, k, k + Len(old) - 1) = old

\* on_rename(): the first statement of rename_subscribe_folders() puts every
\* folder whose name is like the old one, at whatever depth, right below the
\* new one, which is the client's name as it stands.
RenameChildren(s) ==
  /\ Asked(s, "rename")
  /\ LET old == doing[s].name
         new == [i \in DOMAIN rows |->
                   IF LikeBelow(old, rows[i])
                   THEN Append(doing[s].to, Last(rows[i])) ELSE rows[i]]
     IN IF KeyHolds(new)
        THEN /\ rows' = new
             /\ doing' = [doing EXCEPT ![s].at = "moved"]
        ELSE UNCHANGED rows /\ Reply(s, "NO")
  /\ UNCHANGED <<next_idx, subs, inboxMoved>>

\* The second statement renames the folder itself.
RenameFolder(s) ==
  /\ doing[s].at = "moved"
  /\ LET old == doing[s].name
         new == [i \in DOMAIN rows |->
                   IF rows[i] = old THEN doing[s].to ELSE rows[i]]
     IN IF KeyHolds(new)
        THEN rows' = new /\ Reply(s, "OK")
             /\ inboxMoved' = (inboxMoved \/ old = InboxName)
        ELSE UNCHANGED <<rows, inboxMoved>> /\ Reply(s, "NO")
  /\ UNCHANGED <<next_idx, subs>>

\* on_subscribe(): insert_subscription() goes on with idx 0 if the folder has
\* gone; the key of the table refuses a second subscription to one idx.
Subscribe(s) ==
  /\ Asked(s, "subscribe")
  /\ LET idx == IF Present(doing[s].name)
                THEN CHOOSE i \in RowsNamed(doing[s].name) : TRUE ELSE 0
     IN IF idx \in subs THEN UNCHANGED subs /\ Reply(s, "NO")
        ELSE subs' = subs \cup {idx} /\ Reply(s, "OK")
  /\ UNCHANGED <<rows, next_idx, inboxMoved>>

\* on_unsubscribe() calls delete_subscription() with two arguments for three,
\* and fails.
Unsubscribe(s) ==
  /\ Asked(s, "unsubscribe")
  /\ Reply(s, "NO")
  /\ UNCHANGED <<tables, inboxMoved>>

\* on_select() and on_examine() answer with the mailbox's counts.
Open(s) ==
  /\ Asked(s, "open")
  /\ Reply(s, "OK")
  /\ UNCHANGED <<tables, inboxMoved>>

-----------------------------------------------------------------------------
(* LIST and LSUB change nothing: what they show. *)

\* enum_mailbox_list(): "%" stands for any characters but the delimiter, "*"
\* for all.
Matches(pattern, path) == pattern = "*" \/ Len(path) = 1

\* is_subscribed_by_db(), by name.
IsSubscribed(name) == RowsNamed(name) \cap subs # {}

\* collect_mailboxes_by_db(): a name is shown without all that is before the
\* first "/USER/" in it, and that too, but "/USER/" itself is shown in full;
\* a name without is not shown.
UserAt(name) == {k \in 1 .. Len(name) - 1 : name[k] = User}
FirstUser(name) == SelectInSeq(name, LAMBDA c : c = User)

Shown(name) ==
  IF name = RootName THEN name ELSE SubSeq(name, FirstUser(name) + 1, Len(name))

Listed(pattern, subscribed) ==
  {Shown(rows[i]) : i \in {j \in DOMAIN rows :
     /\ UserAt(rows[j]) # {}
     /\ Matches(pattern, Shown(rows[j]))
     /\ subscribed => IsSubscribed(rows[j])}}

-----------------------------------------------------------------------------
FoldersNext ==
  \E s \in Sessions :
    \/ \E path \in Paths :
         \/ \E op \in {"create", "delete", "subscribe", "unsubscribe", "open"} :
              Ask(s, op, path, <<>>)
         \/ \E to \in NewNames : Ask(s, "rename", path, to)
    \/ Fail(s)
    \/ Create(s) \/ Delete(s) \/ RenameChildren(s) \/ RenameFolder(s)
    \/ Subscribe(s) \/ Unsubscribe(s) \/ Open(s)

FoldersSpec == FoldersInit /\ [][FoldersNext]_vars

-----------------------------------------------------------------------------
(* Properties. *)

Answered == [at : {"OK", "NO"}]
Running ==
  [at : {"may", "moved"},
   op : {"create", "delete", "rename", "subscribe", "unsubscribe", "open"},
   name : Seq(Components), to : Seq(Components), ghost : BOOLEAN]

\* The range of every variable: keys grow, and a command that has passed its
\* tests knows a whole name.
FoldersTypeOK ==
  /\ next_idx \in Nat \ {0}
  /\ DOMAIN rows \subseteq 1 .. next_idx - 1
  /\ subs \subseteq 0 .. next_idx - 1
  /\ \A i \in DOMAIN rows : rows[i] \in Seq(Components)
  /\ doing \in [Sessions -> Answered \cup Running]
  /\ inboxMoved \in BOOLEAN

\* The inbox is there until some session renames it: no other command, and
\* no interleaving of two, can take it away.
InboxStays == ~inboxMoved => Present(InboxName)

\* Subscriptions outlive their folders, but a folder that is created does not
\* inherit the subscription of one deleted before.
NewFolderUnsubscribed ==
  [][\A i \in DOMAIN rows' \ DOMAIN rows : i \notin subs']_vars

\* LIST "*" shows every folder under a name that opens it, however names were
\* created, flattened and renamed by several sessions.  The exceptions are the
\* root, whose "/USER/" is taken for a folder below it, and the folders to
\* which RENAME has given, or which it has flattened into, a name that is not
\* below the user.
OnlyRenameHides ==
  \A i \in DOMAIN rows :
    \/ \E path \in Listed("*", FALSE) : CheckFolderName(path) = rows[i]
    \/ rows[i] = RootName
    \/ \E to \in NewNames : ~IsStrictPrefix(<<User>>, to)
         /\ (rows[i] = to \/ \E c \in Components : rows[i] = Append(to, c))

\* A command about a folder that is not there succeeds only if its parent was
\* not there either, nor a folder below it: what is left on the stack decides
\* in no other case.
GhostsAreOrphans ==
  [][\A s \in Sessions :
       doing[s].at \in {"may", "moved"} /\ doing'[s].at = "OK" /\ doing[s].op # "create"
         => ~doing[s].ghost]_vars
=============================================================================
