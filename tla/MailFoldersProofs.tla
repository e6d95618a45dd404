------------------------- MODULE MailFoldersProofs -------------------------
(***************************************************************************)
(* Theorems about MailFolders, for every number of sessions, every set of  *)
(* names and every number of folders.                                      *)
(***************************************************************************)
EXTENDS MailFolders, WellFoundedInduction, TLAPS

\* A client's name with the user in front of it is longer than the user.
LEMMA CheckedNames ==
  ASSUME NEW path \in Paths
  PROVE  /\ CheckFolderName(path) \in Seq(Components)
         /\ Len(CheckFolderName(path)) >= 2
<1>1. path \in Seq(Components) /\ path # <<>>
  BY FoldersAssumption
<1>2. <<User>> \in Seq(Components) /\ Len(<<User>>) = 1
  BY FoldersAssumption
<1>3. Len(path) >= 1
  BY <1>1
<1>4. CheckFolderName(path) \in Seq(Components)
  BY <1>1, <1>2 DEF CheckFolderName
<1>5. Len(CheckFolderName(path)) = 1 + Len(path)
  BY <1>1, <1>2 DEF CheckFolderName
<1> QED
  BY <1>1, <1>3, <1>4, <1>5

\* So no name of a command is that of a folder above the inbox.
LEMMA InboxNoChild ==
  ASSUME NEW old \in Seq(Components), Len(old) >= 2
  PROVE  ~LikeBelow(old, InboxName)
<1>1. Len(InboxName) = 2
  BY FoldersAssumption DEF InboxName
<1>2. 1 .. Len(InboxName) - Len(old) = {}
  BY <1>1
<1> QED
  BY <1>2 DEF LikeBelow

\* A name that is like another has a last component.
LEMMA LikeNotEmpty ==
  ASSUME NEW old \in Seq(Components), NEW name \in Seq(Components), LikeBelow(old, name)
  PROVE  Last(name) \in Components
<1>1. Len(name) >= 1
  BY DEF LikeBelow
<1> QED
  BY <1>1 DEF Last

-----------------------------------------------------------------------------
\* What a session is doing keeps its range.
DoingTyped == doing \in [Sessions -> Answered \cup Running]

LEMMA DoingKeepsRange ==
  ASSUME DoingTyped, NEW s \in Sessions,
         \/ \E status \in {"OK", "NO"} : Reply(s, status)
         \/ doing[s].at = "may" /\ doing' = [doing EXCEPT ![s].at = "moved"]
         \/ \E running \in Running : doing' = [doing EXCEPT ![s] = running]
  PROVE  DoingTyped'
<1>1. CASE \E status \in {"OK", "NO"} : Reply(s, status)
  <2>1. \A status \in {"OK", "NO"} : [at |-> status] \in Answered
    BY DEF Answered
  <2> QED
    BY <1>1, <2>1 DEF Reply, DoingTyped
<1>2. CASE doing[s].at = "may" /\ doing' = [doing EXCEPT ![s].at = "moved"]
  <2>1. doing[s] \in Running
    BY <1>2 DEF DoingTyped, Answered
  <2>2. [doing[s] EXCEPT !.at = "moved"] \in Running
    BY <2>1 DEF Running
  <2>3. doing' = [doing EXCEPT ![s] = [doing[s] EXCEPT !.at = "moved"]]
    BY <1>2 DEF DoingTyped
  <2> QED
    BY <2>2, <2>3 DEF DoingTyped
<1>3. CASE \E running \in Running : doing' = [doing EXCEPT ![s] = running]
  BY <1>3 DEF DoingTyped
<1> QED
  BY <1>1, <1>2, <1>3

LEMMA RunningTyped ==
  ASSUME DoingTyped, NEW s \in Sessions, doing[s].at \in {"may", "moved"}
  PROVE  doing[s].name \in Seq(Components) /\ doing[s].to \in Seq(Components)
<1>1. doing[s] \in Running
  BY DEF DoingTyped, Answered
<1> QED
  BY <1>1 DEF Running

\* Every variable keeps its range: keys grow, subscriptions are to keys that
\* were given out, and a name that was checked is a whole name.
THEOREM FoldersTyped == FoldersSpec => []FoldersTypeOK
<1> DEFINE TablesTyped ==
      /\ next_idx \in Nat \ {0}
      /\ DOMAIN rows \subseteq 1 .. next_idx - 1
      /\ subs \subseteq 0 .. next_idx - 1
      /\ \A i \in DOMAIN rows : rows[i] \in Seq(Components)
      /\ inboxMoved \in BOOLEAN
<1>0. FoldersTypeOK <=> TablesTyped /\ DoingTyped
  BY DEF FoldersTypeOK, DoingTyped
<1>1. FoldersInit => TablesTyped /\ DoingTyped
  <2> SUFFICES ASSUME FoldersInit
               PROVE  TablesTyped /\ DoingTyped
    OBVIOUS
  <2>1. Len(Defaults) \in Nat /\ \A i \in 1 .. Len(Defaults) : Defaults[i] \in Components
    BY FoldersAssumption
  <2>2. DOMAIN rows = 1 .. Len(Defaults) + 1
    BY DEF FoldersInit
  <2>3. ASSUME NEW i \in DOMAIN rows
        PROVE  rows[i] \in Seq(Components)
    <3>1. CASE i = 1
      BY <3>1, <2>2, FoldersAssumption DEF FoldersInit, RootName
    <3>2. CASE i # 1
      <4>1. Defaults[i - 1] \in Components
        BY <3>2, <2>1, <2>2
      <4>2. rows[i] = <<User, Defaults[i - 1]>>
        BY <3>2, <2>2 DEF FoldersInit
      <4> QED
        BY <4>1, <4>2, FoldersAssumption
    <3> QED
      BY <3>1, <3>2
  <2>4. [at |-> "OK"] \in Answered
    BY DEF Answered
  <2>5. DoingTyped
    BY <2>4 DEF FoldersInit, DoingTyped
  <2>6. next_idx = Len(Defaults) + 2 /\ subs = {} /\ inboxMoved = FALSE
    BY DEF FoldersInit
  <2>7. next_idx \in Nat \ {0} /\ DOMAIN rows \subseteq 1 .. next_idx - 1
    BY <2>1, <2>2, <2>6
  <2> QED
    BY <2>3, <2>5, <2>6, <2>7
<1>2. TablesTyped /\ DoingTyped /\ [FoldersNext]_vars => TablesTyped' /\ DoingTyped'
  <2> SUFFICES ASSUME TablesTyped, DoingTyped, [FoldersNext]_vars
               PROVE  TablesTyped' /\ DoingTyped'
    OBVIOUS
  <2>1. CASE UNCHANGED vars
    BY <2>1 DEF vars, DoingTyped
  <2>2. ASSUME NEW s \in Sessions, NEW path \in Paths, NEW to \in Seq(Components),
               NEW op \in {"create", "delete", "rename", "subscribe", "unsubscribe", "open"},
               Ask(s, op, path, to)
        PROVE  TablesTyped' /\ DoingTyped'
    <3>1. Ghost(CheckFolderName(path)) \in BOOLEAN
      BY DEF Ghost
    <3>2. [at |-> "may", op |-> op, name |-> CheckFolderName(path), to |-> to,
           ghost |-> Ghost(CheckFolderName(path))] \in Running
      BY <3>1, CheckedNames DEF Running
    <3>3. DoingTyped'
      BY <2>2, <3>2, DoingKeepsRange DEF Ask
    <3> QED
      BY <2>2, <3>3 DEF Ask, tables
  <2>3. ASSUME NEW s \in Sessions,
               \/ Fail(s) \/ Create(s) \/ Delete(s) \/ RenameChildren(s)
               \/ RenameFolder(s) \/ Subscribe(s) \/ Unsubscribe(s) \/ Open(s)
        PROVE  DoingTyped'
    BY <2>3, DoingKeepsRange
    DEF Fail, Create, Delete, RenameChildren, RenameFolder, Subscribe, Unsubscribe,
        Open, Asked
  <2>4. ASSUME NEW s \in Sessions, Fail(s) \/ Unsubscribe(s) \/ Open(s)
        PROVE  TablesTyped'
    BY <2>4 DEF Fail, Unsubscribe, Open, tables
  <2>5. ASSUME NEW s \in Sessions, Create(s)
        PROVE  TablesTyped'
    <3>1. doing[s].name \in Seq(Components)
      BY <2>5, RunningTyped DEF Create, Asked
    <3> QED
      BY <2>5, <3>1 DEF Create, NewIdx
  <2>6. ASSUME NEW s \in Sessions, Delete(s)
        PROVE  TablesTyped'
    BY <2>6 DEF Delete
  <2>7. ASSUME NEW s \in Sessions, RenameChildren(s)
        PROVE  TablesTyped'
    <3>1. doing[s].name \in Seq(Components) /\ doing[s].to \in Seq(Components)
      BY <2>7, RunningTyped DEF RenameChildren, Asked
    <3>2. ASSUME NEW i \in DOMAIN rows, LikeBelow(doing[s].name, rows[i])
          PROVE  Append(doing[s].to, Last(rows[i])) \in Seq(Components)
      <4>1. Last(rows[i]) \in Components
        BY <3>1, <3>2, LikeNotEmpty
      <4> QED
        BY <3>1, <4>1
    <3> QED
      BY <2>7, <3>2 DEF RenameChildren
  <2>8. ASSUME NEW s \in Sessions, RenameFolder(s)
        PROVE  TablesTyped'
    <3>1. doing[s].to \in Seq(Components)
      BY <2>8, RunningTyped DEF RenameFolder
    <3> QED
      BY <2>8, <3>1 DEF RenameFolder
  <2>9. ASSUME NEW s \in Sessions, Subscribe(s)
        PROVE  TablesTyped'
    <3>1. Present(doing[s].name) =>
            (CHOOSE i \in RowsNamed(doing[s].name) : TRUE) \in DOMAIN rows
      BY DEF Present, RowsNamed
    <3>2. subs' \subseteq subs \cup {0} \cup DOMAIN rows
      BY <2>9, <3>1 DEF Subscribe
    <3> QED
      BY <2>9, <3>2 DEF Subscribe
  <2>10. \A to \in NewNames : to \in Seq(Components)
    BY FoldersAssumption
  <2>11. <<>> \in Seq(Components)
    OBVIOUS
  <2> QED
    BY <2>1, <2>2, <2>3, <2>4, <2>5, <2>6, <2>7, <2>8, <2>9, <2>10, <2>11
    DEF FoldersNext
<1> QED
  BY <1>0, <1>1, <1>2, PTL DEF FoldersSpec

\* A folder that is created does not inherit a subscription.
THEOREM NewFoldersAreUnsubscribed == FoldersSpec => NewFolderUnsubscribed
<1>1. FoldersTypeOK /\ [FoldersNext]_vars =>
        [\A i \in DOMAIN rows' \ DOMAIN rows : i \notin subs']_vars
  <2> SUFFICES ASSUME FoldersTypeOK, FoldersNext, NEW i \in DOMAIN rows' \ DOMAIN rows
               PROVE  i \notin subs'
    BY DEF vars
  <2>1. PICK s \in Sessions : Create(s)
    BY DEF FoldersNext, Ask, Fail, Delete, RenameChildren, RenameFolder, Subscribe,
           Unsubscribe, Open, tables
  <2> QED
    BY <2>1 DEF Create, NewIdx, FoldersTypeOK
<1> QED
  BY <1>1, FoldersTyped, PTL DEF FoldersSpec, NewFolderUnsubscribed

-----------------------------------------------------------------------------
\* A name that passed the tests is longer than the user, and is not the inbox
\* if it is to be deleted; a command about a folder that is not there passed
\* them only if the folder's parent was not there either.
NamesChecked ==
  \A s \in Sessions :
    doing[s].at \in {"may", "moved"} =>
      /\ Len(doing[s].name) >= 2
      /\ doing[s].op = "delete" => doing[s].name # InboxName
      /\ doing[s].op # "create" => ~doing[s].ghost

LEMMA PrefixOf ==
  ASSUME NEW S, NEW seq \in Seq(S), NEW n \in 0 .. Len(seq)
  PROVE  /\ SubSeq(seq, 1, n) = [i \in 1 .. n |-> seq[i]]
         /\ SubSeq(seq, 1, n) \in Seq(S)
         /\ Len(SubSeq(seq, 1, n)) = n
<1>1. CASE n = 0
  BY <1>1
<1>2. CASE n > 0
  BY <1>2
<1> QED
  BY <1>1, <1>2

\* The parent of a name begins with what folder_exists() takes for its parent.
LEMMA ParentBelow ==
  ASSUME NEW name \in Seq(Components), Len(name) >= 2, NEW row \in Seq(Components),
         IsPrefix(Front(name), row)
  PROVE  IsPrefix(ParentName(name), row)
<1> DEFINE I == {i \in 1 .. Len(name) : name[i] = Last(name)}
           k == SelectInSeq(name, LAMBDA c : c = Last(name))
           n == Len(name) - 1
<1>1. k \in 1 .. Len(name)
  <2>1. Len(name) \in I
    BY DEF Last
  <2>2. Min(I) \in I
    <3>1. I \subseteq Nat /\ I # {}
      BY <2>1
    <3>2. \E x \in I : \A y \in I : x =< y
      <4>1. PICK x \in I : \A y \in I : <<y, x>> \notin OpToRel(<, Nat)
        BY <3>1, NatLessThanWellFounded, WFMin
      <4>2. \A y \in I : ~(y < x)
        BY <3>1, <4>1, Zenon DEF OpToRel
      <4> QED
        BY <3>1, <4>2
    <3> QED
      BY <3>2 DEF Min
  <2> QED
    BY <2>1, <2>2 DEF SelectInSeq
<1> HIDE DEF k
<1>2. ParentName(name) = SubSeq(name, 1, k - 1)
  BY DEF ParentName, k
<1>3. n \in 1 .. Len(name) /\ k - 1 \in 0 .. n
  BY <1>1
<1>4. Front(name) = [i \in 1 .. n |-> name[i]] /\ Len(Front(name)) = n
      /\ Front(name) \in Seq(Components)
  BY <1>3, PrefixOf DEF Front
<1>5. n <= Len(row)
  BY <1>4 DEF IsPrefix
<1>6. SubSeq(Front(name), 1, n) = [i \in 1 .. n |-> Front(name)[i]]
      /\ SubSeq(row, 1, n) = [i \in 1 .. n |-> row[i]]
  BY <1>3, <1>4, <1>5, PrefixOf
<1>7. ASSUME NEW i \in 1 .. n
      PROVE  name[i] = row[i]
  BY <1>4, <1>6 DEF IsPrefix
<1>8. /\ ParentName(name) = [i \in 1 .. k - 1 |-> name[i]]
      /\ Len(ParentName(name)) = k - 1 /\ ParentName(name) \in Seq(Components)
  BY <1>2, <1>3, PrefixOf
<1>9. /\ SubSeq(row, 1, k - 1) = [i \in 1 .. k - 1 |-> row[i]]
      /\ SubSeq(ParentName(name), 1, k - 1) = [i \in 1 .. k - 1 |-> ParentName(name)[i]]
  BY <1>3, <1>5, <1>8, PrefixOf
<1>10. \A i \in 1 .. k - 1 : ParentName(name)[i] = row[i]
  BY <1>3, <1>7, <1>8
<1>11. [i \in 1 .. k - 1 |-> ParentName(name)[i]] = [i \in 1 .. k - 1 |-> row[i]]
  BY <1>10
<1>12. SubSeq(ParentName(name), 1, k - 1) = SubSeq(row, 1, k - 1)
  BY <1>9, <1>11
<1>13. Len(ParentName(name)) <= Len(row)
  BY <1>3, <1>5, <1>8
<1>14. Len(ParentName(name)) = k - 1
  BY <1>8
<1> QED
  BY <1>12, <1>13, <1>14 DEF IsPrefix

LEMMA GhostsAreRefused ==
  ASSUME FoldersTypeOK, NEW path \in Paths, NEW op, op # "create",
         NEW found \in FolderExists(CheckFolderName(path)),
         May(op, found, CheckFolderName(path))
  PROVE  ~Ghost(CheckFolderName(path))
<1> DEFINE name == CheckFolderName(path)
<1> SUFFICES ASSUME Ghost(name)
             PROVE  FALSE
  OBVIOUS
<1>1. ~Orphan(name)
  BY CheckedNames, ParentBelow DEF Ghost, Orphan, FoldersTypeOK
<1>2. found \in {"denied", "not found"}
  BY <1>1 DEF FolderExists, Ghost
<1> QED
  BY <1>2 DEF May, DeleteMay, ChangeMay, OpenMay

LEMMA NamesCheckedInvariant == FoldersSpec => []NamesChecked
<1>1. FoldersInit => NamesChecked
  BY DEF FoldersInit, NamesChecked
<1>2. FoldersTypeOK /\ NamesChecked /\ [FoldersNext]_vars => NamesChecked'
  <2> SUFFICES ASSUME FoldersTypeOK, NamesChecked, [FoldersNext]_vars
               PROVE  NamesChecked'
    OBVIOUS
  <2> USE DEF FoldersTypeOK, NamesChecked, Reply, Asked
  <2>1. CASE UNCHANGED vars
    BY <2>1 DEF vars
  <2>2. ASSUME NEW s \in Sessions, NEW path \in Paths, NEW to, NEW op,
               Ask(s, op, path, to)
        PROVE  NamesChecked'
    <3>1. PICK found \in FolderExists(CheckFolderName(path)) :
            IF May(op, found, CheckFolderName(path))
            THEN doing' = [doing EXCEPT ![s] =
                   [at |-> "may", op |-> op, name |-> CheckFolderName(path),
                    to |-> to, ghost |-> Ghost(CheckFolderName(path))]]
            ELSE Reply(s, "NO")
      BY <2>2 DEF Ask
    <3>2. CASE ~May(op, found, CheckFolderName(path))
      BY <3>1, <3>2
    <3>3. CASE May(op, found, CheckFolderName(path))
      <4>1. op = "delete" => CheckFolderName(path) # InboxName
        BY <3>3 DEF May, DeleteMay
      <4>2. op # "create" => ~Ghost(CheckFolderName(path))
        BY <3>3, GhostsAreRefused
      <4> QED
        BY <3>1, <3>3, <4>1, <4>2, CheckedNames
    <3> QED
      BY <3>2, <3>3
  <2>3. ASSUME NEW s \in Sessions,
               \/ \E status \in {"OK", "NO"} : Reply(s, status)
               \/ /\ doing[s].at = "may"
                  /\ doing' = [doing EXCEPT ![s].at = "moved"]
        PROVE  NamesChecked'
    <3>1. CASE \E status \in {"OK", "NO"} : Reply(s, status)
      BY <3>1
    <3>2. CASE doing[s].at = "may" /\ doing' = [doing EXCEPT ![s].at = "moved"]
      <4>1. doing[s] \in Running
        BY <3>2 DEF Answered
      <4>2. /\ doing'[s].name = doing[s].name
            /\ doing'[s].op = doing[s].op
            /\ doing'[s].ghost = doing[s].ghost
        BY <3>2, <4>1 DEF Running
      <4>3. \A t \in Sessions \ {s} : doing'[t] = doing[t]
        BY <3>2
      <4> QED
        BY <3>2, <4>2, <4>3
    <3> QED
      BY <2>3, <3>1, <3>2
  <2> QED
    BY <2>1, <2>2, <2>3
    DEF FoldersNext, Fail, Create, Delete, RenameChildren, RenameFolder, Subscribe,
        Unsubscribe, Open
<1> QED
  BY <1>1, <1>2, FoldersTyped, PTL DEF FoldersSpec

\* Commands about folders that are not there fail, unless their parents are
\* not there either.
THEOREM OnlyOrphansAreGhosts == FoldersSpec => GhostsAreOrphans
<1>1. NamesChecked /\ [FoldersNext]_vars =>
        [\A s \in Sessions :
           doing[s].at \in {"may", "moved"} /\ doing'[s].at = "OK" /\ doing[s].op # "create"
             => ~doing[s].ghost]_vars
  BY DEF NamesChecked
<1> QED
  BY <1>1, NamesCheckedInvariant, PTL DEF FoldersSpec, GhostsAreOrphans

\* The inbox stays, for any number of sessions, until one renames it.
THEOREM InboxAlwaysStays == FoldersSpec => []InboxStays
<1>1. FoldersInit => InboxStays
  <2> SUFFICES ASSUME FoldersInit
               PROVE  Present(InboxName)
    BY DEF InboxStays
  <2>1. PICK k \in 1 .. Len(Defaults) : Defaults[k] = Inbox
    BY FoldersAssumption DEF Range
  <2>2. k + 1 \in RowsNamed(InboxName)
    BY <2>1, FoldersAssumption DEF FoldersInit, RowsNamed, InboxName
  <2> QED
    BY <2>2 DEF Present
<1>2. FoldersTypeOK /\ NamesChecked /\ InboxStays /\ [FoldersNext]_vars => InboxStays'
  <2> SUFFICES ASSUME FoldersTypeOK, NamesChecked, InboxStays, [FoldersNext]_vars,
                      ~inboxMoved'
               PROVE  Present(InboxName)'
    BY DEF InboxStays
  <2>1. ~inboxMoved
    BY DEF FoldersNext, vars, Ask, Fail, Create, Delete, RenameChildren, RenameFolder,
           Subscribe, Unsubscribe, Open, FoldersTypeOK
  <2>2. PICK i \in DOMAIN rows : rows[i] = InboxName
    BY <2>1 DEF InboxStays, Present, RowsNamed
  <2> SUFFICES i \in DOMAIN rows' /\ rows'[i] = InboxName
    BY DEF Present, RowsNamed
  <2> USE <2>2 DEF FoldersTypeOK
  <2>3. CASE UNCHANGED rows
    BY <2>3
  <2>4. ASSUME NEW s \in Sessions, Create(s)
        PROVE  i \in DOMAIN rows' /\ rows'[i] = InboxName
    BY <2>4 DEF Create, NewIdx
  <2>5. ASSUME NEW s \in Sessions, Delete(s)
        PROVE  i \in DOMAIN rows' /\ rows'[i] = InboxName
    BY <2>5 DEF Delete, NamesChecked, Asked, RowsNamed
  <2>6. ASSUME NEW s \in Sessions, RenameChildren(s)
        PROVE  i \in DOMAIN rows' /\ rows'[i] = InboxName
    <3>1. ~LikeBelow(doing[s].name, InboxName)
      <4>1. doing[s].name \in Seq(Components)
        BY <2>6, RunningTyped DEF RenameChildren, Asked, DoingTyped
      <4> QED
        BY <2>6, <4>1, InboxNoChild DEF RenameChildren, Asked, NamesChecked
    <3> QED
      BY <2>6, <3>1 DEF RenameChildren
  <2>7. ASSUME NEW s \in Sessions, RenameFolder(s)
        PROVE  i \in DOMAIN rows' /\ rows'[i] = InboxName
    BY <2>7 DEF RenameFolder
  <2> QED
    BY <2>3, <2>4, <2>5, <2>6, <2>7
    DEF FoldersNext, vars, tables, Ask, Fail, Subscribe, Unsubscribe, Open
<1> QED
  BY <1>1, <1>2, FoldersTyped, NamesCheckedInvariant, PTL DEF FoldersSpec

-----------------------------------------------------------------------------
\* Below the user are the names of at least two components, the first of which
\* is the user.
LEMMA BelowUser ==
  ASSUME NEW name \in Seq(Components)
  PROVE  IsStrictPrefix(<<User>>, name) <=> Len(name) >= 2 /\ name[1] = User
<1>1. <<User>> \in Seq(Components) /\ Len(<<User>>) = 1 /\ <<User>>[1] = User
  BY FoldersAssumption
<1>2. SubSeq(<<User>>, 1, 1) = [i \in 1 .. 1 |-> User]
  <2>1. SubSeq(<<User>>, 1, 1) = [i \in 1 .. 1 |-> <<User>>[i]]
    BY <1>1, PrefixOf
  <2> QED
    BY <1>1, <2>1
<1>3. CASE Len(name) >= 1
  <2>1. SubSeq(name, 1, 1) = [i \in 1 .. 1 |-> name[i]]
    BY <1>3, PrefixOf
  <2>2. IsPrefix(<<User>>, name) <=> name[1] = User
    <3>1. ASSUME IsPrefix(<<User>>, name)
          PROVE  name[1] = User
      <4>1. [i \in 1 .. 1 |-> name[i]] = [i \in 1 .. 1 |-> User]
        BY <1>1, <1>2, <2>1, <3>1 DEF IsPrefix
      <4>2. [i \in 1 .. 1 |-> name[i]][1] = [i \in 1 .. 1 |-> User][1]
        BY <4>1
      <4> QED
        BY <4>2
    <3>2. ASSUME name[1] = User
          PROVE  IsPrefix(<<User>>, name)
      <4>1. \A i \in 1 .. 1 : name[i] = User
        BY <3>2
      <4>2. SubSeq(name, 1, 1) = SubSeq(<<User>>, 1, 1)
        BY <1>2, <2>1, <4>1
      <4> QED
        BY <1>1, <1>3, <4>2 DEF IsPrefix
    <3> QED
      BY <3>1, <3>2
  <2>3. Len(name) >= 2 => name # <<User>>
    BY <1>1
  <2>4. Len(name) = 1 /\ name[1] = User => name = <<User>>
    BY <1>1
  <2> QED
    BY <1>3, <2>2, <2>3, <2>4 DEF IsStrictPrefix
<1>4. CASE Len(name) = 0
  BY <1>1, <1>4 DEF IsStrictPrefix, IsPrefix
<1> QED
  BY <1>3, <1>4

\* Every name in the table is below the user or was given by RENAME; commands
\* know names below the user, and RENAME knows a name it was given.
Given(name) ==
  \/ IsStrictPrefix(<<User>>, name)
  \/ \E to \in NewNames : ~IsStrictPrefix(<<User>>, to)
       /\ (name = to \/ \E c \in Components : name = Append(to, c))

NamesGiven ==
  /\ \A i \in DOMAIN rows : Given(rows[i])
  /\ \A s \in Sessions :
       doing[s].at \in {"may", "moved"} =>
         /\ IsStrictPrefix(<<User>>, doing[s].name)
         /\ doing[s].op = "rename" => doing[s].to \in NewNames
         /\ doing[s].at = "moved" => doing[s].op = "rename"

\* Both statements of RENAME give such names.
LEMMA RenameGives ==
  ASSUME NEW to \in NewNames
  PROVE  Given(to) /\ \A c \in Components : Given(Append(to, c))
<1>1. to \in Seq(Components)
  BY FoldersAssumption
<1>2. Given(to)
  BY DEF Given
<1>3. ASSUME NEW c \in Components
      PROVE  Given(Append(to, c))
  <2>1. CASE IsStrictPrefix(<<User>>, to)
    <3>1. Append(to, c) \in Seq(Components) /\ Len(Append(to, c)) = Len(to) + 1
      BY <1>1
    <3>2. Len(to) >= 2 /\ to[1] = User
      BY <1>1, <2>1, BelowUser
    <3>3. Append(to, c)[1] = User
      BY <1>1, <3>2
    <3>4. Len(Append(to, c)) >= 2
      BY <1>1, <3>1, <3>2
    <3>5. IsStrictPrefix(<<User>>, Append(to, c))
      BY <3>1, <3>3, <3>4, BelowUser, Zenon
    <3> QED
      BY <3>5 DEF Given
  <2>2. CASE ~IsStrictPrefix(<<User>>, to)
    BY <2>2 DEF Given
  <2> QED
    BY <2>1, <2>2
<1> QED
  BY <1>2, <1>3

LEMMA CheckedBelowUser ==
  ASSUME NEW path \in Paths
  PROVE  IsStrictPrefix(<<User>>, CheckFolderName(path))
<1>1. path \in Seq(Components) /\ User \in Components
  BY FoldersAssumption
<1>2. CheckFolderName(path)[1] = User
  BY <1>1 DEF CheckFolderName
<1> QED
  BY <1>2, CheckedNames, BelowUser

LEMMA NamesGivenInvariant == FoldersSpec => []NamesGiven
<1>1. FoldersInit => NamesGiven
  <2> SUFFICES ASSUME FoldersInit
               PROVE  NamesGiven
    OBVIOUS
  <2>1. ASSUME NEW i \in DOMAIN rows
        PROVE  Given(rows[i])
    <3>1. Len(Defaults) \in Nat /\ \A k \in 1 .. Len(Defaults) : Defaults[k] \in Components
      BY FoldersAssumption
    <3>2. PICK c \in Components : rows[i] = <<User, c>>
      BY <3>1, FoldersAssumption DEF FoldersInit, RootName
    <3>3. <<User, c>> \in Seq(Components)
      BY FoldersAssumption
    <3>4. Len(<<User, c>>) >= 2 /\ <<User, c>>[1] = User
      OBVIOUS
    <3>5. IsStrictPrefix(<<User>>, <<User, c>>)
      BY <3>3, <3>4, BelowUser, Zenon
    <3> QED
      BY <3>2, <3>5 DEF Given
  <2> QED
    BY <2>1 DEF FoldersInit, NamesGiven
<1>2. FoldersTypeOK /\ NamesGiven /\ [FoldersNext]_vars => NamesGiven'
  <2> SUFFICES ASSUME FoldersTypeOK, NamesGiven, [FoldersNext]_vars
               PROVE  NamesGiven'
    OBVIOUS
  <2> DEFINE RowsGiven == \A i \in DOMAIN rows : Given(rows[i])
             Commands == \A s \in Sessions :
               doing[s].at \in {"may", "moved"} =>
                 /\ IsStrictPrefix(<<User>>, doing[s].name)
                 /\ doing[s].op = "rename" => doing[s].to \in NewNames
                 /\ doing[s].at = "moved" => doing[s].op = "rename"
  <2> DoingTyped /\ RowsGiven /\ Commands
    BY DEF FoldersTypeOK, DoingTyped, NamesGiven
  <2> SUFFICES RowsGiven' /\ Commands'
    BY DEF NamesGiven
  <2>1. CASE UNCHANGED vars
    BY <2>1 DEF vars, Given
  <2>2. ASSUME NEW s \in Sessions, NEW path \in Paths, NEW to, NEW op,
               op = "rename" => to \in NewNames, Ask(s, op, path, to)
        PROVE  RowsGiven' /\ Commands'
    <3>1. RowsGiven'
      BY <2>2 DEF Ask, tables
    <3>2. CASE Reply(s, "NO")
      BY <3>1, <3>2 DEF Reply, DoingTyped
    <3>3. CASE doing' = [doing EXCEPT ![s] =
                 [at |-> "may", op |-> op, name |-> CheckFolderName(path),
                  to |-> to, ghost |-> Ghost(CheckFolderName(path))]]
      <4>1. ASSUME NEW t \in Sessions, doing'[t].at \in {"may", "moved"}
            PROVE  /\ IsStrictPrefix(<<User>>, doing'[t].name)
                   /\ doing'[t].op = "rename" => doing'[t].to \in NewNames
                   /\ doing'[t].at = "moved" => doing'[t].op = "rename"
        <5>1. CASE t = s
          BY <2>2, <3>3, <5>1, CheckedBelowUser DEF DoingTyped
        <5>2. CASE t # s
          BY <3>3, <4>1, <5>2 DEF DoingTyped
        <5> QED
          BY <5>1, <5>2
      <4> QED
        BY <3>1, <4>1
    <3> QED
      BY <2>2, <3>2, <3>3 DEF Ask
  <2>3. ASSUME NEW s \in Sessions, \E status \in {"OK", "NO"} : Reply(s, status)
        PROVE  Commands'
    BY <2>3 DEF Reply, DoingTyped
  <2>4. ASSUME NEW s \in Sessions, Asked(s, "rename"),
               doing' = [doing EXCEPT ![s].at = "moved"]
        PROVE  Commands'
    <3>1. doing[s] \in Running
      BY <2>4 DEF DoingTyped, Answered, Asked
    <3>2. /\ doing'[s].name = doing[s].name
          /\ doing'[s].op = doing[s].op
          /\ doing'[s].to = doing[s].to
      BY <2>4, <3>1 DEF Running, DoingTyped
    <3>3. \A t \in Sessions \ {s} : doing'[t] = doing[t]
      BY <2>4 DEF DoingTyped
    <3> QED
      BY <2>4, <3>2, <3>3 DEF Asked
  <2>5. ASSUME NEW s \in Sessions, Create(s)
        PROVE  RowsGiven'
    BY <2>5 DEF Create, Asked, Given
  <2>6. ASSUME NEW s \in Sessions, Delete(s)
        PROVE  RowsGiven'
    BY <2>6 DEF Delete
  <2>7. ASSUME NEW s \in Sessions, RenameChildren(s)
        PROVE  RowsGiven'
    <3>1. doing[s].to \in NewNames /\ doing[s].name \in Seq(Components)
      BY <2>7, RunningTyped DEF RenameChildren, Asked
    <3>2. ASSUME NEW i \in DOMAIN rows, LikeBelow(doing[s].name, rows[i])
          PROVE  Given(Append(doing[s].to, Last(rows[i])))
      <4>1. Last(rows[i]) \in Components
        BY <3>1, <3>2, LikeNotEmpty DEF FoldersTypeOK
      <4> QED
        BY <3>1, <4>1, RenameGives
    <3> QED
      BY <2>7, <3>2 DEF RenameChildren
  <2>8. ASSUME NEW s \in Sessions, RenameFolder(s)
        PROVE  RowsGiven'
    <3>1. doing[s].to \in NewNames
      BY <2>8 DEF RenameFolder
    <3> QED
      BY <2>8, <3>1, RenameGives DEF RenameFolder
  <2>9. ASSUME NEW s \in Sessions,
               \/ Fail(s) \/ Create(s) \/ Delete(s) \/ RenameChildren(s)
               \/ RenameFolder(s) \/ Subscribe(s) \/ Unsubscribe(s) \/ Open(s)
        PROVE  RowsGiven' /\ Commands'
    <3>1. Commands'
      BY <2>3, <2>4, <2>9
      DEF Fail, Create, Delete, RenameChildren, RenameFolder, Subscribe, Unsubscribe,
          Open
    <3>2. RowsGiven'
      BY <2>5, <2>6, <2>7, <2>8, <2>9 DEF Fail, Subscribe, Unsubscribe, Open, tables
    <3> QED
      BY <3>1, <3>2
  <2> QED
    BY <2>1, <2>2, <2>9 DEF FoldersNext
<1> QED
  BY <1>1, <1>2, FoldersTyped, PTL DEF FoldersSpec

\* A name below the user is shown without the user.
LEMMA ShownBelow ==
  ASSUME NEW name \in Seq(Components), IsStrictPrefix(<<User>>, name), name # RootName
  PROVE  UserAt(name) # {} /\ CheckFolderName(Shown(name)) = name
<1>1. Len(name) >= 2 /\ name[1] = User
  BY BelowUser
<1>2. 1 \in UserAt(name)
  BY <1>1 DEF UserAt
<1> DEFINE I == {i \in 1 .. Len(name) : name[i] = User}
<1>3. Min(I) = 1
  <2>1. 1 \in I /\ \A y \in I : 1 =< y
    BY <1>1
  <2>2. \A x \in I : (\A y \in I : x =< y) => x = 1
    BY <2>1
  <2> QED
    BY <2>1, <2>2 DEF Min
<1>4. FirstUser(name) = 1
  BY <1>1, <1>3 DEF FirstUser, SelectInSeq
<1>5. Shown(name) = SubSeq(name, 2, Len(name))
  BY <1>4 DEF Shown
<1>6. CheckFolderName(SubSeq(name, 2, Len(name))) = name
  <2>1. SubSeq(name, 2, Len(name)) = Tail(name)
    BY <1>1
  <2> QED
    BY <1>1, <2>1 DEF CheckFolderName
<1> QED
  BY <1>2, <1>5, <1>6

\* LIST shows every folder but the root under a name it can be opened by, but
\* for those that RENAME has put elsewhere.
THEOREM RenameAloneHides == FoldersSpec => []OnlyRenameHides
<1>1. FoldersTypeOK /\ NamesGiven => OnlyRenameHides
  <2> SUFFICES ASSUME FoldersTypeOK, NamesGiven, NEW i \in DOMAIN rows,
                      IsStrictPrefix(<<User>>, rows[i]), rows[i] # RootName
               PROVE  \E path \in Listed("*", FALSE) : CheckFolderName(path) = rows[i]
    BY DEF NamesGiven, Given, OnlyRenameHides
  <2>1. UserAt(rows[i]) # {} /\ CheckFolderName(Shown(rows[i])) = rows[i]
    BY ShownBelow DEF FoldersTypeOK
  <2>2. Shown(rows[i]) \in Listed("*", FALSE)
    BY <2>1 DEF Listed, Matches
  <2> QED
    BY <2>1, <2>2
<1> QED
  BY <1>1, FoldersTyped, NamesGivenInvariant, PTL
=============================================================================
