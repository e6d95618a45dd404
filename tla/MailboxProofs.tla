---------------------------- MODULE MailboxProofs ----------------------------
(***************************************************************************)
(* Theorems about what sessions read of a mailbox: about MailStore, for    *)
(* every set of sessions, every number of messages and every order of      *)
(* archiving and deleting, and about FetchMessage, for every request,      *)
(* every mailbox and whatever is written to the database in the meantime.  *)
(***************************************************************************)
EXTENDS MailStore, FetchMessage, SequenceLemmas, FiniteSetTheorems

-----------------------------------------------------------------------------
(* The mailbox. *)

\* What the triggers keep: a message has a row of flags while it is there,
\* and an offset exactly if it is archived; keys are never used twice.
TablesAgree ==
  /\ nextIdx \in Nat
  /\ \A i \in rows : i \in Nat /\ i < nextIdx
  /\ archived \subseteq rows
  /\ offsets = archived
  /\ flagRows = rows
  /\ flagged \subseteq rows

\* The steps of a session change the tables in two places only: the files of
\* an EXPUNGE and the flags of a STORE.
LEMMA SessionsKeepTables ==
  ASSUME NEW s \in Sessions,
         \/ Select(s) \/ Noop(s) \/ Fetch(s) \/ SessionStep(s) \/ Expunge(s)
         \/ \E i \in 1 .. MaxIdx : Store(s, i)
  PROVE  /\ UNCHANGED <<rows, nextIdx, archived, offsets, flagRows>>
         /\ flagged' \subseteq flagged
<1>1. CASE Select(s) \/ Noop(s) \/ Fetch(s) \/ SessionStep(s)
  BY <1>1 DEF Select, Noop, Fetch, SessionStep, FillList, CountAll, LastOfAll, tables
<1>2. CASE Expunge(s)
  BY <1>2 DEF Expunge
<1>3. ASSUME NEW i \in 1 .. MaxIdx, Store(s, i)
      PROVE  /\ UNCHANGED <<rows, nextIdx, archived, offsets, flagRows>>
             /\ flagged' \subseteq flagged
  <2>1. RowsAt(ManagerUrl(i)) = {}
    BY DEF RowsAt, ManagerUrl, AbsoluteUrl
  <2> QED
    BY <1>3, <2>1 DEF Store
<1> QED
  BY <1>1, <1>2, <1>3

LEMMA TablesAgreeInvariant == StoreSpec => []TablesAgree
<1>1. StoreInit => TablesAgree
  BY DEF StoreInit, TablesAgree
<1>2. TablesAgree /\ [StoreNext]_vars => TablesAgree'
  <2> SUFFICES ASSUME TablesAgree, [StoreNext]_vars
               PROVE  TablesAgree'
    OBVIOUS
  <2> USE DEF TablesAgree
  <2>1. CASE Deliver
    BY <2>1 DEF Deliver
  <2>2. ASSUME NEW i \in rows, Archive(i)
        PROVE  TablesAgree'
    BY <2>2 DEF Archive
  <2>3. ASSUME NEW i \in rows, NEW isDeleted \in BOOLEAN, UpdateFlags(i, isDeleted)
        PROVE  TablesAgree'
    BY <2>3 DEF UpdateFlags
  <2>4. ASSUME NEW i \in rows, DeleteRow(i)
        PROVE  TablesAgree'
    BY <2>4 DEF DeleteRow
  <2>5. ASSUME NEW s \in Sessions,
               \/ Select(s) \/ Noop(s) \/ Fetch(s) \/ SessionStep(s) \/ Expunge(s)
               \/ \E i \in 1 .. MaxIdx : Store(s, i)
        PROVE  TablesAgree'
    BY <2>5, SessionsKeepTables
  <2>6. CASE UNCHANGED vars
    BY <2>6 DEF vars, tables
  <2> QED
    BY <2>1, <2>2, <2>3, <2>4, <2>5, <2>6 DEF StoreNext
<1> QED
  BY <1>1, <1>2, PTL DEF StoreSpec

-----------------------------------------------------------------------------
\* The queries behind EXISTS, the list of messages and NOOP always count the
\* same messages, although each has joins and conditions of its own.
THEOREM QueriesCountTheSame == StoreSpec => []QueriesAgree
<1>1. TablesAgree => QueriesAgree
  BY DEF TablesAgree, QueriesAgree, Enumerated, Joined
<1> QED
  BY <1>1, TablesAgreeInvariant, PTL

-----------------------------------------------------------------------------
(* The files of EXPUNGE. *)

\* A session's copy of the flags is old, but what it says is deleted is still
\* flagged if it is still there, or its flag was taken back since: it goes
\* with its row or by another program only, and no key is used again.
CopiesHold ==
  /\ deleted \in [Sessions -> SUBSET Nat]
  /\ withdrawn \in [Sessions -> SUBSET Nat]
  /\ \A s \in Sessions : \A i \in deleted[s] : i < nextIdx
  /\ \A s \in Sessions : \A i \in deleted[s] \cap rows : i \in flagged \cup withdrawn[s]

FilesInv == TablesAgree /\ CopiesHold

LEMMA FilesStep == FilesInv /\ [StoreNext]_vars /\ TablesAgree' => FilesInv'
<1> SUFFICES ASSUME FilesInv, [StoreNext]_vars, TablesAgree'
             PROVE  CopiesHold'
  BY DEF FilesInv
<1> USE DEF FilesInv, CopiesHold
<1>1. CASE Deliver
  BY <1>1 DEF Deliver, copies, past, TablesAgree
<1>2. ASSUME NEW i \in rows, Archive(i) \/ DeleteRow(i)
      PROVE  CopiesHold'
  BY <1>2 DEF Archive, DeleteRow, copies, TablesAgree
<1>3. ASSUME NEW i \in rows, NEW isDeleted \in BOOLEAN, UpdateFlags(i, isDeleted)
      PROVE  CopiesHold'
  <2>1. UNCHANGED <<rows, nextIdx, deleted>>
    BY <1>3 DEF UpdateFlags, copies
  <2>2. \A s \in Sessions : flagged \cup withdrawn[s] \subseteq flagged' \cup withdrawn'[s]
    BY <1>3 DEF UpdateFlags
  <2>3. withdrawn' \in [Sessions -> SUBSET Nat]
    BY <1>3 DEF UpdateFlags, TablesAgree
  <2> QED
    BY <2>1, <2>2, <2>3
<1>4. ASSUME NEW s \in Sessions, FillList(s)
      PROVE  CopiesHold'
  BY <1>4 DEF FillList, ReadDeleted, Enumerated, tables, TablesAgree
<1>5. ASSUME NEW s \in Sessions, NEW i \in 1 .. MaxIdx, Store(s, i)
      PROVE  CopiesHold'
  <2>1. RowsAt(ManagerUrl(i)) = {}
    BY DEF RowsAt, ManagerUrl, AbsoluteUrl
  <2>2. UNCHANGED <<rows, nextIdx, flagged, deleted, withdrawn>>
    BY <1>5, <2>1 DEF Store, copies, past
  <2>3. QED
    BY <2>2
<1>6. ASSUME NEW s \in Sessions,
             Select(s) \/ Noop(s) \/ Fetch(s) \/ CountAll(s) \/ LastOfAll(s) \/ Expunge(s)
      PROVE  CopiesHold'
  BY <1>6 DEF Select, Noop, Fetch, CountAll, LastOfAll, Expunge, tables, copies, past
<1>7. CASE UNCHANGED vars
  BY <1>7 DEF vars, tables, copies, past
<1>8. QED
  BY <1>1, <1>2, <1>3, <1>4, <1>5, <1>6, <1>7 DEF StoreNext, SessionStep

\* The only steps that remove a file are the EXPUNGEs.
LEMMA FilesGoByExpunge ==
  ASSUME [StoreNext]_vars, NEW i \in files, i \notin files'
  PROVE  \E s \in Sessions : i \in deleted[s]
<1>1. ASSUME NEW s \in Sessions, Expunge(s)
      PROVE  i \in deleted[s]
  BY <1>1 DEF Expunge, Removes
<1>2. ASSUME NEW s \in Sessions,
             Select(s) \/ Noop(s) \/ Fetch(s) \/ SessionStep(s)
      PROVE  FALSE
  BY <1>2 DEF Select, Noop, Fetch, SessionStep, FillList, CountAll, LastOfAll, tables
<1>3. ASSUME NEW s \in Sessions, NEW j \in 1 .. MaxIdx, Store(s, j)
      PROVE  FALSE
  BY <1>3 DEF Store
<1>4. ASSUME NEW j \in rows, Archive(j) \/ DeleteRow(j) \/ \E isDeleted \in BOOLEAN : UpdateFlags(j, isDeleted)
      PROVE  FALSE
  BY <1>4 DEF Archive, DeleteRow, UpdateFlags
<1>5. CASE Deliver \/ UNCHANGED vars
  BY <1>5 DEF Deliver, vars, tables
<1> QED
  BY <1>1, <1>2, <1>3, <1>4, <1>5 DEF StoreNext

\* However many sessions expunge the mailbox, whatever other programs do to
\* the flags meanwhile and however old the copies are: a message that is
\* still there loses its file only while it is flagged, or after its flag was
\* taken back behind the back of the session that expunges.
THEOREM ExpungeIsCareful == StoreSpec => FilesOfFlagged
<1>1. StoreInit => CopiesHold
  BY DEF StoreInit, CopiesHold
<1>2. FilesInv /\ [StoreNext]_vars =>
        [\A i \in (archived \cap files) \ files' :
           \E s \in Sessions : i \in deleted[s] /\ i \in flagged \cup withdrawn[s]]_vars
  BY FilesGoByExpunge DEF FilesInv, CopiesHold, TablesAgree
<1>3. TablesAgree /\ CopiesHold => FilesInv
  BY DEF FilesInv
<1>4. StoreSpec => StoreInit /\ [][StoreNext]_vars
  BY DEF StoreSpec
<1>5. QED
  BY <1>1, <1>2, <1>3, <1>4, FilesStep, TablesAgreeInvariant, PTL DEF FilesOfFlagged

-----------------------------------------------------------------------------
\* A STORE that is answered OK changes nothing in the store: no row of
\* oemomessageflags gets the flag from a session.
THEOREM StoreStoresNothing ==
  ASSUME NEW s \in Sessions, NEW i \in 1 .. MaxIdx, Store(s, i)
  PROVE  flagged' = flagged
<1>1. RowsAt(ManagerUrl(i)) = {}
  BY DEF RowsAt, ManagerUrl, AbsoluteUrl
<1> QED
  BY <1>1 DEF Store

-----------------------------------------------------------------------------
(* Lists in the order of idx. *)

\* Such a list has each message of the set once, the older ones first.
LEMMA InOrderFacts ==
  ASSUME NEW S \in SUBSET Nat, IsFiniteSet(S)
  PROVE  /\ Cardinality(S) \in Nat
         /\ InOrderOfIdx(S) \in [1 .. Cardinality(S) -> S]
<1> DEFINE c == Cardinality(S)
           Before(i) == {j \in S : j < i}
           rank == [i \in S |-> Cardinality(Before(i))]
<1>1. c \in Nat
  BY FS_CardinalityType
<1>2. ASSUME NEW i \in S
      PROVE  /\ IsFiniteSet(Before(i))
             /\ rank[i] \in 0 .. c - 1
  <2>1. IsFiniteSet(Before(i)) /\ Cardinality(Before(i)) <= c
    BY FS_Subset
  <2>2. Before(i) # S
    OBVIOUS
  <2>3. Cardinality(Before(i)) # c
    BY <2>2, FS_Subset
  <2>4. Cardinality(Before(i)) \in Nat
    BY <2>1, FS_CardinalityType
  <2> QED
    BY <1>1, <2>1, <2>3, <2>4
<1>3. ASSUME NEW i \in S, NEW j \in S, i < j
      PROVE  rank[i] # rank[j]
  <2>1. Before(i) \subseteq Before(j) /\ i \in Before(j) /\ i \notin Before(i)
    <3>1. \A x \in S : x \in Int
      OBVIOUS
    <3>2. \A x \in Before(i) : x \in Before(j)
      BY <1>3, <3>1
    <3>3. i \in Before(j)
      BY <1>3
    <3>4. i \notin Before(i)
      BY <3>1
    <3>5. Before(i) \subseteq S
      OBVIOUS
    <3> HIDE DEF Before
    <3> QED
      BY <3>2, <3>3, <3>4, <3>5
  <2>2. IsFiniteSet(Before(j))
    BY <1>2
  <2>3. Cardinality(Before(i)) # Cardinality(Before(j))
    <3> HIDE DEF Before
    <3> QED
      BY <2>1, <2>2, FS_Subset
  <2> QED
    BY <2>3
<1>4. ASSUME NEW m \in 0 .. c - 1
      PROVE  \E i \in S : rank[i] = m
  <2> SUFFICES ASSUME \A i \in S : rank[i] # m
               PROVE  FALSE
    OBVIOUS
  <2> DEFINE T == (0 .. c - 1) \ {m}
  <2>1. IsFiniteSet(T) /\ Cardinality(T) < c
    <3>1. IsFiniteSet(0 .. c - 1) /\ Cardinality(0 .. c - 1) = c
      BY <1>1, FS_Interval
    <3> DEFINE I == 0 .. c - 1
    <3>2. m \in I
      OBVIOUS
    <3> HIDE DEF c, I
    <3>3. IsFiniteSet(I \ {m}) /\ Cardinality(I \ {m}) = Cardinality(I) - 1
      BY <3>1, <3>2, FS_RemoveElement DEF I
    <3> QED
      BY <1>1, <3>1, <3>3 DEF I
  <2>2. rank \in [S -> T]
    BY <1>2
  <2>3. PICK i \in S, j \in S : i # j /\ rank[i] = rank[j]
    <3> HIDE DEF T, rank
    <3> QED
      BY <2>1, <2>2, FS_PigeonHole
  <2> HIDE DEF rank
  <2> QED
    BY <1>3, <2>3
<1>5. ASSUME NEW n \in 1 .. c
      PROVE  \E i \in S : Cardinality(Before(i)) = n - 1
  <2>1. n - 1 \in 0 .. c - 1
    BY <1>1
  <2> QED
    BY <1>4, <2>1
<1> HIDE DEF rank
<1>6. InOrderOfIdx(S) = [n \in 1 .. c |-> CHOOSE i \in S : Cardinality(Before(i)) = n - 1]
  BY DEF InOrderOfIdx
<1> HIDE DEF Before
<1>7. \A n \in 1 .. c : (CHOOSE i \in S : Cardinality(Before(i)) = n - 1) \in S
  BY <1>5
<1> QED
  BY <1>1, <1>6, <1>7

\* The list of the first k keys is these keys.
LEMMA InOrderOfFirst ==
  ASSUME NEW k \in Nat
  PROVE  InOrderOfIdx(1 .. k) = [n \in 1 .. k |-> n]
<1>1. Cardinality(1 .. k) = k
  BY FS_Interval
<1>2. ASSUME NEW i \in 1 .. k
      PROVE  Cardinality({j \in 1 .. k : j < i}) = i - 1
  <2>1. {j \in 1 .. k : j < i} = 1 .. i - 1
    OBVIOUS
  <2>2. Cardinality(1 .. i - 1) = i - 1
    BY FS_Interval
  <2> QED
    BY <2>1, <2>2
<1>3. ASSUME NEW n \in 1 .. k
      PROVE  (CHOOSE i \in 1 .. k : Cardinality({j \in 1 .. k : j < i}) = n - 1) = n
  <2> DEFINE R(i) == Cardinality({j \in 1 .. k : j < i})
  <2>1. \A i \in 1 .. k : R(i) = i - 1
    BY <1>2
  <2> HIDE DEF R
  <2>2. \A i \in 1 .. k : R(i) = n - 1 <=> i = n
    BY <2>1
  <2>3. (CHOOSE i \in 1 .. k : R(i) = n - 1) = n
    BY <2>2
  <2> QED
    BY <2>3 DEF R
<1> QED
  BY <1>1, <1>3 DEF InOrderOfIdx

-----------------------------------------------------------------------------
(* EXISTS and UIDNEXT. *)

\* The tables are finite.
LEMMA RowsAreFinite ==
  ASSUME TablesAgree
  PROVE  /\ rows \in SUBSET Nat /\ archived \in SUBSET Nat
         /\ IsFiniteSet(rows) /\ IsFiniteSet(archived)
         /\ Total \in Nat
<1>1. rows \in SUBSET Nat /\ archived \subseteq rows
  BY DEF TablesAgree
<1>2. \A i \in rows : i <= nextIdx
  BY <1>1 DEF TablesAgree
<1>3. IsFiniteSet(rows)
  BY <1>1, <1>2, FS_BoundedSetOfNaturals DEF TablesAgree
<1>4. IsFiniteSet(archived)
  BY <1>1, <1>3, FS_Subset
<1> QED
  BY <1>1, <1>3, <1>4, FS_CardinalityType DEF Total

\* MAX( idx ) is no less than any key.
LEMMA LastIsLast ==
  ASSUME TablesAgree
  PROVE  LastIdx \in Nat /\ \A i \in rows : i <= LastIdx
<1> DEFINE Bounds == {n \in Nat : \A i \in rows : i <= n}
<1>1. \A i \in rows : i \in Nat /\ i < nextIdx
  BY DEF TablesAgree
<1>2. nextIdx \in Bounds
  BY <1>1 DEF TablesAgree
<1>3. PICK m \in Bounds : \A n \in Bounds : <<n, m>> \notin OpToRel(<, Nat)
  <2>1. Bounds \subseteq Nat /\ Bounds # {}
    BY <1>2
  <2> HIDE DEF Bounds
  <2> QED
    BY <2>1, NatLessThanWellFounded, WFMin
<1>4. \A n \in Bounds : ~(n < m)
  <2>1. Bounds \subseteq Nat
    OBVIOUS
  <2> HIDE DEF Bounds
  <2> QED
    BY <1>3, <2>1, Zenon DEF OpToRel
<1>5. m \in rows \cup {0}
  <2> SUFFICES ASSUME m # 0, m \notin rows
               PROVE  FALSE
    OBVIOUS
  <2>1. m - 1 \in Nat
    OBVIOUS
  <2>2. \A i \in rows : i <= m - 1
    BY <1>1
  <2>3. m - 1 \in Bounds
    BY <2>1, <2>2
  <2> QED
    BY <1>4, <2>3
<1>6. \A i \in rows : i <= m
  OBVIOUS
<1>7. LastIdx \in rows \cup {0} /\ \A i \in rows : i <= LastIdx
  BY <1>5, <1>6 DEF LastIdx
<1> QED
  BY <1>1, <1>7

\* What a session's list and counts are, compared with the tables, as long as
\* no row has been deleted: the list has archived messages only, and no more
\* of them than there are; each statement of a refresh covers the one before.
Covered(s) ==
  /\ ToSet(messages[s]) \subseteq archived
  /\ Len(messages[s]) <= Total
  /\ stage[s] \in {"max", "idle"} => Len(messages[s]) <= exists[s]
  /\ stage[s] = "idle" => \A i \in ToSet(messages[s]) : i < uid_next[s]

CopiesTyped ==
  /\ messages \in [Sessions -> Seq(Nat)]
  /\ exists \in [Sessions -> Nat]
  /\ uid_next \in [Sessions -> Nat]
  /\ stage \in [Sessions -> {"out", "idle", "list", "count", "max"}]

InfoInv == CopiesTyped /\ (~shrunk => \A s \in Sessions : Covered(s))

LEMMA InfoInit == StoreInit => InfoInv
<1> SUFFICES ASSUME StoreInit
             PROVE  InfoInv
  OBVIOUS
<1>1. CopiesTyped
  BY DEF StoreInit, CopiesTyped
<1>2. Total = 0
  BY FS_EmptySet DEF StoreInit, Total
<1>3. ASSUME NEW s \in Sessions
      PROVE  Covered(s)
  BY <1>2 DEF Covered, StoreInit, ToSet
<1> QED
  BY <1>1, <1>3 DEF InfoInv

\* A list that has been made is typed and within the tables.
LEMMA ListFacts ==
  ASSUME TablesAgree
  PROVE  /\ InOrderOfIdx(Enumerated) \in Seq(Nat)
         /\ Len(InOrderOfIdx(Enumerated)) = Total
         /\ ToSet(InOrderOfIdx(Enumerated)) \subseteq archived
<1>1. Enumerated = archived
  BY DEF TablesAgree, Enumerated
<1>2. /\ archived \in SUBSET Nat
      /\ Total \in Nat
      /\ InOrderOfIdx(archived) \in [1 .. Total -> archived]
  BY RowsAreFinite, InOrderFacts DEF Total
<1> DEFINE q == InOrderOfIdx(archived)
<1>3. q \in [1 .. Total -> archived] /\ q \in [1 .. Total -> Nat]
  BY <1>2
<1> HIDE DEF q
<1>4. q \in Seq(Nat) /\ Len(q) = Total /\ ToSet(q) \subseteq archived
  BY <1>2, <1>3 DEF ToSet
<1> QED
  BY <1>1, <1>4 DEF q

LEMMA InfoStep ==
  ASSUME TablesAgree, TablesAgree', InfoInv, [StoreNext]_vars
  PROVE  InfoInv'
<1> USE DEF InfoInv, CopiesTyped
<1>1. CASE Deliver
  BY <1>1 DEF Deliver, copies, past, Covered, Total
<1>2. ASSUME NEW i \in rows, Archive(i)
      PROVE  InfoInv'
  <2>1. /\ archived' = archived \cup {i}
        /\ UNCHANGED <<messages, exists, uid_next, stage, shrunk>>
    BY <1>2 DEF Archive, copies
  <2>2. Total \in Nat /\ Total' \in Nat /\ Total <= Total'
    <3>1. IsFiniteSet(archived) /\ Cardinality(archived) \in Nat
      BY RowsAreFinite DEF Total
    <3>2. Cardinality(archived \cup {i}) \in {Cardinality(archived), Cardinality(archived) + 1}
      BY <3>1, FS_AddElement
    <3>3. Total = Cardinality(archived) /\ Total' = Cardinality(archived \cup {i})
      BY <2>1 DEF Total
    <3> QED
      BY <3>1, <3>2, <3>3
  <2>3. ASSUME NEW s \in Sessions, Covered(s)
        PROVE  Covered(s)'
    <3>1. Len(messages[s]) \in Nat
      OBVIOUS
    <3> QED
      BY <2>1, <2>2, <2>3, <3>1 DEF Covered
  <2> QED
    BY <2>1, <2>3
<1>3. ASSUME NEW i \in rows, NEW isDeleted \in BOOLEAN, UpdateFlags(i, isDeleted)
      PROVE  InfoInv'
  BY <1>3 DEF UpdateFlags, copies, past, Covered, Total
<1>4. ASSUME NEW i \in rows, DeleteRow(i)
      PROVE  InfoInv'
  BY <1>4 DEF DeleteRow, copies
<1>5. ASSUME NEW s \in Sessions, Select(s) \/ Noop(s) \/ Fetch(s)
      PROVE  InfoInv'
  <2>1. /\ stage' = [stage EXCEPT ![s] = "list"]
        /\ UNCHANGED <<messages, exists, uid_next, archived, shrunk>>
    BY <1>5 DEF Select, Noop, Fetch, Refresh, tables, copies, past
  <2>2. ASSUME NEW t \in Sessions, Covered(t)
        PROVE  Covered(t)'
    BY <2>1, <2>2 DEF Covered, Total
  <2> QED
    BY <2>1, <2>2
<1>6. ASSUME NEW s \in Sessions, FillList(s)
      PROVE  InfoInv'
  <2> DEFINE list == InOrderOfIdx(Enumerated)
  <2>1. /\ messages' = [messages EXCEPT ![s] = list]
        /\ stage' = [stage EXCEPT ![s] = "count"]
        /\ UNCHANGED <<exists, uid_next, archived, shrunk>>
    BY <1>6 DEF FillList, tables, past
  <2>2. list \in Seq(Nat) /\ Len(list) = Total /\ ToSet(list) \subseteq archived
    BY ListFacts
  <2> HIDE DEF list
  <2>3. Total \in Nat /\ Total' = Total
    BY <2>1, RowsAreFinite DEF Total
  <2>4. ASSUME NEW t \in Sessions, Covered(t)
        PROVE  Covered(t)'
    <3>1. CASE t = s
      BY <2>1, <2>2, <2>3, <3>1 DEF Covered
    <3>2. CASE t # s
      BY <2>1, <2>3, <2>4, <3>2 DEF Covered
    <3> QED
      BY <3>1, <3>2
  <2> QED
    BY <2>1, <2>2, <2>4
<1>7. ASSUME NEW s \in Sessions, CountAll(s)
      PROVE  InfoInv'
  <2>1. /\ exists' = [exists EXCEPT ![s] = Total]
        /\ stage' = [stage EXCEPT ![s] = "max"]
        /\ UNCHANGED <<messages, uid_next, archived, shrunk>>
    BY <1>7 DEF CountAll, tables, past
  <2>2. Total \in Nat /\ Total' = Total
    BY <2>1, RowsAreFinite DEF Total
  <2>3. ASSUME NEW t \in Sessions, Covered(t)
        PROVE  Covered(t)'
    <3>1. CASE t = s
      BY <2>1, <2>2, <2>3, <3>1 DEF Covered
    <3>2. CASE t # s
      BY <2>1, <2>2, <2>3, <3>2 DEF Covered
    <3> QED
      BY <3>1, <3>2
  <2> QED
    BY <2>1, <2>2, <2>3
<1>8. ASSUME NEW s \in Sessions, LastOfAll(s)
      PROVE  InfoInv'
  <2>1. /\ uid_next' = [uid_next EXCEPT ![s] = LastIdx + 1]
        /\ stage[s] = "max"
        /\ stage' = [stage EXCEPT ![s] = "idle"]
        /\ UNCHANGED <<messages, exists, archived, shrunk>>
    BY <1>8 DEF LastOfAll, tables, past
  <2>2. LastIdx \in Nat /\ \A i \in archived : i \in Nat /\ i < LastIdx + 1
    BY LastIsLast DEF TablesAgree
  <2>3. Total' = Total
    BY <2>1 DEF Total
  <2>4. ASSUME NEW t \in Sessions, Covered(t)
        PROVE  Covered(t)'
    <3>1. CASE t = s
      <4>1. uid_next'[t] = LastIdx + 1
        BY <2>1, <3>1
      <4> QED
        BY <2>1, <2>2, <2>3, <2>4, <3>1, <4>1 DEF Covered
    <3>2. CASE t # s
      BY <2>1, <2>3, <2>4, <3>2 DEF Covered
    <3> QED
      BY <3>1, <3>2
  <2> QED
    BY <2>1, <2>2, <2>4
<1>9. ASSUME NEW s \in Sessions, Expunge(s)
      PROVE  InfoInv'
  <2>1. /\ stage' = [stage EXCEPT ![s] = "list"] \/ UNCHANGED stage
        /\ UNCHANGED <<messages, exists, uid_next, archived, shrunk>>
    BY <1>9 DEF Expunge, Refresh, copies, past
  <2>2. ASSUME NEW t \in Sessions, Covered(t)
        PROVE  Covered(t)'
    BY <2>1, <2>2 DEF Covered, Total
  <2> QED
    BY <2>1, <2>2
<1>10. ASSUME NEW s \in Sessions, NEW i \in 1 .. MaxIdx, Store(s, i)
       PROVE  InfoInv'
  BY <1>10 DEF Store, copies, past, Covered, Total
<1>11. CASE UNCHANGED vars
  BY <1>11 DEF vars, tables, copies, past, Covered, Total
<1> QED
  BY <1>1, <1>2, <1>3, <1>4, <1>5, <1>6, <1>7, <1>8, <1>9, <1>10, <1>11
  DEF StoreNext, SessionStep

LEMMA InfoInvariant == StoreSpec => []InfoInv
<1>1. TablesAgree /\ TablesAgree' /\ InfoInv /\ [StoreNext]_vars => InfoInv'
  BY InfoStep
<1> QED
  BY <1>1, InfoInit, TablesAgreeInvariant, PTL DEF StoreSpec

\* EXISTS and UIDNEXT never fall behind the list they are sent with, although
\* three statements ask for the three and other programs write in between,
\* as long as no row is deleted.
THEOREM InfoIsEnough == StoreSpec => []InfoCoversList
<1>1. InfoInv => InfoCoversList
  BY DEF InfoInv, InfoCoversList, Covered
<1> QED
  BY <1>1, InfoInvariant, PTL

-----------------------------------------------------------------------------
(* The numbers of messages. *)

FirstKeys(k) == [n \in 1 .. k |-> n]

\* As long as no row is deleted the keys are the first ones, and as long as
\* messages are archived in order so are those of the archived messages; a
\* list and what its client was told of it are the first of these.
InOrder(s) ==
  /\ messages[s] = FirstKeys(Len(messages[s]))
  /\ hidden[s] = {} =>
       /\ view[s] = FirstKeys(Len(view[s]))
       /\ Len(view[s]) <= Len(messages[s])

ClientsTyped ==
  /\ view \in [Sessions -> Seq(Nat)]
  /\ hidden \in [Sessions -> SUBSET Nat]

NumbersInv ==
  /\ ClientsTyped
  /\ nextIdx >= 1
  /\ ~shrunk => rows = 1 .. nextIdx - 1
  /\ ~shrunk /\ ~disordered =>
       archived = 1 .. Total /\ \A s \in Sessions : InOrder(s)

LEMMA NumbersInit == StoreInit => NumbersInv
<1> SUFFICES ASSUME StoreInit
             PROVE  NumbersInv
  OBVIOUS
<1>1. ClientsTyped
  BY DEF StoreInit, ClientsTyped
<1>2. Total = 0
  BY FS_EmptySet DEF StoreInit, Total
<1>3. ASSUME NEW s \in Sessions
      PROVE  InOrder(s)
  BY DEF InOrder, StoreInit, FirstKeys
<1> QED
  BY <1>1, <1>2, <1>3 DEF NumbersInv, StoreInit

\* What a client is left with is typed, and all it had if nothing is gone.
LEMMA WithoutFacts ==
  ASSUME NEW q \in Seq(Nat), NEW gone
  PROVE  /\ Without(q, gone) \in Seq(Nat)
         /\ gone = {} => Without(q, gone) = q
<1> DEFINE kept == {n \in DOMAIN q : q[n] \notin gone}
           order == InOrderOfIdx(kept)
<1>1. Len(q) \in Nat /\ DOMAIN q = 1 .. Len(q) /\ \A n \in DOMAIN q : q[n] \in Nat
  OBVIOUS
<1>2. kept \in SUBSET Nat /\ kept \subseteq 1 .. Len(q)
  BY <1>1
<1>3. IsFiniteSet(kept)
  <2>1. IsFiniteSet(1 .. Len(q))
    BY <1>1, FS_Interval
  <2> HIDE DEF kept
  <2> QED
    BY <1>2, <2>1, FS_Subset
<1>4. PICK c \in Nat : order \in [1 .. c -> kept]
  <2> HIDE DEF kept
  <2> QED
    BY <1>2, <1>3, InOrderFacts
<1>5. Without(q, gone) = [n \in DOMAIN order |-> q[order[n]]]
  BY DEF Without
<1>6. Without(q, gone) \in Seq(Nat)
  <2> HIDE DEF order, kept
  <2>1. \A n \in 1 .. c : q[order[n]] \in Nat
    BY <1>1, <1>2, <1>4
  <2>2. Without(q, gone) = [n \in 1 .. c |-> q[order[n]]]
    BY <1>4, <1>5
  <2>3. Without(q, gone) \in [1 .. c -> Nat]
    BY <2>1, <2>2
  <2> QED
    BY <2>3
<1>7. ASSUME gone = {}
      PROVE  Without(q, gone) = q
  <2>1. kept = 1 .. Len(q)
    BY <1>1, <1>7
  <2>2. order = [n \in 1 .. Len(q) |-> n]
    <3> HIDE DEF kept
    <3> QED
      BY <1>1, <2>1, InOrderOfFirst
  <2> HIDE DEF order
  <2> QED
    BY <1>1, <1>5, <2>2
<1> QED
  BY <1>6, <1>7

LEMMA NumbersStep ==
  ASSUME TablesAgree, InfoInv, NumbersInv, [StoreNext]_vars
  PROVE  NumbersInv'
<1> USE DEF NumbersInv, ClientsTyped
<1>1. CASE Deliver
  <2>1. /\ rows' = rows \cup {nextIdx}
        /\ nextIdx' = nextIdx + 1
        /\ UNCHANGED <<archived, messages, view, hidden, shrunk, disordered>>
    BY <1>1 DEF Deliver, copies, clients, past
  <2>2. nextIdx \in Nat
    BY DEF TablesAgree
  <2>3. rows = 1 .. nextIdx - 1 => rows' = 1 .. nextIdx' - 1
    BY <2>1, <2>2
  <2> QED
    BY <2>1, <2>2, <2>3 DEF InOrder, Total
<1>2. ASSUME NEW i \in rows, Archive(i)
      PROVE  NumbersInv'
  <2>1. /\ i \notin archived
        /\ archived' = archived \cup {i}
        /\ disordered' = (disordered \/ \E j \in rows \ archived : j < i)
        /\ UNCHANGED <<rows, nextIdx, messages, view, hidden, shrunk>>
    BY <1>2 DEF Archive, copies, clients
  <2>2. ASSUME ~shrunk', ~disordered'
        PROVE  archived' = 1 .. Total' /\ \A s \in Sessions : InOrder(s)'
    <3>1. /\ rows = 1 .. nextIdx - 1
          /\ archived = 1 .. Total
          /\ \A s \in Sessions : InOrder(s)
          /\ \A j \in rows \ archived : ~(j < i)
      BY <2>1, <2>2
    <3>2. Total \in Nat /\ nextIdx \in Nat /\ archived \subseteq rows
      BY RowsAreFinite DEF TablesAgree
    <3>3. i = Total + 1
      <4>1. i > Total /\ i < nextIdx /\ i \in Nat
        BY <2>1, <3>1, <3>2
      <4>2. Total + 1 \in rows \ archived
        BY <3>1, <3>2, <4>1
      <4> QED
        BY <3>1, <3>2, <4>1, <4>2
    <3>4. archived' = 1 .. Total + 1
      BY <2>1, <3>1, <3>2, <3>3
    <3>5. Total' = Total + 1
      <4>1. Cardinality(1 .. Total + 1) = Total + 1
        BY <3>2, FS_Interval
      <4> QED
        BY <3>4, <4>1 DEF Total
    <3> QED
      BY <2>1, <3>1, <3>4, <3>5 DEF InOrder
  <2> QED
    BY <2>1, <2>2
<1>3. ASSUME NEW i \in rows, NEW isDeleted \in BOOLEAN, UpdateFlags(i, isDeleted)
      PROVE  NumbersInv'
  BY <1>3 DEF UpdateFlags, copies, clients, past, InOrder, Total
<1>4. ASSUME NEW i \in rows, DeleteRow(i)
      PROVE  NumbersInv'
  BY <1>4 DEF DeleteRow, clients
<1>5. ASSUME NEW s \in Sessions, Select(s) \/ Noop(s) \/ Fetch(s) \/ CountAll(s)
      PROVE  NumbersInv'
  <2>1. UNCHANGED <<rows, nextIdx, archived, messages, view, hidden, shrunk, disordered>>
    BY <1>5 DEF Select, Noop, Fetch, CountAll, tables, copies, clients, past
  <2> QED
    BY <2>1 DEF InOrder, Total
<1>6. ASSUME NEW s \in Sessions, FillList(s)
      PROVE  NumbersInv'
  <2> DEFINE list == InOrderOfIdx(Enumerated)
  <2>1. /\ messages' = [messages EXCEPT ![s] = list]
        /\ UNCHANGED <<rows, nextIdx, archived, view, hidden, shrunk, disordered>>
    BY <1>6 DEF FillList, tables, clients, past
  <2>2. ASSUME ~shrunk, archived = 1 .. Total, NEW t \in Sessions, InOrder(t)
        PROVE  InOrder(t)'
    <3>1. CASE t = s
      <4>1. Total \in Nat /\ Enumerated = 1 .. Total
        BY <2>2, RowsAreFinite DEF TablesAgree, Enumerated
      <4>2. list = FirstKeys(Total) /\ Len(list) = Total
        <5>1. list = FirstKeys(Total)
          BY <4>1, InOrderOfFirst DEF FirstKeys
        <5> HIDE DEF list
        <5> QED
          BY <4>1, <5>1 DEF FirstKeys
      <4> HIDE DEF list
      <4>3. messages'[t] = list /\ view'[t] = view[t] /\ hidden'[t] = hidden[t]
        BY <2>1, <3>1 DEF InfoInv, CopiesTyped
      <4>4. Len(messages[t]) <= Total /\ Len(messages[t]) \in Nat /\ Len(view[t]) \in Nat
        BY <2>2 DEF InfoInv, CopiesTyped, Covered
      <4> QED
        BY <2>2, <4>1, <4>2, <4>3, <4>4 DEF InOrder
    <3>2. CASE t # s
      BY <2>1, <2>2, <3>2 DEF InOrder, InfoInv, CopiesTyped
    <3> QED
      BY <3>1, <3>2
  <2>3. Total' = Total
    BY <2>1 DEF Total
  <2> HIDE DEF list
  <2> QED
    BY <2>1, <2>2, <2>3
<1>7. ASSUME NEW s \in Sessions, LastOfAll(s)
      PROVE  NumbersInv'
  <2>1. /\ UNCHANGED <<rows, nextIdx, archived, messages, shrunk, disordered>>
        /\ \/ UNCHANGED <<view, hidden>>
           \/ /\ view' = [view EXCEPT ![s] = messages[s]]
              /\ hidden' = hidden \/ hidden' = [hidden EXCEPT ![s] = {}]
    <3>1. [hidden EXCEPT ![s] = hidden[s]] = hidden
      OBVIOUS
    <3>2. CASE op[s] \in {"select", "noop"}
      <4>1. CASE op[s] = "select"
        BY <1>7, <3>2, <4>1 DEF LastOfAll, tables, past
      <4>2. CASE op[s] # "select"
        BY <1>7, <3>1, <3>2, <4>2 DEF LastOfAll, tables, past
      <4> QED
        BY <4>1, <4>2
    <3>3. CASE op[s] \notin {"select", "noop"}
      BY <1>7, <3>3 DEF LastOfAll, tables, past
    <3> QED
      BY <3>2, <3>3
  <2>2. messages \in [Sessions -> Seq(Nat)]
    BY DEF InfoInv, CopiesTyped
  <2>3. ASSUME NEW t \in Sessions, InOrder(t)
        PROVE  InOrder(t)'
    <3>1. CASE t = s /\ view' = [view EXCEPT ![s] = messages[s]]
      <4>1. view'[t] = messages[t] /\ messages'[t] = messages[t]
        BY <2>1, <3>1
      <4>2. Len(messages[t]) \in Nat
        BY <2>2
      <4> QED
        BY <2>3, <4>1, <4>2 DEF InOrder
    <3>2. CASE t # s \/ UNCHANGED <<view, hidden>>
      <4>1. view'[t] = view[t] /\ hidden'[t] = hidden[t] /\ messages'[t] = messages[t]
        BY <2>1, <3>2
      <4> QED
        BY <2>3, <4>1 DEF InOrder
    <3> QED
      BY <2>1, <3>1, <3>2
  <2>4. ClientsTyped'
    BY <2>1, <2>2
  <2>5. Total' = Total
    BY <2>1 DEF Total
  <2> QED
    BY <2>1, <2>3, <2>4, <2>5
<1>8. ASSUME NEW s \in Sessions, Expunge(s)
      PROVE  NumbersInv'
  <2>1. PICK gone \in SUBSET Nat :
          /\ UNCHANGED <<rows, nextIdx, archived, messages, shrunk, disordered>>
          /\ \/ UNCHANGED <<view, hidden>>
             \/ /\ hidden' = [hidden EXCEPT ![s] = @ \cup gone]
                /\ view' = [view EXCEPT ![s] = Without(@, gone)]
    <3> DEFINE missing == {n \in Removes(s) : messages[s][n] \notin files}
               reached == {n \in Removes(s) : \A m \in missing : n < m}
               before == {messages[s][n] : n \in reached}
    <3>1. before \in SUBSET Nat
      <4>1. \A n \in DOMAIN messages[s] : messages[s][n] \in Nat
        BY DEF InfoInv, CopiesTyped
      <4> QED
        BY <4>1 DEF Removes
    <3>2. /\ UNCHANGED <<rows, nextIdx, archived, messages, shrunk, disordered>>
          /\ \/ UNCHANGED <<view, hidden>>
             \/ /\ hidden' = [hidden EXCEPT ![s] = @ \cup before]
                /\ view' = [view EXCEPT ![s] = Without(@, before)]
      BY <1>8 DEF Expunge, copies, past
    <3> HIDE DEF before
    <3> QED
      BY <3>1, <3>2
  <2>2. Without(view[s], gone) \in Seq(Nat) /\ (gone = {} => Without(view[s], gone) = view[s])
    BY WithoutFacts
  <2>3. ASSUME NEW t \in Sessions, InOrder(t)
        PROVE  InOrder(t)'
    <3>1. messages'[t] = messages[t]
      BY <2>1
    <3>2. hidden'[t] = {} => view'[t] = view[t] /\ hidden[t] = {}
      BY <2>1, <2>2
    <3> QED
      BY <2>3, <3>1, <3>2 DEF InOrder
  <2>4. ClientsTyped'
    BY <2>1, <2>2
  <2>5. Total' = Total
    BY <2>1 DEF Total
  <2> QED
    BY <2>1, <2>3, <2>4, <2>5
<1>9. ASSUME NEW s \in Sessions, NEW i \in 1 .. MaxIdx, Store(s, i)
      PROVE  NumbersInv'
  BY <1>9 DEF Store, copies, clients, past, InOrder, Total
<1>10. CASE UNCHANGED vars
  BY <1>10 DEF vars, tables, copies, clients, past, InOrder, Total
<1> QED
  BY <1>1, <1>2, <1>3, <1>4, <1>5, <1>6, <1>7, <1>8, <1>9, <1>10
  DEF StoreNext, SessionStep

LEMMA NumbersInvariant == StoreSpec => []NumbersInv
<1>1. TablesAgree /\ InfoInv /\ NumbersInv /\ [StoreNext]_vars => NumbersInv'
  BY NumbersStep
<1> QED
  BY <1>1, NumbersInit, InfoInvariant, TablesAgreeInvariant, PTL DEF StoreSpec

\* However many refreshes run, and whatever other programs deliver and
\* archive between their statements, no number a client was told changes its
\* message, as long as messages are archived in order, none is deleted and
\* the client was told of no EXPUNGE.
THEOREM NumbersStay == StoreSpec => []NumbersKept
<1>1. ASSUME InfoInv, NumbersInv
      PROVE  NumbersKept
  <2> SUFFICES ASSUME ~disordered, ~shrunk, NEW s \in Sessions, hidden[s] = {}
               PROVE  IsPrefix(view[s], messages[s])
    BY DEF NumbersKept
  <2>1. /\ messages[s] = FirstKeys(Len(messages[s]))
        /\ view[s] = FirstKeys(Len(view[s]))
        /\ Len(view[s]) <= Len(messages[s])
    BY <1>1 DEF NumbersInv, InOrder
  <2>2. Len(view[s]) \in Nat /\ Len(messages[s]) \in Nat
    BY <1>1 DEF InfoInv, CopiesTyped, NumbersInv, ClientsTyped
  <2>3. ASSUME NEW m \in Nat, NEW k \in 0 .. m
        PROVE  SubSeq(FirstKeys(m), 1, k) = FirstKeys(k)
    BY DEF FirstKeys
  <2> DEFINE v == Len(view[s])
             l == Len(messages[s])
  <2>4. v \in Nat /\ l \in Nat /\ v <= l
    BY <2>1, <2>2
  <2>5. SubSeq(view[s], 1, v) = SubSeq(messages[s], 1, v)
    <3>1. view[s] = FirstKeys(v) /\ messages[s] = FirstKeys(l)
      BY <2>1
    <3> HIDE DEF v, l
    <3>2. v \in 0 .. v /\ v \in 0 .. l
      BY <2>4
    <3> QED
      BY <2>3, <2>4, <3>1, <3>2
  <2> QED
    BY <2>4, <2>5 DEF IsPrefix
<1> QED
  BY <1>1, InfoInvariant, NumbersInvariant, PTL

-----------------------------------------------------------------------------
(* FETCH. *)

\* The locals of FetchMessage() and the copies keep their ranges.
LocalsTyped ==
  /\ DOMAIN msg = {"flags", "mflags", "bPeek", "strPayload", "stream"}
  /\ IsSeq(msg.stream)
  /\ msg.flags \subseteq Flags
  /\ copy \in [Messages -> SUBSET Flags]
  /\ IsSeq(ostr)
  /\ todo \in Seq(Messages)
  /\ stored \in [Messages -> SUBSET Flags]
  /\ status = "items" => todo # <<>>

\* An answer to a body item is what the item asks for.
OwnAnswer(a) ==
  a.item.first \in {"body", "body.peek"} =>
    \/ a.item.second \in {PartHeader, PartHeaderFields}
    \/ a.content = AskedFor(a.item.second)

\* An answer to FLAGS shows no flag but those.
ShowsFlags(a, flags) == a.item.first = "flags" => a.content \subseteq flags

\* What has been answered, in the response that is being made as well.
AnswersInv ==
  /\ \A i \in DOMAIN ostr : \A j \in DOMAIN ostr[i].stream : OwnAnswer(ostr[i].stream[j])
  /\ \A j \in DOMAIN msg.stream : OwnAnswer(msg.stream[j])

\* Flags are shown from mflags, and whatever is there will be stored.
FlagsInv ==
  /\ msg.mflags \subseteq msg.flags
  /\ \A j \in DOMAIN msg.stream : ShowsFlags(msg.stream[j], msg.mflags)

-----------------------------------------------------------------------------
\* The sections the answers tell apart are not each other.
LEMMA SectionsDiffer ==
  /\ <<>> \notin {Whole, Header, HeaderFields, HeaderFieldsNot, Text, PartHeader,
                  PartHeaderFields}
  /\ Whole \notin {Header, HeaderFields, HeaderFieldsNot, Text, PartHeader,
                   PartHeaderFields}
  /\ Header \notin {HeaderFields, HeaderFieldsNot, Text, PartHeader, PartHeaderFields}
  /\ HeaderFields \notin {HeaderFieldsNot, Text, PartHeader, PartHeaderFields}
  /\ HeaderFieldsNot \notin {Text, PartHeader, PartHeaderFields}
  /\ Text \notin {PartHeader, PartHeaderFields}
  /\ PartHeader # PartHeaderFields
BY DEF Whole, Header, HeaderFields, HeaderFieldsNot, Text, PartHeader, PartHeaderFields

\* One item adds at most one answer, its own, and takes no flag away that has
\* been shown.
LEMMA ItemKeeps ==
  ASSUME LocalsTyped, AnswersInv, FlagsInv, NEW it, NEW after \in Itemised(it),
         after # NoMessage
  PROVE  /\ DOMAIN after = {"flags", "mflags", "bPeek", "strPayload", "stream"}
         /\ IsSeq(after.stream)
         /\ \A j \in DOMAIN after.stream : OwnAnswer(after.stream[j])
         /\ after.mflags \subseteq after.flags /\ after.flags \subseteq Flags
         /\ \A j \in DOMAIN after.stream : ShowsFlags(after.stream[j], after.mflags)
<1> DEFINE Kept(content) ==
      /\ DOMAIN after = DOMAIN msg
      /\ after.stream = Answer(it, content)
      /\ msg.mflags \subseteq after.mflags /\ after.mflags \subseteq after.flags
      /\ after.flags \subseteq Flags
      /\ OwnAnswer([item |-> it, content |-> content])
      /\ ShowsFlags([item |-> it, content |-> content], after.mflags)
<1>1. ASSUME NEW content, Kept(content)
      PROVE  /\ DOMAIN after = {"flags", "mflags", "bPeek", "strPayload", "stream"}
             /\ IsSeq(after.stream)
             /\ \A j \in DOMAIN after.stream : OwnAnswer(after.stream[j])
             /\ after.mflags \subseteq after.flags /\ after.flags \subseteq Flags
             /\ \A j \in DOMAIN after.stream : ShowsFlags(after.stream[j], after.mflags)
  <2> DEFINE a == [item |-> it, content |-> content]
  <2>1. IsSeq(msg.stream) /\ after.stream = Append(msg.stream, a)
    BY <1>1 DEF LocalsTyped, Answer
  <2> HIDE DEF a
  <2>2. OwnAnswer(a) /\ ShowsFlags(a, after.mflags)
    BY <1>1 DEF a
  <2>3. ASSUME NEW j \in DOMAIN after.stream
        PROVE  OwnAnswer(after.stream[j]) /\ ShowsFlags(after.stream[j], after.mflags)
    <3>1. CASE j \in DOMAIN msg.stream
      <4>1. after.stream[j] = msg.stream[j]
        BY <2>1, <3>1, AppendIsSeq
      <4>2. OwnAnswer(msg.stream[j]) /\ ShowsFlags(msg.stream[j], msg.mflags)
        BY <3>1 DEF AnswersInv, FlagsInv
      <4> QED
        BY <1>1, <4>1, <4>2 DEF ShowsFlags
    <3>2. CASE j \notin DOMAIN msg.stream
      <4>1. after.stream[j] = a
        BY <2>1, <3>2, AppendIsSeq
      <4> QED
        BY <2>2, <4>1
    <3> QED
      BY <3>1, <3>2
  <2>4. IsSeq(after.stream)
    BY <2>1, AppendIsSeq
  <2> QED
    BY <1>1, <2>3, <2>4 DEF LocalsTyped
<1>2. ASSUME NEW content, it.first \notin {"flags", "body", "body.peek"},
             after \in ItemPlain(it, content)
      PROVE  Kept(content)
  BY <1>2 DEF ItemPlain, LocalsTyped, FlagsInv, OwnAnswer, ShowsFlags
<1>3. CASE it.first = "flags"
  <2>1. after \in ItemFlags(it)
    BY <1>3 DEF Itemised
  <2>2. \E content : Kept(content)
    <3>1. CASE msg.bPeek
      <4>1. Kept(msg.mflags)
        BY <1>3, <2>1, <3>1 DEF ItemFlags, LocalsTyped, FlagsInv, OwnAnswer, ShowsFlags
      <4> QED
        BY <4>1
    <3>2. CASE ~msg.bPeek
      <4> DEFINE flags == msg.flags \cup {"Seen"}
      <4>1. after = [msg EXCEPT !.flags = flags, !.mflags = flags,
                       !.stream = Answer(it, flags)]
        BY <2>1, <3>2 DEF ItemFlags
      <4>2. msg.mflags \subseteq flags /\ flags \subseteq Flags
        BY DEF FlagsInv, LocalsTyped, Flags
      <4> HIDE DEF flags
      <4>3. Kept(flags)
        BY <1>3, <4>1, <4>2 DEF LocalsTyped, OwnAnswer, ShowsFlags
      <4> QED
        BY <4>3
    <3> QED
      BY <3>1, <3>2
  <2> QED
    BY <1>1, <2>2
<1>4. CASE it.first = "uid"
  <2>1. after \in ItemUid(it)
    BY <1>4 DEF Itemised
  <2>2. CASE uids
    BY <2>1, <2>2 DEF ItemUid, LocalsTyped, AnswersInv, FlagsInv
  <2>3. CASE ~uids
    BY <1>1, <1>2, <1>4, <2>1, <2>3 DEF ItemUid
  <2> QED
    BY <2>2, <2>3
<1>5. CASE it.first = "rfc822.text"
  <2>1. after \in ItemText(it)
    BY <1>5 DEF Itemised
  <2>2. Kept(FetchRfc822("rfc822.text"))
    <3> DEFINE flags == msg.mflags \cup {"Seen"}
    <3>1. after = [msg EXCEPT !.flags = flags,
                     !.stream = Answer(it, FetchRfc822("rfc822.text"))]
      BY <2>1 DEF ItemText
    <3>2. msg.mflags \subseteq flags /\ flags \subseteq Flags
      BY DEF FlagsInv, LocalsTyped, Flags
    <3> HIDE DEF flags
    <3> QED
      BY <1>5, <3>1, <3>2 DEF LocalsTyped, OwnAnswer, ShowsFlags
  <2> QED
    BY <1>1, <2>2
<1>6. CASE it.first \in {"body", "body.peek"}
  <2>1. after \in ItemBody(it)
    BY <1>6 DEF Itemised
  <2>2. CASE it.second = <<>>
    <3>1. AskedFor(it.second) = "bodystructure"
      BY <2>2, SectionsDiffer DEF AskedFor
    <3>2. Kept(FetchBodyStructure)
      BY <1>6, <2>1, <2>2, <3>1
      DEF ItemBody, LocalsTyped, FlagsInv, OwnAnswer, ShowsFlags, FetchBodyStructure
    <3> QED
      BY <1>1, <3>2
  <2>3. CASE it.second # <<>>
    <3>1. PICK payload \in Payloads(it) :
            /\ payload # Throws
            /\ after = [msg EXCEPT !.bPeek = msg.bPeek \/ it.first = "body.peek",
                         !.strPayload = payload,
                         !.flags = IF it.first = "body.peek" /\ it.second \in {Whole, Part}
                                   THEN msg.mflags \cup {"Seen"} ELSE @,
                         !.stream = Answer(it, payload)]
      BY <2>1, <2>3 DEF ItemBody
    <3>2. OwnAnswer([item |-> it, content |-> payload])
      <4> SUFFICES ASSUME it.second \notin {PartHeader, PartHeaderFields}
                   PROVE  payload = AskedFor(it.second)
        BY DEF OwnAnswer
      <4>1. CASE it.second = Header
        BY <3>1, <4>1, SectionsDiffer DEF Payloads, AskedFor, FetchHeader
      <4>2. CASE it.second \in {HeaderFields, HeaderFieldsNot}
        BY <3>1, <4>2, SectionsDiffer
        DEF Payloads, AskedFor, FetchHeaderFields, FetchHeaderFieldsMime, Throws
      <4>3. CASE it.second \notin {Header, HeaderFields, HeaderFieldsNot}
        <5>1. payload \in FetchMime(IF it.second = Whole THEN <<>> ELSE it.second)
          BY <3>1, <4>3 DEF Payloads
        <5>2. CASE it.second = Whole
          BY <2>3, <5>1, <5>2, SectionsDiffer DEF FetchMime, AskedFor
        <5>3. CASE it.second # Whole
          BY <2>3, <3>1, <4>3, <5>1, <5>3, SectionsDiffer DEF FetchMime, AskedFor, Throws
        <5> QED
          BY <5>2, <5>3
      <4> QED
        BY <4>1, <4>2, <4>3
    <3>3. Kept(payload)
      BY <1>6, <3>1, <3>2 DEF LocalsTyped, FlagsInv, ShowsFlags, Flags
    <3> QED
      BY <1>1, <3>3
  <2> QED
    BY <2>2, <2>3
<1>7. CASE it.first \notin {"flags", "uid", "rfc822.text", "body", "body.peek"}
  <2>1. \E content : after \in ItemPlain(it, content)
    BY <1>7 DEF Itemised
  <2> QED
    BY <1>1, <1>2, <1>7, <2>1
<1> QED
  BY <1>3, <1>4, <1>5, <1>6, <1>7

-----------------------------------------------------------------------------
FetchInv == LocalsTyped /\ AnswersInv /\ FlagsInv

LEMMA FetchInvInit == FetchInit => FetchInv
<1> SUFFICES ASSUME FetchInit
             PROVE  FetchInv
  OBVIOUS
<1>1. <<>> \in Seq({}) /\ <<>> \in Seq(Messages)
  OBVIOUS
<1>2. IsSeq(<<>>)
  BY <1>1 DEF IsSeq
<1> QED
  <2>1. msg = NoMessage /\ ostr = <<>> /\ todo = <<>> /\ status = "asked"
        /\ stored \in [Messages -> SUBSET Flags] /\ copy \in [Messages -> SUBSET Flags]
    BY DEF FetchInit
  <2>2. /\ DOMAIN NoMessage = {"flags", "mflags", "bPeek", "strPayload", "stream"}
        /\ NoMessage.stream = <<>> /\ NoMessage.flags = {} /\ NoMessage.mflags = {}
    BY DEF NoMessage
  <2>3. LocalsTyped
    BY <1>1, <1>2, <2>1, <2>2 DEF LocalsTyped
  <2>4. AnswersInv /\ FlagsInv
    BY <2>1, <2>2 DEF AnswersInv, FlagsInv
  <2> QED
    BY <2>3, <2>4 DEF FetchInv

LEMMA FetchInvNext == FetchInv /\ [FetchNext]_fetchVars => FetchInv'
<1> SUFFICES ASSUME FetchInv, [FetchNext]_fetchVars
             PROVE  FetchInv'
  OBVIOUS
<1> LocalsTyped /\ AnswersInv /\ FlagsInv
  BY DEF FetchInv
<1> USE DEF FetchInv
<1>0. ASSUME UNCHANGED msg
      PROVE  FlagsInv'
  BY <1>0 DEF FlagsInv, ShowsFlags
<1>1. ASSUME UNCHANGED <<msg, ostr>>
      PROVE  AnswersInv'
  BY <1>1 DEF AnswersInv, OwnAnswer
<1>2. CASE OnFetch
  <2>1. todo' \in Seq(Messages)
    <3>1. PICK n \in 0 .. MaxMessages : todo' = [i \in 1 .. n |-> i]
      BY <1>2 DEF OnFetch
    <3>2. [i \in 1 .. n |-> i] \in Seq(Messages)
      <4>1. \A i \in 1 .. n : i \in Messages
        BY FetchAssumption DEF Messages
      <4>2. n \in Nat
        BY FetchAssumption
      <4> QED
        BY <4>1, <4>2
    <3> QED
      BY <3>1, <3>2
  <2> QED
    BY <1>0, <1>1, <1>2, <2>1 DEF OnFetch, LocalsTyped
<1>3. CASE FetchMessage
  <2> DEFINE start == IF uids THEN <<[item |-> Item("uid"), content |-> "uid"]>> ELSE <<>>
             flags == copy[Head(todo)]
  <2>1. IsSeq(start) /\ \A j \in DOMAIN start : start[j].item.first = "uid"
    <3>1. CASE uids
      <4>1. start \in Seq({[item |-> Item("uid"), content |-> "uid"]})
        BY <3>1
      <4>2. IsSeq(start)
        BY <4>1 DEF IsSeq
      <4>3. DOMAIN start = {1} /\ start[1].item.first = "uid"
        BY <3>1 DEF Item
      <4> QED
        BY <4>2, <4>3
    <3>2. CASE ~uids
      <4>1. start \in Seq({})
        BY <3>2
      <4> QED
        BY <3>2, <4>1 DEF IsSeq
    <3> QED
      BY <3>1, <3>2
  <2>2. msg' = [NoMessage EXCEPT !.flags = flags, !.mflags = flags, !.stream = start]
    BY <1>3 DEF FetchMessage
  <2>3. flags \subseteq Flags
    <3>1. Head(todo) \in Messages
      BY <1>3 DEF FetchMessage, LocalsTyped
    <3> QED
      BY <3>1 DEF LocalsTyped
  <2> HIDE DEF start, flags
  <2>4. /\ DOMAIN msg' = {"flags", "mflags", "bPeek", "strPayload", "stream"}
        /\ msg'.stream = start /\ msg'.flags = flags /\ msg'.mflags = flags
    BY <2>2 DEF NoMessage
  <2>5. LocalsTyped'
    BY <1>3, <2>1, <2>4, <2>3 DEF FetchMessage, LocalsTyped
  <2>6. AnswersInv' /\ FlagsInv'
    BY <1>3, <2>1, <2>4 DEF FetchMessage, AnswersInv, FlagsInv, OwnAnswer, ShowsFlags
  <2> QED
    BY <2>5, <2>6
<1>4. CASE FetchItem
  <2>1. CASE UNCHANGED msg
    BY <1>0, <1>1, <1>4, <2>1 DEF FetchItem, LocalsTyped
  <2>2. CASE \E it : msg' \in Itemised(it) /\ msg' # NoMessage /\ UNCHANGED status
    <3>1. PICK it : msg' \in Itemised(it) /\ msg' # NoMessage /\ UNCHANGED status
      BY <2>2
    <3>2. /\ DOMAIN msg' = {"flags", "mflags", "bPeek", "strPayload", "stream"}
          /\ IsSeq(msg'.stream)
          /\ \A j \in DOMAIN msg'.stream : OwnAnswer(msg'.stream[j])
          /\ msg'.mflags \subseteq msg'.flags /\ msg'.flags \subseteq Flags
          /\ \A j \in DOMAIN msg'.stream : ShowsFlags(msg'.stream[j], msg'.mflags)
      BY <3>1, ItemKeeps
    <3>3. LocalsTyped'
      BY <1>4, <3>1, <3>2 DEF FetchItem, LocalsTyped
    <3>4. AnswersInv' /\ FlagsInv'
      BY <1>4, <3>2 DEF FetchItem, AnswersInv, FlagsInv, OwnAnswer, ShowsFlags
    <3> QED
      BY <3>3, <3>4
  <2> QED
    BY <1>4, <2>1, <2>2 DEF FetchItem
<1>5. CASE FetchResponse
  <2>1. todo \in Seq(Messages) /\ todo # <<>> /\ IsSeq(ostr)
    BY <1>5 DEF FetchResponse, LocalsTyped
  <2>2. Head(todo) \in Messages /\ todo' \in Seq(Messages)
    BY <1>5, <2>1 DEF FetchResponse
  <2>3. status' \in {"next", "failed"} /\ UNCHANGED msg
    BY <1>5 DEF FetchResponse, SetMessageFlagsByDb
  <2>4. UNCHANGED stored \/ stored' = [stored EXCEPT ![Head(todo)] = msg.flags \ {"Recent"}]
    BY <1>5 DEF FetchResponse, SetMessageFlagsByDb
  <2>5. UNCHANGED ostr \/ ostr' = Append(ostr, Shown)
    BY <1>5 DEF FetchResponse, SetMessageFlagsByDb
  <2>6. IsSeq(ostr')
    <3>1. CASE UNCHANGED ostr
      BY <2>1, <3>1
    <3>2. CASE ostr' = Append(ostr, Shown)
      <4>1. IsSeq(Append(ostr, Shown))
        BY <2>1, AppendIsSeq
      <4> QED
        BY <3>2, <4>1
    <3> QED
      BY <2>5, <3>1, <3>2
  <2>7. AnswersInv'
    <3>1. CASE UNCHANGED ostr
      BY <1>1, <2>3, <3>1
    <3>2. CASE ostr' = Append(ostr, Shown)
      <4>1. ASSUME NEW i \in DOMAIN ostr', NEW j \in DOMAIN ostr'[i].stream
            PROVE  OwnAnswer(ostr'[i].stream[j])
        <5>1. CASE i \in DOMAIN ostr
          <6>1. ostr'[i] = ostr[i]
            BY <2>1, <3>2, <5>1, AppendIsSeq
          <6> QED
            BY <4>1, <5>1, <6>1 DEF AnswersInv
        <5>2. CASE i \notin DOMAIN ostr
          <6>1. ostr'[i] = Shown
            BY <2>1, <3>2, <5>2, AppendIsSeq
          <6> QED
            BY <4>1, <6>1 DEF AnswersInv, Shown
        <5> QED
          BY <5>1, <5>2
      <4> QED
        BY <2>3, <4>1 DEF AnswersInv, OwnAnswer
    <3> QED
      BY <2>5, <3>1, <3>2
  <2>8. stored' \in [Messages -> SUBSET Flags]
    <3>1. msg.flags \in SUBSET Flags
      BY DEF LocalsTyped
    <3> QED
      BY <2>2, <2>4, <3>1 DEF LocalsTyped
  <2>9. LocalsTyped'
    <3>1. UNCHANGED copy
      BY <1>5 DEF FetchResponse
    <3> QED
      BY <2>2, <2>3, <2>6, <2>8, <3>1 DEF LocalsTyped
  <2> QED
    BY <1>0, <2>3, <2>7, <2>9
<1>6. CASE FetchCompleted \/ UNCHANGED fetchVars
  BY <1>0, <1>1, <1>6 DEF FetchCompleted, fetchVars, LocalsTyped
<1>7. CASE Elsewhere
  BY <1>0, <1>1, <1>7 DEF Elsewhere, LocalsTyped
<1> QED
  BY <1>2, <1>3, <1>4, <1>5, <1>6, <1>7 DEF FetchNext

LEMMA FetchInvariant == FetchSpec => []FetchInv
BY FetchInvInit, FetchInvNext, PTL DEF FetchSpec

\* Every body item of every response is answered with the section it asks
\* for, whatever items came before it and whatever they left behind.
THEOREM BodiesAreOwn == FetchSpec => []AnswersAreOwn
<1>1. FetchInv => AnswersAreOwn
  BY DEF FetchInv, AnswersInv, OwnAnswer, AnswersAreOwn
<1> QED
  BY <1>1, FetchInvariant, PTL

\* A response that is made shows no flag that is lost, but for Recent and what
\* was taken away elsewhere.
THEOREM FlagsShownAreStored == FetchSpec => ShownIsStored
<1>1. FetchInv /\ [FetchNext]_fetchVars =>
        [\A i \in DOMAIN ostr' \ DOMAIN ostr : \A j \in DOMAIN ostr'[i].stream :
           LET a == ostr'[i].stream[j]
               m == ostr'[i].msg
           IN a.item.first = "flags" =>
                a.content \subseteq stored'[m] \cup (copy[m] \ stored[m]) \cup {"Recent"}]_fetchVars
  <2> SUFFICES ASSUME FetchInv, FetchNext,
                      NEW i \in DOMAIN ostr' \ DOMAIN ostr,
                      NEW j \in DOMAIN ostr'[i].stream,
                      ostr'[i].stream[j].item.first = "flags"
               PROVE  LET m == ostr'[i].msg
                      IN ostr'[i].stream[j].content \subseteq
                           stored'[m] \cup (copy[m] \ stored[m]) \cup {"Recent"}
    BY DEF fetchVars
  <2>1. FetchResponse /\ ostr' = Append(ostr, Shown)
    BY DEF FetchNext, OnFetch, FetchMessage, FetchItem, FetchResponse,
           SetMessageFlagsByDb, FetchCompleted, Elsewhere
  <2>2. ostr'[i] = Shown
    BY <2>1, AppendIsSeq DEF FetchInv, LocalsTyped
  <2> DEFINE m == Head(todo)
             content == msg.stream[j].content
             flags == msg.flags \ {"Recent"}
  <2>3. ostr'[i].msg = m /\ ostr'[i].stream[j].content = content
    BY <2>2 DEF Shown
  <2>4. content \subseteq msg.flags
    BY <2>2 DEF FetchInv, FlagsInv, ShowsFlags, Shown
  <2>5. m \in Messages
    BY <2>1 DEF FetchResponse, FetchInv, LocalsTyped
  <2>6. CASE flags # copy[m]
    <3>1. stored' = [stored EXCEPT ![m] = flags]
      <4>1. SetMessageFlagsByDb(m, flags)
        BY <2>1, <2>6 DEF FetchResponse
      <4>2. UNCHANGED ostr => DOMAIN ostr' = DOMAIN ostr
        OBVIOUS
      <4> QED
        BY <4>1, <4>2 DEF SetMessageFlagsByDb
    <3>2. stored'[m] = flags
      BY <2>5, <3>1 DEF FetchInv, LocalsTyped
    <3> QED
      BY <2>3, <2>4, <3>2
  <2>7. CASE flags = copy[m]
    <3>1. UNCHANGED stored
      BY <2>1, <2>7 DEF FetchResponse
    <3> QED
      BY <2>3, <2>4, <2>7, <3>1
  <2> QED
    BY <2>6, <2>7
<1> QED
  BY <1>1, FetchInvariant, PTL DEF FetchSpec, ShownIsStored

-----------------------------------------------------------------------------
(* The list of items. *)

Tokens == Words \cup {Space, Open, Close}

LEMMA TokensDiffer ==
  /\ Space # Open /\ Space # Close /\ Open # Close
  /\ \A c \in Words : c # Space /\ c # Open /\ c # Close
  /\ \A c \in Words \cup {Space} : c # Open /\ c # Close
  /\ Space \in Tokens /\ Open \in Tokens /\ Close \in Tokens
  /\ \A c \in Words \cup {Space} : c \in Tokens
<1>1. Space # Open /\ Space # Close /\ Open # Close
  BY Zenon DEF Space, Open, Close
<1>2. \A c \in Words : c # Space /\ c # Open /\ c # Close
  BY FetchAssumption
<1> QED
  BY <1>1, <1>2 DEF Tokens

\* What a client may ask for.
Askable == [first : Words, second : Seq(Words \cup {Space})]

\* The loop outside brackets and inside of them.
Outside(s, list) == [s |-> s, bParams |-> FALSE, requests |-> list]
Inside(s, list) == [s |-> s, bParams |-> TRUE, requests |-> list]

\* Reading the tokens leads from p to q.
Reads(p, tokens, q) ==
  \E f : /\ f = [n \in 0 .. Len(tokens) |-> f[n]]
         /\ f[0] = p
         /\ \A n \in 1 .. Len(tokens) : f[n] = ReadToken(f[n - 1], tokens[n])
         /\ f[Len(tokens)] = q

LEMMA ReadsOne ==
  ASSUME NEW p, NEW c
  PROVE  Reads(p, <<c>>, ReadToken(p, c))
<1> DEFINE f == [n \in 0 .. 1 |-> IF n = 0 THEN p ELSE ReadToken(p, c)]
<1>1. f = [n \in 0 .. 1 |-> f[n]] /\ f[0] = p /\ f[1] = ReadToken(p, c)
  OBVIOUS
<1> HIDE DEF f
<1>2. Len(<<c>>) = 1 /\ <<c>>[1] = c
  OBVIOUS
<1>3. \A n \in 1 .. 1 : n = 1 /\ n - 1 = 0
  OBVIOUS
<1>4. \A n \in 1 .. 1 : f[n] = ReadToken(f[n - 1], <<c>>[n])
  BY <1>1, <1>2, <1>3
<1> QED
  BY <1>1, <1>2, <1>4 DEF Reads

\* Reading one text and then another is reading both.
LEMMA ReadsBoth ==
  ASSUME NEW S, NEW a \in Seq(S), NEW b \in Seq(S), NEW p, NEW q, NEW r,
         Reads(p, a, q), Reads(q, b, r)
  PROVE  Reads(p, a \o b, r)
<1>1. PICK f : /\ f[0] = p
               /\ \A n \in 1 .. Len(a) : f[n] = ReadToken(f[n - 1], a[n])
               /\ f[Len(a)] = q
  BY DEF Reads
<1>2. PICK g : /\ g[0] = q
               /\ \A n \in 1 .. Len(b) : g[n] = ReadToken(g[n - 1], b[n])
               /\ g[Len(b)] = r
  BY DEF Reads
<1> DEFINE k == Len(a)
           l == Len(b)
           ab == a \o b
           h == [n \in 0 .. k + l |-> IF n <= k THEN f[n] ELSE g[n - k]]
<1>3. /\ Len(ab) = k + l
      /\ \A n \in 1 .. k : ab[n] = a[n]
      /\ \A n \in 1 .. l : ab[k + n] = b[n]
  BY ConcatFacts
<1>4. k \in Nat /\ l \in Nat
  OBVIOUS
<1> HIDE DEF k, l, ab
<1>5. h = [n \in 0 .. k + l |-> h[n]]
  OBVIOUS
<1>6. \A n \in 0 .. k : h[n] = f[n]
  BY <1>4
<1>7. \A n \in 0 .. l : h[k + n] = g[n]
  <2>1. ASSUME NEW n \in 0 .. l
        PROVE  h[k + n] = g[n]
    <3>1. CASE n = 0
      BY <1>1, <1>2, <1>4, <3>1 DEF k
    <3>2. CASE n # 0
      <4>1. k + n \in 0 .. k + l /\ ~(k + n <= k) /\ (k + n) - k = n
        BY <1>4, <3>2
      <4> QED
        BY <4>1
    <3> QED
      BY <3>1, <3>2
  <2> QED
    BY <2>1
<1> HIDE DEF h
<1>8. h[0] = p /\ h[k + l] = r
  BY <1>1, <1>2, <1>4, <1>6, <1>7 DEF l
<1>9. ASSUME NEW n \in 1 .. k + l
      PROVE  h[n] = ReadToken(h[n - 1], ab[n])
  <2>1. CASE n <= k
    <3>1. n \in 1 .. k /\ n \in 0 .. k /\ n - 1 \in 0 .. k
      BY <1>4, <2>1
    <3> QED
      BY <1>1, <1>3, <1>6, <3>1 DEF k
  <2>2. CASE ~(n <= k)
    <3>1. PICK m \in 1 .. l : n = k + m
      <4>1. n - k \in 1 .. l /\ n = k + (n - k)
        BY <1>4, <2>2
      <4> QED
        BY <4>1
    <3>2. m \in 0 .. l /\ m - 1 \in 0 .. l /\ n - 1 = k + (m - 1)
      BY <1>4, <3>1
    <3>3. h[n] = g[m] /\ h[n - 1] = g[m - 1] /\ ab[n] = b[m]
      BY <1>3, <1>7, <3>1, <3>2
    <3> QED
      BY <1>2, <3>1, <3>3 DEF l
  <2> QED
    BY <2>1, <2>2
<1>10. /\ h = [n \in 0 .. Len(ab) |-> h[n]]
       /\ h[0] = p
       /\ \A n \in 1 .. Len(ab) : h[n] = ReadToken(h[n - 1], ab[n])
       /\ h[Len(ab)] = r
  BY <1>3, <1>5, <1>8, <1>9
<1> QED
  BY <1>10 DEF Reads, ab

\* What a turn of the loop does with each kind of token.
LEMMA TurnSpace ==
  ASSUME NEW s, NEW list
  PROVE  ReadToken(Outside(s, list), Space) = Outside(<<>>, Pushed(Outside(s, list)))
BY TokensDiffer DEF ReadToken, Outside

LEMMA TurnOpen ==
  ASSUME NEW s, NEW list
  PROVE  ReadToken(Outside(s, list), Open) = Inside(<<>>, Pushed(Outside(s, list)))
BY TokensDiffer DEF ReadToken, Outside, Inside

LEMMA TurnWord ==
  ASSUME NEW s, NEW list, NEW c \in Words
  PROVE  ReadToken(Outside(s, list), c) = Outside(Append(s, c), list)
BY TokensDiffer DEF ReadToken, Outside

LEMMA TurnInside ==
  ASSUME NEW s, NEW list, NEW c \in Words \cup {Space}
  PROVE  ReadToken(Inside(s, list), c) = Inside(Append(s, c), list)
BY TokensDiffer DEF ReadToken, Inside

LEMMA TurnClose ==
  ASSUME NEW s, NEW list
  PROVE  ReadToken(Inside(s, list), Close) =
           Outside(<<>>, [list EXCEPT ![Len(list)].second = IF s = <<>> THEN Whole ELSE s])
BY TokensDiffer DEF ReadToken, Inside, Outside

\* What stands in brackets is collected, spaces and all.
LEMMA ReadsSection ==
  ASSUME NEW second \in Seq(Words \cup {Space}), NEW list
  PROVE  Reads(Inside(<<>>, list), second, Inside(second, list))
<1> DEFINE l == Len(second)
           f == [n \in 0 .. l |-> Inside(SubSeq(second, 1, n), list)]
<1>1. l \in Nat /\ 0 \in 0 .. l /\ l \in 0 .. l
  OBVIOUS
<1>2. SubSeq(second, 1, 0) = <<>> /\ SubSeq(second, 1, Len(second)) = second
  OBVIOUS
<1>3. f = [n \in 0 .. l |-> f[n]]
  OBVIOUS
<1>4. f[0] = Inside(<<>>, list) /\ f[l] = Inside(second, list)
  BY <1>1, <1>2
<1>5. ASSUME NEW n \in 1 .. l
      PROVE  f[n] = ReadToken(f[n - 1], second[n])
  <2>1. n \in 0 .. l /\ n - 1 \in 0 .. l
    BY <1>1
  <2>2. second[n] \in Words \cup {Space}
    OBVIOUS
  <2>3. SubSeq(second, 1, n) = Append(SubSeq(second, 1, n - 1), second[n])
    OBVIOUS
  <2>4. f[n] = Inside(SubSeq(second, 1, n), list)
        /\ f[n - 1] = Inside(SubSeq(second, 1, n - 1), list)
    BY <2>1
  <2> DEFINE before == SubSeq(second, 1, n - 1)
             c == second[n]
  <2>5. ReadToken(Inside(before, list), c) = Inside(Append(before, c), list)
    <3> HIDE DEF before, c
    <3> QED
      BY <2>2, TurnInside DEF c
  <2> HIDE DEF f
  <2> QED
    BY <2>3, <2>4, <2>5
<1> HIDE DEF f
<1> QED
  BY <1>3, <1>4, <1>5 DEF Reads

\* An item is read as it is written.
LEMMA ReadsItem ==
  ASSUME NEW it \in Askable, NEW list \in Seq(Askable)
  PROVE  /\ Worded(it) \in Seq(Tokens)
         /\ \E s, r : /\ Reads(Outside(<<>>, list), Worded(it), Outside(s, r))
                      /\ Pushed(Outside(s, r)) = Append(list, it)
<1> DEFINE first == it.first
           second == it.second
           word == <<first>>
           named == Append(list, Item(first))
           p == Outside(<<>>, list)
<1>1. /\ first \in Words /\ second \in Seq(Words \cup {Space})
      /\ it = [first |-> first, second |-> second]
  BY DEF Askable
<1>2. word \in Seq(Tokens) /\ Append(<<>>, first) = word /\ Head(word) = first /\ word # <<>>
  <2>1. first \in Tokens
    BY <1>1 DEF Tokens
  <2> HIDE DEF first
  <2> QED
    BY <2>1
<1>3. Reads(p, word, Outside(word, list))
  <2>1. ReadToken(p, first) = Outside(word, list)
    BY <1>1, <1>2, TurnWord
  <2> QED
    BY <2>1, ReadsOne
<1>4. Pushed(Outside(word, list)) = named
  BY <1>2 DEF Pushed, Outside
<1>5. ReadToken(Outside(word, list), Open) = Inside(<<>>, named)
  BY <1>4, TurnOpen
<1>6. Reads(Outside(word, list), <<Open>>, Inside(<<>>, named))
  BY <1>5, ReadsOne
<1>7. ASSUME NEW t, [first |-> first, second |-> t] = it
      PROVE  [named EXCEPT ![Len(named)].second = t] = Append(list, it)
  <2> DEFINE S == Askable \cup {Item(first)}
  <2>1. /\ list \in Seq(S) /\ Item(first) \in S /\ it \in S
    <3>1. \A e \in Seq(Askable) : e \in Seq(Askable \cup {Item(first)})
      OBVIOUS
    <3> QED
      BY <3>1
  <2>2. [Item(first) EXCEPT !.second = t] = it
    BY <1>7 DEF Item
  <2> DEFINE x == Item(first)
  <2> HIDE DEF S, x
  <2>3. /\ Append(list, x) \in Seq(S) /\ Append(list, it) \in Seq(S)
        /\ Len(Append(list, x)) = Len(list) + 1
        /\ Len(Append(list, it)) = Len(list) + 1
        /\ Append(list, x)[Len(list) + 1] = x
        /\ Append(list, it)[Len(list) + 1] = it
        /\ \A k \in 1 .. Len(list) : Append(list, x)[k] = list[k] /\ Append(list, it)[k] = list[k]
    BY <2>1 DEF x
  <2> DEFINE u == Append(list, x)
             v == Append(list, it)
             l == Len(list)
  <2>4. l \in Nat
    OBVIOUS
  <2>5. /\ u \in Seq(S) /\ v \in Seq(S) /\ Len(u) = l + 1 /\ Len(v) = l + 1
        /\ u[l + 1] = x /\ v[l + 1] = it
        /\ \A k \in 1 .. l : u[k] = v[k]
    BY <2>3
  <2>6. [u[l + 1] EXCEPT !.second = t] = it
    BY <2>2, <2>5 DEF x
  <2> HIDE DEF u, v, l
  <2>7. [u EXCEPT ![l + 1].second = t] = [k \in 1 .. l + 1 |-> IF k = l + 1 THEN it ELSE u[k]]
    <3>1. [u EXCEPT ![l + 1].second = t] = [u EXCEPT ![l + 1] = it]
      BY <2>6
    <3>2. DOMAIN u = 1 .. l + 1
      BY <2>4, <2>5
    <3> QED
      BY <3>1, <3>2
  <2>8. v = [k \in 1 .. l + 1 |-> v[k]]
    BY <2>4, <2>5
  <2>9. \A k \in 1 .. l + 1 : (IF k = l + 1 THEN it ELSE u[k]) = v[k]
    <3>1. \A k \in 1 .. l + 1 : k = l + 1 \/ k \in 1 .. l
      BY <2>4
    <3> QED
      BY <2>5, <3>1
  <2>10. [u EXCEPT ![l + 1].second = t] = v
    BY <2>7, <2>8, <2>9
  <2> QED
    BY <2>5, <2>10 DEF u, v, x
<1>8. Reads(Inside(<<>>, named), <<Close>>, Outside(<<>>, [named EXCEPT ![Len(named)].second = Whole]))
  <2>1. ReadToken(Inside(<<>>, named), Close) =
          Outside(<<>>, [named EXCEPT ![Len(named)].second = Whole])
    BY TurnClose
  <2> QED
    BY <2>1, ReadsOne
<1> HIDE DEF word, p, named
<1>9. CASE second = <<>>
  <2>1. Worded(it) = word \o <<>>
    BY <1>9, SectionsDiffer DEF Worded, word
  <2>2. word \o <<>> = word
    BY <1>2
  <2>3. Item(first) = it
    BY <1>1, <1>9 DEF Item
  <2> QED
    BY <1>2, <1>3, <1>4, <2>1, <2>2, <2>3 DEF p, named
<1>10. CASE second = Whole
  <2>1. Worded(it) = word \o <<Open, Close>>
    BY <1>10, SectionsDiffer DEF Worded, word
  <2>2. <<Open, Close>> = <<Open>> \o <<Close>> /\ <<Open>> \in Seq(Tokens) /\ <<Close>> \in Seq(Tokens)
        /\ <<Open, Close>> \in Seq(Tokens)
    <3>1. <<Open>> \in Seq(Tokens) /\ <<Close>> \in Seq(Tokens) /\ <<Open, Close>> \in Seq(Tokens)
      BY TokensDiffer
    <3> DEFINE a == <<Open>>
               b == <<Close>>
               ab == <<Open, Close>>
    <3>2. Len(a) = 1 /\ Len(b) = 1 /\ Len(ab) = 2 /\ a[1] = ab[1] /\ b[1] = ab[2]
      OBVIOUS
    <3> HIDE DEF a, b, ab
    <3>3. /\ a \o b \in Seq(Tokens) /\ Len(a \o b) = 2
          /\ (a \o b)[1] = ab[1] /\ (a \o b)[2] = ab[2]
      BY <3>1, <3>2, ConcatFacts DEF a, b
    <3> DEFINE joined == a \o b
    <3> HIDE DEF joined
    <3>4. joined = ab
      <4>1. joined \in Seq(Tokens) /\ ab \in Seq(Tokens) /\ Len(joined) = Len(ab)
        BY <3>1, <3>2, <3>3 DEF joined, ab
      <4>2. \A k \in 1 .. 2 : k = 1 \/ k = 2
        OBVIOUS
      <4>3. \A k \in 1 .. Len(ab) : joined[k] = ab[k]
        BY <3>2, <3>3, <4>2 DEF joined
      <4> QED
        BY <4>1, <4>3
    <3> QED
      BY <3>1, <3>4 DEF joined, a, b, ab
  <2>3. Reads(Outside(word, list), <<Open>> \o <<Close>>,
              Outside(<<>>, [named EXCEPT ![Len(named)].second = Whole]))
    BY <1>6, <1>8, <2>2, ReadsBoth
  <2>4. Reads(p, word \o (<<Open>> \o <<Close>>),
              Outside(<<>>, [named EXCEPT ![Len(named)].second = Whole]))
    BY <1>2, <1>3, <2>2, <2>3, ReadsBoth
  <2>5. [named EXCEPT ![Len(named)].second = Whole] = Append(list, it)
    BY <1>1, <1>7, <1>10
  <2>6. Pushed(Outside(<<>>, Append(list, it))) = Append(list, it)
    BY DEF Pushed, Outside
  <2>7. Worded(it) \in Seq(Tokens)
    BY <1>2, <2>1, <2>2, ConcatFacts
  <2> QED
    BY <2>1, <2>2, <2>4, <2>5, <2>6, <2>7 DEF p
<1>11. CASE second # <<>> /\ second # Whole
  <2> DEFINE rest == <<Open>> \o second \o <<Close>>
  <2>1. Worded(it) = word \o rest
    BY <1>11 DEF Worded, word
  <2>2. second \in Seq(Tokens) /\ <<Open>> \in Seq(Tokens) /\ <<Close>> \in Seq(Tokens)
    <3>1. \A q \in Seq(Words \cup {Space}) : q \in Seq(Tokens)
      BY TokensDiffer
    <3> QED
      BY <1>1, <3>1, TokensDiffer
  <2>3. Reads(Inside(<<>>, named), second, Inside(second, named))
    BY <1>1, ReadsSection
  <2>4. Reads(Outside(word, list), <<Open>> \o second, Inside(second, named))
    BY <1>6, <2>2, <2>3, ReadsBoth
  <2>5. Reads(Inside(second, named), <<Close>>,
              Outside(<<>>, [named EXCEPT ![Len(named)].second = second]))
    <3>1. ReadToken(Inside(second, named), Close) =
            Outside(<<>>, [named EXCEPT ![Len(named)].second = second])
      BY <1>11, TurnClose
    <3> QED
      BY <3>1, ReadsOne
  <2>6. <<Open>> \o second \in Seq(Tokens) /\ rest \in Seq(Tokens)
    BY <2>2
  <2>7. Reads(Outside(word, list), rest,
              Outside(<<>>, [named EXCEPT ![Len(named)].second = second]))
    BY <2>2, <2>4, <2>5, <2>6, ReadsBoth
  <2> HIDE DEF rest
  <2>8. Reads(p, word \o rest, Outside(<<>>, [named EXCEPT ![Len(named)].second = second]))
    BY <1>2, <1>3, <2>6, <2>7, ReadsBoth
  <2>9. [named EXCEPT ![Len(named)].second = second] = Append(list, it)
    BY <1>1, <1>7
  <2>10. Pushed(Outside(<<>>, Append(list, it))) = Append(list, it)
    BY DEF Pushed, Outside
  <2>11. Worded(it) \in Seq(Tokens)
    BY <1>2, <2>1, <2>6, ConcatFacts
  <2> QED
    BY <2>1, <2>8, <2>9, <2>10, <2>11 DEF p
<1> QED
  BY <1>9, <1>10, <1>11

\* After these tokens the loop has read this list.
Got(tokens, list) ==
  /\ tokens \in Seq(Tokens)
  /\ \E s, r : Reads(Unread, tokens, Outside(s, r)) /\ Pushed(Outside(s, r)) = list

\* Another item, behind a space.
LEMMA GotMore ==
  ASSUME NEW tokens, NEW list \in Seq(Askable), Got(tokens, list), NEW it \in Askable
  PROVE  Got(tokens \o <<Space>> \o Worded(it), Append(list, it))
<1>1. PICK s, r : Reads(Unread, tokens, Outside(s, r)) /\ Pushed(Outside(s, r)) = list
  BY DEF Got
<1>2. Reads(Outside(s, r), <<Space>>, Outside(<<>>, list))
  <2>1. ReadToken(Outside(s, r), Space) = Outside(<<>>, list)
    BY <1>1, TurnSpace
  <2> QED
    BY <2>1, ReadsOne
<1>3. PICK s2, r2 : /\ Reads(Outside(<<>>, list), Worded(it), Outside(s2, r2))
                    /\ Pushed(Outside(s2, r2)) = Append(list, it)
  BY ReadsItem
<1>4. Worded(it) \in Seq(Tokens) /\ <<Space>> \in Seq(Tokens) /\ tokens \in Seq(Tokens)
  BY ReadsItem, TokensDiffer DEF Got
<1>5. tokens \o <<Space>> \in Seq(Tokens) /\ (tokens \o <<Space>>) \o Worded(it) \in Seq(Tokens)
  BY <1>4
<1>6. Reads(Unread, tokens \o <<Space>>, Outside(<<>>, list))
  BY <1>1, <1>2, <1>4, ReadsBoth
<1>7. Reads(Unread, (tokens \o <<Space>>) \o Worded(it), Outside(s2, r2))
  BY <1>3, <1>4, <1>5, <1>6, ReadsBoth
<1> QED
  BY <1>3, <1>5, <1>7 DEF Got

\* A whole list.
LEMMA GotWritten ==
  ASSUME NEW list \in Seq(Askable)
  PROVE  Got(Written(list), list)
<1> DEFINE l == Len(list)
           Next1(n, v) == IF n = 1 THEN Worded(list[1])
                          ELSE v \o <<Space>> \o Worded(list[n])
           Sends(f) == f = [n \in 0 .. l |-> IF n = 0 THEN <<>> ELSE Next1(n, f[n - 1])]
           sent == CHOOSE f : Sends(f)
<1>1. l \in Nat /\ \A n \in 1 .. l : list[n] \in Askable
  OBVIOUS
<1>2. Written(list) = sent[l]
  BY DEF Written
<1>3. \E f : Sends(f)
  <2> DEFINE g == [nv \in Nat \X Seq(Tokens) |->
                     IF nv[1] \in 1 .. l THEN Next1(nv[1], nv[2]) ELSE nv[2]]
  <2>1. ASSUME NEW n \in Nat, NEW v \in Seq(Tokens)
        PROVE  /\ g[<<n, v>>] \in Seq(Tokens)
               /\ n \in 1 .. l => g[<<n, v>>] = Next1(n, v)
    <3>1. <<n, v>> \in Nat \X Seq(Tokens) /\ <<n, v>>[1] = n /\ <<n, v>>[2] = v
      OBVIOUS
    <3>2. g[<<n, v>>] = IF n \in 1 .. l THEN Next1(n, v) ELSE v
      BY <3>1
    <3>3. ASSUME n \in 1 .. l
          PROVE  Next1(n, v) \in Seq(Tokens)
      <4>1. \A it \in Askable : Worded(it) \in Seq(Tokens)
        <5>1. <<>> \in Seq(Askable)
          OBVIOUS
        <5> QED
          BY <5>1, ReadsItem
      <4>2. Worded(list[n]) \in Seq(Tokens) /\ n = 1 => Worded(list[1]) \in Seq(Tokens)
        BY <1>1, <3>3, <4>1
      <4>3. Worded(list[n]) \in Seq(Tokens)
        BY <1>1, <3>3, <4>1
      <4> DEFINE w == Worded(list[n])
      <4>4. v \in Seq(Tokens) /\ <<Space>> \in Seq(Tokens) /\ w \in Seq(Tokens)
        BY <4>3, TokensDiffer
      <4> HIDE DEF w
      <4>5. v \o <<Space>> \in Seq(Tokens)
        BY <4>4, ConcatFacts
      <4>6. v \o <<Space>> \o w \in Seq(Tokens)
        BY <4>4, <4>5, ConcatFacts
      <4> QED
        BY <4>3, <4>6 DEF w
    <3> QED
      BY <3>2, <3>3
  <2>2. g \in [Nat \X Seq(Tokens) -> Seq(Tokens)]
    <3>1. \A nv \in Nat \X Seq(Tokens) : nv = <<nv[1], nv[2]>> /\ nv[1] \in Nat /\ nv[2] \in Seq(Tokens)
      OBVIOUS
    <3>2. \A nv \in Nat \X Seq(Tokens) : g[nv] \in Seq(Tokens)
      <4> HIDE DEF g
      <4> QED
        BY <2>1, <3>1
    <3> QED
      BY <3>2
  <2> HIDE DEF g
  <2>3. <<>> \in Seq(Tokens)
    OBVIOUS
  <2>4. PICK f \in [0 .. l -> Seq(Tokens)] : Follows(f, <<>>, g, l)
    BY <1>1, <2>2, <2>3, Recursion
  <2>5. /\ f[0] = <<>>
        /\ \A n \in 1 .. l : f[n] = g[<<n, f[n - 1]>>]
    BY <2>4 DEF Follows
  <2>6. \A n \in 1 .. l : n \in Nat /\ n - 1 \in 0 .. l /\ f[n - 1] \in Seq(Tokens)
    <3>1. \A n \in 1 .. l : n \in Nat /\ n - 1 \in 0 .. l
      BY <1>1
    <3> HIDE DEF l
    <3> QED
      BY <2>4, <3>1
  <2>7. \A n \in 1 .. l : f[n] = Next1(n, f[n - 1])
    <3> HIDE DEF Next1
    <3> QED
      BY <2>1, <2>5, <2>6
  <2>8. \A n \in 0 .. l : n = 0 \/ n \in 1 .. l
    BY <1>1
  <2> HIDE DEF Next1
  <2>9. \A n \in 0 .. l : f[n] = IF n = 0 THEN <<>> ELSE Next1(n, f[n - 1])
    BY <2>5, <2>7, <2>8
  <2>10. f = [n \in 0 .. l |-> f[n]]
    BY <2>4
  <2>11. Sends(f)
    BY <2>9, <2>10
  <2> QED
    BY <2>11
<1>4. Sends(sent)
  BY <1>3
<1> HIDE DEF sent, Next1
<1>5. /\ sent[0] = <<>>
      /\ \A n \in 1 .. l : sent[n] = Next1(n, sent[n - 1])
  <2>1. 0 \in 0 .. l /\ \A n \in 1 .. l : n \in 0 .. l /\ n # 0
    BY <1>1
  <2> QED
    BY <1>4, <2>1
<1>6. Got(<<>>, <<>>)
  <2> DEFINE f == [n \in 0 .. 0 |-> Unread]
  <2>1. f = [n \in 0 .. 0 |-> f[n]] /\ f[0] = Unread
    OBVIOUS
  <2>2. Unread = Outside(<<>>, <<>>)
    BY DEF Unread, Outside
  <2>3. Pushed(Outside(<<>>, <<>>)) = <<>>
    BY DEF Pushed, Outside
  <2>4. <<>> \in Seq(Tokens) /\ Len(<<>>) = 0
    OBVIOUS
  <2> HIDE DEF f
  <2>5. Reads(Unread, <<>>, Unread)
    BY <2>1, <2>4 DEF Reads
  <2> QED
    BY <2>2, <2>3, <2>4, <2>5 DEF Got
<1> DEFINE S == {n \in Nat : n <= l => Got(sent[n], SubSeq(list, 1, n))}
<1>7. 0 \in S
  <2>1. SubSeq(list, 1, 0) = <<>>
    OBVIOUS
  <2> QED
    BY <1>5, <1>6, <2>1
<1>8. ASSUME NEW n \in Nat, n \in S
      PROVE  n + 1 \in S
  <2> SUFFICES ASSUME n + 1 <= l
               PROVE  Got(sent[n + 1], SubSeq(list, 1, n + 1))
    OBVIOUS
  <2>1. n \in 0 .. l /\ n + 1 \in 1 .. l /\ (n + 1) - 1 = n
    BY <1>1
  <2>2. Got(sent[n], SubSeq(list, 1, n))
    BY <1>8, <2>1
  <2>3. list[n + 1] \in Askable
    BY <1>1, <2>1
  <2>4. /\ SubSeq(list, 1, n) \in Seq(Askable)
        /\ SubSeq(list, 1, n + 1) = Append(SubSeq(list, 1, n), list[n + 1])
    BY <2>1
  <2>5. sent[n + 1] = Next1(n + 1, sent[n])
    BY <1>5, <2>1
  <2>6. CASE n = 0
    <3>1. sent[n + 1] = Worded(list[n + 1])
      BY <2>5, <2>6 DEF Next1
    <3>2. SubSeq(list, 1, n) = <<>>
      BY <2>6
    <3>3. Unread = Outside(<<>>, <<>>) /\ <<>> \in Seq(Askable)
      BY DEF Unread, Outside
    <3>4. /\ Worded(list[n + 1]) \in Seq(Tokens)
          /\ \E s, r : /\ Reads(Unread, Worded(list[n + 1]), Outside(s, r))
                       /\ Pushed(Outside(s, r)) = Append(<<>>, list[n + 1])
      BY <2>3, <3>3, ReadsItem
    <3>5. SubSeq(list, 1, n + 1) = Append(<<>>, list[n + 1])
      BY <2>4, <3>2
    <3> QED
      BY <3>1, <3>4, <3>5 DEF Got
  <2>7. CASE n # 0
    <3>1. sent[n + 1] = sent[n] \o <<Space>> \o Worded(list[n + 1])
      <4>1. n + 1 # 1
        BY <2>7
      <4> QED
        BY <2>5, <4>1 DEF Next1
    <3> QED
      BY <2>2, <2>3, <2>4, <3>1, GotMore
  <2> QED
    BY <2>6, <2>7
<1> HIDE DEF S
<1>9. l \in S
  BY <1>1, <1>7, <1>8, NatsAreAll
<1>10. SubSeq(list, 1, l) = list
  OBVIOUS
<1>11. Got(sent[l], SubSeq(list, 1, l))
  <2> HIDE DEF l
  <2> QED
    BY <1>1, <1>9 DEF S
<1> QED
  BY <1>2, <1>10, <1>11

\* ParseFetchRequestList() finds what the loop has read.
LEMMA ParsedIs ==
  ASSUME NEW tokens \in Seq(Tokens), NEW s, NEW r, Reads(Unread, tokens, Outside(s, r))
  PROVE  ParseFetchRequestList(tokens) = Pushed(Outside(s, r))
<1> DEFINE l == Len(tokens)
           Turns(f) == f = [n \in 0 .. l |-> IF n = 0 THEN Unread
                                             ELSE ReadToken(f[n - 1], tokens[n])]
           read == CHOOSE f : Turns(f)
<1>1. ParseFetchRequestList(tokens) = IF read[l].bParams THEN read[l].requests
                                      ELSE Pushed(read[l])
  BY DEF ParseFetchRequestList
<1>2. PICK f : /\ f = [n \in 0 .. l |-> f[n]]
               /\ f[0] = Unread
               /\ \A n \in 1 .. l : f[n] = ReadToken(f[n - 1], tokens[n])
               /\ f[l] = Outside(s, r)
  BY DEF Reads
<1>3. l \in Nat
  OBVIOUS
<1> HIDE DEF l
<1>4. \A n \in 0 .. l : n = 0 \/ n \in 1 .. l
  BY <1>3
<1>5. \A n \in 0 .. l : f[n] = IF n = 0 THEN Unread ELSE ReadToken(f[n - 1], tokens[n])
  BY <1>2, <1>4
<1>6. Turns(f)
  BY <1>2, <1>5
<1>7. Turns(read)
  BY <1>6
<1> HIDE DEF read
<1>8. 0 \in 0 .. l /\ \A n \in 1 .. l : n \in 0 .. l /\ n # 0
  BY <1>3
<1>9. /\ read[0] = Unread
      /\ \A n \in 1 .. l : read[n] = ReadToken(read[n - 1], tokens[n])
  BY <1>7, <1>8
<1> DEFINE S == {n \in Nat : n <= l => read[n] = f[n]}
<1>10. 0 \in S
  BY <1>2, <1>9
<1>11. ASSUME NEW n \in Nat, n \in S
       PROVE  n + 1 \in S
  <2> SUFFICES ASSUME n + 1 <= l
               PROVE  read[n + 1] = f[n + 1]
    OBVIOUS
  <2>1. n + 1 \in 1 .. l /\ (n + 1) - 1 = n /\ n <= l
    BY <1>3
  <2>2. read[n] = f[n]
    BY <1>11, <2>1
  <2>3. read[n + 1] = ReadToken(read[n], tokens[n + 1])
        /\ f[n + 1] = ReadToken(f[n], tokens[n + 1])
    BY <1>2, <1>9, <2>1
  <2> QED
    BY <2>2, <2>3
<1> HIDE DEF S
<1>12. l \in S
  BY <1>3, <1>10, <1>11, NatsAreAll
<1>13. read[l] = Outside(s, r)
  BY <1>2, <1>3, <1>12 DEF S
<1>14. ~read[l].bParams
  BY <1>13 DEF Outside
<1> QED
  BY <1>1, <1>13, <1>14

\* What has been asked for is something a client may write.
LEMMA RequestStays == FetchSpec => [](request \in Requests)
<1>1. FetchInit => request \in Requests
  BY DEF FetchInit
<1>2. request \in Requests /\ [FetchNext]_fetchVars => (request \in Requests)'
  BY DEF FetchNext, OnFetch, FetchMessage, FetchItem, FetchResponse, FetchCompleted,
         Elsewhere, asked, fetchVars
<1> QED
  BY <1>1, <1>2, PTL DEF FetchSpec

\* Whatever list of items a client writes, with spaces in brackets, with empty
\* brackets or with none, the manager works on that list.
THEOREM ListsAreParsed == FetchSpec => []ParsedAsSent
<1>1. request \in Requests => ParsedAsSent
  <2> SUFFICES ASSUME request \in Requests
               PROVE  ParsedAsSent
    OBVIOUS
  <2>1. request \in Seq(Askable)
    BY FetchAssumption DEF Askable
  <2>2. Got(Written(request), request)
    BY <2>1, GotWritten
  <2>3. PICK s, r : /\ Reads(Unread, Written(request), Outside(s, r))
                    /\ Pushed(Outside(s, r)) = request
    BY <2>2 DEF Got
  <2>4. ParseFetchRequestList(Written(request)) = request
    BY <2>2, <2>3, ParsedIs DEF Got
  <2> QED
    BY <2>4 DEF ParsedAsSent
<1> QED
  BY <1>1, RequestStays, PTL
=============================================================================
