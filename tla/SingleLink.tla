----------------------------- MODULE SingleLink -----------------------------
(***************************************************************************)
(* chromatic_single_link: append() and remove() on nodes that point to     *)
(* each other.  A call is one step: the list has one user and no lock.     *)
(***************************************************************************)
EXTENDS Integers, Sequences, FiniteSets, SequencesExt

CONSTANTS
  Nodes,      \* bound: the places in memory
  Data,       \* what a node holds
  MaxKept,    \* bound: what the list is to hold at one time
  nullptr

ASSUME LinkAssumption == IsFiniteSet(Nodes) /\ nullptr \notin Nodes

VARIABLES
  m_ptr_head,
  m_ptr_next,   \* of each node
  m_dwData,     \* of each node
  allocated,    \* the nodes that were created and not deleted
  broken,       \* remove() has used a pointer that points nowhere
  lost,         \* remove() has emptied a list that held something else
  kept          \* history: what append() was given, in order, without the
                \* first of the data that remove() was given

pointers == <<m_ptr_head, m_ptr_next, m_dwData, allocated>>
linkVars == <<pointers, broken, lost, kept>>

LinkInit ==
  /\ m_ptr_head = nullptr
  /\ m_ptr_next = [n \in Nodes |-> nullptr]
  /\ m_dwData \in [Nodes -> Data]
  /\ allocated = {}
  /\ broken = FALSE
  /\ lost = FALSE
  /\ kept = <<>>

\* w begins at the head, follows the pointers, and ends where one is null.
Visits(w) ==
  IF w = <<>> THEN m_ptr_head = nullptr
  ELSE /\ w[1] = m_ptr_head
       /\ \A i \in 1 .. Len(w) - 1 : w[i + 1] = m_ptr_next[w[i]]
       /\ m_ptr_next[Last(w)] = nullptr

\* The nodes in the order in which the loops of append() and remove() visit
\* them.
Walk == CHOOSE w \in SeqOf(Nodes, Cardinality(Nodes)) : Visits(w)

-----------------------------------------------------------------------------
\* The first node becomes the head; another is put behind the last.
append(data) ==
  /\ ~broken /\ Len(kept) < MaxKept
  /\ \E node \in Nodes \ allocated :
       /\ allocated' = allocated \cup {node}
       /\ m_dwData' = [m_dwData EXCEPT ![node] = data]
       /\ IF m_ptr_head = nullptr
          THEN m_ptr_head' = node /\ m_ptr_next' = [m_ptr_next EXCEPT ![node] = nullptr]
          ELSE /\ m_ptr_next' = [m_ptr_next EXCEPT ![node] = nullptr, ![Last(Walk)] = node]
               /\ UNCHANGED m_ptr_head
  /\ kept' = Append(kept, data)
  /\ UNCHANGED <<broken, lost>>

\* remove() of an empty list.
RemoveNone(data) ==
  /\ ~broken /\ Walk = <<>>
  /\ kept' = RemoveFirst(kept, data)
  /\ UNCHANGED <<pointers, broken, lost>>

\* A list of one node is emptied, whatever its data.
RemoveOnly(data) ==
  /\ ~broken /\ Len(Walk) = 1
  /\ m_ptr_head' = nullptr
  /\ allocated' = allocated \ {m_ptr_head}
  /\ lost' = (lost \/ m_dwData[m_ptr_head] # data)
  /\ kept' = RemoveFirst(kept, data)
  /\ UNCHANGED <<m_ptr_next, m_dwData, broken>>

\* Where the loop of remove() breaks: the first node with the data, or 0.
Reached(data) == SelectInSeq(Walk, LAMBDA n : m_dwData[n] = data)

\* Mutated form of the next definition: prev is set before the data is
\* compared.
RemoveLate(data) ==
  LET i == Reached(data)
  IN /\ ~broken /\ Len(Walk) > 1 /\ i > 1
     /\ m_ptr_next' = [m_ptr_next EXCEPT ![Walk[i]] = @]
     /\ allocated' = allocated \ {Walk[i]}
     /\ kept' = RemoveFirst(kept, data)
     /\ UNCHANGED <<m_ptr_head, m_dwData, broken, lost>>

\* The node before it is given what follows it.
RemoveInside(data) ==
  LET i == Reached(data)
  IN /\ ~broken /\ Len(Walk) > 1 /\ i > 1
     /\ m_ptr_next' = [m_ptr_next EXCEPT ![Walk[i - 1]] = m_ptr_next[Walk[i]]]
     /\ allocated' = allocated \ {Walk[i]}
     /\ kept' = RemoveFirst(kept, data)
     /\ UNCHANGED <<m_ptr_head, m_dwData, broken, lost>>

\* At the head prev has no value yet, and the head is deleted but stays the
\* head; behind the last node temp_node is null.  What follows is undefined.
RemoveBreaks(data) ==
  /\ ~broken /\ Len(Walk) > 1 /\ Reached(data) \in {0, 1}
  /\ broken' = TRUE
  /\ UNCHANGED <<pointers, lost, kept>>

LinkNext ==
  \E data \in Data :
    \/ append(data) \/ RemoveNone(data) \/ RemoveOnly(data) \/ RemoveInside(data)
    \/ RemoveBreaks(data)

LinkSpec == LinkInit /\ [][LinkNext]_linkVars

-----------------------------------------------------------------------------
(* Properties. *)

Held(w) == [i \in DOMAIN w |-> m_dwData[w[i]]]

\* s is what is left of t when some of its places are dropped.
InOrder(s, t) ==
  \E f \in [DOMAIN s -> DOMAIN t] :
    /\ \A i \in DOMAIN s : t[f[i]] = s[i]
    /\ \A i, j \in DOMAIN s : i < j => f[i] < f[j]

\* Until remove() breaks it, the list holds nothing it should not hold, and
\* nothing twice or out of order, in nodes that are allocated, and leaks
\* none; and it holds all it should, until remove() of something it does not
\* hold has emptied a list of one node.
ListHolds ==
  ~broken =>
    /\ InOrder(Held(Walk), kept)
    /\ ~lost => Held(Walk) = kept
    /\ ToSet(Walk) = allocated
=============================================================================
