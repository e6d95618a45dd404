----------------------------- MODULE MessageSet -----------------------------
(***************************************************************************)
(* How FETCH, STORE and COPY find the messages a client asks for:          *)
(* expand_message_sequence() and atoms_intersection() of                   *)
(* chromatic_message_manip, one step for each token, each pass over the    *)
(* vectors being a step of its own.                                        *)
(***************************************************************************)
EXTENDS MessageManip

CONSTANTS
  MinNumber,     \* bounds: the smallest and
  MaxNumber,     \* the largest number in a request
  MaxTokens,     \* bound: the longest request
  MaxMessages    \* bound: the largest UID, and the largest number of messages

ASSUME SetAssumption ==
  MinNumber \in Int /\ MaxNumber \in Int /\ MaxTokens \in Nat /\ MaxMessages \in Nat

VARIABLES
  request,   \* the tokens of the message set
  present,   \* vMessageNums: the numbers, or the UIDs, of messages(), sorted
  dwMax,     \* the size of messages(), or max_uid()
  stage,     \* "expand", "sort", "unique", "intersect" or "done"
  next,      \* the token expand_message_sequence() is at
  subatoms   \* the numbers found so far

vars == <<request, present, dwMax, stage, next, subatoms>>

Numbers == MinNumber .. MaxNumber

Tokens ==
  [kind : {"number", "star"}, left : Numbers] \cup
  [kind : {"range"}, left : Numbers, right : Numbers]

\* Without messages, there being none or the query having failed, max_uid()
\* is what it was: the UID of a mailbox listed before, or, as no constructor
\* sets it, anything.
MessageSetInit ==
  /\ request \in SeqOf(Tokens, MaxTokens)
  /\ present \in {nums \in SeqOf(1 .. MaxMessages, MaxMessages) : Ascends(nums)}
  /\ dwMax \in IF present = <<>> THEN Numbers ELSE {Last(present)}
  /\ stage = "expand"
  /\ next = 1
  /\ subatoms = <<>>

-----------------------------------------------------------------------------
\* One turn of the loop of expand_message_sequence().
Expand ==
  /\ stage = "expand"
  /\ next <= Len(request)
  /\ subatoms' = subatoms \o Atoms(request[next], dwMax)
  /\ next' = next + 1
  /\ UNCHANGED <<request, present, dwMax, stage>>

Pass(from, to, result) ==
  /\ stage = from
  /\ stage' = to
  /\ subatoms' = result
  /\ UNCHANGED <<request, present, dwMax, next>>

ExpandDone == next > Len(request) /\ Pass("expand", "sort", subatoms)
Sort == Pass("sort", "unique", Sorted(subatoms))
MakeUnique == Pass("unique", "intersect", Unique(subatoms))
Intersect == Pass("intersect", "done", Intersection(subatoms, present))

MessageSetNext == Expand \/ ExpandDone \/ Sort \/ MakeUnique \/ Intersect

MessageSetSpec == MessageSetInit /\ [][MessageSetNext]_vars

-----------------------------------------------------------------------------
(* Properties. *)

\* The messages served are those there are and the client asked for, each
\* once and in their order, whatever tokens overlap, and although the
\* numbers std::unique() leaves behind are not erased.
RequestIsResolved ==
  stage = "done" =>
    /\ Ascends(subatoms)
    /\ ToSet(subatoms) = {n \in ToSet(present) : \E t \in ToSet(request) : Means(t, n)}

\* The most numbers from low, or from zero, up to dwMax.
Span(low) == Max({0, dwMax}) + 1 - low

\* However large the right ends a client writes, a token costs no more memory
\* than the numbers from the smallest left end up to dwMax.  (The left ends
\* are not clipped: nothing but the client bounds low.)
ExpansionIsBounded ==
  stage = "expand" =>
    \A low \in MinNumber .. 0 :
      (\A t \in ToSet(request) : low <= t.left) => Len(subatoms) <= (next - 1) * Span(low)
=============================================================================
