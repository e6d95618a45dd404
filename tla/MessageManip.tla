---------------------------- MODULE MessageManip ----------------------------
(***************************************************************************)
(* The functions of chromatic_message_manip, and of OemoImapMessageManip,  *)
(* on vectors of message numbers: process_atoms() and what                 *)
(* atoms_intersection() does with the algorithms of the standard library.  *)
(*                                                                         *)
(* A token of a message set is a number, a range of two numbers, or a      *)
(* range that ends with a star; what is not a number is 0 to atoi(), which *)
(* takes a sign too.  Numbers that an int does not hold are left out.      *)
(***************************************************************************)
EXTENDS Integers, Sequences, FiniteSets, SequencesExt, FiniteSetsExt

\* Whatever a client writes.
AnyToken ==
  [kind : {"number", "star"}, left : Int] \cup
  [kind : {"range"}, left : Int, right : Int]

\* Sorted, and nothing twice.
Ascends(nums) == \A i, j \in DOMAIN nums : i < j => nums[i] < nums[j]

\* What stands at some of the places of a vector, pushed back in a loop.
Chosen(seq, places) ==
  LET found[n \in 0 .. Len(seq)] ==
        IF n = 0 THEN <<>>
        ELSE IF n \in places THEN Append(found[n - 1], seq[n]) ELSE found[n - 1]
  IN found[Len(seq)]

-----------------------------------------------------------------------------
(* Mutated forms of the definitions below, each a plausible slip.  No       *)
(* specification uses them.                                                 *)

\* process_atoms() that does not clip the right end of a range.
Unclipped(token, limit) ==
  IF token.kind = "number" THEN <<token.left>>
  ELSE LET right == IF token.kind = "star" THEN limit ELSE token.right
       IN [n \in 1 .. right + 1 - token.left |-> token.left + n - 1]

\* atoms_intersection() that trusts the order of the request.
AsRequested(seq) == seq

-----------------------------------------------------------------------------
\* generate_n() with PopulateRange: right + 1 - left numbers, from left on, or
\* none.
Ascending(left, right) == [n \in 1 .. Max({0, right + 1 - left}) |-> left + n - 1]

\* process_atoms(): the right end is clipped, the left end is not.
Atoms(token, limit) ==
  CASE token.kind = "number" -> <<token.left>>
    [] token.kind = "range" ->
         IF token.left <= token.right
         THEN Ascending(token.left, Min({token.right, limit}))
         ELSE <<>>
    [] token.kind = "star" ->
         IF limit # 0 THEN Ascending(token.left, limit) ELSE <<>>

\* std::sort(), which keeps every copy of a number: the n-th is one with n
\* before it or in its place.
Sorted(seq) ==
  LET rank(i) ==
        Cardinality({j \in DOMAIN seq : seq[j] < seq[i] \/ (seq[j] = seq[i] /\ j <= i)})
  IN [n \in DOMAIN seq |-> seq[CHOOSE i \in DOMAIN seq : rank(i) = n]]

\* std::unique() with nothing erased after it: a number that repeats the one
\* before it is dropped, and what is left behind the rest is what was there.
Unique(seq) ==
  LET front == Chosen(seq, {i \in DOMAIN seq : i = 1 \/ seq[i] # seq[i - 1]})
  IN front \o SubSeq(seq, Len(front) + 1, Len(seq))

\* One turn of the loop of std::set_intersection(), for whatever is in the two
\* vectors.
Turn(a, b, p) ==
  IF p.i > Len(a) \/ p.j > Len(b) THEN p
  ELSE IF a[p.i] < b[p.j] THEN [p EXCEPT !.i = @ + 1]
  ELSE IF b[p.j] < a[p.i] THEN [p EXCEPT !.j = @ + 1]
  ELSE [i |-> p.i + 1, j |-> p.j + 1, common |-> Append(p.common, a[p.i])]

\* All its turns.
SetIntersection(a, b) ==
  LET turns[k \in 0 .. Len(a) + Len(b)] ==
        IF k = 0 THEN [i |-> 1, j |-> 1, common |-> <<>>] ELSE Turn(a, b, turns[k - 1])
  IN turns[Len(a) + Len(b)].common

\* The end of atoms_intersection(): the zeros of the result are removed.
Intersection(a, b) ==
  LET common == SetIntersection(a, b)
  IN Chosen(common, {n \in DOMAIN common : common[n] # 0})

-----------------------------------------------------------------------------
\* What a token means: a range can only be ascending, and a star stands for
\* the last message there is.
Means(token, n) ==
  CASE token.kind = "number" -> n = token.left
    [] token.kind = "range" -> token.left <= n /\ n <= token.right
    [] token.kind = "star" -> token.left <= n
=============================================================================
