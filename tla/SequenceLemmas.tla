--------------------------- MODULE SequenceLemmas ---------------------------
(***************************************************************************)
(* Facts about sequences, induction over the natural numbers, and functions *)
(* defined by recursion, which the proofs about loops need.                *)
(***************************************************************************)
EXTENDS Integers, Sequences, WellFoundedInduction, TLAPS

-----------------------------------------------------------------------------
(* Numbers and sequences. *)

\* Induction over the natural numbers.
LEMMA NatsAreAll ==
  ASSUME NEW S, 0 \in S, \A n \in Nat : n \in S => n + 1 \in S
  PROVE  Nat \subseteq S
<1> SUFFICES ASSUME Nat \ S # {}
             PROVE  FALSE
  OBVIOUS
<1>1. PICK x \in Nat \ S : \A y \in Nat \ S : <<y, x>> \notin OpToRel(<, Nat)
  BY NatLessThanWellFounded, WFMin
<1>2. \A y \in Nat \ S : ~(y < x)
  BY <1>1, Zenon DEF OpToRel
<1>3. x # 0 /\ x - 1 \in Nat
  OBVIOUS
<1>4. x - 1 \in S
  BY <1>2, <1>3
<1> QED
  BY <1>3, <1>4

\* The beginning of a text.
LEMMA PrefixFacts ==
  ASSUME NEW S, NEW q \in Seq(S), NEW k \in 0 .. Len(q)
  PROVE  /\ SubSeq(q, 1, k) \in Seq(S)
         /\ Len(SubSeq(q, 1, k)) = k
         /\ \A n \in 1 .. k : SubSeq(q, 1, k)[n] = q[n]
  OBVIOUS

\* What is left of a text behind one of its bytes.
LEMMA SuffixFacts ==
  ASSUME NEW S, NEW q \in Seq(S), NEW k \in 0 .. Len(q)
  PROVE  /\ SubSeq(q, k + 1, Len(q)) \in Seq(S)
         /\ Len(SubSeq(q, k + 1, Len(q))) = Len(q) - k
         /\ \A n \in 1 .. Len(q) - k : SubSeq(q, k + 1, Len(q))[n] = q[k + n]
  OBVIOUS

\* A part of a part of a text.
LEMMA CutOfCut ==
  ASSUME NEW S, NEW q \in Seq(S), NEW a \in Nat \ {0}, NEW b \in 0 .. Len(q),
         a <= b + 1, NEW x \in Nat \ {0}, NEW y \in 0 .. b - a + 1, x <= y + 1
  PROVE  SubSeq(SubSeq(q, a, b), x, y) = SubSeq(q, a + x - 1, a + y - 1)
<1> DEFINE p == SubSeq(q, a, b)
<1>1. /\ p \in Seq(S)
      /\ Len(p) = b - a + 1
      /\ \A i \in 1 .. b - a + 1 : p[i] = q[a + i - 1]
  OBVIOUS
<1> DEFINE l == b - a + 1
<1>2. /\ l \in Nat /\ y \in 0 .. l /\ x \in Int /\ y \in Int
      /\ \A i \in 1 .. y - x + 1 : x + i - 1 \in 1 .. l
  OBVIOUS
<1> HIDE DEF p, l
<1>3. SubSeq(p, x, y) = [i \in 1 .. y - x + 1 |-> p[x + i - 1]]
  BY <1>1, <1>2
<1>4. SubSeq(q, a + x - 1, a + y - 1) = [i \in 1 .. y - x + 1 |-> q[a + x - 1 + i - 1]]
  OBVIOUS
<1>5. ASSUME NEW i \in 1 .. y - x + 1
      PROVE  p[x + i - 1] = q[a + x - 1 + i - 1]
  <2>1. p[x + i - 1] = q[a + (x + i - 1) - 1]
    BY <1>1, <1>2 DEF l
  <2>2. a + (x + i - 1) - 1 = a + x - 1 + i - 1
    OBVIOUS
  <2> QED
    BY <2>1, <2>2
<1> QED
  BY <1>3, <1>4, <1>5 DEF p

\* The beginning of a part of a text.
LEMMA FrontOfCut ==
  ASSUME NEW S, NEW q \in Seq(S), NEW a \in Nat \ {0}, NEW b \in 0 .. Len(q),
         a <= b + 1, NEW y \in 0 .. b - a + 1
  PROVE  SubSeq(SubSeq(q, a, b), 1, y) = SubSeq(q, a, a + y - 1)
<1>1. SubSeq(SubSeq(q, a, b), 1, y) = SubSeq(q, a + 1 - 1, a + y - 1)
  BY CutOfCut
<1>2. a + 1 - 1 = a
  OBVIOUS
<1> QED
  BY <1>1, <1>2

\* The end of a beginning of a text.
LEMMA EndOfCut ==
  ASSUME NEW S, NEW q \in Seq(S), NEW b \in 0 .. Len(q), NEW x \in Nat \ {0}, x <= b + 1
  PROVE  SubSeq(SubSeq(q, 1, b), x, b) = SubSeq(q, x, b)
<1>1. 1 \in Nat \ {0} /\ 1 <= b + 1 /\ b \in 0 .. b - 1 + 1
  OBVIOUS
<1>2. SubSeq(SubSeq(q, 1, b), x, b) = SubSeq(q, 1 + x - 1, 1 + b - 1)
  BY <1>1, CutOfCut
<1>3. 1 + x - 1 = x /\ 1 + b - 1 = b
  OBVIOUS
<1> QED
  BY <1>2, <1>3

\* One text after another.
LEMMA ConcatFacts ==
  ASSUME NEW S, NEW q \in Seq(S), NEW r \in Seq(S)
  PROVE  /\ q \o r \in Seq(S)
         /\ Len(q \o r) = Len(q) + Len(r)
         /\ \A k \in 1 .. Len(q) : (q \o r)[k] = q[k]
         /\ \A k \in 1 .. Len(r) : (q \o r)[Len(q) + k] = r[k]
OBVIOUS

\* A text taken off the front of another.
LEMMA SplitFacts ==
  ASSUME NEW S, NEW q \in Seq(S), NEW r \in Seq(S), NEW g \in Seq(S), Len(g) <= Len(r),
         \A k \in 1 .. Len(g) : g[k] = r[k]
  PROVE  (q \o g) \o SubSeq(r, Len(g) + 1, Len(r)) = q \o r
<1> DEFINE a == Len(q)
           n == Len(g)
           b == Len(r)
           tail == SubSeq(r, n + 1, b)
           left == (q \o g) \o tail
           right == q \o r
<1>1. a \in Nat /\ n \in Nat /\ b \in Nat /\ n <= b
  OBVIOUS
<1>2. /\ tail \in Seq(S) /\ Len(tail) = b - n
      /\ \A k \in 1 .. b - n : tail[k] = r[n + k]
  <2>1. n \in 0 .. Len(r)
    BY <1>1
  <2> HIDE DEF n
  <2> QED
    BY <2>1, SuffixFacts
<1> HIDE DEF tail
<1>3. /\ q \o g \in Seq(S) /\ Len(q \o g) = a + n
      /\ \A k \in 1 .. a : (q \o g)[k] = q[k]
      /\ \A k \in 1 .. n : (q \o g)[a + k] = g[k]
  OBVIOUS
<1> DEFINE front == q \o g
<1> HIDE DEF front
<1>4. /\ front \in Seq(S) /\ Len(front) = a + n
      /\ \A k \in 1 .. a : front[k] = q[k]
      /\ \A k \in 1 .. n : front[a + k] = r[k]
  BY <1>3 DEF front
<1>5. /\ front \o tail \in Seq(S) /\ Len(front \o tail) = a + b
      /\ \A k \in 1 .. a + n : (front \o tail)[k] = front[k]
      /\ \A k \in 1 .. b - n : (front \o tail)[a + n + k] = tail[k]
  <2> HIDE DEF a, n, b
  <2>1. (a + n) + (b - n) = a + b
    BY <1>1
  <2>2. /\ front \o tail \in Seq(S)
        /\ Len(front \o tail) = Len(front) + Len(tail)
        /\ \A k \in 1 .. Len(front) : (front \o tail)[k] = front[k]
        /\ \A k \in 1 .. Len(tail) : (front \o tail)[Len(front) + k] = tail[k]
    <3>1. front \in Seq(S) /\ tail \in Seq(S)
      BY <1>2, <1>4
    <3> QED
      BY <3>1, ConcatFacts
  <2> DEFINE joined == front \o tail
  <2> HIDE DEF joined
  <2>3. /\ joined \in Seq(S)
        /\ Len(joined) = Len(front) + Len(tail)
        /\ \A k \in 1 .. Len(front) : joined[k] = front[k]
        /\ \A k \in 1 .. Len(tail) : joined[Len(front) + k] = tail[k]
    BY <2>2 DEF joined
  <2>4. Len(front) = a + n /\ Len(tail) = b - n
    BY <1>2, <1>4
  <2>5. /\ joined \in Seq(S) /\ Len(joined) = a + b
        /\ \A k \in 1 .. a + n : joined[k] = front[k]
        /\ \A k \in 1 .. b - n : joined[a + n + k] = tail[k]
    BY <2>1, <2>3, <2>4
  <2> QED
    BY <2>5 DEF joined
<1>6. /\ right \in Seq(S) /\ Len(right) = a + b
      /\ \A k \in 1 .. a : right[k] = q[k]
      /\ \A k \in 1 .. b : right[a + k] = r[k]
  OBVIOUS
<1> DEFINE whole == front \o tail
<1> HIDE DEF whole, right, a, n, b
<1>7. ASSUME NEW k \in 1 .. a + b
      PROVE  whole[k] = right[k]
  <2>1. CASE k <= a
    <3>1. k \in 1 .. a /\ k \in 1 .. a + n
      BY <1>1, <2>1
    <3> QED
      BY <1>4, <1>5, <1>6, <3>1 DEF whole
  <2>2. CASE a < k /\ k <= a + n
    <3>1. k - a \in 1 .. n /\ k - a \in 1 .. b /\ k = a + (k - a) /\ k \in 1 .. a + n
      BY <1>1, <2>2
    <3>2. whole[k] = front[k]
      BY <1>5, <3>1 DEF whole
    <3>3. front[a + (k - a)] = r[k - a] /\ right[a + (k - a)] = r[k - a]
      BY <1>4, <1>6, <3>1
    <3> QED
      BY <3>1, <3>2, <3>3
  <2>3. CASE a + n < k
    <3>1. /\ k - (a + n) \in 1 .. b - n /\ k = a + n + (k - (a + n))
          /\ k - a \in 1 .. b /\ k = a + (k - a) /\ n + (k - (a + n)) = k - a
      BY <1>1, <2>3
    <3>2. whole[a + n + (k - (a + n))] = tail[k - (a + n)]
      BY <1>5, <3>1 DEF whole
    <3>3. tail[k - (a + n)] = r[n + (k - (a + n))]
      BY <1>2, <3>1
    <3>4. right[a + (k - a)] = r[k - a]
      BY <1>6, <3>1
    <3> QED
      BY <3>1, <3>2, <3>3, <3>4
  <2> QED
    BY <1>1, <2>1, <2>2, <2>3
<1>8. whole = right
  BY <1>1, <1>5, <1>6, <1>7 DEF whole
<1> QED
  BY <1>8 DEF whole, front, right, tail, n, b

-----------------------------------------------------------------------------
(* Sequences of whatever values. *)

IsSeq(q) == \E S : q \in Seq(S)

LEMMA AppendIsSeq ==
  ASSUME NEW q, IsSeq(q), NEW e
  PROVE  /\ IsSeq(Append(q, e))
         /\ Len(q) \in Nat
         /\ Len(Append(q, e)) = Len(q) + 1
         /\ DOMAIN Append(q, e) = 1 .. Len(q) + 1
         /\ DOMAIN q = 1 .. Len(q)
         /\ \A i \in 1 .. Len(q) : Append(q, e)[i] = q[i]
         /\ Append(q, e)[Len(q) + 1] = e
<1>1. PICK S : q \in Seq(S)
  BY DEF IsSeq
<1> DEFINE T == S \cup {e}
<1>2. q \in Seq(T) /\ e \in T
  <2>1. \A i \in 1 .. Len(q) : q[i] \in T
    BY <1>1
  <2>2. Len(q) \in Nat /\ q = [i \in 1 .. Len(q) |-> q[i]]
    BY <1>1
  <2>3. q \in [1 .. Len(q) -> T]
    <3> HIDE DEF T
    <3> QED
      BY <2>1, <2>2
  <2> HIDE DEF T
  <2>4. e \in T
    BY DEF T
  <2> QED
    BY <2>2, <2>3, <2>4
<1> HIDE DEF T
<1>3. Append(q, e) \in Seq(T)
  BY <1>2
<1> QED
  BY <1>2, <1>3 DEF IsSeq

-----------------------------------------------------------------------------
(* Recursion. *)

\* f begins with x0, and g leads from each of its values to the next.
Follows(f, x0, g, m) == f[0] = x0 /\ \A k \in 1 .. m : f[k] = g[<<k, f[k - 1]>>]

\* A function defined by recursion up to a number is there.
LEMMA Recursion ==
  ASSUME NEW X, NEW x0 \in X, NEW g \in [Nat \X X -> X], NEW m \in Nat
  PROVE  \E f \in [0 .. m -> X] : Follows(f, x0, g, m)
<1> DEFINE Ends(n, f) == /\ f \in [0 .. n -> X]
                         /\ f[0] = x0
                         /\ \A k \in 1 .. n : f[k] = g[<<k, f[k - 1]>>]
           S == {n \in Nat : \E f : Ends(n, f)}
<1>1. 0 \in S
  <2> DEFINE f == [k \in 0 .. 0 |-> x0]
  <2>1. Ends(0, f)
    OBVIOUS
  <2> QED
    BY <2>1
<1>2. ASSUME NEW n \in Nat, n \in S
      PROVE  n + 1 \in S
  <2>1. PICK f : Ends(n, f)
    BY <1>2
  <2> DEFINE h == [k \in 0 .. n + 1 |-> IF k = n + 1 THEN g[<<n + 1, f[n]>>] ELSE f[k]]
  <2>2. n \in 0 .. n /\ n + 1 \in Nat /\ n + 1 \in 0 .. n + 1 /\ 0 \in 0 .. n + 1 /\ 0 # n + 1
        /\ (n + 1) - 1 = n /\ n \in 0 .. n + 1 /\ n # n + 1
    OBVIOUS
  <2>3. g[<<n + 1, f[n]>>] \in X
    BY <2>1, <2>2
  <2>4. \A k \in 0 .. n + 1 : k # n + 1 => k \in 0 .. n /\ k # n + 1
    OBVIOUS
  <2>5. h \in [0 .. n + 1 -> X]
    BY <2>1, <2>3, <2>4
  <2>6. h[0] = x0 /\ h[n] = f[n] /\ h[n + 1] = g[<<n + 1, f[n]>>]
    BY <2>1, <2>2
  <2>7. ASSUME NEW k \in 1 .. n + 1
        PROVE  h[k] = g[<<k, h[k - 1]>>]
    <3>1. CASE k = n + 1
      BY <2>2, <2>6, <3>1
    <3>2. CASE k # n + 1
      <4>1. k \in 1 .. n /\ k \in 0 .. n + 1 /\ k - 1 \in 0 .. n + 1 /\ k - 1 # n + 1
        BY <3>2
      <4>2. h[k] = f[k] /\ h[k - 1] = f[k - 1]
        BY <3>2, <4>1
      <4> HIDE DEF h
      <4> QED
        BY <2>1, <4>1, <4>2
    <3> QED
      BY <3>1, <3>2
  <2> HIDE DEF h
  <2>8. Ends(n + 1, h)
    BY <2>5, <2>6, <2>7
  <2> QED
    BY <2>2, <2>8
<1> HIDE DEF S
<1>3. m \in S
  BY <1>1, <1>2, NatsAreAll
<1>4. PICK f : Ends(m, f)
  BY <1>3 DEF S
<1> QED
  BY <1>4 DEF Follows
=============================================================================
