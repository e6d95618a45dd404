--------------------------- MODULE SequenceProofs ---------------------------
(***************************************************************************)
(* Theorems about what is done in loops over texts, vectors and lists: the *)
(* requests of a client, from packets to commands, for any lines and sizes *)
(* of the buffers, message sets, for any requests and mailboxes, and the   *)
(* linked list, for any number of nodes.                                   *)
(***************************************************************************)
EXTENDS RequestLine, MessageSet, SearchCriteria, SingleLink,
        SequenceLemmas, FiniteSetTheorems

-----------------------------------------------------------------------------
(* Requests: what find_first_of() and the cuts of a text give. *)

\* What recv() may return: NUL, and the bytes of requests.
Octets == {Nul} \cup [c : STRING, of : Nat]

LEMMA FindFacts ==
  ASSUME NEW S, NEW text \in Seq(S), NEW ch
  PROVE  /\ Find(text, ch) \in 0 .. Len(text)
         /\ Find(text, ch) = 0 => \A i \in 1 .. Len(text) : text[i].c # ch
         /\ Find(text, ch) # 0 => /\ text[Find(text, ch)].c = ch
                                  /\ \A i \in 1 .. Find(text, ch) - 1 : text[i].c # ch
<1> DEFINE I == {i \in 1 .. Len(text) : text[i].c = ch}
<1>1. Find(text, ch) = IF I # {} THEN Min(I) ELSE 0
  BY DEF Find, SelectInSeq
<1>2. Len(text) \in Nat /\ I \subseteq 1 .. Len(text) /\ I \subseteq Nat
  OBVIOUS
<1>3. \A i \in 1 .. Len(text) : i \in I <=> text[i].c = ch
  OBVIOUS
<1> HIDE DEF I
<1>4. CASE I = {}
  BY <1>1, <1>2, <1>3, <1>4
<1>5. CASE I # {}
  <2>1. PICK m \in I : \A j \in I : <<j, m>> \notin OpToRel(<, Nat)
    BY <1>2, <1>5, NatLessThanWellFounded, WFMin
  <2>2. \A j \in I : ~(j < m)
    BY <1>2, <2>1, Zenon DEF OpToRel
  <2>3. \A j \in I : m <= j
    BY <1>2, <2>2
  <2>4. Min(I) \in I /\ \A j \in I : Min(I) <= j
    BY <2>3 DEF Min
  <2> DEFINE f == Min(I)
  <2>5. f \in 1 .. Len(text) /\ text[f].c = ch
    BY <1>2, <1>3, <2>4
  <2>6. \A i \in 1 .. f - 1 : i \in 1 .. Len(text) /\ ~(f <= i)
    BY <1>2, <2>5
  <2>7. \A i \in 1 .. f - 1 : text[i].c # ch
    BY <1>3, <2>4, <2>6
  <2>8. Find(text, ch) = f
    BY <1>1, <1>5
  <2> HIDE DEF f
  <2> QED
    BY <1>2, <2>5, <2>7, <2>8
<1> QED
  BY <1>4, <1>5

LEMMA FindIs ==
  ASSUME NEW S, NEW text \in Seq(S), NEW ch, NEW k \in 1 .. Len(text),
         text[k].c = ch, \A i \in 1 .. k - 1 : text[i].c # ch
  PROVE  Find(text, ch) = k
<1> DEFINE f == Find(text, ch)
<1>1. /\ f \in 0 .. Len(text)
      /\ f = 0 => \A i \in 1 .. Len(text) : text[i].c # ch
      /\ f # 0 => text[f].c = ch /\ \A i \in 1 .. f - 1 : text[i].c # ch
  BY FindFacts
<1> HIDE DEF f
<1>2. Len(text) \in Nat
  OBVIOUS
<1> QED
  BY <1>1, <1>2 DEF f

LEMMA FindNone ==
  ASSUME NEW S, NEW text \in Seq(S), NEW ch, \A i \in 1 .. Len(text) : text[i].c # ch
  PROVE  Find(text, ch) = 0
<1>1. Len(text) \in Nat
  OBVIOUS
<1> QED
  BY <1>1, FindFacts

\* A line as bytes.
LEMMA BytesFacts ==
  ASSUME NEW line \in Lines, NEW n \in Nat
  PROVE  /\ Bytes(line, n) \in Seq(Octets)
         /\ Len(Bytes(line, n)) = Len(line)
         /\ \A i \in 1 .. Len(line) : Bytes(line, n)[i].c = line[i] /\ Bytes(line, n)[i].of = n
<1>1. line \in Seq(STRING)
  BY RequestAssumption
<1>2. Len(line) \in Nat /\ DOMAIN line = 1 .. Len(line) /\ \A i \in 1 .. Len(line) : line[i] \in STRING
  BY <1>1
<1>3. \A i \in 1 .. Len(line) : [c |-> line[i], of |-> n] \in Octets
  <2>1. \A ch \in STRING : [c |-> ch, of |-> n] \in [c : STRING, of : Nat]
    OBVIOUS
  <2> QED
    BY <1>2, <2>1 DEF Octets
<1>4. Bytes(line, n) = [i \in 1 .. Len(line) |-> [c |-> line[i], of |-> n]]
  BY <1>2 DEF Bytes
<1>5. Bytes(line, n) \in [1 .. Len(line) -> Octets]
  BY <1>3, <1>4
<1> QED
  BY <1>2, <1>4, <1>5

\* What is written of a buffer with a NUL at k: the bytes before the first
\* NUL.
LEMMA CStringFacts ==
  ASSUME NEW buf \in [Positions -> Octets], NEW k \in Positions, buf[k] = Nul
  PROVE  \E m \in 0 .. k - 1 :
           /\ CString(buf) = [i \in 1 .. m |-> buf[i]]
           /\ m + 1 \in Positions /\ buf[m + 1] = Nul
           /\ \A i \in 1 .. m : i \in Positions /\ buf[i] # Nul
<1> DEFINE nul == {i \in Positions : buf[i] = Nul}
<1>1. nul \subseteq Nat /\ k \in nul /\ \A i \in nul : i \in Positions /\ buf[i] = Nul
  BY DEF Positions
<1>2. \A i \in Positions : i \in nul <=> buf[i] = Nul
  OBVIOUS
<1>3. CString(buf) = [i \in 1 .. (CHOOSE n \in nul : \A j \in nul : n <= j) - 1 |-> buf[i]]
  BY DEF CString
<1> HIDE DEF nul
<1>4. PICK l \in nul : \A j \in nul : <<j, l>> \notin OpToRel(<, Nat)
  BY <1>1, NatLessThanWellFounded, WFMin
<1>5. \A j \in nul : ~(j < l)
  BY <1>1, <1>4, Zenon DEF OpToRel
<1>6. \A j \in nul : l <= j
  BY <1>1, <1>5
<1> DEFINE first == CHOOSE i \in nul : \A j \in nul : i <= j
<1>7. first \in nul /\ \A j \in nul : first <= j
  BY <1>6
<1>8. PICK n \in nul : n = first /\ \A j \in nul : n <= j
  BY <1>7
<1>9. n \in 1 .. k
  <2>1. n \in 1 .. BufferLength /\ n <= k /\ k \in 1 .. BufferLength
    BY <1>1, <1>8 DEF Positions
  <2> QED
    BY <2>1
<1>10. n - 1 \in 0 .. k - 1 /\ n - 1 + 1 = n
  BY <1>9 DEF Positions
<1>11. CString(buf) = [i \in 1 .. n - 1 |-> buf[i]]
  BY <1>3, <1>8
<1>12. \A i \in 1 .. n - 1 : i \in Positions /\ buf[i] # Nul
  <2>1. \A i \in 1 .. n - 1 : i \in Positions /\ ~(n <= i)
    <3>1. n \in 1 .. BufferLength /\ BufferLength \in Int
      BY <1>1, RequestAssumption DEF Positions
    <3> QED
      BY <3>1 DEF Positions
  <2> QED
    BY <1>2, <1>8, <2>1
<1> QED
  BY <1>1, <1>8, <1>10, <1>11, <1>12

\* parse_command() finds in a line what it asks for.
LEMMA LinesAreParsed ==
  ASSUME NEW line \in Lines, NEW n \in Nat
  PROVE  parse_command(Bytes(line, n)) = Meant(line, n)
<1> DEFINE text == Bytes(line, n)
           l == Len(line)
           body == SubSeq(text, 1, l - 2)
           i == Find(text, " ")
           str == After(text, i)
           j == Find(str, " ")
           command == After(body, i)
<1>1. /\ text \in Seq(Octets) /\ Len(text) = l
      /\ l \in Nat /\ l >= 2
      /\ \A k \in 1 .. l : text[k].c = "\n" <=> k = l
      /\ text[l].c = "\n" /\ text[l - 1].c = "\r"
  <2>1. line \in Seq(STRING) /\ l \in Nat /\ l >= 2 /\ DOMAIN line = 1 .. l
    <3>1. line \in Seq(STRING) /\ 1 < Len(line)
      BY RequestAssumption
    <3> QED
      BY <3>1
  <2>2. /\ \A k \in 1 .. l : line[k] = "\n" <=> k = l
        /\ line[l - 1] = "\r"
    BY <2>1, RequestAssumption
  <2>3. text \in Seq(Octets) /\ Len(text) = l /\ \A k \in 1 .. l : text[k].c = line[k]
    BY BytesFacts
  <2>4. l - 1 \in 1 .. l /\ l \in 1 .. l
    BY <2>1
  <2> HIDE DEF text, l
  <2> QED
    BY <2>1, <2>2, <2>3, <2>4
<1> HIDE DEF text, l
<1>2. /\ body \in Seq(Octets) /\ Len(body) = l - 2
      /\ \A k \in 1 .. l - 2 : body[k] = text[k]
  BY <1>1
<1>3. /\ i \in 0 .. l
      /\ i = 0 => \A k \in 1 .. l : text[k].c # " "
      /\ i # 0 => text[i].c = " " /\ \A k \in 1 .. i - 1 : text[k].c # " "
  BY <1>1, FindFacts
<1>4. l \in Int /\ i \in Int /\ 0 <= i /\ i <= l - 2
  <2>1. i # l /\ i # l - 1
    <3>1. l # 0 /\ l - 1 # 0
      BY <1>1
    <3>2. i # 0 => text[i].c # "\n" /\ text[i].c # "\r"
      BY <1>3
    <3> HIDE DEF i
    <3> QED
      BY <1>1, <3>1, <3>2
  <2>2. l \in Nat /\ l >= 2 /\ i \in 0 .. l
    BY <1>1, <1>3
  <2> HIDE DEF i
  <2> QED
    BY <2>1, <2>2
<1>5. Find(body, " ") = i
  <2> HIDE DEF body, i
  <2>1. CASE i = 0
    <3>1. \A k \in 1 .. l - 2 : body[k].c # " "
      <4>1. \A k \in 1 .. l - 2 : k \in 1 .. l
        BY <1>4
      <4> QED
        BY <1>2, <1>3, <2>1, <4>1
    <3> QED
      BY <1>2, <2>1, <3>1, FindNone
  <2>2. CASE i # 0
    <3>1. /\ i \in 1 .. Len(body)
          /\ body[i].c = " "
          /\ \A k \in 1 .. i - 1 : body[k].c # " "
      <4>1. i \in 1 .. l - 2 /\ \A k \in 1 .. i - 1 : k \in 1 .. l - 2
        BY <1>4, <2>2
      <4> QED
        BY <1>2, <1>3, <2>2, <4>1
    <3> QED
      BY <1>2, <3>1, FindIs
  <2> QED
    BY <2>1, <2>2
<1>6. Meant(line, n) =
        IF i = 0 THEN Error("no command")
        ELSE IF i - 1 > constMaxTokenLength THEN Error("token too long")
        ELSE IF Find(command, " ") = 0 THEN Command(command, <<>>)
        ELSE Command(UpTo(command, Find(command, " ") - 1),
                     After(command, Find(command, " ")))
  BY <1>1, <1>5 DEF Meant, text
<1>7. parse_command(text) =
        IF i = 0 THEN Error("no command")
        ELSE IF i - 1 > constMaxTokenLength THEN Error("token too long")
        ELSE IF str = <<>> THEN Error("invalid syntax")
        ELSE IF j = 0 THEN Command(rtrimlast(str), <<>>)
        ELSE Command(UpTo(str, j - 1), chomp(After(str, j)))
  BY DEF parse_command
<1> HIDE DEF i
<1>8. constMaxTokenLength \in Nat
  BY RequestAssumption
<1>9. CASE i = 0
  BY <1>6, <1>7, <1>9 DEF text
<1>10. CASE i # 0 /\ i - 1 > constMaxTokenLength
  BY <1>6, <1>7, <1>10 DEF text
<1>11. ASSUME i # 0, i - 1 <= constMaxTokenLength
       PROVE  parse_command(text) = Meant(line, n)
  <2>1. ~(i - 1 > constMaxTokenLength)
    BY <1>4, <1>8, <1>11
  <2>2. /\ str \in Seq(Octets) /\ Len(str) = l - i
        /\ \A k \in 1 .. l - i : str[k] = text[i + k]
        /\ str # <<>>
    <3>1. str = SubSeq(text, i + 1, Len(text))
      BY DEF After
    <3>2. i \in 0 .. Len(text)
      BY <1>1, <1>3
    <3> HIDE DEF str
    <3>3. /\ str \in Seq(Octets) /\ Len(str) = l - i
          /\ \A k \in 1 .. l - i : str[k] = text[i + k]
      BY <1>1, <3>1, <3>2, SuffixFacts
    <3>4. Len(str) # 0
      BY <1>4, <3>3
    <3> QED
      BY <3>3, <3>4
  <2>3. /\ command \in Seq(Octets) /\ Len(command) = l - 2 - i
        /\ command = SubSeq(str, 1, l - 2 - i)
        /\ \A k \in 1 .. l - 2 - i : command[k] = str[k]
    <3>1. command = SubSeq(body, i + 1, l - 2)
      BY <1>2 DEF After
    <3>2. command = SubSeq(text, i + 1, l - 2)
      <4>1. SubSeq(SubSeq(text, 1, l - 2), i + 1, l - 2) = SubSeq(text, 1 + (i + 1) - 1, 1 + (l - 2) - 1)
        <5>1. /\ l - 2 \in 0 .. Len(text) /\ 1 <= (l - 2) + 1
              /\ i + 1 \in Nat \ {0} /\ l - 2 \in 0 .. (l - 2) - 1 + 1
              /\ i + 1 <= (l - 2) + 1
          BY <1>1, <1>4
        <5> QED
          BY <1>1, <5>1, CutOfCut
      <4>2. 1 + (i + 1) - 1 = i + 1 /\ 1 + (l - 2) - 1 = l - 2
        BY <1>4
      <4> QED
        BY <3>1, <4>1, <4>2
    <3>3. SubSeq(str, 1, l - 2 - i) = SubSeq(text, i + 1, l - 2)
      <4>1. SubSeq(SubSeq(text, i + 1, l), 1, l - 2 - i)
              = SubSeq(text, i + 1, (i + 1) + (l - 2 - i) - 1)
        <5>1. /\ l \in 0 .. Len(text) /\ i + 1 <= l + 1
              /\ i + 1 \in Nat \ {0} /\ l - 2 - i \in 0 .. l - (i + 1) + 1
          BY <1>1, <1>4
        <5> QED
          BY <1>1, <5>1, FrontOfCut
      <4>2. (i + 1) + (l - 2 - i) - 1 = l - 2
        BY <1>4
      <4>3. str = SubSeq(text, i + 1, l)
        BY <1>1 DEF After
      <4> QED
        BY <4>1, <4>2, <4>3
    <3>4. command = SubSeq(str, 1, l - 2 - i)
      BY <3>2, <3>3
    <3>5. l - 2 - i \in 0 .. Len(str)
      BY <1>4, <2>2
    <3> HIDE DEF str, command
    <3> QED
      BY <2>2, <3>4, <3>5, PrefixFacts
  <2> HIDE DEF str, command
  <2>4. Len(str) = l - i
    BY <2>2
  <2>5. /\ j \in 0 .. l - i
        /\ j = 0 => \A k \in 1 .. l - i : str[k].c # " "
        /\ j # 0 => str[j].c = " " /\ \A k \in 1 .. j - 1 : str[k].c # " "
    <3>1. /\ j \in 0 .. Len(str)
          /\ j = 0 => \A k \in 1 .. Len(str) : str[k].c # " "
          /\ j # 0 => str[j].c = " " /\ \A k \in 1 .. j - 1 : str[k].c # " "
      BY <2>2, FindFacts
    <3> HIDE DEF j
    <3> QED
      BY <2>4, <3>1
  <2>6. j \in Int /\ 0 <= j /\ j <= l - i - 2
    <3>1. str[l - i].c = "\n" /\ str[l - i - 1].c = "\r"
      <4>1. /\ l - i \in 1 .. l - i /\ i + (l - i) = l
            /\ l - i - 1 \in 1 .. l - i /\ i + (l - i - 1) = l - 1
            /\ l \in 1 .. l
        BY <1>4
      <4> QED
        BY <1>1, <2>2, <4>1
    <3>2. j # l - i /\ j # l - i - 1
      <4>1. l - i # 0 /\ l - i - 1 # 0
        BY <1>4
      <4> QED
        BY <2>5, <3>1, <4>1
    <3>3. j \in 0 .. l - i
      BY <2>5
    <3> HIDE DEF j
    <3> QED
      BY <1>4, <3>2, <3>3
  <2>7. Find(command, " ") = j
    <3> HIDE DEF j
    <3>1. CASE j = 0
      <4>1. \A k \in 1 .. Len(command) : command[k].c # " "
        <5>1. \A k \in 1 .. l - 2 - i : k \in 1 .. l - i
          BY <1>4
        <5> QED
          BY <2>3, <2>5, <3>1, <5>1
      <4> QED
        BY <2>3, <3>1, <4>1, FindNone
    <3>2. CASE j # 0
      <4>1. /\ j \in 1 .. Len(command)
            /\ command[j].c = " "
            /\ \A k \in 1 .. j - 1 : command[k].c # " "
        <5>1. /\ j \in 1 .. l - 2 - i
              /\ \A k \in 1 .. j - 1 : k \in 1 .. l - 2 - i
          BY <1>4, <2>6, <3>2
        <5> QED
          BY <2>3, <2>5, <3>2, <5>1
      <4> QED
        BY <2>3, <4>1, FindIs
    <3> QED
      BY <3>1, <3>2
  <2> HIDE DEF j
  <2>8. CASE j = 0
    <3>1. rtrimlast(str) = command
      <4>1. Last(str).c = "\n" /\ Len(str) > 1
        <5>1. l - i \in 1 .. l - i /\ i + (l - i) = l /\ l - i > 1 /\ l \in 1 .. l
          BY <1>4
        <5> QED
          BY <1>1, <2>2, <5>1 DEF Last
      <4>2. rtrimlast(str) = SubSeq(str, 1, Len(str) - 2)
        BY <2>2, <4>1 DEF rtrimlast, UpTo
      <4>3. Len(str) - 2 = l - 2 - i
        BY <1>4, <2>4
      <4> QED
        BY <2>3, <4>2, <4>3
    <3> QED
      BY <1>6, <1>7, <1>11, <2>1, <2>2, <2>7, <2>8, <3>1 DEF text
  <2>9. CASE j # 0
    <3>1. UpTo(str, j - 1) = UpTo(command, j - 1)
      <4>1. SubSeq(SubSeq(str, 1, l - 2 - i), 1, j - 1) = SubSeq(str, 1, 1 + (j - 1) - 1)
        <5>1. /\ l - 2 - i \in 0 .. Len(str) /\ 1 <= (l - 2 - i) + 1
              /\ j - 1 \in 0 .. (l - 2 - i) - 1 + 1 /\ 1 \in Nat \ {0}
          BY <1>4, <2>6, <2>9, <2>4
        <5> QED
          BY <2>2, <5>1, FrontOfCut
      <4>2. 1 + (j - 1) - 1 = j - 1
        BY <2>6
      <4> QED
        BY <2>3, <4>1, <4>2 DEF UpTo
    <3>2. chomp(After(str, j)) = After(command, j)
      <4> DEFINE tail == After(str, j)
      <4>1. /\ tail = SubSeq(str, j + 1, l - i)
            /\ tail \in Seq(Octets) /\ Len(tail) = l - i - j
            /\ \A k \in 1 .. l - i - j : tail[k] = str[j + k]
        <5>1. tail = SubSeq(str, j + 1, l - i)
          BY <2>4 DEF After
        <5>2. j \in 0 .. Len(str)
          BY <1>4, <2>6, <2>4
        <5> HIDE DEF tail
        <5>3. /\ tail \in Seq(Octets) /\ Len(tail) = Len(str) - j
              /\ \A k \in 1 .. Len(str) - j : tail[k] = str[j + k]
          <6>1. tail = SubSeq(str, j + 1, Len(str))
            BY <2>4, <5>1
          <6> QED
            BY <2>2, <5>2, <6>1, SuffixFacts
        <5> QED
          BY <2>4, <5>1, <5>3
      <4> HIDE DEF tail
      <4>2. Find(tail, "\n") = l - i - j
        <5>1. \A k \in 1 .. l - i - j : tail[k].c = "\n" <=> k = l - i - j
          <6>1. ASSUME NEW k \in 1 .. l - i - j
                PROVE  tail[k].c = "\n" <=> k = l - i - j
            <7>1. /\ j + k \in 1 .. l - i /\ i + (j + k) \in 1 .. l
                  /\ i + (j + k) = l <=> k = l - i - j
              BY <1>4, <2>6
            <7>2. tail[k] = text[i + (j + k)]
              BY <2>2, <4>1, <7>1
            <7> QED
              BY <1>1, <7>1, <7>2
          <6> QED
            BY <6>1
        <5>2. l - i - j \in 1 .. Len(tail) /\ l - i - j \in Nat
          BY <1>4, <2>6, <4>1
        <5>3. tail[l - i - j].c = "\n" /\ \A k \in 1 .. (l - i - j) - 1 : tail[k].c # "\n"
          BY <4>1, <5>1, <5>2
        <5> QED
          BY <4>1, <5>2, <5>3, FindIs
      <4>3. chomp(tail) = SubSeq(tail, 1, l - i - j - 2)
        <5>1. ~(l - i - j <= 1)
          BY <1>4, <2>6
        <5> QED
          BY <4>2, <5>1 DEF chomp, UpTo
      <4>4. SubSeq(SubSeq(str, j + 1, l - i), 1, l - i - j - 2)
              = SubSeq(str, j + 1, (j + 1) + (l - i - j - 2) - 1)
        <5>1. /\ l - i \in 0 .. Len(str) /\ j + 1 <= (l - i) + 1 /\ j + 1 \in Nat \ {0}
              /\ l - i - j - 2 \in 0 .. (l - i) - (j + 1) + 1
          BY <1>4, <2>6, <2>4
        <5> QED
          BY <2>2, <5>1, FrontOfCut
      <4>5. SubSeq(SubSeq(str, 1, l - 2 - i), j + 1, l - 2 - i) = SubSeq(str, j + 1, l - 2 - i)
        <5> DEFINE b == l - 2 - i
                   x == j + 1
        <5>1. b \in 0 .. Len(str) /\ x \in Nat \ {0} /\ x <= b + 1
          BY <1>4, <2>6, <2>4
        <5> HIDE DEF b, x
        <5>2. SubSeq(SubSeq(str, 1, b), x, b) = SubSeq(str, x, b)
          BY <2>2, <5>1, EndOfCut
        <5> QED
          BY <5>2 DEF b, x
      <4>6. (j + 1) + (l - i - j - 2) - 1 = l - 2 - i
        BY <1>4, <2>6
      <4>7. After(command, j) = SubSeq(command, j + 1, l - 2 - i)
        BY <2>3 DEF After
      <4> QED
        BY <2>3, <4>1, <4>3, <4>4, <4>5, <4>6, <4>7 DEF tail
    <3> QED
      BY <1>6, <1>7, <1>11, <2>1, <2>2, <2>7, <2>9, <3>1, <3>2 DEF text
  <2> QED
    BY <2>8, <2>9
<1>12. i - 1 <= constMaxTokenLength \/ i - 1 > constMaxTokenLength
  BY <1>4, <1>8
<1> QED
  BY <1>9, <1>10, <1>11, <1>12 DEF text

-----------------------------------------------------------------------------
(* Requests: packets and the buffer. *)

\* The buffer when recv() has put n bytes into it.
Filled(n) == [i \in Positions |-> IF i <= n THEN rest[i] ELSE rdbuf[i]]

\* While a client waits for the answer to a request before it sends another,
\* the bytes under way, those collected, and what is left in the buffer, are
\* of the last request.
Own ==
  "pipelined" \notin disturbed =>
    /\ rest # <<>> => Len(rest) < BufferLength
    /\ \A j \in 1 .. Len(rest) : rest[j] # Nul /\ rest[j].of = Len(sent)
    /\ place = "recv" =>
         /\ ostr \in Seq(Octets)
         /\ \A j \in 1 .. Len(ostr) : ostr[j].of = Len(sent)
         /\ rdbuf[BufferLength] = Nul
         /\ \A i \in Positions : rdbuf[i] = Nul \/ rdbuf[i].of = Len(sent)

\* As long as nothing happens to a request, what has been collected of it and
\* what has not are the request.
Whole ==
  disturbed = {} =>
    /\ place = "idle" => rest = <<>> \/ rest = Bytes(sent[Len(sent)], Len(sent))
    /\ place = "recv" => ostr \o rest = Bytes(sent[Len(sent)], Len(sent))

RequestTyped ==
  /\ sent \in Seq(Lines)
  /\ rest \in Seq(Octets)
  /\ rdbuf \in [Positions -> Octets]
  /\ IsSeq(performed)
  /\ rest # <<>> \/ place = "recv" => sent # <<>>
  /\ \A i \in DOMAIN performed : performed[i].request \in DOMAIN sent

RequestInv == RequestTyped /\ Own /\ Whole /\ TextsAreOwn /\ PerformedAsSent

LEMMA NulIsOctet == Nul \in Octets
BY DEF Octets

LEMMA RequestInvInit == RequestInit => RequestInv
<1> SUFFICES ASSUME RequestInit
             PROVE  RequestInv
  OBVIOUS
<1>1. performed = <<>> /\ IsSeq(performed)
  <2>1. <<>> \in Seq({})
    OBVIOUS
  <2> QED
    BY <2>1 DEF RequestInit, IsSeq
<1>2. rdbuf \in [Positions -> Octets]
  BY NulIsOctet DEF RequestInit
<1>3. /\ RequestTyped
      /\ TextsAreOwn
      /\ PerformedAsSent
  BY <1>1, <1>2 DEF RequestInit, RequestTyped, TextsAreOwn, PerformedAsSent
<1>4. Own /\ Whole
  BY DEF RequestInit, Own, Whole
<1> QED
  BY <1>3, <1>4 DEF RequestInv

\* What is performed stays what it was sent as when more requests are sent.
LEMMA PerformedStays ==
  ASSUME RequestTyped, TextsAreOwn, PerformedAsSent, performed' = performed,
         \A i \in DOMAIN sent : i \in DOMAIN sent' /\ sent'[i] = sent[i]
  PROVE  /\ \A i \in DOMAIN performed' : performed'[i].request \in DOMAIN sent'
         /\ TextsAreOwn' /\ PerformedAsSent'
BY DEF RequestTyped, TextsAreOwn, PerformedAsSent

LEMMA SendStep ==
  ASSUME RequestInv, Send
  PROVE  RequestInv'
<1> USE DEF RequestInv
<1>1. PICK line \in Lines :
        /\ sent' = Append(sent, line)
        /\ rest' = rest \o Bytes(line, Len(sent) + 1)
        /\ disturbed' = IF rest = <<>> /\ place = "idle" THEN {} ELSE disturbed \cup {"pipelined"}
        /\ UNCHANGED <<rdbuf, ostr, place, performed>>
  BY DEF Send
<1> DEFINE n == Len(sent) + 1
           more == Bytes(line, n)
<1>2. /\ sent \in Seq(Lines) /\ sent' \in Seq(Lines) /\ n \in Nat \ {0}
      /\ Len(sent') = n /\ sent'[n] = line /\ sent' # <<>>
      /\ \A i \in DOMAIN sent : i \in DOMAIN sent' /\ sent'[i] = sent[i]
  BY <1>1 DEF RequestTyped
<1> HIDE DEF n
<1>3. /\ more \in Seq(Octets) /\ Len(more) = Len(line)
      /\ \A i \in 1 .. Len(line) : more[i].of = n
  BY <1>2, BytesFacts
<1>4. Len(line) < BufferLength /\ Len(line) \in Nat
  BY <1>3, RequestAssumption
<1> HIDE DEF more
<1>5. rest' = rest \o more
  BY <1>1 DEF more, n
<1>6. RequestTyped' /\ TextsAreOwn' /\ PerformedAsSent'
  <2>1. rest' \in Seq(Octets)
    BY <1>3, <1>5 DEF RequestTyped
  <2> QED
    BY <1>1, <1>2, <2>1, PerformedStays DEF RequestTyped
<1>7. CASE rest = <<>> /\ place = "idle"
  <2>1. rest' = more /\ place' = "idle"
    BY <1>1, <1>3, <1>5, <1>7
  <2>2. \A j \in 1 .. Len(more) : more[j] # Nul
    <3>1. Nul.of = 0
      BY DEF Nul
    <3> QED
      BY <1>2, <1>3, <3>1
  <2>3. Own'
    BY <1>2, <1>3, <1>4, <2>1, <2>2 DEF Own
  <2>4. Whole'
    BY <1>2, <2>1 DEF Whole, more
  <2> QED
    BY <1>6, <2>3, <2>4
<1>8. CASE ~(rest = <<>> /\ place = "idle")
  <2>1. "pipelined" \in disturbed'
    BY <1>1, <1>8
  <2> QED
    BY <1>6, <2>1 DEF Own, Whole
<1> QED
  BY <1>7, <1>8

LEMMA BeginStep ==
  ASSUME RequestInv, Begin
  PROVE  RequestInv'
<1> USE DEF RequestInv
<1>1. /\ place = "idle" /\ rest # <<>>
      /\ place' = "recv" /\ ostr' = <<>>
      /\ rdbuf' = [i \in Positions |-> Nul]
      /\ UNCHANGED <<sent, rest, disturbed, performed>>
  BY DEF Begin
<1>2. RequestTyped' /\ TextsAreOwn' /\ PerformedAsSent'
  BY <1>1, PerformedStays, NulIsOctet DEF RequestTyped
<1>3. rest \in Seq(Octets) /\ Len(rest) \in Nat \ {0}
  BY <1>1 DEF RequestTyped
<1>4. Own'
  <2> SUFFICES ASSUME "pipelined" \notin disturbed
               PROVE  Own'
    BY <1>1 DEF Own
  <2>1. Len(rest) < BufferLength
    BY <1>1 DEF Own
  <2>2. BufferLength \in Positions
    BY <1>3, <2>1, RequestAssumption DEF Positions
  <2>3. rdbuf'[BufferLength] = Nul /\ \A i \in Positions : rdbuf'[i] = Nul
    BY <1>1, <2>2
  <2>4. ostr' \in Seq(Octets) /\ Len(ostr') = 0
    BY <1>1
  <2> QED
    BY <1>1, <2>3, <2>4 DEF Own
<1>5. Whole'
  <2>1. <<>> \o rest = rest
    BY <1>3
  <2> QED
    BY <1>1, <2>1 DEF Whole
<1> QED
  BY <1>2, <1>4, <1>5

LEMMA TimeoutStep ==
  ASSUME RequestInv, Timeout
  PROVE  RequestInv'
<1> USE DEF RequestInv
<1>1. /\ place = "recv" /\ place' = "idle" /\ ostr' = <<>>
      /\ disturbed' = IF ostr = <<>> THEN disturbed ELSE disturbed \cup {"timeout"}
      /\ UNCHANGED <<sent, rest, rdbuf, performed>>
  BY DEF Timeout
<1>2. RequestTyped' /\ TextsAreOwn' /\ PerformedAsSent'
  BY <1>1, PerformedStays DEF RequestTyped
<1>3. "pipelined" \in disturbed => "pipelined" \in disturbed'
  BY <1>1
<1>4. Own'
  BY <1>1, <1>3 DEF Own
<1>5. Whole'
  <2>1. disturbed' = {} => disturbed = {} /\ ostr = <<>>
    BY <1>1
  <2>2. <<>> \o rest = rest
    BY DEF RequestTyped
  <2> QED
    BY <1>1, <2>1, <2>2 DEF Whole
<1> QED
  BY <1>2, <1>4, <1>5

\* What a packet of n bytes, shorter than the buffer, adds to the text.
LEMMA PacketFacts ==
  ASSUME RequestTyped, NEW n \in 1 .. Len(rest), Len(rest) < BufferLength,
         rdbuf[BufferLength] = Nul, NEW o,
         \A j \in 1 .. Len(rest) : rest[j] # Nul /\ rest[j].of = o,
         \A i \in Positions : rdbuf[i] = Nul \/ rdbuf[i].of = o
  PROVE  /\ Filled(n) \in [Positions -> Octets]
         /\ BufferLength \in Positions /\ Filled(n)[BufferLength] = Nul
         /\ \A i \in Positions : Filled(n)[i] = Nul \/ Filled(n)[i].of = o
         /\ CString(Filled(n)) \in Seq(Octets)
         /\ n <= Len(CString(Filled(n)))
         /\ \A k \in 1 .. n : CString(Filled(n))[k] = rest[k]
         /\ \A k \in 1 .. Len(CString(Filled(n))) : CString(Filled(n))[k].of = o
<1> DEFINE buf == Filled(n)
<1>1. /\ rest \in Seq(Octets) /\ Len(rest) \in Nat /\ n \in Nat
      /\ BufferLength \in Nat
      /\ BufferLength \in Positions /\ ~(BufferLength <= n)
      /\ \A k \in 1 .. n : k \in Positions /\ k \in 1 .. Len(rest)
      /\ \A i \in Positions : i <= n => i \in 1 .. n
  BY RequestAssumption DEF RequestTyped, Positions
<1>2. /\ \A i \in Positions : i <= n => buf[i] = rest[i]
      /\ \A i \in Positions : ~(i <= n) => buf[i] = rdbuf[i]
      /\ \A i \in Positions : buf[i] = IF i <= n THEN rest[i] ELSE rdbuf[i]
      /\ buf = [i \in Positions |-> buf[i]]
  BY DEF Filled
<1>3. \A k \in 1 .. Len(rest) : rest[k] \in Octets
  BY <1>1
<1>4. \A i \in Positions : rdbuf[i] \in Octets
  BY DEF RequestTyped
<1> HIDE DEF buf
<1>5. \A i \in Positions : buf[i] \in Octets
  BY <1>1, <1>2, <1>3, <1>4
<1>6. buf \in [Positions -> Octets]
  BY <1>2, <1>5
<1>7. buf[BufferLength] = Nul
  BY <1>1, <1>2
<1>8. \A i \in Positions : buf[i] = Nul \/ buf[i].of = o
  BY <1>1, <1>2
<1>9. PICK m \in 0 .. BufferLength - 1 :
        /\ CString(buf) = [i \in 1 .. m |-> buf[i]]
        /\ m + 1 \in Positions /\ buf[m + 1] = Nul
        /\ \A i \in 1 .. m : i \in Positions /\ buf[i] # Nul
  BY <1>1, <1>6, <1>7, CStringFacts
<1>10. n <= m
  <2>1. \A i \in Positions : i <= n => buf[i] # Nul
    BY <1>1, <1>2
  <2>2. ~(m + 1 <= n)
    BY <1>9, <2>1
  <2>3. m \in Int /\ n \in Int
    BY <1>1
  <2> QED
    BY <2>2, <2>3
<1>11. CString(buf) \in Seq(Octets) /\ Len(CString(buf)) = m
  <2>1. \A i \in 1 .. m : buf[i] \in Octets
    BY <1>5, <1>9
  <2>2. m \in Nat
    BY <1>1
  <2> QED
    BY <1>9, <2>1, <2>2
<1>12. \A k \in 1 .. n : CString(buf)[k] = rest[k]
  <2>1. \A k \in 1 .. n : k \in 1 .. m /\ k \in Positions /\ k <= n
    BY <1>1, <1>10
  <2> QED
    BY <1>2, <1>9, <2>1
<1>13. \A k \in 1 .. m : CString(buf)[k].of = o
  BY <1>8, <1>9
<1> QED
  BY <1>1, <1>6, <1>7, <1>8, <1>10, <1>11, <1>12, <1>13 DEF buf

\* A text with a line feed that is the front of a line is the line.
LEMMA FullIsWhole ==
  ASSUME NEW line \in Lines, NEW n \in Nat, NEW text \in Seq(Octets),
         NEW tail \in Seq(Octets), text \o tail = Bytes(line, n), Find(text, "\n") # 0
  PROVE  text = Bytes(line, n) /\ tail = <<>>
<1> DEFINE f == Find(text, "\n")
           w == Bytes(line, n)
<1>1. f \in 1 .. Len(text) /\ text[f].c = "\n"
  BY FindFacts
<1>2. /\ Len(w) = Len(line) /\ \A i \in 1 .. Len(line) : w[i].c = line[i]
      /\ w = text \o tail
  BY BytesFacts
<1> HIDE DEF f, w
<1>3. /\ Len(text) \in Nat /\ Len(tail) \in Nat
      /\ Len(line) = Len(text) + Len(tail)
      /\ \A i \in 1 .. Len(text) : w[i] = text[i]
  BY <1>2
<1>4. f \in 1 .. Len(line) /\ line[f] = "\n"
  BY <1>1, <1>2, <1>3
<1>5. f = Len(line)
  <2>1. DOMAIN line = 1 .. Len(line)
    BY RequestAssumption
  <2> QED
    BY <1>4, <2>1, RequestAssumption
<1>6. Len(tail) = 0
  BY <1>1, <1>3, <1>5
<1>7. tail = <<>>
  BY <1>6
<1> QED
  BY <1>2, <1>7 DEF w

LEMMA RecvStep ==
  ASSUME RequestInv, Recv
  PROVE  RequestInv'
<1> USE DEF RequestInv
<1> DEFINE Text(n) == ostr \o CString(Filled(n))
           full(n) == Find(Text(n), "\n") # 0
<1>1. PICK n \in 1 .. Len(rest) :
        /\ rest' = After(rest, n)
        /\ rdbuf' = [i \in Positions |-> IF i <= Cleared THEN Nul ELSE Filled(n)[i]]
        /\ disturbed' = disturbed
             \cup (IF Len(CString(Filled(n))) > n THEN {"shorter"} ELSE {})
             \cup (IF ~full(n) /\ Len(Text(n)) > constCommandBufferLength THEN {"long"} ELSE {})
        /\ CASE Find(Text(n), "^C") # 0 ->
                  place' = "over" /\ ostr' = <<>> /\ UNCHANGED performed
             [] Find(Text(n), "^C") = 0 /\ ~full(n)
                  /\ Len(Text(n)) <= constCommandBufferLength ->
                  ostr' = Text(n) /\ UNCHANGED <<place, performed>>
             [] OTHER -> perform(Text(n))
  BY DEF Recv, Filled
<1> DEFINE buf == Filled(n)
           got == CString(buf)
           text == ostr \o got
           o == Len(sent)
           entry == [text |-> text, does |-> parse_command(text), request |-> o,
                     disturbed |-> disturbed']
<1>2. place = "recv" /\ sent' = sent
  BY DEF Recv
<1>3. \/ /\ place' = "over" /\ ostr' = <<>> /\ performed' = performed
      \/ /\ place' = "recv" /\ ostr' = text /\ performed' = performed
      \/ /\ place' = "idle" /\ ostr' = <<>> /\ performed' = Append(performed, entry)
         /\ ~full(n) => Len(text) > constCommandBufferLength \/ ~(Len(text) <= constCommandBufferLength)
  BY <1>1, <1>2 DEF perform
<1>4. disturbed' = disturbed
         \cup (IF Len(got) > n THEN {"shorter"} ELSE {})
         \cup (IF ~full(n) /\ Len(text) > constCommandBufferLength THEN {"long"} ELSE {})
  BY <1>1
<1>5. /\ rest \in Seq(Octets) /\ Len(rest) \in Nat /\ rest # <<>>
      /\ rest' \in Seq(Octets) /\ Len(rest') = Len(rest) - n
      /\ \A k \in 1 .. Len(rest) - n : rest'[k] = rest[n + k]
  <2>1. rest \in Seq(Octets) /\ n \in 0 .. Len(rest) /\ rest # <<>>
    BY DEF RequestTyped
  <2>2. rest' = SubSeq(rest, n + 1, Len(rest))
    BY <1>1 DEF After
  <2> QED
    BY <2>1, <2>2, SuffixFacts
<1> HIDE DEF entry, text, got, buf, full
<1>6. buf \in [Positions -> Octets] /\ rdbuf' \in [Positions -> Octets]
  <2>1. \A i \in Positions : i <= n => i \in 1 .. Len(rest)
    BY <1>5 DEF Positions
  <2>2. \A i \in Positions : i <= n => rest[i] \in Octets
    BY <1>5, <2>1
  <2>3. buf \in [Positions -> Octets]
    BY <2>2 DEF buf, Filled, RequestTyped
  <2> QED
    BY <1>1, <2>3, NulIsOctet DEF buf
<1>7. sent \in Seq(Lines) /\ o \in Nat \ {0} /\ o \in DOMAIN sent
  BY <1>5 DEF RequestTyped
<1>8. /\ Len(performed) \in Nat /\ DOMAIN performed = 1 .. Len(performed)
      /\ IsSeq(performed')
      /\ \/ performed' = performed
         \/ /\ DOMAIN performed' = 1 .. Len(performed) + 1
            /\ \A i \in 1 .. Len(performed) : performed'[i] = performed[i]
            /\ performed'[Len(performed) + 1] = entry
            /\ place' = "idle"
            /\ full(n) \/ Len(text) > constCommandBufferLength
               \/ ~(Len(text) <= constCommandBufferLength)
  <2>1. IsSeq(performed)
    BY DEF RequestTyped
  <2>2. /\ IsSeq(Append(performed, entry)) /\ Len(performed) \in Nat
        /\ DOMAIN Append(performed, entry) = 1 .. Len(performed) + 1
        /\ DOMAIN performed = 1 .. Len(performed)
        /\ \A i \in 1 .. Len(performed) : Append(performed, entry)[i] = performed[i]
        /\ Append(performed, entry)[Len(performed) + 1] = entry
    BY <2>1, AppendIsSeq
  <2> DEFINE more == Append(performed, entry)
             changed == /\ DOMAIN performed' = 1 .. Len(performed) + 1
                        /\ \A i \in 1 .. Len(performed) : performed'[i] = performed[i]
                        /\ performed'[Len(performed) + 1] = entry
  <2> HIDE DEF more
  <2>3. performed' = more => IsSeq(performed') /\ changed
    BY <2>2 DEF more
  <2>4. \/ performed' = performed
        \/ /\ performed' = more /\ place' = "idle"
           /\ full(n) \/ Len(text) > constCommandBufferLength
              \/ ~(Len(text) <= constCommandBufferLength)
    BY <1>3 DEF more
  <2> HIDE DEF RequestInv
  <2> QED
    BY <2>1, <2>2, <2>3, <2>4
<1>9. /\ entry.text = text /\ entry.does = parse_command(text) /\ entry.request = o
      /\ entry.disturbed = disturbed'
  BY DEF entry
<1>10. RequestTyped'
  <2>1. ASSUME NEW i \in DOMAIN performed'
        PROVE  performed'[i].request \in DOMAIN sent
    <3>1. \A k \in 1 .. Len(performed) : performed[k].request \in DOMAIN sent
      BY <1>8 DEF RequestTyped
    <3>2. \A k \in 1 .. Len(performed) + 1 : k \in 1 .. Len(performed) \/ k = Len(performed) + 1
      BY <1>8
    <3> HIDE DEF RequestInv
    <3> QED
      BY <1>7, <1>8, <1>9, <3>1, <3>2
  <2>2. sent # <<>>
    BY <1>5 DEF RequestTyped
  <2> QED
    BY <1>2, <1>5, <1>6, <1>7, <1>8, <2>1, <2>2 DEF RequestTyped
<1>11. disturbed \subseteq disturbed'
  BY <1>4
\* What the packet adds is of the last request.
<1>12. ASSUME "pipelined" \notin disturbed'
       PROVE  /\ Len(rest) < BufferLength
              /\ ostr \in Seq(Octets)
              /\ \A j \in 1 .. Len(ostr) : ostr[j].of = o
              /\ \A j \in 1 .. Len(rest) : rest[j] # Nul /\ rest[j].of = o
              /\ buf[BufferLength] = Nul
              /\ BufferLength \in Positions
              /\ \A i \in Positions : buf[i] = Nul \/ buf[i].of = o
              /\ got \in Seq(Octets) /\ n <= Len(got) /\ Len(got) \in Nat
              /\ \A k \in 1 .. n : got[k] = rest[k]
              /\ \A k \in 1 .. Len(got) : got[k].of = o
  <2>1. "pipelined" \notin disturbed
    BY <1>11, <1>12
  <2>2. /\ Len(rest) < BufferLength
        /\ \A j \in 1 .. Len(rest) : rest[j] # Nul /\ rest[j].of = o
        /\ ostr \in Seq(Octets)
        /\ \A j \in 1 .. Len(ostr) : ostr[j].of = o
        /\ rdbuf[BufferLength] = Nul
        /\ \A i \in Positions : rdbuf[i] = Nul \/ rdbuf[i].of = o
    BY <1>2, <1>5, <2>1 DEF Own
  <2>3. RequestTyped
    OBVIOUS
  <2> HIDE DEF RequestInv
  <2>4. /\ buf[BufferLength] = Nul
        /\ BufferLength \in Positions
        /\ \A i \in Positions : buf[i] = Nul \/ buf[i].of = o
        /\ got \in Seq(Octets) /\ n <= Len(got)
        /\ \A k \in 1 .. n : got[k] = rest[k]
        /\ \A k \in 1 .. Len(got) : got[k].of = o
    BY <2>2, <2>3, PacketFacts DEF buf, got
  <2> QED
    BY <2>2, <2>4
<1>13. ASSUME "pipelined" \notin disturbed'
       PROVE  /\ text \in Seq(Octets)
              /\ \A j \in 1 .. Len(text) : text[j].of = o
  <2>1. /\ text \in Seq(Octets)
        /\ Len(text) = Len(ostr) + Len(got)
        /\ \A k \in 1 .. Len(ostr) : text[k] = ostr[k]
        /\ \A k \in 1 .. Len(got) : text[Len(ostr) + k] = got[k]
    BY <1>12, <1>13, ConcatFacts DEF text
  <2>2. Len(ostr) \in Nat /\ Len(got) \in Nat
    BY <1>12, <1>13
  <2>3. ASSUME NEW j \in 1 .. Len(text)
        PROVE  text[j].of = o
    <3>1. CASE j <= Len(ostr)
      <4>1. j \in 1 .. Len(ostr)
        BY <2>1, <2>2, <3>1
      <4> QED
        BY <1>12, <1>13, <2>1, <4>1
    <3>2. CASE ~(j <= Len(ostr))
      <4>1. j - Len(ostr) \in 1 .. Len(got) /\ j = Len(ostr) + (j - Len(ostr))
        BY <2>1, <2>2, <3>2
      <4>2. text[Len(ostr) + (j - Len(ostr))] = got[j - Len(ostr)]
        BY <2>1, <4>1
      <4> QED
        BY <1>12, <1>13, <4>1, <4>2
    <3> QED
      BY <3>1, <3>2
  <2> QED
    BY <2>1, <2>3
<1>14. Own'
  <2> SUFFICES ASSUME "pipelined" \notin disturbed'
               PROVE  Own'
    BY DEF Own
  <2>1. rest' # <<>> => Len(rest') < BufferLength
    <3>1. Len(rest') < BufferLength
      <4>1. Len(rest) < BufferLength /\ BufferLength \in Nat
        BY <1>12, RequestAssumption
      <4> QED
        BY <1>5, <4>1
    <3> QED
      BY <3>1
  <2>2. \A j \in 1 .. Len(rest') : rest'[j] # Nul /\ rest'[j].of = o
    <3>1. \A j \in 1 .. Len(rest) - n : n + j \in 1 .. Len(rest)
      BY <1>5
    <3>2. \A j \in 1 .. Len(rest) : rest[j] # Nul /\ rest[j].of = o
      BY <1>12
    <3> HIDE DEF RequestInv, o
    <3> QED
      BY <1>5, <3>1, <3>2
  <2>3. rdbuf'[BufferLength] = Nul
    BY <1>1, <1>12 DEF buf
  <2>4. \A i \in Positions : rdbuf'[i] = Nul \/ rdbuf'[i].of = o
    BY <1>1, <1>12 DEF buf
  <2>5. place' = "recv" => ostr' = text
    BY <1>3
  <2> QED
    BY <1>2, <1>13, <2>1, <2>2, <2>3, <2>4, <2>5 DEF Own
<1>15. TextsAreOwn'
  <2>1. ASSUME NEW i \in DOMAIN performed', "pipelined" \notin performed'[i].disturbed
        PROVE  \A j \in DOMAIN performed'[i].text :
                 performed'[i].text[j].of = performed'[i].request
    <3>1. CASE i \in 1 .. Len(performed) /\ performed'[i] = performed[i]
      BY <1>8, <2>1, <3>1 DEF TextsAreOwn
    <3>2. CASE performed'[i] = entry
      <4>1. "pipelined" \notin disturbed'
        BY <1>9, <2>1, <3>2
      <4>2. text \in Seq(Octets) /\ DOMAIN text = 1 .. Len(text)
        BY <1>13, <4>1
      <4> QED
        BY <1>9, <1>13, <3>2, <4>1, <4>2
    <3>3. i \in 1 .. Len(performed) + 1 => i \in 1 .. Len(performed) \/ i = Len(performed) + 1
      BY <1>8
    <3> QED
      BY <1>8, <3>1, <3>2, <3>3
  <2> QED
    BY <2>1 DEF TextsAreOwn
\* Undisturbed, the packet moves bytes of the request and no others.
<1>16. ASSUME disturbed' = {}
       PROVE  /\ text \o rest' = Bytes(sent[o], o)
              /\ text \in Seq(Octets)
              /\ full(n) \/ Len(text) <= constCommandBufferLength
  <2>1. disturbed = {} /\ "pipelined" \notin disturbed' /\ ~(Len(got) > n)
        /\ (full(n) \/ ~(Len(text) > constCommandBufferLength))
    BY <1>4, <1>16
  <2>2. text \in Seq(Octets) /\ Len(text) \in Nat
    BY <1>13, <2>1
  <2>3. Len(got) = n
    BY <1>12, <2>1
  <2>4. text \o rest' = ostr \o rest
    <3>1. ostr \in Seq(Octets) /\ got \in Seq(Octets) /\ Len(got) <= Len(rest)
          /\ \A k \in 1 .. Len(got) : got[k] = rest[k]
      BY <1>5, <1>12, <2>1, <2>3
    <3>2. rest' = SubSeq(rest, Len(got) + 1, Len(rest))
      BY <1>1, <2>3 DEF After
    <3> QED
      BY <1>5, <3>1, <3>2, SplitFacts DEF text
  <2>5. ostr \o rest = Bytes(sent[o], o)
    BY <1>2, <2>1 DEF Whole
  <2>6. full(n) \/ Len(text) <= constCommandBufferLength
    <3>1. constCommandBufferLength \in Nat
      BY RequestAssumption
    <3> QED
      BY <2>1, <2>2, <3>1
  <2> QED
    BY <2>2, <2>4, <2>5, <2>6
\* Undisturbed, what is performed is the request.
<1>17. ASSUME disturbed' = {}, performed' # performed
       PROVE  text = Bytes(sent[o], o) /\ rest' = <<>> /\ place' = "idle"
  <2>1. full(n)
    <3>1. Len(text) <= constCommandBufferLength
          => ~(Len(text) > constCommandBufferLength)
      <4>1. Len(text) \in Nat /\ constCommandBufferLength \in Nat
        BY <1>16, <1>17, RequestAssumption
      <4> QED
        BY <4>1
    <3> QED
      BY <1>8, <1>16, <1>17, <3>1
  <2>2. Find(text, "\n") # 0
    BY <2>1 DEF full, text, got, buf
  <2>3. sent[o] \in Lines /\ o \in Nat
    BY <1>7
  <2>4. text = Bytes(sent[o], o) /\ rest' = <<>>
    BY <1>5, <1>16, <1>17, <2>2, <2>3, FullIsWhole
  <2> QED
    BY <1>8, <1>17, <2>4
<1>18. Whole'
  <2> SUFFICES ASSUME disturbed' = {}
               PROVE  Whole'
    BY DEF Whole
  <2>1. place' = "recv" => ostr' \o rest' = Bytes(sent[o], o)
    BY <1>3, <1>16
  <2>2. place' = "idle" => performed' # performed
    <3>1. place' = "idle" => performed' = Append(performed, entry)
      BY <1>3
    <3>2. Append(performed, entry) # performed
      <4>1. Len(Append(performed, entry)) = Len(performed) + 1
        BY AppendIsSeq DEF RequestTyped
      <4>2. Len(performed) + 1 # Len(performed)
        <5>1. Len(performed) \in Nat
          BY <1>8
        <5> HIDE DEF RequestInv
        <5> QED
          BY <5>1
      <4> QED
        BY <4>1, <4>2, Zenon
    <3> QED
      BY <3>1, <3>2
  <2> QED
    BY <1>2, <1>17, <2>1, <2>2 DEF Whole
<1>19. PerformedAsSent'
  <2>1. ASSUME NEW i \in DOMAIN performed', performed'[i].disturbed = {}
        PROVE  performed'[i].does = Meant(sent[performed'[i].request], performed'[i].request)
    <3>1. CASE i \in 1 .. Len(performed) /\ performed'[i] = performed[i]
      BY <1>8, <2>1, <3>1 DEF PerformedAsSent
    <3>2. CASE performed'[i] = entry /\ performed' # performed
      <4>1. disturbed' = {}
        BY <1>9, <2>1, <3>2
      <4>2. text = Bytes(sent[o], o)
        BY <1>17, <3>2, <4>1
      <4>3. sent[o] \in Lines /\ o \in Nat \ {0}
        BY <1>7
      <4>4. parse_command(text) = Meant(sent[o], o)
        BY <4>2, <4>3, LinesAreParsed
      <4> QED
        BY <1>9, <3>2, <4>4
    <3>3. i \in 1 .. Len(performed) + 1 => i \in 1 .. Len(performed) \/ i = Len(performed) + 1
      BY <1>8
    <3> QED
      BY <1>8, <3>1, <3>2, <3>3
  <2> QED
    BY <1>2, <2>1 DEF PerformedAsSent
<1> QED
  BY <1>10, <1>14, <1>15, <1>18, <1>19

LEMMA RequestInvNext == RequestInv /\ [RequestNext]_requestVars => RequestInv'
<1> SUFFICES ASSUME RequestInv, [RequestNext]_requestVars
             PROVE  RequestInv'
  OBVIOUS
<1>1. CASE Send
  BY <1>1, SendStep
<1>2. CASE Begin
  BY <1>2, BeginStep
<1>3. CASE Recv
  BY <1>3, RecvStep
<1>4. CASE Timeout
  BY <1>4, TimeoutStep
<1>5. CASE UNCHANGED requestVars
  BY <1>5 DEF requestVars, RequestInv, RequestTyped, Own, Whole, TextsAreOwn, PerformedAsSent,
              IsSeq
<1> QED
  BY <1>1, <1>2, <1>3, <1>4, <1>5 DEF RequestNext

\* However requests are cut into packets, dropped by a timeout or run into a
\* full text, the bytes process() gives to perform() are of one request, or
\* of requests that came together: the buffer is cleared as far as it must.
THEOREM TextsStayOwn == RequestSpec => []TextsAreOwn
<1>1. RequestInv => TextsAreOwn
  BY DEF RequestInv
<1> QED
  BY <1>1, RequestInvInit, RequestInvNext, PTL DEF RequestSpec

\* A request nothing happened to is performed as it was sent, however recv()
\* returned it in pieces: what process() collects and what it has not read
\* are the request until the line feed, and parse_command() takes its command
\* and parameters apart as they are meant.
THEOREM CommandsArePerformedAsSent == RequestSpec => []PerformedAsSent
<1>1. RequestInv => PerformedAsSent
  BY DEF RequestInv
<1> QED
  BY <1>1, RequestInvInit, RequestInvNext, PTL DEF RequestSpec

-----------------------------------------------------------------------------
(* Vectors. *)

In(v, nums) == \E i \in 1 .. Len(nums) : nums[i] = v

Rises(nums) == \A i, j \in 1 .. Len(nums) : i < j => nums[i] < nums[j]

\* The numbers at some places of a vector ascend.
Steep(q, places) ==
  \A i, j \in 1 .. Len(q) : i < j /\ i \in places /\ j \in places => q[i] < q[j]

\* The values at the places, in their order.
LEMMA ChosenFacts ==
  ASSUME NEW S, NEW q \in Seq(S), NEW places
  PROVE  /\ Chosen(q, places) \in Seq(S)
         /\ Len(Chosen(q, places)) <= Len(q)
         /\ \A v : In(v, Chosen(q, places)) <=> \E i \in 1 .. Len(q) : i \in places /\ q[i] = v
         /\ Steep(q, places) => Rises(Chosen(q, places))
         /\ 1 .. Len(q) \subseteq places => Len(Chosen(q, places)) = Len(q)
<1> DEFINE m == Len(q)
           g == [p \in Nat \X Seq(S) |->
                   IF p[1] \in places /\ p[1] \in 1 .. m THEN Append(p[2], q[p[1]]) ELSE p[2]]
           Is(f) == f = [n \in 0 .. m |->
                           IF n = 0 THEN <<>>
                           ELSE IF n \in places THEN Append(f[n - 1], q[n]) ELSE f[n - 1]]
<1>1. m \in Nat /\ \A i \in 1 .. m : q[i] \in S
  OBVIOUS
<1>2. <<>> \in Seq(S) /\ g \in [Nat \X Seq(S) -> Seq(S)]
  <2>1. ASSUME NEW k \in Nat, NEW r \in Seq(S)
        PROVE  (IF k \in places /\ k \in 1 .. m THEN Append(r, q[k]) ELSE r) \in Seq(S)
    <3>1. k \in 1 .. m => Append(r, q[k]) \in Seq(S)
      BY <1>1
    <3> QED
      BY <3>1
  <2> QED
    BY <2>1
<1> HIDE DEF m
<1>3. PICK f \in [0 .. m -> Seq(S)] : Follows(f, <<>>, g, m)
  <2> HIDE DEF g
  <2> QED
    BY <1>1, <1>2, Recursion
<1>4. Is(f)
  <2>1. ASSUME NEW k \in 0 .. m, k # 0
        PROVE  f[k] = IF k \in places THEN Append(f[k - 1], q[k]) ELSE f[k - 1]
    <3>1. k \in 1 .. m /\ k \in Nat /\ k - 1 \in 0 .. m
      BY <1>1, <2>1
    <3>2. f[k - 1] \in Seq(S)
      BY <3>1
    <3>3. <<k, f[k - 1]>> \in Nat \X Seq(S) /\ f[k] = g[<<k, f[k - 1]>>]
      <4> HIDE DEF g
      <4> QED
        BY <1>3, <3>1, <3>2 DEF Follows
    <3> QED
      BY <3>1, <3>3
  <2>2. f = [k \in 0 .. m |-> f[k]]
    BY <1>3
  <2> HIDE DEF g
  <2> QED
    BY <1>3, <2>1, <2>2 DEF Follows
<1>5. Chosen(q, places) = (CHOOSE h : Is(h))[m]
  BY DEF Chosen, m
<1> HIDE DEF Is
<1>6. Is(CHOOSE h : Is(h))
  BY <1>4
<1> DEFINE h == CHOOSE x : Is(x)
<1> HIDE DEF h
<1>7. Is(h)
  BY <1>6 DEF h
<1>8. /\ h[0] = <<>>
      /\ \A n \in 1 .. m : h[n] = IF n \in places THEN Append(h[n - 1], q[n]) ELSE h[n - 1]
  <2>1. 0 \in 0 .. m /\ \A n \in 1 .. m : n \in 0 .. m /\ n # 0
    BY <1>1
  <2> QED
    BY <1>7, <2>1 DEF Is
<1> DEFINE Good(n) == /\ h[n] \in Seq(S)
                      /\ Len(h[n]) <= n
                      /\ \A v : In(v, h[n]) <=> \E i \in 1 .. n : i \in places /\ q[i] = v
                      /\ Steep(q, places) => Rises(h[n])
                      /\ 1 .. m \subseteq places => Len(h[n]) = n
           T == {n \in Nat : n <= m => Good(n)}
<1>9. 0 \in T
  <2>1. h[0] \in Seq(S) /\ Len(h[0]) = 0
    BY <1>8
  <2>2. \A i \in 1 .. 0 : FALSE
    OBVIOUS
  <2>3. \A v : ~In(v, h[0])
    BY <2>1, <2>2 DEF In
  <2>4. Rises(h[0])
    BY <2>1, <2>2 DEF Rises
  <2> QED
    BY <2>1, <2>2, <2>3, <2>4
<1>10. ASSUME NEW n \in Nat, n \in T
       PROVE  n + 1 \in T
  <2> SUFFICES ASSUME n + 1 <= m
               PROVE  Good(n + 1)
    OBVIOUS
  <2>1. Good(n) /\ n + 1 \in 1 .. m /\ (n + 1) - 1 = n
    BY <1>1, <1>10
  <2> HIDE DEF T
  <2>2. \A i \in 1 .. n + 1 : i \in 1 .. n \/ i = n + 1
    OBVIOUS
  <2>3. n + 1 \in 1 .. n + 1 /\ \A i \in 1 .. n : i \in 1 .. n + 1
    OBVIOUS
  <2>4. h[n + 1] = IF n + 1 \in places THEN Append(h[n], q[n + 1]) ELSE h[n]
    BY <1>8, <2>1
  <2>5. CASE n + 1 \in places
    <3> DEFINE r == h[n]
    <3>1. r \in Seq(S) /\ q[n + 1] \in S /\ Len(r) <= n /\ Len(r) \in Nat
      BY <1>1, <2>1
    <3> HIDE DEF r
    <3>2. h[n + 1] = Append(r, q[n + 1])
      BY <2>4, <2>5 DEF r
    <3>3. /\ Append(r, q[n + 1]) \in Seq(S) /\ Len(Append(r, q[n + 1])) = Len(r) + 1
          /\ \A i \in 1 .. Len(r) : Append(r, q[n + 1])[i] = r[i]
          /\ Append(r, q[n + 1])[Len(r) + 1] = q[n + 1]
      BY <3>1
    <3>4. \A i \in 1 .. Len(r) + 1 : i \in 1 .. Len(r) \/ i = Len(r) + 1
      BY <3>1
    <3>5. Len(r) + 1 \in 1 .. Len(r) + 1 /\ \A i \in 1 .. Len(r) : i \in 1 .. Len(r) + 1
      BY <3>1
    <3>6. \A v : In(v, h[n + 1]) <=> In(v, r) \/ v = q[n + 1]
      BY <3>2, <3>3, <3>4, <3>5 DEF In
    <3>7. \A v : In(v, r) <=> \E i \in 1 .. n : i \in places /\ q[i] = v
      BY <2>1 DEF r
    <3>8. \A v : In(v, h[n + 1]) <=> \E i \in 1 .. n + 1 : i \in places /\ q[i] = v
      BY <2>2, <2>3, <2>5, <3>6, <3>7
    <3>9. Len(h[n + 1]) <= n + 1
      BY <3>1, <3>2, <3>3
    <3>10. ASSUME Steep(q, places)
           PROVE  Rises(h[n + 1])
      <4>1. Rises(r)
        BY <2>1, <3>10 DEF r
      <4>2. ASSUME NEW i \in 1 .. Len(r)
            PROVE  r[i] < q[n + 1]
        <5>1. In(r[i], r)
          BY DEF In
        <5>2. PICK k \in 1 .. n : k \in places /\ q[k] = r[i]
          BY <3>7, <5>1
        <5>3. k \in 1 .. m /\ k < n + 1
          BY <1>1, <2>1
        <5> QED
          BY <2>1, <2>5, <3>10, <5>2, <5>3 DEF Steep, m
      <4>3. Len(r) + 1 = Len(Append(r, q[n + 1])) /\ \A i \in 1 .. Len(r) : i # Len(r) + 1
        BY <3>1, <3>3
      <4>4. ASSUME NEW i \in 1 .. Len(r) + 1, NEW j \in 1 .. Len(r) + 1, i < j
            PROVE  Append(r, q[n + 1])[i] < Append(r, q[n + 1])[j]
        <5>1. i \in 1 .. Len(r)
          BY <3>1, <4>4
        <5>2. CASE j \in 1 .. Len(r)
          BY <3>3, <4>1, <4>4, <5>1, <5>2 DEF Rises
        <5>3. CASE j = Len(r) + 1
          BY <3>3, <4>2, <5>1, <5>3
        <5> QED
          BY <3>4, <5>2, <5>3
      <4> QED
        BY <3>2, <4>3, <4>4 DEF Rises
    <3>11. 1 .. m \subseteq places => Len(h[n + 1]) = n + 1
      BY <2>1, <3>2, <3>3 DEF r
    <3> QED
      BY <3>2, <3>3, <3>8, <3>9, <3>10, <3>11
  <2>6. CASE n + 1 \notin places
    <3>1. \A v : (\E i \in 1 .. n + 1 : i \in places /\ q[i] = v)
                 <=> (\E i \in 1 .. n : i \in places /\ q[i] = v)
      BY <2>2, <2>3, <2>6
    <3>2. Len(h[n]) <= n + 1
      BY <2>1
    <3>3. ~(1 .. m \subseteq places)
      BY <2>1, <2>6
    <3> QED
      BY <2>1, <2>4, <2>6, <3>1, <3>2, <3>3
  <2> QED
    BY <2>5, <2>6
<1> HIDE DEF T
<1>11. m \in T
  BY <1>1, <1>9, <1>10, NatsAreAll
<1>12. Chosen(q, places) = h[m]
  BY <1>5 DEF h
<1>13. Good(m)
  BY <1>1, <1>11 DEF T
<1> QED
  BY <1>12, <1>13 DEF m

\* The places whose numbers stand before a number, or in its place, when a
\* vector is sorted.
Before(q, i) == {j \in DOMAIN q : q[j] < q[i] \/ (q[j] = q[i] /\ j <= i)}

\* How many they are tells the place of a number in the sorted vector.
LEMMA RankFacts ==
  ASSUME NEW q \in Seq(Int)
  PROVE  /\ \A i \in 1 .. Len(q) : Cardinality(Before(q, i)) \in 1 .. Len(q)
         /\ \A i, k \in 1 .. Len(q) :
              Cardinality(Before(q, i)) < Cardinality(Before(q, k)) => q[i] <= q[k]
         /\ \A i, k \in 1 .. Len(q) :
              Cardinality(Before(q, i)) = Cardinality(Before(q, k)) => i = k
         /\ \A n \in 1 .. Len(q) : \E i \in 1 .. Len(q) : Cardinality(Before(q, i)) = n
<1> DEFINE m == Len(q)
           P == 1 .. m
           rank == [i \in P |-> Cardinality(Before(q, i))]
<1>1. m \in Nat /\ \A i \in P : q[i] \in Int
  OBVIOUS
<1>2. DOMAIN q = P /\ \A i \in P : i \in Nat /\ i \in Int
  OBVIOUS
<1>3. IsFiniteSet(P) /\ Cardinality(P) = m
  <2>1. 1 \in Int /\ m \in Int /\ (IF 1 > m THEN 0 ELSE m - 1 + 1) = m
    BY <1>1
  <2> HIDE DEF m
  <2> QED
    BY <2>1, FS_Interval
<1> HIDE DEF m, P
<1>4. ASSUME NEW i \in P
      PROVE  IsFiniteSet(Before(q, i)) /\ Before(q, i) \in SUBSET P /\ i \in Before(q, i)
  <2>1. Before(q, i) \in SUBSET P /\ i \in Before(q, i)
    BY <1>1, <1>2 DEF Before
  <2> QED
    BY <1>3, <2>1, FS_Subset
<1>5. ASSUME NEW i \in P
      PROVE  Cardinality(Before(q, i)) \in 1 .. m
  <2>1. Cardinality(Before(q, i)) \in Nat /\ Cardinality(Before(q, i)) <= m
    BY <1>3, <1>4, FS_Subset, FS_CardinalityType
  <2>2. Cardinality(Before(q, i)) # 0
    BY <1>4, FS_EmptySet
  <2> QED
    BY <1>1, <2>1, <2>2
<1>6. ASSUME NEW i \in P, NEW k \in P, i # k, i \in Before(q, k)
      PROVE  Cardinality(Before(q, i)) < Cardinality(Before(q, k))
  <2>1. k \notin Before(q, i)
    BY <1>1, <1>2, <1>6 DEF Before
  <2>2. Before(q, i) \in SUBSET Before(q, k)
    BY <1>1, <1>2, <1>6 DEF Before
  <2>3. k \in Before(q, k) /\ IsFiniteSet(Before(q, k))
    BY <1>4
  <2>4. Cardinality(Before(q, i)) <= Cardinality(Before(q, k))
        /\ Cardinality(Before(q, i)) # Cardinality(Before(q, k))
    BY <2>1, <2>2, <2>3, FS_Subset
  <2>5. Cardinality(Before(q, i)) \in Int /\ Cardinality(Before(q, k)) \in Int
    BY <1>5
  <2> QED
    BY <2>4, <2>5
<1>7. ASSUME NEW i \in P, NEW k \in P
      PROVE  i = k \/ i \in Before(q, k) \/ k \in Before(q, i)
  BY <1>1, <1>2 DEF Before
<1>8. ASSUME NEW i \in P, NEW k \in P, Cardinality(Before(q, i)) < Cardinality(Before(q, k))
      PROVE  q[i] <= q[k]
  <2>1. Cardinality(Before(q, i)) \in Int /\ Cardinality(Before(q, k)) \in Int
    BY <1>5
  <2>2. i # k /\ k \notin Before(q, i)
    BY <1>6, <1>8, <2>1
  <2>3. i \in Before(q, k)
    BY <1>7, <2>2
  <2> QED
    BY <1>1, <2>3 DEF Before
<1>9. ASSUME NEW i \in P, NEW k \in P, Cardinality(Before(q, i)) = Cardinality(Before(q, k))
      PROVE  i = k
  <2>1. Cardinality(Before(q, i)) \in Int /\ Cardinality(Before(q, k)) \in Int
    BY <1>5
  <2> QED
    BY <1>6, <1>7, <1>9, <2>1
<1>10. rank \in Injection(P, P)
  <2>1. \A i \in P : rank[i] = Cardinality(Before(q, i))
    OBVIOUS
  <2>2. \A i \in P : Cardinality(Before(q, i)) \in P
    BY <1>5 DEF P
  <2>3. rank \in [P -> P]
    BY <2>2
  <2>4. \A i, k \in P : rank[i] = rank[k] => i = k
    BY <1>9
  <2> HIDE DEF rank
  <2> QED
    BY <2>3, <2>4 DEF Injection, IsInjective
<1>11. rank \in Surjection(P, P)
  <2> HIDE DEF rank
  <2> QED
    BY <1>3, <1>10, FS_Injection
<1>12. \A n \in P : \E i \in P : rank[i] = n
  <2> HIDE DEF rank
  <2> QED
    BY <1>11 DEF Surjection
<1> QED
  BY <1>5, <1>8, <1>9, <1>12 DEF P, m

\* A vector whose numbers do not descend.
Climbs(nums) == \A i, j \in 1 .. Len(nums) : i < j => nums[i] <= nums[j]

\* std::sort()
LEMMA SortedFacts ==
  ASSUME NEW q \in Seq(Int)
  PROVE  /\ Sorted(q) \in Seq(Int)
         /\ Len(Sorted(q)) = Len(q)
         /\ \A v : In(v, Sorted(q)) <=> In(v, q)
         /\ Climbs(Sorted(q))
         /\ Rises(q) => Rises(Sorted(q))
<1> DEFINE m == Len(q)
           of(n) == CHOOSE i \in DOMAIN q : Cardinality(Before(q, i)) = n
           r == [n \in 1 .. m |-> q[of(n)]]
<1>1. m \in Nat /\ DOMAIN q = 1 .. m /\ \A i \in 1 .. m : q[i] \in Int /\ i \in Int
  OBVIOUS
<1>2. Sorted(q) = r
  BY <1>1 DEF Sorted, Before
<1>3. \A n \in 1 .. m : of(n) \in 1 .. m /\ Cardinality(Before(q, of(n))) = n
  BY <1>1, RankFacts
<1>4. \A i \in 1 .. m : Cardinality(Before(q, i)) \in 1 .. m /\ of(Cardinality(Before(q, i))) = i
  BY <1>1, RankFacts
<1>5. ASSUME NEW n \in 1 .. m, NEW k \in 1 .. m, n < k
      PROVE  q[of(n)] <= q[of(k)]
  <2> HIDE DEF of
  <2> QED
    BY <1>3, <1>5, RankFacts
<1> HIDE DEF of, m
<1>6. r \in Seq(Int) /\ Len(r) = m /\ \A n \in 1 .. m : r[n] = q[of(n)]
  BY <1>1, <1>3
<1> HIDE DEF r
<1>7. \A v : In(v, r) <=> In(v, q)
  <2>1. ASSUME NEW v, In(v, r)
        PROVE  In(v, q)
    BY <1>3, <1>6, <2>1 DEF In, m
  <2>2. ASSUME NEW v, In(v, q)
        PROVE  In(v, r)
    <3>1. PICK i \in 1 .. m : q[i] = v
      BY <2>2 DEF In, m
    <3>2. r[Cardinality(Before(q, i))] = v /\ Cardinality(Before(q, i)) \in 1 .. Len(r)
      BY <1>4, <1>6, <3>1
    <3> QED
      BY <3>2 DEF In
  <2> QED
    BY <2>1, <2>2
<1>8. Climbs(r)
  BY <1>5, <1>6 DEF Climbs
<1>9. ASSUME Rises(q)
      PROVE  Rises(r)
  <2>1. \A i, k \in 1 .. m : i # k => q[i] # q[k]
    <3>1. \A i, k \in 1 .. m : i # k => i < k \/ k < i
      BY <1>1
    <3>2. \A i, k \in 1 .. m : i < k => q[i] # q[k]
      BY <1>1, <1>9 DEF Rises, m
    <3> QED
      BY <3>1, <3>2
  <2>2. ASSUME NEW n \in 1 .. m, NEW k \in 1 .. m, n < k
        PROVE  r[n] < r[k]
    <3>1. of(n) # of(k)
      BY <1>1, <1>3, <2>2
    <3>2. q[of(n)] <= q[of(k)] /\ q[of(n)] # q[of(k)] /\ q[of(n)] \in Int /\ q[of(k)] \in Int
      BY <1>1, <1>3, <1>5, <2>1, <2>2, <3>1
    <3> QED
      BY <1>6, <3>2
  <2> QED
    BY <1>6, <2>2 DEF Rises
<1> QED
  BY <1>2, <1>6, <1>7, <1>8, <1>9 DEF m

\* The first f numbers of a vector ascend, and none behind them is larger.
ClimbsTo(q, f) ==
  /\ f \in 0 .. Len(q)
  /\ \A i, j \in 1 .. f : i < j => q[i] < q[j]
  /\ \A i \in 1 .. Len(q) : i > f => f >= 1 /\ q[i] <= q[f]

InFront(v, q, f) == \E i \in 1 .. f : q[i] = v

\* The front of r has the numbers of q; it is all of r if q has no number twice.
Arranges(r, q) ==
  \E f \in Nat : /\ ClimbsTo(r, f)
                 /\ \A v : InFront(v, r, f) <=> In(v, q)
                 /\ (Rises(q) => f = Len(r))

\* std::unique(): all the numbers of a sorted vector stand in the front.
LEMMA UniqueFacts ==
  ASSUME NEW q \in Seq(Int), Climbs(q)
  PROVE  Unique(q) \in Seq(Int) /\ Arranges(Unique(q), q)
<1> DEFINE m == Len(q)
           places == {i \in DOMAIN q : i = 1 \/ q[i] # q[i - 1]}
           front == Chosen(q, places)
           f == Len(front)
           tail == SubSeq(q, f + 1, m)
           u == front \o tail
<1>1. m \in Nat /\ DOMAIN q = 1 .. m /\ \A i \in 1 .. m : q[i] \in Int
  OBVIOUS
<1>2. Steep(q, places)
  <2>1. ASSUME NEW i \in 1 .. m, NEW j \in 1 .. m, i < j, q[j] # q[j - 1]
        PROVE  q[i] < q[j]
    <3>1. j - 1 \in 1 .. m /\ j - 1 < j /\ (i = j - 1 \/ i < j - 1)
      BY <1>1, <2>1
    <3>2. q[i] <= q[j - 1] /\ q[j - 1] <= q[j]
      BY <1>1, <3>1 DEF Climbs
    <3> QED
      BY <1>1, <2>1, <3>1, <3>2
  <2>2. \A i \in 1 .. m, j \in places : i < j => q[j] # q[j - 1]
    BY <1>1
  <2> HIDE DEF places
  <2> QED
    BY <1>1, <2>1, <2>2 DEF Steep
<1>3. \A v : (\E i \in 1 .. m : i \in places /\ q[i] = v) <=> In(v, q)
  <2> DEFINE S == {n \in Nat : n >= 1 /\ n <= m => \E i \in 1 .. m : i \in places /\ q[i] = q[n]}
  <2>1. 0 \in S
    OBVIOUS
  <2>2. ASSUME NEW n \in Nat, n \in S
        PROVE  n + 1 \in S
    <3> SUFFICES ASSUME n + 1 <= m
                 PROVE  \E i \in 1 .. m : i \in places /\ q[i] = q[n + 1]
      OBVIOUS
    <3>1. n + 1 \in 1 .. m /\ (n + 1) - 1 = n
      BY <1>1
    <3>2. CASE n = 0 \/ q[n + 1] # q[n]
      BY <1>1, <3>1, <3>2
    <3>3. CASE n >= 1 /\ q[n + 1] = q[n]
      BY <1>1, <2>2, <3>1, <3>3
    <3> QED
      BY <3>2, <3>3
  <2> HIDE DEF S
  <2>3. Nat \subseteq S
    BY <2>1, <2>2, NatsAreAll
  <2>4. \A n \in 1 .. m : n \in S
    BY <1>1, <2>3
  <2>5. \A n \in 1 .. m : \E i \in 1 .. m : i \in places /\ q[i] = q[n]
    BY <2>4 DEF S
  <2> HIDE DEF places
  <2> QED
    BY <2>5 DEF In, m
<1>4. Rises(q) => 1 .. m \subseteq places
  <2> SUFFICES ASSUME Rises(q), NEW i \in 1 .. m, i # 1
               PROVE  q[i] # q[i - 1]
    BY <1>1
  <2>1. i - 1 \in 1 .. m /\ i - 1 < i
    BY <1>1
  <2>2. q[i - 1] < q[i] /\ q[i - 1] \in Int /\ q[i] \in Int
    BY <1>1, <2>1 DEF Rises
  <2> QED
    BY <2>2
<1>5. Unique(q) = u
  BY DEF Unique
<1> HIDE DEF places
<1>6. /\ front \in Seq(Int) /\ f <= m /\ Rises(front)
      /\ \A v : In(v, front) <=> In(v, q)
      /\ Rises(q) => f = m
  BY <1>2, <1>3, <1>4, ChosenFacts DEF m
<1> HIDE DEF front
<1>7. f \in Nat /\ f \in 0 .. m
  BY <1>1, <1>6
<1>8. /\ tail \in Seq(Int) /\ Len(tail) = m - f
      /\ \A k \in 1 .. m - f : tail[k] = q[f + k]
  <2> HIDE DEF f
  <2> QED
    BY <1>7, SuffixFacts DEF m
<1> HIDE DEF tail
<1>9. /\ u \in Seq(Int) /\ Len(u) = f + (m - f)
      /\ \A k \in 1 .. f : u[k] = front[k]
      /\ \A k \in 1 .. m - f : u[f + k] = tail[k]
  BY <1>6, <1>8, ConcatFacts
<1> HIDE DEF u
<1>10. \A i, j \in 1 .. f : i < j => u[i] < u[j]
  BY <1>6, <1>9 DEF Rises
<1>11. ASSUME NEW i \in 1 .. Len(u), i > f
       PROVE  f >= 1 /\ u[i] <= u[f]
  <2>1. i - f \in 1 .. m - f /\ f + (i - f) = i /\ i \in 1 .. m
    BY <1>1, <1>7, <1>9, <1>11
  <2>2. u[i] = q[i]
    BY <1>8, <1>9, <2>1
  <2>3. In(q[i], front)
    BY <1>6, <2>1 DEF In, m
  <2>4. PICK k \in 1 .. f : front[k] = q[i]
    BY <2>3 DEF In
  <2>5. u[k] = q[i] /\ f \in 1 .. f /\ (k < f \/ k = f)
    BY <1>7, <1>9, <2>4
  <2>6. u[k] <= u[f]
    <3>1. q[i] \in Int /\ u[f] \in Int
      BY <1>1, <1>6, <1>9, <2>1, <2>5
    <3> QED
      BY <1>10, <2>5, <3>1
  <2> QED
    BY <2>2, <2>5, <2>6
<1>12. ClimbsTo(u, f)
  <2>1. f \in 0 .. Len(u)
    BY <1>1, <1>7, <1>9
  <2> QED
    BY <1>10, <1>11, <2>1 DEF ClimbsTo
<1>13. \A v : InFront(v, u, f) <=> In(v, q)
  BY <1>6, <1>9 DEF InFront, In
<1>14. Rises(q) => f = Len(u)
  BY <1>1, <1>6, <1>9
<1> QED
  BY <1>5, <1>7, <1>9, <1>12, <1>13, <1>14 DEF Arranges

\* The loop of std::set_intersection() at two places of two vectors: it has
\* found the numbers that both fronts have had so far, and what it has passed
\* in one is less than what is to come in the front of the other.
Merged(a, f, b, g, p) ==
  /\ p.i \in 1 .. Len(a) + 1
  /\ p.j \in 1 .. Len(b) + 1
  /\ p.common \in Seq(Int)
  /\ Rises(p.common)
  /\ \A v : In(v, p.common)
            <=> \E x \in 1 .. f, y \in 1 .. g : x < p.i /\ y < p.j /\ a[x] = v /\ b[y] = v
  /\ \A x \in 1 .. f, y \in 1 .. g : x < p.i /\ ~(y < p.j) => a[x] < b[y]
  /\ \A x \in 1 .. f, y \in 1 .. g : ~(x < p.i) /\ y < p.j => b[y] < a[x]

Turning == [i : Nat \ {0}, j : Nat \ {0}, common : Seq(Int)]

\* A number behind another makes a vector longer.
LEMMA AppendFacts ==
  ASSUME NEW r \in Seq(Int), NEW e \in Int
  PROVE  /\ Append(r, e) \in Seq(Int)
         /\ \A v : In(v, Append(r, e)) <=> In(v, r) \/ v = e
         /\ Rises(r) /\ (\A v : In(v, r) => v < e) => Rises(Append(r, e))
<1> DEFINE l == Len(r)
           w == Append(r, e)
<1>1. l \in Nat /\ w \in Seq(Int) /\ Len(w) = l + 1 /\ w[l + 1] = e
      /\ \A k \in 1 .. l : w[k] = r[k]
  OBVIOUS
<1> HIDE DEF w
<1>2. \A k \in 1 .. l + 1 : k \in 1 .. l \/ k = l + 1
  BY <1>1
<1>3. l + 1 \in 1 .. l + 1 /\ \A k \in 1 .. l : k \in 1 .. l + 1 /\ k # l + 1
  BY <1>1
<1>4. \A v : In(v, w) <=> In(v, r) \/ v = e
  BY <1>1, <1>2, <1>3 DEF In
<1>5. ASSUME Rises(r), \A v : In(v, r) => v < e, NEW i \in 1 .. l + 1, NEW j \in 1 .. l + 1, i < j
      PROVE  w[i] < w[j]
  <2>1. i \in 1 .. l
    BY <1>1, <1>5
  <2>2. r[i] < e
    BY <1>5, <2>1 DEF In
  <2>3. CASE j \in 1 .. l
    BY <1>1, <1>5, <2>1, <2>3 DEF Rises
  <2>4. CASE j = l + 1
    BY <1>1, <2>1, <2>2, <2>4
  <2> QED
    BY <1>2, <2>3, <2>4
<1> QED
  BY <1>1, <1>4, <1>5 DEF Rises, w

\* One turn of the loop.
LEMMA OneTurn ==
  ASSUME NEW a \in Seq(Int), NEW b \in Seq(Int), NEW f, NEW g,
         ClimbsTo(a, f), ClimbsTo(b, g), f = Len(a) \/ g = Len(b),
         NEW p \in Turning, Merged(a, f, b, g, p)
  PROVE  Merged(a, f, b, g, Turn(a, b, p))
<1> DEFINE A == Len(a)
           B == Len(b)
<1>1. /\ A \in Nat /\ B \in Nat /\ f \in 0 .. A /\ g \in 0 .. B
      /\ \A x \in 1 .. A : a[x] \in Int
      /\ \A y \in 1 .. B : b[y] \in Int
  BY DEF ClimbsTo
<1> DEFINE i == p.i
           j == p.j
           c == p.common
<1>2. /\ p = [i |-> i, j |-> j, common |-> c]
      /\ i \in 1 .. A + 1 /\ j \in 1 .. B + 1 /\ c \in Seq(Int)
  BY DEF Merged, Turning
<1>3. /\ Rises(c)
      /\ \A v : In(v, c)
                <=> \E x \in 1 .. f, y \in 1 .. g : x < i /\ y < j /\ a[x] = v /\ b[y] = v
      /\ \A x \in 1 .. f, y \in 1 .. g : x < i /\ ~(y < j) => a[x] < b[y]
      /\ \A x \in 1 .. f, y \in 1 .. g : ~(x < i) /\ y < j => b[y] < a[x]
  BY DEF Merged
<1>4. /\ \A x, y \in 1 .. f : x < y => a[x] < a[y]
      /\ \A x, y \in 1 .. g : x < y => b[x] < b[y]
      /\ \A x \in 1 .. A : x > f => f >= 1 /\ a[x] <= a[f]
      /\ \A y \in 1 .. B : y > g => g >= 1 /\ b[y] <= b[g]
  BY DEF ClimbsTo
<1> HIDE DEF A, B
<1>5. CASE i > A \/ j > B
  <2>1. Turn(a, b, p) = p
    BY <1>5 DEF Turn, A, B
  <2> QED
    BY <2>1
<1>6. CASE i <= A /\ j <= B /\ a[i] < b[j]
  <2>1. Turn(a, b, p) = [i |-> i + 1, j |-> j, common |-> c]
    <3>1. ~(p.i > Len(a) \/ p.j > Len(b)) /\ a[p.i] < b[p.j]
      BY <1>1, <1>2, <1>6 DEF A, B
    <3>2. Turn(a, b, p) = [p EXCEPT !.i = @ + 1]
      BY <3>1 DEF Turn
    <3> QED
      BY <1>2, <3>2
  <2> HIDE DEF i, j, c
  <2>2. i \in 1 .. A /\ j \in 1 .. B /\ a[i] \in Int /\ b[j] \in Int
    BY <1>1, <1>2, <1>6
  <2>3. \A x \in 1 .. f : x < i + 1 <=> x < i \/ x = i
    BY <1>1, <2>2
  <2>4. \A x \in 1 .. f : ~(x < i + 1) => ~(x < i)
    BY <2>3
  <2>5. ASSUME NEW y \in 1 .. g, ~(y < j)
        PROVE  a[i] < b[y]
    <3>1. y = j \/ j < y
      BY <1>1, <2>2, <2>5
    <3>2. j \in 1 .. g /\ b[y] \in Int
      BY <1>1, <2>2, <2>5
    <3>3. b[j] <= b[y]
      BY <1>4, <2>2, <2>5, <3>1, <3>2
    <3> QED
      BY <1>6, <2>2, <3>2, <3>3
  <2>6. \A x \in 1 .. f, y \in 1 .. g : x < i + 1 /\ ~(y < j) => a[x] < b[y]
    BY <1>3, <2>3, <2>5
  <2>7. \A x \in 1 .. f, y \in 1 .. g : ~(x < i + 1) /\ y < j => b[y] < a[x]
    BY <1>3, <2>4
  <2>8. \A y \in 1 .. g : i \in 1 .. f /\ y < j => b[y] # a[i]
    <3>1. ~(i < i)
      BY <2>2
    <3>2. \A y \in 1 .. g : b[y] \in Int
      BY <1>1
    <3> QED
      BY <1>3, <2>2, <3>1, <3>2
  <2>9. ASSUME NEW v
        PROVE  (\E x \in 1 .. f, y \in 1 .. g : x < i + 1 /\ y < j /\ a[x] = v /\ b[y] = v)
               <=> (\E x \in 1 .. f, y \in 1 .. g : x < i /\ y < j /\ a[x] = v /\ b[y] = v)
    BY <2>3, <2>8
  <2>10. i + 1 \in 1 .. A + 1
    BY <1>1, <2>2
  <2>11. \A v : In(v, c)
              <=> \E x \in 1 .. f, y \in 1 .. g : x < i + 1 /\ y < j /\ a[x] = v /\ b[y] = v
    BY <1>3, <2>9
  <2>12. c \in Seq(Int) /\ Rises(c) /\ i \in 1 .. A + 1 /\ j \in 1 .. B + 1
    BY <1>2, <1>3
  <2> QED
    BY <2>1, <2>6, <2>7, <2>10, <2>11, <2>12 DEF Merged, A, B
<1>7. CASE i <= A /\ j <= B /\ b[j] < a[i]
  <2>1. Turn(a, b, p) = [i |-> i, j |-> j + 1, common |-> c]
    <3>1. a[i] \in Int /\ b[j] \in Int
      BY <1>1, <1>2, <1>7
    <3>2. ~(p.i > Len(a) \/ p.j > Len(b)) /\ ~(a[p.i] < b[p.j]) /\ b[p.j] < a[p.i]
      BY <1>1, <1>2, <1>7, <3>1 DEF A, B
    <3>3. Turn(a, b, p) = [p EXCEPT !.j = @ + 1]
      BY <3>2 DEF Turn
    <3> QED
      BY <1>2, <3>3
  <2> HIDE DEF i, j, c
  <2>2. i \in 1 .. A /\ j \in 1 .. B /\ a[i] \in Int /\ b[j] \in Int
    BY <1>1, <1>2, <1>7
  <2>3. \A y \in 1 .. g : y < j + 1 <=> y < j \/ y = j
    BY <1>1, <2>2
  <2>4. \A y \in 1 .. g : ~(y < j + 1) => ~(y < j)
    BY <2>3
  <2>5. ASSUME NEW x \in 1 .. f, ~(x < i)
        PROVE  b[j] < a[x]
    <3>1. x = i \/ i < x
      BY <1>1, <2>2, <2>5
    <3>2. i \in 1 .. f /\ a[x] \in Int
      BY <1>1, <2>2, <2>5
    <3>3. a[i] <= a[x]
      BY <1>4, <2>2, <2>5, <3>1, <3>2
    <3> QED
      BY <1>7, <2>2, <3>2, <3>3
  <2>6. \A x \in 1 .. f, y \in 1 .. g : ~(x < i) /\ y < j + 1 => b[y] < a[x]
    BY <1>3, <2>3, <2>5
  <2>7. \A x \in 1 .. f, y \in 1 .. g : x < i /\ ~(y < j + 1) => a[x] < b[y]
    BY <1>3, <2>4
  <2>8. \A x \in 1 .. f : j \in 1 .. g /\ x < i => a[x] # b[j]
    <3>1. ~(j < j)
      BY <2>2
    <3>2. \A x \in 1 .. f : a[x] \in Int
      BY <1>1
    <3> QED
      BY <1>3, <2>2, <3>1, <3>2
  <2>9. ASSUME NEW v
        PROVE  (\E x \in 1 .. f, y \in 1 .. g : x < i /\ y < j + 1 /\ a[x] = v /\ b[y] = v)
               <=> (\E x \in 1 .. f, y \in 1 .. g : x < i /\ y < j /\ a[x] = v /\ b[y] = v)
    BY <2>3, <2>8
  <2>10. j + 1 \in 1 .. B + 1
    BY <1>1, <2>2
  <2>11. \A v : In(v, c)
              <=> \E x \in 1 .. f, y \in 1 .. g : x < i /\ y < j + 1 /\ a[x] = v /\ b[y] = v
    BY <1>3, <2>9
  <2>12. c \in Seq(Int) /\ Rises(c) /\ i \in 1 .. A + 1 /\ j \in 1 .. B + 1
    BY <1>2, <1>3
  <2> QED
    BY <2>1, <2>6, <2>7, <2>10, <2>11, <2>12 DEF Merged, A, B
<1>8. CASE i <= A /\ j <= B /\ a[i] = b[j]
  <2> DEFINE e == a[i]
  <2>1. Turn(a, b, p) = [i |-> i + 1, j |-> j + 1, common |-> Append(c, e)]
    <3>1. a[i] \in Int /\ b[j] \in Int
      BY <1>1, <1>2, <1>8
    <3>2. ~(p.i > Len(a) \/ p.j > Len(b)) /\ ~(a[p.i] < b[p.j]) /\ ~(b[p.j] < a[p.i])
      BY <1>1, <1>2, <1>8, <3>1 DEF A, B
    <3> QED
      BY <3>2 DEF Turn
  <2> HIDE DEF i, j, c
  <2>2. i \in 1 .. A /\ j \in 1 .. B /\ e \in Int /\ b[j] = e
    BY <1>1, <1>2, <1>8
  <2>3. i \in 1 .. f
    <3> SUFFICES ASSUME i > f
                 PROVE  FALSE
      BY <1>1, <2>2
    <3>1. f >= 1 /\ a[i] <= a[f] /\ g = B
      BY <1>1, <1>4, <2>2 DEF A, B
    <3>2. f \in 1 .. f /\ f < i /\ j \in 1 .. g /\ ~(j < j) /\ a[f] \in Int
      BY <1>1, <2>2, <3>1
    <3>3. a[f] < b[j]
      BY <1>3, <3>2
    <3> QED
      BY <2>2, <3>1, <3>2, <3>3
  <2>4. j \in 1 .. g
    <3> SUFFICES ASSUME j > g
                 PROVE  FALSE
      BY <1>1, <2>2
    <3>1. g >= 1 /\ b[j] <= b[g] /\ f = A
      BY <1>1, <1>4, <2>2 DEF A, B
    <3>2. g \in 1 .. g /\ g < j /\ ~(i < i) /\ b[g] \in Int
      BY <1>1, <2>2, <3>1
    <3>3. b[g] < a[i]
      BY <1>3, <2>3, <3>2
    <3> QED
      BY <2>2, <3>1, <3>2, <3>3
  <2>5. \A x \in 1 .. f : x < i + 1 <=> x < i \/ x = i
    BY <1>1, <2>2
  <2>6. \A y \in 1 .. g : y < j + 1 <=> y < j \/ y = j
    BY <1>1, <2>2
  <2>7. \A x \in 1 .. f : x < i => a[x] < e
    BY <1>4, <2>3
  <2>8. \A y \in 1 .. g : y < j => b[y] < e
    BY <1>4, <2>2, <2>4
  <2>9. \A x \in 1 .. f : ~(x < i + 1) => e < a[x]
    BY <1>1, <1>4, <2>2, <2>3
  <2>10. \A y \in 1 .. g : ~(y < j + 1) => e < b[y]
    BY <1>1, <1>4, <2>2, <2>4
  <2> HIDE DEF e
  <2>11. \A v : In(v, c) => v < e
    BY <1>3, <2>7
  <2>12. /\ Append(c, e) \in Seq(Int) /\ Rises(Append(c, e))
         /\ \A v : In(v, Append(c, e)) <=> In(v, c) \/ v = e
    BY <1>2, <1>3, <2>2, <2>11, AppendFacts
  <2>13. \A x \in 1 .. f, y \in 1 .. g : x < i + 1 /\ ~(y < j + 1) => a[x] < b[y]
    <3>1. \A y \in 1 .. g : ~(y < j + 1) => ~(y < j)
      BY <2>6
    <3> QED
      BY <1>3, <2>5, <2>10, <3>1 DEF e
  <2>14. \A x \in 1 .. f, y \in 1 .. g : ~(x < i + 1) /\ y < j + 1 => b[y] < a[x]
    <3>1. \A x \in 1 .. f : ~(x < i + 1) => ~(x < i)
      BY <2>5
    <3> QED
      BY <1>3, <2>2, <2>6, <2>9, <3>1
  <2>15. ASSUME NEW v
         PROVE  (\E x \in 1 .. f, y \in 1 .. g : x < i + 1 /\ y < j + 1 /\ a[x] = v /\ b[y] = v)
                <=> In(v, c) \/ v = e
    <3>1. ASSUME NEW x \in 1 .. f, NEW y \in 1 .. g, x < i + 1, y < j + 1, a[x] = v, b[y] = v
          PROVE  In(v, c) \/ v = e
      <4>1. a[x] \in Int /\ b[y] \in Int
        BY <1>1
      <4>2. x = i => v = e
        BY <3>1 DEF e
      <4>3. y = j => v = e
        BY <2>2, <3>1
      <4> QED
        BY <1>3, <2>5, <2>6, <3>1, <4>2, <4>3
    <3>2. a[i] = e /\ i < i + 1 /\ j < j + 1
      BY <2>2 DEF e
    <3>3. \A x \in 1 .. f, y \in 1 .. g : x < i /\ y < j => x < i + 1 /\ y < j + 1
      BY <2>5, <2>6
    <3> QED
      BY <1>3, <2>2, <2>3, <2>4, <3>1, <3>2, <3>3
  <2>16. i + 1 \in 1 .. A + 1 /\ j + 1 \in 1 .. B + 1
    BY <1>1, <2>2
  <2>17. \A v : In(v, Append(c, e))
              <=> \E x \in 1 .. f, y \in 1 .. g : x < i + 1 /\ y < j + 1 /\ a[x] = v /\ b[y] = v
    BY <2>12, <2>15
  <2> QED
    BY <2>1, <2>12, <2>13, <2>14, <2>16, <2>17 DEF Merged, A, B
<1>9. i <= A /\ j <= B => a[i] \in Int /\ b[j] \in Int
  BY <1>1, <1>2
<1>10. i \in Int /\ j \in Int
  BY <1>1, <1>2
<1> HIDE DEF i, j
<1>11. (i > A \/ j > B) \/ (i <= A /\ j <= B)
  BY <1>1, <1>10
<1>12. i <= A /\ j <= B => a[i] < b[j] \/ b[j] < a[i] \/ a[i] = b[j]
  BY <1>9
<1> QED
  BY <1>5, <1>6, <1>7, <1>8, <1>11, <1>12

\* std::set_intersection(), for a vector with nothing behind its front and
\* one that may have something there.
LEMMA SetIntersectionFacts ==
  ASSUME NEW a \in Seq(Int), NEW b \in Seq(Int), NEW f, NEW g,
         ClimbsTo(a, f), ClimbsTo(b, g), f = Len(a) \/ g = Len(b)
  PROVE  /\ SetIntersection(a, b) \in Seq(Int)
         /\ Rises(SetIntersection(a, b))
         /\ \A v : In(v, SetIntersection(a, b)) <=> InFront(v, a, f) /\ InFront(v, b, g)
<1> DEFINE A == Len(a)
           B == Len(b)
           m == A + B
           p0 == [i |-> 1, j |-> 1, common |-> <<>>]
           turn == [w \in Nat \X Turning |-> Turn(a, b, w[2])]
           Is(t) == t = [k \in 0 .. m |-> IF k = 0 THEN p0 ELSE Turn(a, b, t[k - 1])]
<1>1. /\ A \in Nat /\ B \in Nat /\ m \in Nat /\ f \in 0 .. A /\ g \in 0 .. B
      /\ \A x \in Nat \ {0} : x <= A => a[x] \in Int
  BY DEF ClimbsTo
<1>2. p0 \in Turning
  BY DEF Turning
<1>3. ASSUME NEW p \in Turning
      PROVE  Turn(a, b, p) \in Turning
  <2>1. p.i + 1 \in Nat \ {0} /\ p.j + 1 \in Nat \ {0} /\ p.common \in Seq(Int)
    BY DEF Turning
  <2>2. CASE p.i > A \/ p.j > B
    BY <2>2 DEF Turn
  <2>3. CASE ~(p.i > A \/ p.j > B)
    <3>1. Append(p.common, a[p.i]) \in Seq(Int)
      <4>1. a[p.i] \in Int
        BY <1>1, <2>3 DEF Turning
      <4> QED
        BY <2>1, <4>1
    <3>2. [p EXCEPT !.i = @ + 1] \in Turning /\ [p EXCEPT !.j = @ + 1] \in Turning
      BY <2>1 DEF Turning
    <3>3. [i |-> p.i + 1, j |-> p.j + 1, common |-> Append(p.common, a[p.i])] \in Turning
      BY <2>1, <3>1 DEF Turning
    <3> QED
      BY <2>3, <3>2, <3>3 DEF Turn
  <2> QED
    BY <2>2, <2>3
<1>4. turn \in [Nat \X Turning -> Turning]
  BY <1>3
<1> HIDE DEF p0, m
<1>5. PICK t \in [0 .. m -> Turning] : Follows(t, p0, turn, m)
  <2> HIDE DEF turn
  <2> QED
    BY <1>1, <1>2, <1>4, Recursion
<1>6. Is(t)
  <2>1. ASSUME NEW k \in 0 .. m, k # 0
        PROVE  t[k] = Turn(a, b, t[k - 1])
    <3>1. k \in 1 .. m /\ k \in Nat /\ k - 1 \in 0 .. m
      BY <1>1, <2>1
    <3>2. t[k] = turn[<<k, t[k - 1]>>] /\ t[k - 1] \in Turning
      <4> HIDE DEF turn
      <4> QED
        BY <1>5, <3>1 DEF Follows
    <3> QED
      BY <3>1, <3>2
  <2>2. t = [k \in 0 .. m |-> t[k]]
    BY <1>5
  <2> HIDE DEF turn
  <2> QED
    BY <1>5, <2>1, <2>2 DEF Follows
<1>7. SetIntersection(a, b) = (CHOOSE h : Is(h))[m].common
  BY DEF SetIntersection, m, p0
<1> HIDE DEF Is
<1>8. Is(CHOOSE h : Is(h))
  BY <1>6
<1> DEFINE h == CHOOSE x : Is(x)
<1> HIDE DEF h
<1>9. Is(h)
  BY <1>8 DEF h
<1>10. h[0] = p0 /\ \A k \in 1 .. m : h[k] = Turn(a, b, h[k - 1])
  <2>1. 0 \in 0 .. m /\ \A n \in 1 .. m : n \in 0 .. m /\ n # 0
    BY <1>1
  <2> QED
    BY <1>9, <2>1 DEF Is
<1> DEFINE Far(k) == h[k].i + h[k].j >= k + 2 \/ h[k].i > A \/ h[k].j > B
           Good(k) == h[k] \in Turning /\ Merged(a, f, b, g, h[k]) /\ Far(k)
           S == {k \in Nat : k <= m => Good(k)}
<1>11. 0 \in S
  <2>1. h[0] = p0 /\ p0.i = 1 /\ p0.j = 1 /\ p0.common = <<>>
    BY <1>10 DEF p0
  <2>2. Merged(a, f, b, g, p0)
    <3>1. <<>> \in Seq(Int) /\ Len(<<>>) = 0 /\ \A i \in 1 .. 0 : FALSE
      OBVIOUS
    <3>2. Rises(<<>>) /\ \A v : ~In(v, <<>>)
      BY <3>1 DEF Rises, In
    <3>3. (\A x \in 1 .. f : ~(x < 1)) /\ (\A y \in 1 .. g : ~(y < 1))
      BY <1>1
    <3>4. 1 \in 1 .. Len(a) + 1 /\ 1 \in 1 .. Len(b) + 1
      BY <1>1
    <3> QED
      BY <2>1, <3>1, <3>2, <3>3, <3>4 DEF Merged
  <2>3. Far(0)
    BY <2>1
  <2> QED
    BY <1>2, <2>1, <2>2, <2>3
<1>12. ASSUME NEW n \in Nat, n \in S
       PROVE  n + 1 \in S
  <2> SUFFICES ASSUME n + 1 <= m
               PROVE  Good(n + 1)
    OBVIOUS
  <2>1. Good(n) /\ n + 1 \in 1 .. m /\ (n + 1) - 1 = n
    BY <1>1, <1>12
  <2> HIDE DEF S
  <2>2. h[n + 1] = Turn(a, b, h[n])
    BY <1>10, <2>1
  <2> DEFINE p == h[n]
             r == h[n + 1]
  <2>3. p \in Turning /\ Merged(a, f, b, g, p) /\ (p.i + p.j >= n + 2 \/ p.i > A \/ p.j > B)
    BY <2>1
  <2>4. r = Turn(a, b, p)
    BY <2>2
  <2> HIDE DEF p, r
  <2>5. r \in Turning /\ Merged(a, f, b, g, r)
    BY <1>3, <2>3, <2>4, OneTurn
  <2>6. r.i + r.j >= (n + 1) + 2 \/ r.i > A \/ r.j > B
    <3>1. p.i \in Nat /\ p.j \in Nat
      BY <2>3 DEF Turning
    <3>2. CASE p.i > A \/ p.j > B
      BY <2>4, <3>2 DEF Turn
    <3>3. CASE ~(p.i > A \/ p.j > B) /\ p.i + p.j >= n + 2
      <4>1. \/ r.i = p.i + 1 /\ r.j = p.j
            \/ r.i = p.i /\ r.j = p.j + 1
            \/ r.i = p.i + 1 /\ r.j = p.j + 1
        <5>1. /\ [p EXCEPT !.i = @ + 1].i = p.i + 1 /\ [p EXCEPT !.i = @ + 1].j = p.j
              /\ [p EXCEPT !.j = @ + 1].i = p.i /\ [p EXCEPT !.j = @ + 1].j = p.j + 1
          BY <2>3 DEF Turning
        <5> QED
          BY <2>4, <3>3, <5>1 DEF Turn
      <4> QED
        BY <3>1, <3>3, <4>1
    <3> QED
      BY <2>3, <3>2, <3>3
  <2> QED
    BY <2>5, <2>6 DEF r
<1> HIDE DEF S
<1>13. m \in S
  BY <1>1, <1>11, <1>12, NatsAreAll
<1>14. Good(m)
  BY <1>1, <1>13 DEF S
<1> DEFINE p == h[m]
<1>15. p \in Turning /\ Merged(a, f, b, g, p) /\ (p.i + p.j >= m + 2 \/ p.i > A \/ p.j > B)
  BY <1>14
<1>16. SetIntersection(a, b) = p.common
  BY <1>7 DEF h
<1> HIDE DEF p
<1>17. /\ p.i \in 1 .. A + 1 /\ p.j \in 1 .. B + 1
       /\ p.common \in Seq(Int) /\ Rises(p.common)
       /\ \A v : In(v, p.common)
                 <=> \E x \in 1 .. f, y \in 1 .. g : x < p.i /\ y < p.j /\ a[x] = v /\ b[y] = v
       /\ \A x \in 1 .. f, y \in 1 .. g : x < p.i /\ ~(y < p.j) => a[x] < b[y]
       /\ \A x \in 1 .. f, y \in 1 .. g : ~(x < p.i) /\ y < p.j => b[y] < a[x]
  BY <1>15 DEF Merged
<1>18. p.i > A \/ p.j > B
  BY <1>1, <1>15, <1>17 DEF m
<1>19. (\A x \in 1 .. f : x < p.i) \/ (\A y \in 1 .. g : y < p.j)
  BY <1>1, <1>17, <1>18
<1>20. ASSUME NEW x \in 1 .. f, NEW y \in 1 .. g, a[x] = b[y]
       PROVE  x < p.i /\ y < p.j
  <2>1. a[x] \in Int /\ b[y] \in Int
    BY <1>1
  <2>2. ~(a[x] < b[y]) /\ ~(b[y] < a[x])
    BY <1>20, <2>1
  <2> QED
    BY <1>17, <1>19, <2>2
<1>21. \A v : In(v, p.common) <=> InFront(v, a, f) /\ InFront(v, b, g)
  BY <1>17, <1>20 DEF InFront
<1> QED
  BY <1>16, <1>17, <1>21

\* The end of atoms_intersection(): what both have, zeros left out, ascending.
LEMMA IntersectionFacts ==
  ASSUME NEW a \in Seq(Int), NEW b \in Seq(Int), NEW f, NEW g,
         ClimbsTo(a, f), ClimbsTo(b, g), f = Len(a) \/ g = Len(b)
  PROVE  /\ Intersection(a, b) \in Seq(Int)
         /\ Rises(Intersection(a, b))
         /\ \A v : In(v, Intersection(a, b))
                   <=> InFront(v, a, f) /\ InFront(v, b, g) /\ v # 0
<1> DEFINE c == SetIntersection(a, b)
           places == {n \in DOMAIN c : c[n] # 0}
<1>1. /\ c \in Seq(Int) /\ Rises(c)
      /\ \A v : In(v, c) <=> InFront(v, a, f) /\ InFront(v, b, g)
  BY SetIntersectionFacts
<1>2. Intersection(a, b) = Chosen(c, places)
  BY DEF Intersection
<1> HIDE DEF c
<1>3. Steep(c, places)
  BY <1>1 DEF Steep, Rises
<1>4. DOMAIN c = 1 .. Len(c)
  BY <1>1
<1>5. \A v : (\E i \in 1 .. Len(c) : i \in places /\ c[i] = v) <=> In(v, c) /\ v # 0
  BY <1>4 DEF In
<1> HIDE DEF places
<1>6. /\ Chosen(c, places) \in Seq(Int) /\ Rises(Chosen(c, places))
      /\ \A v : In(v, Chosen(c, places)) <=> \E i \in 1 .. Len(c) : i \in places /\ c[i] = v
  BY <1>1, <1>3, ChosenFacts
<1> QED
  BY <1>1, <1>2, <1>5, <1>6

-----------------------------------------------------------------------------
(* Message sets. *)

\* generate_n()
LEMMA AscendingFacts ==
  ASSUME NEW left \in Int, NEW right \in Int, NEW low \in Int, NEW high \in Nat,
         low <= left, low <= 0, right <= high
  PROVE  /\ Ascending(left, right) \in Seq(Int)
         /\ Len(Ascending(left, right)) <= high + 1 - low
         /\ Rises(Ascending(left, right))
         /\ \A v : In(v, Ascending(left, right)) <=> v \in left .. right
<1> DEFINE size == Max({0, right + 1 - left})
           r == [n \in 1 .. size |-> left + n - 1]
<1>1. size \in Nat /\ size <= high + 1 - low /\ size >= right + 1 - left
      /\ (size = 0 \/ size = right + 1 - left)
  <2>1. CASE right + 1 - left >= 0
    <3>1. size = right + 1 - left
      BY <2>1 DEF Max
    <3> QED
      BY <2>1, <3>1
  <2>2. CASE right + 1 - left < 0
    <3>1. size = 0
      BY <2>2 DEF Max
    <3> QED
      BY <2>2, <3>1
  <2> QED
    BY <2>1, <2>2
<1>2. Ascending(left, right) = r
  BY DEF Ascending
<1> HIDE DEF size
<1>3. r \in Seq(Int) /\ Len(r) = size /\ \A n \in 1 .. size : r[n] = left + n - 1
  BY <1>1
<1> HIDE DEF r
<1>4. Rises(r)
  BY <1>1, <1>3 DEF Rises
<1>5. ASSUME NEW v
      PROVE  In(v, r) <=> v \in left .. right
  <2>1. ASSUME v \in left .. right
        PROVE  In(v, r)
    <3>1. v - left + 1 \in 1 .. size /\ left + (v - left + 1) - 1 = v
      BY <1>1, <2>1
    <3> QED
      BY <1>3, <3>1 DEF In
  <2>2. ASSUME In(v, r)
        PROVE  v \in left .. right
    <3>1. PICK n \in 1 .. size : v = left + n - 1
      BY <1>3, <2>2 DEF In
    <3> QED
      BY <1>1, <3>1
  <2> QED
    BY <2>1, <2>2
<1> QED
  BY <1>1, <1>2, <1>3, <1>4, <1>5

\* process_atoms(): no more numbers than there are from low up to high, which
\* may be any that the left end and dwMax do not exceed; ascending; and of
\* those up to dwMax the ones the token means.
LEMMA AtomsFacts ==
  ASSUME NEW token \in AnyToken, NEW limit \in Int, NEW low \in Int, NEW high \in Nat,
         low <= token.left, low <= 0, limit <= high
  PROVE  /\ Atoms(token, limit) \in Seq(Int)
         /\ Len(Atoms(token, limit)) <= high + 1 - low
         /\ Rises(Atoms(token, limit))
         /\ \A v \in 1 .. limit : In(v, Atoms(token, limit)) <=> Means(token, v)
<1>1. token.left \in Int
  BY DEF AnyToken
<1> DEFINE left == token.left
<1>2. /\ <<>> \in Seq(Int) /\ Len(<<>>) = 0 /\ Rises(<<>>)
      /\ \A v : ~In(v, <<>>)
  <2>1. <<>> \in Seq(Int) /\ Len(<<>>) = 0 /\ \A i \in 1 .. 0 : FALSE
    OBVIOUS
  <2> QED
    BY <2>1 DEF Rises, In
<1>3. CASE token.kind = "number"
  <2>1. Atoms(token, limit) = <<left>> /\ \A v : Means(token, v) <=> v = left
    BY <1>3 DEF Atoms, Means
  <2>2. /\ <<left>> \in Seq(Int) /\ Len(<<left>>) = 1 /\ <<left>>[1] = left
        /\ \A i \in 1 .. 1 : i = 1
    BY <1>1
  <2>3. Rises(<<left>>)
    <3>1. ~(1 < 1)
      OBVIOUS
    <3> QED
      BY <2>2, <3>1 DEF Rises
  <2>4. \A v : In(v, <<left>>) <=> v = left
    BY <2>2 DEF In
  <2> HIDE DEF left
  <2>5. 1 <= high + 1 - low
    OBVIOUS
  <2> QED
    BY <2>1, <2>2, <2>3, <2>4, <2>5
<1>4. CASE token.kind = "range"
  <2> DEFINE right == token.right
             end == Min({right, limit})
  <2>1. /\ Atoms(token, limit) = IF left <= right THEN Ascending(left, end) ELSE <<>>
        /\ \A v : Means(token, v) <=> left <= v /\ v <= right
    BY <1>4 DEF Atoms, Means
  <2>2. right \in Int
    BY <1>4 DEF AnyToken
  <2>3. end \in Int /\ end <= limit /\ end <= right /\ (end = limit \/ end = right)
    <3>1. CASE right <= limit
      BY <2>2, <3>1 DEF Min
    <3>2. CASE limit < right
      BY <2>2, <3>2 DEF Min
    <3> QED
      BY <2>2, <3>1, <3>2
  <2> HIDE DEF end, right, left
  <2>4. CASE left <= right
    <3>1. /\ Ascending(left, end) \in Seq(Int) /\ Len(Ascending(left, end)) <= high + 1 - low
          /\ Rises(Ascending(left, end))
          /\ \A v : In(v, Ascending(left, end)) <=> v \in left .. end
      <4>1. end \in Int /\ end <= high /\ left \in Int /\ low <= left
        BY <1>1, <2>3 DEF left
      <4> QED
        BY <4>1, AscendingFacts
    <3>2. \A v \in 1 .. limit : v \in left .. end <=> left <= v /\ v <= right
      BY <1>1, <2>2, <2>3 DEF left
    <3> QED
      BY <2>1, <2>4, <3>1, <3>2
  <2>5. CASE ~(left <= right)
    <3>1. \A v \in 1 .. limit : ~(left <= v /\ v <= right)
      BY <1>1, <2>2, <2>5 DEF left
    <3>2. 0 <= high + 1 - low
      OBVIOUS
    <3> QED
      BY <1>2, <2>1, <2>5, <3>1, <3>2
  <2> QED
    BY <2>4, <2>5
<1>5. CASE token.kind = "star"
  <2>1. /\ Atoms(token, limit) = IF limit # 0 THEN Ascending(left, limit) ELSE <<>>
        /\ \A v : Means(token, v) <=> left <= v
    BY <1>5 DEF Atoms, Means
  <2> HIDE DEF left
  <2>2. CASE limit # 0
    <3>1. left \in Int /\ low <= left
      BY <1>1 DEF left
    <3>2. /\ Ascending(left, limit) \in Seq(Int) /\ Len(Ascending(left, limit)) <= high + 1 - low
          /\ Rises(Ascending(left, limit))
          /\ \A v : In(v, Ascending(left, limit)) <=> v \in left .. limit
      BY <3>1, AscendingFacts
    <3>3. \A v \in 1 .. limit : v \in left .. limit <=> left <= v
      BY <1>1 DEF left
    <3> QED
      BY <2>1, <2>2, <3>2, <3>3
  <2>3. CASE limit = 0
    <3>1. \A v \in 1 .. limit : FALSE
      BY <2>3
    <3>2. 0 <= high + 1 - low
      OBVIOUS
    <3> QED
      BY <1>2, <2>1, <2>3, <3>1, <3>2
  <2> QED
    BY <2>2, <2>3
<1>6. token.kind \in {"number", "star", "range"}
  BY DEF AnyToken
<1> QED
  BY <1>3, <1>4, <1>5, <1>6

\* The larger of zero and a number.
LEMMA HighFacts ==
  ASSUME NEW x \in Int
  PROVE  Max({0, x}) \in Nat /\ x <= Max({0, x})
<1>1. CASE x >= 0
  <2>1. Max({0, x}) = x
    BY <1>1 DEF Max
  <2> QED
    BY <1>1, <2>1
<1>2. CASE x < 0
  <2>1. Max({0, x}) = 0
    BY <1>2 DEF Max
  <2> QED
    BY <1>2, <2>1
<1> QED
  BY <1>1, <1>2

\* Of a vector that ascends, the last number is the largest.
LEMMA MaxFacts ==
  ASSUME NEW q \in Seq(Nat \ {0}), Ascends(q), NEW last, q # <<>> => last = Last(q)
  PROVE  /\ \A v : In(v, q) => v \in 1 .. last
         /\ ClimbsTo(q, Len(q))
<1>1. Len(q) \in Nat /\ DOMAIN q = 1 .. Len(q) /\ \A i \in 1 .. Len(q) : q[i] \in Nat \ {0}
  OBVIOUS
<1>2. \A i, j \in 1 .. Len(q) : i < j => q[i] < q[j]
  BY <1>1 DEF Ascends
<1>3. CASE q = <<>>
  <2>1. Len(q) = 0 /\ \A i \in 1 .. 0 : FALSE
    BY <1>3
  <2> QED
    BY <1>3, <2>1 DEF In, ClimbsTo
<1>4. CASE q # <<>>
  <2>1. Len(q) \in 1 .. Len(q) /\ last = q[Len(q)]
    BY <1>1, <1>4 DEF Last
  <2>2. \A i \in 1 .. Len(q) : q[i] <= q[Len(q)]
    BY <1>1, <1>2, <2>1
  <2>3. \A v : In(v, q) => v \in 1 .. last
    BY <1>1, <2>1, <2>2 DEF In
  <2>4. ClimbsTo(q, Len(q))
    BY <1>1, <1>2 DEF ClimbsTo
  <2> QED
    BY <1>1, <2>1, <2>3, <2>4
<1> QED
  BY <1>3, <1>4

\* The client has asked for message v in one of the first k tokens.
Asked(v, k) == \E n \in 1 .. k : Means(request[n], v)

\* No left end of the request is smaller.
LowEnd(low) == low <= 0 /\ \A n \in 1 .. Len(request) : low <= request[n].left

\* What expand_message_sequence() and the passes after it have made of the
\* tokens so far.
SetInv ==
  /\ request \in Seq(AnyToken)
  /\ present \in Seq(Nat \ {0}) /\ Ascends(present)
  /\ dwMax \in Int /\ (present # <<>> => dwMax = Last(present))
  /\ subatoms \in Seq(Int)
  /\ next \in 1 .. Len(request) + 1
  /\ stage \in {"expand", "sort", "unique", "intersect", "done"}
  /\ stage = "expand" => \A low \in Int : LowEnd(low) => Len(subatoms) <= (next - 1) * Span(low)
  /\ stage # "expand" => next = Len(request) + 1
  /\ stage \in {"expand", "sort", "unique"} =>
       \A v : In(v, present) => (In(v, subatoms) <=> Asked(v, next - 1))
  /\ stage = "unique" => Climbs(subatoms)
  /\ stage = "intersect" =>
       \E f \in Nat : /\ ClimbsTo(subatoms, f)
                      /\ \A v : In(v, present) => (InFront(v, subatoms, f) <=> Asked(v, next - 1))
  /\ stage = "done" => /\ Rises(subatoms)
                       /\ \A v : In(v, subatoms) <=> In(v, present) /\ Asked(v, next - 1)

LEMMA SetInvInit == MessageSetInit => SetInv
<1> SUFFICES ASSUME MessageSetInit
             PROVE  SetInv
  OBVIOUS
<1>1. request \in Seq(AnyToken)
  <2>1. PICK m \in 0 .. MaxTokens : request \in [1 .. m -> Tokens]
    BY DEF MessageSetInit, SeqOf
  <2>2. Tokens \subseteq AnyToken
    BY SetAssumption DEF Tokens, Numbers, AnyToken
  <2> HIDE DEF Tokens
  <2>3. m \in Nat
    BY <2>1, SetAssumption
  <2>4. request \in Seq(Tokens)
    BY <2>1, <2>3
  <2> QED
    BY <2>2, <2>4
<1>2. present \in Seq(Nat \ {0}) /\ Ascends(present)
  <2>1. PICK m \in 0 .. MaxMessages : present \in [1 .. m -> 1 .. MaxMessages]
    BY DEF MessageSetInit, SeqOf
  <2>2. m \in Nat /\ 1 .. MaxMessages \subseteq Nat \ {0}
    BY <2>1, SetAssumption
  <2>3. present \in Seq(Nat \ {0})
    BY <2>1, <2>2
  <2> QED
    BY <2>3 DEF MessageSetInit
<1>3. dwMax \in Int /\ (present # <<>> => dwMax = Last(present))
  <2>1. dwMax \in IF present = <<>> THEN Numbers ELSE {Last(present)}
    BY DEF MessageSetInit
  <2>2. CASE present = <<>>
    BY <2>1, <2>2, SetAssumption DEF Numbers
  <2>3. CASE present # <<>>
    <3>1. Len(present) \in Nat /\ Len(present) # 0
      BY <1>2, <2>3
    <3>2. Len(present) \in 1 .. Len(present)
      BY <3>1
    <3>3. Last(present) \in Int
      BY <1>2, <3>2 DEF Last
    <3> QED
      BY <2>1, <2>3, <3>3
  <2> QED
    BY <2>2, <2>3
<1>4. subatoms = <<>> /\ next = 1 /\ stage = "expand"
  BY DEF MessageSetInit
<1>5. Len(subatoms) = 0 /\ subatoms \in Seq(Int)
  BY <1>4
<1>6. next \in 1 .. Len(request) + 1
  BY <1>1, <1>4
<1>7. \A v : ~In(v, subatoms) /\ ~Asked(v, next - 1)
  <2>1. next - 1 = 0 /\ \A n \in 1 .. 0 : FALSE
    BY <1>4
  <2> QED
    BY <1>5, <2>1 DEF In, Asked
<1>8. ASSUME NEW low \in Int
      PROVE  Len(subatoms) <= (next - 1) * Span(low)
  <2>1. Span(low) \in Int
    BY <1>3, HighFacts DEF Span
  <2>2. (next - 1) * Span(low) = 0
    BY <1>4, <2>1
  <2> QED
    BY <1>5, <2>2
<1> HIDE DEF MessageSetInit
<1> QED
  BY <1>1, <1>2, <1>3, <1>4, <1>5, <1>6, <1>7, <1>8 DEF SetInv

\* One token more.
LEMMA ExpandStep == SetInv /\ Expand => SetInv'
<1> SUFFICES ASSUME SetInv, Expand
             PROVE  SetInv'
  OBVIOUS
<1>1. /\ stage = "expand" /\ next <= Len(request)
      /\ subatoms' = subatoms \o Atoms(request[next], dwMax)
      /\ next' = next + 1
      /\ request' = request /\ present' = present /\ dwMax' = dwMax /\ stage' = stage
  BY DEF Expand
<1>2. /\ request \in Seq(AnyToken) /\ present \in Seq(Nat \ {0}) /\ Ascends(present)
      /\ subatoms \in Seq(Int) /\ next \in 1 .. Len(request) + 1
      /\ dwMax \in Int /\ (present # <<>> => dwMax = Last(present))
      /\ \A low \in Int : LowEnd(low) => Len(subatoms) <= (next - 1) * Span(low)
      /\ \A v : In(v, present) => (In(v, subatoms) <=> Asked(v, next - 1))
  BY <1>1 DEF SetInv
<1>3. \A v : In(v, present) => v \in 1 .. dwMax
  BY <1>2, MaxFacts
<1> DEFINE token == request[next]
           l == dwMax
           some == Atoms(token, l)
           high == Max({0, l})
<1>5. Len(request) \in Nat /\ next \in 1 .. Len(request) /\ token \in AnyToken
  <2>1. next \in 1 .. Len(request)
    BY <1>1, <1>2
  <2> HIDE DEF AnyToken
  <2> QED
    BY <1>2, <2>1
<1>4. high \in Nat /\ l <= high /\ l \in Int
  BY <1>2, HighFacts
<1> HIDE DEF token, l, high
<1>6. /\ some \in Seq(Int)
      /\ \A v \in 1 .. l : In(v, some) <=> Means(token, v)
  <2>1. token.left \in Int
    BY <1>5 DEF AnyToken
  <2>2. PICK low \in Int : low <= token.left /\ low <= 0
    BY <2>1
  <2> QED
    BY <1>4, <1>5, <2>2, AtomsFacts
<1>7. subatoms' = subatoms \o some
  BY <1>1 DEF token, l
<1> HIDE DEF some
<1>8. /\ subatoms \o some \in Seq(Int)
      /\ Len(subatoms \o some) = Len(subatoms) + Len(some)
      /\ \A k \in 1 .. Len(subatoms) : (subatoms \o some)[k] = subatoms[k]
      /\ \A k \in 1 .. Len(some) : (subatoms \o some)[Len(subatoms) + k] = some[k]
  BY <1>2, <1>6, ConcatFacts
<1>9. ASSUME NEW low \in Int, LowEnd(low)'
      PROVE  Len(subatoms') <= (next' - 1) * Span(low)'
  <2> DEFINE s == Span(low)
             b == (next - 1) * s
  <2>1. LowEnd(low)
    BY <1>1, <1>9 DEF LowEnd
  <2>2. low <= 0 /\ low <= token.left
    BY <1>5, <2>1 DEF LowEnd, token
  <2>3. s = high + 1 - low /\ s \in Int
    BY <1>4 DEF Span, high, l
  <2>4. Len(some) <= s
    <3>1. Len(some) <= high + 1 - low
      BY <1>4, <1>5, <2>2, AtomsFacts DEF some
    <3> QED
      BY <2>3, <3>1
  <2>5. Len(subatoms) <= b
    BY <1>2, <2>1
  <2>6. Span(low)' = s
    BY <1>1 DEF Span
  <2> HIDE DEF s
  <2>7. ((next + 1) - 1) * s = b + s /\ b \in Int
    BY <1>2, <2>3
  <2>8. Len(subatoms) \in Nat /\ Len(some) \in Nat
    BY <1>2, <1>6
  <2> HIDE DEF b
  <2>9. Len(subatoms \o some) <= b + s
    BY <1>8, <2>3, <2>4, <2>5, <2>7, <2>8
  <2> QED
    BY <1>1, <1>7, <2>6, <2>7, <2>9
<1>10. \A v : In(v, subatoms \o some) <=> In(v, subatoms) \/ In(v, some)
  <2> DEFINE w == subatoms \o some
             n == Len(subatoms)
             k == Len(some)
  <2>1. n \in Nat /\ k \in Nat
    BY <1>2, <1>6
  <2>2. /\ Len(w) = n + k
        /\ \A i \in 1 .. n : w[i] = subatoms[i]
        /\ \A i \in 1 .. k : w[n + i] = some[i]
    BY <1>8
  <2> HIDE DEF w
  <2>3. \A v : In(v, subatoms) <=> \E i \in 1 .. n : subatoms[i] = v
    BY DEF In
  <2>4. \A v : In(v, some) <=> \E i \in 1 .. k : some[i] = v
    BY DEF In
  <2> HIDE DEF n, k
  <2>5. \A i \in 1 .. n + k : i \in 1 .. n \/ (i - n \in 1 .. k /\ n + (i - n) = i)
    BY <2>1
  <2>6. (\A i \in 1 .. n : i \in 1 .. n + k) /\ (\A i \in 1 .. k : n + i \in 1 .. n + k)
    BY <2>1
  <2>7. ASSUME NEW v, In(v, w)
        PROVE  In(v, subatoms) \/ In(v, some)
    <3>1. PICK i \in 1 .. n + k : w[i] = v
      BY <2>2, <2>7 DEF In
    <3> QED
      BY <2>2, <2>3, <2>4, <2>5, <3>1
  <2>8. ASSUME NEW v, In(v, subatoms) \/ In(v, some)
        PROVE  In(v, w)
    <3>1. CASE In(v, subatoms)
      BY <2>2, <2>3, <2>6, <3>1 DEF In
    <3>2. CASE In(v, some)
      <4>1. PICK i \in 1 .. k : some[i] = v
        BY <2>4, <3>2
      <4>2. w[n + i] = v /\ n + i \in 1 .. n + k
        BY <2>2, <2>6, <4>1
      <4> QED
        BY <2>2, <4>2 DEF In
    <3> QED
      BY <2>8, <3>1, <3>2
  <2> QED
    BY <2>7, <2>8 DEF w
<1>11. \A v : Asked(v, next) <=> Asked(v, next - 1) \/ Means(token, v)
  <2>1. \A n \in 1 .. next : n \in 1 .. next - 1 \/ n = next
    BY <1>5
  <2>2. next \in 1 .. next /\ \A n \in 1 .. next - 1 : n \in 1 .. next
    BY <1>5
  <2> QED
    BY <2>1, <2>2 DEF Asked, token
<1>12. \A v : In(v, present) => (In(v, subatoms \o some) <=> Asked(v, next))
  BY <1>2, <1>3, <1>6, <1>10, <1>11 DEF l
<1>13. \A v : In(v, present') => (In(v, subatoms') <=> Asked(v, next - 1)')
  <2>1. next' - 1 = next
    BY <1>1, <1>5
  <2>2. \A v : Asked(v, next - 1)' <=> Asked(v, next)
    BY <1>1, <2>1 DEF Asked
  <2> QED
    BY <1>1, <1>7, <1>12, <2>2
<1>14. next' \in 1 .. Len(request') + 1
  BY <1>1, <1>5
<1>15. request' \in Seq(AnyToken) /\ present' \in Seq(Nat \ {0}) /\ Ascends(present)'
       /\ dwMax' \in Int /\ (present' # <<>> => dwMax' = Last(present'))
       /\ subatoms' \in Seq(Int) /\ stage' = "expand"
  BY <1>1, <1>2, <1>7, <1>8 DEF Ascends
<1> QED
  BY <1>9, <1>13, <1>14, <1>15 DEF SetInv

\* The passes over the vector.
LEMMA PassStep == SetInv /\ (ExpandDone \/ Sort \/ MakeUnique \/ Intersect) => SetInv'
<1> SUFFICES ASSUME SetInv, ExpandDone \/ Sort \/ MakeUnique \/ Intersect
             PROVE  SetInv'
  OBVIOUS
<1>1. /\ request \in Seq(AnyToken) /\ present \in Seq(Nat \ {0}) /\ Ascends(present)
      /\ dwMax \in Int /\ (present # <<>> => dwMax = Last(present))
      /\ subatoms \in Seq(Int) /\ next \in 1 .. Len(request) + 1
  BY DEF SetInv
<1>2. /\ request' = request /\ present' = present /\ dwMax' = dwMax /\ next' = next
  BY DEF ExpandDone, Sort, MakeUnique, Intersect, Pass
<1>3. \A v : Asked(v, next - 1)' <=> Asked(v, next - 1)
  BY <1>2 DEF Asked
<1>4. /\ request' \in Seq(AnyToken) /\ present' \in Seq(Nat \ {0}) /\ Ascends(present')
      /\ dwMax' \in Int /\ (present' # <<>> => dwMax' = Last(present'))
      /\ next' \in 1 .. Len(request') + 1
  BY <1>1, <1>2
<1>5. CASE ExpandDone
  <2>1. /\ stage = "expand" /\ stage' = "sort" /\ subatoms' = subatoms /\ next > Len(request)
    BY <1>5 DEF ExpandDone, Pass
  <2>2. next' = Len(request') + 1
    <3>1. Len(request) \in Nat
      BY <1>1
    <3> QED
      BY <1>1, <1>2, <2>1, <3>1
  <2>3. \A v : In(v, present) => (In(v, subatoms) <=> Asked(v, next - 1))
    BY <2>1 DEF SetInv
  <2>4. \A v : In(v, present') => (In(v, subatoms') <=> Asked(v, next - 1)')
    BY <1>2, <1>3, <2>1, <2>3
  <2> QED
    BY <1>1, <1>4, <2>1, <2>2, <2>4 DEF SetInv
<1>6. CASE Sort
  <2>1. /\ stage = "sort" /\ stage' = "unique" /\ subatoms' = Sorted(subatoms)
    BY <1>6 DEF Sort, Pass
  <2>2. /\ next = Len(request) + 1
        /\ \A v : In(v, present) => (In(v, subatoms) <=> Asked(v, next - 1))
    BY <2>1 DEF SetInv
  <2>3. /\ subatoms' \in Seq(Int) /\ Climbs(subatoms') /\ \A v : In(v, subatoms') <=> In(v, subatoms)
    BY <1>1, <2>1, SortedFacts
  <2>4. \A v : In(v, present') => (In(v, subatoms') <=> Asked(v, next - 1)')
    BY <1>2, <1>3, <2>2, <2>3
  <2> QED
    BY <1>2, <1>4, <2>1, <2>2, <2>3, <2>4 DEF SetInv
<1>7. CASE MakeUnique
  <2>1. /\ stage = "unique" /\ stage' = "intersect" /\ subatoms' = Unique(subatoms)
    BY <1>7 DEF MakeUnique, Pass
  <2>2. /\ next = Len(request) + 1 /\ Climbs(subatoms)
        /\ \A v : In(v, present) => (In(v, subatoms) <=> Asked(v, next - 1))
    BY <2>1 DEF SetInv
  <2>3. subatoms' \in Seq(Int)
    BY <1>1, <2>1, <2>2, UniqueFacts
  <2>4. PICK f \in Nat : /\ ClimbsTo(subatoms', f)
                         /\ \A v : InFront(v, subatoms', f) <=> In(v, subatoms)
    <3>1. Arranges(subatoms', subatoms)
      BY <1>1, <2>1, <2>2, UniqueFacts
    <3> QED
      BY <3>1 DEF Arranges
  <2>5. \A v : In(v, present') => (InFront(v, subatoms', f) <=> Asked(v, next - 1)')
    BY <1>2, <1>3, <2>2, <2>4
  <2>6. \E n \in Nat : /\ ClimbsTo(subatoms', n)
                       /\ \A v : In(v, present') => (InFront(v, subatoms', n) <=> Asked(v, next - 1)')
    BY <2>4, <2>5
  <2> QED
    BY <1>2, <1>4, <2>1, <2>2, <2>3, <2>6 DEF SetInv
<1>8. CASE Intersect
  <2>1. /\ stage = "intersect" /\ stage' = "done" /\ subatoms' = Intersection(subatoms, present)
    BY <1>8 DEF Intersect, Pass
  <2>2. next = Len(request) + 1
    BY <2>1 DEF SetInv
  <2>3. PICK f \in Nat : /\ ClimbsTo(subatoms, f)
                         /\ \A v : In(v, present) => (InFront(v, subatoms, f) <=> Asked(v, next - 1))
    BY <2>1 DEF SetInv
  <2>4. ClimbsTo(present, Len(present)) /\ present \in Seq(Int)
    <3>1. present \in Seq(Int)
      BY <1>1
    <3> QED
      BY <1>1, <3>1, MaxFacts
  <2>5. /\ subatoms' \in Seq(Int) /\ Rises(subatoms')
        /\ \A v : In(v, subatoms')
                  <=> InFront(v, subatoms, f) /\ InFront(v, present, Len(present)) /\ v # 0
    BY <1>1, <2>1, <2>3, <2>4, IntersectionFacts
  <2>6. \A v : InFront(v, present, Len(present)) <=> In(v, present)
    BY DEF In, InFront
  <2>7. \A v : In(v, present) => v # 0
    <3>1. \A i \in 1 .. Len(present) : present[i] # 0
      BY <1>1
    <3> QED
      BY <3>1 DEF In
  <2>8. \A v : In(v, subatoms') <=> In(v, present') /\ Asked(v, next - 1)'
    BY <1>2, <1>3, <2>3, <2>5, <2>6, <2>7
  <2> QED
    BY <1>2, <1>4, <2>1, <2>2, <2>5, <2>8 DEF SetInv
<1> QED
  BY <1>5, <1>6, <1>7, <1>8

LEMMA SetInvNext == SetInv /\ [MessageSetNext]_vars => SetInv'
<1>1. ASSUME SetInv, UNCHANGED vars
      PROVE  SetInv'
  BY <1>1 DEF SetInv, vars, Asked, LowEnd, Span
<1> QED
  BY <1>1, ExpandStep, PassStep DEF MessageSetNext

\* Whatever right ends a client writes, a token makes
\* expand_message_sequence() find no more numbers than lie between the
\* smallest left end, or zero, and dwMax.
THEOREM TokensAreBounded == MessageSetSpec => []ExpansionIsBounded
<1>1. SetInv => ExpansionIsBounded
  <2> SUFFICES ASSUME SetInv, stage = "expand", NEW low \in MinNumber .. 0,
                      \A t \in ToSet(request) : low <= t.left
               PROVE  Len(subatoms) <= (next - 1) * Span(low)
    BY DEF ExpansionIsBounded
  <2>1. low \in Int /\ low <= 0
    BY SetAssumption
  <2>2. DOMAIN request = 1 .. Len(request)
    <3>1. request \in Seq(AnyToken)
      BY DEF SetInv
    <3> HIDE DEF AnyToken
    <3> QED
      BY <3>1
  <2>3. LowEnd(low)
    BY <2>1, <2>2 DEF LowEnd, ToSet
  <2> QED
    BY <2>1, <2>3 DEF SetInv
<1> QED
  BY <1>1, SetInvInit, SetInvNext, PTL DEF MessageSetSpec

\* Whatever a client asks for, and whatever messages there are, what
\* atoms_intersection() leaves are the messages there are and the client asked
\* for, each once and in their order.
THEOREM RequestsAreResolved == MessageSetSpec => []RequestIsResolved
<1>1. SetInv => RequestIsResolved
  <2> SUFFICES ASSUME SetInv, stage = "done"
               PROVE  /\ Ascends(subatoms)
                      /\ ToSet(subatoms)
                           = {n \in ToSet(present) : \E t \in ToSet(request) : Means(t, n)}
    BY DEF RequestIsResolved
  <2>1. /\ request \in Seq(AnyToken) /\ present \in Seq(Nat \ {0}) /\ subatoms \in Seq(Int)
        /\ next = Len(request) + 1 /\ Rises(subatoms)
        /\ \A v : In(v, subatoms) <=> In(v, present) /\ Asked(v, next - 1)
    BY DEF SetInv
  <2>2. /\ DOMAIN subatoms = 1 .. Len(subatoms) /\ DOMAIN present = 1 .. Len(present)
        /\ DOMAIN request = 1 .. Len(request)
    <3> HIDE DEF AnyToken
    <3> QED
      BY <2>1
  <2>3. next - 1 = Len(request)
    <3>1. Len(request) \in Nat
      BY <2>1
    <3> QED
      BY <2>1, <3>1
  <2>4. Ascends(subatoms)
    BY <2>1, <2>2 DEF Ascends, Rises
  <2>5. \A v : (v \in ToSet(subatoms) <=> In(v, subatoms)) /\ (v \in ToSet(present) <=> In(v, present))
    BY <2>2 DEF ToSet, In
  <2>6. \A v : Asked(v, next - 1) <=> \E t \in ToSet(request) : Means(t, v)
    BY <2>2, <2>3 DEF ToSet, Asked
  <2> QED
    BY <2>1, <2>4, <2>5, <2>6
<1> QED
  BY <1>1, SetInvInit, SetInvNext, PTL DEF MessageSetSpec

-----------------------------------------------------------------------------
(* SEARCH. *)

\* Sorted, and its repetitions moved behind.
LEMMA OrderedFacts ==
  ASSUME NEW q \in Seq(Int)
  PROVE  Ordered(q) \in Seq(Int) /\ Arranges(Ordered(q), q)
<1> DEFINE r == Sorted(q)
<1>1. /\ r \in Seq(Int) /\ Climbs(r) /\ (Rises(q) => Rises(r))
      /\ \A v : In(v, r) <=> In(v, q)
  BY SortedFacts
<1>2. Ordered(q) = Unique(r)
  BY DEF Ordered
<1> HIDE DEF r
<1>3. Unique(r) \in Seq(Int) /\ Arranges(Unique(r), r)
  BY <1>1, UniqueFacts
<1>4. Arranges(Unique(r), q)
  BY <1>1, <1>3 DEF Arranges
<1> QED
  BY <1>2, <1>3, <1>4

\* What atoms_intersection() makes of a vector without repetitions and another.
LEMMA BothFacts ==
  ASSUME NEW x \in Seq(Int), Rises(x), NEW y \in Seq(Int)
  PROVE  /\ Intersection(Ordered(x), Ordered(y)) \in Seq(Int)
         /\ Rises(Intersection(Ordered(x), Ordered(y)))
         /\ \A v : In(v, Intersection(Ordered(x), Ordered(y)))
                   <=> In(v, x) /\ In(v, y) /\ v # 0
<1> DEFINE a == Ordered(x)
           b == Ordered(y)
<1>1. a \in Seq(Int) /\ b \in Seq(Int) /\ Arranges(a, x) /\ Arranges(b, y)
  BY OrderedFacts
<1>2. PICK f \in Nat : /\ ClimbsTo(a, f)
                       /\ \A v : InFront(v, a, f) <=> In(v, x)
                       /\ (Rises(x) => f = Len(a))
  BY <1>1 DEF Arranges
<1>3. PICK g \in Nat : ClimbsTo(b, g) /\ \A v : InFront(v, b, g) <=> In(v, y)
  BY <1>1 DEF Arranges
<1> HIDE DEF a, b
<1>4. /\ Intersection(a, b) \in Seq(Int)
      /\ Rises(Intersection(a, b))
      /\ \A v : In(v, Intersection(a, b)) <=> InFront(v, a, f) /\ InFront(v, b, g) /\ v # 0
  BY <1>1, <1>2, <1>3, IntersectionFacts
<1>5. \A v : In(v, Intersection(a, b)) <=> In(v, x) /\ In(v, y) /\ v # 0
  BY <1>2, <1>3, <1>4
<1> QED
  BY <1>4, <1>5 DEF a, b

\* Numbers that are no messages have no UID; the order stays.
LEMMA ToUidsFacts ==
  ASSUME NEW x \in Seq(Int), Rises(x), messages \in Seq(Nat \ {0}), Ascends(messages)
  PROVE  /\ MessageNumbersToUids(x) \in Seq(Int)
         /\ Rises(MessageNumbersToUids(x))
         /\ \A v : In(v, MessageNumbersToUids(x))
                   <=> \E n \in 1 .. Len(messages) : In(n, x) /\ messages[n] = v
<1> DEFINE places == {i \in DOMAIN x : x[i] \in DOMAIN messages}
           known == Chosen(x, places)
           r == [i \in DOMAIN known |-> messages[known[i]]]
<1>1. /\ DOMAIN messages = 1 .. Len(messages) /\ DOMAIN x = 1 .. Len(x) /\ Len(x) \in Nat
      /\ \A n \in 1 .. Len(messages) : messages[n] \in Int
      /\ \A i, j \in 1 .. Len(messages) : i < j => messages[i] < messages[j]
  <2>1. DOMAIN messages = 1 .. Len(messages) /\ DOMAIN x = 1 .. Len(x) /\ Len(x) \in Nat
    OBVIOUS
  <2>2. \A n \in 1 .. Len(messages) : messages[n] \in Int
    OBVIOUS
  <2>3. \A i, j \in 1 .. Len(messages) : i < j => messages[i] < messages[j]
    BY <2>1 DEF Ascends
  <2> QED
    BY <2>1, <2>2, <2>3
<1>2. MessageNumbersToUids(x) = r
  BY DEF MessageNumbersToUids
<1>3. Steep(x, places)
  BY DEF Steep, Rises
<1>4. \A v : (\E i \in 1 .. Len(x) : i \in places /\ x[i] = v)
           <=> In(v, x) /\ v \in 1 .. Len(messages)
  BY <1>1 DEF In
<1> HIDE DEF places
<1>5. /\ known \in Seq(Int) /\ Rises(known)
      /\ \A v : In(v, known) <=> \E i \in 1 .. Len(x) : i \in places /\ x[i] = v
  BY <1>3, ChosenFacts
<1> HIDE DEF known
<1>6. /\ Len(known) \in Nat /\ DOMAIN known = 1 .. Len(known)
      /\ \A i \in 1 .. Len(known) : known[i] \in 1 .. Len(messages)
  <2>1. Len(known) \in Nat /\ DOMAIN known = 1 .. Len(known)
    BY <1>5
  <2>2. \A i \in 1 .. Len(known) : In(known[i], known)
    BY DEF In
  <2> QED
    BY <1>4, <1>5, <2>1, <2>2
<1>7. /\ r \in Seq(Int) /\ Len(r) = Len(known)
      /\ \A i \in 1 .. Len(known) : r[i] = messages[known[i]]
  BY <1>1, <1>6
<1> HIDE DEF r
<1>8. Rises(r)
  BY <1>1, <1>5, <1>6, <1>7 DEF Rises
<1>9. ASSUME NEW v
      PROVE  In(v, r) <=> \E n \in 1 .. Len(messages) : In(n, x) /\ messages[n] = v
  <2>1. In(v, r) <=> \E i \in 1 .. Len(known) : messages[known[i]] = v
    BY <1>7 DEF In
  <2>2. (\E i \in 1 .. Len(known) : messages[known[i]] = v)
        <=> \E n \in 1 .. Len(messages) : In(n, known) /\ messages[n] = v
    BY <1>6 DEF In
  <2> QED
    BY <1>4, <1>5, <2>1, <2>2
<1> QED
  BY <1>2, <1>7, <1>8, <1>9

\* And back again.
LEMMA ToNumbersFacts ==
  ASSUME NEW x \in Seq(Int), Rises(x), messages \in Seq(Nat \ {0}), Ascends(messages),
         \A v : In(v, x) => In(v, messages)
  PROVE  /\ UidsToMessageNumbers(x) \in Seq(Int)
         /\ Rises(UidsToMessageNumbers(x))
         /\ \A n : In(n, UidsToMessageNumbers(x))
                   <=> n \in 1 .. Len(messages) /\ In(messages[n], x)
<1> DEFINE M == 1 .. Len(messages)
           number(v) == CHOOSE n \in DOMAIN messages : messages[n] = v
           r == [i \in DOMAIN x |-> number(x[i])]
<1>1. /\ DOMAIN messages = M /\ DOMAIN x = 1 .. Len(x) /\ Len(x) \in Nat
      /\ \A n \in M : messages[n] \in Int /\ n \in Int
      /\ \A i, j \in M : i < j => messages[i] < messages[j]
      /\ \A i \in 1 .. Len(x) : x[i] \in Int
  <2>1. DOMAIN messages = M /\ DOMAIN x = 1 .. Len(x) /\ Len(x) \in Nat
    OBVIOUS
  <2>2. \A n \in M : messages[n] \in Int /\ n \in Int
    OBVIOUS
  <2>3. \A i, j \in M : i < j => messages[i] < messages[j]
    BY <2>1 DEF Ascends
  <2>4. \A i \in 1 .. Len(x) : x[i] \in Int
    OBVIOUS
  <2> QED
    BY <2>1, <2>2, <2>3, <2>4
<1>2. UidsToMessageNumbers(x) = r
  BY DEF UidsToMessageNumbers
<1>3. \A i \in 1 .. Len(x) : number(x[i]) \in M /\ messages[number(x[i])] = x[i]
  <2>1. \A i \in 1 .. Len(x) : \E n \in M : messages[n] = x[i]
    BY DEF In
  <2> QED
    BY <1>1, <2>1
<1>4. \A i, j \in M : messages[i] = messages[j] => i = j
  <2>1. \A i, j \in M : i = j \/ i < j \/ j < i
    BY <1>1
  <2>2. \A i, j \in M : i < j => messages[i] # messages[j]
    BY <1>1
  <2> QED
    BY <2>1, <2>2
<1>5. \A i, j \in M : messages[i] < messages[j] => i < j
  <2>1. \A i, j \in M : i = j \/ i < j \/ j < i
    BY <1>1
  <2>2. \A i, j \in M : (i = j \/ j < i) => ~(messages[i] < messages[j])
    BY <1>1
  <2> QED
    BY <2>1, <2>2
<1> HIDE DEF number, M
<1>6. /\ r \in Seq(Int) /\ Len(r) = Len(x)
      /\ \A i \in 1 .. Len(x) : r[i] = number(x[i])
  BY <1>1, <1>3
<1> HIDE DEF r
<1>7. Rises(r)
  <2> SUFFICES ASSUME NEW i \in 1 .. Len(x), NEW j \in 1 .. Len(x), i < j
               PROVE  r[i] < r[j]
    BY <1>6 DEF Rises
  <2>1. x[i] < x[j]
    BY DEF Rises
  <2> QED
    BY <1>3, <1>5, <1>6, <2>1
<1>8. ASSUME NEW n
      PROVE  In(n, r) <=> n \in M /\ In(messages[n], x)
  <2>1. ASSUME In(n, r)
        PROVE  n \in M /\ In(messages[n], x)
    <3>1. PICK i \in 1 .. Len(x) : n = number(x[i])
      BY <1>6, <2>1 DEF In
    <3> QED
      BY <1>3, <3>1 DEF In
  <2>2. ASSUME n \in M, In(messages[n], x)
        PROVE  In(n, r)
    <3>1. PICK i \in 1 .. Len(x) : x[i] = messages[n]
      BY <2>2 DEF In
    <3>2. number(x[i]) = n
      BY <1>3, <1>4, <2>2, <3>1
    <3> QED
      BY <1>6, <3>2 DEF In
  <2> QED
    BY <2>1, <2>2
<1> QED
  BY <1>2, <1>6, <1>7, <1>8 DEF M

\* The numbers the client knows the messages by.
LEMMA KnownFacts ==
  ASSUME messages \in Seq(Nat \ {0}), Ascends(messages), uid \in BOOLEAN
  PROVE  /\ Known \in Seq(Nat \ {0})
         /\ Ascends(Known)
         /\ uid => Known = messages
         /\ ~uid => \A n : In(n, Known) <=> n \in 1 .. Len(messages)
<1>1. CASE uid
  BY <1>1 DEF Known
<1>2. CASE ~uid
  <2> DEFINE r == [i \in DOMAIN messages |-> i]
  <2>1. Known = r
    BY <1>2 DEF Known
  <2>2. /\ Len(messages) \in Nat /\ DOMAIN messages = 1 .. Len(messages)
        /\ \A i \in 1 .. Len(messages) : i \in Nat \ {0}
    OBVIOUS
  <2>3. /\ r \in Seq(Nat \ {0}) /\ Len(r) = Len(messages)
        /\ DOMAIN r = 1 .. Len(messages) /\ \A i \in 1 .. Len(messages) : r[i] = i
    BY <2>2
  <2> HIDE DEF r
  <2>4. Ascends(r)
    BY <2>3 DEF Ascends
  <2>5. \A n : In(n, r) <=> n \in 1 .. Len(messages)
    BY <2>3 DEF In
  <2> QED
    BY <1>2, <2>1, <2>3, <2>4, <2>5
<1> QED
  BY <1>1, <1>2

\* What the criteria ask for and the engine has found.
LEMMA FoundFacts ==
  ASSUME messages \in Seq(Nat \ {0}), Ascends(messages), uid \in BOOLEAN,
         m_dwMaxUid \in Int, messages # <<>> => m_dwMaxUid = Last(messages),
         message_set \in AnyToken, search_result_set \in Seq(Int),
         \A v : In(v, search_result_set) => In(v, messages)
  PROVE  /\ Found \in Seq(Int)
         /\ Rises(Found)
         /\ \A n : In(n, Found) <=> /\ In(n, Known)
                                    /\ Means(message_set, n)
                                    /\ In(IF uid THEN n ELSE messages[n], search_result_set)
<1> DEFINE limit == SearchMax
           asked == Atoms(message_set, limit)
           hits == search_result_set
<1>1. /\ Known \in Seq(Nat \ {0}) /\ Ascends(Known)
      /\ (uid => Known = messages)
      /\ (~uid => \A n : In(n, Known) <=> n \in 1 .. Len(messages))
  BY KnownFacts
<1>2. limit \in Int /\ \A v : In(v, Known) => v \in 1 .. limit
  <2>1. CASE uid
    <3>1. limit = m_dwMaxUid /\ Known = messages
      BY <1>1, <2>1 DEF SearchMax
    <3>2. \A v : In(v, messages) => v \in 1 .. m_dwMaxUid
      BY MaxFacts
    <3> HIDE DEF limit
    <3> QED
      BY <3>1, <3>2
  <2>2. CASE ~uid
    <3>1. limit = Len(messages) /\ Len(messages) \in Int
      BY <2>2 DEF SearchMax
    <3> QED
      BY <1>1, <2>2, <3>1
  <2> QED
    BY <2>1, <2>2
<1> HIDE DEF limit
<1>3. /\ asked \in Seq(Int) /\ Rises(asked)
      /\ \A v \in 1 .. limit : In(v, asked) <=> Means(message_set, v)
  <2>1. message_set.left \in Int
    BY DEF AnyToken
  <2>2. PICK low \in Int : low <= message_set.left /\ low <= 0
    BY <2>1
  <2>3. PICK high \in Nat : limit <= high
    BY <1>2, HighFacts
  <2> QED
    BY <1>2, <2>2, <2>3, AtomsFacts
<1>4. Found = LET found == Intersection(Ordered(IF uid THEN asked ELSE MessageNumbersToUids(asked)),
                                        Ordered(hits))
              IN IF uid THEN found ELSE UidsToMessageNumbers(found)
  BY DEF Found, limit
<1> HIDE DEF asked
<1>5. \A n : In(n, Known) => n # 0 /\ (In(n, asked) <=> Means(message_set, n))
  <2>1. \A v \in 1 .. limit : v # 0
    BY <1>2
  <2> QED
    BY <1>2, <1>3, <2>1
<1>6. CASE uid
  <2> DEFINE found == Intersection(Ordered(asked), Ordered(hits))
  <2>1. Found = found
    BY <1>4, <1>6
  <2>2. /\ found \in Seq(Int) /\ Rises(found)
        /\ \A v : In(v, found) <=> In(v, asked) /\ In(v, hits) /\ v # 0
    BY <1>3, BothFacts
  <2> HIDE DEF found
  <2>3. \A n : In(n, hits) => In(n, Known)
    BY <1>1, <1>6
  <2>4. \A n : In(n, found) <=> In(n, Known) /\ Means(message_set, n) /\ In(n, hits)
    BY <1>5, <2>2, <2>3
  <2> QED
    BY <1>6, <2>1, <2>2, <2>4
<1>7. CASE ~uid
  <2> DEFINE nums == MessageNumbersToUids(asked)
             found == Intersection(Ordered(nums), Ordered(hits))
             r == UidsToMessageNumbers(found)
  <2>1. Found = r
    BY <1>4, <1>7
  <2>2. /\ nums \in Seq(Int) /\ Rises(nums)
        /\ \A v : In(v, nums) <=> \E n \in 1 .. Len(messages) : In(n, asked) /\ messages[n] = v
    BY <1>3, ToUidsFacts
  <2> HIDE DEF nums
  <2>3. /\ found \in Seq(Int) /\ Rises(found)
        /\ \A v : In(v, found) <=> In(v, nums) /\ In(v, hits) /\ v # 0
    BY <2>2, BothFacts
  <2> HIDE DEF found
  <2>4. \A v : In(v, found) => In(v, messages)
    BY <2>3
  <2>5. /\ r \in Seq(Int) /\ Rises(r)
        /\ \A n : In(n, r) <=> n \in 1 .. Len(messages) /\ In(messages[n], found)
    BY <2>3, <2>4, ToNumbersFacts
  <2> HIDE DEF r
  <2>6. ASSUME NEW n \in 1 .. Len(messages)
        PROVE  In(messages[n], nums) <=> In(n, asked)
    <3>1. \A k \in 1 .. Len(messages) : messages[k] = messages[n] => k = n
      <4>1. DOMAIN messages = 1 .. Len(messages)
        OBVIOUS
      <4>2. \A k \in 1 .. Len(messages) : k < n => messages[k] < messages[n]
        BY <4>1 DEF Ascends
      <4>3. \A k \in 1 .. Len(messages) : n < k => messages[n] < messages[k]
        BY <4>1 DEF Ascends
      <4>4. \A k \in 1 .. Len(messages) : messages[k] \in Int
        OBVIOUS
      <4>5. \A k \in 1 .. Len(messages) : k = n \/ k < n \/ n < k
        OBVIOUS
      <4> QED
        BY <4>2, <4>3, <4>4, <4>5
    <3> QED
      BY <2>2, <3>1
  <2>7. \A n \in 1 .. Len(messages) : messages[n] # 0
    OBVIOUS
  <2>8. \A n : In(n, r) <=> In(n, Known) /\ Means(message_set, n) /\ In(messages[n], hits)
    BY <1>1, <1>5, <1>7, <2>3, <2>5, <2>6, <2>7
  <2> QED
    BY <1>7, <2>1, <2>5, <2>8
<1> QED
  BY <1>6, <1>7

\* What a search has got to.
SearchInv ==
  /\ words \in Seq(Words)
  /\ uid \in BOOLEAN
  /\ messages \in Seq(Nat \ {0}) /\ Ascends(messages)
  /\ m_dwMaxUid \in Int /\ (messages # <<>> => m_dwMaxUid = Last(messages))
  /\ message_set \in AnyToken \cup {NilSet}
  /\ step \in {"asked", "keys", "engine", "results", "answered", "swallowed", "failed"}
  /\ results \in Seq(Nat)
  /\ at \in 1 .. Len(results) + 1
  /\ search_result_set \in Seq(Int)
  /\ step = "keys" => words # <<>>
  /\ step \in {"asked", "keys", "engine"} =>
       at = 1 /\ search_result_set = <<>> /\ vints = <<>>
  /\ step \in {"results", "swallowed"} => vints = <<>>
  /\ step \in {"engine", "results"} => message_set \in AnyToken
  /\ \A v : In(v, search_result_set)
            <=> In(v, messages) /\ \E i \in 1 .. at - 1 : results[i] = v
  /\ step = "answered" =>
       \/ at = 1 /\ vints = <<>>
       \/ /\ vints \in Seq(Int) /\ Rises(vints)
          /\ message_set \in AnyToken
          /\ \A n : In(n, vints) <=> /\ In(n, Known)
                                     /\ Means(message_set, n)
                                     /\ In(IF uid THEN n ELSE messages[n], search_result_set)

LEMMA SearchInvInit == SearchInit => SearchInv
<1> SUFFICES ASSUME SearchInit
             PROVE  SearchInv
  OBVIOUS
<1>1. /\ words \in Criteria /\ uid \in BOOLEAN /\ message_set = NilSet /\ step = "asked"
      /\ results = <<>> /\ at = 1 /\ search_result_set = <<>> /\ vints = <<>>
      /\ messages \in SeqOf(1 .. MaxUid, MaxUid) /\ Ascends(messages)
      /\ m_dwMaxUid \in IF messages = <<>> THEN -1 .. MaxUid ELSE {Last(messages)}
  BY DEF SearchInit
<1>2. words \in Seq(Words)
  <2> HIDE DEF Words
  <2> QED
    BY <1>1, SearchAssumption
<1>3. messages \in Seq(Nat \ {0})
  <2>1. PICK m \in 0 .. MaxUid : messages \in [1 .. m -> 1 .. MaxUid]
    BY <1>1 DEF SeqOf
  <2>2. m \in Nat /\ 1 .. MaxUid \subseteq Nat \ {0}
    BY <2>1, SearchAssumption
  <2> QED
    BY <2>1, <2>2
<1>4. /\ results \in Seq(Nat) /\ Len(results) = 0 /\ search_result_set \in Seq(Int)
      /\ Len(search_result_set) = 0
  BY <1>1
<1>7. m_dwMaxUid \in Int /\ (messages # <<>> => m_dwMaxUid = Last(messages))
  <2>1. CASE messages = <<>>
    BY <1>1, <2>1, SearchAssumption
  <2>2. CASE messages # <<>>
    <3>1. Len(messages) \in Nat /\ Len(messages) # 0
      BY <1>3, <2>2
    <3>2. Len(messages) \in 1 .. Len(messages)
      BY <3>1
    <3>3. Last(messages) \in Int
      BY <1>3, <3>2 DEF Last
    <3> QED
      BY <1>1, <2>2, <3>3
  <2> QED
    BY <2>1, <2>2
<1>5. at \in 1 .. Len(results) + 1
  BY <1>1, <1>4
<1>6. \A v : In(v, search_result_set)
           <=> In(v, messages) /\ \E i \in 1 .. at - 1 : results[i] = v
  <2>1. at - 1 = 0 /\ \A i \in 1 .. 0 : FALSE
    BY <1>1
  <2> QED
    BY <1>4, <2>1 DEF In
<1> QED
  BY <1>1, <1>2, <1>3, <1>4, <1>5, <1>6, <1>7 DEF SearchInv

\* A message set is a token.
LEMMA MessageSetIsToken ==
  ASSUME NEW w \in Words, IsMessageSet(w)
  PROVE  w \in AnyToken
<1>1. CASE w \in AnyToken
  BY <1>1
<1>2. CASE w \in [kind : {"key"}, name : STRING]
  <2>1. w.kind = "key"
    BY <1>2
  <2>2. ~IsMessageSet(w)
    BY <2>1 DEF IsMessageSet
  <2> QED
    BY <2>2
<1> QED
  BY <1>1, <1>2 DEF Words

\* The steps before the engine is asked.
LEMMA CriteriaStep == SearchInv /\ (OnSearch \/ DeconstructCriteria) => SearchInv'
<1> SUFFICES ASSUME SearchInv, OnSearch \/ DeconstructCriteria
             PROVE  SearchInv'
  OBVIOUS
<1>1. /\ words \in Seq(Words) /\ uid \in BOOLEAN
      /\ messages \in Seq(Nat \ {0}) /\ Ascends(messages)
      /\ m_dwMaxUid \in Int /\ (messages # <<>> => m_dwMaxUid = Last(messages))
      /\ message_set \in AnyToken \cup {NilSet} /\ results \in Seq(Nat)
      /\ at \in 1 .. Len(results) + 1 /\ search_result_set \in Seq(Int)
      /\ \A v : In(v, search_result_set)
                <=> In(v, messages) /\ \E i \in 1 .. at - 1 : results[i] = v
  BY DEF SearchInv
<1>2. UNCHANGED <<uid, messages, m_dwMaxUid, results, at, search_result_set, vints>>
  BY DEF OnSearch, DeconstructCriteria
<1>3. /\ uid' \in BOOLEAN
      /\ messages' \in Seq(Nat \ {0}) /\ Ascends(messages')
      /\ m_dwMaxUid' \in Int /\ (messages' # <<>> => m_dwMaxUid' = Last(messages'))
      /\ results' \in Seq(Nat)
      /\ at' \in 1 .. Len(results') + 1 /\ search_result_set' \in Seq(Int)
      /\ \A v : In(v, search_result_set')
                <=> In(v, messages') /\ \E i \in 1 .. at' - 1 : results'[i] = v
  BY <1>1, <1>2
<1>4. step \in {"asked", "keys"} /\ at' = 1 /\ search_result_set' = <<>> /\ vints' = <<>>
  <2>1. step \in {"asked", "keys"}
    BY DEF OnSearch, DeconstructCriteria
  <2> QED
    BY <1>2, <2>1 DEF SearchInv
<1>5. CASE OnSearch
  <2>1. /\ step' \in {"failed", "keys"} /\ words' \in Seq(Words)
        /\ message_set' \in AnyToken \cup {NilSet}
        /\ step' = "keys" => words' # <<>>
    <3>1. CASE Len(words) < 2
      BY <1>1, <1>5, <3>1 DEF OnSearch
    <3>2. CASE ~(Len(words) < 2)
      <4> HIDE DEF Words, AnyToken
      <4>1. Head(words) \in Words /\ Tail(words) \in Seq(Words) /\ Tail(words) # <<>> /\ words # <<>>
        <5>1. Len(words) \in Nat /\ Len(words) >= 2
          BY <1>1, <3>2
        <5>2. Head(words) \in Words /\ Tail(words) \in Seq(Words) /\ Len(Tail(words)) = Len(words) - 1
          BY <1>1, <5>1
        <5>3. words # <<>>
          BY <5>1
        <5> DEFINE others == Tail(words)
        <5>4. others # <<>>
          <6>1. others \in Seq(Words) /\ Len(others) >= 1
            BY <5>1, <5>2
          <6> HIDE DEF others
          <6> QED
            BY <6>1
        <5> QED
          BY <5>2, <5>3, <5>4
      <4>2. IsMessageSet(Head(words)) => Head(words) \in AnyToken
        BY <4>1, MessageSetIsToken
      <4>3. /\ step' = "keys"
            /\ IF IsMessageSet(Head(words))
               THEN message_set' = Head(words) /\ words' = Tail(words)
               ELSE UNCHANGED <<words, message_set>>
        BY <1>5, <3>2 DEF OnSearch
      <4> QED
        BY <1>1, <4>1, <4>2, <4>3
    <3> QED
      BY <3>1, <3>2
  <2> QED
    BY <1>3, <1>4, <2>1 DEF SearchInv
<1>6. CASE DeconstructCriteria
  <2>1. step = "keys" /\ words' = words /\ words # <<>>
    BY <1>6 DEF DeconstructCriteria, SearchInv
  <2> DEFINE w == Head(words)
             resolves == Len(words) > 1 /\ Key("(") \notin ToSet(words)
             set == CASE w = Key("all") -> AllMessages
                      [] w = Key("text") -> IF message_set = NilSet THEN AllMessages ELSE message_set
                      [] OTHER -> w
  <2>2. /\ ~resolves => step' = "answered" /\ message_set' = message_set
        /\ resolves /\ ~IsKey(w) /\ ~IsMessageSet(w) =>
             step' = "failed" /\ message_set' = message_set
        /\ resolves /\ (IsKey(w) \/ IsMessageSet(w)) => step' = "engine" /\ message_set' = set
    BY <1>6 DEF DeconstructCriteria
  <2>3. w \in Words
    <3> HIDE DEF Words
    <3> QED
      BY <1>1, <2>1
  <2>4. AllMessages \in AnyToken
    BY DEF AllMessages, AnyToken
  <2>5. IsKey(w) \/ IsMessageSet(w) => set \in AnyToken
    <3>1. Key("text") # Key("all")
      BY DEF Key
    <3>2. CASE w = Key("all")
      <4>1. set = AllMessages
        BY <3>2, <3>1
      <4> QED
        BY <2>4, <4>1
    <3>3. CASE w = Key("text")
      <4>2. set = IF message_set = NilSet THEN AllMessages ELSE message_set
        BY <3>3, <3>1
      <4> QED
        BY <1>1, <2>4, <4>2
    <3>4. CASE w # Key("all") /\ w # Key("text")
      <4>1. set = w
        BY <3>4
      <4> HIDE DEF w
      <4>2. IsMessageSet(w) => w \in AnyToken
        BY <2>3, MessageSetIsToken
      <4>3. ~IsKey(w)
        BY <3>4 DEF IsKey
      <4> QED
        BY <4>1, <4>2, <4>3
    <3> QED
      BY <3>2, <3>3, <3>4
  <2> HIDE DEF w, resolves, set
  <2>6. \/ step' = "answered" /\ message_set' = message_set
        \/ step' = "failed" /\ message_set' = message_set
        \/ step' = "engine" /\ message_set' \in AnyToken
    BY <2>2, <2>5
  <2>7. words' \in Seq(Words) /\ message_set' \in AnyToken \cup {NilSet}
    BY <1>1, <2>1, <2>6
  <2> QED
    BY <1>3, <1>4, <2>6, <2>7 DEF SearchInv
<1> QED
  BY <1>5, <1>6

\* The engine, its results, and the response.
LEMMA ResultsStep ==
  SearchInv /\ (ResolveParentheticalKey \/ TakeResult \/ ResultThrows \/ SearchResponse)
    => SearchInv'
<1> SUFFICES ASSUME SearchInv,
                    ResolveParentheticalKey \/ TakeResult \/ ResultThrows \/ SearchResponse
             PROVE  SearchInv'
  OBVIOUS
<1>1. /\ words \in Seq(Words) /\ uid \in BOOLEAN
      /\ messages \in Seq(Nat \ {0}) /\ Ascends(messages)
      /\ m_dwMaxUid \in Int /\ (messages # <<>> => m_dwMaxUid = Last(messages))
      /\ message_set \in AnyToken /\ results \in Seq(Nat)
      /\ at \in 1 .. Len(results) + 1 /\ search_result_set \in Seq(Int)
      /\ \A v : In(v, search_result_set)
                <=> In(v, messages) /\ \E i \in 1 .. at - 1 : results[i] = v
  BY DEF SearchInv, ResolveParentheticalKey, TakeResult, ResultThrows, SearchResponse
<1>2. UNCHANGED <<words, uid, messages, m_dwMaxUid, message_set>>
  BY DEF ResolveParentheticalKey, TakeResult, ResultThrows, SearchResponse
<1>3. /\ words' \in Seq(Words) /\ uid' \in BOOLEAN
      /\ messages' \in Seq(Nat \ {0}) /\ Ascends(messages')
      /\ m_dwMaxUid' \in Int /\ (messages' # <<>> => m_dwMaxUid' = Last(messages'))
      /\ message_set' \in AnyToken /\ message_set' \in AnyToken \cup {NilSet}
  BY <1>1, <1>2
<1>4. CASE ResolveParentheticalKey
  <2>1. /\ step = "engine" /\ at' = at /\ search_result_set' = search_result_set /\ vints' = vints
        /\ \/ step' = "results" /\ results' \in SeqOf(ToSet(messages) \cup {0}, MaxResults)
           \/ step' \in {"failed", "swallowed"} /\ results' = results
    BY <1>4 DEF ResolveParentheticalKey
  <2>2. at = 1 /\ search_result_set = <<>> /\ vints = <<>>
    BY <2>1 DEF SearchInv
  <2>3. results' \in Seq(Nat)
    <3>1. ToSet(messages) \cup {0} \subseteq Nat
      <4>1. \A i \in DOMAIN messages : messages[i] \in Nat
        BY <1>1
      <4> QED
        BY <4>1 DEF ToSet
    <3>2. CASE results' \in SeqOf(ToSet(messages) \cup {0}, MaxResults)
      <4> DEFINE N == ToSet(messages) \cup {0}
      <4> HIDE DEF N
      <4>1. PICK m \in 0 .. MaxResults : results' \in [1 .. m -> N]
        BY <3>2 DEF SeqOf, N
      <4>2. m \in Nat
        BY <4>1, SearchAssumption
      <4>3. results' \in Seq(N)
        BY <4>1, <4>2
      <4> QED
        BY <3>1, <4>3 DEF N
    <3> QED
      BY <1>1, <2>1, <3>2
  <2>4. at' \in 1 .. Len(results') + 1
    <3>1. Len(results') \in Nat
      BY <2>3
    <3> QED
      BY <2>1, <2>2, <3>1
  <2>5. \A v : In(v, search_result_set')
             <=> In(v, messages') /\ \E i \in 1 .. at' - 1 : results'[i] = v
    <3>1. at' - 1 = 0 /\ Len(search_result_set') = 0 /\ \A i \in 1 .. 0 : FALSE
      BY <2>1, <2>2
    <3> QED
      BY <3>1 DEF In
  <2> QED
    BY <1>1, <1>3, <2>1, <2>2, <2>3, <2>4, <2>5 DEF SearchInv
<1>5. CASE TakeResult
  <2>1. /\ step = "results" /\ step' = "results" /\ at <= Len(results) /\ at' = at + 1
        /\ results' = results /\ vints' = vints /\ vints = <<>>
        /\ search_result_set' = IF results[at] \in ToSet(messages)
                                THEN Append(search_result_set, results[at])
                                ELSE search_result_set
    BY <1>5 DEF TakeResult, SearchInv
  <2> DEFINE e == results[at]
  <2>2. Len(results) \in Nat /\ at \in 1 .. Len(results) /\ e \in Int
    <3>1. Len(results) \in Nat
      BY <1>1
    <3>2. at \in 1 .. Len(results)
      BY <1>1, <2>1, <3>1
    <3> QED
      BY <1>1, <3>1, <3>2
  <2>3. e \in ToSet(messages) <=> In(e, messages)
    <3>1. DOMAIN messages = 1 .. Len(messages)
      BY <1>1
    <3> QED
      BY <3>1 DEF ToSet, In
  <2> HIDE DEF e
  <2>4. search_result_set' = IF In(e, messages) THEN Append(search_result_set, e) ELSE search_result_set
    BY <2>1, <2>3 DEF e
  <2>5. /\ search_result_set' \in Seq(Int)
        /\ \A v : In(v, search_result_set')
                  <=> In(v, search_result_set) \/ (In(e, messages) /\ v = e)
    <3>1. /\ Append(search_result_set, e) \in Seq(Int)
          /\ \A v : In(v, Append(search_result_set, e)) <=> In(v, search_result_set) \/ v = e
      BY <1>1, <2>2, AppendFacts
    <3> QED
      BY <1>1, <2>4, <3>1
  <2>6. \A v : (\E i \in 1 .. at : results[i] = v)
             <=> (\E i \in 1 .. at - 1 : results[i] = v) \/ v = e
    <3>1. \A i \in 1 .. at : i \in 1 .. at - 1 \/ i = at
      BY <2>2
    <3>2. at \in 1 .. at /\ \A i \in 1 .. at - 1 : i \in 1 .. at
      BY <2>2
    <3> QED
      BY <3>1, <3>2 DEF e
  <2>7. at' - 1 = at /\ at' \in 1 .. Len(results') + 1
    BY <2>1, <2>2
  <2>8. \A v : In(v, search_result_set')
             <=> In(v, messages') /\ \E i \in 1 .. at' - 1 : results'[i] = v
    BY <1>1, <1>2, <2>1, <2>5, <2>6, <2>7
  <2>9. results' \in Seq(Nat)
    BY <1>1, <2>1
  <2> QED
    BY <1>3, <2>1, <2>5, <2>7, <2>8, <2>9 DEF SearchInv
<1>6. CASE SearchResponse
  <2>1. /\ step = "results" /\ step' = "answered" /\ vints' = Found
        /\ UNCHANGED <<results, at, search_result_set>>
    BY <1>6 DEF SearchResponse
  <2>2. /\ Found \in Seq(Int)
        /\ Rises(Found)
        /\ \A n : In(n, Found) <=> /\ In(n, Known)
                                   /\ Means(message_set, n)
                                   /\ In(IF uid THEN n ELSE messages[n], search_result_set)
    BY <1>1, FoundFacts
  <2>3. Known' = Known
    BY <1>2 DEF Known
  <2>4. \A n : In(n, vints') <=> /\ In(n, Known')
                               /\ Means(message_set', n)
                               /\ In(IF uid' THEN n ELSE messages'[n], search_result_set')
    BY <1>2, <2>1, <2>2, <2>3
  <2>5. vints' \in Seq(Int) /\ Rises(vints')
    BY <2>1, <2>2
  <2>6. /\ results' \in Seq(Nat)
        /\ at' \in 1 .. Len(results') + 1 /\ search_result_set' \in Seq(Int)
        /\ \A v : In(v, search_result_set')
                  <=> In(v, messages') /\ \E i \in 1 .. at' - 1 : results'[i] = v
    BY <1>1, <1>2, <2>1
  <2> QED
    BY <1>3, <2>1, <2>4, <2>5, <2>6 DEF SearchInv
<1>7. CASE ResultThrows
  <2>1. /\ step = "results" /\ step' = "swallowed" /\ vints' = vints /\ vints = <<>>
        /\ UNCHANGED <<results, at, search_result_set>>
    BY <1>7 DEF ResultThrows, SearchInv
  <2>2. /\ results' \in Seq(Nat)
        /\ at' \in 1 .. Len(results') + 1 /\ search_result_set' \in Seq(Int)
        /\ \A v : In(v, search_result_set')
                  <=> In(v, messages') /\ \E i \in 1 .. at' - 1 : results'[i] = v
    BY <1>1, <1>2, <2>1
  <2> QED
    BY <1>3, <2>1, <2>2 DEF SearchInv
<1> QED
  BY <1>4, <1>5, <1>6, <1>7

LEMMA SearchInvNext == SearchInv /\ [SearchNext]_searchVars => SearchInv'
<1>1. ASSUME SearchInv, UNCHANGED searchVars
      PROVE  SearchInv'
  BY <1>1 DEF SearchInv, searchVars, Known
<1> QED
  BY <1>1, CriteriaStep, ResultsStep DEF SearchNext

\* Whatever the criteria, the mailbox and the results of the engine, a search
\* is answered with the messages that are in the message set and among the
\* results seen, each once and in their order, as UIDs or as numbers; or, after
\* an exception that was only logged, with nothing.
THEOREM SearchesAreIntersections == SearchSpec => []SearchIsIntersection
<1>1. SearchInv => SearchIsIntersection
  <2> DEFINE found == {results[i] : i \in 1 .. at - 1}
             id(n) == IF uid THEN n ELSE messages[n]
  <2> SUFFICES ASSUME SearchInv, step = "answered"
               PROVE  /\ Ascends(vints)
                      /\ ToSet(vints) = {n \in ToSet(Known) :
                                           found # {} /\ Means(message_set, n) /\ id(n) \in found}
    BY DEF SearchIsIntersection, SearchInv
  <2>1. /\ uid \in BOOLEAN /\ messages \in Seq(Nat \ {0}) /\ Ascends(messages)
        /\ \A v : In(v, search_result_set)
                  <=> In(v, messages) /\ \E i \in 1 .. at - 1 : results[i] = v
    BY DEF SearchInv
  <2>2. /\ Known \in Seq(Nat \ {0}) /\ (uid => Known = messages)
        /\ (~uid => \A n : In(n, Known) <=> n \in 1 .. Len(messages))
    BY <2>1, KnownFacts
  <2>3. \A n : n \in ToSet(Known) <=> In(n, Known)
    <3>1. DOMAIN Known = 1 .. Len(Known)
      BY <2>2
    <3> QED
      BY <3>1 DEF ToSet, In
  <2>4. CASE at = 1 /\ vints = <<>>
    <3>1. found = {}
      <4>1. \A i \in 1 .. at - 1 : FALSE
        BY <2>4
      <4> QED
        BY <4>1
    <3>2. ToSet(vints) = {} /\ Ascends(vints)
      BY <2>4 DEF ToSet, Ascends
    <3> QED
      BY <3>1, <3>2
  <2>5. CASE /\ vints \in Seq(Int) /\ Rises(vints)
             /\ \A n : In(n, vints) <=> /\ In(n, Known)
                                        /\ Means(message_set, n)
                                        /\ In(id(n), search_result_set)
    <3>1. DOMAIN vints = 1 .. Len(vints)
      BY <2>5
    <3>2. Ascends(vints)
      BY <2>5, <3>1 DEF Ascends, Rises
    <3>3. \A n : n \in ToSet(vints) <=> In(n, vints)
      BY <3>1 DEF ToSet, In
    <3>4. \A n : In(n, Known) => In(id(n), messages)
      <4>1. CASE uid
        BY <2>2, <4>1
      <4>2. CASE ~uid
        BY <2>2, <4>2 DEF In
      <4> QED
        BY <4>1, <4>2
    <3>5. \A v : v \in found <=> \E i \in 1 .. at - 1 : results[i] = v
      OBVIOUS
    <3> HIDE DEF found, id
    <3>6. \A n : n \in ToSet(vints)
               <=> n \in ToSet(Known) /\ Means(message_set, n) /\ id(n) \in found
      BY <2>1, <2>3, <2>5, <3>3, <3>4, <3>5
    <3> QED
      BY <3>2, <3>6
  <2>6. (at = 1 /\ vints = <<>>) \/ (/\ vints \in Seq(Int) /\ Rises(vints)
                                    /\ \A n : In(n, vints) <=> /\ In(n, Known)
                                                               /\ Means(message_set, n)
                                                               /\ In(id(n), search_result_set))
    BY DEF SearchInv
  <2> QED
    BY <2>4, <2>5, <2>6
<1> QED
  BY <1>1, SearchInvInit, SearchInvNext, PTL DEF SearchSpec

-----------------------------------------------------------------------------
(* The linked list. *)

Indices(w) == 1 .. Len(w)

Distinct(w) == \A i, j \in Indices(w) : w[i] = w[j] => i = j

LinkTyped ==
  /\ m_ptr_head \in Nodes \cup {nullptr}
  /\ m_ptr_next \in [Nodes -> Nodes \cup {nullptr}]
  /\ m_dwData \in [Nodes -> Data]
  /\ allocated \subseteq Nodes

\* What the nodes of w hold, against what they should.
Agrees(w) ==
  LET held == [i \in Indices(w) |-> m_dwData[w[i]]]
  IN /\ kept \in Seq(Data)
     /\ InOrder(held, kept)
     /\ ~lost => held = kept

\* w is the list: the pointers visit it, and it holds what it should.
IsList(w) ==
  /\ Visits(w) /\ Distinct(w)
  /\ allocated = {w[i] : i \in Indices(w)}
  /\ Agrees(w)

LinkInv == LinkTyped /\ \E w \in Seq(Nodes) : IsList(w)

\* The pointers visit one sequence of nodes at most.
LEMMA OneWalk ==
  ASSUME NEW v \in Seq(Nodes), NEW w \in Seq(Nodes), Visits(v), Visits(w),
         Len(v) <= Len(w)
  PROVE  v = w
<1>1. /\ Len(v) \in Nat /\ Len(w) \in Nat
      /\ v = <<>> <=> Len(v) = 0
      /\ w = <<>> <=> Len(w) = 0
      /\ \A i \in 1 .. Len(v) : v[i] \in Nodes
      /\ \A i \in 1 .. Len(w) : w[i] \in Nodes
  OBVIOUS
<1>2. CASE v = <<>>
  <2>1. m_ptr_head = nullptr
    BY <1>2 DEF Visits
  <2>2. w = <<>>
    <3> SUFFICES ASSUME w # <<>>
                 PROVE  FALSE
      OBVIOUS
    <3>1. w[1] = nullptr
      BY <2>1 DEF Visits
    <3>2. 1 \in 1 .. Len(w)
      BY <1>1
    <3> QED
      BY <1>1, <3>1, <3>2, LinkAssumption
  <2> QED
    BY <1>2, <2>2
<1>3. CASE v # <<>>
  <2>1. /\ w # <<>>
        /\ v[1] = m_ptr_head /\ w[1] = m_ptr_head
        /\ \A i \in 1 .. Len(v) - 1 : v[i + 1] = m_ptr_next[v[i]]
        /\ \A i \in 1 .. Len(w) - 1 : w[i + 1] = m_ptr_next[w[i]]
        /\ m_ptr_next[v[Len(v)]] = nullptr
    BY <1>1, <1>3 DEF Visits, Last
  <2> DEFINE S == {n \in Nat : n + 1 <= Len(v) => v[n + 1] = w[n + 1]}
  <2>2. 0 \in S
    BY <2>1
  <2>3. \A n \in Nat : n \in S => n + 1 \in S
    <3> SUFFICES ASSUME NEW n \in Nat, n \in S, n + 2 <= Len(v)
                 PROVE  v[n + 2] = w[n + 2]
      OBVIOUS
    <3>1. v[n + 1] = w[n + 1]
      BY <1>1
    <3>2. n + 1 \in 1 .. Len(v) - 1 /\ n + 1 \in 1 .. Len(w) - 1 /\ (n + 1) + 1 = n + 2
      BY <1>1
    <3> HIDE DEF S
    <3>3. v[(n + 1) + 1] = m_ptr_next[v[n + 1]] /\ w[(n + 1) + 1] = m_ptr_next[w[n + 1]]
      BY <2>1, <3>2
    <3> QED
      BY <3>1, <3>2, <3>3
  <2> HIDE DEF S
  <2>4. Nat \subseteq S
    BY <2>2, <2>3, NatsAreAll
  <2>5. \A i \in 1 .. Len(v) : v[i] = w[i]
    <3> SUFFICES ASSUME NEW i \in 1 .. Len(v)
                 PROVE  v[i] = w[i]
      OBVIOUS
    <3>1. i - 1 \in Nat /\ (i - 1) + 1 = i /\ i <= Len(v)
      BY <1>1
    <3>2. i - 1 \in S
      BY <2>4, <3>1
    <3>3. (i - 1) + 1 <= Len(v) => v[(i - 1) + 1] = w[(i - 1) + 1]
      BY <3>2 DEF S
    <3> QED
      BY <3>1, <3>3
  <2>6. Len(v) = Len(w)
    <3> SUFFICES ASSUME Len(v) < Len(w)
                 PROVE  FALSE
      BY <1>1
    <3> DEFINE l == Len(v)
    <3>1. l \in 1 .. Len(v) /\ l \in 1 .. Len(w) - 1 /\ l + 1 \in 1 .. Len(w)
      BY <1>1, <1>3
    <3> HIDE DEF l
    <3>2. w[l + 1] = m_ptr_next[w[l]] /\ w[l] = v[l]
      BY <2>1, <2>5, <3>1
    <3>3. w[l + 1] = nullptr
      BY <2>1, <3>2 DEF l
    <3> QED
      BY <1>1, <3>1, <3>3, LinkAssumption
  <2> QED
    BY <2>5, <2>6
<1> QED
  BY <1>2, <1>3

\* A list with distinct nodes is what the loops visit.
LEMMA WalkIs ==
  ASSUME NEW w \in Seq(Nodes), Visits(w), Distinct(w)
  PROVE  Walk = w
<1> DEFINE c == Cardinality(Nodes)
<1>1. c \in Nat
  BY LinkAssumption, FS_CardinalityType
<1>2. Len(w) \in Nat /\ w \in [1 .. Len(w) -> Nodes]
  OBVIOUS
<1>3. Len(w) <= c
  <2> SUFFICES ASSUME c < Len(w)
               PROVE  FALSE
    BY <1>1, <1>2
  <2> DEFINE I == 1 .. Len(w)
  <2>1. IsFiniteSet(I) /\ Cardinality(I) = Len(w)
    BY <1>2, FS_Interval
  <2>2. Cardinality(Nodes) < Cardinality(I) /\ w \in [I -> Nodes]
    BY <1>2, <2>1
  <2> HIDE DEF I
  <2>3. \E x, y \in I : x # y /\ w[x] = w[y]
    BY <2>1, <2>2, LinkAssumption, FS_PigeonHole
  <2> QED
    BY <2>3 DEF I, Distinct, Indices
<1> HIDE DEF c
<1>4. w \in SeqOf(Nodes, c)
  <2>1. Len(w) \in 0 .. c
    BY <1>1, <1>2, <1>3
  <2> QED
    BY <1>2, <2>1 DEF SeqOf
<1>5. \A v \in SeqOf(Nodes, c) : v \in Seq(Nodes)
  <2> SUFFICES ASSUME NEW m \in 0 .. c, NEW v \in [1 .. m -> Nodes]
               PROVE  v \in Seq(Nodes)
    BY DEF SeqOf
  <2>1. m \in Nat
    BY <1>1
  <2> QED
    BY <2>1
<1>6. ASSUME NEW v \in SeqOf(Nodes, c), Visits(v)
      PROVE  v = w
  <2>1. v \in Seq(Nodes) /\ Len(v) \in Nat
    BY <1>5
  <2>2. CASE Len(v) <= Len(w)
    BY <1>6, <2>1, <2>2, OneWalk
  <2>3. CASE Len(w) <= Len(v)
    BY <1>6, <2>1, <2>3, OneWalk
  <2> QED
    BY <1>2, <2>1, <2>2, <2>3
<1>7. Walk = CHOOSE v \in SeqOf(Nodes, c) : Visits(v)
  BY DEF Walk, c
<1> QED
  BY <1>4, <1>6, <1>7

LEMMA InOrderEmpty ==
  ASSUME NEW t \in Seq(Data)
  PROVE  InOrder(<<>>, t)
<1> DEFINE f == [i \in DOMAIN <<>> |-> 1]
<1>1. DOMAIN <<>> = {}
  OBVIOUS
<1>2. f \in [DOMAIN <<>> -> DOMAIN t]
  BY <1>1
<1>3. /\ \A i \in DOMAIN <<>> : t[f[i]] = <<>>[i]
      /\ \A i, j \in DOMAIN <<>> : i < j => f[i] < f[j]
  BY <1>1
<1> HIDE DEF f
<1> QED
  BY <1>2, <1>3 DEF InOrder

LEMMA InOrderAppend ==
  ASSUME NEW s \in Seq(Data), NEW t \in Seq(Data), NEW d \in Data, InOrder(s, t)
  PROVE  InOrder(Append(s, d), Append(t, d))
<1> DEFINE l == Len(s)
           m == Len(t)
           u == Append(s, d)
           v == Append(t, d)
<1>1. /\ l \in Nat /\ m \in Nat
      /\ DOMAIN s = 1 .. l /\ DOMAIN t = 1 .. m
      /\ DOMAIN u = 1 .. l + 1 /\ DOMAIN v = 1 .. m + 1
      /\ \A i \in 1 .. l : u[i] = s[i]
      /\ \A i \in 1 .. m : v[i] = t[i]
      /\ u[l + 1] = d /\ v[m + 1] = d
  OBVIOUS
<1>2. PICK f \in [1 .. l -> 1 .. m] :
        /\ \A i \in 1 .. l : t[f[i]] = s[i]
        /\ \A i, j \in 1 .. l : i < j => f[i] < f[j]
  BY <1>1 DEF InOrder
<1> HIDE DEF l, m, u, v
<1> DEFINE g == [i \in 1 .. l + 1 |-> IF i = l + 1 THEN m + 1 ELSE f[i]]
<1>3. \A i \in 1 .. l : f[i] \in 1 .. m /\ f[i] \in 1 .. m + 1 /\ f[i] < m + 1 /\ i # l + 1
  BY <1>1, <1>2
<1>4. \A i \in 1 .. l + 1 : i \in 1 .. l \/ i = l + 1
  BY <1>1
<1>5. /\ g \in [1 .. l + 1 -> 1 .. m + 1]
      /\ g[l + 1] = m + 1
      /\ \A i \in 1 .. l : g[i] = f[i]
  <2>1. m + 1 \in 1 .. m + 1 /\ l + 1 \in 1 .. l + 1 /\ \A i \in 1 .. l : i \in 1 .. l + 1
    BY <1>1
  <2> QED
    BY <1>3, <1>4, <2>1
<1> HIDE DEF g
<1>6. \A i \in 1 .. l + 1 : v[g[i]] = u[i]
  BY <1>1, <1>2, <1>3, <1>4, <1>5
<1>7. \A i, j \in 1 .. l + 1 : i < j => g[i] < g[j]
  <2> SUFFICES ASSUME NEW i \in 1 .. l + 1, NEW j \in 1 .. l + 1, i < j
               PROVE  g[i] < g[j]
    OBVIOUS
  <2>1. i \in 1 .. l
    BY <1>1
  <2>2. CASE j \in 1 .. l
    BY <1>2, <1>5, <2>1, <2>2
  <2>3. CASE j = l + 1
    BY <1>3, <1>5, <2>1, <2>3
  <2> QED
    BY <1>4, <2>2, <2>3
<1>8. InOrder(u, v)
  BY <1>1, <1>5, <1>6, <1>7 DEF InOrder
<1> QED
  BY <1>8 DEF u, v

LEMMA LinkInvInit == LinkInit => LinkInv
<1> SUFFICES ASSUME LinkInit
             PROVE  LinkInv
  OBVIOUS
<1>1. LinkTyped
  BY DEF LinkInit, LinkTyped
<1>2. <<>> \in Seq(Nodes) /\ Len(<<>>) = 0
  OBVIOUS
<1>3. IsList(<<>>)
  <2>1. Indices(<<>>) = {}
    BY DEF Indices
  <2>2. Visits(<<>>) /\ Distinct(<<>>)
    BY <2>1 DEF Visits, Distinct, LinkInit
  <2>3. [i \in Indices(<<>>) |-> m_dwData[<<>>[i]]] = <<>>
    BY <2>1
  <2>4. kept = <<>> /\ kept \in Seq(Data)
    BY DEF LinkInit
  <2>5. InOrder(<<>>, kept)
    BY <2>4, InOrderEmpty
  <2>6. Agrees(<<>>)
    BY <2>3, <2>4, <2>5 DEF Agrees
  <2> QED
    BY <2>1, <2>2, <2>6 DEF IsList, LinkInit
<1> QED
  BY <1>1, <1>2, <1>3 DEF LinkInv

\* The list of one node.
LEMMA OneNode ==
  ASSUME NEW w, NEW n, w = <<n>>
  PROVE  Len(w) = 1 /\ Indices(w) = {1} /\ w[1] = n /\ w # <<>> /\ Distinct(w)
BY DEF Indices, Distinct

LEMMA AppendStep ==
  ASSUME LinkInv, NEW d \in Data, append(d)
  PROVE  LinkInv'
<1>1. PICK w \in Seq(Nodes) : IsList(w)
  BY DEF LinkInv
<1>2. Walk = w
  BY <1>1, WalkIs DEF IsList
<1>3. PICK node \in Nodes \ allocated :
        /\ allocated' = allocated \cup {node}
        /\ m_dwData' = [m_dwData EXCEPT ![node] = d]
        /\ IF m_ptr_head = nullptr
           THEN m_ptr_head' = node /\ m_ptr_next' = [m_ptr_next EXCEPT ![node] = nullptr]
           ELSE /\ m_ptr_next' = [m_ptr_next EXCEPT ![node] = nullptr, ![Last(w)] = node]
                /\ UNCHANGED m_ptr_head
  BY <1>2 DEF append
<1>4. kept' = Append(kept, d) /\ lost' = lost
  BY DEF append
<1> DEFINE l == Len(w)
<1>5. PICK more \in Seq(Nodes) : more = Append(w, node)
  <2>1. Append(w, node) \in Seq(Nodes)
    OBVIOUS
  <2> QED
    BY <2>1
<1>6. /\ l \in Nat /\ \A i \in 1 .. l : w[i] \in Nodes
      /\ Len(more) = l + 1 /\ more # <<>>
      /\ \A i \in 1 .. l : more[i] = w[i]
      /\ more[l + 1] = node
  BY <1>5
<1>7. /\ Visits(w) /\ \A i, j \in 1 .. l : w[i] = w[j] => i = j
      /\ allocated = {w[i] : i \in 1 .. l}
  BY <1>1 DEF IsList, Distinct, Indices
<1>8. \A i \in 1 .. l : w[i] # node /\ w[i] \in allocated
  BY <1>7
<1> HIDE DEF l
<1>9. w = <<>> <=> l = 0
  BY <1>6 DEF l
<1>10. LinkTyped
  BY DEF LinkInv
<1>11. \A i \in 1 .. l + 1 : i \in 1 .. l \/ i = l + 1
  BY <1>6
<1>12. \A i \in 1 .. l : m_dwData'[w[i]] = m_dwData[w[i]]
  BY <1>3, <1>6, <1>8, <1>10 DEF LinkTyped
<1>13. m_dwData'[node] = d
  BY <1>3, <1>10 DEF LinkTyped
<1>14. Visits(w)
  BY <1>7
<1>15. ASSUME w = <<>>
       PROVE  LinkTyped' /\ Visits(more)'
  <2>1. m_ptr_head' = node /\ m_ptr_next' = [m_ptr_next EXCEPT ![node] = nullptr]
    BY <1>3, <1>14, <1>15 DEF Visits
  <2>2. Visits(more)'
    <3>1. l = 0
      BY <1>9, <1>15
    <3>2. Len(more) = 1 /\ more[1] = node /\ Last(more) = node
      BY <1>6, <3>1 DEF Last
    <3>3. m_ptr_next'[node] = nullptr
      BY <1>3, <1>10, <2>1 DEF LinkTyped
    <3>4. \A i \in 1 .. Len(more) - 1 : FALSE
      BY <3>2
    <3> QED
      BY <1>6, <2>1, <3>2, <3>3, <3>4 DEF Visits
  <2>3. LinkTyped'
    BY <1>3, <1>10, <2>1 DEF LinkTyped
  <2> QED
    BY <2>2, <2>3
<1>16. ASSUME w # <<>>
       PROVE  LinkTyped' /\ Visits(more)'
  <2>1. l \in 1 .. l /\ l # 0 /\ Last(w) = w[l]
    BY <1>6, <1>9, <1>16 DEF Last, l
  <2>2. 1 \in 1 .. l
    BY <1>6, <2>1
  <2>3. /\ m_ptr_head = w[1]
        /\ \A i \in 1 .. l - 1 : w[i + 1] = m_ptr_next[w[i]]
    BY <1>14, <1>16 DEF Visits, l
  <2>4. m_ptr_head # nullptr
    BY <1>6, <2>2, <2>3, LinkAssumption
  <2>5. /\ m_ptr_head' = m_ptr_head
        /\ m_ptr_next' = [m_ptr_next EXCEPT ![node] = nullptr, ![w[l]] = node]
    BY <1>3, <2>1, <2>4
  <2>6. w[l] # node /\ w[l] \in Nodes
    BY <1>6, <1>8, <2>1
  <2>7. /\ m_ptr_next'[node] = nullptr /\ m_ptr_next'[w[l]] = node
        /\ \A n \in Nodes : n # node /\ n # w[l] => m_ptr_next'[n] = m_ptr_next[n]
    BY <1>10, <2>5, <2>6 DEF LinkTyped
  <2>8. \A i \in 1 .. l : more[i + 1] = m_ptr_next'[more[i]]
    <3> SUFFICES ASSUME NEW i \in 1 .. l
                 PROVE  more[i + 1] = m_ptr_next'[w[i]]
      BY <1>6
    <3>1. CASE i = l
      BY <1>6, <2>7, <3>1
    <3>2. CASE i # l
      <4>1. i \in 1 .. l - 1 /\ i + 1 \in 1 .. l
        BY <1>6, <3>2
      <4>2. w[i] # w[l]
        BY <1>7, <2>1, <3>2
      <4>3. m_ptr_next'[w[i]] = m_ptr_next[w[i]]
        BY <1>6, <1>8, <2>7, <4>2
      <4> QED
        BY <1>6, <2>3, <4>1, <4>3
    <3> QED
      BY <3>1, <3>2
  <2>9. Visits(more)'
    <3>1. Last(more) = node /\ Len(more) - 1 = l
      BY <1>6 DEF Last
    <3>2. more[1] = m_ptr_head'
      BY <1>6, <2>2, <2>3, <2>5
    <3> QED
      BY <1>6, <2>7, <2>8, <3>1, <3>2 DEF Visits
  <2>10. LinkTyped'
    BY <1>3, <1>10, <2>5 DEF LinkTyped
  <2> QED
    BY <2>9, <2>10
<1>17. Distinct(more)
  <2> SUFFICES ASSUME NEW i \in 1 .. l + 1, NEW j \in 1 .. l + 1, more[i] = more[j]
               PROVE  i = j
    BY <1>6 DEF Distinct, Indices
  <2> QED
    BY <1>6, <1>7, <1>8, <1>11
<1>18. allocated' = {more[i] : i \in Indices(more)}
  <2>1. \A x : (\E i \in 1 .. l + 1 : x = more[i]) <=> (\E i \in 1 .. l : x = w[i]) \/ x = node
    <3>1. l + 1 \in 1 .. l + 1 /\ \A i \in 1 .. l : i \in 1 .. l + 1
      BY <1>6
    <3> QED
      BY <1>6, <1>11, <3>1
  <2>2. allocated' = {w[i] : i \in 1 .. l} \cup {node}
    BY <1>3, <1>7
  <2> QED
    BY <1>6, <2>1, <2>2 DEF Indices
<1>19. Agrees(more)'
  <2> DEFINE held == [i \in 1 .. l |-> m_dwData[w[i]]]
  <2>1. held \in Seq(Data) /\ Len(held) = l /\ \A i \in 1 .. l : held[i] = m_dwData[w[i]]
    <3>1. \A i \in 1 .. l : m_dwData[w[i]] \in Data
      BY <1>6, <1>10 DEF LinkTyped
    <3> QED
      BY <1>6, <3>1
  <2>2. kept \in Seq(Data) /\ InOrder(held, kept) /\ (~lost => held = kept)
    BY <1>1 DEF IsList, Agrees, Indices, l
  <2> HIDE DEF held
  <2>3. Append(held, d) = [i \in 1 .. l + 1 |-> m_dwData'[more[i]]]
    <3>1. Append(held, d) = [i \in 1 .. l + 1 |-> IF i = l + 1 THEN d ELSE held[i]]
      <4>1. /\ Append(held, d) \in Seq(Data) /\ Len(Append(held, d)) = l + 1
            /\ \A i \in 1 .. l : Append(held, d)[i] = held[i]
            /\ Append(held, d)[l + 1] = d
        BY <2>1
      <4> DEFINE longer == Append(held, d)
      <4> HIDE DEF longer
      <4>2. longer \in Seq(Data) /\ Len(longer) = l + 1
        BY <4>1 DEF longer
      <4>3. longer = [i \in 1 .. l + 1 |-> longer[i]]
        BY <4>2
      <4>4. \A i \in 1 .. l + 1 : longer[i] = IF i = l + 1 THEN d ELSE held[i]
        BY <1>6, <1>11, <4>1 DEF longer
      <4> QED
        BY <4>3, <4>4 DEF longer
    <3>2. \A i \in 1 .. l + 1 : (IF i = l + 1 THEN d ELSE held[i]) = m_dwData'[more[i]]
      BY <1>6, <1>11, <1>12, <1>13, <2>1
    <3> QED
      BY <3>1, <3>2
  <2>4. Append(held, d) = [i \in Indices(more) |-> m_dwData'[more[i]]]
    BY <1>6, <2>3 DEF Indices
  <2>5. InOrder(Append(held, d), Append(kept, d))
    BY <2>1, <2>2, InOrderAppend
  <2>6. Append(kept, d) \in Seq(Data) /\ (~lost' => Append(held, d) = Append(kept, d))
    BY <1>4, <2>2
  <2>7. [i \in Indices(more) |-> m_dwData[more[i]]]' = Append(held, d)
    BY <2>4 DEF Indices
  <2> QED
    BY <1>4, <2>5, <2>6, <2>7 DEF Agrees
<1>20. LinkTyped' /\ Visits(more)'
  BY <1>15, <1>16
<1> QED
  BY <1>6, <1>17, <1>18, <1>19, <1>20 DEF LinkInv, IsList, Distinct, Indices

\* What is left of a sequence without one of its places.
LEMMA RemoveAtFacts ==
  ASSUME NEW S, NEW q \in Seq(S), NEW i \in 1 .. Len(q)
  PROVE  /\ RemoveAt(q, i) \in Seq(S)
         /\ Len(RemoveAt(q, i)) = Len(q) - 1
         /\ \A k \in 1 .. i - 1 : RemoveAt(q, i)[k] = q[k]
         /\ \A k \in i .. Len(q) - 1 : RemoveAt(q, i)[k] = q[k + 1]
<1> DEFINE l == Len(q)
           a == SubSeq(q, 1, i - 1)
           b == SubSeq(q, i + 1, l)
<1>1. l \in Nat /\ i \in 1 .. l /\ i - 1 \in 0 .. l /\ i - 1 \in Nat /\ l - i \in Nat
  OBVIOUS
<1>2. a \in Seq(S) /\ Len(a) = i - 1 /\ \A k \in 1 .. i - 1 : a[k] = q[k]
  BY <1>1, PrefixFacts
<1>3. b \in Seq(S) /\ Len(b) = l - i /\ \A k \in 1 .. l - i : b[k] = q[i + k]
  BY <1>1, SuffixFacts
<1>4. RemoveAt(q, i) = a \o b
  BY DEF RemoveAt
<1> HIDE DEF a, b
<1> DEFINE r == a \o b
<1>5. /\ r \in Seq(S) /\ Len(r) = Len(a) + Len(b)
      /\ \A k \in 1 .. Len(a) : r[k] = a[k]
      /\ \A k \in 1 .. Len(b) : r[Len(a) + k] = b[k]
  <2>1. a \in Seq(S) /\ b \in Seq(S)
    BY <1>2, <1>3
  <2> QED
    BY <2>1, ConcatFacts
<1> HIDE DEF r, l
<1>6. Len(r) = l - 1
  BY <1>1, <1>2, <1>3, <1>5
<1>7. \A k \in 1 .. i - 1 : r[k] = q[k]
  BY <1>1, <1>2, <1>5
<1>8. ASSUME NEW k \in i .. l - 1
      PROVE  r[k] = q[k + 1]
  <2>1. k - (i - 1) \in 1 .. l - i /\ (i - 1) + (k - (i - 1)) = k
        /\ i + (k - (i - 1)) = k + 1
    BY <1>1
  <2>2. r[(i - 1) + (k - (i - 1))] = b[k - (i - 1)]
    BY <1>2, <1>3, <1>5, <2>1
  <2>3. b[k - (i - 1)] = q[i + (k - (i - 1))]
    BY <1>3, <2>1
  <2> QED
    BY <2>1, <2>2, <2>3
<1> QED
  BY <1>4, <1>5, <1>6, <1>7, <1>8 DEF r, l

\* The place of the first of the data.
FirstAt(t, d, k) == t[k] = d /\ (\A n \in 1 .. k - 1 : t[n] # d)

\* remove() takes the first of the data from what the list should hold.
LEMMA RemoveFirstFacts ==
  ASSUME NEW t \in Seq(Data), NEW d \in Data
  PROVE  /\ RemoveFirst(t, d) \in Seq(Data)
         /\ \/ /\ \A n \in 1 .. Len(t) : t[n] # d
               /\ RemoveFirst(t, d) = t
            \/ \E k \in 1 .. Len(t) : FirstAt(t, d, k) /\ RemoveFirst(t, d) = RemoveAt(t, k)
<1> DEFINE K == {n \in 1 .. Len(t) : t[n] = d}
<1>1. CASE \A n \in 1 .. Len(t) : t[n] # d
  BY <1>1 DEF RemoveFirst
<1>2. CASE \E n \in 1 .. Len(t) : t[n] = d
  <2>1. K \subseteq Nat /\ K # {} /\ Len(t) \in Nat
    BY <1>2
  <2>2. SelectInSeq(t, LAMBDA x : x = d) = Min(K)
    BY <2>1 DEF SelectInSeq
  <2>3. RemoveFirst(t, d) = RemoveAt(t, Min(K))
    BY <1>2, <2>2 DEF RemoveFirst
  <2>4. \A n : n \in K <=> n \in 1 .. Len(t) /\ t[n] = d
    OBVIOUS
  <2> HIDE DEF K
  <2>5. PICK k \in K : \A n \in K : <<n, k>> \notin OpToRel(<, Nat)
    BY <2>1, NatLessThanWellFounded, WFMin
  <2>6. \A n \in K : ~(n < k)
    BY <2>1, <2>5, Zenon DEF OpToRel
  <2>7. \A n \in K : k <= n
    BY <2>1, <2>6
  <2>8. Min(K) \in K /\ \A n \in K : Min(K) <= n
    BY <2>5, <2>7 DEF Min
  <2> DEFINE m == Min(K)
  <2> HIDE DEF m
  <2>9. m \in 1 .. Len(t) /\ t[m] = d /\ RemoveFirst(t, d) = RemoveAt(t, m)
        /\ \A n \in K : m <= n
    BY <2>3, <2>4, <2>8 DEF m
  <2>10. \A n \in 1 .. m - 1 : t[n] # d
    BY <2>1, <2>4, <2>9
  <2>11. RemoveAt(t, m) \in Seq(Data)
    BY <2>9, RemoveAtFacts
  <2>12. FirstAt(t, d, m)
    BY <2>9, <2>10 DEF FirstAt
  <2> QED
    BY <2>9, <2>11, <2>12
<1> QED
  BY <1>1, <1>2

\* A place in a sequence of which the one at i is removed.
LEMMA ShiftFacts ==
  ASSUME NEW q \in Seq(Data), NEW i \in 1 .. Len(q), NEW n \in 1 .. Len(q), n # i
  PROVE  LET k == IF n < i THEN n ELSE n - 1
         IN k \in 1 .. Len(q) - 1 /\ RemoveAt(q, i)[k] = q[n]
<1>1. /\ Len(q) \in Nat
      /\ \A k \in 1 .. i - 1 : RemoveAt(q, i)[k] = q[k]
      /\ \A k \in i .. Len(q) - 1 : RemoveAt(q, i)[k] = q[k + 1]
  <2>1. Len(q) \in Nat
    OBVIOUS
  <2>2. \A k \in 1 .. i - 1 : RemoveAt(q, i)[k] = q[k]
    BY RemoveAtFacts
  <2>3. \A k \in i .. Len(q) - 1 : RemoveAt(q, i)[k] = q[k + 1]
    BY RemoveAtFacts
  <2> QED
    BY <2>1, <2>2, <2>3
<1>2. CASE n < i
  <2>1. n \in 1 .. i - 1 /\ n \in 1 .. Len(q) - 1
    BY <1>1, <1>2
  <2> QED
    BY <1>1, <1>2, <2>1
<1>3. CASE ~(n < i)
  <2>1. n - 1 \in i .. Len(q) - 1 /\ n - 1 \in 1 .. Len(q) - 1 /\ (n - 1) + 1 = n
    BY <1>1, <1>3
  <2> QED
    BY <1>1, <1>3, <2>1
<1> QED
  BY <1>2, <1>3

\* When both lose the first of the data, the order stays.
LEMMA InOrderRemove ==
  ASSUME NEW s \in Seq(Data), NEW t \in Seq(Data), NEW d \in Data, InOrder(s, t),
         NEW i \in 1 .. Len(s), s[i] = d, \A j \in 1 .. i - 1 : s[j] # d
  PROVE  InOrder(RemoveAt(s, i), RemoveFirst(t, d))
<1> DEFINE l == Len(s)
           m == Len(t)
<1>1. l \in Nat /\ m \in Nat /\ DOMAIN s = 1 .. l /\ DOMAIN t = 1 .. m
  OBVIOUS
<1>2. PICK f \in [1 .. l -> 1 .. m] :
        /\ \A j \in 1 .. l : t[f[j]] = s[j]
        /\ \A j, k \in 1 .. l : j < k => f[j] < f[k]
  BY <1>1 DEF InOrder
<1>3. f[i] \in 1 .. Len(t) /\ t[f[i]] = d
  BY <1>2
<1>4. PICK k \in 1 .. Len(t) : FirstAt(t, d, k) /\ RemoveFirst(t, d) = RemoveAt(t, k)
  BY <1>3, RemoveFirstFacts
<1> DEFINE u == RemoveAt(s, i)
           v == RemoveAt(t, k)
<1>5. u \in Seq(Data) /\ Len(u) = l - 1 /\ v \in Seq(Data) /\ Len(v) = m - 1
  BY RemoveAtFacts
<1>6. DOMAIN u = 1 .. l - 1 /\ DOMAIN v = 1 .. m - 1
  BY <1>5
<1>7. /\ \A j \in 1 .. i - 1 : u[j] = s[j]
      /\ \A j \in i .. l - 1 : u[j] = s[j + 1]
  BY RemoveAtFacts
<1>8. \A n \in 1 .. m : n # k => LET x == IF n < k THEN n ELSE n - 1
                                 IN x \in 1 .. m - 1 /\ v[x] = t[n]
  BY ShiftFacts
<1>9. i \in 1 .. l /\ k \in 1 .. m
  OBVIOUS
<1> HIDE DEF l, m, u, v
\* The place in s of one in u, and in v of one in t.
<1> DEFINE old(j) == IF j < i THEN j ELSE j + 1
           new(n) == IF n < k THEN n ELSE n - 1
           g == [j \in 1 .. l - 1 |-> new(f[old(j)])]
<1>10. ASSUME NEW j \in 1 .. l - 1
       PROVE  old(j) \in 1 .. l /\ old(j) # i /\ u[j] = s[old(j)]
  <2>1. CASE j < i
    <3>1. j \in 1 .. i - 1 /\ j \in 1 .. l
      BY <1>1, <1>9, <2>1
    <3> QED
      BY <1>7, <2>1, <3>1
  <2>2. CASE ~(j < i)
    <3>1. j \in i .. l - 1 /\ j + 1 \in 1 .. l /\ j + 1 # i
      BY <1>1, <1>9, <2>2
    <3> QED
      BY <1>7, <2>2, <3>1
  <2> QED
    BY <2>1, <2>2
<1>11. k <= f[i]
  <2> SUFFICES ASSUME f[i] < k
               PROVE  FALSE
    BY <1>1, <1>2, <1>9
  <2>1. f[i] \in 1 .. k - 1
    BY <1>1, <1>2, <1>9
  <2> QED
    BY <1>3, <1>4, <2>1 DEF FirstAt
<1>12. ASSUME NEW j \in 1 .. l, j # i
       PROVE  f[j] \in 1 .. m /\ f[j] # k
  <2>1. f[j] \in 1 .. m
    BY <1>2
  <2>2. CASE j < i
    <3>1. j \in 1 .. i - 1
      BY <1>1, <1>9, <2>2
    <3>2. t[f[j]] # d
      BY <1>2, <3>1
    <3> QED
      BY <1>4, <2>1, <3>2 DEF FirstAt
  <2>3. CASE i < j
    <3>1. f[i] < f[j] /\ f[i] \in 1 .. m
      BY <1>2, <1>9, <2>3
    <3> QED
      BY <1>1, <1>9, <1>11, <2>1, <3>1
  <2> QED
    BY <1>1, <1>9, <1>12, <2>1, <2>2, <2>3
<1>13. ASSUME NEW j \in 1 .. l - 1
       PROVE  g[j] \in 1 .. m - 1 /\ v[g[j]] = u[j]
  <2>1. f[old(j)] \in 1 .. m /\ f[old(j)] # k /\ t[f[old(j)]] = u[j]
    BY <1>2, <1>10, <1>12
  <2> DEFINE n == f[old(j)]
  <2>2. g[j] = new(n)
    OBVIOUS
  <2> HIDE DEF n
  <2> QED
    BY <1>8, <2>1, <2>2 DEF n
<1>14. ASSUME NEW x \in 1 .. l - 1, NEW y \in 1 .. l - 1, x < y
       PROVE  g[x] < g[y]
  <2>1. old(x) < old(y) /\ old(x) \in 1 .. l /\ old(y) \in 1 .. l
    BY <1>1, <1>9, <1>10, <1>14
  <2>2. f[old(x)] < f[old(y)]
    BY <1>2, <2>1
  <2> DEFINE a == f[old(x)]
             b == f[old(y)]
  <2>3. a \in 1 .. m /\ b \in 1 .. m /\ a # k /\ b # k /\ a < b
    BY <1>10, <1>12, <2>2
  <2>4. g[x] = new(a) /\ g[y] = new(b)
    OBVIOUS
  <2> HIDE DEF a, b
  <2> QED
    BY <1>1, <1>9, <2>3, <2>4
<1>15. g \in [1 .. l - 1 -> 1 .. m - 1]
  <2>1. g = [j \in 1 .. l - 1 |-> g[j]]
    OBVIOUS
  <2> HIDE DEF g
  <2> QED
    BY <1>13, <2>1
<1> HIDE DEF g
<1>16. InOrder(u, v)
  BY <1>6, <1>13, <1>14, <1>15 DEF InOrder
<1> QED
  BY <1>4, <1>16 DEF u, v

\* An empty list agrees with whatever it should hold, if it has lost it.
LEMMA EmptyAgrees ==
  ASSUME kept' \in Seq(Data), ~lost' => kept' = <<>>
  PROVE  Agrees(<<>>)'
<1>1. Indices(<<>>) = {}
  BY DEF Indices
<1>2. [i \in Indices(<<>>) |-> m_dwData'[<<>>[i]]] = <<>>
  BY <1>1
<1>3. [i \in Indices(<<>>) |-> m_dwData[<<>>[i]]]' = <<>>
  BY <1>2 DEF Indices
<1>4. InOrder(<<>>, kept')
  BY InOrderEmpty
<1> QED
  BY <1>3, <1>4 DEF Agrees

LEMMA RemoveOnlyStep ==
  ASSUME LinkInv, NEW d \in Data, RemoveOnly(d)
  PROVE  LinkInv'
<1>1. PICK w \in Seq(Nodes) : IsList(w)
  BY DEF LinkInv
<1>2. Walk = w
  BY <1>1, WalkIs DEF IsList
<1>3. /\ m_ptr_head' = nullptr
      /\ allocated' = allocated \ {m_ptr_head}
      /\ kept' = RemoveFirst(kept, d)
      /\ lost' = (lost \/ m_dwData[m_ptr_head] # d)
      /\ UNCHANGED <<m_ptr_next, m_dwData>>
      /\ Len(w) = 1
  BY <1>2 DEF RemoveOnly
<1>4. LinkTyped'
  BY <1>3 DEF LinkInv, LinkTyped
<1>5. w # <<>> /\ Indices(w) = {1}
  BY <1>3 DEF Indices
<1>6. w[1] = m_ptr_head /\ allocated = {w[1]}
  BY <1>1, <1>5 DEF IsList, Visits
<1>7. allocated' = {}
  BY <1>3, <1>6
<1>8. <<>> \in Seq(Nodes) /\ Indices(<<>>) = {}
  BY DEF Indices
<1>9. Agrees(<<>>)'
  <2>1. kept \in Seq(Data)
    BY <1>1 DEF IsList, Agrees
  <2>2. kept' \in Seq(Data)
    BY <1>3, <2>1, RemoveFirstFacts
  <2>3. ASSUME ~lost'
        PROVE  kept' = <<>>
    <3>1. ~lost /\ m_dwData[w[1]] = d
      BY <1>3, <1>6, <2>3
    <3>2. kept = [i \in Indices(w) |-> m_dwData[w[i]]]
      BY <1>1, <3>1 DEF IsList, Agrees
    <3>3. Len(kept) = 1 /\ kept[1] = d
      BY <1>5, <2>1, <3>1, <3>2
    <3>4. \A k \in 1 .. Len(kept) : k = 1
      BY <3>3
    <3>5. kept' = RemoveAt(kept, 1)
      <4>1. 1 \in 1 .. Len(kept)
        BY <3>3
      <4>2. PICK k \in 1 .. Len(kept) : RemoveFirst(kept, d) = RemoveAt(kept, k)
        BY <2>1, <3>3, <4>1, RemoveFirstFacts
      <4> QED
        BY <1>3, <3>4, <4>2
    <3>6. kept' \in Seq(Data) /\ Len(kept') = 0
      <4>1. 1 \in 1 .. Len(kept)
        BY <3>3
      <4>2. Len(RemoveAt(kept, 1)) = Len(kept) - 1
        BY <2>1, <4>1, RemoveAtFacts
      <4> QED
        BY <2>2, <3>3, <3>5, <4>2
    <3> QED
      BY <3>6
  <2> QED
    BY <2>2, <2>3, EmptyAgrees
<1>10. Visits(<<>>)' /\ Distinct(<<>>)
  BY <1>3, <1>8 DEF Visits, Distinct
<1> QED
  BY <1>3, <1>4, <1>7, <1>8, <1>9, <1>10 DEF LinkInv, IsList

LEMMA RemoveNoneStep ==
  ASSUME LinkInv, NEW d \in Data, RemoveNone(d)
  PROVE  LinkInv'
<1>1. PICK w \in Seq(Nodes) : IsList(w)
  BY DEF LinkInv
<1>2. Walk = w
  BY <1>1, WalkIs DEF IsList
<1>3. /\ w = <<>> /\ kept' = RemoveFirst(kept, d) /\ lost' = lost
      /\ UNCHANGED <<m_ptr_head, m_ptr_next, m_dwData, allocated>>
  BY <1>2 DEF RemoveNone, pointers
<1>4. kept \in Seq(Data) /\ kept' \in Seq(Data)
  <2>1. kept \in Seq(Data)
    BY <1>1 DEF IsList, Agrees
  <2> QED
    BY <1>3, <2>1, RemoveFirstFacts
<1>5. ASSUME ~lost'
      PROVE  kept' = <<>>
  <2>1. kept = [i \in Indices(w) |-> m_dwData[w[i]]] /\ Indices(w) = {}
    BY <1>1, <1>3, <1>5 DEF IsList, Agrees, Indices
  <2>2. kept = <<>> /\ Len(kept) = 0
    BY <2>1
  <2>3. \A k \in 1 .. Len(kept) : FALSE
    BY <2>2
  <2> QED
    BY <1>3, <1>4, <2>2, <2>3, RemoveFirstFacts
<1>6. Agrees(<<>>)'
  BY <1>4, <1>5, EmptyAgrees
<1>7. LinkTyped' /\ Visits(<<>>)' /\ Distinct(<<>>)
      /\ allocated' = {<<>>[i] : i \in Indices(<<>>)}
  BY <1>1, <1>3 DEF LinkInv, LinkTyped, IsList, Visits, Distinct, Indices
<1>8. <<>> \in Seq(Nodes)
  OBVIOUS
<1> QED
  BY <1>6, <1>7, <1>8 DEF LinkInv, IsList

LEMMA RemoveInsideStep ==
  ASSUME LinkInv, NEW d \in Data, RemoveInside(d)
  PROVE  LinkInv'
<1>1. PICK w \in Seq(Nodes) : IsList(w)
  BY DEF LinkInv
<1>2. Walk = w
  BY <1>1, WalkIs DEF IsList
<1> DEFINE l == Len(w)
           I == {j \in 1 .. l : m_dwData[w[j]] = d}
<1>3. Reached(d) = IF I # {} THEN Min(I) ELSE 0
  BY <1>2 DEF Reached, SelectInSeq
<1> DEFINE i == Reached(d)
<1>4. /\ i > 1
      /\ m_ptr_next' = [m_ptr_next EXCEPT ![w[i - 1]] = m_ptr_next[w[i]]]
      /\ allocated' = allocated \ {w[i]}
      /\ kept' = RemoveFirst(kept, d) /\ lost' = lost
      /\ UNCHANGED <<m_ptr_head, m_dwData>>
  BY <1>2 DEF RemoveInside
<1>5. l \in Nat /\ \A j \in 1 .. l : w[j] \in Nodes
  OBVIOUS
<1>6. I \subseteq 1 .. l /\ I \subseteq Nat /\ \A j \in I : m_dwData[w[j]] = d
  BY <1>5
<1>7. /\ \A j, k \in 1 .. l : w[j] = w[k] => j = k
      /\ Visits(w)
      /\ allocated = {w[j] : j \in 1 .. l}
  BY <1>1 DEF IsList, Distinct, Indices
<1> DEFINE held == [j \in 1 .. l |-> m_dwData[w[j]]]
<1>8. \A j \in 1 .. l : j \in I <=> held[j] = d
  OBVIOUS
<1>23. kept \in Seq(Data) /\ InOrder(held, kept) /\ (~lost => held = kept)
  BY <1>1 DEF IsList, Agrees, Indices
<1> HIDE DEF i, I
<1>9. I # {} /\ i = Min(I)
  BY <1>3, <1>4 DEF i
<1>10. i \in I /\ \A j \in I : i <= j
  <2>1. PICK m \in I : \A j \in I : <<j, m>> \notin OpToRel(<, Nat)
    BY <1>6, <1>9, NatLessThanWellFounded, WFMin
  <2>2. \A j \in I : ~(j < m)
    BY <1>6, <2>1, Zenon DEF OpToRel
  <2>3. \A j \in I : m <= j
    BY <1>6, <2>2
  <2> QED
    BY <1>9, <2>3 DEF Min
<1>11. i \in 2 .. l /\ i - 1 \in 1 .. l /\ i \in 1 .. l
  BY <1>4, <1>5, <1>6, <1>10
<1> HIDE DEF l
<1>12. PICK v \in Seq(Nodes) : v = RemoveAt(w, i)
  BY <1>11, RemoveAtFacts DEF l
<1>13. /\ Len(v) = l - 1
       /\ \A k \in 1 .. i - 1 : v[k] = w[k]
       /\ \A k \in i .. l - 1 : v[k] = w[k + 1]
  BY <1>11, <1>12, RemoveAtFacts DEF l
<1>14. LinkTyped
  BY DEF LinkInv
<1>15. /\ m_ptr_next'[w[i - 1]] = m_ptr_next[w[i]]
       /\ \A j \in 1 .. l : j # i - 1 => m_ptr_next'[w[j]] = m_ptr_next[w[j]]
  BY <1>4, <1>5, <1>7, <1>11, <1>14 DEF LinkTyped
<1>16. LinkTyped'
  BY <1>4, <1>5, <1>11, <1>14 DEF LinkTyped
<1>17. /\ m_ptr_head = w[1]
       /\ \A j \in 1 .. l - 1 : w[j + 1] = m_ptr_next[w[j]]
       /\ m_ptr_next[w[l]] = nullptr
  <2>1. w # <<>>
    BY <1>11 DEF l
  <2> QED
    BY <1>7, <2>1 DEF Visits, Last, l
\* The place in the old list of a place in the new one.
<1>18. ASSUME NEW k \in 1 .. l - 1
       PROVE  \/ k \in 1 .. i - 1 /\ k \in 1 .. l /\ v[k] = w[k]
              \/ k \in i .. l - 1 /\ k + 1 \in 1 .. l /\ v[k] = w[k + 1]
  <2>1. \/ k \in 1 .. i - 1 /\ k \in 1 .. l
        \/ k \in i .. l - 1 /\ k + 1 \in 1 .. l
    BY <1>5, <1>11
  <2> QED
    BY <1>13, <2>1
<1>19. Visits(v)'
  <2>1. Len(v) # 0 /\ v # <<>> /\ v[1] = w[1]
    <3>1. l - 1 # 0 /\ 1 \in 1 .. i - 1
      BY <1>5, <1>11
    <3> QED
      BY <1>13, <3>1
  <2>2. ASSUME NEW k \in 1 .. l - 2
        PROVE  v[k + 1] = m_ptr_next'[v[k]]
    <3>1. CASE k < i - 1
      <4>1. /\ k \in 1 .. i - 1 /\ k + 1 \in 1 .. i - 1 /\ k \in 1 .. l /\ k # i - 1
            /\ k \in 1 .. l - 1
        BY <1>5, <1>11, <3>1
      <4> QED
        BY <1>13, <1>15, <1>17, <4>1
    <3>2. CASE k = i - 1
      <4>1. k \in 1 .. i - 1 /\ k + 1 = i /\ i \in i .. l - 1 /\ i \in 1 .. l - 1
        BY <1>5, <1>11, <3>2
      <4>2. v[k] = w[i - 1] /\ v[k + 1] = w[i + 1]
        BY <1>13, <3>2, <4>1
      <4>3. w[i + 1] = m_ptr_next[w[i]]
        BY <1>17, <4>1
      <4> QED
        BY <1>15, <4>2, <4>3
    <3>3. CASE k > i - 1
      <4>1. /\ k \in i .. l - 1 /\ k + 1 \in i .. l - 1 /\ k + 1 \in 1 .. l /\ k + 1 # i - 1
            /\ k + 1 \in 1 .. l - 1
        BY <1>5, <1>11, <3>3
      <4>2. v[k] = w[k + 1] /\ v[k + 1] = w[(k + 1) + 1]
        BY <1>13, <4>1
      <4>3. w[(k + 1) + 1] = m_ptr_next[w[k + 1]]
        BY <1>17, <4>1
      <4>4. m_ptr_next'[w[k + 1]] = m_ptr_next[w[k + 1]]
        BY <1>15, <4>1
      <4> QED
        BY <4>2, <4>3, <4>4
    <3> QED
      BY <1>5, <1>11, <3>1, <3>2, <3>3
  <2>3. m_ptr_next'[v[l - 1]] = nullptr
    <3>1. CASE i = l
      <4>1. l - 1 \in 1 .. i - 1 /\ l - 1 = i - 1
        BY <1>5, <1>11, <3>1
      <4> QED
        BY <1>13, <1>15, <1>17, <3>1, <4>1
    <3>2. CASE i # l
      <4>1. l - 1 \in i .. l - 1 /\ (l - 1) + 1 = l /\ l \in 1 .. l /\ l # i - 1
        BY <1>5, <1>11, <3>2
      <4>2. v[l - 1] = w[l]
        BY <1>13, <4>1
      <4> QED
        BY <1>15, <1>17, <4>1, <4>2
    <3> QED
      BY <3>1, <3>2
  <2>4. Len(v) - 1 = l - 2 /\ Last(v) = v[l - 1]
    BY <1>5, <1>13 DEF Last
  <2> QED
    BY <1>4, <1>17, <2>1, <2>2, <2>3, <2>4 DEF Visits
<1>20. Distinct(v)
  <2> SUFFICES ASSUME NEW j \in 1 .. l - 1, NEW k \in 1 .. l - 1, v[j] = v[k]
               PROVE  j = k
    BY <1>13 DEF Distinct, Indices
  <2>1. \/ j \in 1 .. i - 1 /\ j \in 1 .. l /\ v[j] = w[j]
        \/ j \in i .. l - 1 /\ j + 1 \in 1 .. l /\ v[j] = w[j + 1]
    BY <1>18
  <2>2. \/ k \in 1 .. i - 1 /\ k \in 1 .. l /\ v[k] = w[k]
        \/ k \in i .. l - 1 /\ k + 1 \in 1 .. l /\ v[k] = w[k + 1]
    BY <1>18
  <2>3. \/ j = k
        \/ j + 1 = k + 1
        \/ j \in 1 .. i - 1 /\ k \in i .. l - 1 /\ j = k + 1
        \/ k \in 1 .. i - 1 /\ j \in i .. l - 1 /\ k = j + 1
    BY <1>7, <2>1, <2>2
  <2> QED
    BY <1>5, <1>11, <2>3
<1>21. allocated' = {v[j] : j \in Indices(v)}
  <2>1. ASSUME NEW j \in 1 .. l, j # i
        PROVE  \E k \in 1 .. l - 1 : w[j] = v[k]
    <3>1. CASE j < i
      <4>1. j \in 1 .. i - 1 /\ j \in 1 .. l - 1
        BY <1>5, <1>11, <3>1
      <4> QED
        BY <1>13, <4>1
    <3>2. CASE j > i
      <4>1. j - 1 \in i .. l - 1 /\ j - 1 \in 1 .. l - 1 /\ (j - 1) + 1 = j
        BY <1>5, <1>11, <3>2
      <4> QED
        BY <1>13, <4>1
    <3> QED
      BY <1>5, <1>11, <2>1, <3>1, <3>2
  <2>2. ASSUME NEW k \in 1 .. l - 1
        PROVE  \E j \in 1 .. l : j # i /\ v[k] = w[j]
    <3>1. \/ k \in 1 .. l /\ k # i /\ v[k] = w[k]
          \/ k + 1 \in 1 .. l /\ k + 1 # i /\ v[k] = w[k + 1]
      <4>1. /\ k \in 1 .. i - 1 => k # i
            /\ k \in i .. l - 1 => k + 1 # i
        BY <1>5, <1>11
      <4> QED
        BY <1>18, <4>1
    <3> QED
      BY <3>1
  <2>3. \A x : x \in allocated' <=> \E j \in 1 .. l : j # i /\ x = w[j]
    BY <1>4, <1>7, <1>11
  <2>4. Indices(v) = 1 .. l - 1
    BY <1>13 DEF Indices
  <2>5. \A x : (\E j \in 1 .. l : j # i /\ x = w[j]) <=> (\E k \in 1 .. l - 1 : x = v[k])
    <3>1. ASSUME NEW x, NEW j \in 1 .. l, j # i, x = w[j]
          PROVE  \E k \in 1 .. l - 1 : x = v[k]
      BY <2>1, <3>1
    <3>2. ASSUME NEW x, NEW k \in 1 .. l - 1, x = v[k]
          PROVE  \E j \in 1 .. l : j # i /\ x = w[j]
      BY <2>2, <3>2
    <3> QED
      BY <3>1, <3>2
  <2>6. \A x : x \in allocated' <=> \E k \in 1 .. l - 1 : x = v[k]
    BY <2>3, <2>5
  <2> QED
    BY <2>4, <2>6
<1>22. Agrees(v)'
  <2> DEFINE others == RemoveAt(held, i)
  <2>1. held \in Seq(Data) /\ Len(held) = l
    <3>1. \A j \in 1 .. l : m_dwData[w[j]] \in Data
      BY <1>5, <1>14 DEF LinkTyped
    <3> QED
      BY <1>5, <3>1
  <2>2. \A j \in 1 .. l : held[j] = m_dwData[w[j]]
    OBVIOUS
  <2>3. i \in 1 .. Len(held) /\ held[i] = d /\ \A j \in 1 .. i - 1 : held[j] # d
    <3>1. \A j \in 1 .. i - 1 : j \in 1 .. l /\ ~(i <= j)
      BY <1>5, <1>11
    <3> QED
      BY <1>8, <1>10, <1>11, <2>1, <3>1
  <2> HIDE DEF held
  <2>4. /\ others \in Seq(Data) /\ Len(others) = l - 1
        /\ \A k \in 1 .. i - 1 : others[k] = held[k]
        /\ \A k \in i .. l - 1 : others[k] = held[k + 1]
    BY <2>1, <2>3, RemoveAtFacts
  <2>5. InOrder(others, kept') /\ kept' \in Seq(Data)
    BY <1>4, <1>23, <2>1, <2>3, InOrderRemove, RemoveFirstFacts
  <2>6. ASSUME ~lost'
        PROVE  others = kept'
    <3>1. kept' = RemoveFirst(held, d)
      BY <1>4, <1>23, <2>6
    <3>2. PICK k \in 1 .. Len(held) :
            FirstAt(held, d, k) /\ RemoveFirst(held, d) = RemoveAt(held, k)
      BY <2>1, <2>3, RemoveFirstFacts
    <3>3. ~(k < i) /\ ~(i < k)
      <4>1. k < i => k \in 1 .. i - 1
        BY <1>11, <2>1, <3>2
      <4>2. i < k => i \in 1 .. k - 1
        BY <1>11, <2>1, <3>2
      <4> QED
        BY <2>3, <3>2, <4>1, <4>2 DEF FirstAt
    <3>4. k = i
      BY <1>11, <3>2, <3>3
    <3> QED
      BY <3>1, <3>2, <3>4
  <2> HIDE DEF others
  <2>7. ASSUME NEW k \in 1 .. l - 1
        PROVE  others[k] = m_dwData'[v[k]]
    BY <1>4, <1>18, <2>2, <2>4
  <2>8. others = [k \in 1 .. l - 1 |-> others[k]]
    BY <2>4
  <2>9. Indices(v) = 1 .. l - 1
    BY <1>13 DEF Indices
  <2>10. [j \in Indices(v) |-> m_dwData[v[j]]]' = others
    <3>1. [j \in Indices(v) |-> m_dwData'[v[j]]] = others
      BY <2>7, <2>8, <2>9
    <3> QED
      BY <3>1 DEF Indices
  <2> QED
    BY <2>5, <2>6, <2>10 DEF Agrees
<1> QED
  BY <1>16, <1>19, <1>20, <1>21, <1>22 DEF LinkInv, IsList, Distinct, Indices

LEMMA LinkInvNext == LinkInv /\ [LinkNext]_linkVars => LinkInv'
<1> SUFFICES ASSUME LinkInv, [LinkNext]_linkVars
             PROVE  LinkInv'
  OBVIOUS
<1>1. ASSUME NEW d \in Data, RemoveOnly(d)
      PROVE  LinkInv'
  BY <1>1, RemoveOnlyStep
<1>2. ASSUME NEW d \in Data, append(d)
      PROVE  LinkInv'
  BY <1>2, AppendStep
<1>3. ASSUME NEW d \in Data, RemoveInside(d)
      PROVE  LinkInv'
  BY <1>3, RemoveInsideStep
<1>4. ASSUME UNCHANGED <<pointers, lost, kept>>
      PROVE  LinkInv'
  BY <1>4 DEF LinkInv, LinkTyped, IsList, Agrees, Indices, Visits, pointers
<1>5. CASE UNCHANGED linkVars
  BY <1>4, <1>5 DEF linkVars
<1>6. ASSUME NEW d \in Data, RemoveBreaks(d)
      PROVE  LinkInv'
  BY <1>4, <1>6 DEF RemoveBreaks
<1>7. ASSUME NEW d \in Data, RemoveNone(d)
      PROVE  LinkInv'
  BY <1>7, RemoveNoneStep
<1> QED
  BY <1>1, <1>2, <1>3, <1>5, <1>6, <1>7 DEF LinkNext

\* As long as remove() has not used a pointer that points nowhere, the list
\* holds nothing but what append() was given and remove() was not, in order,
\* in nodes that are allocated, and no node is leaked; and it holds all of
\* that as long as remove() has not emptied a list of one node that held
\* something else: for lists of any length.
THEOREM ListHoldsWhatItWasGiven == LinkSpec => []ListHolds
<1>1. LinkInv => ListHolds
  <2> SUFFICES ASSUME LinkInv
               PROVE  ListHolds
    OBVIOUS
  <2>1. PICK w \in Seq(Nodes) : IsList(w)
    BY DEF LinkInv
  <2>2. Walk = w
    BY <2>1, WalkIs DEF IsList
  <2>3. DOMAIN w = Indices(w)
    BY DEF Indices
  <2>4. ToSet(w) = {w[i] : i \in Indices(w)}
    BY <2>3 DEF ToSet
  <2>5. Held(w) = [i \in Indices(w) |-> m_dwData[w[i]]]
    BY <2>3 DEF Held
  <2> QED
    BY <2>1, <2>2, <2>4, <2>5 DEF ListHolds, IsList, Agrees
<1> QED
  BY <1>1, LinkInvInit, LinkInvNext, PTL DEF LinkSpec
=============================================================================
