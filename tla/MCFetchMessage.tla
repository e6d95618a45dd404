--------------------------- MODULE MCFetchMessage ---------------------------
(* FetchMessage for every request of one or two of the items that differ   *)
(* in more than the word they put into the answer, and some longer ones.   *)
EXTENDS FetchMessage

Section(first, second) == [first |-> first, second |-> second]

Items ==
  {Item(w) : w \in {"fast", "flags", "uid", "rfc822", "rfc822.text"}} \cup
  {Section("body", s) : s \in {<<>>, Whole, Header, PartHeader, HeaderFields,
                               PartHeaderFields}} \cup
  {Section("body.peek", s) : s \in {Whole, Part, PartHeader}}

\* The answers to "all", "full", "internaldate", "rfc822.size", "envelope" and
\* "bodystructure" are of the same form as others, so they come alone.
Longer ==
  {<<Item("all")>>, <<Item("full")>>, <<Item("bodystructure"), Item("envelope")>>,
   <<Section("body", Header), Section("body.peek", PartHeader), Section("body", HeaderFields)>>,
   <<Section("body.peek", Whole), Item("flags"), Item("rfc822.text")>>,
   <<Item("flags"), Item("bogus")>>, <<Item("bogus"), Item("flags")>>,
   <<Item("flags"), Section("body", Text)>>, <<Section("body", HeaderFieldsNot)>>,
   <<Item("flags"), Section("body.peek", Part), Item("flags")>>}

SomeRequests == (SeqOf(Items, 2) \ {<<>>}) \cup Longer

\* What these requests are written with, in brackets or not.
SomeWords ==
  {it.first : it \in UNION {ToSet(list) : list \in SomeRequests}} \cup
  (UNION {ToSet(it.second) : it \in UNION {ToSet(list) : list \in SomeRequests}} \ {Space})
=============================================================================
