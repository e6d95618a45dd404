--------------------------- MODULE SearchCriteria ---------------------------
(***************************************************************************)
(* SEARCH of the Windows predecessor: OnSearch() takes a message set off   *)
(* the parameters, OemoImapSearchCriteria reads the keys, the resolver     *)
(* asks the full text engine and intersects its results with the set.      *)
(* (The port's on_search() is commented out, and answers nothing.)         *)
(*                                                                         *)
(* A word of the criteria is a token of MessageManip or [kind, name] with  *)
(* the kind "key".  The engine is external: it returns the files that      *)
(* match in an order of its own.                                           *)
(***************************************************************************)
EXTENDS MessageManip

CONSTANTS
  MaxUid,        \* bound: the largest UID
  MaxResults,    \* bound: the longest result of the engine
  Criteria       \* what clients write after SEARCH

NilSet == [kind |-> "nil"]
AllMessages == [kind |-> "star", left |-> 1]
Key(name) == [kind |-> "key", name |-> name]

Words == AnyToken \cup [kind : {"key"}, name : STRING]

ASSUME SearchAssumption ==
  /\ MaxUid \in Nat
  /\ MaxResults \in Nat
  /\ Criteria \subseteq Seq(Words)

VARIABLES
  words,         \* the criteria, as they came; atoms once the set is off
  uid,           \* Uids()
  messages,      \* Messages(): the UIDs, the i-th being that of message i
  m_dwMaxUid,    \* MaxUid()
  message_set,   \* MessageSet(): one token, or NilSet
  step,          \* "asked", "keys", "engine", "results", "answered", "swallowed",
                 \* when an exception was only logged, or "failed", when it was thrown
  results,       \* what the engine found, in its order: UIDs
  at,            \* the result the loop is at
  search_result_set,
  vints          \* m_vints, then the numbers of the response

searchVars == <<words, uid, messages, m_dwMaxUid, message_set, step, results, at,
                search_result_set, vints>>

\* The numbers a message set speaks of: UIDs, or the positions.
Known == IF uid THEN messages ELSE [i \in DOMAIN messages |-> i]

\* dwMax, which IsMessageSet() and ExpandMessageSequence() are given.
SearchMax == IF uid THEN m_dwMaxUid ELSE Len(messages)

\* Without messages MaxUid() is that of another mailbox, or was never set.
SearchInit ==
  /\ words \in Criteria
  /\ uid \in BOOLEAN
  /\ messages \in {uids \in SeqOf(1 .. MaxUid, MaxUid) : Ascends(uids)}
  /\ m_dwMaxUid \in IF messages = <<>> THEN -1 .. MaxUid ELSE {Last(messages)}
  /\ message_set = NilSet
  /\ step = "asked"
  /\ results = <<>>
  /\ at = 1
  /\ search_result_set = <<>>
  /\ vints = <<>>

-----------------------------------------------------------------------------
\* IsMessageSet(), which takes no sign: an upper bound is not compared with
\* the last message, the lower bound of a star is.
IsMessageSet(w) ==
  CASE w.kind = "number" -> w.left > 0
    [] w.kind = "range" -> w.left > 0 /\ w.right > 0 /\ w.left <= w.right
    [] w.kind = "star" -> w.left > 0 /\ w.left <= SearchMax
    [] OTHER -> FALSE

\* StrToSearchKey()
IsKey(w) == w \in {Key("all"), Key("text")}

\* One word is a parse error; the set is taken off, and something is left.
OnSearch ==
  /\ step = "asked"
  /\ IF Len(words) < 2
     THEN step' = "failed" /\ UNCHANGED <<words, message_set>>
     ELSE /\ step' = "keys"
          /\ IF IsMessageSet(Head(words))
             THEN message_set' = Head(words) /\ words' = Tail(words)
             ELSE UNCHANGED <<words, message_set>>
  /\ UNCHANGED <<uid, messages, m_dwMaxUid, results, at, search_result_set, vints>>

\* DeconstructCriteria(): a second set takes the place of the first; ALL does
\* too.  One word alone, or parentheses, resolve nothing.
DeconstructCriteria ==
  /\ step = "keys"
  /\ LET w == Head(words)
         resolves == Len(words) > 1 /\ Key("(") \notin ToSet(words)
         set == CASE w = Key("all") -> AllMessages
                  [] w = Key("text") -> IF message_set = NilSet THEN AllMessages ELSE message_set
                  [] OTHER -> w
     IN CASE ~resolves -> step' = "answered" /\ UNCHANGED message_set
          [] resolves /\ ~IsKey(w) /\ ~IsMessageSet(w) ->
               step' = "failed" /\ UNCHANGED message_set
          [] OTHER -> step' = "engine" /\ message_set' = set
  /\ UNCHANGED <<words, uid, messages, m_dwMaxUid, results, at, search_result_set, vints>>

\* ResolveParentheticalKey() up to Execute(): without TEXT a parse error.
\* The engine finds files of this mailbox, the same file in two
\* places perhaps, and files of others (0).
ResolveParentheticalKey ==
  /\ step = "engine"
  /\ IF Key("text") \notin ToSet(words)
     THEN step' = "failed" /\ UNCHANGED results
     ELSE \/ /\ step' = "results"
             /\ results' \in SeqOf(ToSet(messages) \cup {0}, MaxResults)
          \/ step' = "failed" /\ UNCHANGED results
          \/ step' = "swallowed" /\ UNCHANGED results
  /\ UNCHANGED <<words, uid, messages, m_dwMaxUid, message_set, at, search_result_set, vints>>

\* One turn of the loop over the results; what is no file of the mailbox is
\* passed over.
TakeResult ==
  /\ step = "results" /\ at <= Len(results)
  /\ at' = at + 1
  /\ search_result_set' =
       IF results[at] \in ToSet(messages) THEN Append(search_result_set, results[at])
       ELSE search_result_set
  /\ UNCHANGED <<words, uid, messages, m_dwMaxUid, message_set, step, results, vints>>

\* The engine throws at one of the results, or when it is asked for their
\* number after the last: m_vints is still empty, and that is the response.
ResultThrows ==
  /\ step = "results"
  /\ step' = "swallowed"
  /\ UNCHANGED <<words, uid, messages, m_dwMaxUid, message_set, results, at, search_result_set, vints>>

MessageNumbersToUids(numbers) ==
  LET known == Chosen(numbers, {i \in DOMAIN numbers : numbers[i] \in DOMAIN messages})
  IN [i \in DOMAIN known |-> messages[known[i]]]

UidsToMessageNumbers(uids) ==
  [i \in DOMAIN uids |-> CHOOSE n \in DOMAIN messages : messages[n] = uids[i]]

Ordered(seq) == Unique(Sorted(seq))

\* Mutated form of the next definition: the numbers are taken for UIDs.
WithoutUids ==
  LET found == Intersection(Ordered(Atoms(message_set, SearchMax)),
                            Ordered(search_result_set))
  IN IF uid THEN found ELSE UidsToMessageNumbers(found)

\* AtomsIntersection() of the set, as UIDs, and what was found; the numbers.
Found ==
  LET asked == Atoms(message_set, SearchMax)
      found == Intersection(Ordered(IF uid THEN asked ELSE MessageNumbersToUids(asked)),
                            Ordered(search_result_set))
  IN IF uid THEN found ELSE UidsToMessageNumbers(found)

\* The end of the loop, which a document that cannot be had ends early.
SearchResponse ==
  /\ step = "results"
  /\ vints' = Found
  /\ step' = "answered"
  /\ UNCHANGED <<words, uid, messages, m_dwMaxUid, message_set, results, at, search_result_set>>

SearchNext ==
  \/ OnSearch \/ DeconstructCriteria \/ ResolveParentheticalKey
  \/ TakeResult \/ ResultThrows \/ SearchResponse

SearchSpec == SearchInit /\ [][SearchNext]_searchVars

-----------------------------------------------------------------------------
(* Properties. *)

\* The response lists the messages that are in the set the criteria end up
\* with and that the engine was seen to find, each once and in their order,
\* in whatever order, from whatever mailboxes and however often the engine
\* names them, and whichever of numbers and UIDs the client uses.  After an
\* exception that was only logged it lists none of them, whatever had been
\* seen until then: never some.
SearchIsIntersection ==
  /\ step = "answered" =>
       LET found == {results[i] : i \in 1 .. at - 1}
       IN /\ Ascends(vints)
          /\ ToSet(vints) = {n \in ToSet(Known) :
                               /\ found # {} /\ Means(message_set, n)
                               /\ (IF uid THEN n ELSE messages[n]) \in found}
  /\ step = "swallowed" => vints = <<>>
=============================================================================
