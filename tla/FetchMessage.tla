---------------------------- MODULE FetchMessage ----------------------------
(***************************************************************************)
(* FETCH: how the manager parses the list of items, answers a message item *)
(* by item, and sets its flags afterwards, while other programs change the *)
(* flags in the database.  OemoImapMgr's code and its port in              *)
(* chromatic_imap_mgr are the same but for two things, which are chosen in *)
(* FetchInit: the port leaves fetch_map_ empty, and compares the command   *)
(* with "rfc822.text.text".                                                *)
(*                                                                         *)
(* A request is a sequence of items.  An item has a keyword, first, and    *)
(* what stands in brackets after it, second: a sequence of tokens, <<>> if *)
(* there are no brackets, <<"nil">> if there is nothing between them.      *)
(***************************************************************************)
EXTENDS Integers, Sequences, FiniteSets, SequencesExt

CONSTANTS
  Words,         \* the words a client writes
  Requests,      \* the requests it makes of them
  MaxMessages    \* bound: messages of the mailbox

\* What stands between and around the words.
Space == " "
Open == "["
Close == "]"

ASSUME FetchAssumption ==
  /\ MaxMessages \in Nat
  /\ Words \cap {Space, Open, Close} = {}
  /\ Requests \subseteq Seq([first : Words, second : Seq(Words \cup {Space})])

VARIABLES
  fetch_map,     \* m_fetchMap: the keywords it has
  text_works,    \* FetchRfc822() knows "rfc822.text"
  uids,          \* Uids(): the command came as UID FETCH
  request,       \* what the client asks for
  requests,      \* requests
  status,        \* "asked", "next", "items", "completed" or "failed"
  todo,          \* the messages not answered yet
  dter,          \* the item FetchMessage() is at
  msg,           \* its locals
  copy,          \* Messages(): the flags read by the refresh
  stored,        \* the flags in the database
  ostr           \* the responses, [msg, stream]

asked == <<fetch_map, text_works, uids, request>>
fetchVars == <<asked, requests, status, todo, dter, msg, copy, stored, ostr>>

Flags == {"Recent", "Seen"}
Messages == 1 .. MaxMessages

\* oemo_imap_fetch_...: the keywords, of which the aggregates stand for
\* others.
Aggregate == {"fast", "all", "full"}
Keywords == Aggregate \cup
  {"flags", "internaldate", "rfc822.size", "envelope", "bodystructure", "uid",
   "rfc822", "rfc822.text", "body", "body.peek"}

Item(first) == [first |-> first, second |-> <<>>]

\* The sections this code tells apart.
Header == <<"header">>
HeaderFields == <<"header.fields", Space, "(from)">>
HeaderFieldsNot == <<"header.fields.not", Space, "(from)">>
PartHeader == <<"1.header">>
PartHeaderFields == <<"1.header.fields", Space, "(from)">>
Text == <<"text">>
Part == <<"1">>
Whole == <<"nil">>

NoMessage == [flags |-> {}, mflags |-> {}, bPeek |-> FALSE, strPayload |-> "",
              stream |-> <<>>]

FetchInit ==
  /\ \/ fetch_map = Keywords /\ text_works = TRUE
     \/ fetch_map = {} /\ text_works = FALSE
  /\ uids \in BOOLEAN
  /\ request \in Requests
  /\ requests = <<>>
  /\ status = "asked"
  /\ todo = <<>>
  /\ dter = 1
  /\ msg = NoMessage
  /\ copy = [m \in Messages |-> {}]
  /\ stored \in [Messages -> SUBSET Flags]
  /\ ostr = <<>>

-----------------------------------------------------------------------------
(* The list of items. *)

\* What the client sends for an item.
Worded(it) ==
  <<it.first>> \o
  CASE it.second = <<>> -> <<>>
    [] it.second = Whole -> <<Open, Close>>
    [] OTHER -> <<Open>> \o it.second \o <<Close>>

\* What the client sends for a request: words, spaces and brackets.
Written(list) ==
  LET sent[n \in 0 .. Len(list)] ==
        IF n = 0 THEN <<>>
        ELSE IF n = 1 THEN Worded(list[1])
        ELSE sent[n - 1] \o <<Space>> \o Worded(list[n])
  IN sent[Len(list)]

Unread == [s |-> <<>>, bParams |-> FALSE, requests |-> <<>>]

Pushed(p) == IF p.s = <<>> THEN p.requests ELSE Append(p.requests, Item(Head(p.s)))

\* Mutated form of the next definition: it cuts at the spaces in brackets.
CutAtSpaces(p, c) ==
  CASE c = Space -> [p EXCEPT !.s = <<>>, !.requests = Pushed(p)]
    [] c = Open -> [s |-> <<>>, bParams |-> TRUE, requests |-> Pushed(p)]
    [] c = Close ->
         [s |-> <<>>, bParams |-> FALSE, requests |->
            [p.requests EXCEPT ![Len(p.requests)].second =
               IF p.s = <<>> THEN Whole ELSE p.s]]
    [] OTHER -> [p EXCEPT !.s = Append(@, c)]

\* A turn of ParseFetchRequestList()'s loop: a word outside brackets is an
\* item, what stands in brackets belongs to the item before them.
ReadToken(p, c) ==
  CASE c = Space /\ ~p.bParams -> [p EXCEPT !.s = <<>>, !.requests = Pushed(p)]
    [] c = Open -> [s |-> <<>>, bParams |-> TRUE, requests |-> Pushed(p)]
    [] c = Close ->
         [s |-> <<>>, bParams |-> FALSE, requests |->
            [p.requests EXCEPT ![Len(p.requests)].second =
               IF p.s = <<>> THEN Whole ELSE p.s]]
    [] OTHER -> [p EXCEPT !.s = Append(@, c)]

\* All of them, and what is left at the end.
ParseFetchRequestList(tokens) ==
  LET read[n \in 0 .. Len(tokens)] ==
        IF n = 0 THEN Unread ELSE ReadToken(read[n - 1], tokens[n])
      p == read[Len(tokens)]
  IN IF p.bParams THEN p.requests ELSE Pushed(p)

\* A keyword for several items replaces the whole list if it is the first.
Expanded(list) ==
  LET fast == <<Item("flags"), Item("internaldate"), Item("rfc822.size")>>
  IN CASE Head(list).first = "fast" -> fast
       [] Head(list).first = "all" -> Append(fast, Item("envelope"))
       [] Head(list).first = "full" -> fast \o <<Item("envelope"), Item("body")>>
       [] OTHER -> list

-----------------------------------------------------------------------------
(* What the files of a message give.  A throw leaves FETCH. *)

Throws == "throw"

\* The whole head; the manager never asks it for the head of a part.
FetchHeader == "header"
FetchEnvelope == "envelope"
FetchBodyStructure == "bodystructure"
InternalDate == "internaldate"

\* The names in parentheses.  Whatever precedes "header.fields" is not
\* looked at, and a period after it is taken for a path of parts, whose
\* conversion to numbers fails.
FetchHeaderFieldsMime(second) ==
  IF second = HeaderFieldsNot THEN Throws ELSE "header.fields"
FetchHeaderFields(second) == FetchHeaderFieldsMime(second)

FetchRfc822(first) ==
  CASE first = "rfc822" -> "whole"
    [] first = "rfc822.text" /\ text_works -> "text"
    [] OTHER -> "empty"

\* The part a path of numbers leads to; what is no number fails.
FetchMime(second) ==
  CASE second = <<>> -> {"whole"}
    [] second = Text -> {Throws}
    [] OTHER -> {"part", Throws}

-----------------------------------------------------------------------------
(* The items of a message. *)

Answer(first, content) == Append(msg.stream, [item |-> first, content |-> content])

\* Mutated form of the next definition: only the message becomes seen.
ShowFlags(it) ==
  LET mflags == IF msg.bPeek THEN msg.mflags ELSE msg.flags \cup {"Seen"}
  IN {[msg EXCEPT !.mflags = mflags, !.stream = Answer(it, mflags)]}

\* FLAGS makes the message seen, then shows its flags.
ItemFlags(it) ==
  LET flags == IF msg.bPeek THEN msg.flags ELSE msg.flags \cup {"Seen"}
      mflags == IF msg.bPeek THEN msg.mflags ELSE flags
  IN {[msg EXCEPT !.flags = flags, !.mflags = mflags, !.stream = Answer(it, mflags)]}

ItemPlain(it, content) == {[msg EXCEPT !.stream = Answer(it, content)]}

\* With UID FETCH the response starts with the UID.
ItemUid(it) == IF uids THEN {msg} ELSE ItemPlain(it, "uid")

ItemText(it) ==
  {[msg EXCEPT !.flags = msg.mflags \cup {"Seen"},
               !.stream = Answer(it, FetchRfc822("rfc822.text"))]}

\* Mutated form of the next definition: the payload is declared outside.
StaleFields(it) ==
  CASE it.second = Header -> {FetchHeader}
    [] it.second \in {HeaderFields, PartHeaderFields, PartHeader, HeaderFieldsNot} ->
         {msg.strPayload}
    [] OTHER -> FetchMime(IF it.second = Whole THEN <<>> ELSE it.second)

\* strPayload for the section of BODY or BODY.PEEK.  No branch takes the
\* header of a part: the payload of the item before it stays.
Payloads(it) ==
  CASE it.second = Header -> {FetchHeader}
    [] it.second \in {HeaderFields, PartHeaderFields, HeaderFieldsNot} ->
         {FetchHeaderFields(it.second)}
    [] it.second = PartHeader -> {msg.strPayload}
    [] OTHER -> FetchMime(IF it.second = Whole THEN <<>> ELSE it.second)

\* BODY.PEEK goes on as BODY.  It is the one that makes a message seen.
ItemBody(it) ==
  LET bPeek == msg.bPeek \/ it.first = "body.peek"
      sees == it.first = "body.peek" /\ it.second \in {Whole, Part}
  IN IF it.second = <<>>
     THEN {[msg EXCEPT !.bPeek = bPeek, !.stream = Answer(it, FetchBodyStructure)]}
     ELSE {IF payload = Throws THEN NoMessage
           ELSE [msg EXCEPT !.bPeek = bPeek, !.strPayload = payload,
                   !.flags = IF sees THEN msg.mflags \cup {"Seen"} ELSE @,
                   !.stream = Answer(it, payload)] : payload \in Payloads(it)}

\* The switch over the keyword.  NoMessage stands for a throw: an unknown
\* keyword, or one for several items that is not the first.
Itemised(it) ==
  CASE it.first = "flags" -> ItemFlags(it)
    [] it.first = "internaldate" -> ItemPlain(it, InternalDate)
    [] it.first = "rfc822.size" -> ItemPlain(it, "size")
    [] it.first = "envelope" -> ItemPlain(it, FetchEnvelope)
    [] it.first = "bodystructure" -> ItemPlain(it, FetchBodyStructure)
    [] it.first = "uid" -> ItemUid(it)
    [] it.first = "rfc822" -> ItemPlain(it, FetchRfc822("rfc822"))
    [] it.first = "rfc822.text" -> ItemText(it)
    [] it.first \in {"body", "body.peek"} -> ItemBody(it)
    [] OTHER -> {NoMessage}

-----------------------------------------------------------------------------
\* OnFetch(): the refresh may be cut short unnoticed.
OnFetch ==
  /\ status = "asked"
  /\ \E n \in 0 .. MaxMessages : todo' = [i \in 1 .. n |-> i]
  /\ copy' = stored
  /\ requests' = ParseFetchRequestList(Written(request))
  /\ status' = "next"
  /\ UNCHANGED <<asked, dter, msg, stored, ostr>>

\* FetchMessage() up to the loop over the items.
FetchMessage ==
  /\ status = "next" /\ todo # <<>>
  /\ requests' = Expanded(requests)
  /\ dter' = 1
  /\ msg' = [NoMessage EXCEPT !.flags = copy[Head(todo)], !.mflags = copy[Head(todo)],
               !.stream = IF uids THEN <<[item |-> Item("uid"), content |-> "uid"]>>
                          ELSE <<>>]
  /\ status' = "items"
  /\ UNCHANGED <<asked, todo, copy, stored, ostr>>

\* One turn of the loop; an exception ends the command with NO.
FetchItem ==
  /\ status = "items" /\ dter <= Len(requests)
  /\ LET it == requests[dter]
     IN \E after \in IF it.first \in fetch_map THEN Itemised(it) ELSE {NoMessage} :
          IF after = NoMessage
          THEN status' = "failed" /\ UNCHANGED <<msg, dter>>
          ELSE msg' = after /\ dter' = dter + 1 /\ UNCHANGED status
  /\ UNCHANGED <<asked, requests, todo, copy, stored, ostr>>

Shown == [msg |-> Head(todo), stream |-> msg.stream]

\* SetMessageFlagsByDb() writes every flag of the copy, over whatever the
\* others wrote since; it throws if the database refuses.
SetMessageFlagsByDb(m, flags) ==
  \/ stored' = [stored EXCEPT ![m] = flags] /\ ostr' = Append(ostr, Shown) /\ status' = "next"
  \/ UNCHANGED <<stored, ostr>> /\ status' = "failed"

\* The end of FetchMessage(): the response is added to the others only when
\* it returns.
FetchResponse ==
  /\ status = "items" /\ dter > Len(requests)
  /\ LET m == Head(todo)
         flags == msg.flags \ {"Recent"}
     IN IF flags # copy[m]
        THEN SetMessageFlagsByDb(m, flags)
        ELSE UNCHANGED stored /\ ostr' = Append(ostr, Shown) /\ status' = "next"
  /\ todo' = Tail(todo)
  /\ UNCHANGED <<asked, requests, dter, msg, copy>>

FetchCompleted ==
  /\ status = "next" /\ todo = <<>>
  /\ status' = "completed"
  /\ UNCHANGED <<asked, requests, todo, dter, msg, copy, stored, ostr>>

\* Another program, or another session, changes the flags of a message (one
\* not answered yet: FETCH looks at no other again).
Elsewhere ==
  /\ status \in {"next", "items"}
  /\ \E m \in ToSet(todo), flags \in SUBSET Flags : stored' = [stored EXCEPT ![m] = flags]
  /\ UNCHANGED <<asked, requests, status, todo, dter, msg, copy, ostr>>

FetchNext ==
  \/ OnFetch \/ FetchMessage \/ FetchItem \/ FetchResponse \/ FetchCompleted
  \/ Elsewhere

FetchSpec == FetchInit /\ [][FetchNext]_fetchVars

-----------------------------------------------------------------------------
(* Properties. *)

\* The list the manager works on is the one the client wrote, spaces within
\* brackets, empty brackets and all.
ParsedAsSent == ParseFetchRequestList(Written(request)) = request

\* What an item of BODY asks for; the sections TEXT and HEADER.FIELDS.NOT must
\* not be answered at all.
AskedFor(second) ==
  CASE second = <<>> -> "bodystructure"
    [] second = Whole -> "whole"
    [] second = Header -> "header"
    [] second = HeaderFields -> "header.fields"
    [] second \in {Text, HeaderFieldsNot} -> "nothing"
    [] OTHER -> "part"

\* Whatever items precede it, a body item is answered with the section it
\* asks for: the payload is kept from item to item.  The two exceptions are
\* the sections of a part's header, of which the first is answered with the
\* payload before it, the second with the message's own fields.
AnswersAreOwn ==
  \A i \in DOMAIN ostr : \A j \in DOMAIN ostr[i].stream :
    LET a == ostr[i].stream[j]
    IN a.item.first \in {"body", "body.peek"} =>
         \/ a.item.second \in {PartHeader, PartHeaderFields}
         \/ a.content = AskedFor(a.item.second)

\* A flag the client is shown is in the database once its response is made,
\* unless it was taken away elsewhere since the mailbox was read, or is
\* Recent.
ShownIsStored ==
  [][\A i \in DOMAIN ostr' \ DOMAIN ostr : \A j \in DOMAIN ostr'[i].stream :
       LET a == ostr'[i].stream[j]
           m == ostr'[i].msg
       IN a.item.first = "flags" =>
            a.content \subseteq stored'[m] \cup (copy[m] \ stored[m]) \cup {"Recent"}]_fetchVars
=============================================================================
