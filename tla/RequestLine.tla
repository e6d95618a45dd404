---------------------------- MODULE RequestLine ----------------------------
(***************************************************************************)
(* From packets to commands: process() of the connection handler collects  *)
(* what recv() returns until there is a line feed, perform() and           *)
(* parse_command() take the text apart.                                    *)
(*                                                                         *)
(* A byte is [c, of]: the character and the request it was sent in.  The   *)
(* literal of an APPEND is in ImapSession.                                 *)
(***************************************************************************)
EXTENDS Integers, Sequences, FiniteSets, SequencesExt

CONSTANTS
  Lines,                      \* what a client may send, each a sequence of characters
  MaxLines,                   \* bound: requests of a client
  BufferLength,               \* rdbuf_len, longer than what a client sends
  Cleared,                    \* sizeof( rdbuf_len )
  constCommandBufferLength,
  constMaxTokenLength

\* A request is a line of text that ends with CRLF and fits in the buffer.
ASSUME RequestAssumption ==
  /\ {MaxLines, BufferLength, Cleared, constCommandBufferLength, constMaxTokenLength} \subseteq Nat
  /\ Lines \subseteq Seq(STRING)
  /\ \A line \in Lines :
       /\ 1 < Len(line) /\ Len(line) < BufferLength
       /\ \A i \in DOMAIN line : line[i] = "\n" <=> i = Len(line)
       /\ line[Len(line) - 1] = "\r"

VARIABLES
  sent,        \* the requests the client has sent
  rest,        \* their bytes that recv() has not returned yet
  rdbuf,       \* the buffer of handle_input() or svc()
  ostr,        \* what process() has collected
  place,       \* "idle", "recv" inside process(), or "over": it has returned -1
  disturbed,   \* what happened to the bytes of the request
  performed    \* the texts given to perform()

requestVars == <<sent, rest, rdbuf, ostr, place, disturbed, performed>>

Nul == [c |-> "", of |-> 0]
Positions == 1 .. BufferLength

RequestInit ==
  /\ sent = <<>>
  /\ rest = <<>>
  /\ rdbuf = [i \in Positions |-> Nul]
  /\ ostr = <<>>
  /\ place = "idle"
  /\ disturbed = {}
  /\ performed = <<>>

-----------------------------------------------------------------------------
(* parse_command(). *)

\* find_first_of(): where c is, or 0.
Find(text, c) == SelectInSeq(text, LAMBDA b : b.c = c)
UpTo(text, i) == SubSeq(text, 1, i)
After(text, i) == SubSeq(text, i + 1, Len(text))

\* Mutated form of the next definition: the carriage return stays.
ChompFeed(text) ==
  LET i == Find(text, "\n") IN IF i = 0 THEN text ELSE UpTo(text, i - 1)

\* chomp(): cut at the first line feed, along with the character before it;
\* a line feed at the start stays.
chomp(text) ==
  LET i == Find(text, "\n") IN IF i <= 1 THEN text ELSE UpTo(text, i - 2)

\* rtrimlast(): the last two characters go if the last is a line feed.
rtrimlast(text) ==
  IF text # <<>> /\ Last(text).c = "\n" /\ Len(text) > 1
  THEN UpTo(text, Len(text) - 2) ELSE text

Error(e) == [error |-> e]
Command(command, payload) == [error |-> "none", command |-> command, payload |-> payload]

\* A token, a command, and what is left of the first line.
parse_command(packet) ==
  LET i == Find(packet, " ")
      str == After(packet, i)
      j == Find(str, " ")
  IN IF i = 0 THEN Error("no command")
     ELSE IF i - 1 > constMaxTokenLength THEN Error("token too long")
     ELSE IF str = <<>> THEN Error("invalid syntax")
     ELSE IF j = 0 THEN Command(rtrimlast(str), <<>>)
     ELSE Command(UpTo(str, j - 1), chomp(After(str, j)))

-----------------------------------------------------------------------------
(* The client. *)

Bytes(line, n) == [i \in DOMAIN line |-> [c |-> line[i], of |-> n]]

\* The next request; "pipelined" if the one before is not served yet.
Send ==
  /\ Len(sent) < MaxLines
  /\ place # "over"
  /\ \E line \in Lines :
       /\ sent' = Append(sent, line)
       /\ rest' = rest \o Bytes(line, Len(sent) + 1)
  /\ disturbed' = IF rest = <<>> /\ place = "idle" THEN {} ELSE disturbed \cup {"pipelined"}
  /\ UNCHANGED <<rdbuf, ostr, place, performed>>

-----------------------------------------------------------------------------
(* process(). *)

\* Mutated form of the next definition: the buffer is not cleared.
BeginAsItIs ==
  /\ place = "idle" /\ rest # <<>>
  /\ place' = "recv"
  /\ ostr' = <<>>
  /\ UNCHANGED <<sent, rest, rdbuf, disturbed, performed>>

\* The socket is readable: process() is called, and clears the buffer.
Begin ==
  /\ place = "idle" /\ rest # <<>>
  /\ place' = "recv"
  /\ rdbuf' = [i \in Positions |-> Nul]
  /\ ostr' = <<>>
  /\ UNCHANGED <<sent, rest, disturbed, performed>>

\* *ostr << rdbuf: up to the first NUL.
CString(buf) ==
  LET nul == {i \in Positions : buf[i] = Nul}
  IN [i \in 1 .. (CHOOSE n \in nul : \A m \in nul : n <= m) - 1 |-> buf[i]]

\* perform() with all that has been collected, whatever follows the first
\* line feed; process() returns.
perform(text) ==
  /\ performed' = Append(performed,
       [text |-> text, does |-> parse_command(text), request |-> Len(sent),
        disturbed |-> disturbed'])
  /\ place' = "idle"
  /\ ostr' = <<>>

\* One turn of the loop: n bytes at the start of the buffer, of which only
\* four are cleared afterwards.  A packet shorter than an earlier one, but
\* not so short, is followed by what is left of that one.
Recv ==
  /\ place = "recv"
  /\ \E n \in 1 .. Len(rest) :
       LET buf == [i \in Positions |-> IF i <= n THEN rest[i] ELSE rdbuf[i]]
           text == ostr \o CString(buf)
           full == Find(text, "\n") # 0
       IN /\ rest' = After(rest, n)
          /\ rdbuf' = [i \in Positions |-> IF i <= Cleared THEN Nul ELSE buf[i]]
          /\ disturbed' = disturbed
               \cup (IF Len(CString(buf)) > n THEN {"shorter"} ELSE {})
               \cup (IF ~full /\ Len(text) > constCommandBufferLength THEN {"long"} ELSE {})
          /\ CASE Find(text, "^C") # 0 ->
                    place' = "over" /\ ostr' = <<>> /\ UNCHANGED performed
               [] Find(text, "^C") = 0 /\ ~full /\ Len(text) <= constCommandBufferLength ->
                    ostr' = text /\ UNCHANGED <<place, performed>>
               [] OTHER -> perform(text)
  /\ UNCHANGED sent

\* recv() waits no longer, or the client has gone: what was collected is
\* dropped, and the rest of the request will be taken for another one.
Timeout ==
  /\ place = "recv"
  /\ place' = "idle"
  /\ ostr' = <<>>
  /\ disturbed' = IF ostr = <<>> THEN disturbed ELSE disturbed \cup {"timeout"}
  /\ UNCHANGED <<sent, rest, rdbuf, performed>>

RequestNext == Send \/ Begin \/ Recv \/ Timeout

RequestSpec == RequestInit /\ [][RequestNext]_requestVars

-----------------------------------------------------------------------------
(* Properties. *)

\* What a request asks for: the words between its spaces, without CRLF, if
\* it has a space and its token is not too long.
Meant(line, n) ==
  LET text == Bytes(line, n)
      words == SubSeq(text, 1, Len(text) - 2)
      i == Find(words, " ")
      command == After(words, i)
      j == Find(command, " ")
  IN IF i = 0 THEN Error("no command")
     ELSE IF i - 1 > constMaxTokenLength THEN Error("token too long")
     ELSE IF j = 0 THEN Command(command, <<>>)
     ELSE Command(UpTo(command, j - 1), After(command, j))

\* However a request is cut into packets, the command and the parameters it
\* was sent with are performed, unless a packet was shorter than one before
\* it, a pause was longer than recv() waits, the next request came too
\* early, or the text was too long.  None of these has an effect on the
\* requests sent after the one it happened to was served.
PerformedAsSent ==
  \A i \in DOMAIN performed :
    LET p == performed[i]
    IN p.disturbed = {} => p.does = Meant(sent[p.request], p.request)

\* No byte of one request is taken for one of another, although the buffer
\* is used again and only in part cleared between packets: a text holds
\* bytes of one request, or of those that came together.
TextsAreOwn ==
  \A i \in DOMAIN performed :
    LET p == performed[i]
    IN "pipelined" \notin p.disturbed => \A j \in DOMAIN p.text : p.text[j].of = p.request
=============================================================================
