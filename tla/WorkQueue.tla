------------------------------ MODULE WorkQueue ------------------------------
(***************************************************************************)
(* What a pool of worker threads promises to the event loop that feeds it: *)
(* the handlers submitted are begun in the order of their submission, each *)
(* by one worker, and none is lost, repeated or invented.                  *)
(***************************************************************************)
EXTENDS Sequences

CONSTANTS Workers, Handlers, Null

VARIABLES
  pending,   \* the handlers submitted and not yet begun, oldest first
  running    \* the handler each worker serves, or Null

queueVars == <<pending, running>>

Init ==
  /\ pending = <<>>
  /\ running = [w \in Workers |-> Null]

Submit(h) ==
  /\ \A i \in DOMAIN pending : pending[i] # h
  /\ \A w \in Workers : running[w] # h
  /\ pending' = Append(pending, h)
  /\ UNCHANGED running

Begin(w) ==
  /\ running[w] = Null
  /\ pending # <<>>
  /\ running' = [running EXCEPT ![w] = Head(pending)]
  /\ pending' = Tail(pending)

End(w) ==
  /\ running[w] # Null
  /\ running' = [running EXCEPT ![w] = Null]
  /\ UNCHANGED pending

Next ==
  \/ \E h \in Handlers : Submit(h)
  \/ \E w \in Workers : Begin(w) \/ End(w)

Spec == Init /\ [][Next]_queueVars
=============================================================================
