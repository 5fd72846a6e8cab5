----------------------------- MODULE LineStream -----------------------------
(***************************************************************************)
(* What a reader makes of the lines on a connection, seen line by line: a  *)
(* read takes one or more lines, and perhaps the beginning of one more;    *)
(* the first line is heard if it came whole and behind nothing else, the   *)
(* others are gone.  LineFraming, where reads take bytes, implements this, *)
(* and the two readers of RpcExchange work like this.                      *)
(***************************************************************************)
EXTENDS Naturals, Sequences

CONSTANTS
  Msgs,       \* messages, each written at most once
  NoMsg,      \* a line that belongs to no message
  CarriesOver \* what was read of a line can outlive its connection

VARIABLES
  queue, \* the lines on the way, whole or without their beginning
  half,  \* the next line follows the beginning of one that was lost
  heard  \* the messages whose lines were heard

vars == <<queue, half, heard>>

Init ==
  /\ queue = <<>>
  /\ half = FALSE
  /\ heard = {}

Write(m) ==
  /\ m # NoMsg => m \notin heard /\ \A j \in DOMAIN queue : queue[j].msg # m
  /\ queue' = Append(queue, [msg |-> m, whole |-> TRUE])
  /\ UNCHANGED <<half, heard>>

\* What is left when k lines and, if torn, the beginning of the next are taken.
Left(k, torn) ==
  IF torn THEN <<[queue[k + 1] EXCEPT !.whole = FALSE]>> \o SubSeq(queue, k + 2, Len(queue))
  ELSE SubSeq(queue, k + 1, Len(queue))

Read(k, torn) ==
  /\ torn => k < Len(queue)
  /\ heard' = IF queue[1].whole /\ ~half THEN heard \cup ({queue[1].msg} \ {NoMsg}) ELSE heard
  /\ queue' = Left(k, torn)
  /\ half' = FALSE

\* The connection ends, with what is on the way.
End ==
  /\ queue' = <<>>
  /\ half' \in {half, half \/ (CarriesOver /\ queue # <<>>)}
  /\ UNCHANGED heard

Next ==
  \/ \E m \in Msgs \cup {NoMsg} : Write(m)
  \/ \E k \in 1..Len(queue), torn \in BOOLEAN : Read(k, torn)
  \/ End

Spec == Init /\ [][Next]_vars
=============================================================================
