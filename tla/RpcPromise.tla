----------------------------- MODULE RpcPromise -----------------------------
(***************************************************************************)
(* What two servers promise of the messages sent from one to the other: a  *)
(* message is executed at most once, only while it is young enough, and is *)
(* answered only after it was executed; it may fail at any point, and its  *)
(* failure is final.  There is no promise that the sender learns of it.    *)
(***************************************************************************)
EXTENDS Naturals

CONSTANTS
  Msgs,   \* messages
  OldAge  \* no message is executed at this age

VARIABLES
  status, \* what has become of each message
  age,    \* the seconds since each was sent, capped at OldAge
  runs    \* how often each was executed

vars == <<status, age, runs>>

Init ==
  /\ status = [m \in Msgs |-> "new"]
  /\ age = [m \in Msgs |-> 0]
  /\ runs = [m \in Msgs |-> 0]

Send(m) ==
  /\ status[m] = "new"
  /\ status' = [status EXCEPT ![m] = "sent"]
  /\ UNCHANGED <<age, runs>>

\* A message can be written and found lost in one step.
SendInVain(m) ==
  /\ status[m] = "new"
  /\ status' = [status EXCEPT ![m] = "failed"]
  /\ UNCHANGED <<age, runs>>

\* The messages of `others` are lost in the same step, always from "sent".
Execute(m, others) ==
  /\ status[m] = "sent"
  /\ m \notin others
  /\ \A o \in others : status[o] = "sent"
  /\ age[m] < OldAge
  /\ runs[m] = 0
  /\ runs' = [runs EXCEPT ![m] = 1]
  /\ status' = [o \in Msgs |-> IF o = m THEN "executed"
                               ELSE IF o \in others THEN "failed" ELSE status[o]]
  /\ UNCHANGED age

Answer(m, others) ==
  /\ status[m] = "executed"
  /\ m \notin others
  /\ \A o \in others : status[o] = "executed"
  /\ status' = [o \in Msgs |-> IF o = m THEN "answered"
                               ELSE IF o \in others THEN "failed" ELSE status[o]]
  /\ UNCHANGED <<age, runs>>

Fail(some) ==
  /\ \A m \in some : status[m] \in {"sent", "executed"}
  /\ status' = [m \in Msgs |-> IF m \in some THEN "failed" ELSE status[m]]
  /\ UNCHANGED <<age, runs>>

\* A second passes.
Tick ==
  /\ \A m \in Msgs : age'[m] \in {age[m], age[m] + 1}
  /\ age' \in [Msgs -> 0..OldAge]
  /\ UNCHANGED <<status, runs>>

Next ==
  \/ \E m \in Msgs : Send(m) \/ SendInVain(m)
  \/ \E m \in Msgs, others \in SUBSET Msgs : Execute(m, others) \/ Answer(m, others)
  \/ \E some \in SUBSET Msgs : Fail(some)
  \/ Tick

Spec == Init /\ [][Next]_vars
=============================================================================
