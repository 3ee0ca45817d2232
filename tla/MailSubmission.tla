--------------------------- MODULE MailSubmission ---------------------------
(***************************************************************************)
(* What a message transport promises, whatever the protocol: messages are  *)
(* submitted one at a time; the receiving side takes a message over at     *)
(* most once, and only a message that was submitted; a submission reported *)
(* as sent has been taken over; one reported as failed may still be taken  *)
(* over, when the answer came too late or not at all.                      *)
(***************************************************************************)
EXTENDS Naturals, Sequences

VARIABLES
  outcome,    \* outcome[t] of submission t: "pending", "sent" or "failed"
  takenOver,  \* submissions the receiving side has taken over
  stray       \* what was taken over without being any submitted message

vars == <<outcome, takenOver, stray>>

Init == outcome = <<>> /\ takenOver = {} /\ stray = {}

Submit == /\ \A t \in DOMAIN outcome : outcome[t] # "pending"
          /\ outcome' = Append(outcome, "pending")
          /\ UNCHANGED <<takenOver, stray>>

TakeOver(t) == /\ outcome[t] # "sent"
               /\ t \notin takenOver
               /\ takenOver' = takenOver \cup {t}
               /\ UNCHANGED <<outcome, stray>>

Report(t, result) == /\ outcome[t] = "pending"
                     /\ result = "sent" => t \in takenOver
                     /\ outcome' = [outcome EXCEPT ![t] = result]
                     /\ UNCHANGED <<takenOver, stray>>

Next ==
  \/ Submit
  \/ \E t \in DOMAIN outcome :
       \/ TakeOver(t)
       \/ \E result \in {"sent", "failed"} : Report(t, result)

Spec == Init /\ [][Next]_vars
=============================================================================
