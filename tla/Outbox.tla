------------------------------- MODULE Outbox -------------------------------
(***************************************************************************)
(* What a customer of the sending API may rely on, however the message     *)
(* travels: an e-mail leaves only if it was submitted, and the log entry   *)
(* and the webhook events call it sent only if it did leave.  Nothing is   *)
(* promised the other way round: an e-mail that left may be reported as    *)
(* failed, or not at all.                                                  *)
(***************************************************************************)
CONSTANT Emails

VARIABLES
  report,  \* what the log entry of each e-mail says
  out,     \* the e-mails that left
  told     \* the events announced to the customer's webhooks

vars == <<report, out, told>>

Reports == {"none", "pending", "sent", "failed", "gone"}
Events  == {"sent", "failed"}

Submitted(e) == report[e] # "none"

Submit(e) ==
  /\ ~Submitted(e)
  /\ report' = [report EXCEPT ![e] = "pending"]
  /\ UNCHANGED <<out, told>>

Leave(e) ==
  /\ Submitted(e)
  /\ out' = out \cup {e}
  /\ UNCHANGED <<report, told>>

Say(e, r) ==
  /\ report[e] \notin {"none", "gone"}
  /\ r = "sent" => e \in out
  /\ report' = [report EXCEPT ![e] = r]
  /\ UNCHANGED <<out, told>>

Tell(e, v) ==
  /\ Submitted(e)
  /\ v = "sent" => e \in out
  /\ told' = [told EXCEPT ![e] = @ \cup {v}]
  /\ UNCHANGED <<report, out>>

Init ==
  /\ report = [e \in Emails |-> "none"]
  /\ out = {}
  /\ told = [e \in Emails |-> {}]

Next == \E e \in Emails :
  \/ Submit(e) \/ Leave(e)
  \/ \E r \in {"pending", "sent", "failed", "gone"} : Say(e, r)
  \/ \E v \in Events : Tell(e, v)

Spec == Init /\ [][Next]_vars
=============================================================================
