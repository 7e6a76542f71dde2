---------------------------- MODULE ReviewPromise ----------------------------
(***************************************************************************)
(* What the review and approval half of the workflow promises the people   *)
(* who rely on it, without the seventeen stages, the agents and the        *)
(* records that carry it out: findings are raised while the text is under  *)
(* review, every one of them gets a human verdict before the text is       *)
(* approved, a revision carries the text of exactly the findings that      *)
(* stand accepted when it is made, and the approved text never changes.    *)
(* Workflow implements it (Workflow!ReviewPromiseKept).                    *)
(***************************************************************************)
CONSTANTS Cards,      \* findings that may be raised
          Verdicts,   \* what a human may decide
          Favourable  \* the verdicts that put a finding's text in a revision

VARIABLES phase,    \* preparing, reviewing, approved or delivered
          verdict,  \* of each finding: absent, pending or a verdict
          text      \* the findings the text under review, or approved, carries
vars == <<phase, verdict, text>>

Init ==
  /\ phase = "preparing"
  /\ verdict = [c \in Cards |-> "absent"]
  /\ text = {}

Raise == \E S \in SUBSET {c \in Cards : verdict[c] = "absent"} :
  /\ phase \in {"preparing", "reviewing"}
  /\ phase' = "reviewing"
  /\ verdict' = [c \in Cards |-> IF c \in S THEN "pending" ELSE verdict[c]]
  /\ UNCHANGED text

\* One finding, or several at once with the same verdict.
Decide == \E S \in SUBSET {c \in Cards : verdict[c] # "absent"}, d \in Verdicts :
  /\ verdict' = [c \in Cards |-> IF c \in S THEN d ELSE verdict[c]]
  /\ UNCHANGED <<phase, text>>

Revise ==
  /\ phase = "reviewing"
  /\ text' = {c \in Cards : verdict[c] \in Favourable}
  /\ UNCHANGED <<phase, verdict>>

Approve ==
  /\ phase = "reviewing"
  /\ \A c \in Cards : verdict[c] # "pending"
  /\ phase' = "approved"
  /\ UNCHANGED <<verdict, text>>

Deliver ==
  /\ phase = "approved"
  /\ phase' = "delivered"
  /\ UNCHANGED <<verdict, text>>

Next == Raise \/ Decide \/ Revise \/ Approve \/ Deliver

Spec == Init /\ [][Next]_vars
=============================================================================
