-------------------------- MODULE ProjectSoundness --------------------------
(***************************************************************************)
(* What it means for one stored ProjectState to be coherent, stated of the *)
(* record alone.  Workflow shows that the operations keep a project so;    *)
(* ServerStore, that overlapping requests and crashes do.                  *)
(***************************************************************************)
EXTENDS Aggregate

\* The status guards of aggregate.ts are not derived from the entities, yet the
\* two never disagree: each entity is there exactly from the stage that creates
\* it, so the "missing despite status" throws cannot fire, and no project rests
\* in a stage its operations only pass through.
Agrees(p) ==
  LET from(stage) == AtLeast(p.status, stage) IN
  /\ (p.docs # {}) <=> from("sources_uploaded")
  /\ p.locked <=> from("source_pack_locked")
  /\ (p.ctype # None) <=> from("type_confirmed")
  /\ (p.playbook # None) <=> from("intake_in_progress")
  /\ (p.memo.state # "none") <=> from("deal_memo_drafted")
  /\ (p.memo.state = "approved") <=> from("deal_memo_approved")
  /\ (p.plan.state # "none") <=> from("drafting_plan_drafted")
  /\ (p.plan.state = "approved") <=> from("drafting_plan_approved")
  /\ (Len(p.versions) > 0) <=> from("draft_v0_created")
  /\ (Len(p.versions) > 1) <=> from("revised")
  /\ p.status \notin {"type_suggested", "playbook_selected", "reviews_in_progress"}

Finals(p) == {i \in 1..Len(p.versions) : p.versions[i].final}

\* Final approval settles the project: from then on exactly one version is
\* final, a lawyer approved it, it is a revision (never v0), and no issue card
\* is pending, whatever later decisions and revisions do.
Settled(p) ==
  /\ AtLeast(p.status, "final_approved") <=> Finals(p) # {}
  /\ \A i, j \in Finals(p) : i = j
  /\ \A i \in Finals(p) : i > 1 /\ p.versions[i].approvedBy \in Lawyers
  /\ Finals(p) # {} => Pending(p) = {}

\* Entry i is the last one for card c among the first n.
LastEntry(h, i, n, c) ==
  /\ i \in 1..n
  /\ h[i].issue = c
  /\ \A j \in (i + 1)..n : h[j].issue # c

\* decision_history explains every card: each entry starts from the decision
\* the entry before it for that card left (pending for the first one), and the
\* last entry is the card's decision.
Explained(p) ==
  LET h == p.history
      n == Len(h) IN
  /\ \A c \in Cards :
       IF p.decision[c] \in Outcomes
       THEN \E i \in 1..n : LastEntry(h, i, n, c) /\ h[i].new = p.decision[c]
       ELSE \A i \in 1..n : h[i].issue # c
  /\ \A i \in 1..n :
       IF \E j \in 1..(i - 1) : h[j].issue = h[i].issue
       THEN \A j \in 1..(i - 1) :
              LastEntry(h, j, i - 1, h[i].issue) => h[i].previous = h[j].new
       ELSE h[i].previous = "pending"

\* applied_version of a card is the latest revision that carries the card's
\* text, and a card no revision carries has none; what a revision carries was
\* accepted, wholly or in part, by some decision.
AppliedTracks(p) ==
  LET v == p.versions IN
  \A c \in Cards :
    /\ p.applied[c] = None =>
         \A i \in 1..Len(v) : c \notin v[i].applied
    /\ p.applied[c] # None =>
         /\ \E i \in 1..Len(v) :
              /\ v[i].id = p.applied[c]
              /\ c \in v[i].applied
              /\ \A j \in (i + 1)..Len(v) : c \notin v[j].applied
         /\ \E k \in 1..Len(p.history) :
              /\ p.history[k].issue = c
              /\ p.history[k].new \in {"accepted", "partially_accepted"}

\* An append-only list: new is old with entries added at its end.
Extends(new, old) ==
  /\ Len(new) >= Len(old)
  /\ \A i \in 1..Len(old) : new[i] = old[i]
=============================================================================
