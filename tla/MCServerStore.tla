--------------------------- MODULE MCServerStore ----------------------------
(* Constant values for the runs of ServerStore. *)
EXTENDS ServerStore, TLC

CONSTANTS r1, r2, r3, kim, lee, park, yun, choi, c1

MCPlaybookType == [b \in Playbooks |-> "nda"]
MCQuestionsOf == [b \in Playbooks |-> {}]

\* Lawyers kim and park own the project and lawyer lee reviews it; lawyer yun
\* and choi, who is not one, are not members yet.
MCActorOf == r1 :> kim @@ r2 :> lee @@ r3 :> park
Member(id, a, role) == [id |-> id, actor |-> a, role |-> role, disabled |-> FALSE]
MCMembers == {Member("m1", kim, "owner_lawyer"), Member("m2", lee, "reviewer_lawyer"),
              Member("m3", park, "owner_lawyer")}

Ask(name) == [name |-> name]
Decide(d) == [name |-> "decide_issue", card |-> c1, decision |-> d]
Add(a, role) == [name |-> "add_membership", actor |-> a, role |-> role]
Disable(id) == [name |-> "disable_membership", member |-> id]

\* Kim and lee bring the review to its end, and kim admits members; park, meanwhile,
\* reopens it, approves it too, and contends for who has access.
Batch == [name |-> "batch_accept_review_issues", cards |-> {c1}]
MCOperations ==
  r1 :> {Batch, Decide("accepted"), Ask("create_revision"), Ask("approve_final"),
         Add(yun, "reviewer_lawyer"), Disable("m3")} @@
  r2 :> {Batch, Decide("rejected"), Ask("create_revision"), Ask("run_mock_final_qa"),
         Ask("approve_final")} @@
  r3 :> {Decide("rejected"), Ask("run_mock_final_qa"), Ask("approve_final"),
         Add(yun, "reviewer_lawyer"), Add(choi, "reviewer_lawyer"), Disable("m1"),
         Disable("m3")}
=============================================================================
