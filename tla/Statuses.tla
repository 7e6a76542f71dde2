------------------------------ MODULE Statuses ------------------------------
(***************************************************************************)
(* The project status machine of packages/core/src/project-status.ts and   *)
(* packages/core/src/transitions.ts: seventeen stages in a linear order,   *)
(* the edges a project may take, and withStatus, which advances a project  *)
(* to a stage, leaves it alone when it is already there or past it, and    *)
(* throws when the edge is not allowed.                                    *)
(***************************************************************************)
EXTENDS Naturals

\* STATUS_ORDER: the canonical forward progression, as the rank of each stage.
Rank == [created                |-> 1,  sources_uploaded      |-> 2,
         source_pack_locked     |-> 3,  type_suggested        |-> 4,
         type_confirmed         |-> 5,  playbook_selected     |-> 6,
         intake_in_progress     |-> 7,  deal_memo_drafted     |-> 8,
         deal_memo_approved     |-> 9,  drafting_plan_drafted |-> 10,
         drafting_plan_approved |-> 11, draft_v0_created      |-> 12,
         reviews_in_progress    |-> 13, issues_open           |-> 14,
         revised                |-> 15, final_approved        |-> 16,
         exported               |-> 17]

Status == {"created", "sources_uploaded", "source_pack_locked",
           "type_suggested", "type_confirmed", "playbook_selected",
           "intake_in_progress", "deal_memo_drafted", "deal_memo_approved",
           "drafting_plan_drafted", "drafting_plan_approved",
           "draft_v0_created", "reviews_in_progress", "issues_open",
           "revised", "final_approved", "exported"}

\* ALLOWED: the edges assertTransition accepts.
Edges == [created                |-> {"sources_uploaded"},
          sources_uploaded       |-> {"source_pack_locked", "sources_uploaded"},
          source_pack_locked     |-> {"type_suggested"},
          type_suggested         |-> {"type_confirmed"},
          type_confirmed         |-> {"playbook_selected"},
          playbook_selected      |-> {"intake_in_progress"},
          intake_in_progress     |-> {"deal_memo_drafted", "intake_in_progress"},
          deal_memo_drafted      |-> {"deal_memo_approved"},
          deal_memo_approved     |-> {"drafting_plan_drafted"},
          drafting_plan_drafted  |-> {"drafting_plan_approved"},
          drafting_plan_approved |-> {"draft_v0_created"},
          draft_v0_created       |-> {"reviews_in_progress"},
          reviews_in_progress    |-> {"issues_open"},
          issues_open            |-> {"revised", "issues_open"},
          revised                |-> {"final_approved", "reviews_in_progress"},
          final_approved         |-> {"exported"},
          exported               |-> {"exported"}]

\* assertStatusAtLeast: the stage is at or past the required one.
AtLeast(s, required) == Rank[s] >= Rank[required]

\* withStatus does not throw: already there, or the edge is allowed.
CanAdvance(s, target) == AtLeast(s, target) \/ target \in Edges[s]

\* What withStatus returns when it does not throw.
Advance(s, target) == IF AtLeast(s, target) THEN s ELSE target
=============================================================================
