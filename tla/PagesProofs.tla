----------------------------- MODULE PagesProofs -----------------------------
(***************************************************************************)
(* What the pages offer of a project that Workflow can reach, for any      *)
(* actors, documents, playbooks, cards and bounds: enabled controls work,  *)
(* every step that a project needs is offered, and the suggestion of the   *)
(* overview leads on.                                                      *)
(*                                                                         *)
(* The pages read the records, the core reads the status; Agrees joins the *)
(* two.  Two more facts of a project are needed (Fit): findings come with  *)
(* the stage issues_open, and the questions are those of the playbook.     *)
(***************************************************************************)
EXTENDS Pages, WorkflowProofs, WellFoundedInduction

\* The two things that the pages take for granted of playbooks/: there is a custom
\* playbook to fall back on, and each playbook has a required question.
PlaybooksSuffice ==
  /\ CustomPlaybooks # {}
  /\ \A b \in Playbooks : QuestionsOf[b] \intersect RequiredQuestions # {}

-----------------------------------------------------------------------------
(* Findings and questions *)

Fit(p) ==
  /\ Raised(p) # {} => PhaseOf(p) # "preparing"
  /\ p.playbook = None => p.questions = {}
  /\ p.playbook # None => p.playbook \in Playbooks /\ p.questions = QuestionsOf[p.playbook]
FitHolds == Fit(proj)

\* Only select_playbook changes the playbook and its questions before the review.
LEMMA PreparationKeepsPlaybook ==
  ASSUME Good(proj), Preparation
  PROVE  DoSelectPlaybook \/ (proj'.playbook = proj.playbook /\ proj'.questions = proj.questions)
<1> USE DEF Step
<1>0. proj \in ProjectState BY DEF Good
<1>1. CASE DoAddSource \/ DoAddSourceContent \/ DoLockSourcePack \/ DoClassifyAndConfirm
  BY <1>0, <1>1 DEF DoAddSource, AddSource, DoAddSourceContent, AddSourceContent,
       DoLockSourcePack, LockSourcePack, DoClassifyAndConfirm, ClassifyAndConfirm,
       ProjectState
<1>2. CASE DoAnswerIntake \/ DoDraftDealMemo \/ DoApproveDealMemo
  BY <1>0, <1>2 DEF DoAnswerIntake, AnswerIntake, DoDraftDealMemo, DraftDealMemo,
       DoApproveDealMemo, ApproveDealMemo, ProjectState
<1>3. CASE DoDraftDraftingPlan \/ DoApproveDraftingPlan
  BY <1>0, <1>3 DEF DoDraftDraftingPlan, DraftDraftingPlan, DoApproveDraftingPlan,
       ApproveDraftingPlan, ProjectState
<1> QED BY <1>1, <1>2, <1>3 DEF Preparation

LEMMA StepKeepsQuestions ==
  ASSUME Good(proj), Next, Fit(proj)
  PROVE  /\ proj'.playbook = None => proj'.questions = {}
         /\ proj'.playbook # None =>
              proj'.playbook \in Playbooks /\ proj'.questions = QuestionsOf[proj'.playbook]
<1>1. CASE Review
  <2>1. proj'.playbook = proj.playbook /\ proj'.questions = proj.questions
    BY <1>1, ReviewKeepsInputs DEF SameInputs
  <2> QED BY <2>1 DEF Fit
<1>2. CASE DoSelectPlaybook
  <2>1. PICK b \in Playbooks : proj' = SelectPlaybook(proj, b)
    BY <1>2 DEF DoSelectPlaybook, Step
  <2>2. proj'.playbook = b /\ proj'.questions = QuestionsOf[b]
    BY <2>1 DEF SelectPlaybook, ProjectState, Good
  <2>3. b # None BY DataAssumption
  <2> QED BY <2>2, <2>3
<1>3. CASE Preparation /\ ~DoSelectPlaybook
  BY <1>3, PreparationKeepsPlaybook DEF Fit
<1> QED BY <1>1, <1>2, <1>3, TwoParts

\* By the promise, a finding is raised only when the review begins or is under way,
\* and no step goes back to the preparation.
LEMMA StepKeepsFindings ==
  ASSUME Good(proj), Next, Fit(proj)
  PROVE  Raised(proj') # {} => PhaseOf(proj') # "preparing"
<1>1. CASE Stutter BY <1>1 DEF Stutter, Fit, Raised
<1>2. CASE MRaise BY <1>2 DEF MRaise
<1>3. CASE MDecide
  <2>1. PICK S \in SUBSET {c \in Cards : proj.decision[c] # "absent"}, d \in Outcomes :
          /\ proj'.decision = [c \in Cards |-> IF c \in S THEN d ELSE proj.decision[c]]
          /\ PhaseOf(proj') = PhaseOf(proj)
    BY <1>3 DEF MDecide
  <2>2. Raised(proj') \subseteq Raised(proj) BY <2>1 DEF Raised
  <2> QED BY <2>1, <2>2 DEF Fit
<1>4. CASE MRevise \/ MApprove \/ MDeliver
  BY <1>4 DEF MRevise, MApprove, MDeliver
<1> QED BY <1>1, <1>2, <1>3, <1>4, StepKeepsPromise DEF MNext

LEMMA FitAlways == Spec => []FitHolds
<1>1. Init => FitHolds BY DEF Init, EmptyProject, FitHolds, Fit, Raised
<1>2. IInv /\ FitHolds /\ [Next]_vars => FitHolds'
  <2> SUFFICES ASSUME IInv, Fit(proj), [Next]_vars PROVE Fit(proj')
    BY DEF FitHolds
  <2>1. Good(proj) BY DEF IInv
  <2>2. CASE Next BY <2>1, <2>2, StepKeepsQuestions, StepKeepsFindings DEF Fit
  <2>3. CASE UNCHANGED vars BY <2>3 DEF vars
  <2> QED BY <2>2, <2>3
<1> QED BY <1>1, <1>2, IInvHolds, PTL DEF Spec

-----------------------------------------------------------------------------
(* A project in each of its stages *)

\* The ranks tell the stages apart.
LEMMA StatusOfRank ==
  ASSUME NEW s \in Status
  PROVE  /\ Rank[s] \in 1..17
         /\ s = "created" <=> Rank[s] = 1
         /\ s = "sources_uploaded" <=> Rank[s] = 2
         /\ s = "source_pack_locked" <=> Rank[s] = 3
         /\ s = "type_suggested" <=> Rank[s] = 4
         /\ s = "type_confirmed" <=> Rank[s] = 5
         /\ s = "playbook_selected" <=> Rank[s] = 6
         /\ s = "intake_in_progress" <=> Rank[s] = 7
         /\ s = "deal_memo_drafted" <=> Rank[s] = 8
         /\ s = "deal_memo_approved" <=> Rank[s] = 9
         /\ s = "drafting_plan_drafted" <=> Rank[s] = 10
         /\ s = "drafting_plan_approved" <=> Rank[s] = 11
         /\ s = "draft_v0_created" <=> Rank[s] = 12
         /\ s = "reviews_in_progress" <=> Rank[s] = 13
         /\ s = "issues_open" <=> Rank[s] = 14
         /\ s = "revised" <=> Rank[s] = 15
         /\ s = "final_approved" <=> Rank[s] = 16
         /\ s = "exported" <=> Rank[s] = 17
BY RankOf DEF Status

\* What the records say of the stage.
LEMMA Stage ==
  ASSUME NEW p, Good(p)
  PROVE  /\ p.status \in Status \ {"type_suggested", "playbook_selected", "reviews_in_progress"}
         /\ p.docs = {} <=> p.status = "created"
         /\ ~p.locked <=> Rank[p.status] < 3
         /\ p.ctype = None <=> Rank[p.status] < 5
         /\ p.playbook = None <=> Rank[p.status] < 7
         /\ p.memo.state = "drafted" <=> Rank[p.status] = 8
         /\ p.memo.state = "approved" <=> Rank[p.status] > 8
         /\ p.plan.state = "drafted" <=> Rank[p.status] = 10
         /\ p.plan.state = "approved" <=> Rank[p.status] > 10
         /\ p.versions = << >> <=> Rank[p.status] < 12
         /\ Finals(p) = {} <=> Rank[p.status] < 16
<1> DEFINE r == Rank[p.status]
<1>1. p \in ProjectState /\ Agrees(p) /\ Settled(p) /\ p.status \in Status
  BY DEF Good, ProjectState
<1>2. /\ p.memo.state \in {"none", "drafted", "approved"}
      /\ p.plan.state \in {"none", "drafted", "approved"}
      /\ p.versions \in Seq(Version)
  BY <1>1 DEF ProjectState, Memo, Plan
<1>3. p.versions = << >> <=> ~(Len(p.versions) > 0) BY <1>2
<1>4. /\ r \in 1..17 /\ (p.status = "created" <=> r < 2)
      /\ p.status \notin {"type_suggested", "playbook_selected", "reviews_in_progress"}
  BY <1>1, StatusOfRank DEF Agrees
<1>5. /\ (p.docs # {}) <=> r >= 2
      /\ p.locked <=> r >= 3
      /\ (p.ctype # None) <=> r >= 5
      /\ (p.playbook # None) <=> r >= 7
      /\ (p.memo.state # "none") <=> r >= 8
      /\ (p.memo.state = "approved") <=> r >= 9
      /\ (p.plan.state # "none") <=> r >= 10
      /\ (p.plan.state = "approved") <=> r >= 11
      /\ Len(p.versions) > 0 <=> r >= 12
      /\ (Finals(p) # {}) <=> r >= 16
  BY <1>1, RankOf DEF Agrees, Settled, AtLeast
<1> HIDE DEF r
<1>6. /\ p.docs = {} <=> p.status = "created"
      /\ ~p.locked <=> r < 3
      /\ p.ctype = None <=> r < 5
      /\ p.playbook = None <=> r < 7
      /\ p.versions = << >> <=> r < 12
      /\ Finals(p) = {} <=> r < 16
  BY <1>3, <1>4, <1>5, SMTT(20)
<1>7. /\ p.memo.state = "drafted" <=> r = 8
      /\ p.memo.state = "approved" <=> r > 8
      /\ p.plan.state = "drafted" <=> r = 10
      /\ p.plan.state = "approved" <=> r > 10
  BY <1>2, <1>4, <1>5
<1> QED BY <1>1, <1>4, <1>6, <1>7 DEF r

-----------------------------------------------------------------------------
(* The controls and the guards, case by case *)

\* The enabled controls of each page.
LEMMA PreparationControls ==
  ASSUME NEW p, NEW a, NEW o
  PROVE  /\ o \in Controls("sources", p, a)
              <=> \/ ~p.locked /\ o = "add_source"
                  \/ (~p.locked /\ p.docs # {}) /\ o = "lock_source_pack"
                  \/ p.docs # {} /\ o = "add_source_content"
         /\ o \in Controls("contract-type", p, a)
              <=> (p.locked /\ a \in Lawyers) /\ o = "classify_and_confirm"
         /\ o \in Controls("playbook", p, a)
              <=> (p.playbook = None /\ p.ctype # None) /\ o = "select_playbook"
         /\ o \in Controls("intake", p, a) <=> p.questions # {} /\ o = "answer_intake"
         /\ o \in Controls("deal-memo", p, a)
              <=> \/ p.memo.state # "approved" /\ o = "draft_deal_memo"
                  \/ (p.memo.state = "drafted" /\ a \in Lawyers) /\ o = "approve_deal_memo"
         /\ o \in Controls("drafting-plan", p, a)
              <=> \/ p.plan.state # "approved" /\ o = "draft_drafting_plan"
                  \/ (p.plan.state = "drafted" /\ a \in Lawyers) /\ o = "approve_drafting_plan"
         /\ o \in Controls("draft", p, a)
              <=> /\ p.versions = << >> /\ p.memo.state = "approved" /\ p.plan.state = "approved"
                  /\ o = "create_v0"
<1>1. o \in Controls("sources", p, a)
       <=> \/ ~p.locked /\ o = "add_source"
           \/ (~p.locked /\ p.docs # {}) /\ o = "lock_source_pack"
           \/ p.docs # {} /\ o = "add_source_content"
  <2>1. Controls("sources", p, a) = SourcesPage(p, a) \union SourceDocumentRow(p)
    BY DEF Controls
  <2> QED BY <2>1 DEF When, SourcesPage, SourceDocumentRow
<1>2. o \in Controls("contract-type", p, a)
       <=> (p.locked /\ a \in Lawyers) /\ o = "classify_and_confirm"
  <2>1. Controls("contract-type", p, a) = ContractTypePage(p, a)
    BY DEF Controls
  <2> QED BY <2>1 DEF When, ContractTypePage
<1>3. o \in Controls("playbook", p, a)
       <=> (p.playbook = None /\ p.ctype # None) /\ o = "select_playbook"
  <2>1. Controls("playbook", p, a) = PlaybookPage(p, a)
    BY DEF Controls
  <2> QED BY <2>1 DEF When, PlaybookPage
<1>4. o \in Controls("intake", p, a) <=> p.questions # {} /\ o = "answer_intake"
  <2>1. Controls("intake", p, a) = IntakePage(p, a)
    BY DEF Controls
  <2> QED BY <2>1 DEF When, IntakePage
<1>5. o \in Controls("deal-memo", p, a)
       <=> \/ p.memo.state # "approved" /\ o = "draft_deal_memo"
           \/ (p.memo.state = "drafted" /\ a \in Lawyers) /\ o = "approve_deal_memo"
  <2>1. Controls("deal-memo", p, a) = DealMemoPage(p, a)
    BY DEF Controls
  <2> QED BY <2>1 DEF When, DealMemoPage
<1>6. o \in Controls("drafting-plan", p, a)
       <=> \/ p.plan.state # "approved" /\ o = "draft_drafting_plan"
           \/ (p.plan.state = "drafted" /\ a \in Lawyers) /\ o = "approve_drafting_plan"
  <2>1. Controls("drafting-plan", p, a) = DraftingPlanPage(p, a)
    BY DEF Controls
  <2> QED BY <2>1 DEF When, DraftingPlanPage
<1>7. o \in Controls("draft", p, a)
       <=> /\ p.versions = << >> /\ p.memo.state = "approved" /\ p.plan.state = "approved"
           /\ o = "create_v0"
  <2>1. Controls("draft", p, a) = DraftPage(p, a)
    BY DEF Controls
  <2> QED BY <2>1 DEF When, DraftPage
<1> QED BY <1>1, <1>2, <1>3, <1>4, <1>5, <1>6, <1>7

LEMMA ReviewControls ==
  ASSUME NEW p, NEW a, NEW o
  PROVE  /\ o \in Controls("issues", p, a)
              <=> \/ o = "run_mock_reviews"
                  \/ (Raised(p) # {} /\ a \in Lawyers) /\ o = "decide_issue"
         /\ o \in Controls("qa", p, a)
              <=> \/ p.versions # << >> /\ o = "run_mock_final_qa"
                  \/ (p.versions # << >> /\ Accepted(p) # {}) /\ o = "create_revision"
                  \/ /\ p.versions # << >> /\ ~Latest(p).final /\ Pending(p) = {} /\ a \in Lawyers
                     /\ o = "approve_final"
         /\ o \in Controls("exports", p, a)
              <=> (Finals(p) # {} /\ a \in Lawyers) /\ o = "create_export"
<1>1. o \in Controls("issues", p, a)
       <=> \/ o = "run_mock_reviews"
           \/ (Raised(p) # {} /\ a \in Lawyers) /\ o = "decide_issue"
  <2>1. Controls("issues", p, a) = IssuesPage(p, a)
    BY DEF Controls
  <2> QED BY <2>1 DEF When, IssuesPage, PendingCardRow, DecidedCardRow, Raised, Pending
<1>2. o \in Controls("qa", p, a)
       <=> \/ p.versions # << >> /\ o = "run_mock_final_qa"
           \/ (p.versions # << >> /\ Accepted(p) # {}) /\ o = "create_revision"
           \/ /\ p.versions # << >> /\ ~Latest(p).final /\ Pending(p) = {} /\ a \in Lawyers
              /\ o = "approve_final"
  <2>1. Controls("qa", p, a) = QAPage(p, a)
    BY DEF Controls
  <2> QED BY <2>1 DEF When, QAPage
<1>3. o \in Controls("exports", p, a)
       <=> (Finals(p) # {} /\ a \in Lawyers) /\ o = "create_export"
  <2>1. Controls("exports", p, a) = ExportsPage(p, a)
    BY DEF Controls
  <2> QED BY <2>1 DEF When, ExportsPage
<1> QED BY <1>1, <1>2, <1>3

LEMMA DraftLoopControls ==
  ASSUME NEW p, NEW a, NEW o
  PROVE  o \in Controls("draft-loop", p, a)
           <=> /\ a \in Lawyers
               /\ \/ o = "create_draft_iteration"
                  \/ p.versions = << >> /\ o = "create_v0"
                  \/ p.versions # << >> /\ o = "run_mock_reviews"
                  \/ (p.versions # << >> /\ Live(p) # {}) /\ o = "synthesize_reviews"
                  \/ Ordinary(p) # {} /\ o = "batch_accept_review_issues"
                  \/ (p.versions # << >> /\ Pending(p) = {}) /\ o = "create_revision"
                  \/ Live(p) # {} /\ o = "stop_draft_loop"
<1>1. Controls("draft-loop", p, a) = DraftLoopPage(p, a) BY DEF Controls
<1>2. CASE a \notin Lawyers
  <2>1. DraftLoopPage(p, a) = {} BY <1>2 DEF DraftLoopPage
  <2> QED BY <1>1, <1>2, <2>1
<1>3. CASE a \in Lawyers
  <2>1. DraftLoopPage(p, a) = DraftCards(p) \union SynthesisCards(p) \union RevisionCards(p)
    BY <1>3 DEF DraftLoopPage
  <2> QED BY <1>1, <1>3, <2>1 DEF When, DraftCards, SynthesisCards, RevisionCards
<1> QED BY <1>2, <1>3

\* What the core takes, operation by operation.
LEMMA TakesPreparation ==
  ASSUME NEW p, NEW a
  PROVE  /\ Takes("add_source", p, a)
              <=> \A d \in Docs : CanAddSource([p EXCEPT !.docs = @ \ {d}], d)
         /\ Takes("add_source_content", p, a) <=> \A d \in p.docs : CanAddSourceContent(p, d)
         /\ Takes("lock_source_pack", p, a) <=> CanLockSourcePack(p)
         /\ Takes("classify_and_confirm", p, a) <=> CanClassifyAndConfirm(p, a)
         /\ Takes("select_playbook", p, a) <=> \E b \in Playbooks : CanSelectPlaybook(p, b)
         /\ Takes("answer_intake", p, a)
              <=> p.questions # {} /\ \A q \in p.questions : CanAnswerIntake(p, q)
         /\ Takes("draft_deal_memo", p, a) <=> CanDraftDealMemo(p)
         /\ Takes("approve_deal_memo", p, a) <=> CanApproveDealMemo(p, a)
         /\ Takes("draft_drafting_plan", p, a) <=> CanDraftDraftingPlan(p)
         /\ Takes("approve_drafting_plan", p, a) <=> CanApproveDraftingPlan(p, a)
         /\ Takes("create_v0", p, a) <=> CanCreateV0(p)
BY DEF Takes

LEMMA TakesReview ==
  ASSUME NEW p, NEW a
  PROVE  /\ Takes("run_mock_reviews", p, a) <=> CanRunReviews(p)
         /\ Takes("decide_issue", p, a)
              <=> /\ Raised(p) # {}
                  /\ \A c \in Raised(p), d \in Outcomes : CanDecideIssue(p, c, d, a, TRUE)
         /\ Takes("create_revision", p, a) <=> CanCreateRevision(p)
         /\ Takes("run_mock_final_qa", p, a) <=> CanRunFinalQA(p)
         /\ Takes("approve_final", p, a) <=> CanApproveFinal(p, a)
         /\ Takes("create_export", p, a)
              <=> \A type \in ExportTypes : CanCreateExport(p, type, FALSE)
         /\ Takes("create_draft_iteration", p, a) <=> CanCreateDraftIteration(a)
         /\ Takes("synthesize_reviews", p, a)
              <=> Live(p) # {} /\ CanSynthesizeReviews(p, Active(p), a, Pending(p))
         /\ Takes("batch_accept_review_issues", p, a) <=> CanBatchAccept(p, Ordinary(p), a)
         /\ Takes("stop_draft_loop", p, a) <=> Live(p) # {} /\ CanStopDraftLoop(p, Active(p), a)
BY DEF Takes

\* The least of a non-empty set of numbers, by the well-foundedness of <.
LEMMA LeastNumber ==
  ASSUME NEW S \in SUBSET Nat, S # {}
  PROVE  \E i \in S : \A j \in S : i <= j
<1> DEFINE R == OpToRel(<, Nat)
<1>1. PICK i \in S : \A j \in S : ~ (<<j, i>> \in R)
  <2>1. IsWellFoundedOn(R, Nat) BY NatLessThanWellFounded
  <2> HIDE DEF R
  <2> QED BY <2>1, WFMin
<1>2. \A j \in S : ~(j < i) BY <1>1 DEF OpToRel
<1> QED BY <1>2

\* The iteration the Draft Loop page works on is one of the project, not stopped.
LEMMA ActiveIsLive ==
  ASSUME NEW p, Live(p) # {}
  PROVE  Active(p) \in Live(p)
<1>1. Live(p) \in SUBSET Nat BY DEF Live
<1>2. \E i \in Live(p) : \A j \in Live(p) : i <= j BY <1>1, LeastNumber
<1> QED BY <1>2 DEF Active

-----------------------------------------------------------------------------
(* Every step that a project needs is offered *)

\* Up to the first draft: the status the core asks for tells what records there are,
\* and these are what the pages ask for.
LEMMA PreparationIsOffered ==
  ASSUME NEW p, Good(p), NEW a \in Lawyers,
         NEW op \in {"add_source", "lock_source_pack", "classify_and_confirm",
                     "select_playbook", "answer_intake", "draft_deal_memo",
                     "approve_deal_memo", "draft_drafting_plan",
                     "approve_drafting_plan", "create_v0"},
         Takes(op, p, a)
  PROVE  \E page \in PageNames : op \in Controls(page, p, a)
<1> DEFINE r == Rank[p.status]
<1>1. p \in ProjectState /\ p.status \in Status BY DEF Good, ProjectState
<1>2. /\ p.docs = {} <=> p.status = "created"
      /\ ~p.locked <=> r < 3
      /\ p.ctype = None <=> r < 5
      /\ p.playbook = None <=> r < 7
      /\ p.memo.state = "drafted" <=> r = 8
      /\ p.memo.state = "approved" <=> r > 8
      /\ p.plan.state = "drafted" <=> r = 10
      /\ p.plan.state = "approved" <=> r > 10
      /\ p.versions = << >> <=> r < 12
  BY Stage
<1>3. /\ p.status = "created" => r = 1
      /\ p.status = "sources_uploaded" => r = 2
      /\ p.status = "source_pack_locked" => r = 3
      /\ p.status = "type_suggested" => r = 4
      /\ p.status = "type_confirmed" => r = 5
      /\ p.status = "intake_in_progress" => r = 7
      /\ p.status = "deal_memo_drafted" => r = 8
      /\ p.status = "deal_memo_approved" => r = 9
      /\ p.status = "drafting_plan_drafted" => r = 10
      /\ p.status = "drafting_plan_approved" => r = 11
  BY <1>1, StatusOfRank
<1> HIDE DEF r
<1> USE TakesPreparation DEF PageNames
<1>4. CASE op = "add_source"
  <2>1. ~p.locked
    <3>1. CASE Docs = {}
      <4>1. p.docs = {} BY <1>1, <3>1 DEF ProjectState
      <4> QED BY <4>1, <1>2, <1>3
    <3>2. CASE Docs # {}
      <4>1. PICK d \in Docs : CanAddSource([p EXCEPT !.docs = @ \ {d}], d) BY <1>4, <3>2
      <4>2. [p EXCEPT !.docs = @ \ {d}].locked = p.locked BY <1>1 DEF ProjectState
      <4> QED BY <4>1, <4>2 DEF CanAddSource
    <3> QED BY <3>1, <3>2
  <2>2. op \in Controls("sources", p, a) BY <1>4, <2>1, PreparationControls
  <2> QED BY <2>2
<1>5. CASE op = "lock_source_pack"
  <2>1. p.status = "sources_uploaded" BY <1>5 DEF CanLockSourcePack
  <2>2. ~p.locked /\ p.docs # {} BY <2>1, <1>2, <1>3
  <2>3. op \in Controls("sources", p, a) BY <1>5, <2>2, PreparationControls
  <2> QED BY <2>3
<1>6. CASE op = "classify_and_confirm"
  <2>1. p.locked BY <1>6, <1>2, <1>3 DEF CanClassifyAndConfirm
  <2>2. op \in Controls("contract-type", p, a) BY <1>6, <2>1, PreparationControls
  <2> QED BY <2>2
<1>7. CASE op = "select_playbook"
  <2>1. p.playbook = None /\ p.ctype # None BY <1>7, <1>2, <1>3 DEF CanSelectPlaybook
  <2>2. op \in Controls("playbook", p, a) BY <1>7, <2>1, PreparationControls
  <2> QED BY <2>2
<1>8. CASE op = "answer_intake"
  <2>1. op \in Controls("intake", p, a) BY <1>8, PreparationControls
  <2> QED BY <2>1
<1>9. CASE op = "draft_deal_memo"
  <2>1. p.memo.state # "approved" BY <1>9, <1>2, <1>3 DEF CanDraftDealMemo
  <2>2. op \in Controls("deal-memo", p, a) BY <1>9, <2>1, PreparationControls
  <2> QED BY <2>2
<1>10. CASE op = "approve_deal_memo"
  <2>1. p.memo.state = "drafted" BY <1>10, <1>2, <1>3 DEF CanApproveDealMemo
  <2>2. op \in Controls("deal-memo", p, a) BY <1>10, <2>1, PreparationControls
  <2> QED BY <2>2
<1>11. CASE op = "draft_drafting_plan"
  <2>1. p.plan.state # "approved" BY <1>11, <1>2, <1>3 DEF CanDraftDraftingPlan
  <2>2. op \in Controls("drafting-plan", p, a) BY <1>11, <2>1, PreparationControls
  <2> QED BY <2>2
<1>12. CASE op = "approve_drafting_plan"
  <2>1. p.plan.state = "drafted" BY <1>12, <1>2, <1>3 DEF CanApproveDraftingPlan
  <2>2. op \in Controls("drafting-plan", p, a) BY <1>12, <2>1, PreparationControls
  <2> QED BY <2>2
<1>13. CASE op = "create_v0"
  <2>1. p.versions = << >> /\ p.memo.state = "approved" /\ p.plan.state = "approved"
    BY <1>13, <1>2, <1>3 DEF CanCreateV0
  <2>2. op \in Controls("draft", p, a) BY <1>13, <2>1, PreparationControls
  <2> QED BY <2>2
<1> QED BY <1>4, <1>5, <1>6, <1>7, <1>8, <1>9, <1>10, <1>11, <1>12, <1>13

LEMMA LatestNotFinal ==
  ASSUME NEW p, Good(p), p.versions # << >>, Finals(p) = {}
  PROVE  ~Latest(p).final
<1>1. p.versions \in Seq(Version) BY DEF Good, ProjectState
<1>2. Len(p.versions) \in 1..Len(p.versions) BY <1>1
<1> QED BY <1>2 DEF Latest, Finals

\* From the first draft on.  A revision that nothing was accepted for is offered by
\* the Draft Loop page only.
LEMMA ReviewIsOffered ==
  ASSUME NEW p, Good(p), NEW a \in Lawyers,
         NEW op \in {"run_mock_reviews", "decide_issue", "create_revision",
                     "approve_final", "create_export"},
         Takes(op, p, a), op = "create_revision" => Pending(p) = {}
  PROVE  \E page \in PageNames : op \in Controls(page, p, a)
<1> USE TakesReview DEF PageNames
<1>1. CASE op = "run_mock_reviews"
  <2>1. op \in Controls("issues", p, a) BY <1>1, ReviewControls
  <2> QED BY <2>1
<1>2. CASE op = "decide_issue"
  <2>1. Raised(p) # {} BY <1>2
  <2>2. op \in Controls("issues", p, a)
    BY <1>2, <2>1, ReviewControls
  <2> QED BY <2>2
<1>3. CASE op = "create_revision"
  <2>1. p.versions # << >> /\ Pending(p) = {} BY <1>3 DEF CanCreateRevision
  <2>2. op \in Controls("draft-loop", p, a)
    BY <1>3, <2>1, DraftLoopControls
  <2> QED BY <2>2
<1>4. CASE op = "approve_final"
  <2>1. /\ p.versions # << >> /\ Pending(p) = {}
        /\ p.status \in {"revised", "draft_v0_created"}
    BY <1>4 DEF CanApproveFinal
  <2>2. Rank[p.status] < 16 BY <2>1, RankOf
  <2>3. Finals(p) = {} BY <2>2, Stage
  <2>4. op \in Controls("qa", p, a) BY <1>4, <2>1, <2>3, LatestNotFinal, ReviewControls
  <2> QED BY <2>4
<1>5. CASE op = "create_export"
  <2>1. CanCreateExport(p, "clean_docx", FALSE) BY <1>5 DEF ExportTypes
  <2>2. Finals(p) # {} BY <2>1 DEF CanCreateExport, Finals
  <2>3. op \in Controls("exports", p, a) BY <1>5, <2>2, ReviewControls
  <2> QED BY <2>3
<1> QED BY <1>1, <1>2, <1>3, <1>4, <1>5

\* Whatever the core would take of what a project still needs, some page offers to
\* a lawyer, at every stage: the pages hide no step that is due.
THEOREM StepsAreOffered == Spec => []EveryStepIsOffered
<1>1. IInv => EveryStepIsOffered
  <2> SUFFICES ASSUME Good(proj), NEW a \in Lawyers, NEW op \in Needed(proj),
                      Takes(op, proj, a)
               PROVE  \E page \in PageNames : op \in Controls(page, proj, a)
    BY DEF IInv, EveryStepIsOffered
  <2>1. \/ op \in {"add_source", "lock_source_pack", "classify_and_confirm",
                   "select_playbook", "answer_intake", "draft_deal_memo",
                   "approve_deal_memo", "draft_drafting_plan",
                   "approve_drafting_plan", "create_v0"}
        \/ /\ op \in {"run_mock_reviews", "decide_issue", "create_revision",
                      "approve_final", "create_export"}
           /\ op = "create_revision" => Pending(proj) = {}
    BY DEF When, Needed
  <2> QED BY <2>1, PreparationIsOffered, ReviewIsOffered
<1> QED BY <1>1, IInvHolds, PTL

-----------------------------------------------------------------------------
(* Enabled controls work *)

LEMMA RaisedLate ==
  ASSUME NEW p, Good(p), Fit(p), Raised(p) # {}
  PROVE  AtLeast(p.status, "issues_open")
<1>1. p.status \in {"issues_open", "revised", "final_approved", "exported"}
  BY DEF Fit, PhaseOf
<1> QED BY <1>1, RankOf DEF AtLeast

\* A playbook is found for every contract type: of that type, or the custom one.
LEMMA CandidateExists ==
  ASSUME CustomPlaybooks # {}, NEW t
  PROVE  \E b \in Playbooks : b \in Candidates(t)
BY DataAssumption DEF Candidates

LEMMA SourcesControlsWork ==
  ASSUME NEW p, Good(p), NEW a \in Lawyers, NEW op \in Controls("sources", p, a)
  PROVE  Takes(op, p, a)
<1> DEFINE r == Rank[p.status]
<1>1. p \in ProjectState /\ p.status \in Status BY DEF Good, ProjectState
<1>2. (p.docs = {} <=> p.status = "created") /\ (~p.locked <=> r < 3)
  BY Stage
<1>3. /\ p.status = "created" <=> r = 1
      /\ p.status = "sources_uploaded" <=> r = 2
      /\ r \in 1..17
  BY <1>1, StatusOfRank
<1>4. r >= 2 => AtLeast(p.status, "sources_uploaded") BY RankOf DEF AtLeast
<1> HIDE DEF r
<1>5. CASE op = "add_source" /\ ~p.locked
  <2>1. p.status \in {"created", "sources_uploaded"} BY <1>2, <1>3, <1>5
  <2>2. ASSUME NEW d \in Docs
        PROVE  CanAddSource([p EXCEPT !.docs = @ \ {d}], d)
    <3>1. /\ [p EXCEPT !.docs = @ \ {d}].locked = p.locked
          /\ [p EXCEPT !.docs = @ \ {d}].status = p.status
          /\ [p EXCEPT !.docs = @ \ {d}].docs = p.docs \ {d}
      BY <1>1 DEF ProjectState
    <3> QED BY <1>5, <2>1, <3>1 DEF CanAddSource
  <2> QED BY <1>5, <2>2, TakesPreparation
<1>6. CASE op = "lock_source_pack" /\ ~p.locked /\ p.docs # {}
  <2>1. p.status = "sources_uploaded" BY <1>2, <1>3, <1>6
  <2> QED BY <1>6, <2>1, TakesPreparation DEF CanLockSourcePack
<1>7. CASE op = "add_source_content" /\ p.docs # {}
  <2>1. AtLeast(p.status, "sources_uploaded") BY <1>2, <1>3, <1>4, <1>7
  <2> QED BY <1>7, <2>1, TakesPreparation DEF CanAddSourceContent
<1> QED BY <1>5, <1>6, <1>7, PreparationControls

\* The buttons of the playbook, of the approval of the plan, and of the first draft
\* read two records between which there is one stage.
LEMMA PlaybookControlWorks ==
  ASSUME NEW p, Good(p), CustomPlaybooks # {}, NEW a \in Lawyers,
         p.playbook = None, p.ctype # None
  PROVE  Takes("select_playbook", p, a)
<1> DEFINE r == Rank[p.status]
<1>1. p.status \in Status BY DEF Good, ProjectState
<1>2. /\ p.ctype = None <=> r < 5
      /\ p.playbook = None <=> r < 7
      /\ p.status # "playbook_selected"
  BY Stage
<1>3. /\ p.status = "type_confirmed" <=> r = 5
      /\ p.status = "playbook_selected" <=> r = 6
      /\ r \in 1..17
  BY <1>1, StatusOfRank
<1> HIDE DEF r
<1>4. p.status = "type_confirmed" BY <1>2, <1>3
<1>5. PICK b \in Playbooks : b \in Candidates(p.ctype) BY CandidateExists
<1>6. CanSelectPlaybook(p, b) BY <1>4, <1>5 DEF CanSelectPlaybook
<1> QED BY <1>6, TakesPreparation

LEMMA PlanControlWorks ==
  ASSUME NEW p, Good(p), NEW a \in Lawyers, p.plan.state = "drafted"
  PROVE  Takes("approve_drafting_plan", p, a)
<1>1. p.status \in Status BY DEF Good, ProjectState
<1>2. Rank[p.status] = 10 BY Stage
<1>3. p.status = "drafting_plan_drafted" BY <1>1, <1>2, StatusOfRank
<1>4. p.memo.state = "approved" BY <1>2, Stage
<1> QED BY <1>3, <1>4, TakesPreparation DEF CanApproveDraftingPlan

LEMMA DraftControlWorks ==
  ASSUME NEW p, Good(p), NEW a \in Lawyers,
         p.versions = << >>, p.memo.state = "approved", p.plan.state = "approved"
  PROVE  Takes("create_v0", p, a)
<1> DEFINE r == Rank[p.status]
<1>1. p.status \in Status BY DEF Good, ProjectState
<1>2. /\ p.playbook = None <=> r < 7
      /\ p.plan.state = "approved" <=> r > 10
      /\ p.versions = << >> <=> r < 12
  BY Stage
<1>3. (p.status = "drafting_plan_approved" <=> r = 11) /\ r \in 1..17
  BY <1>1, StatusOfRank
<1> HIDE DEF r
<1>4. p.status = "drafting_plan_approved" /\ p.playbook # None BY <1>2, <1>3
<1> QED BY <1>4, TakesPreparation DEF CanCreateV0

\* Cards are there from issues_open on, where decisions are taken.
LEMMA DecisionControlWorks ==
  ASSUME NEW p, Good(p), Fit(p), NEW a \in Lawyers, Raised(p) # {}
  PROVE  Takes("decide_issue", p, a)
<1>1. AtLeast(p.status, "issues_open") BY RaisedLate
<1>2. \A c \in Raised(p), d \in Outcomes : CanDecideIssue(p, c, d, a, TRUE)
  BY <1>1 DEF CanDecideIssue, Raised
<1> QED BY <1>2, TakesReview

LEMMA ExportControlWorks ==
  ASSUME NEW p, Good(p), NEW a \in Lawyers, Finals(p) # {}
  PROVE  Takes("create_export", p, a)
<1>1. AtLeast(p.status, "final_approved") BY DEF Good, Settled
<1>2. \E i \in 1..Len(p.versions) : p.versions[i].final BY DEF Finals
<1>3. \A type \in ExportTypes : CanCreateExport(p, type, FALSE)
  BY <1>1, <1>2 DEF CanCreateExport
<1> QED BY <1>3, TakesReview

LEMMA LoopControlsWork ==
  ASSUME NEW p, Good(p), Fit(p), NEW a \in Lawyers, NEW op \in Controls("draft-loop", p, a),
         op \notin {"create_v0", "run_mock_reviews", "create_revision"}
  PROVE  Takes(op, p, a)
<1>1. CASE op = "create_draft_iteration"
  BY <1>1, TakesReview DEF CanCreateDraftIteration
<1>2. CASE op = "synthesize_reviews" /\ p.versions # << >> /\ Live(p) # {}
  <2>1. p.status \in Status BY DEF Good, ProjectState
  <2>2. p.playbook # None
    <3>1. /\ p.playbook = None <=> Rank[p.status] < 7
          /\ p.versions = << >> <=> Rank[p.status] < 12
      BY Stage
    <3>2. Rank[p.status] \in 1..17 BY <2>1, StatusOfRank
    <3> QED BY <1>2, <3>1, <3>2
  <2>3. p.iterations[Active(p)].state # "stopped" BY <1>2, ActiveIsLive DEF Live
  <2>4. CanSynthesizeReviews(p, Active(p), a, Pending(p))
    BY <1>2, <2>2, <2>3 DEF CanSynthesizeReviews
  <2> QED BY <1>2, <2>4, TakesReview
<1>3. CASE op = "batch_accept_review_issues" /\ Ordinary(p) # {}
  <2>1. /\ Ordinary(p) \subseteq Raised(p)
        /\ Ordinary(p) \intersect CriticalCards \intersect Pending(p) = {}
    BY DEF Ordinary, Pending, Raised
  <2>2. AtLeast(p.status, "issues_open") BY <1>3, <2>1, RaisedLate
  <2>3. CanBatchAccept(p, Ordinary(p), a) BY <1>3, <2>1, <2>2 DEF CanBatchAccept
  <2> QED BY <1>3, <2>3, TakesReview
<1>4. CASE op = "stop_draft_loop" /\ Live(p) # {}
  <2>1. p.iterations[Active(p)].state # "stopped" BY <1>4, ActiveIsLive DEF Live
  <2> QED BY <1>4, <2>1, TakesReview DEF CanStopDraftLoop
<1> QED BY <1>1, <1>2, <1>3, <1>4, DraftLoopControls

\* Where a page offers too much, by rank; everywhere else it does not.
LEMMA RefusedByRank ==
  ASSUME NEW p, Good(p)
  PROVE  /\ Refused("contract-type", "classify_and_confirm", p) <=> Rank[p.status] >= 5
         /\ Refused("intake", "answer_intake", p) <=> Rank[p.status] >= 9
         /\ Refused("deal-memo", "draft_deal_memo", p) <=> Rank[p.status] # 7
         /\ Refused("deal-memo", "approve_deal_memo", p) <=> MissingAnswers(p) # {}
         /\ Refused("drafting-plan", "draft_drafting_plan", p) <=> Rank[p.status] # 9
         /\ Refused("draft-loop", "create_v0", p) <=> Rank[p.status] < 11
         /\ \A page \in {"issues", "draft-loop"} :
              Refused(page, "run_mock_reviews", p) <=> Rank[p.status] < 12 \/ Rank[p.status] >= 15
         /\ Refused("draft-loop", "create_revision", p) <=> Rank[p.status] < 14
         /\ Refused("qa", "run_mock_final_qa", p) <=> Rank[p.status] \notin {14, 15}
         /\ Refused("qa", "approve_final", p) <=> Rank[p.status] # 15
<1>1. p.status \in Status BY DEF Good, ProjectState
<1>2. /\ \A s \in Status : p.status \in From(s) <=> Rank[p.status] >= Rank[s]
      /\ \A s \in Status : p.status \in Before(s) <=> ~(Rank[p.status] >= Rank[s])
      /\ \A s \in Status : p.status \in Status \ {s} <=> p.status # s
  BY <1>1 DEF From, Before, AtLeast
<1>3. /\ p.status \in From("type_confirmed") <=> Rank[p.status] >= 5
      /\ p.status \in From("deal_memo_approved") <=> Rank[p.status] >= 9
      /\ p.status \in Before("drafting_plan_approved") <=> Rank[p.status] < 11
      /\ p.status \in Before("draft_v0_created") <=> Rank[p.status] < 12
      /\ p.status \in Before("issues_open") <=> Rank[p.status] < 14
      /\ p.status \in From("revised") <=> Rank[p.status] >= 15
  <2>1. Rank[p.status] \in 1..17 BY <1>1, StatusOfRank
  <2> QED BY <1>2, <2>1, RankOf DEF Status
<1>4. /\ p.status = "intake_in_progress" <=> Rank[p.status] = 7
      /\ p.status = "deal_memo_approved" <=> Rank[p.status] = 9
      /\ p.status = "issues_open" <=> Rank[p.status] = 14
      /\ p.status = "revised" <=> Rank[p.status] = 15
  BY <1>1, StatusOfRank
<1>5. /\ RefusedStages("contract-type", "classify_and_confirm") = From("type_confirmed")
      /\ RefusedStages("intake", "answer_intake") = From("deal_memo_approved")
      /\ RefusedStages("deal-memo", "draft_deal_memo") = Status \ {"intake_in_progress"}
      /\ RefusedStages("deal-memo", "approve_deal_memo") = {}
      /\ RefusedStages("drafting-plan", "draft_drafting_plan") = Status \ {"deal_memo_approved"}
  BY DEF RefusedStages
<1>6. /\ RefusedStages("draft-loop", "create_v0") = Before("drafting_plan_approved")
      /\ RefusedStages("issues", "run_mock_reviews")
           = Before("draft_v0_created") \union From("revised")
      /\ RefusedStages("draft-loop", "run_mock_reviews")
           = Before("draft_v0_created") \union From("revised")
      /\ RefusedStages("draft-loop", "create_revision") = Before("issues_open")
      /\ RefusedStages("qa", "run_mock_final_qa") = Status \ {"issues_open", "revised"}
      /\ RefusedStages("qa", "approve_final") = Status \ {"revised"}
  BY DEF RefusedStages
<1>7. /\ Refused("contract-type", "classify_and_confirm", p) <=> Rank[p.status] >= 5
      /\ Refused("intake", "answer_intake", p) <=> Rank[p.status] >= 9
      /\ Refused("deal-memo", "draft_deal_memo", p) <=> Rank[p.status] # 7
      /\ Refused("deal-memo", "approve_deal_memo", p) <=> MissingAnswers(p) # {}
      /\ Refused("drafting-plan", "draft_drafting_plan", p) <=> Rank[p.status] # 9
  BY <1>1, <1>3, <1>4, <1>5 DEF Refused
<1>8. /\ Refused("draft-loop", "create_v0", p) <=> Rank[p.status] < 11
      /\ Refused("issues", "run_mock_reviews", p)
           <=> Rank[p.status] < 12 \/ Rank[p.status] >= 15
      /\ Refused("draft-loop", "run_mock_reviews", p)
           <=> Rank[p.status] < 12 \/ Rank[p.status] >= 15
      /\ Refused("draft-loop", "create_revision", p) <=> Rank[p.status] < 14
      /\ Refused("qa", "run_mock_final_qa", p) <=> Rank[p.status] \notin {14, 15}
      /\ Refused("qa", "approve_final", p) <=> Rank[p.status] # 15
  BY <1>1, <1>3, <1>4, <1>6 DEF Refused
<1> QED BY <1>7, <1>8

LEMMA NothingElseRefused ==
  ASSUME NEW p, NEW page, NEW op,
         \/ page \in {"sources", "playbook", "draft", "exports"}
         \/ page = "drafting-plan" /\ op = "approve_drafting_plan"
         \/ page = "issues" /\ op = "decide_issue"
         \/ page = "qa" /\ op = "create_revision"
         \/ /\ page = "draft-loop"
            /\ op \in {"create_draft_iteration", "synthesize_reviews",
                       "batch_accept_review_issues", "stop_draft_loop"}
  PROVE  ~Refused(page, op, p)
<1>1. RefusedStages(page, op) = {} BY DEF RefusedStages
<1> QED BY <1>1 DEF Refused

\* The guards of the core, by rank.
LEMMA TakenByRank ==
  ASSUME NEW p, Good(p), NEW a \in Lawyers
  PROVE  /\ Takes("classify_and_confirm", p, a) <=> Rank[p.status] = 3
         /\ p.questions # {} =>
              (Takes("answer_intake", p, a) <=> Rank[p.status] \in {7, 8})
         /\ Takes("draft_deal_memo", p, a) <=> Rank[p.status] = 7
         /\ p.memo.state = "drafted" =>
              (Takes("approve_deal_memo", p, a) <=> MissingAnswers(p) = {})
         /\ Takes("draft_drafting_plan", p, a) <=> Rank[p.status] = 9
         /\ Takes("create_v0", p, a) <=> Rank[p.status] = 11
         /\ Takes("run_mock_reviews", p, a) <=> Rank[p.status] \in {12, 14}
         /\ Takes("run_mock_final_qa", p, a) <=> Rank[p.status] \in {14, 15}
         /\ Takes("create_revision", p, a) <=> Rank[p.status] >= 14
         /\ Pending(p) = {} => (Takes("approve_final", p, a) <=> Rank[p.status] = 15)
<1> DEFINE r == Rank[p.status]
<1>1. p.status \in Status BY DEF Good, ProjectState
<1>2. /\ p.status \notin {"type_suggested", "playbook_selected", "reviews_in_progress"}
      /\ p.playbook = None <=> r < 7
      /\ p.memo.state = "drafted" <=> r = 8
      /\ p.memo.state = "approved" <=> r > 8
      /\ p.plan.state = "approved" <=> r > 10
      /\ p.versions = << >> <=> r < 12
  BY Stage
<1>3. /\ r \in 1..17
      /\ p.status = "source_pack_locked" <=> r = 3
      /\ p.status = "intake_in_progress" <=> r = 7
      /\ p.status = "deal_memo_drafted" <=> r = 8
      /\ p.status = "deal_memo_approved" <=> r = 9
      /\ p.status = "drafting_plan_approved" <=> r = 11
      /\ p.status = "draft_v0_created" <=> r = 12
      /\ p.status = "issues_open" <=> r = 14
      /\ p.status = "revised" <=> r = 15
  BY <1>1, StatusOfRank
<1>4. /\ AtLeast(p.status, "draft_v0_created") <=> r >= 12
      /\ AtLeast(p.status, "issues_open") <=> r >= 14
  BY RankOf DEF AtLeast
<1>5. /\ r >= 14 => CanAdvance(p.status, "revised")
      /\ r = 15 => CanAdvance(p.status, "final_approved")
      /\ r = 12 => ~CanAdvance(p.status, "final_approved")
  <2>1. r >= 15 => AtLeast(p.status, "revised") BY RankOf DEF AtLeast
  <2>2. p.status = "issues_open" => CanAdvance(p.status, "revised") BY DEF CanAdvance, Edges
  <2>3. p.status = "revised" => CanAdvance(p.status, "final_approved")
    BY DEF CanAdvance, Edges
  <2>4. p.status = "draft_v0_created" => ~CanAdvance(p.status, "final_approved")
    BY RankOf DEF CanAdvance, Edges, AtLeast
  <2>5. r >= 14 => r = 14 \/ r >= 15 BY <1>3
  <2> QED BY <1>3, <2>1, <2>2, <2>3, <2>4, <2>5 DEF CanAdvance
<1> HIDE DEF r
<1>6. Takes("classify_and_confirm", p, a) <=> r = 3
  BY <1>2, <1>3, TakesPreparation DEF CanClassifyAndConfirm
<1>7. p.questions # {} => (Takes("answer_intake", p, a) <=> r \in {7, 8})
  BY <1>3, TakesPreparation DEF CanAnswerIntake
<1>8. Takes("draft_deal_memo", p, a) <=> r = 7
  BY <1>2, <1>3, TakesPreparation DEF CanDraftDealMemo
<1>9. p.memo.state = "drafted" => (Takes("approve_deal_memo", p, a) <=> MissingAnswers(p) = {})
  BY <1>2, <1>3, TakesPreparation DEF CanApproveDealMemo
<1>10. Takes("draft_drafting_plan", p, a) <=> r = 9
  BY <1>2, <1>3, TakesPreparation DEF CanDraftDraftingPlan
<1>11. Takes("create_v0", p, a) <=> r = 11
  BY <1>2, <1>3, TakesPreparation DEF CanCreateV0
<1>12. Takes("run_mock_reviews", p, a) <=> r \in {12, 14}
  <2>1. Takes("run_mock_reviews", p, a) <=> CanRunReviews(p) BY TakesReview
  <2>2. r \in {12, 14} => p.playbook # None /\ p.versions # << >> BY <1>2
  <2> QED BY <1>2, <1>3, <2>1, <2>2 DEF CanRunReviews
<1>13. Takes("run_mock_final_qa", p, a) <=> r \in {14, 15}
  <2>1. Takes("run_mock_final_qa", p, a) <=> CanRunFinalQA(p) BY TakesReview
  <2>2. r \in {14, 15} => /\ p.playbook # None /\ p.versions # << >>
                          /\ AtLeast(p.status, "draft_v0_created")
    BY <1>2, <1>4
  <2>3. CanRunFinalQA(p) <=> /\ p.status \in {"revised", "issues_open"}
                             /\ p.playbook # None /\ p.versions # << >>
                             /\ AtLeast(p.status, "draft_v0_created")
    BY DEF CanRunFinalQA, CanRunDeterministicQA
  <2> QED BY <1>3, <2>1, <2>2, <2>3
<1>14. Takes("create_revision", p, a) <=> r >= 14
  <2>1. Takes("create_revision", p, a) <=> CanCreateRevision(p) BY TakesReview
  <2>2. r >= 14 => /\ p.playbook # None /\ p.versions # << >>
                   /\ p.memo.state = "approved" /\ p.plan.state = "approved"
    BY <1>2, <1>3
  <2> QED BY <1>4, <1>5, <2>1, <2>2 DEF CanCreateRevision
<1>15. Pending(p) = {} => (Takes("approve_final", p, a) <=> r = 15)
  <2>1. Takes("approve_final", p, a) <=> CanApproveFinal(p, a) BY TakesReview
  <2>2. r = 15 => p.versions # << >> BY <1>2
  <2>3. p.status \in {"revised", "draft_v0_created"} <=> r \in {12, 15} BY <1>3
  <2> QED BY <1>5, <2>1, <2>2, <2>3 DEF CanApproveFinal
<1> QED
  BY <1>6, <1>7, <1>8, <1>9, <1>10, <1>11, <1>12, <1>13, <1>14, <1>15 DEF r

\* A control that a page enables for a lawyer is taken by the core exactly where the
\* page does not offer too much (Refused): what the page reads off the records comes to
\* what the core reads off the status.  It needs a custom playbook, which the select
\* button counts on.
THEOREM ControlsWork ==
  ASSUME CustomPlaybooks # {}
  PROVE  Spec => []EnabledControlsWork
<1>1. IInv /\ FitHolds => EnabledControlsWork
  <2> SUFFICES ASSUME Good(proj), Fit(proj), NEW a \in Lawyers, NEW page \in PageNames,
                      NEW op \in Controls(page, proj, a)
               PROVE  Takes(op, proj, a) <=> ~Refused(page, op, proj)
    BY DEF IInv, FitHolds, EnabledControlsWork
  <2> DEFINE r == Rank[proj.status]
  <2>0. /\ proj.status \in Status
        /\ proj.status \notin {"type_suggested", "playbook_selected", "reviews_in_progress"}
        /\ proj.ctype = None <=> r < 5
        /\ ~proj.locked <=> r < 3
        /\ proj.playbook = None <=> r < 7
        /\ proj.memo.state = "approved" <=> r > 8
        /\ proj.plan.state = "approved" <=> r > 10
        /\ proj.versions = << >> <=> r < 12
    BY Stage
  <2>00. r \in 1..17 /\ r \notin {4, 6, 13} BY <2>0, StatusOfRank
  <2> HIDE DEF r
  <2>1. CASE page = "sources" BY <2>1, SourcesControlsWork, NothingElseRefused
  <2>2. CASE page = "contract-type"
    <3>1. op = "classify_and_confirm" /\ proj.locked BY <2>2, PreparationControls
    <3>2. Takes("classify_and_confirm", proj, a) <=> r = 3 BY TakenByRank DEF r
    <3>3. Refused("contract-type", "classify_and_confirm", proj) <=> r >= 5
      BY RefusedByRank DEF r
    <3> QED BY <2>0, <2>00, <2>2, <3>1, <3>2, <3>3
  <2>3. CASE page = "playbook"
    BY <2>3, PreparationControls, PlaybookControlWorks, NothingElseRefused
  <2>4. CASE page = "intake"
    <3>1. op = "answer_intake" /\ proj.questions # {} BY <2>4, PreparationControls
    <3>2. Takes("answer_intake", proj, a) <=> r \in {7, 8} BY <3>1, TakenByRank DEF r
    <3>3. Refused("intake", "answer_intake", proj) <=> r >= 9 BY RefusedByRank DEF r
    <3>4. r >= 7 BY <2>0, <2>00, <3>1 DEF Fit
    <3> QED BY <2>00, <2>4, <3>1, <3>2, <3>3, <3>4
  <2>5. CASE page = "deal-memo"
    <3>1. \/ op = "draft_deal_memo"
          \/ op = "approve_deal_memo" /\ proj.memo.state = "drafted"
      BY <2>5, PreparationControls
    <3>2. /\ Takes("draft_deal_memo", proj, a) <=> r = 7
          /\ proj.memo.state = "drafted" =>
               (Takes("approve_deal_memo", proj, a) <=> MissingAnswers(proj) = {})
      BY TakenByRank DEF r
    <3>3. /\ Refused("deal-memo", "draft_deal_memo", proj) <=> r # 7
          /\ Refused("deal-memo", "approve_deal_memo", proj) <=> MissingAnswers(proj) # {}
      BY RefusedByRank DEF r
    <3> QED BY <2>5, <3>1, <3>2, <3>3
  <2>6. CASE page = "drafting-plan"
    <3>1. \/ op = "draft_drafting_plan"
          \/ op = "approve_drafting_plan" /\ proj.plan.state = "drafted"
      BY <2>6, PreparationControls
    <3>2. CASE op = "draft_drafting_plan"
      <4>1. Takes("draft_drafting_plan", proj, a) <=> r = 9 BY TakenByRank DEF r
      <4>2. Refused("drafting-plan", "draft_drafting_plan", proj) <=> r # 9
        BY RefusedByRank DEF r
      <4> QED BY <2>6, <3>2, <4>1, <4>2
    <3>3. CASE op = "approve_drafting_plan" /\ proj.plan.state = "drafted"
      BY <2>6, <3>3, PlanControlWorks, NothingElseRefused
    <3> QED BY <3>1, <3>2, <3>3
  <2>7. CASE page = "draft"
    BY <2>7, PreparationControls, DraftControlWorks, NothingElseRefused
  <2>8. CASE page = "issues"
    <3>1. op = "run_mock_reviews" \/ (op = "decide_issue" /\ Raised(proj) # {})
      BY <2>8, ReviewControls
    <3>2. CASE op = "run_mock_reviews"
      <4>1. Takes("run_mock_reviews", proj, a) <=> r \in {12, 14} BY TakenByRank DEF r
      <4>2. Refused("issues", "run_mock_reviews", proj) <=> r < 12 \/ r >= 15
        BY RefusedByRank DEF r
      <4> QED BY <2>00, <2>8, <3>2, <4>1, <4>2
    <3>3. CASE op = "decide_issue" /\ Raised(proj) # {}
      BY <2>8, <3>3, DecisionControlWorks, NothingElseRefused
    <3> QED BY <3>1, <3>2, <3>3
  <2>9. CASE page = "qa"
    <3>1. \/ op = "run_mock_final_qa"
          \/ op = "create_revision" /\ Accepted(proj) # {}
          \/ op = "approve_final" /\ Pending(proj) = {}
      BY <2>9, ReviewControls
    <3>2. /\ Takes("run_mock_final_qa", proj, a) <=> r \in {14, 15}
          /\ Takes("create_revision", proj, a) <=> r >= 14
          /\ Pending(proj) = {} => (Takes("approve_final", proj, a) <=> r = 15)
      BY TakenByRank DEF r
    <3>3. /\ Refused("qa", "run_mock_final_qa", proj) <=> r \notin {14, 15}
          /\ Refused("qa", "approve_final", proj) <=> r # 15
      BY RefusedByRank DEF r
    <3>4. CASE op = "create_revision" /\ Accepted(proj) # {}
      <4>1. Raised(proj) # {} BY <3>4 DEF Accepted, Raised
      <4>2. AtLeast(proj.status, "issues_open") BY <4>1, RaisedLate
      <4>3. r >= 14 BY <4>2, RankOf DEF AtLeast, r
      <4> QED BY <2>9, <3>2, <3>4, <4>3, NothingElseRefused
    <3> QED BY <2>9, <3>1, <3>2, <3>3, <3>4
  <2>10. CASE page = "exports"
    BY <2>10, ReviewControls, ExportControlWorks, NothingElseRefused
  <2>11. CASE page = "draft-loop"
    <3>1. CASE op \notin {"create_v0", "run_mock_reviews", "create_revision"}
      <4>1. op \in {"create_draft_iteration", "synthesize_reviews",
                    "batch_accept_review_issues", "stop_draft_loop"}
        BY <2>11, <3>1, DraftLoopControls
      <4> QED BY <2>11, <3>1, <4>1, LoopControlsWork, NothingElseRefused
    <3>2. /\ Takes("create_v0", proj, a) <=> r = 11
          /\ Takes("run_mock_reviews", proj, a) <=> r \in {12, 14}
          /\ Takes("create_revision", proj, a) <=> r >= 14
      BY TakenByRank DEF r
    <3>3. /\ Refused("draft-loop", "create_v0", proj) <=> r < 11
          /\ Refused("draft-loop", "run_mock_reviews", proj) <=> r < 12 \/ r >= 15
          /\ Refused("draft-loop", "create_revision", proj) <=> r < 14
      BY RefusedByRank DEF r
    <3>4. op = "create_v0" => r < 12 BY <2>0, <2>11, DraftLoopControls
    <3> QED BY <2>00, <2>11, <3>1, <3>2, <3>3, <3>4
  <2> QED
    BY <2>1, <2>2, <2>3, <2>4, <2>5, <2>6, <2>7, <2>8, <2>9, <2>10, <2>11 DEF PageNames
<1> QED BY <1>1, IInvHolds, FitAlways, PTL

-----------------------------------------------------------------------------
(* The suggestion of the overview leads on *)

\* The guards of NextSuggestion exclude each other.
LEMMA SuggestionOf ==
  ASSUME NEW p, Good(p), Fit(p)
  PROVE  /\ ~p.locked => NextSuggestion(p) = "sources"
         /\ p.locked /\ p.ctype = None => NextSuggestion(p) = "contract-type"
         /\ p.ctype # None /\ p.playbook = None => NextSuggestion(p) = "playbook"
         /\ p.playbook # None /\ ~Answered(p) => NextSuggestion(p) = "intake"
         /\ Answered(p) /\ p.memo.state # "approved" => NextSuggestion(p) = "deal-memo"
         /\ Answered(p) /\ p.memo.state = "approved" /\ p.plan.state # "approved"
              => NextSuggestion(p) = "drafting-plan"
         /\ Answered(p) /\ p.plan.state = "approved" /\ p.versions = << >>
              => NextSuggestion(p) = "draft"
         /\ Answered(p) /\ p.versions # << >> /\ (Raised(p) = {} \/ Pending(p) # {})
              => NextSuggestion(p) = "issues"
         /\ Answered(p) /\ Raised(p) # {} /\ Pending(p) = {} /\ Finals(p) = {}
              => NextSuggestion(p) = "qa"
         /\ Answered(p) /\ Raised(p) # {} /\ Pending(p) = {} /\ Finals(p) # {}
              => NextSuggestion(p) = "exports"
<1> DEFINE r == Rank[p.status]
<1>1. p.status \in Status BY DEF Good, ProjectState
<1>2. r \in 1..17 BY <1>1, StatusOfRank
<1>3. /\ ~p.locked <=> r < 3
      /\ p.ctype = None <=> r < 5
      /\ p.playbook = None <=> r < 7
      /\ p.memo.state = "approved" <=> r > 8
      /\ p.plan.state = "approved" <=> r > 10
      /\ p.versions = << >> <=> r < 12
      /\ Finals(p) = {} <=> r < 16
  BY Stage
<1>4. Answered(p) => p.playbook # None BY DEF Fit, Answered
<1>5. Raised(p) # {} => r >= 14 BY RaisedLate, RankOf DEF AtLeast
<1> HIDE DEF r
<1>6. /\ ~p.locked => p.ctype = None /\ p.playbook = None
      /\ p.ctype = None => p.playbook = None
      /\ p.playbook = None => p.memo.state # "approved"
      /\ p.memo.state # "approved" => p.plan.state # "approved"
      /\ p.plan.state # "approved" => p.versions = << >>
      /\ p.versions = << >> => Raised(p) = {} /\ Finals(p) = {}
  BY <1>2, <1>3, <1>5
<1> DEFINE locked == p.locked
           ctype == p.ctype # None
           playbook == p.playbook # None
           answered == Answered(p)
           memo == p.memo.state = "approved"
           plan == p.plan.state = "approved"
           drafted == p.versions # << >>
           raised == Raised(p) # {}
           pending == Pending(p) # {}
           final == Finals(p) # {}
<1>7. NextSuggestion(p) =
        CASE ~locked -> "sources"
          [] ~ctype /\ locked -> "contract-type"
          [] ~playbook /\ ctype -> "playbook"
          [] playbook /\ ~answered -> "intake"
          [] answered /\ ~memo -> "deal-memo"
          [] answered /\ memo /\ ~plan -> "drafting-plan"
          [] answered /\ plan /\ ~drafted -> "draft"
          [] answered /\ drafted /\ (~raised \/ pending) -> "issues"
          [] answered /\ raised /\ ~pending /\ ~final -> "qa"
          [] OTHER -> "exports"
  BY DEF NextSuggestion
<1>8. /\ ~locked => ~ctype /\ ~playbook
      /\ ~ctype => ~playbook
      /\ ~playbook => ~memo /\ ~answered
      /\ ~memo => ~plan
      /\ ~plan => ~drafted
      /\ ~drafted => ~raised /\ ~final
  BY <1>4, <1>6
<1>9. pending => raised BY DEF Pending, Raised
<1> HIDE DEF locked, ctype, playbook, answered, memo, plan, drafted, raised, pending, final
<1>10. /\ ~locked => NextSuggestion(p) = "sources"
       /\ locked /\ ~ctype => NextSuggestion(p) = "contract-type"
       /\ ctype /\ ~playbook => NextSuggestion(p) = "playbook"
       /\ playbook /\ ~answered => NextSuggestion(p) = "intake"
       /\ answered /\ ~memo => NextSuggestion(p) = "deal-memo"
       /\ answered /\ memo /\ ~plan => NextSuggestion(p) = "drafting-plan"
       /\ answered /\ plan /\ ~drafted => NextSuggestion(p) = "draft"
       /\ answered /\ drafted /\ (~raised \/ pending) => NextSuggestion(p) = "issues"
       /\ answered /\ raised /\ ~pending /\ ~final => NextSuggestion(p) = "qa"
       /\ answered /\ raised /\ ~pending /\ final => NextSuggestion(p) = "exports"
  BY <1>7, <1>8, <1>9
<1> QED BY <1>10 DEF locked, ctype, playbook, answered, memo, plan, drafted, raised,
                     pending, final

\* The two preparations that the overview sends a lawyer to before a playbook is there.
LEMMA SourcesLead ==
  ASSUME NEW p, Good(p), ~p.locked, NEW a \in Lawyers
  PROVE  LeadsOn("sources", p, a)
<1>1. "add_source" \in Controls("sources", p, a) BY PreparationControls
<1>2. Takes("add_source", p, a) BY <1>1, SourcesControlsWork
<1> QED BY <1>1, <1>2 DEF LeadsOn, Needed

LEMMA TypeLeads ==
  ASSUME NEW p, Good(p), p.locked, p.ctype = None, NEW a \in Lawyers
  PROVE  LeadsOn("contract-type", p, a)
<1> DEFINE r == Rank[p.status]
<1>1. p.status \in Status BY DEF Good, ProjectState
<1>2. /\ ~p.locked <=> r < 3
      /\ p.ctype = None <=> r < 5
      /\ p.status # "type_suggested"
  BY Stage
<1>3. /\ p.status = "source_pack_locked" <=> r = 3
      /\ p.status = "type_suggested" <=> r = 4
      /\ r \in 1..17
  BY <1>1, StatusOfRank
<1> HIDE DEF r
<1>4. p.status = "source_pack_locked" BY <1>2, <1>3
<1>5. Takes("classify_and_confirm", p, a)
  BY <1>4, TakesPreparation DEF CanClassifyAndConfirm
<1>6. "classify_and_confirm" \in Controls("contract-type", p, a) BY PreparationControls
<1> QED BY <1>5, <1>6 DEF LeadsOn, Needed

\* With every required question answered, a selected playbook leads from the intake to
\* the first draft.  An unanswered one keeps the overview on the intake, and there the
\* core still takes answers: the memo is not approved, since its approval asks for them.
LEMMA RequiredThere ==
  ASSUME NEW p, Fit(p), PlaybooksSuffice, p.playbook # None, ~Answered(p)
  PROVE  MissingAnswers(p) # {} /\ p.questions # {}
<1>1. p.questions \intersect RequiredQuestions # {} BY DEF Fit, PlaybooksSuffice
<1> QED BY <1>1 DEF Answered

LEMMA IntakeLeads ==
  ASSUME NEW p, Good(p), Fit(p), Chain(p), PlaybooksSuffice, p.playbook # None, ~Answered(p),
         NEW a \in Lawyers
  PROVE  LeadsOn("intake", p, a)
<1> DEFINE r == Rank[p.status]
<1>1. p.status \in Status BY DEF Good, ProjectState
<1>2. MissingAnswers(p) # {} /\ p.questions # {} BY RequiredThere
<1>3. p.memo.state # "approved" BY <1>2 DEF Chain
<1>4. /\ p.playbook = None <=> r < 7
      /\ p.memo.state = "approved" <=> r > 8
  BY Stage
<1>5. /\ p.status = "intake_in_progress" <=> r = 7
      /\ p.status = "deal_memo_drafted" <=> r = 8
      /\ r \in 1..17
  BY <1>1, StatusOfRank
<1> HIDE DEF r
<1>6. p.status \in {"intake_in_progress", "deal_memo_drafted"} BY <1>3, <1>4, <1>5
<1>7. \A q \in p.questions : CanAnswerIntake(p, q) BY <1>6 DEF CanAnswerIntake
<1>8. Takes("answer_intake", p, a) BY <1>2, <1>7, TakesPreparation
<1>9. "answer_intake" \in Controls("intake", p, a) BY <1>2, PreparationControls
<1>10. "answer_intake" \in Needed(p) BY <1>2 DEF Needed, When
<1> QED BY <1>8, <1>9, <1>10 DEF LeadsOn

LEMMA MemoLeads ==
  ASSUME NEW p, Good(p), p.playbook # None, Answered(p), p.memo.state # "approved",
         NEW a \in Lawyers
  PROVE  LeadsOn("deal-memo", p, a)
<1> DEFINE r == Rank[p.status]
<1>1. p.status \in Status BY DEF Good, ProjectState
<1>2. /\ p.playbook = None <=> r < 7
      /\ p.memo.state = "drafted" <=> r = 8
      /\ p.memo.state = "approved" <=> r > 8
  BY Stage
<1>3. /\ p.status = "intake_in_progress" <=> r = 7
      /\ p.status = "deal_memo_drafted" <=> r = 8
      /\ r \in 1..17
  BY <1>1, StatusOfRank
<1> HIDE DEF r
<1>4. CASE p.status = "intake_in_progress"
  <2>1. Takes("draft_deal_memo", p, a) BY <1>4, TakesPreparation DEF CanDraftDealMemo
  <2>2. "draft_deal_memo" \in Controls("deal-memo", p, a) BY PreparationControls
  <2> QED BY <2>1, <2>2 DEF LeadsOn, Needed
<1>5. CASE p.status = "deal_memo_drafted" /\ p.memo.state = "drafted"
  <2>1. MissingAnswers(p) = {} BY DEF Answered
  <2>2. CanApproveDealMemo(p, a) BY <1>5, <2>1 DEF CanApproveDealMemo
  <2>3. Takes("approve_deal_memo", p, a) BY <2>2, TakesPreparation
  <2>4. "approve_deal_memo" \in Controls("deal-memo", p, a) BY <1>5, PreparationControls
  <2> QED BY <2>3, <2>4 DEF LeadsOn, Needed
<1> QED BY <1>2, <1>3, <1>4, <1>5

LEMMA PlanLeads ==
  ASSUME NEW p, Good(p), p.memo.state = "approved", p.plan.state # "approved",
         NEW a \in Lawyers
  PROVE  LeadsOn("drafting-plan", p, a)
<1> DEFINE r == Rank[p.status]
<1>1. p.status \in Status BY DEF Good, ProjectState
<1>2. /\ p.playbook = None <=> r < 7
      /\ p.memo.state = "approved" <=> r > 8
      /\ p.plan.state = "drafted" <=> r = 10
      /\ p.plan.state = "approved" <=> r > 10
  BY Stage
<1>3. (p.status = "deal_memo_approved" <=> r = 9) /\ r \in 1..17
  BY <1>1, StatusOfRank
<1> HIDE DEF r
<1>4. CASE p.status = "deal_memo_approved" /\ p.playbook # None
  <2>1. Takes("draft_drafting_plan", p, a)
    BY <1>4, TakesPreparation DEF CanDraftDraftingPlan
  <2>2. "draft_drafting_plan" \in Controls("drafting-plan", p, a) BY PreparationControls
  <2> QED BY <2>1, <2>2 DEF LeadsOn, Needed
<1>5. CASE p.plan.state = "drafted"
  <2>1. Takes("approve_drafting_plan", p, a) BY <1>5, PlanControlWorks
  <2>2. "approve_drafting_plan" \in Controls("drafting-plan", p, a)
    BY <1>5, PreparationControls
  <2> QED BY <2>1, <2>2 DEF LeadsOn, Needed
<1> QED BY <1>2, <1>3, <1>4, <1>5

LEMMA DraftLeads ==
  ASSUME NEW p, Good(p), p.memo.state = "approved", p.plan.state = "approved",
         p.versions = << >>, NEW a \in Lawyers
  PROVE  LeadsOn("draft", p, a)
<1>1. Takes("create_v0", p, a) BY DraftControlWorks
<1>2. "create_v0" \in Controls("draft", p, a) BY PreparationControls
<1> QED BY <1>1, <1>2 DEF LeadsOn, Needed

\* The stages from the first draft on.
LEMMA DraftedStages ==
  ASSUME NEW p, Good(p), p.versions # << >>
  PROVE  /\ p.status \in {"draft_v0_created", "issues_open", "revised",
                          "final_approved", "exported"}
         /\ p.status \in {"draft_v0_created", "issues_open", "revised"} <=> Finals(p) = {}
         /\ p.playbook # None /\ p.memo.state = "approved" /\ p.plan.state = "approved"
<1> DEFINE r == Rank[p.status]
<1>1. p.status \in Status BY DEF Good, ProjectState
<1>2. /\ p.versions = << >> <=> r < 12
      /\ Finals(p) = {} <=> r < 16
      /\ p.playbook = None <=> r < 7
      /\ p.memo.state = "approved" <=> r > 8
      /\ p.plan.state = "approved" <=> r > 10
      /\ p.status # "reviews_in_progress"
  BY Stage
<1>3. /\ p.status = "draft_v0_created" <=> r = 12
      /\ p.status = "reviews_in_progress" <=> r = 13
      /\ p.status = "issues_open" <=> r = 14
      /\ p.status = "revised" <=> r = 15
      /\ p.status = "final_approved" <=> r = 16
      /\ p.status = "exported" <=> r = 17
      /\ r \in 1..17
  BY <1>1, StatusOfRank
<1> HIDE DEF r
<1> QED BY <1>2, <1>3

LEMMA DecisionLeads ==
  ASSUME NEW p, Good(p), Fit(p), Pending(p) # {}, NEW a \in Lawyers
  PROVE  LeadsOn("issues", p, a)
<1>1. Raised(p) # {} BY DEF Pending, Raised
<1>2. Takes("decide_issue", p, a) BY <1>1, DecisionControlWorks
<1>3. "decide_issue" \in Controls("issues", p, a) BY <1>1, ReviewControls
<1>4. "decide_issue" \in Needed(p) BY DEF Needed, When
<1> QED BY <1>2, <1>3, <1>4 DEF LeadsOn

LEMMA ReviewLeads ==
  ASSUME NEW p, Good(p), p.versions # << >>, NEW a \in Lawyers,
         p.status \in {"draft_v0_created", "issues_open"}
  PROVE  LeadsOn("issues", p, a)
<1>1. CanRunReviews(p) BY DraftedStages DEF CanRunReviews
<1>2. Takes("run_mock_reviews", p, a) BY <1>1, TakesReview
<1>3. "run_mock_reviews" \in Controls("issues", p, a) BY ReviewControls
<1> QED BY <1>2, <1>3 DEF LeadsOn, Needed

\* The revision leads on from the QA page if a card was accepted, and from the Draft
\* Loop page in any case.
LEMMA RevisionLeads ==
  ASSUME NEW p, Good(p), p.versions # << >>, p.status = "issues_open", Pending(p) = {},
         NEW a \in Lawyers
  PROVE  /\ Accepted(p) # {} => LeadsOn("qa", p, a)
         /\ LeadsOn("draft-loop", p, a)
<1>1. AtLeast(p.status, "issues_open") /\ CanAdvance(p.status, "revised")
  BY RankOf DEF AtLeast, CanAdvance, Edges
<1>2. CanCreateRevision(p) BY <1>1, DraftedStages DEF CanCreateRevision
<1>3. Takes("create_revision", p, a) BY <1>2, TakesReview
<1>4. "create_revision" \in Needed(p) BY DEF Needed, When
<1>5. Accepted(p) # {} => "create_revision" \in Controls("qa", p, a) BY ReviewControls
<1>6. "create_revision" \in Controls("draft-loop", p, a) BY DraftLoopControls
<1> QED BY <1>3, <1>4, <1>5, <1>6 DEF LeadsOn

LEMMA ApprovalLeads ==
  ASSUME NEW p, Good(p), p.versions # << >>, p.status = "revised", Pending(p) = {},
         NEW a \in Lawyers
  PROVE  LeadsOn("qa", p, a)
<1>1. CanAdvance(p.status, "final_approved") BY DEF CanAdvance, Edges
<1>2. CanApproveFinal(p, a) BY <1>1 DEF CanApproveFinal
<1>3. Takes("approve_final", p, a) BY <1>2, TakesReview
<1>4. ~Latest(p).final BY DraftedStages, LatestNotFinal
<1>5. "approve_final" \in Controls("qa", p, a) BY <1>4, ReviewControls
<1> QED BY <1>3, <1>5 DEF LeadsOn, Needed

LEMMA ExportLeads ==
  ASSUME NEW p, Good(p), Finals(p) # {}, NEW a \in Lawyers
  PROVE  LeadsOn("exports", p, a)
<1>1. Takes("create_export", p, a) BY ExportControlWorks
<1>2. "create_export" \in Controls("exports", p, a) BY ReviewControls
<1> QED BY <1>1, <1>2 DEF LeadsOn, Needed

\* From the first draft on.
LEMMA DraftedLeads ==
  ASSUME NEW p, Good(p), Fit(p), Answered(p), p.versions # << >>, NEW a \in Lawyers
  PROVE  \/ LeadsOn(NextSuggestion(p), p, a)
         \/ Declined(p) /\ \E page \in PageNames : LeadsOn(page, p, a)
<1>1. CASE Pending(p) # {}
  <2>1. NextSuggestion(p) = "issues" BY <1>1, SuggestionOf
  <2> QED BY <1>1, <2>1, DecisionLeads
<1>2. CASE Pending(p) = {} /\ Raised(p) = {}
  <2>1. Declined(p) BY <1>2 DEF Declined, Accepted, Raised
  <2>2. CASE p.status \in {"draft_v0_created", "issues_open"}
    BY <2>1, <2>2, ReviewLeads DEF PageNames
  <2>3. CASE p.status = "revised"
    BY <1>2, <2>1, <2>3, ApprovalLeads DEF PageNames
  <2>4. CASE Finals(p) # {}
    BY <2>1, <2>4, ExportLeads DEF PageNames
  <2> QED BY <2>2, <2>3, <2>4, DraftedStages
<1>3. CASE Pending(p) = {} /\ Raised(p) # {}
  <2>1. p.status \in {"issues_open", "revised", "final_approved", "exported"}
    BY <1>3 DEF Fit, PhaseOf
  <2>2. CASE p.status = "issues_open"
    <3>1. NextSuggestion(p) = "qa" BY <1>3, <2>2, DraftedStages, SuggestionOf
    <3>2. CASE Accepted(p) # {} BY <1>3, <2>2, <3>1, <3>2, RevisionLeads
    <3>3. CASE Accepted(p) = {}
      <4>1. Declined(p) BY <1>3, <3>3 DEF Declined
      <4> QED BY <1>3, <2>2, <4>1, RevisionLeads DEF PageNames
    <3> QED BY <3>2, <3>3
  <2>3. CASE p.status = "revised"
    <3>1. NextSuggestion(p) = "qa" BY <1>3, <2>3, DraftedStages, SuggestionOf
    <3> QED BY <1>3, <2>3, <3>1, ApprovalLeads
  <2>4. CASE p.status \in {"final_approved", "exported"}
    <3>1. Finals(p) # {} BY <2>4, DraftedStages
    <3>2. NextSuggestion(p) = "exports" BY <1>3, <3>1, SuggestionOf
    <3> QED BY <3>1, <3>2, ExportLeads
  <2> QED BY <2>1, <2>2, <2>3, <2>4
<1> QED BY <1>1, <1>2, <1>3

\* The overview sends a lawyer to a page where the project can be moved on, and where
\* it does not, because nothing was accepted, another page leads on.  It needs a
\* required question in every playbook: the overview takes a playbook without one for
\* unanswered, and stays on the intake.
THEOREM SuggestionsLead ==
  ASSUME PlaybooksSuffice
  PROVE  Spec => []SuggestionLeadsOn
<1>1. IInv /\ FitHolds /\ ApprovalChain => SuggestionLeadsOn
  <2> SUFFICES ASSUME Good(proj), Fit(proj), Chain(proj), NEW a \in Lawyers
               PROVE  \/ LeadsOn(NextSuggestion(proj), proj, a)
                      \/ /\ Declined(proj)
                         /\ \E page \in PageNames : LeadsOn(page, proj, a)
    BY DEF IInv, FitHolds, ApprovalChain, Chain, SuggestionLeadsOn
  <2>1. CASE ~proj.locked BY <2>1, SourcesLead, SuggestionOf
  <2>2. CASE proj.locked /\ proj.ctype = None BY <2>2, TypeLeads, SuggestionOf
  <2>3. CASE proj.ctype # None /\ proj.playbook = None
    <3>1. Takes("select_playbook", proj, a)
      BY <2>3, PlaybookControlWorks DEF PlaybooksSuffice
    <3>2. "select_playbook" \in Controls("playbook", proj, a) BY <2>3, PreparationControls
    <3>3. LeadsOn("playbook", proj, a) BY <3>1, <3>2 DEF LeadsOn, Needed
    <3> QED BY <2>3, <3>3, SuggestionOf
  <2>4. CASE proj.playbook # None /\ ~Answered(proj) BY <2>4, IntakeLeads, SuggestionOf
  <2>5. CASE proj.playbook # None /\ Answered(proj) /\ proj.memo.state # "approved"
    BY <2>5, MemoLeads, SuggestionOf
  <2>6. CASE Answered(proj) /\ proj.memo.state = "approved" /\ proj.plan.state # "approved"
    BY <2>6, PlanLeads, SuggestionOf
  <2>7. CASE /\ Answered(proj) /\ proj.memo.state = "approved"
             /\ proj.plan.state = "approved" /\ proj.versions = << >>
    BY <2>7, DraftLeads, SuggestionOf
  <2>8. CASE Answered(proj) /\ proj.versions # << >> BY <2>8, DraftedLeads
  <2> QED BY <2>1, <2>2, <2>3, <2>4, <2>5, <2>6, <2>7, <2>8
<1> QED BY <1>1, IInvHolds, FitAlways, DraftsAreApproved, PTL

=============================================================================
