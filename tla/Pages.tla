-------------------------------- MODULE Pages --------------------------------
(***************************************************************************)
(* The pages of packages/web/app/projects/[id]: which controls each page   *)
(* enables for an actor a who looks at the ProjectState p, the step the    *)
(* overview suggests next, and whether the core takes what a control sends. *)
(*                                                                         *)
(* A page is the set of the operations its enabled controls send.  The     *)
(* pages decide from the browser's copy of the project, here up to date    *)
(* (Browser models how it comes not to be), and the actor is an owner of   *)
(* the project, so that nothing is refused for want of a permission.       *)
(***************************************************************************)
EXTENDS Workflow

When(condition, op) == {o \in {op} : condition}

-----------------------------------------------------------------------------
(* The controls *)

\* The form to add documents and the button under them go when the pack is locked.
SourcesPage(p, a) ==
  When(~p.locked, "add_source")
    \union When(~p.locked /\ p.docs # {}, "lock_source_pack")
\* Every document has a text area, locked or not.
SourceDocumentRow(p) == When(p.docs # {}, "add_source_content")

ContractTypePage(p, a) == When(p.locked /\ a \in Lawyers, "classify_and_confirm")
PlaybookPage(p, a) == When(p.playbook = None /\ p.ctype # None, "select_playbook")
IntakePage(p, a) == When(p.questions # {}, "answer_intake")

\* Generate, or Regenerate, until it is approved.
DealMemoPage(p, a) ==
  When(p.memo.state # "approved", "draft_deal_memo")
    \union When(p.memo.state = "drafted" /\ a \in Lawyers, "approve_deal_memo")
DraftingPlanPage(p, a) ==
  When(p.plan.state # "approved", "draft_drafting_plan")
    \union When(p.plan.state = "drafted" /\ a \in Lawyers, "approve_drafting_plan")

\* Mutant: the button looks at the memo only.
DraftPageMemoOnly(p, a) ==
  When(p.versions = << >> /\ p.memo.state = "approved", "create_v0")
DraftPage(p, a) ==
  When(p.versions = << >> /\ p.memo.state = "approved" /\ p.plan.state = "approved",
       "create_v0")

\* A card waits for its decision, or has one that may be changed.
PendingCardRow(p, a) == When(Pending(p) # {} /\ a \in Lawyers, "decide_issue")
DecidedCardRow(p, a) ==
  When(Raised(p) \ Pending(p) # {} /\ a \in Lawyers, "decide_issue")
IssuesPage(p, a) ==
  {"run_mock_reviews"} \union PendingCardRow(p, a) \union DecidedCardRow(p, a)

\* The revision button counts the cards that would be applied.
QAPage(p, a) ==
  When(p.versions # << >>, "run_mock_final_qa")
    \union When(p.versions # << >> /\ Accepted(p) # {}, "create_revision")
    \union When(/\ p.versions # << >> /\ ~Latest(p).final
                /\ Pending(p) = {} /\ a \in Lawyers, "approve_final")

\* The iteration the Draft Loop page works on: the first that is not stopped.
Live(p) == {i \in 1..Len(p.iterations) : p.iterations[i].state # "stopped"}
Active(p) == CHOOSE i \in Live(p) : \A j \in Live(p) : i <= j
Ordinary(p) == Pending(p) \ CriticalCards

\* Its cards: a draft and its reviews; what becomes of the findings; the next
\* version, and the end of the loop.
DraftCards(p) ==
  {"create_draft_iteration"}
    \union When(p.versions = << >>, "create_v0")
    \union When(p.versions # << >>, "run_mock_reviews")
SynthesisCards(p) ==
  When(p.versions # << >> /\ Live(p) # {}, "synthesize_reviews")
    \union When(Ordinary(p) # {}, "batch_accept_review_issues")
\* Mutant: the revision waits for an accepted card, as on the QA page.
RevisionCardsLikeQA(p) ==
  When(p.versions # << >> /\ Pending(p) = {} /\ Accepted(p) # {}, "create_revision")
    \union When(Live(p) # {}, "stop_draft_loop")
RevisionCards(p) ==
  When(p.versions # << >> /\ Pending(p) = {}, "create_revision")
    \union When(Live(p) # {}, "stop_draft_loop")
DraftLoopPage(p, a) ==
  IF a \in Lawyers THEN DraftCards(p) \union SynthesisCards(p) \union RevisionCards(p)
                   ELSE {}

ExportsPage(p, a) == When(Finals(p) # {} /\ a \in Lawyers, "create_export")

PageNames ==
  {"sources", "contract-type", "playbook", "intake", "deal-memo", "drafting-plan",
   "draft", "issues", "qa", "draft-loop", "exports"}
Controls(page, p, a) ==
  CASE page = "sources"       -> SourcesPage(p, a) \union SourceDocumentRow(p)
    [] page = "contract-type" -> ContractTypePage(p, a)
    [] page = "playbook"      -> PlaybookPage(p, a)
    [] page = "intake"        -> IntakePage(p, a)
    [] page = "deal-memo"     -> DealMemoPage(p, a)
    [] page = "drafting-plan" -> DraftingPlanPage(p, a)
    [] page = "draft"         -> DraftPage(p, a)
    [] page = "issues"        -> IssuesPage(p, a)
    [] page = "qa"            -> QAPage(p, a)
    [] page = "draft-loop"    -> DraftLoopPage(p, a)
    [] page = "exports"       -> ExportsPage(p, a)

-----------------------------------------------------------------------------
(* The suggestion of the overview, and the ticks of the navigation *)

Answered(p) ==
  p.questions \intersect RequiredQuestions # {} /\ MissingAnswers(p) = {}

\* Mutant: decided or not, a project with cards goes on to QA.
NextSuggestionEager(p) ==
  CASE ~p.locked                                  -> "sources"
    [] p.locked /\ p.ctype = None                 -> "contract-type"
    [] p.ctype # None /\ p.playbook = None        -> "playbook"
    [] p.playbook # None /\ ~Answered(p)          -> "intake"
    [] Answered(p) /\ p.memo.state # "approved"   -> "deal-memo"
    [] p.memo.state = "approved" /\ p.plan.state # "approved" -> "drafting-plan"
    [] p.plan.state = "approved" /\ p.versions = << >>        -> "draft"
    [] p.versions # << >> /\ Raised(p) = {}       -> "issues"
    [] Raised(p) # {} /\ Finals(p) = {}           -> "qa"
    [] OTHER                                      -> "exports"
NextSuggestion(p) ==
  CASE ~p.locked                      -> "sources"
    [] p.ctype = None /\ p.locked     -> "contract-type"
    [] p.playbook = None /\ p.ctype # None -> "playbook"
    [] p.playbook # None /\ ~Answered(p)   -> "intake"
    [] Answered(p) /\ p.memo.state # "approved" -> "deal-memo"
    [] Answered(p) /\ p.memo.state = "approved" /\ p.plan.state # "approved"
         -> "drafting-plan"
    [] Answered(p) /\ p.plan.state = "approved" /\ p.versions = << >> -> "draft"
    [] Answered(p) /\ p.versions # << >> /\ (Raised(p) = {} \/ Pending(p) # {})
         -> "issues"
    [] Answered(p) /\ Raised(p) # {} /\ Pending(p) = {} /\ Finals(p) = {} -> "qa"
    [] OTHER                          -> "exports"

-----------------------------------------------------------------------------
(* What the core takes *)

\* dispatch, with the arguments the controls send: a new document, the iteration
\* the page works on, all ordinary pending cards, a synthesis that covers the
\* pending ones, a clean summary, a note with a partial acceptance.
Takes(op, p, a) ==
  CASE op = "add_source" -> \A d \in Docs : CanAddSource([p EXCEPT !.docs = @ \ {d}], d)
    [] op = "add_source_content" -> \A d \in p.docs : CanAddSourceContent(p, d)
    [] op = "lock_source_pack" -> CanLockSourcePack(p)
    [] op = "classify_and_confirm" -> CanClassifyAndConfirm(p, a)
    [] op = "select_playbook" -> \E b \in Playbooks : CanSelectPlaybook(p, b)
    [] op = "answer_intake" -> p.questions # {} /\ \A q \in p.questions : CanAnswerIntake(p, q)
    [] op = "draft_deal_memo" -> CanDraftDealMemo(p)
    [] op = "approve_deal_memo" -> CanApproveDealMemo(p, a)
    [] op = "draft_drafting_plan" -> CanDraftDraftingPlan(p)
    [] op = "approve_drafting_plan" -> CanApproveDraftingPlan(p, a)
    [] op = "create_v0" -> CanCreateV0(p)
    [] op = "run_mock_reviews" -> CanRunReviews(p)
    [] op = "decide_issue" ->
         /\ Raised(p) # {}
         /\ \A c \in Raised(p), d \in Outcomes : CanDecideIssue(p, c, d, a, TRUE)
    [] op = "create_revision" -> CanCreateRevision(p)
    [] op = "run_mock_final_qa" -> CanRunFinalQA(p)
    [] op = "approve_final" -> CanApproveFinal(p, a)
    [] op = "create_export" -> \A type \in ExportTypes : CanCreateExport(p, type, FALSE)
    [] op = "create_draft_iteration" -> CanCreateDraftIteration(a)
    [] op = "synthesize_reviews" ->
         Live(p) # {} /\ CanSynthesizeReviews(p, Active(p), a, Pending(p))
    [] op = "batch_accept_review_issues" -> CanBatchAccept(p, Ordinary(p), a)
    [] op = "stop_draft_loop" -> Live(p) # {} /\ CanStopDraftLoop(p, Active(p), a)

\* A control that moves the project on: enabled, taken, and one of those that the
\* project still needs before it is exported.
Needed(p) ==
  {"add_source", "lock_source_pack", "classify_and_confirm", "select_playbook",
   "draft_deal_memo", "approve_deal_memo", "draft_drafting_plan",
   "approve_drafting_plan", "create_v0", "run_mock_reviews", "approve_final",
   "create_export"}
    \union When(MissingAnswers(p) # {}, "answer_intake")
    \union When(Pending(p) # {}, "decide_issue")
    \union When(p.status = "issues_open" /\ Pending(p) = {}, "create_revision")
LeadsOn(page, p, a) ==
  \E op \in Controls(page, p, a) \intersect Needed(p) : Takes(op, p, a)

-----------------------------------------------------------------------------
(* Properties, of the projects that Workflow can reach *)

\* The stages from one on, and those before it.
From(stage) == {s \in Status : AtLeast(s, stage)}
Before(stage) == Status \ From(stage)

\* Where the pages read less than the core does: the stages at which a control is
\* enabled and the core refuses what it sends, as its stage has passed or has not
\* come yet.
RefusedStages(page, op) ==
  CASE page = "contract-type" /\ op = "classify_and_confirm" -> From("type_confirmed")
    [] page = "intake" /\ op = "answer_intake" -> From("deal_memo_approved")
    [] page = "deal-memo" /\ op = "draft_deal_memo" -> Status \ {"intake_in_progress"}
    [] page = "drafting-plan" /\ op = "draft_drafting_plan" ->
         Status \ {"deal_memo_approved"}
    [] page = "draft-loop" /\ op = "create_v0" -> Before("drafting_plan_approved")
    [] page \in {"issues", "draft-loop"} /\ op = "run_mock_reviews" ->
         Before("draft_v0_created") \union From("revised")
    [] page = "draft-loop" /\ op = "create_revision" -> Before("issues_open")
    [] page = "qa" /\ op = "run_mock_final_qa" -> Status \ {"issues_open", "revised"}
    [] page = "qa" /\ op = "approve_final" -> Status \ {"revised"}
    [] OTHER -> {}
Refused(page, op, p) ==
  \/ p.status \in RefusedStages(page, op)
  \/ page = "deal-memo" /\ op = "approve_deal_memo" /\ MissingAnswers(p) # {}

\* A control that a page enables for a lawyer is taken by the core, except where
\* Refused says that the page offers too much, and there it is refused: what a page
\* reads off the records comes to what the core reads off the status.
EnabledControlsWork ==
  \A a \in Lawyers, page \in PageNames :
    \A op \in Controls(page, proj, a) :
      Takes(op, proj, a) <=> ~Refused(page, op, proj)

\* Whatever the core would take of what a project still needs, some page offers to
\* a lawyer: no project has to be moved on behind the pages' back.
EveryStepIsOffered ==
  \A a \in Lawyers : \A op \in Needed(proj) :
    Takes(op, proj, a) => \E page \in PageNames : op \in Controls(page, proj, a)

\* Nothing is pending and nothing was accepted: the revision then has no input.
Declined(p) == p.versions # << >> /\ Pending(p) = {} /\ Accepted(p) = {}

\* The overview sends a lawyer to a page where the project can be moved on.  It may
\* fail to when every finding was declined (the QA page then offers no revision) or
\* there was none (the overview goes on asking for reviews); another page leads on.
SuggestionLeadsOn ==
  \A a \in Lawyers :
    proj.exports = << >> =>
      \/ LeadsOn(NextSuggestion(proj), proj, a)
      \/ Declined(proj) /\ \E page \in PageNames : LeadsOn(page, proj, a)
=============================================================================
