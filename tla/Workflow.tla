------------------------------ MODULE Workflow ------------------------------
(***************************************************************************)
(* One project driven by one request at a time: every operation of         *)
(* packages/web/lib/operations.ts, as dispatch of server-store.ts applies  *)
(* it to the stored ProjectState when no two requests overlap and the      *)
(* server does not stop between the writes of a request (ServerStore       *)
(* models what happens when they do).                                      *)
(*                                                                         *)
(* proj is the stored ProjectState.  audit counts the rows of the project's *)
(* audit log by event; the log is a separate append-only store.  A request *)
(* that is refused, or whose agent fails, changes neither, so it is a      *)
(* stuttering step.                                                        *)
(***************************************************************************)
EXTENDS ProjectSoundness

CONSTANTS MaxHistory,     \* bound: decisions a behaviour makes
          MaxReviewRuns,  \* bound: review rounds
          MaxQaRuns,      \* bound: final QA passes
          MaxExports,     \* bound: exported files
          MaxIterations,  \* bound: drafting-loop iterations
          MaxSyntheses,   \* bound: synthesizer runs
          MaxBatches      \* bound: batch accepts, those that accept nothing included

ASSUME BoundsAssumption ==
  /\ MaxHistory \in Nat /\ MaxReviewRuns \in Nat /\ MaxQaRuns \in Nat
  /\ MaxExports \in Nat /\ MaxIterations \in Nat /\ MaxSyntheses \in Nat
  /\ MaxBatches \in Nat

VARIABLES proj, audit
vars == <<proj, audit>>

Init ==
  /\ proj = EmptyProject
  /\ audit = [e \in AuditEvents |-> IF e = "project_created" THEN 1 ELSE 0]

Step(next, events) ==
  /\ proj' = next
  /\ audit' = events

Unraised == Cards \ Raised(proj)

\* The bound leaves room for a first decision of every card, so that it never
\* stops a pending card from being decided.
RoomToDecide(c) ==
  \/ proj.decision[c] = "pending"
  \/ Len(proj.history) + Cardinality(Unraised) + Cardinality(Pending(proj)) < MaxHistory

DoAddSource == \E d \in Docs :
  /\ CanAddSource(proj, d)
  /\ Step(AddSource(proj, d), Emit(audit, "source_uploaded"))

DoAddSourceContent == \E d \in Docs, t \in Texts :
  /\ CanAddSourceContent(proj, d)
  /\ Step(AddSourceContent(proj, d, t), audit)

DoLockSourcePack ==
  /\ CanLockSourcePack(proj)
  /\ Step(LockSourcePack(proj), Emit(audit, "source_pack_locked"))

DoClassifyAndConfirm == \E a \in Actors, t \in ContractTypes :
  /\ CanClassifyAndConfirm(proj, a)
  /\ Step(ClassifyAndConfirm(proj, t), Emit(audit, "contract_type_confirmed"))

DoSelectPlaybook == \E b \in Playbooks :
  /\ CanSelectPlaybook(proj, b)
  /\ Step(SelectPlaybook(proj, b), Emit(audit, "playbook_confirmed"))

DoAnswerIntake == \E q \in Questions, v \in Answers :
  /\ CanAnswerIntake(proj, q)
  /\ Step(AnswerIntake(proj, q, v), audit)

DoDraftDealMemo ==
  /\ CanDraftDealMemo(proj)
  /\ Step(DraftDealMemo(proj), audit)

DoApproveDealMemo == \E a \in Actors :
  /\ CanApproveDealMemo(proj, a)
  /\ Step(ApproveDealMemo(proj, a), Emit(audit, "deal_memo_approved"))

DoDraftDraftingPlan ==
  /\ CanDraftDraftingPlan(proj)
  /\ Step(DraftDraftingPlan(proj), audit)

DoApproveDraftingPlan == \E a \in Actors :
  /\ CanApproveDraftingPlan(proj, a)
  /\ Step(ApproveDraftingPlan(proj, a), Emit(audit, "drafting_plan_approved"))

DoCreateV0 == \E id \in VersionIds \ UsedIds(proj) :
  /\ CanCreateV0(proj)
  /\ Step(CreateV0(proj, id), Emit(audit, "draft_created"))

DoRunReviews == \E new \in SUBSET Unraised :
  /\ proj.runs["counterparty_reviewer"] < MaxReviewRuns
  /\ CanRunReviews(proj)
  /\ Step(RunReviews(proj, new), audit)

DoDecideIssue == \E a \in Actors, c \in Cards, d \in Outcomes, noted \in BOOLEAN :
  /\ RoomToDecide(c)
  /\ CanDecideIssue(proj, c, d, a, noted)
  /\ Step(DecideIssue(proj, c, d, a), Emit(audit, "issue_card_decided"))

\* Mutant: the row of createRevisionVersion is not replaced by the enhanced one.
DoCreateRevisionTwoRows == \E id \in VersionIds \ UsedIds(proj) :
  /\ CanCreateRevision(proj)
  /\ Step(CreateRevision(proj, id), [audit EXCEPT !["revision_generated"] = @ + 2])

DoCreateRevision == \E id \in VersionIds \ UsedIds(proj) :
  /\ CanCreateRevision(proj)
  /\ Step(CreateRevision(proj, id), Emit(audit, "revision_generated"))

DoRunFinalQA == \E found, suggested \in SUBSET Unraised :
  /\ proj.qaRuns < MaxQaRuns
  /\ found \intersect suggested = {}
  /\ CanRunFinalQA(proj)
  /\ Step(RunFinalQA(proj, found, suggested), Emit(audit, "deterministic_qa_run"))

DoApproveFinal == \E a \in Actors :
  /\ CanApproveFinal(proj, a)
  /\ Step(ApproveFinal(proj, a), Emit(audit, "final_approved"))

DoCreateExport == \E type \in ExportTypes, marked \in BOOLEAN :
  /\ Len(proj.exports) < MaxExports
  /\ CanCreateExport(proj, type, marked)
  /\ Step(CreateExport(proj, type, marked), Emit(audit, "exported"))

DoCreateDraftIteration == \E a \in Actors :
  /\ Len(proj.iterations) < MaxIterations
  /\ CanCreateDraftIteration(a)
  /\ Step(CreateDraftIteration(proj), Emit(audit, "draft_iteration_created"))

DoSynthesizeReviews == \E a \in Actors, covered \in SUBSET Cards :
  \E i \in 1..Len(proj.iterations) :
    /\ proj.runs["review_synthesizer"] < MaxSyntheses
    /\ CanSynthesizeReviews(proj, i, a, covered)
    /\ Step(SynthesizeReviews(proj, i), Emit(audit, "draft_iteration_synthesized"))

DoBatchAccept == \E a \in Actors, ids \in SUBSET Cards :
  \E order \in Orders(ids \intersect Pending(proj)) :
    /\ audit["review_issues_batch_accepted"] < MaxBatches
    /\ CanBatchAccept(proj, ids, a)
    /\ Step(BatchAccept(proj, order, a),
            [Emit(audit, "review_issues_batch_accepted") EXCEPT
               !["issue_card_decided"] = @ + Cardinality(DOMAIN order)])

DoStopDraftLoop == \E a \in Actors : \E i \in 1..Len(proj.iterations) :
  /\ CanStopDraftLoop(proj, i, a)
  /\ Step(StopDraftLoop(proj, i), Emit(audit, "draft_iteration_stopped"))

Next ==
  \/ DoAddSource         \/ DoAddSourceContent  \/ DoLockSourcePack
  \/ DoClassifyAndConfirm \/ DoSelectPlaybook   \/ DoAnswerIntake
  \/ DoDraftDealMemo     \/ DoApproveDealMemo   \/ DoDraftDraftingPlan
  \/ DoApproveDraftingPlan \/ DoCreateV0        \/ DoRunReviews
  \/ DoDecideIssue       \/ DoCreateRevision    \/ DoRunFinalQA
  \/ DoApproveFinal      \/ DoCreateExport      \/ DoCreateDraftIteration
  \/ DoSynthesizeReviews \/ DoBatchAccept       \/ DoStopDraftLoop

Spec == Init /\ [][Next]_vars

\* The lawyer's worklist: answer an unanswered required question, decide a
\* pending card, make the first revision.
AnswerMissing == \E q \in MissingAnswers(proj), v \in Answers :
  /\ CanAnswerIntake(proj, q)
  /\ Step(AnswerIntake(proj, q, v), audit)

DecidePending == \E a \in Lawyers, c \in Pending(proj), d \in Outcomes :
  /\ CanDecideIssue(proj, c, d, a, TRUE)
  /\ Step(DecideIssue(proj, c, d, a), Emit(audit, "issue_card_decided"))

FirstRevision == proj.status = "issues_open" /\ DoCreateRevision

\* No server schedules people, so this is an assumption about them: whoever
\* drives the project does not leave a step of the worklist undone for ever.
Diligence ==
  /\ WF_vars(DoAddSource)           /\ WF_vars(DoLockSourcePack)
  /\ WF_vars(DoClassifyAndConfirm)  /\ WF_vars(DoSelectPlaybook)
  /\ WF_vars(AnswerMissing)         /\ WF_vars(DoDraftDealMemo)
  /\ WF_vars(DoApproveDealMemo)     /\ WF_vars(DoDraftDraftingPlan)
  /\ WF_vars(DoApproveDraftingPlan) /\ WF_vars(DoCreateV0)
  /\ WF_vars(DoRunReviews)          /\ WF_vars(DecidePending)
  /\ WF_vars(FirstRevision)         /\ WF_vars(DoApproveFinal)
  /\ WF_vars(DoCreateExport)

DiligentSpec == Spec /\ Diligence

-----------------------------------------------------------------------------
(* Invariants *)

\* Every field of the stored project has the shape its schema gives it; an
\* approver or a decision's actor is a human lawyer.
TypeOK ==
  /\ proj \in ProjectState
  /\ audit \in [AuditEvents -> Nat]

\* The status never disagrees with the records (Agrees): the "missing despite
\* status" throws of aggregate.ts cannot fire, and no project rests in a stage
\* its operations only pass through.  It says nothing of pending cards: the comment
\* on aggRunMockFinalQA has a pass that leaves some put the project at issues_open,
\* the code leaves a revised project revised.
StatusAgrees == Agrees(proj)

\* A draft exists only on top of the whole chain of human approvals: a locked
\* Source Pack, a lawyer's approval of the memo and of the plan, and an answer
\* to every required question of the playbook the plan was drafted for.
ApprovalChain ==
  /\ proj.memo.state = "approved" =>
       proj.memo.approvedBy \in Lawyers /\ MissingAnswers(proj) = {}
  /\ proj.plan.state = "approved" =>
       proj.plan.approvedBy \in Lawyers /\ proj.memo.state = "approved"
  /\ proj.plan.state # "none" =>
       proj.plan.custom = (proj.playbook \in CustomPlaybooks)
  /\ proj.versions # << >> => proj.locked /\ proj.plan.state = "approved"

\* Final approval settles the project (Settled), whatever later decisions,
\* reviews and revisions do.
FinalIsSettled == Settled(proj)

\* decision_history explains the decision every card has, and each entry starts
\* where the one before it for the same card ended (Explained).
HistoryExplainsDecisions == Explained(proj)

\* A card's applied_version is the latest revision that carries its text, and
\* nothing is carried that no lawyer ever accepted (AppliedTracks).
AppliedTracksRevisions == AppliedTracks(proj)

\* The number of rows of what happens once.
Once(condition) == IF condition THEN 1 ELSE 0

\* The audit log tells the same story as the project: one row per document,
\* decision, revision, QA run, export and iteration, and one for the lock, the
\* contract type, the playbook and each approval, none missing and none twice.
AuditMatchesState ==
  /\ audit["issue_card_decided"] = Len(proj.history)
  /\ audit["draft_created"] + audit["revision_generated"] = Len(proj.versions)
  /\ audit["deterministic_qa_run"] = proj.qaRuns
  /\ audit["final_approved"] = Cardinality(Finals(proj))
  /\ audit["exported"] = Len(proj.exports)
  /\ audit["source_uploaded"] = Cardinality(proj.docs)
  /\ audit["draft_iteration_created"] = Len(proj.iterations)
  /\ audit["draft_iteration_synthesized"] = proj.runs["review_synthesizer"]
  /\ audit["source_pack_locked"] = Once(proj.locked)
  /\ audit["contract_type_confirmed"] = Once(proj.ctype # None)
  /\ audit["playbook_confirmed"] = Once(proj.playbook # None)
  /\ audit["deal_memo_approved"] = Once(proj.memo.state = "approved")
  /\ audit["drafting_plan_approved"] = Once(proj.plan.state = "approved")

\* Every exported file is of the final version, although revisions may be made
\* after final approval, and a clean file holds no internal commentary.
ExportsComeFromFinal ==
  \A k \in 1..Len(proj.exports) :
    /\ \E i \in Finals(proj) : proj.versions[i].id = proj.exports[k].version
    /\ proj.exports[k].type = "clean_docx" => ~proj.exports[k].marked

\* Iterations are numbered 1, 2, ... without reuse, and each starts from a
\* version of the project, or from none before the first draft.
LoopIsNumbered ==
  \A i \in 1..Len(proj.iterations) :
    LET it == proj.iterations[i] IN
    /\ it.number = i
    /\ it.base \in UsedIds(proj) \union {None}
    /\ \A j \in 1..i : it.base = None => proj.iterations[j].base = None

-----------------------------------------------------------------------------
(* The abstract specification, and liveness *)

Promise == INSTANCE ReviewPromise WITH
  Verdicts   <- Outcomes,
  Favourable <- {"accepted", "partially_accepted"},
  verdict    <- proj.decision,
  phase <- CASE proj.status = "exported" -> "delivered"
             [] proj.status = "final_approved" -> "approved"
             [] proj.status \in {"issues_open", "revised"} -> "reviewing"
             [] OTHER -> "preparing",
  text  <- CASE proj.versions = << >> -> {}
             [] Finals(proj) # {} -> proj.versions[FirstFinal(proj)].applied
             [] OTHER -> Latest(proj).applied

\* The operations keep the promise of ReviewPromise: no approval over a pending
\* finding, no finding raised after it, and no change of the approved text,
\* although decisions and revisions go on being accepted afterwards.
ReviewPromiseKept == Promise!Spec

\* No project is ever at a dead end: whatever detours were taken (edits of the
\* intake, QA passes, decisions changed, loops stopped), a diligent lawyer can
\* still bring it to an export.
EveryProjectCanBeDelivered == <>(proj.status = "exported")

-----------------------------------------------------------------------------
(* What the documentation says, and the code does not do *)

\* docs/06 section 6, asserted by scripts/run-fixture.ts of every rejected card:
\* when the revision agent has run on a rejected card, and left it out of the
\* revision, the card has no applied_version.
RejectedHasNoAppliedVersion ==
  \A c \in Cards :
    /\ proj.decision[c] = "rejected"
    /\ Len(proj.versions) > 1 /\ c \notin Latest(proj).applied
    => proj.applied[c] = None

-----------------------------------------------------------------------------
(* Action properties *)

\* Decision history and exports only grow, and a version, once made, changes in
\* one way only: it becomes final, once, without a change of what it applies.
RecordsOnlyGrow ==
  [][/\ Extends(proj'.history, proj.history)
     /\ Extends(proj'.exports, proj.exports)
     /\ Len(proj'.versions) >= Len(proj.versions)
     /\ \A i \in 1..Len(proj.versions) :
          \/ proj'.versions[i] = proj.versions[i]
          \/ /\ proj'.versions[i].id = proj.versions[i].id
             /\ proj'.versions[i].applied = proj.versions[i].applied
             /\ ~proj.versions[i].final /\ proj'.versions[i].final]_vars

\* What an approval was given on does not change after it: the documents of a
\* locked pack, the answers and memo behind an approved memo, the approved
\* plan, and the contract type and playbook they rest on.
ApprovedInputsFrozen ==
  [][/\ proj.locked => proj'.locked /\ proj'.docs = proj.docs
     /\ proj.ctype # None => proj'.ctype = proj.ctype
     /\ proj.playbook # None => /\ proj'.playbook = proj.playbook
                                /\ proj'.questions = proj.questions
     /\ proj.memo.state = "approved" => /\ proj'.memo = proj.memo
                                        /\ proj'.answers = proj.answers
     /\ proj.plan.state = "approved" => proj'.plan = proj.plan]_vars

\* A batch accept is a convenience over single decisions: it settles pending
\* cards only, never a critical one, and leaves earlier decisions alone.
BatchAcceptsOnlyOrdinaryPending ==
  [][audit'["review_issues_batch_accepted"] # audit["review_issues_batch_accepted"] =>
       \A c \in Cards :
         proj'.decision[c] # proj.decision[c] =>
           /\ proj.decision[c] = "pending"
           /\ proj'.decision[c] = "accepted"
           /\ c \notin CriticalCards]_vars
=============================================================================
