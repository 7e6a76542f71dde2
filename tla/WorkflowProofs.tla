--------------------------- MODULE WorkflowProofs ---------------------------
(***************************************************************************)
(* What holds of Workflow for any actors, documents, playbooks, cards and  *)
(* bounds.                                                                 *)
(*                                                                         *)
(* Types, stages and final approval are proved together, from Good of      *)
(* ProjectProofs.  For the rest the operations fall in two parts: those of *)
(* the preparation of a project, up to the approved plan, leave the        *)
(* records of its review alone; those of its review leave the approved     *)
(* inputs alone.  Under the refinement mapping of Workflow!Promise each of *)
(* them is a step of ReviewPromise or leaves its state alone.  The         *)
(* approvals a draft rests on, the exports and the drafting loop follow    *)
(* from Good and from what is known of one step; the decision history and  *)
(* the versions that carry a card from Sound of ProjectProofs; then the    *)
(* audit log, which tells the same story as the project.                   *)
(***************************************************************************)
EXTENDS Workflow, ProjectProofs

IInv == Good(proj) /\ audit \in [AuditEvents -> Nat]

-----------------------------------------------------------------------------
(* Types, stages and final approval *)

LEMMA EmitType ==
  ASSUME NEW log \in [AuditEvents -> Nat], NEW e \in AuditEvents
  PROVE  Emit(log, e) \in [AuditEvents -> Nat]
BY DEF Emit

LEMMA AddRows ==
  ASSUME NEW log \in [AuditEvents -> Nat], NEW e \in AuditEvents, NEW n \in Nat
  PROVE  [log EXCEPT ![e] = log[e] + n] \in [AuditEvents -> Nat]
OBVIOUS

\* Every initial project is good.
LEMMA InitIInv == Init => IInv
<1>1. Good(EmptyProject) BY EmptyProjectSound DEF Sound
<1> QED BY <1>1 DEF Init, IInv

\* Every operation takes a good project to a good project.
LEMMA NextGood ==
  ASSUME Good(proj), Next
  PROVE  Good(proj')
<1>1. CASE DoAddSource BY <1>1, AddSourceGood DEF DoAddSource, Step
<1>2. CASE DoAddSourceContent BY <1>2, AddSourceContentGood DEF DoAddSourceContent, Step
<1>3. CASE DoLockSourcePack BY <1>3, LockSourcePackGood DEF DoLockSourcePack, Step
<1>4. CASE DoClassifyAndConfirm
  BY <1>4, ClassifyAndConfirmGood DEF DoClassifyAndConfirm, Step
<1>5. CASE DoSelectPlaybook BY <1>5, SelectPlaybookGood DEF DoSelectPlaybook, Step
<1>6. CASE DoAnswerIntake BY <1>6, AnswerIntakeGood DEF DoAnswerIntake, Step
<1>7. CASE DoDraftDealMemo BY <1>7, DraftDealMemoGood DEF DoDraftDealMemo, Step
<1>8. CASE DoApproveDealMemo
  BY <1>8, ApproveDealMemoGood DEF DoApproveDealMemo, Step, CanApproveDealMemo
<1>9. CASE DoDraftDraftingPlan
  BY <1>9, DraftDraftingPlanGood DEF DoDraftDraftingPlan, Step
<1>10. CASE DoApproveDraftingPlan
  BY <1>10, ApproveDraftingPlanGood DEF DoApproveDraftingPlan, Step, CanApproveDraftingPlan
<1>11. CASE DoCreateV0 BY <1>11, CreateV0Good DEF DoCreateV0, Step
<1>12. CASE DoRunReviews BY <1>12, RunReviewsGood DEF DoRunReviews, Step
<1>13. CASE DoDecideIssue
  BY <1>13, DecideIssueGood DEF DoDecideIssue, Step, CanDecideIssue
<1>14. CASE DoCreateRevision BY <1>14, CreateRevisionGood DEF DoCreateRevision, Step
<1>15. CASE DoRunFinalQA BY <1>15, RunFinalQAGood DEF DoRunFinalQA, Step
<1>16. CASE DoApproveFinal
  BY <1>16, ApproveFinalGood DEF DoApproveFinal, Step, CanApproveFinal
<1>17. CASE DoCreateExport BY <1>17, CreateExportGood DEF DoCreateExport, Step
<1>18. CASE DoCreateDraftIteration
  BY <1>18, CreateDraftIterationGood DEF DoCreateDraftIteration, Step
<1>19. CASE DoSynthesizeReviews
  BY <1>19, SynthesizeReviewsGood DEF DoSynthesizeReviews, Step
<1>20. CASE DoBatchAccept
  <2>1. PICK a \in Actors, ids \in SUBSET Cards :
          \E order \in Orders(ids \intersect Pending(proj)) :
            CanBatchAccept(proj, ids, a) /\ proj' = BatchAccept(proj, order, a)
    BY <1>20 DEF DoBatchAccept, Step
  <2>2. a \in Lawyers /\ ids \intersect Pending(proj) \in SUBSET Cards
    BY <2>1 DEF CanBatchAccept
  <2> QED BY <2>1, <2>2, BatchAcceptGood
<1>21. CASE DoStopDraftLoop BY <1>21, StopDraftLoopGood DEF DoStopDraftLoop, Step
<1> QED BY <1>1, <1>2, <1>3, <1>4, <1>5, <1>6, <1>7, <1>8, <1>9, <1>10, <1>11,
           <1>12, <1>13, <1>14, <1>15, <1>16, <1>17, <1>18, <1>19, <1>20, <1>21
        DEF Next

\* Every operation leaves the counts of the audit log natural numbers.
LEMMA NextAudit ==
  ASSUME audit \in [AuditEvents -> Nat], Next
  PROVE  audit' \in [AuditEvents -> Nat]
<1>1. ASSUME NEW e \in AuditEvents, audit' = Emit(audit, e)
      PROVE  audit' \in [AuditEvents -> Nat]
  BY <1>1, EmitType
<1>2. CASE DoBatchAccept
  <2>1. PICK a \in Actors, ids \in SUBSET Cards :
          \E order \in Orders(ids \intersect Pending(proj)) :
            audit' = [Emit(audit, "review_issues_batch_accepted") EXCEPT
                        !["issue_card_decided"] = @ + Cardinality(DOMAIN order)]
    BY <1>2 DEF DoBatchAccept, Step
  <2>2. PICK order \in Orders(ids \intersect Pending(proj)) :
          audit' = [Emit(audit, "review_issues_batch_accepted") EXCEPT
                      !["issue_card_decided"] = @ + Cardinality(DOMAIN order)]
    BY <2>1
  <2>3. Cardinality(DOMAIN order) \in Nat
    <3>1. DOMAIN order = 1..Cardinality(ids \intersect Pending(proj))
          /\ Cardinality(ids \intersect Pending(proj)) \in Nat
      BY OrderType
    <3> QED BY <3>1, FS_Interval
  <2>4. Emit(audit, "review_issues_batch_accepted") \in [AuditEvents -> Nat]
    BY EmitType DEF AuditEvents
  <2> DEFINE log == Emit(audit, "review_issues_batch_accepted")
             n == Cardinality(DOMAIN order)
  <2>5. audit' = [log EXCEPT !["issue_card_decided"] = log["issue_card_decided"] + n]
    BY <2>2
  <2> HIDE DEF log, n
  <2>6. log \in [AuditEvents -> Nat] /\ n \in Nat BY <2>3, <2>4 DEF log, n
  <2>7. "issue_card_decided" \in AuditEvents BY DEF AuditEvents
  <2> QED BY <2>5, <2>6, <2>7, AddRows
<1>3. CASE audit' = audit BY <1>3
<1>4. CASE \/ DoAddSource \/ DoLockSourcePack \/ DoClassifyAndConfirm
           \/ DoSelectPlaybook \/ DoApproveDealMemo \/ DoApproveDraftingPlan
           \/ DoCreateV0
  <2>1. \E e \in AuditEvents : audit' = Emit(audit, e)
    BY <1>4 DEF DoAddSource, DoLockSourcePack, DoClassifyAndConfirm, DoSelectPlaybook,
                DoApproveDealMemo, DoApproveDraftingPlan, DoCreateV0, Step, AuditEvents
  <2> QED BY <2>1, <1>1
<1>5. CASE \/ DoDecideIssue \/ DoCreateRevision \/ DoRunFinalQA \/ DoApproveFinal
           \/ DoCreateExport \/ DoCreateDraftIteration \/ DoSynthesizeReviews
           \/ DoStopDraftLoop
  <2>1. \E e \in AuditEvents : audit' = Emit(audit, e)
    BY <1>5 DEF DoDecideIssue, DoCreateRevision, DoRunFinalQA, DoApproveFinal,
                DoCreateExport, DoCreateDraftIteration, DoSynthesizeReviews,
                DoStopDraftLoop, Step, AuditEvents
  <2> QED BY <2>1, <1>1
<1>6. CASE \/ DoAddSourceContent \/ DoAnswerIntake \/ DoDraftDealMemo
           \/ DoDraftDraftingPlan \/ DoRunReviews
  BY <1>3, <1>6 DEF DoAddSourceContent, DoAnswerIntake, DoDraftDealMemo,
                    DoDraftDraftingPlan, DoRunReviews, Step
<1> QED BY <1>2, <1>4, <1>5, <1>6 DEF Next

LEMMA NextIInv == IInv /\ [Next]_vars => IInv'
<1> SUFFICES ASSUME IInv, [Next]_vars PROVE IInv' OBVIOUS
<1>1. CASE Next BY <1>1, NextGood, NextAudit DEF IInv
<1>2. CASE UNCHANGED vars BY <1>2 DEF vars, IInv, Good, Agrees, Settled, Numbered
<1> QED BY <1>1, <1>2

LEMMA IInvHolds == Spec => []IInv
BY InitIInv, NextIInv, PTL DEF Spec

\* Every reachable project and audit log has its type: approvers and deciders
\* are lawyers, numbers are numbers, and every card has a decision.
THEOREM TypeCorrect == Spec => []TypeOK
<1>1. IInv => TypeOK BY DEF IInv, Good, TypeOK
<1> QED BY <1>1, IInvHolds, PTL

\* The stage of a project and its entities never disagree.
THEOREM StagesAgree == Spec => []StatusAgrees
<1>1. IInv => StatusAgrees BY DEF IInv, Good, StatusAgrees
<1> QED BY <1>1, IInvHolds, PTL

\* Final approval is given once, by a lawyer, to a revision, with no card
\* pending, and nothing undoes any of it.
THEOREM FinalApprovalSettles == Spec => []FinalIsSettled
<1>1. IInv => FinalIsSettled BY DEF IInv, Good, FinalIsSettled
<1> QED BY <1>1, IInvHolds, PTL

-----------------------------------------------------------------------------
(* The two parts of the workflow *)

SameInputs(p, q) ==
  /\ q.locked = p.locked /\ q.docs = p.docs /\ q.ctype = p.ctype
  /\ q.playbook = p.playbook /\ q.questions = p.questions
  /\ q.answers = p.answers /\ q.memo = p.memo /\ q.plan = p.plan
SameRecords(p, q) ==
  /\ q.history = p.history /\ q.exports = p.exports /\ q.versions = p.versions
  /\ q.iterations = p.iterations

Preparation ==
  \/ DoAddSource          \/ DoAddSourceContent \/ DoLockSourcePack
  \/ DoClassifyAndConfirm \/ DoSelectPlaybook   \/ DoAnswerIntake
  \/ DoDraftDealMemo      \/ DoApproveDealMemo  \/ DoDraftDraftingPlan
  \/ DoApproveDraftingPlan
Review ==
  \/ DoCreateV0        \/ DoRunReviews           \/ DoDecideIssue
  \/ DoCreateRevision  \/ DoRunFinalQA           \/ DoApproveFinal
  \/ DoCreateExport    \/ DoCreateDraftIteration \/ DoSynthesizeReviews
  \/ DoBatchAccept     \/ DoStopDraftLoop

LEMMA TwoParts == Next => Preparation \/ Review
BY DEF Next, Preparation, Review

-----------------------------------------------------------------------------
(* Approved inputs *)

LEMMA ReviewKeepsInputs ==
  ASSUME Good(proj), Review
  PROVE  SameInputs(proj, proj')
<1> USE DEF SameInputs, Step
<1>0. proj \in ProjectState BY DEF Good
<1>1. CASE DoCreateV0 BY <1>0, <1>1 DEF DoCreateV0, CreateV0, ProjectState
<1>2. CASE DoRunReviews BY <1>0, <1>2 DEF DoRunReviews, RunReviews, ProjectState
<1>3. CASE DoDecideIssue BY <1>0, <1>3 DEF DoDecideIssue, DecideIssue, ProjectState
<1>4. CASE DoCreateRevision
  BY <1>0, <1>4 DEF DoCreateRevision, CreateRevision, ProjectState
<1>5. CASE DoRunFinalQA
  BY <1>0, <1>5 DEF DoRunFinalQA, RunFinalQA, RunDeterministicQA, ProjectState
<1>6. CASE DoApproveFinal BY <1>0, <1>6 DEF DoApproveFinal, ApproveFinal, ProjectState
<1>7. CASE DoCreateExport BY <1>0, <1>7 DEF DoCreateExport, CreateExport, ProjectState
<1>8. CASE DoCreateDraftIteration
  BY <1>0, <1>8 DEF DoCreateDraftIteration, CreateDraftIteration, ProjectState
<1>9. CASE DoSynthesizeReviews
  BY <1>0, <1>9 DEF DoSynthesizeReviews, SynthesizeReviews, ProjectState
<1>10. CASE DoBatchAccept BY <1>0, <1>10 DEF DoBatchAccept, BatchAccept, ProjectState
<1>11. CASE DoStopDraftLoop
  BY <1>0, <1>11 DEF DoStopDraftLoop, StopDraftLoop, ProjectState
<1> QED BY <1>1, <1>2, <1>3, <1>4, <1>5, <1>6, <1>7, <1>8, <1>9, <1>10, <1>11 DEF Review

\* What ApprovedInputsFrozen says of one step.
InputsFrozen ==
  /\ proj.locked => proj'.locked /\ proj'.docs = proj.docs
  /\ proj.ctype # None => proj'.ctype = proj.ctype
  /\ proj.playbook # None => /\ proj'.playbook = proj.playbook
                             /\ proj'.questions = proj.questions
  /\ proj.memo.state = "approved" => /\ proj'.memo = proj.memo
                                     /\ proj'.answers = proj.answers
  /\ proj.plan.state = "approved" => proj'.plan = proj.plan

\* Every preparing operation is refused outside its stage, and by Agrees what it
\* assigns is not approved at that stage.
LEMMA PreparationFreezes ==
  ASSUME Good(proj), Preparation
  PROVE  InputsFrozen
<1> USE DEF InputsFrozen, Step
<1>0. proj \in ProjectState /\ Agrees(proj) BY DEF Good
<1>1. CASE DoAddSource
  BY <1>0, <1>1 DEF DoAddSource, AddSource, CanAddSource, ProjectState
<1>2. CASE DoAddSourceContent
  BY <1>0, <1>2 DEF DoAddSourceContent, AddSourceContent, ProjectState
<1>3. CASE DoLockSourcePack
  BY <1>0, <1>3 DEF DoLockSourcePack, LockSourcePack, ProjectState
<1>4. CASE DoClassifyAndConfirm
  BY <1>0, <1>4, RankOf DEF DoClassifyAndConfirm, ClassifyAndConfirm, CanClassifyAndConfirm,
                            ProjectState, Agrees, AtLeast
<1>5. CASE DoSelectPlaybook
  BY <1>0, <1>5, RankOf DEF DoSelectPlaybook, SelectPlaybook, CanSelectPlaybook,
                            ProjectState, Agrees, AtLeast
<1>6. CASE DoAnswerIntake
  <2>1. proj.status \in {"intake_in_progress", "deal_memo_drafted"}
    BY <1>6 DEF DoAnswerIntake, CanAnswerIntake
  <2>2. proj.memo.state # "approved" BY <1>0, <2>1, RankOf DEF Agrees, AtLeast
  <2>3. /\ proj'.locked = proj.locked /\ proj'.docs = proj.docs
        /\ proj'.ctype = proj.ctype /\ proj'.playbook = proj.playbook
        /\ proj'.questions = proj.questions /\ proj'.plan = proj.plan
    BY <1>0, <1>6 DEF DoAnswerIntake, AnswerIntake, ProjectState
  <2> QED BY <2>2, <2>3
<1>7. CASE DoDraftDealMemo
  BY <1>0, <1>7, RankOf DEF DoDraftDealMemo, DraftDealMemo, CanDraftDealMemo,
                            ProjectState, Agrees, AtLeast
<1>8. CASE DoApproveDealMemo
  BY <1>0, <1>8, RankOf DEF DoApproveDealMemo, ApproveDealMemo, CanApproveDealMemo,
                            ProjectState, Agrees, AtLeast
<1>9. CASE DoDraftDraftingPlan
  BY <1>0, <1>9, RankOf DEF DoDraftDraftingPlan, DraftDraftingPlan, CanDraftDraftingPlan,
                            ProjectState, Agrees, AtLeast
<1>10. CASE DoApproveDraftingPlan
  BY <1>0, <1>10, RankOf DEF DoApproveDraftingPlan, ApproveDraftingPlan,
                             CanApproveDraftingPlan, ProjectState, Agrees, AtLeast
<1> QED BY <1>1, <1>2, <1>3, <1>4, <1>5, <1>6, <1>7, <1>8, <1>9, <1>10 DEF Preparation

\* What an approval was given on does not change after it: the pack, the contract
\* type and playbook, the memo with its answers, and the plan.
THEOREM InputsStayApproved == Spec => ApprovedInputsFrozen
<1>1. IInv /\ [Next]_vars => [InputsFrozen]_vars
  <2> SUFFICES ASSUME IInv, Next PROVE InputsFrozen OBVIOUS
  <2>1. Good(proj) BY DEF IInv
  <2>2. CASE Preparation BY <2>1, <2>2, PreparationFreezes
  <2>3. CASE Review
    <3>1. SameInputs(proj, proj') BY <2>1, <2>3, ReviewKeepsInputs
    <3> QED BY <3>1 DEF SameInputs, InputsFrozen
  <2> QED BY <2>2, <2>3, TwoParts
<1>2. Spec => [][InputsFrozen]_vars BY <1>1, IInvHolds, PTL DEF Spec
<1> QED BY <1>2 DEF ApprovedInputsFrozen, InputsFrozen

-----------------------------------------------------------------------------
(* Records *)

LEMMA PreparationKeepsRecords ==
  ASSUME Good(proj), Preparation
  PROVE  SameRecords(proj, proj')
<1> USE DEF SameRecords, Step
<1>0. proj \in ProjectState BY DEF Good
<1>1. CASE DoAddSource BY <1>0, <1>1 DEF DoAddSource, AddSource, ProjectState
<1>2. CASE DoAddSourceContent
  BY <1>0, <1>2 DEF DoAddSourceContent, AddSourceContent, ProjectState
<1>3. CASE DoLockSourcePack
  BY <1>0, <1>3 DEF DoLockSourcePack, LockSourcePack, ProjectState
<1>4. CASE DoClassifyAndConfirm
  BY <1>0, <1>4 DEF DoClassifyAndConfirm, ClassifyAndConfirm, ProjectState
<1>5. CASE DoSelectPlaybook
  BY <1>0, <1>5 DEF DoSelectPlaybook, SelectPlaybook, ProjectState
<1>6. CASE DoAnswerIntake BY <1>0, <1>6 DEF DoAnswerIntake, AnswerIntake, ProjectState
<1>7. CASE DoDraftDealMemo
  BY <1>0, <1>7 DEF DoDraftDealMemo, DraftDealMemo, ProjectState
<1>8. CASE DoApproveDealMemo
  BY <1>0, <1>8 DEF DoApproveDealMemo, ApproveDealMemo, ProjectState
<1>9. CASE DoDraftDraftingPlan
  BY <1>0, <1>9 DEF DoDraftDraftingPlan, DraftDraftingPlan, ProjectState
<1>10. CASE DoApproveDraftingPlan
  BY <1>0, <1>10 DEF DoApproveDraftingPlan, ApproveDraftingPlan, ProjectState
<1> QED BY <1>1, <1>2, <1>3, <1>4, <1>5, <1>6, <1>7, <1>8, <1>9, <1>10 DEF Preparation

\* What RecordsOnlyGrow says of one step.
VersionsStay ==
  /\ Len(proj'.versions) >= Len(proj.versions)
  /\ \A i \in 1..Len(proj.versions) :
       \/ proj'.versions[i] = proj.versions[i]
       \/ /\ proj'.versions[i].id = proj.versions[i].id
          /\ proj'.versions[i].applied = proj.versions[i].applied
          /\ ~proj.versions[i].final /\ proj'.versions[i].final
RecordsGrow ==
  /\ Extends(proj'.history, proj.history)
  /\ Extends(proj'.exports, proj.exports)
  /\ VersionsStay

LEMMA RecordTypes ==
  ASSUME Good(proj)
  PROVE  /\ proj \in ProjectState /\ proj.history \in Seq(Entry)
         /\ proj.exports \in Seq(Export) /\ proj.versions \in Seq(Version)
         /\ Extends(proj.history, proj.history) /\ Extends(proj.exports, proj.exports)
<1>1. /\ proj \in ProjectState /\ proj.history \in Seq(Entry)
      /\ proj.exports \in Seq(Export) /\ proj.versions \in Seq(Version)
  BY DEF Good, ProjectState
<1> QED BY <1>1, SameExtends

LEMMA SameVersionsStay ==
  ASSUME Good(proj), proj'.versions = proj.versions
  PROVE  VersionsStay
<1>1. Len(proj.versions) \in Nat BY RecordTypes
<1> QED BY <1>1 DEF VersionsStay

LEMMA NewVersionStays ==
  ASSUME Good(proj), NEW v \in Version, proj'.versions = Append(proj.versions, v)
  PROVE  VersionsStay
<1>1. proj.versions \in Seq(Version) /\ Len(proj.versions) \in Nat BY RecordTypes
<1>2. /\ Len(proj'.versions) = Len(proj.versions) + 1
      /\ \A i \in 1..Len(proj.versions) : proj'.versions[i] = proj.versions[i]
  BY <1>1, AppendExtends
<1> QED BY <1>1, <1>2 DEF VersionsStay

LEMMA ReviewGrows ==
  ASSUME Good(proj), Review
  PROVE  RecordsGrow
<1> USE DEF RecordsGrow, Step
<1>0. /\ proj \in ProjectState /\ proj.history \in Seq(Entry)
      /\ proj.exports \in Seq(Export) /\ proj.versions \in Seq(Version)
      /\ Extends(proj.history, proj.history) /\ Extends(proj.exports, proj.exports)
  BY RecordTypes
<1>1. CASE DoCreateV0
  <2>1. PICK id \in VersionIds : proj' = CreateV0(proj, id) BY <1>1 DEF DoCreateV0
  <2>2. /\ proj'.history = proj.history /\ proj'.exports = proj.exports
        /\ proj'.versions = Append(proj.versions, Draft(id, {}))
    BY <1>0, <2>1 DEF CreateV0, ProjectState
  <2>3. Draft(id, {}) \in Version BY DraftType
  <2> QED BY <1>0, <2>2, <2>3, NewVersionStays
<1>2. CASE DoCreateRevision
  <2>1. PICK id \in VersionIds : proj' = CreateRevision(proj, id)
    BY <1>2 DEF DoCreateRevision
  <2>2. /\ proj'.history = proj.history /\ proj'.exports = proj.exports
        /\ proj'.versions = Append(proj.versions, Draft(id, Accepted(proj)))
    BY <1>0, <2>1 DEF CreateRevision, ProjectState
  <2>3. Draft(id, Accepted(proj)) \in Version BY DraftType DEF Accepted
  <2> QED BY <1>0, <2>2, <2>3, NewVersionStays
<1>3. CASE DoRunReviews
  <2>1. SameRecords(proj, proj')
    BY <1>0, <1>3 DEF DoRunReviews, RunReviews, ProjectState, SameRecords
  <2> QED BY <1>0, <2>1, SameVersionsStay DEF SameRecords
<1>4. CASE DoRunFinalQA
  <2>1. SameRecords(proj, proj')
    BY <1>0, <1>4 DEF DoRunFinalQA, RunFinalQA, RunDeterministicQA, ProjectState, SameRecords
  <2> QED BY <1>0, <2>1, SameVersionsStay DEF SameRecords
<1>5. CASE DoDecideIssue
  <2>1. PICK a \in Lawyers, c \in Cards, d \in Outcomes :
          proj' = DecideIssue(proj, c, d, a)
    BY <1>5 DEF DoDecideIssue, CanDecideIssue
  <2> DEFINE entry == [issue |-> c, previous |-> proj.decision[c], new |-> d, actor |-> a]
  <2>2. entry \in Entry BY <1>0 DEF Entry, ProjectState
  <2>3. /\ proj'.history = Append(proj.history, entry)
        /\ proj'.exports = proj.exports /\ proj'.versions = proj.versions
    BY <1>0, <2>1 DEF DecideIssue, ProjectState
  <2> QED BY <1>0, <2>2, <2>3, AppendExtends, SameVersionsStay
<1>6. CASE DoBatchAccept
  <2>1. PICK a \in Actors, ids \in SUBSET Cards :
          \E order \in Orders(ids \intersect Pending(proj)) :
            CanBatchAccept(proj, ids, a) /\ proj' = BatchAccept(proj, order, a)
    BY <1>6 DEF DoBatchAccept
  <2>2. PICK order \in Orders(ids \intersect Pending(proj)) :
          CanBatchAccept(proj, ids, a) /\ proj' = BatchAccept(proj, order, a)
    BY <2>1
  <2>3. a \in Lawyers BY <2>2 DEF CanBatchAccept
  <2> DEFINE entries == [i \in DOMAIN order |->
                           [issue |-> order[i], previous |-> "pending",
                            new |-> "accepted", actor |-> a]]
  <2>4. entries \in Seq(Entry) BY <2>3, EntriesType
  <2>5. /\ proj'.history = proj.history \o entries
        /\ proj'.exports = proj.exports /\ proj'.versions = proj.versions
    <3>1. proj' = [proj EXCEPT !.decision = BatchAccept(proj, order, a).decision,
                               !.history = proj.history \o entries]
      BY <1>0, <2>2 DEF BatchAccept, ProjectState
    <3> HIDE DEF entries
    <3> QED BY <1>0, <3>1 DEF ProjectState
  <2> HIDE DEF entries
  <2> QED BY <1>0, <2>4, <2>5, ConcatExtends, SameVersionsStay
<1>7. CASE DoApproveFinal
  <2>1. PICK a \in Lawyers : CanApproveFinal(proj, a) /\ proj' = ApproveFinal(proj, a)
    BY <1>7 DEF DoApproveFinal, CanApproveFinal
  <2> DEFINE n == Len(proj.versions)
             last == [proj.versions[n] EXCEPT !.final = TRUE, !.approvedBy = a]
  <2>2. n \in 1..n /\ proj.versions[n] \in Version
    BY <1>0, <2>1 DEF CanApproveFinal
  <2>3. /\ last \in Version /\ last.final
        /\ last.id = proj.versions[n].id /\ last.applied = proj.versions[n].applied
    BY <2>2 DEF Version, Approver
  <2>4. ~proj.versions[n].final
    <3>1. ~AtLeast(proj.status, "final_approved")
      BY <2>1, RankOf DEF CanApproveFinal, AtLeast
    <3>2. Finals(proj) = {} BY <1>0, <3>1, NotYetFinal DEF Good
    <3> QED BY <2>2, <3>2 DEF Finals
  <2>5. /\ proj'.history = proj.history /\ proj'.exports = proj.exports
        /\ proj'.versions = [proj.versions EXCEPT ![n] = last]
    BY <1>0, <2>1 DEF ApproveFinal, ProjectState
  <2> HIDE DEF last
  <2>6. /\ Len(proj'.versions) = n
        /\ \A i \in 1..n : proj'.versions[i] = IF i = n THEN last ELSE proj.versions[i]
    BY <1>0, <2>2, <2>3, <2>5, ExceptSeq
  <2>7. VersionsStay BY <1>0, <2>3, <2>4, <2>6 DEF VersionsStay
  <2> QED BY <1>0, <2>5, <2>7
<1>8. CASE DoCreateExport
  <2>1. PICK type \in ExportTypes, marked \in BOOLEAN :
          CanCreateExport(proj, type, marked) /\ proj' = CreateExport(proj, type, marked)
    BY <1>8 DEF DoCreateExport
  <2> DEFINE file == [version |-> proj.versions[FirstFinal(proj)].id, type |-> type,
                      marked |-> marked]
  <2>2. file \in Export
    <3>0. FirstFinal(proj) \in Finals(proj)
      <4>1. Finals(proj) # {} BY <2>1 DEF CanCreateExport, Finals
      <4>2. \A i, j \in Finals(proj) : i = j BY DEF Good, Settled
      <4> QED BY <1>0, <4>1, <4>2, FirstFinalIsFinal
    <3>1. proj.versions[FirstFinal(proj)] \in Version BY <1>0, <3>0 DEF Finals
    <3> QED BY <3>1 DEF Export, Version
  <2>3. /\ proj'.history = proj.history /\ proj'.versions = proj.versions
        /\ proj'.exports = Append(proj.exports, file)
    BY <1>0, <2>1 DEF CreateExport, ProjectState
  <2> HIDE DEF file
  <2> QED BY <1>0, <2>2, <2>3, AppendExtends, SameVersionsStay
<1>9. CASE DoCreateDraftIteration \/ DoSynthesizeReviews \/ DoStopDraftLoop
  <2>1. /\ proj'.history = proj.history /\ proj'.exports = proj.exports
        /\ proj'.versions = proj.versions
    BY <1>0, <1>9 DEF DoCreateDraftIteration, CreateDraftIteration, DoSynthesizeReviews,
         SynthesizeReviews, DoStopDraftLoop, StopDraftLoop, ProjectState
  <2> QED BY <1>0, <2>1, SameVersionsStay
<1> QED BY <1>1, <1>2, <1>3, <1>4, <1>5, <1>6, <1>7, <1>8, <1>9 DEF Review

\* Decision history and exports only grow, and a version only becomes final.
THEOREM RecordsStay == Spec => RecordsOnlyGrow
<1>1. IInv /\ [Next]_vars => [RecordsGrow]_vars
  <2> SUFFICES ASSUME IInv, Next PROVE RecordsGrow OBVIOUS
  <2>1. Good(proj) BY DEF IInv
  <2>2. CASE Preparation
    <3>1. SameRecords(proj, proj') BY <2>1, <2>2, PreparationKeepsRecords
    <3> QED BY <2>1, <3>1, RecordTypes, SameVersionsStay DEF SameRecords, RecordsGrow
  <2>3. CASE Review BY <2>1, <2>3, ReviewGrows
  <2> QED BY <2>2, <2>3, TwoParts
<1>2. IInv /\ [Next]_vars =>
        [/\ Extends(proj'.history, proj.history)
         /\ Extends(proj'.exports, proj.exports)
         /\ Len(proj'.versions) >= Len(proj.versions)
         /\ \A i \in 1..Len(proj.versions) :
              \/ proj'.versions[i] = proj.versions[i]
              \/ /\ proj'.versions[i].id = proj.versions[i].id
                 /\ proj'.versions[i].applied = proj.versions[i].applied
                 /\ ~proj.versions[i].final /\ proj'.versions[i].final]_vars
  BY <1>1 DEF RecordsGrow, VersionsStay
<1> QED BY <1>2, IInvHolds, PTL DEF Spec, RecordsOnlyGrow

-----------------------------------------------------------------------------
(* The refinement of ReviewPromise *)

\* The refinement mapping, of a project.
PhaseOf(p) == CASE p.status = "exported" -> "delivered"
                [] p.status = "final_approved" -> "approved"
                [] p.status \in {"issues_open", "revised"} -> "reviewing"
                [] OTHER -> "preparing"
TextOf(p) == CASE p.versions = << >> -> {}
               [] Finals(p) # {} -> p.versions[FirstFinal(p)].applied
               [] OTHER -> Latest(p).applied

LEMMA PhaseKept ==
  ASSUME NEW p, NEW q, q.status = p.status
  PROVE  PhaseOf(q) = PhaseOf(p)
BY DEF PhaseOf

LEMMA TextKept ==
  ASSUME NEW p, NEW q, q.versions = p.versions
  PROVE  TextOf(q) = TextOf(p)
<1>1. Finals(q) = Finals(p) BY DEF Finals
<1>2. FirstFinal(q) = FirstFinal(p) BY DEF FirstFinal
<1> QED BY <1>1, <1>2 DEF TextOf, Latest

\* The text of a project without a final version is that of its latest one.
LEMMA TextBefore ==
  ASSUME NEW p, Finals(p) = {}, p.versions # << >>
  PROVE  TextOf(p) = Latest(p).applied
BY DEF TextOf

LEMMA TextAfter ==
  ASSUME NEW p, Finals(p) # {}, p.versions # << >>
  PROVE  TextOf(p) = p.versions[FirstFinal(p)].applied
BY DEF TextOf

\* What the promise sees of a step it takes no part in.
Stutter ==
  /\ PhaseOf(proj') = PhaseOf(proj)
  /\ TextOf(proj') = TextOf(proj)
  /\ proj'.decision = proj.decision

LEMMA Drafted ==
  ASSUME NEW p, Good(p)
  PROVE  /\ p.versions # << >> => AtLeast(p.status, "draft_v0_created")
         /\ AtLeast(p.status, "draft_v0_created") => p.versions # << >>
         /\ ~AtLeast(p.status, "draft_v0_created") => PhaseOf(p) = "preparing"
<1>1. p \in ProjectState /\ Agrees(p) /\ p.versions \in Seq(Version)
  BY DEF Good, ProjectState
<1>2. Len(p.versions) > 0 <=> p.versions # << >> BY <1>1
<1>3. ~AtLeast(p.status, "draft_v0_created") => PhaseOf(p) = "preparing"
  BY <1>1, RankOf DEF AtLeast, PhaseOf
<1> QED BY <1>1, <1>2, <1>3 DEF Agrees

LEMMA PreparationStutters ==
  ASSUME Good(proj), Good(proj'), Preparation
  PROVE  Stutter
<1> USE DEF Step
<1>0. proj \in ProjectState BY DEF Good
<1>1. proj'.versions = proj.versions BY PreparationKeepsRecords DEF SameRecords
<1>2. TextOf(proj') = TextOf(proj) BY <1>1, TextKept
<1>3. proj'.decision = proj.decision
  <2>1. CASE DoAddSource \/ DoAddSourceContent \/ DoLockSourcePack \/ DoClassifyAndConfirm
    BY <1>0, <2>1 DEF DoAddSource, AddSource, DoAddSourceContent, AddSourceContent,
         DoLockSourcePack, LockSourcePack, DoClassifyAndConfirm, ClassifyAndConfirm,
         ProjectState
  <2>2. CASE DoSelectPlaybook \/ DoAnswerIntake \/ DoDraftDealMemo
    BY <1>0, <2>2 DEF DoSelectPlaybook, SelectPlaybook, DoAnswerIntake, AnswerIntake,
         DoDraftDealMemo, DraftDealMemo, ProjectState
  <2>3. CASE DoApproveDealMemo \/ DoDraftDraftingPlan \/ DoApproveDraftingPlan
    BY <1>0, <2>3 DEF DoApproveDealMemo, ApproveDealMemo, DoDraftDraftingPlan,
         DraftDraftingPlan, DoApproveDraftingPlan, ApproveDraftingPlan, ProjectState
  <2> QED BY <2>1, <2>2, <2>3 DEF Preparation
<1>4. PhaseOf(proj') = PhaseOf(proj)
  <2>1. CASE DoAddSourceContent
    <3>1. proj'.status = proj.status
      BY <1>0, <2>1 DEF DoAddSourceContent, AddSourceContent, ProjectState
    <3> QED BY <3>1, PhaseKept
  <2>2. CASE ~DoAddSourceContent
    <3>1. ~AtLeast(proj.status, "draft_v0_created")
      BY <2>2, RankOf DEF Preparation, AtLeast, DoAddSource, CanAddSource,
           DoLockSourcePack, CanLockSourcePack, DoClassifyAndConfirm,
           CanClassifyAndConfirm, DoSelectPlaybook, CanSelectPlaybook, DoAnswerIntake,
           CanAnswerIntake, DoDraftDealMemo, CanDraftDealMemo, DoApproveDealMemo,
           CanApproveDealMemo, DoDraftDraftingPlan, CanDraftDraftingPlan,
           DoApproveDraftingPlan, CanApproveDraftingPlan
    <3>2. ~AtLeast(proj'.status, "draft_v0_created") BY <1>1, <3>1, Drafted
    <3> QED BY <3>1, <3>2, Drafted
  <2> QED BY <2>1, <2>2
<1> QED BY <1>2, <1>3, <1>4 DEF Stutter

-----------------------------------------------------------------------------
(* The steps of the promise, under the mapping *)

MRaise == \E S \in SUBSET {c \in Cards : proj.decision[c] = "absent"} :
  /\ PhaseOf(proj) \in {"preparing", "reviewing"}
  /\ PhaseOf(proj') = "reviewing"
  /\ proj'.decision = [c \in Cards |-> IF c \in S THEN "pending" ELSE proj.decision[c]]
  /\ TextOf(proj') = TextOf(proj)
MDecide == \E S \in SUBSET {c \in Cards : proj.decision[c] # "absent"}, d \in Outcomes :
  /\ proj'.decision = [c \in Cards |-> IF c \in S THEN d ELSE proj.decision[c]]
  /\ PhaseOf(proj') = PhaseOf(proj)
  /\ TextOf(proj') = TextOf(proj)
MRevise ==
  /\ PhaseOf(proj) = "reviewing" /\ PhaseOf(proj') = PhaseOf(proj)
  /\ TextOf(proj') = Accepted(proj)
  /\ proj'.decision = proj.decision
MApprove ==
  /\ PhaseOf(proj) = "reviewing" /\ PhaseOf(proj') = "approved"
  /\ \A c \in Cards : proj.decision[c] # "pending"
  /\ proj'.decision = proj.decision /\ TextOf(proj') = TextOf(proj)
MDeliver ==
  /\ PhaseOf(proj) = "approved" /\ PhaseOf(proj') = "delivered"
  /\ proj'.decision = proj.decision /\ TextOf(proj') = TextOf(proj)
MNext == MRaise \/ MDecide \/ MRevise \/ MApprove \/ MDeliver

LEMMA CreateV0Stutters ==
  ASSUME Good(proj), Good(proj'), DoCreateV0
  PROVE  Stutter
<1>1. PICK id \in VersionIds : CanCreateV0(proj) /\ proj' = CreateV0(proj, id)
  BY DEF DoCreateV0, Step
<1>2. proj \in ProjectState /\ proj.versions \in Seq(Version) /\ Settled(proj)
  BY DEF Good, ProjectState
<1>3. /\ proj'.status = "draft_v0_created" /\ proj'.decision = proj.decision
      /\ proj'.versions = Append(proj.versions, Draft(id, {}))
      /\ proj.status = "drafting_plan_approved"
  BY <1>1, <1>2, RankOf DEF CreateV0, CanCreateV0, ProjectState, Advance, AtLeast
<1>4. PhaseOf(proj) = "preparing" /\ PhaseOf(proj') = "preparing" BY <1>3 DEF PhaseOf
<1>5. proj.versions = << >> BY <1>3, Drafted, RankOf DEF AtLeast
<1>6. proj'.versions = <<Draft(id, {})>> BY <1>3, <1>5
<1>7. /\ Len(proj'.versions) = 1 /\ proj'.versions # << >>
      /\ proj'.versions[1] = Draft(id, {})
  BY <1>6
<1>8. Finals(proj') = {} BY <1>7 DEF Finals, Draft
<1>9. TextOf(proj) = {}
  <2>1. Finals(proj) = {} BY <1>5 DEF Finals
  <2> QED BY <1>5, <2>1 DEF TextOf
<1>10. TextOf(proj') = {} BY <1>7, <1>8, TextBefore DEF Latest, Draft
<1> QED BY <1>3, <1>4, <1>9, <1>10 DEF Stutter

\* The stage after withStatus has passed reviews_in_progress.
LEMMA OpenStage ==
  \A s \in {"draft_v0_created", "issues_open", "revised"} :
    Advance(Advance(s, "reviews_in_progress"), "issues_open")
      = IF s = "revised" THEN "revised" ELSE "issues_open"
BY RankOf DEF Advance, AtLeast

LEMMA RunReviewsRaises ==
  ASSUME Good(proj), DoRunReviews
  PROVE  MRaise
<1>1. PICK new \in SUBSET Unraised : CanRunReviews(proj) /\ proj' = RunReviews(proj, new)
  BY DEF DoRunReviews, Step
<1>2. proj \in ProjectState /\ Agrees(proj) BY DEF Good
<1>3. proj.status \in {"draft_v0_created", "issues_open"}
  BY <1>1, <1>2 DEF CanRunReviews, Agrees
<1>4. /\ proj'.status = "issues_open" /\ proj'.versions = proj.versions
      /\ proj'.decision = [c \in Cards |-> IF c \in new THEN "pending" ELSE proj.decision[c]]
  BY <1>1, <1>2, <1>3, OpenStage DEF RunReviews, Raise, ProjectState
<1>5. PhaseOf(proj) \in {"preparing", "reviewing"} /\ PhaseOf(proj') = "reviewing"
  BY <1>3, <1>4 DEF PhaseOf
<1>6. new \in SUBSET {c \in Cards : proj.decision[c] = "absent"}
  BY <1>1 DEF Unraised, Raised
<1> QED BY <1>4, <1>5, <1>6, TextKept DEF MRaise

LEMMA RunFinalQARaises ==
  ASSUME Good(proj), DoRunFinalQA
  PROVE  MRaise
<1>1. PICK found \in SUBSET Unraised, suggested \in SUBSET Unraised :
        CanRunFinalQA(proj) /\ proj' = RunFinalQA(proj, found, suggested)
  BY DEF DoRunFinalQA, Step
<1>2. proj \in ProjectState BY DEF Good
<1>3. proj.status \in {"issues_open", "revised"} BY <1>1 DEF CanRunFinalQA
<1> DEFINE new == found \union suggested
<1>4. /\ proj'.status = proj.status /\ proj'.versions = proj.versions
      /\ proj'.decision = [c \in Cards |-> IF c \in new THEN "pending" ELSE proj.decision[c]]
  <2>1. proj'.decision = Raise(RunDeterministicQA(proj, found), suggested)
    BY <1>1, <1>2 DEF RunFinalQA, RunDeterministicQA, ProjectState
  <2>2. RunDeterministicQA(proj, found).decision = Raise(proj, found)
    BY <1>2 DEF RunDeterministicQA, ProjectState
  <2>3. proj'.status = proj.status /\ proj'.versions = proj.versions
    BY <1>1, <1>2, <1>3, OpenStage DEF RunFinalQA, RunDeterministicQA, ProjectState
  <2> QED BY <2>1, <2>2, <2>3 DEF Raise
<1>5. PhaseOf(proj) = "reviewing" /\ PhaseOf(proj') = "reviewing"
  BY <1>3, <1>4 DEF PhaseOf
<1>6. new \in SUBSET {c \in Cards : proj.decision[c] = "absent"}
  BY <1>1 DEF Unraised, Raised
<1> HIDE DEF new
<1> QED BY <1>4, <1>5, <1>6, TextKept DEF MRaise

LEMMA DecideIssueDecides ==
  ASSUME Good(proj), DoDecideIssue
  PROVE  MDecide
<1>1. PICK a \in Actors, c \in Cards, d \in Outcomes, noted \in BOOLEAN :
        CanDecideIssue(proj, c, d, a, noted) /\ proj' = DecideIssue(proj, c, d, a)
  BY DEF DoDecideIssue, Step
<1>2. proj \in ProjectState BY DEF Good
<1>3. /\ proj'.status = proj.status /\ proj'.versions = proj.versions
      /\ proj'.decision = [proj.decision EXCEPT ![c] = d]
  BY <1>1, <1>2 DEF DecideIssue, ProjectState
<1> DEFINE S == {c}
<1>4. proj'.decision = [x \in Cards |-> IF x \in S THEN d ELSE proj.decision[x]]
  BY <1>2, <1>3 DEF ProjectState
<1>5. S \in SUBSET {x \in Cards : proj.decision[x] # "absent"}
  BY <1>1 DEF CanDecideIssue
<1> HIDE DEF S
<1> QED BY <1>3, <1>4, <1>5, PhaseKept, TextKept DEF MDecide

LEMMA BatchAcceptDecides ==
  ASSUME Good(proj), DoBatchAccept
  PROVE  MDecide
<1>1. PICK a \in Actors, ids \in SUBSET Cards :
        \E order \in Orders(ids \intersect Pending(proj)) : proj' = BatchAccept(proj, order, a)
  BY DEF DoBatchAccept, Step
<1>2. PICK order \in Orders(ids \intersect Pending(proj)) : proj' = BatchAccept(proj, order, a)
  BY <1>1
<1>3. proj \in ProjectState /\ Pending(proj) \in SUBSET Cards BY DEF Good, Pending
<1> DEFINE S == {c \in Cards : \E i \in DOMAIN order : order[i] = c}
<1>4. /\ proj'.status = proj.status /\ proj'.versions = proj.versions
      /\ proj'.decision = [c \in Cards |-> IF \E i \in DOMAIN order : order[i] = c
                                          THEN "accepted" ELSE proj.decision[c]]
  BY <1>2, <1>3 DEF BatchAccept, ProjectState
<1>5. proj'.decision = [c \in Cards |-> IF c \in S THEN "accepted" ELSE proj.decision[c]]
  BY <1>4
<1>6. S \in SUBSET {c \in Cards : proj.decision[c] # "absent"}
  <2>1. \A i \in DOMAIN order : order[i] \in Pending(proj)
    BY <1>3, OrderType
  <2> QED BY <2>1 DEF Pending
<1> HIDE DEF S
<1>7. "accepted" \in Outcomes BY DEF Outcomes
<1> QED BY <1>4, <1>5, <1>6, <1>7, PhaseKept, TextKept DEF MDecide

\* A new version that is not final: the final one, if any, is found again.
LEMMA AppendedText ==
  ASSUME Good(proj), Good(proj'), NEW v \in Version, ~v.final,
         proj'.versions = Append(proj.versions, v)
  PROVE  /\ Finals(proj') = Finals(proj)
         /\ Finals(proj) = {} => TextOf(proj') = v.applied
         /\ Finals(proj) # {} => TextOf(proj') = TextOf(proj)
<1>1. /\ proj \in ProjectState /\ proj' \in ProjectState
      /\ proj.versions \in Seq(Version) /\ proj'.versions \in Seq(Version)
  BY DEF Good, ProjectState
<1>2. /\ Len(proj.versions) \in Nat /\ Len(proj'.versions) = Len(proj.versions) + 1
      /\ \A i \in 1..Len(proj.versions) : proj'.versions[i] = proj.versions[i]
      /\ proj'.versions[Len(proj'.versions)] = v
  BY <1>1
<1>3. Finals(proj') = Finals(proj) BY <1>2 DEF Finals
<1>4. proj'.versions # << >> BY <1>1, <1>2
<1>5. ASSUME Finals(proj) = {} PROVE TextOf(proj') = v.applied
  BY <1>2, <1>3, <1>4, <1>5, TextBefore DEF Latest
<1>6. ASSUME Finals(proj) # {} PROVE TextOf(proj') = TextOf(proj)
  <2>1. FirstFinal(proj) \in Finals(proj) /\ FirstFinal(proj') \in Finals(proj')
    BY <1>1, <1>3, <1>6, FirstFinalIsFinal DEF Good, Settled
  <2>2. FirstFinal(proj') = FirstFinal(proj) BY <1>3, <2>1 DEF Good, Settled
  <2>3. FirstFinal(proj) \in 1..Len(proj.versions) BY <2>1 DEF Finals
  <2>4. proj.versions # << >> BY <1>1, <2>3
  <2> QED BY <1>2, <1>3, <1>4, <1>6, <2>2, <2>3, <2>4, TextAfter
<1> QED BY <1>3, <1>5, <1>6

\* A revision before final approval carries the accepted cards; a later one does
\* not change the approved text.
LEMMA CreateRevisionRevises ==
  ASSUME Good(proj), Good(proj'), DoCreateRevision
  PROVE  MRevise \/ Stutter
<1>1. PICK id \in VersionIds : CanCreateRevision(proj) /\ proj' = CreateRevision(proj, id)
  BY DEF DoCreateRevision, Step
<1>2. proj \in ProjectState /\ Settled(proj) BY DEF Good
<1> DEFINE v == Draft(id, Accepted(proj))
<1>3. v \in Version /\ ~v.final /\ v.applied = Accepted(proj)
  BY DraftType DEF Accepted, Draft
<1>4. /\ proj'.status = Advance(proj.status, "revised") /\ proj'.decision = proj.decision
      /\ proj'.versions = Append(proj.versions, v)
  BY <1>1, <1>2 DEF CreateRevision, ProjectState
<1>5. proj.status \in {"issues_open", "revised", "final_approved", "exported"}
  BY <1>1, <1>2, LateStages DEF CanCreateRevision, ProjectState
<1> HIDE DEF v
<1>6. CASE Finals(proj) = {}
  <2>1. TextOf(proj') = Accepted(proj) BY <1>3, <1>4, <1>6, AppendedText
  <2>2. proj.status \in {"issues_open", "revised"}
    BY <1>2, <1>5, <1>6, RankOf DEF Settled, AtLeast
  <2>3. proj'.status = "revised" BY <1>4, <2>2, AdvanceLate
  <2>4. PhaseOf(proj) = "reviewing" /\ PhaseOf(proj') = "reviewing"
    BY <2>2, <2>3 DEF PhaseOf
  <2> QED BY <1>4, <2>1, <2>4 DEF MRevise
<1>7. CASE Finals(proj) # {}
  <2>1. TextOf(proj') = TextOf(proj) BY <1>3, <1>4, <1>7, AppendedText
  <2>2. proj.status \in {"final_approved", "exported"}
    BY <1>2, <1>5, <1>7, RankOf DEF Settled, AtLeast
  <2>3. proj'.status = proj.status BY <1>4, <2>2, AdvanceLate
  <2> QED BY <1>4, <2>1, <2>3, PhaseKept DEF Stutter
<1> QED BY <1>6, <1>7

LEMMA ApproveFinalApproves ==
  ASSUME Good(proj), Good(proj'), DoApproveFinal
  PROVE  MApprove
<1>1. PICK a \in Lawyers : CanApproveFinal(proj, a) /\ proj' = ApproveFinal(proj, a)
  BY DEF DoApproveFinal, Step, CanApproveFinal
<1>2. /\ proj \in ProjectState /\ proj' \in ProjectState /\ Settled(proj)
      /\ Settled(proj') /\ proj.versions \in Seq(Version)
  BY DEF Good, ProjectState
<1> DEFINE n == Len(proj.versions)
           last == [proj.versions[n] EXCEPT !.final = TRUE, !.approvedBy = a]
<1>3. n \in 1..n /\ proj.versions[n] \in Version BY <1>1, <1>2 DEF CanApproveFinal
<1>4. last.final /\ last.applied = proj.versions[n].applied BY <1>3 DEF Version
<1>5. proj.status = "revised"
  BY <1>1, RankOf DEF CanApproveFinal, CanAdvance, AtLeast, Edges
<1>6. /\ proj'.status = "final_approved" /\ proj'.decision = proj.decision
      /\ proj'.versions = [proj.versions EXCEPT ![n] = last]
  BY <1>1, <1>2, <1>5, RankOf DEF ApproveFinal, ProjectState, Advance, AtLeast
<1> HIDE DEF last
<1>7. Len(proj'.versions) = n /\ proj'.versions[n] = last BY <1>2, <1>3, <1>6, ExceptSeq
<1>8. n \in Finals(proj') BY <1>3, <1>4, <1>7 DEF Finals
<1>9. FirstFinal(proj') = n
  <2>1. FirstFinal(proj') \in Finals(proj')
    BY <1>2, <1>8, FirstFinalIsFinal DEF Settled
  <2> QED BY <1>2, <1>8, <2>1 DEF Settled
<1>10. Finals(proj) = {} BY <1>2, <1>5, NotYetFinal, RankOf DEF AtLeast
<1>11. proj.versions # << >> /\ proj'.versions # << >>
  BY <1>1, <1>2, <1>3, <1>7 DEF CanApproveFinal
<1>12. TextOf(proj') = TextOf(proj)
  <2>1. TextOf(proj) = proj.versions[n].applied
    BY <1>10, <1>11, TextBefore DEF Latest
  <2>2. TextOf(proj') = proj'.versions[n].applied
    BY <1>8, <1>9, <1>11, TextAfter
  <2> QED BY <1>4, <1>7, <2>1, <2>2
<1>13. PhaseOf(proj) = "reviewing" /\ PhaseOf(proj') = "approved"
  BY <1>5, <1>6 DEF PhaseOf
<1>14. \A c \in Cards : proj.decision[c] # "pending" BY <1>1 DEF CanApproveFinal, Pending
<1> QED BY <1>6, <1>12, <1>13, <1>14 DEF MApprove

LEMMA CreateExportDelivers ==
  ASSUME Good(proj), DoCreateExport
  PROVE  MDeliver \/ Stutter
<1>1. proj \in ProjectState BY DEF Good
<1>2. /\ proj'.decision = proj.decision /\ proj'.versions = proj.versions
      /\ AtLeast(proj.status, "final_approved")
      /\ proj'.status = Advance(proj.status, "exported")
  BY <1>1 DEF DoCreateExport, Step, CreateExport, CanCreateExport, ProjectState
<1>3. TextOf(proj') = TextOf(proj) BY <1>2, TextKept
<1>4. proj.status \in {"final_approved", "exported"}
  BY <1>1, <1>2, FinalStages DEF ProjectState
<1>5. proj'.status = "exported" BY <1>2, <1>4, RankOf DEF Advance, AtLeast
<1>6. CASE proj.status = "final_approved"
  <2>1. PhaseOf(proj) = "approved" /\ PhaseOf(proj') = "delivered"
    BY <1>5, <1>6 DEF PhaseOf
  <2> QED BY <1>2, <1>3, <2>1 DEF MDeliver
<1>7. CASE proj.status = "exported"
  BY <1>2, <1>3, <1>5, <1>7, PhaseKept DEF Stutter
<1> QED BY <1>4, <1>6, <1>7

LEMMA LoopStutters ==
  ASSUME Good(proj), DoCreateDraftIteration \/ DoSynthesizeReviews \/ DoStopDraftLoop
  PROVE  Stutter
<1>1. proj \in ProjectState BY DEF Good
<1>2. /\ proj'.status = proj.status /\ proj'.versions = proj.versions
      /\ proj'.decision = proj.decision
  BY <1>1 DEF DoCreateDraftIteration, CreateDraftIteration, DoSynthesizeReviews,
       SynthesizeReviews, DoStopDraftLoop, StopDraftLoop, Step, ProjectState
<1> QED BY <1>2, PhaseKept, TextKept DEF Stutter

-----------------------------------------------------------------------------
(* The refinement *)

LEMMA StepKeepsPromise ==
  ASSUME Good(proj), Next
  PROVE  MNext \/ Stutter
<1>1. Good(proj') BY NextGood
<1>2. CASE Preparation BY <1>1, <1>2, PreparationStutters
<1>3. CASE DoCreateV0 BY <1>1, <1>3, CreateV0Stutters
<1>4. CASE DoRunReviews BY <1>4, RunReviewsRaises DEF MNext
<1>5. CASE DoRunFinalQA BY <1>5, RunFinalQARaises DEF MNext
<1>6. CASE DoDecideIssue BY <1>6, DecideIssueDecides DEF MNext
<1>7. CASE DoBatchAccept BY <1>7, BatchAcceptDecides DEF MNext
<1>8. CASE DoCreateRevision BY <1>1, <1>8, CreateRevisionRevises DEF MNext
<1>9. CASE DoApproveFinal BY <1>1, <1>9, ApproveFinalApproves DEF MNext
<1>10. CASE DoCreateExport BY <1>10, CreateExportDelivers DEF MNext
<1>11. CASE DoCreateDraftIteration \/ DoSynthesizeReviews \/ DoStopDraftLoop
  BY <1>11, LoopStutters
<1> QED BY <1>2, <1>3, <1>4, <1>5, <1>6, <1>7, <1>8, <1>9, <1>10, <1>11, TwoParts
        DEF Review

\* The operations keep the promise of ReviewPromise: no approval over a pending
\* finding, none raised after it, and no change of the approved text.
THEOREM WorkflowKeepsPromise == Spec => ReviewPromiseKept
<1>1. Init => Promise!Init
  <2> SUFFICES ASSUME Init PROVE Promise!Init OBVIOUS
  <2>1. PhaseOf(proj) = "preparing" BY DEF Init, EmptyProject, PhaseOf
  <2>2. TextOf(proj) = {} BY DEF Init, EmptyProject, TextOf, Finals
  <2>3. proj.decision = [c \in Cards |-> "absent"] BY DEF Init, EmptyProject
  <2> QED BY <2>1, <2>2, <2>3 DEF Promise!Init, PhaseOf, TextOf
<1>2. IInv /\ [Next]_vars => [Promise!Next]_(Promise!vars)
  <2> SUFFICES ASSUME IInv, [Next]_vars PROVE [Promise!Next]_(Promise!vars) OBVIOUS
  <2>1. CASE UNCHANGED vars
    BY <2>1 DEF vars, Promise!vars
  <2>2. CASE Stutter
    BY <2>2 DEF Stutter, PhaseOf, TextOf, Promise!vars
  <2>3. CASE MRaise
    BY <2>3 DEF MRaise, PhaseOf, TextOf, Promise!Next, Promise!Raise
  <2>4. CASE MDecide
    BY <2>4 DEF MDecide, PhaseOf, TextOf, Promise!Next, Promise!Decide
  <2>5. CASE MRevise
    BY <2>5 DEF MRevise, PhaseOf, TextOf, Accepted, Promise!Next, Promise!Revise
  <2>6. CASE MApprove
    BY <2>6 DEF MApprove, PhaseOf, TextOf, Promise!Next, Promise!Approve
  <2>7. CASE MDeliver
    BY <2>7 DEF MDeliver, PhaseOf, TextOf, Promise!Next, Promise!Deliver
  <2> QED BY <2>1, <2>2, <2>3, <2>4, <2>5, <2>6, <2>7, StepKeepsPromise
          DEF MNext, IInv
<1> QED BY <1>1, <1>2, IInvHolds, PTL DEF Spec, ReviewPromiseKept, Promise!Spec

-----------------------------------------------------------------------------
(* The chain of approvals *)

\* The part of ApprovalChain that Agrees does not give.
Chain(p) ==
  /\ p.memo.state = "approved" =>
       p.memo.approvedBy \in Lawyers /\ MissingAnswers(p) = {}
  /\ p.plan.state = "approved" => p.plan.approvedBy \in Lawyers
  /\ p.plan.state # "none" => p.plan.custom = (p.playbook \in CustomPlaybooks)

ChainHolds == Chain(proj)

LEMMA ChainKept ==
  ASSUME NEW p, NEW q, Chain(p), q.memo = p.memo, q.plan = p.plan,
         q.playbook = p.playbook,
         p.memo.state = "approved" => q.questions = p.questions /\ q.answers = p.answers
  PROVE  Chain(q)
BY DEF Chain, MissingAnswers

LEMMA PreparationChain ==
  ASSUME Good(proj), Chain(proj), Preparation
  PROVE  Chain(proj')
<1> USE DEF Step
<1>0. proj \in ProjectState /\ Agrees(proj) BY DEF Good
<1>1. CASE DoAddSource
  <2>1. /\ proj'.memo = proj.memo /\ proj'.plan = proj.plan
        /\ proj'.playbook = proj.playbook /\ proj'.questions = proj.questions
        /\ proj'.answers = proj.answers
    BY <1>0, <1>1 DEF DoAddSource, AddSource, ProjectState
  <2> QED BY <2>1, ChainKept
<1>2. CASE DoAddSourceContent \/ DoLockSourcePack \/ DoClassifyAndConfirm
  <2>1. /\ proj'.memo = proj.memo /\ proj'.plan = proj.plan
        /\ proj'.playbook = proj.playbook /\ proj'.questions = proj.questions
        /\ proj'.answers = proj.answers
    BY <1>0, <1>2 DEF DoAddSourceContent, AddSourceContent, DoLockSourcePack,
         LockSourcePack, DoClassifyAndConfirm, ClassifyAndConfirm, ProjectState
  <2> QED BY <2>1, ChainKept
<1>3. CASE DoSelectPlaybook
  <2>1. proj.status = "type_confirmed" /\ proj'.memo = proj.memo /\ proj'.plan = proj.plan
    BY <1>0, <1>3 DEF DoSelectPlaybook, SelectPlaybook, CanSelectPlaybook, ProjectState
  <2>2. proj.memo.state # "approved" /\ proj.plan.state = "none"
    BY <1>0, <2>1, RankOf DEF Agrees, AtLeast
  <2> QED BY <2>1, <2>2 DEF Chain
<1>4. CASE DoAnswerIntake
  <2>1. /\ proj.status \in {"intake_in_progress", "deal_memo_drafted"}
        /\ proj'.memo = proj.memo /\ proj'.plan = proj.plan
        /\ proj'.playbook = proj.playbook
    BY <1>0, <1>4 DEF DoAnswerIntake, AnswerIntake, CanAnswerIntake, ProjectState
  <2>2. proj.memo.state # "approved" BY <1>0, <2>1, RankOf DEF Agrees, AtLeast
  <2> QED BY <2>1, <2>2, ChainKept
<1>5. CASE DoDraftDealMemo
  <2>1. /\ proj'.memo.state = "drafted" /\ proj'.plan = proj.plan
        /\ proj'.playbook = proj.playbook
    BY <1>0, <1>5 DEF DoDraftDealMemo, DraftDealMemo, ProjectState
  <2> QED BY <2>1 DEF Chain
<1>6. CASE DoApproveDealMemo
  <2>1. PICK a \in Actors : CanApproveDealMemo(proj, a) /\ proj' = ApproveDealMemo(proj, a)
    BY <1>6 DEF DoApproveDealMemo
  <2>2. /\ proj'.memo.approvedBy = a /\ proj'.plan = proj.plan
        /\ proj'.playbook = proj.playbook /\ proj'.questions = proj.questions
        /\ proj'.answers = proj.answers
    BY <1>0, <2>1 DEF ApproveDealMemo, ProjectState, Memo
  <2>3. MissingAnswers(proj') = MissingAnswers(proj) BY <2>2 DEF MissingAnswers
  <2>4. a \in Lawyers /\ MissingAnswers(proj) = {} BY <2>1 DEF CanApproveDealMemo
  <2> QED BY <2>2, <2>3, <2>4 DEF Chain
<1>7. CASE DoDraftDraftingPlan
  <2>1. /\ proj'.plan = [state |-> "drafted", custom |-> proj.playbook \in CustomPlaybooks,
                         approvedBy |-> None]
        /\ proj'.memo = proj.memo /\ proj'.playbook = proj.playbook
        /\ proj'.questions = proj.questions /\ proj'.answers = proj.answers
    BY <1>0, <1>7 DEF DoDraftDraftingPlan, DraftDraftingPlan, ProjectState
  <2>2. MissingAnswers(proj') = MissingAnswers(proj) BY <2>1 DEF MissingAnswers
  <2>3. proj'.plan.state = "drafted" BY <2>1
  <2>4. proj'.plan.custom = (proj'.playbook \in CustomPlaybooks) BY <2>1
  <2> QED BY <2>1, <2>2, <2>3, <2>4 DEF Chain
<1>8. CASE DoApproveDraftingPlan
  <2>1. PICK a \in Actors :
          CanApproveDraftingPlan(proj, a) /\ proj' = ApproveDraftingPlan(proj, a)
    BY <1>8 DEF DoApproveDraftingPlan
  <2>2. /\ proj'.plan.approvedBy = a /\ proj'.plan.custom = proj.plan.custom
        /\ proj'.memo = proj.memo /\ proj'.playbook = proj.playbook
        /\ proj'.questions = proj.questions /\ proj'.answers = proj.answers
    BY <1>0, <2>1 DEF ApproveDraftingPlan, ProjectState, Plan
  <2>3. MissingAnswers(proj') = MissingAnswers(proj) BY <2>2 DEF MissingAnswers
  <2>4. a \in Lawyers /\ proj.plan.state # "none" BY <2>1 DEF CanApproveDraftingPlan
  <2> QED BY <2>2, <2>3, <2>4 DEF Chain
<1> QED BY <1>1, <1>2, <1>3, <1>4, <1>5, <1>6, <1>7, <1>8 DEF Preparation

\* A draft rests on a locked pack and on a lawyer's approval of the memo and the
\* plan, given when no required question was unanswered.
THEOREM DraftsAreApproved == Spec => []ApprovalChain
<1>1. Init => ChainHolds BY DEF Init, EmptyProject, Chain, ChainHolds
<1>2. IInv /\ ChainHolds /\ [Next]_vars => ChainHolds'
  <2> SUFFICES ASSUME IInv, Chain(proj), [Next]_vars PROVE Chain(proj')
    BY DEF ChainHolds
  <2>1. Good(proj) BY DEF IInv
  <2>2. CASE Preparation BY <2>1, <2>2, PreparationChain
  <2>3. CASE Review
    <3>1. SameInputs(proj, proj') BY <2>1, <2>3, ReviewKeepsInputs
    <3> QED BY <3>1, ChainKept DEF SameInputs
  <2>4. CASE UNCHANGED vars BY <2>4 DEF vars
  <2> QED BY <2>2, <2>3, <2>4, TwoParts
<1>3. IInv /\ ChainHolds => ApprovalChain
  <2> SUFFICES ASSUME IInv, Chain(proj) PROVE ApprovalChain BY DEF ChainHolds
  <2>1. proj \in ProjectState /\ Agrees(proj) BY DEF IInv, Good
  <2>2. \A s \in Status :
          /\ AtLeast(s, "drafting_plan_approved") => AtLeast(s, "deal_memo_approved")
          /\ AtLeast(s, "draft_v0_created") => /\ AtLeast(s, "drafting_plan_approved")
                                               /\ AtLeast(s, "source_pack_locked")
    BY RankOf DEF Status, AtLeast
  <2>3. proj.status \in Status /\ proj.versions \in Seq(Version)
    BY <2>1 DEF ProjectState
  <2>4. /\ proj.plan.state = "approved" => proj.memo.state = "approved"
        /\ Len(proj.versions) > 0 => proj.locked /\ proj.plan.state = "approved"
    BY <2>1, <2>2, <2>3 DEF Agrees
  <2>5. proj.versions # << >> => Len(proj.versions) > 0 BY <2>3
  <2> QED BY <2>4, <2>5 DEF Chain, ApprovalChain
<1> QED BY <1>1, <1>2, <1>3, IInvHolds, PTL DEF Spec

-----------------------------------------------------------------------------
(* Exports *)

\* What ExportsComeFromFinal says of a project.
FromFinal(p) ==
  \A k \in 1..Len(p.exports) :
    /\ \E i \in Finals(p) : p.versions[i].id = p.exports[k].version
    /\ p.exports[k].type = "clean_docx" => ~p.exports[k].marked

\* A final version stays final and keeps its id.
LEMMA FinalsStay ==
  ASSUME Good(proj), Good(proj'), VersionsStay
  PROVE  \A i \in Finals(proj) :
           i \in Finals(proj') /\ proj'.versions[i].id = proj.versions[i].id
<1>1. Len(proj.versions) \in Nat /\ Len(proj'.versions) \in Nat
  BY DEF Good, ProjectState
<1> QED BY <1>1 DEF Finals, VersionsStay

LEMMA FromFinalKept ==
  ASSUME Good(proj), Good(proj'), VersionsStay, FromFinal(proj),
         proj'.exports = proj.exports
  PROVE  FromFinal(proj')
BY FinalsStay DEF FromFinal

LEMMA CreateExportFromFinal ==
  ASSUME Good(proj), Good(proj'), VersionsStay, FromFinal(proj), DoCreateExport
  PROVE  FromFinal(proj')
<1>1. PICK type \in ExportTypes, marked \in BOOLEAN :
        CanCreateExport(proj, type, marked) /\ proj' = CreateExport(proj, type, marked)
  BY DEF DoCreateExport, Step
<1> DEFINE n == FirstFinal(proj)
           file == [version |-> proj.versions[n].id, type |-> type, marked |-> marked]
<1>2. n \in Finals(proj)
  <2>1. Finals(proj) # {} BY <1>1 DEF CanCreateExport, Finals
  <2>2. \A i, j \in Finals(proj) : i = j BY DEF Good, Settled
  <2>3. proj \in ProjectState BY DEF Good
  <2> QED BY <2>1, <2>2, <2>3, FirstFinalIsFinal
<1>3. proj'.exports = Append(proj.exports, file)
  BY <1>1 DEF CreateExport, ProjectState, Good
<1>4. file.version = proj.versions[n].id /\ file.type = type /\ file.marked = marked
  OBVIOUS
<1>5. type = "clean_docx" => ~marked BY <1>1 DEF CanCreateExport
<1> HIDE DEF file
<1>6. /\ Len(proj'.exports) = Len(proj.exports) + 1 /\ Len(proj.exports) \in Nat
      /\ \A k \in 1..Len(proj.exports) : proj'.exports[k] = proj.exports[k]
      /\ proj'.exports[Len(proj.exports) + 1] = file
  <2>1. proj.exports \in Seq(Export) BY DEF Good, ProjectState
  <2> QED BY <1>3, <2>1
<1>7. ASSUME NEW k \in 1..Len(proj'.exports)
      PROVE  /\ \E i \in Finals(proj') : proj'.versions[i].id = proj'.exports[k].version
             /\ proj'.exports[k].type = "clean_docx" => ~proj'.exports[k].marked
  <2>1. CASE k \in 1..Len(proj.exports)
    BY <1>6, <2>1, FinalsStay DEF FromFinal
  <2>2. CASE k = Len(proj.exports) + 1
    BY <1>2, <1>4, <1>5, <1>6, <2>2, FinalsStay
  <2> QED BY <1>6, <2>1, <2>2
<1> QED BY <1>7 DEF FromFinal

\* Every operation but create_export leaves the exports alone.
LEMMA ExportsKept ==
  ASSUME Good(proj), Review
  PROVE  DoCreateExport \/ proj'.exports = proj.exports
<1> USE DEF Step
<1>0. proj \in ProjectState BY DEF Good
<1>1. CASE DoCreateV0 \/ DoRunReviews \/ DoDecideIssue \/ DoCreateRevision
  BY <1>0, <1>1 DEF DoCreateV0, CreateV0, DoRunReviews, RunReviews, DoDecideIssue,
       DecideIssue, DoCreateRevision, CreateRevision, ProjectState
<1>2. CASE DoRunFinalQA \/ DoApproveFinal \/ DoBatchAccept
  BY <1>0, <1>2 DEF DoRunFinalQA, RunFinalQA, RunDeterministicQA, DoApproveFinal,
       ApproveFinal, DoBatchAccept, BatchAccept, ProjectState
<1>3. CASE DoCreateDraftIteration \/ DoSynthesizeReviews \/ DoStopDraftLoop
  BY <1>0, <1>3 DEF DoCreateDraftIteration, CreateDraftIteration, DoSynthesizeReviews,
       SynthesizeReviews, DoStopDraftLoop, StopDraftLoop, ProjectState
<1> QED BY <1>1, <1>2, <1>3 DEF Review

\* Every export is of the final version, whatever is revised afterwards, and no
\* clean one holds commentary.
THEOREM ExportsAreFinal == Spec => []ExportsComeFromFinal
<1>1. Init => ExportsComeFromFinal
  BY DEF Init, EmptyProject, ExportsComeFromFinal
<1>2. IInv /\ ExportsComeFromFinal /\ [Next]_vars => ExportsComeFromFinal'
  <2> SUFFICES ASSUME IInv, FromFinal(proj), [Next]_vars PROVE FromFinal(proj')
    BY DEF ExportsComeFromFinal, FromFinal, Finals
  <2>1. CASE Next
    <3>1. Good(proj) /\ Good(proj') BY <2>1, NextGood DEF IInv
    <3>2. CASE Preparation
      <4>1. SameRecords(proj, proj') BY <3>1, <3>2, PreparationKeepsRecords
      <4> QED BY <3>1, <4>1, SameVersionsStay, FromFinalKept DEF SameRecords
    <3>3. CASE Review
      <4>1. VersionsStay BY <3>1, <3>3, ReviewGrows DEF RecordsGrow
      <4> QED BY <3>1, <3>3, <4>1, ExportsKept, FromFinalKept, CreateExportFromFinal
    <3> QED BY <2>1, <3>2, <3>3, TwoParts
  <2>2. CASE UNCHANGED vars BY <2>2 DEF vars
  <2> QED BY <2>1, <2>2
<1> QED BY <1>1, <1>2, IInvHolds, PTL DEF Spec

-----------------------------------------------------------------------------
(* The drafting loop *)

\* The part of LoopIsNumbered that Numbered does not give.
Based(p) ==
  \A i \in 1..Len(p.iterations) :
    /\ p.iterations[i].base \in UsedIds(p) \union {None}
    /\ \A j \in 1..i : p.iterations[i].base = None => p.iterations[j].base = None
BasedHolds == Based(proj)

LEMMA UsedIdsGrow ==
  ASSUME Good(proj), Good(proj'), VersionsStay
  PROVE  UsedIds(proj) \subseteq UsedIds(proj')
<1>1. Len(proj.versions) \in Nat /\ Len(proj'.versions) \in Nat
  BY DEF Good, ProjectState
<1> QED BY <1>1 DEF UsedIds, VersionsStay

\* An operation that leaves the base of every iteration alone.
LEMMA BasedKept ==
  ASSUME Good(proj), Good(proj'), VersionsStay, Based(proj),
         Len(proj'.iterations) = Len(proj.iterations),
         \A i \in 1..Len(proj.iterations) :
           proj'.iterations[i].base = proj.iterations[i].base
  PROVE  Based(proj')
<1>1. Len(proj.iterations) \in Nat BY DEF Good, ProjectState
<1> QED BY <1>1, UsedIdsGrow DEF Based

\* Before the first draft no iteration can have a base but None, and from then
\* on a new iteration has one.
LEMMA NewIterationBased ==
  ASSUME Good(proj), Good(proj'), Based(proj), DoCreateDraftIteration
  PROVE  Based(proj')
<1>0. /\ proj \in ProjectState /\ proj.versions \in Seq(Version)
      /\ proj.iterations \in Seq(Iteration)
  BY DEF Good, ProjectState
<1> DEFINE n == Len(proj.iterations)
           base == IF proj.versions = << >> THEN None ELSE Latest(proj).id
           it == [number |-> NextIterationNumber(proj), base |-> base, reviewed |-> {},
                  state |-> IF proj.versions = << >> THEN "planned" ELSE "drafted",
                  reviewerRuns |-> 0]
<1>1. proj'.iterations = Append(proj.iterations, it) /\ it.base = base
  BY <1>0 DEF DoCreateDraftIteration, CreateDraftIteration, Step, ProjectState
<1> HIDE DEF it
<1>2. proj'.versions = proj.versions
  BY <1>0 DEF DoCreateDraftIteration, CreateDraftIteration, Step, ProjectState
<1>3. UsedIds(proj') = UsedIds(proj) BY <1>2 DEF UsedIds
<1>4. /\ n \in Nat /\ Len(proj'.iterations) = n + 1
      /\ \A i \in 1..n : proj'.iterations[i] = proj.iterations[i]
      /\ proj'.iterations[n + 1] = it
  BY <1>0, <1>1
<1>5. base \in UsedIds(proj) \union {None} BY <1>0 DEF UsedIds, Latest
<1>6. ASSUME base = None, NEW j \in 1..n PROVE proj.iterations[j].base = None
  <2>1. proj.versions = << >>
    <3> SUFFICES ASSUME proj.versions # << >> PROVE FALSE OBVIOUS
    <3>1. Len(proj.versions) \in 1..Len(proj.versions) BY <1>0
    <3>2. Latest(proj) \in Version BY <1>0, <3>1 DEF Latest
    <3> QED BY <1>6, <3>2, DataAssumption DEF Version
  <2>2. UsedIds(proj) = {} BY <2>1 DEF UsedIds
  <2> QED BY <1>6, <2>2 DEF Based
<1> HIDE DEF base
<1>7. ASSUME NEW i \in 1..Len(proj'.iterations)
      PROVE  /\ proj'.iterations[i].base \in UsedIds(proj') \union {None}
             /\ \A j \in 1..i :
                  proj'.iterations[i].base = None => proj'.iterations[j].base = None
  <2>1. CASE i \in 1..n
    <3>1. \A j \in 1..i : j \in 1..n BY <1>4, <2>1
    <3> QED BY <1>3, <1>4, <2>1, <3>1 DEF Based
  <2>2. CASE i = n + 1
    <3>1. \A j \in 1..i : j \in 1..n \/ j = i BY <1>4, <2>2
    <3> QED BY <1>1, <1>3, <1>4, <1>5, <1>6, <2>2, <3>1
  <2> QED BY <1>4, <2>1, <2>2
<1> QED BY <1>7 DEF Based

LEMMA ReviewBased ==
  ASSUME Good(proj), Good(proj'), Based(proj), Review
  PROVE  Based(proj')
<1> USE DEF Step
<1>0. proj \in ProjectState /\ proj.iterations \in Seq(Iteration)
  BY DEF Good, ProjectState
<1>1. VersionsStay BY ReviewGrows DEF RecordsGrow
<1>2. CASE DoCreateDraftIteration BY <1>2, NewIterationBased
<1>3. CASE DoCreateV0 \/ DoRunReviews \/ DoDecideIssue \/ DoCreateRevision
  <2>1. proj'.iterations = proj.iterations
    BY <1>0, <1>3 DEF DoCreateV0, CreateV0, DoRunReviews, RunReviews, DoDecideIssue,
         DecideIssue, DoCreateRevision, CreateRevision, ProjectState
  <2> QED BY <1>1, <2>1, BasedKept
<1>4. CASE DoRunFinalQA \/ DoApproveFinal \/ DoBatchAccept \/ DoCreateExport
  <2>1. proj'.iterations = proj.iterations
    BY <1>0, <1>4 DEF DoRunFinalQA, RunFinalQA, RunDeterministicQA, DoApproveFinal,
         ApproveFinal, DoBatchAccept, BatchAccept, DoCreateExport, CreateExport,
         ProjectState
  <2> QED BY <1>1, <2>1, BasedKept
<1>5. ASSUME NEW k \in 1..Len(proj.iterations), NEW it,
             it.base = proj.iterations[k].base,
             proj'.iterations = [proj.iterations EXCEPT ![k] = it]
      PROVE  Based(proj')
  <2>1. /\ Len(proj'.iterations) = Len(proj.iterations)
        /\ \A i \in 1..Len(proj.iterations) :
             proj'.iterations[i] = IF i = k THEN it ELSE proj.iterations[i]
    BY <1>0, <1>5, ExceptSeq
  <2> QED BY <1>1, <1>5, <2>1, BasedKept
<1>6. CASE DoSynthesizeReviews
  <2>1. PICK k \in 1..Len(proj.iterations) : proj' = SynthesizeReviews(proj, k)
    BY <1>6 DEF DoSynthesizeReviews
  <2> DEFINE it == [proj.iterations[k] EXCEPT
                      !.reviewed = Pending(proj), !.state = "synthesized",
                      !.reviewerRuns = @ + ReviewerRuns(proj)]
  <2>2. proj'.iterations = [proj.iterations EXCEPT ![k] = it]
    BY <1>0, <2>1 DEF SynthesizeReviews, ProjectState
  <2>3. it.base = proj.iterations[k].base BY <1>0 DEF Iteration
  <2> HIDE DEF it
  <2> QED BY <1>5, <2>2, <2>3
<1>7. CASE DoStopDraftLoop
  <2>1. PICK k \in 1..Len(proj.iterations) : proj' = StopDraftLoop(proj, k)
    BY <1>7 DEF DoStopDraftLoop
  <2> DEFINE it == [proj.iterations[k] EXCEPT !.state = "stopped"]
  <2>2. proj'.iterations = [proj.iterations EXCEPT ![k] = it]
    BY <1>0, <2>1 DEF StopDraftLoop, ProjectState
  <2>3. it.base = proj.iterations[k].base BY <1>0 DEF Iteration
  <2> HIDE DEF it
  <2> QED BY <1>5, <2>2, <2>3
<1> QED BY <1>2, <1>3, <1>4, <1>6, <1>7 DEF Review

\* Iterations are numbered 1, 2, ... without reuse, and each starts from a
\* version of the project, or from none if no draft existed yet.
THEOREM LoopStaysNumbered == Spec => []LoopIsNumbered
<1>1. Init => BasedHolds BY DEF Init, EmptyProject, Based, BasedHolds
<1>2. IInv /\ BasedHolds /\ [Next]_vars => BasedHolds'
  <2> SUFFICES ASSUME IInv, Based(proj), [Next]_vars PROVE Based(proj')
    BY DEF BasedHolds
  <2>1. CASE Next
    <3>1. Good(proj) /\ Good(proj') BY <2>1, NextGood DEF IInv
    <3>2. CASE Preparation
      <4>1. SameRecords(proj, proj') BY <3>1, <3>2, PreparationKeepsRecords
      <4> QED BY <3>1, <4>1, SameVersionsStay, BasedKept DEF SameRecords
    <3>3. CASE Review BY <3>1, <3>3, ReviewBased
    <3> QED BY <2>1, <3>2, <3>3, TwoParts
  <2>2. CASE UNCHANGED vars BY <2>2 DEF vars
  <2> QED BY <2>1, <2>2
<1>3. IInv /\ BasedHolds => LoopIsNumbered
  BY DEF IInv, Good, Numbered, BasedHolds, Based, LoopIsNumbered
<1> QED BY <1>1, <1>2, <1>3, IInvHolds, PTL DEF Spec

-----------------------------------------------------------------------------
(* The decision history and the versions that carry a card *)

LEMMA PreparationSound ==
  ASSUME Sound(proj), Good(proj'), Preparation
  PROVE  Sound(proj')
<1> USE DEF Step
<1>0. Good(proj) /\ proj \in ProjectState BY DEF Sound, Good
<1>1. SameRecords(proj, proj') BY <1>0, PreparationKeepsRecords
<1>2. proj'.decision = proj.decision BY <1>0, PreparationStutters DEF Stutter
<1>3. proj'.applied = proj.applied
  <2>1. CASE DoAddSource \/ DoAddSourceContent \/ DoLockSourcePack \/ DoClassifyAndConfirm
    BY <1>0, <2>1 DEF DoAddSource, AddSource, DoAddSourceContent, AddSourceContent,
         DoLockSourcePack, LockSourcePack, DoClassifyAndConfirm, ClassifyAndConfirm,
         ProjectState
  <2>2. CASE DoSelectPlaybook \/ DoAnswerIntake \/ DoDraftDealMemo
    BY <1>0, <2>2 DEF DoSelectPlaybook, SelectPlaybook, DoAnswerIntake, AnswerIntake,
         DoDraftDealMemo, DraftDealMemo, ProjectState
  <2>3. CASE DoApproveDealMemo \/ DoDraftDraftingPlan \/ DoApproveDraftingPlan
    BY <1>0, <2>3 DEF DoApproveDealMemo, ApproveDealMemo, DoDraftDraftingPlan,
         DraftDraftingPlan, DoApproveDraftingPlan, ApproveDraftingPlan, ProjectState
  <2> QED BY <2>1, <2>2, <2>3 DEF Preparation
<1> QED BY <1>1, <1>2, <1>3, SoundKept DEF SameRecords

LEMMA ReviewSound ==
  ASSUME Sound(proj), Good(proj'), Review
  PROVE  Sound(proj')
<1> USE DEF Step
<1>0. proj \in ProjectState BY DEF Sound, Good
<1>1. CASE DoCreateV0 BY <1>1, CreateV0Sound DEF DoCreateV0
<1>2. CASE DoRunReviews
  <2>1. PICK new \in SUBSET Unraised :
          CanRunReviews(proj) /\ proj' = RunReviews(proj, new)
    BY <1>2 DEF DoRunReviews
  <2> QED BY <2>1, RunReviewsSound DEF Unraised
<1>3. CASE DoDecideIssue
  <2>1. PICK a \in Actors, c \in Cards, d \in Outcomes, noted \in BOOLEAN :
          CanDecideIssue(proj, c, d, a, noted) /\ proj' = DecideIssue(proj, c, d, a)
    BY <1>3 DEF DoDecideIssue
  <2> QED BY <2>1, DecideIssueSound DEF CanDecideIssue
<1>4. CASE DoCreateRevision BY <1>4, CreateRevisionSound DEF DoCreateRevision
<1>5. CASE DoRunFinalQA
  <2>1. PICK found \in SUBSET Unraised, suggested \in SUBSET Unraised :
          CanRunFinalQA(proj) /\ proj' = RunFinalQA(proj, found, suggested)
    BY <1>5 DEF DoRunFinalQA
  <2> QED BY <2>1, RunFinalQASound DEF Unraised
<1>6. CASE DoApproveFinal BY <1>6, ApproveFinalSound DEF DoApproveFinal, CanApproveFinal
<1>7. CASE DoBatchAccept
  <2>1. PICK a \in Actors, ids \in SUBSET Cards :
          \E order \in Orders(ids \intersect Pending(proj)) :
            CanBatchAccept(proj, ids, a) /\ proj' = BatchAccept(proj, order, a)
    BY <1>7 DEF DoBatchAccept
  <2>2. a \in Lawyers /\ ids \intersect Pending(proj) \in SUBSET Pending(proj)
    BY <2>1 DEF CanBatchAccept
  <2> QED BY <2>1, <2>2, BatchAcceptSound
<1>8. CASE \/ DoCreateExport \/ DoCreateDraftIteration \/ DoSynthesizeReviews
           \/ DoStopDraftLoop
  <2>1. /\ proj'.history = proj.history /\ proj'.decision = proj.decision
        /\ proj'.applied = proj.applied /\ proj'.versions = proj.versions
    BY <1>0, <1>8 DEF DoCreateExport, CreateExport, DoCreateDraftIteration,
         CreateDraftIteration, DoSynthesizeReviews, SynthesizeReviews, DoStopDraftLoop,
         StopDraftLoop, ProjectState
  <2> QED BY <2>1, SoundKept
<1> QED BY <1>1, <1>2, <1>3, <1>4, <1>5, <1>6, <1>7, <1>8 DEF Review

SoundHolds == Sound(proj)

LEMMA StaysSound == Spec => []SoundHolds
<1>1. Init => SoundHolds BY EmptyProjectSound DEF Init, SoundHolds
<1>2. SoundHolds /\ [Next]_vars => SoundHolds'
  <2> SUFFICES ASSUME Sound(proj), [Next]_vars PROVE Sound(proj') BY DEF SoundHolds
  <2>1. CASE Next
    <3>1. Good(proj') BY <2>1, NextGood DEF Sound
    <3> QED BY <2>1, <3>1, PreparationSound, ReviewSound, TwoParts
  <2>2. CASE UNCHANGED vars BY <2>2 DEF vars
  <2> QED BY <2>1, <2>2
<1> QED BY <1>1, <1>2, PTL DEF Spec

\* The history accounts for the decision of every card, one entry starting where
\* the one before it for that card ended.
THEOREM HistoryIsComplete == Spec => []HistoryExplainsDecisions
<1>1. SoundHolds => HistoryExplainsDecisions
  BY DEF SoundHolds, Sound, HistoryExplainsDecisions
<1> QED BY <1>1, StaysSound, PTL

\* The applied version of a card is the last version that carries it, and a card
\* is carried only after some lawyer accepted it.
THEOREM AppliedStaysTracked == Spec => []AppliedTracksRevisions
<1>1. SoundHolds => AppliedTracksRevisions
  BY DEF SoundHolds, Sound, AppliedTracksRevisions
<1> QED BY <1>1, StaysSound, PTL

-----------------------------------------------------------------------------
(* The audit log *)

LEMMA EmitAt ==
  ASSUME NEW log \in [AuditEvents -> Nat], NEW e \in AuditEvents
  PROVE  \A f \in AuditEvents : Emit(log, e)[f] = IF f = e THEN log[f] + 1 ELSE log[f]
BY DEF Emit

-----------------------------------------------------------------------------
(* Batch accept *)

\* What BatchAcceptsOnlyOrdinaryPending says of one step.
OrdinaryOnly ==
  audit'["review_issues_batch_accepted"] # audit["review_issues_batch_accepted"] =>
    \A c \in Cards :
      proj'.decision[c] # proj.decision[c] =>
        /\ proj.decision[c] = "pending"
        /\ proj'.decision[c] = "accepted"
        /\ c \notin CriticalCards

LEMMA BatchAcceptsOrdinary ==
  ASSUME Good(proj), DoBatchAccept
  PROVE  OrdinaryOnly
<1>1. PICK a \in Actors, ids \in SUBSET Cards :
        \E order \in Orders(ids \intersect Pending(proj)) :
          CanBatchAccept(proj, ids, a) /\ proj' = BatchAccept(proj, order, a)
  BY DEF DoBatchAccept, Step
<1>2. PICK order \in Orders(ids \intersect Pending(proj)) :
        CanBatchAccept(proj, ids, a) /\ proj' = BatchAccept(proj, order, a)
  BY <1>1
<1>3. proj \in ProjectState /\ ids \intersect Pending(proj) \in SUBSET Cards
  BY DEF Good
<1>4. proj'.decision = [c \in Cards |-> IF \E i \in DOMAIN order : order[i] = c
                                        THEN "accepted" ELSE proj.decision[c]]
  BY <1>2, <1>3 DEF BatchAccept, ProjectState
<1>5. \A i \in DOMAIN order : order[i] \in ids \intersect Pending(proj)
  BY <1>3, OrderType
<1>6. \A c \in ids \intersect Pending(proj) :
        proj.decision[c] = "pending" /\ c \notin CriticalCards
  BY <1>2 DEF CanBatchAccept, Pending
<1> QED BY <1>4, <1>5, <1>6 DEF OrdinaryOnly

\* Only a batch accept writes its row.
LEMMA BatchRow ==
  ASSUME audit \in [AuditEvents -> Nat], Next
  PROVE  \/ DoBatchAccept
         \/ audit'["review_issues_batch_accepted"] = audit["review_issues_batch_accepted"]
<1> DEFINE row == "review_issues_batch_accepted"
<1>1. ASSUME NEW e \in AuditEvents \ {row}, audit' = Emit(audit, e)
      PROVE  audit'[row] = audit[row]
  BY <1>1, EmitAt DEF AuditEvents
<1>2. CASE \/ DoAddSource \/ DoLockSourcePack \/ DoClassifyAndConfirm
           \/ DoSelectPlaybook \/ DoApproveDealMemo \/ DoApproveDraftingPlan
           \/ DoCreateV0
  <2>1. \E e \in AuditEvents \ {row} : audit' = Emit(audit, e)
    BY <1>2 DEF DoAddSource, DoLockSourcePack, DoClassifyAndConfirm, DoSelectPlaybook,
                DoApproveDealMemo, DoApproveDraftingPlan, DoCreateV0, Step, AuditEvents
  <2> QED BY <2>1, <1>1
<1>3. CASE \/ DoDecideIssue \/ DoCreateRevision \/ DoRunFinalQA \/ DoApproveFinal
           \/ DoCreateExport \/ DoCreateDraftIteration \/ DoSynthesizeReviews
           \/ DoStopDraftLoop
  <2>1. \E e \in AuditEvents \ {row} : audit' = Emit(audit, e)
    BY <1>3 DEF DoDecideIssue, DoCreateRevision, DoRunFinalQA, DoApproveFinal,
                DoCreateExport, DoCreateDraftIteration, DoSynthesizeReviews,
                DoStopDraftLoop, Step, AuditEvents
  <2> QED BY <2>1, <1>1
<1>4. CASE \/ DoAddSourceContent \/ DoAnswerIntake \/ DoDraftDealMemo
           \/ DoDraftDraftingPlan \/ DoRunReviews
  BY <1>4 DEF DoAddSourceContent, DoAnswerIntake, DoDraftDealMemo, DoDraftDraftingPlan,
              DoRunReviews, Step
<1> QED BY <1>2, <1>3, <1>4 DEF Next

\* A batch accept settles pending cards only, never a critical one, and leaves
\* earlier decisions alone.
THEOREM BatchIsOrdinary == Spec => BatchAcceptsOnlyOrdinaryPending
<1>1. IInv /\ [Next]_vars =>
        [audit'["review_issues_batch_accepted"] # audit["review_issues_batch_accepted"] =>
           \A c \in Cards :
             proj'.decision[c] # proj.decision[c] =>
               /\ proj.decision[c] = "pending"
               /\ proj'.decision[c] = "accepted"
               /\ c \notin CriticalCards]_vars
  <2> SUFFICES ASSUME IInv, Next PROVE OrdinaryOnly BY DEF OrdinaryOnly
  <2>1. CASE DoBatchAccept BY <2>1, BatchAcceptsOrdinary DEF IInv
  <2>2. CASE ~DoBatchAccept BY <2>2, BatchRow DEF IInv, OrdinaryOnly
  <2> QED BY <2>1, <2>2
<1> QED BY <1>1, IInvHolds, PTL DEF Spec, BatchAcceptsOnlyOrdinaryPending

-----------------------------------------------------------------------------
(* The rows of the log *)

PreparationEvents ==
  {"source_uploaded", "source_pack_locked", "contract_type_confirmed",
   "playbook_confirmed", "deal_memo_approved", "drafting_plan_approved"}

LEMMA PreparationRows ==
  ASSUME audit \in [AuditEvents -> Nat], Preparation
  PROVE  \A f \in AuditEvents \ PreparationEvents : audit'[f] = audit[f]
<1>1. audit' = audit \/ \E e \in PreparationEvents : audit' = Emit(audit, e)
  BY DEF Preparation, PreparationEvents, Step, DoAddSource, DoAddSourceContent,
       DoLockSourcePack, DoClassifyAndConfirm, DoSelectPlaybook, DoAnswerIntake,
       DoDraftDealMemo, DoApproveDealMemo, DoDraftDraftingPlan, DoApproveDraftingPlan
<1>2. PreparationEvents \subseteq AuditEvents BY DEF PreparationEvents, AuditEvents
<1> QED BY <1>1, <1>2, EmitAt

LEMMA ReviewRows ==
  ASSUME Good(proj), audit \in [AuditEvents -> Nat], Review
  PROVE  \A f \in PreparationEvents : audit'[f] = audit[f]
<1>0. PreparationEvents \subseteq AuditEvents BY DEF PreparationEvents, AuditEvents
<1>1. CASE DoBatchAccept
  <2>1. PICK a \in Actors, ids \in SUBSET Cards :
          \E order \in Orders(ids \intersect Pending(proj)) :
            audit' = [Emit(audit, "review_issues_batch_accepted") EXCEPT
                        !["issue_card_decided"] = @ + Cardinality(DOMAIN order)]
    BY <1>1 DEF DoBatchAccept, Step
  <2>2. PICK order : audit' = [Emit(audit, "review_issues_batch_accepted") EXCEPT
                                 !["issue_card_decided"] = @ + Cardinality(DOMAIN order)]
    BY <2>1
  <2>3. \A f \in PreparationEvents :
          f # "issue_card_decided" /\ f # "review_issues_batch_accepted"
    BY DEF PreparationEvents
  <2>4. Emit(audit, "review_issues_batch_accepted") \in [AuditEvents -> Nat]
    BY EmitType DEF AuditEvents
  <2>5. \A f \in PreparationEvents :
          audit'[f] = Emit(audit, "review_issues_batch_accepted")[f]
    BY <1>0, <2>2, <2>3, <2>4
  <2>6. "review_issues_batch_accepted" \in AuditEvents BY DEF AuditEvents
  <2> QED BY <1>0, <2>3, <2>5, <2>6, EmitAt
<1>2. CASE ~DoBatchAccept
  <2>1. audit' = audit \/ \E e \in AuditEvents \ PreparationEvents : audit' = Emit(audit, e)
    BY <1>2 DEF Review, AuditEvents, PreparationEvents, Step, DoCreateV0, DoRunReviews,
         DoDecideIssue, DoCreateRevision, DoRunFinalQA, DoApproveFinal, DoCreateExport,
         DoCreateDraftIteration, DoSynthesizeReviews, DoStopDraftLoop
  <2> QED BY <1>0, <2>1, EmitAt
<1> QED BY <1>1, <1>2

-----------------------------------------------------------------------------
(* The approvals and the documents *)

ApprovalRows(p, log) ==
  /\ IsFiniteSet(p.docs) /\ log["source_uploaded"] = Cardinality(p.docs)
  /\ log["source_pack_locked"] = Once(p.locked)
  /\ log["contract_type_confirmed"] = Once(p.ctype # None)
  /\ log["playbook_confirmed"] = Once(p.playbook # None)
  /\ log["deal_memo_approved"] = Once(p.memo.state = "approved")
  /\ log["drafting_plan_approved"] = Once(p.plan.state = "approved")

LEMMA ApprovalRowsKept ==
  ASSUME NEW p, NEW q, NEW log, NEW new, ApprovalRows(p, log),
         \A f \in PreparationEvents : new[f] = log[f],
         q.docs = p.docs, q.locked = p.locked, q.ctype = p.ctype,
         q.playbook = p.playbook,
         q.memo.state = "approved" <=> p.memo.state = "approved",
         q.plan.state = "approved" <=> p.plan.state = "approved"
  PROVE  ApprovalRows(q, new)
BY DEF ApprovalRows, PreparationEvents, Once

LEMMA PreparationApprovalRows ==
  ASSUME Good(proj), audit \in [AuditEvents -> Nat], ApprovalRows(proj, audit), Preparation
  PROVE  ApprovalRows(proj', audit')
<1> USE DEF Step
<1>0. proj \in ProjectState /\ Agrees(proj) BY DEF Good
<1>1. CASE DoAddSource
  <2>1. PICK d \in Docs : CanAddSource(proj, d) /\ proj' = AddSource(proj, d)
    BY <1>1 DEF DoAddSource
  <2>2. /\ proj'.docs = proj.docs \union {d} /\ d \notin proj.docs
        /\ proj'.locked = proj.locked /\ proj'.ctype = proj.ctype
        /\ proj'.playbook = proj.playbook /\ proj'.memo = proj.memo
        /\ proj'.plan = proj.plan /\ audit' = Emit(audit, "source_uploaded")
    BY <1>0, <1>1, <2>1 DEF DoAddSource, AddSource, CanAddSource, ProjectState
  <2>3. IsFiniteSet(proj'.docs) /\ Cardinality(proj'.docs) = Cardinality(proj.docs) + 1
    <3>1. IsFiniteSet(proj.docs) BY DEF ApprovalRows
    <3>2. /\ IsFiniteSet(proj.docs \union {d})
          /\ Cardinality(proj.docs \union {d}) = Cardinality(proj.docs) + 1
      BY <2>2, <3>1, FS_AddElement
    <3> QED BY <2>2, <3>2
  <2>4. \A f \in AuditEvents :
          audit'[f] = IF f = "source_uploaded" THEN audit[f] + 1 ELSE audit[f]
    BY <2>2, EmitAt DEF AuditEvents
  <2> QED BY <2>2, <2>3, <2>4 DEF ApprovalRows, AuditEvents
<1>2. CASE DoLockSourcePack
  <2>1. /\ proj'.docs = proj.docs /\ proj'.locked = TRUE
        /\ proj'.ctype = proj.ctype /\ proj'.playbook = proj.playbook
        /\ proj'.memo = proj.memo /\ proj'.plan = proj.plan
        /\ audit' = Emit(audit, "source_pack_locked")
        /\ proj.status = "sources_uploaded"
    BY <1>0, <1>2 DEF DoLockSourcePack, LockSourcePack, CanLockSourcePack, ProjectState
  <2>2. ~proj.locked BY <1>0, <2>1, RankOf DEF Agrees, AtLeast
  <2>3. \A f \in AuditEvents :
          audit'[f] = IF f = "source_pack_locked" THEN audit[f] + 1 ELSE audit[f]
    BY <2>1, EmitAt DEF AuditEvents
  <2> QED BY <2>1, <2>2, <2>3 DEF ApprovalRows, AuditEvents, Once
<1>3. CASE DoClassifyAndConfirm
  <2>1. /\ proj'.docs = proj.docs /\ proj'.locked = proj.locked
        /\ proj'.playbook = proj.playbook
        /\ proj'.memo = proj.memo /\ proj'.plan = proj.plan
        /\ audit' = Emit(audit, "contract_type_confirmed")
        /\ proj'.ctype \in ContractTypes
        /\ proj.status \in {"source_pack_locked", "type_suggested"}
    BY <1>0, <1>3 DEF DoClassifyAndConfirm, ClassifyAndConfirm, CanClassifyAndConfirm,
         ProjectState
  <2>2. proj.ctype = None /\ proj'.ctype # None
    BY <1>0, <2>1, RankOf, DataAssumption DEF Agrees, AtLeast
  <2>3. \A f \in AuditEvents :
          audit'[f] = IF f = "contract_type_confirmed" THEN audit[f] + 1 ELSE audit[f]
    BY <2>1, EmitAt DEF AuditEvents
  <2> QED BY <2>1, <2>2, <2>3 DEF ApprovalRows, AuditEvents, Once
<1>4. CASE DoSelectPlaybook
  <2>1. /\ proj'.docs = proj.docs /\ proj'.locked = proj.locked
        /\ proj'.ctype = proj.ctype
        /\ proj'.memo = proj.memo /\ proj'.plan = proj.plan
        /\ audit' = Emit(audit, "playbook_confirmed")
        /\ proj'.playbook \in Playbooks /\ proj.status = "type_confirmed"
    BY <1>0, <1>4 DEF DoSelectPlaybook, SelectPlaybook, CanSelectPlaybook, ProjectState
  <2>2. proj.playbook = None /\ proj'.playbook # None
    BY <1>0, <2>1, RankOf, DataAssumption DEF Agrees, AtLeast
  <2>3. \A f \in AuditEvents :
          audit'[f] = IF f = "playbook_confirmed" THEN audit[f] + 1 ELSE audit[f]
    BY <2>1, EmitAt DEF AuditEvents
  <2> QED BY <2>1, <2>2, <2>3 DEF ApprovalRows, AuditEvents, Once
<1>5. CASE DoApproveDealMemo
  <2>1. /\ proj'.docs = proj.docs /\ proj'.locked = proj.locked
        /\ proj'.ctype = proj.ctype /\ proj'.playbook = proj.playbook
        /\ proj'.memo.state = "approved" /\ proj'.plan = proj.plan
        /\ audit' = Emit(audit, "deal_memo_approved")
        /\ proj.status = "deal_memo_drafted"
    <3>1. PICK a \in Actors : CanApproveDealMemo(proj, a) /\ proj' = ApproveDealMemo(proj, a)
      BY <1>5 DEF DoApproveDealMemo
    <3>2. audit' = Emit(audit, "deal_memo_approved") BY <1>5 DEF DoApproveDealMemo
    <3> QED BY <1>0, <3>1, <3>2 DEF ApproveDealMemo, CanApproveDealMemo, ProjectState, Memo
  <2>2. proj.memo.state # "approved" BY <1>0, <2>1, RankOf DEF Agrees, AtLeast
  <2>3. \A f \in AuditEvents :
          audit'[f] = IF f = "deal_memo_approved" THEN audit[f] + 1 ELSE audit[f]
    BY <2>1, EmitAt DEF AuditEvents
  <2> QED BY <2>1, <2>2, <2>3 DEF ApprovalRows, AuditEvents, Once
<1>6. CASE DoApproveDraftingPlan
  <2>1. /\ proj'.docs = proj.docs /\ proj'.locked = proj.locked
        /\ proj'.ctype = proj.ctype /\ proj'.playbook = proj.playbook
        /\ proj'.plan.state = "approved" /\ proj'.memo = proj.memo
        /\ audit' = Emit(audit, "drafting_plan_approved")
        /\ proj.status = "drafting_plan_drafted"
    <3>1. PICK a \in Actors :
            CanApproveDraftingPlan(proj, a) /\ proj' = ApproveDraftingPlan(proj, a)
      BY <1>6 DEF DoApproveDraftingPlan
    <3>2. audit' = Emit(audit, "drafting_plan_approved") BY <1>6 DEF DoApproveDraftingPlan
    <3> QED BY <1>0, <3>1, <3>2 DEF ApproveDraftingPlan, CanApproveDraftingPlan,
              ProjectState, Plan
  <2>2. proj.plan.state # "approved" BY <1>0, <2>1, RankOf DEF Agrees, AtLeast
  <2>3. \A f \in AuditEvents :
          audit'[f] = IF f = "drafting_plan_approved" THEN audit[f] + 1 ELSE audit[f]
    BY <2>1, EmitAt DEF AuditEvents
  <2> QED BY <2>1, <2>2, <2>3 DEF ApprovalRows, AuditEvents, Once
<1>7. CASE DoAddSourceContent \/ DoAnswerIntake
  <2>1. /\ proj'.docs = proj.docs /\ proj'.locked = proj.locked
        /\ proj'.ctype = proj.ctype /\ proj'.playbook = proj.playbook
        /\ proj'.memo = proj.memo /\ proj'.plan = proj.plan /\ audit' = audit
    BY <1>0, <1>7 DEF DoAddSourceContent, AddSourceContent, DoAnswerIntake, AnswerIntake,
         ProjectState
  <2> QED BY <2>1, ApprovalRowsKept
<1>8. CASE DoDraftDealMemo
  <2>1. /\ proj'.docs = proj.docs /\ proj'.locked = proj.locked
        /\ proj'.ctype = proj.ctype /\ proj'.playbook = proj.playbook
        /\ proj'.memo.state = "drafted" /\ proj'.plan = proj.plan /\ audit' = audit
        /\ proj.status = "intake_in_progress"
    BY <1>0, <1>8 DEF DoDraftDealMemo, DraftDealMemo, CanDraftDealMemo, ProjectState
  <2>2. proj.memo.state # "approved" BY <1>0, <2>1, RankOf DEF Agrees, AtLeast
  <2> QED BY <2>1, <2>2, ApprovalRowsKept
<1>9. CASE DoDraftDraftingPlan
  <2>1. /\ proj'.docs = proj.docs /\ proj'.locked = proj.locked
        /\ proj'.ctype = proj.ctype /\ proj'.playbook = proj.playbook
        /\ proj'.plan.state = "drafted" /\ proj'.memo = proj.memo /\ audit' = audit
        /\ proj.status = "deal_memo_approved"
    BY <1>0, <1>9 DEF DoDraftDraftingPlan, DraftDraftingPlan, CanDraftDraftingPlan,
         ProjectState
  <2>2. proj.plan.state # "approved" BY <1>0, <2>1, RankOf DEF Agrees, AtLeast
  <2> QED BY <2>1, <2>2, ApprovalRowsKept
<1> QED BY <1>1, <1>2, <1>3, <1>4, <1>5, <1>6, <1>7, <1>8, <1>9 DEF Preparation

-----------------------------------------------------------------------------
(* The records of the review *)

RecordRows(p, log) ==
  /\ log["issue_card_decided"] = Len(p.history)
  /\ log["draft_created"] + log["revision_generated"] = Len(p.versions)
  /\ log["deterministic_qa_run"] = p.qaRuns
  /\ log["final_approved"] = Once(Finals(p) # {})
  /\ log["exported"] = Len(p.exports)
  /\ log["draft_iteration_created"] = Len(p.iterations)
  /\ log["draft_iteration_synthesized"] = p.runs["review_synthesizer"]

\* The fields those rows count.
SameCounted(p, q) ==
  /\ Len(q.history) = Len(p.history) /\ Len(q.versions) = Len(p.versions)
  /\ q.qaRuns = p.qaRuns /\ Finals(q) = Finals(p)
  /\ Len(q.exports) = Len(p.exports) /\ Len(q.iterations) = Len(p.iterations)
  /\ q.runs["review_synthesizer"] = p.runs["review_synthesizer"]

ReviewEvents ==
  {"issue_card_decided", "draft_created", "revision_generated", "deterministic_qa_run",
   "final_approved", "exported", "draft_iteration_created",
   "draft_iteration_synthesized"}

LEMMA RecordRowsKept ==
  ASSUME NEW p, NEW q, NEW log, NEW new, RecordRows(p, log), SameCounted(p, q),
         \A f \in ReviewEvents : new[f] = log[f]
  PROVE  RecordRows(q, new)
BY DEF RecordRows, SameCounted, ReviewEvents

LEMMA SynthesizerRuns ==
  ASSUME NEW p \in ProjectState, NEW role \in AgentRoles
  PROVE  RanAgent(p, role)["review_synthesizer"] =
           IF role = "review_synthesizer" THEN p.runs["review_synthesizer"] + 1
                                          ELSE p.runs["review_synthesizer"]
BY DEF RanAgent, ProjectState, AgentRoles, ReviewerRoles

LEMMA PreparationRecordRows ==
  ASSUME Good(proj), audit \in [AuditEvents -> Nat], RecordRows(proj, audit), Preparation
  PROVE  RecordRows(proj', audit')
<1> USE DEF Step
<1>0. proj \in ProjectState BY DEF Good
<1>1. \A f \in ReviewEvents : audit'[f] = audit[f]
  BY PreparationRows DEF ReviewEvents, AuditEvents, PreparationEvents
<1>2. SameRecords(proj, proj') BY PreparationKeepsRecords
<1>3. /\ proj'.qaRuns = proj.qaRuns
      /\ proj'.runs["review_synthesizer"] = proj.runs["review_synthesizer"]
  <2>1. CASE DoDraftDealMemo
    <3>1. proj'.qaRuns = proj.qaRuns /\ proj'.runs = RanAgent(proj, "deal_memo_drafter")
      BY <1>0, <2>1 DEF DoDraftDealMemo, DraftDealMemo, ProjectState
    <3> QED BY <1>0, <3>1, SynthesizerRuns DEF AgentRoles
  <2>2. CASE DoDraftDraftingPlan
    <3>1. /\ proj'.qaRuns = proj.qaRuns
          /\ proj'.runs = RanAgent(proj, "drafting_plan_drafter")
      BY <1>0, <2>2 DEF DoDraftDraftingPlan, DraftDraftingPlan, ProjectState
    <3> QED BY <1>0, <3>1, SynthesizerRuns DEF AgentRoles
  <2>3. CASE DoAddSource \/ DoAddSourceContent \/ DoLockSourcePack \/ DoClassifyAndConfirm
    BY <1>0, <2>3 DEF DoAddSource, AddSource, DoAddSourceContent, AddSourceContent,
         DoLockSourcePack, LockSourcePack, DoClassifyAndConfirm, ClassifyAndConfirm,
         ProjectState
  <2>4. CASE \/ DoSelectPlaybook \/ DoAnswerIntake \/ DoApproveDealMemo
             \/ DoApproveDraftingPlan
    BY <1>0, <2>4 DEF DoSelectPlaybook, SelectPlaybook, DoAnswerIntake, AnswerIntake,
         DoApproveDealMemo, ApproveDealMemo, DoApproveDraftingPlan, ApproveDraftingPlan,
         ProjectState
  <2> QED BY <2>1, <2>2, <2>3, <2>4 DEF Preparation
<1>4. SameCounted(proj, proj') BY <1>2, <1>3 DEF SameRecords, SameCounted, Finals
<1> QED BY <1>1, <1>4, RecordRowsKept

LEMMA ReviewRecordRows ==
  ASSUME Good(proj), Good(proj'), audit \in [AuditEvents -> Nat],
         RecordRows(proj, audit), Review
  PROVE  RecordRows(proj', audit')
<1> USE DEF Step
<1>0. /\ proj \in ProjectState /\ proj.history \in Seq(Entry)
      /\ proj.exports \in Seq(Export) /\ proj.versions \in Seq(Version)
      /\ proj.iterations \in Seq(Iteration) /\ proj.qaRuns \in Nat
  BY DEF Good, ProjectState
<1>1. ASSUME NEW e \in ReviewEvents, audit' = Emit(audit, e)
      PROVE  \A f \in ReviewEvents : audit'[f] = IF f = e THEN audit[f] + 1 ELSE audit[f]
  BY <1>1, EmitAt DEF ReviewEvents, AuditEvents
<1>2. \A f \in ReviewEvents : audit[f] \in Nat BY DEF ReviewEvents, AuditEvents
<1>3. CASE DoCreateV0
  <2>1. PICK id \in VersionIds : proj' = CreateV0(proj, id) BY <1>3 DEF DoCreateV0
  <2>2. /\ proj'.versions = Append(proj.versions, Draft(id, {}))
        /\ proj'.history = proj.history /\ proj'.qaRuns = proj.qaRuns
        /\ proj'.exports = proj.exports /\ proj'.iterations = proj.iterations
        /\ proj'.runs = RanAgent(proj, "contract_drafter")
    BY <1>0, <2>1 DEF CreateV0, ProjectState
  <2>3. Draft(id, {}) \in Version /\ ~Draft(id, {}).final BY DraftType DEF Draft
  <2>4. Finals(proj') = Finals(proj) BY <2>2, <2>3, AppendedText
  <2>5. proj'.runs["review_synthesizer"] = proj.runs["review_synthesizer"]
    BY <1>0, <2>2, SynthesizerRuns DEF AgentRoles
  <2>6. Len(proj'.versions) = Len(proj.versions) + 1 BY <1>0, <2>2, <2>3
  <2>7. audit' = Emit(audit, "draft_created") BY <1>3 DEF DoCreateV0
  <2>8. \A f \in ReviewEvents : audit'[f] = IF f = "draft_created" THEN audit[f] + 1 ELSE audit[f]
    BY <1>1, <2>7 DEF ReviewEvents
  <2>9. audit'["draft_created"] + audit'["revision_generated"] = Len(proj'.versions)
    <3>1. /\ audit'["draft_created"] = audit["draft_created"] + 1
          /\ audit'["revision_generated"] = audit["revision_generated"]
          /\ audit["draft_created"] \in Nat /\ audit["revision_generated"] \in Nat
      BY <1>2, <2>8 DEF ReviewEvents
    <3>2. audit["draft_created"] + audit["revision_generated"] = Len(proj.versions)
      BY DEF RecordRows
    <3> QED BY <2>6, <3>1, <3>2
  <2> QED BY <2>2, <2>4, <2>5, <2>8, <2>9 DEF RecordRows, ReviewEvents
<1>4. CASE DoCreateRevision
  <2>1. PICK id \in VersionIds : proj' = CreateRevision(proj, id)
    BY <1>4 DEF DoCreateRevision
  <2> DEFINE v == Draft(id, Accepted(proj))
  <2>2. /\ proj'.versions = Append(proj.versions, v)
        /\ proj'.history = proj.history /\ proj'.qaRuns = proj.qaRuns
        /\ proj'.exports = proj.exports /\ proj'.iterations = proj.iterations
        /\ proj'.runs = RanAgent(proj, "revision_agent")
    BY <1>0, <2>1 DEF CreateRevision, ProjectState
  <2>3. v \in Version /\ ~v.final BY DraftType DEF Draft, Accepted
  <2> HIDE DEF v
  <2>4. Finals(proj') = Finals(proj) BY <2>2, <2>3, AppendedText
  <2>5. proj'.runs["review_synthesizer"] = proj.runs["review_synthesizer"]
    BY <1>0, <2>2, SynthesizerRuns DEF AgentRoles
  <2>6. Len(proj'.versions) = Len(proj.versions) + 1 BY <1>0, <2>2, <2>3
  <2>7. audit' = Emit(audit, "revision_generated") BY <1>4 DEF DoCreateRevision
  <2>8. \A f \in ReviewEvents : audit'[f] = IF f = "revision_generated" THEN audit[f] + 1 ELSE audit[f]
    BY <1>1, <2>7 DEF ReviewEvents
  <2>9. audit'["draft_created"] + audit'["revision_generated"] = Len(proj'.versions)
    <3>1. /\ audit'["revision_generated"] = audit["revision_generated"] + 1
          /\ audit'["draft_created"] = audit["draft_created"]
          /\ audit["draft_created"] \in Nat /\ audit["revision_generated"] \in Nat
      BY <1>2, <2>8 DEF ReviewEvents
    <3>2. audit["draft_created"] + audit["revision_generated"] = Len(proj.versions)
      BY DEF RecordRows
    <3> QED BY <2>6, <3>1, <3>2
  <2> QED BY <2>2, <2>4, <2>5, <2>8, <2>9 DEF RecordRows, ReviewEvents
<1>5. CASE DoRunReviews
  <2>1. /\ SameRecords(proj, proj') /\ proj'.qaRuns = proj.qaRuns /\ audit' = audit
        /\ proj'.runs["review_synthesizer"] = proj.runs["review_synthesizer"]
    BY <1>0, <1>5 DEF DoRunReviews, RunReviews, ProjectState, SameRecords, AgentRoles,
         ReviewerRoles
  <2>2. SameCounted(proj, proj') BY <2>1 DEF SameRecords, SameCounted, Finals
  <2> QED BY <2>1, <2>2, RecordRowsKept
<1>6. CASE DoDecideIssue
  <2>1. PICK a \in Lawyers, c \in Cards, d \in Outcomes :
          proj' = DecideIssue(proj, c, d, a)
    BY <1>6 DEF DoDecideIssue, CanDecideIssue
  <2> DEFINE entry == [issue |-> c, previous |-> proj.decision[c], new |-> d, actor |-> a]
  <2>2. entry \in Entry BY <1>0 DEF Entry, ProjectState
  <2>3. /\ proj'.history = Append(proj.history, entry) /\ proj'.qaRuns = proj.qaRuns
        /\ proj'.versions = proj.versions /\ proj'.exports = proj.exports
        /\ proj'.iterations = proj.iterations /\ proj'.runs = proj.runs
    BY <1>0, <2>1 DEF DecideIssue, ProjectState
  <2> HIDE DEF entry
  <2>4. Len(proj'.history) = Len(proj.history) + 1 BY <1>0, <2>2, <2>3
  <2>5. Finals(proj') = Finals(proj) BY <2>3 DEF Finals
  <2>6. audit' = Emit(audit, "issue_card_decided") BY <1>6 DEF DoDecideIssue
  <2> QED BY <1>1, <1>2, <2>3, <2>4, <2>5, <2>6 DEF RecordRows, ReviewEvents
<1>7. CASE DoBatchAccept
  <2>1. PICK a \in Actors, ids \in SUBSET Cards :
          \E order \in Orders(ids \intersect Pending(proj)) :
            /\ CanBatchAccept(proj, ids, a)
            /\ proj' = BatchAccept(proj, order, a)
            /\ audit' = [Emit(audit, "review_issues_batch_accepted") EXCEPT
                           !["issue_card_decided"] = @ + Cardinality(DOMAIN order)]
    BY <1>7 DEF DoBatchAccept
  <2>2. PICK order \in Orders(ids \intersect Pending(proj)) :
            /\ CanBatchAccept(proj, ids, a)
            /\ proj' = BatchAccept(proj, order, a)
            /\ audit' = [Emit(audit, "review_issues_batch_accepted") EXCEPT
                           !["issue_card_decided"] = @ + Cardinality(DOMAIN order)]
    BY <2>1
  <2> DEFINE entries == [i \in DOMAIN order |->
                           [issue |-> order[i], previous |-> "pending",
                            new |-> "accepted", actor |-> a]]
             n == Cardinality(DOMAIN order)
  <2>3. n \in Nat /\ DOMAIN order = 1..n
    <3>1. /\ DOMAIN order = 1..Cardinality(ids \intersect Pending(proj))
          /\ Cardinality(ids \intersect Pending(proj)) \in Nat
      BY OrderType
    <3>2. n = Cardinality(ids \intersect Pending(proj)) BY <3>1, FS_Interval
    <3> QED BY <3>1, <3>2
  <2>4. a \in Lawyers BY <2>2 DEF CanBatchAccept
  <2>5. entries \in Seq(Entry) BY <2>4, EntriesType
  <2>6. Len(entries) = n BY <2>3, <2>5
  <2> HIDE DEF n
  <2>7. /\ proj'.history = proj.history \o entries /\ proj'.qaRuns = proj.qaRuns
        /\ proj'.versions = proj.versions /\ proj'.exports = proj.exports
        /\ proj'.iterations = proj.iterations /\ proj'.runs = proj.runs
    <3>1. proj' = [proj EXCEPT !.decision = BatchAccept(proj, order, a).decision,
                               !.history = proj.history \o entries]
      BY <1>0, <2>2 DEF BatchAccept, ProjectState
    <3> HIDE DEF entries
    <3> QED BY <1>0, <3>1 DEF ProjectState
  <2> HIDE DEF entries
  <2>8. Len(proj'.history) = Len(proj.history) + n
    <3>1. proj.history \in Seq(Entry) BY <1>0
    <3>2. Len(proj.history \o entries) = Len(proj.history) + Len(entries)
      BY <2>5, <3>1, ConcatProperties
    <3> QED BY <2>6, <2>7, <3>2
  <2>9. Finals(proj') = Finals(proj) BY <2>7 DEF Finals
  <2>10. /\ audit'["issue_card_decided"] = audit["issue_card_decided"] + n
         /\ \A f \in ReviewEvents : f # "issue_card_decided" => audit'[f] = audit[f]
    <3> DEFINE log == Emit(audit, "review_issues_batch_accepted")
    <3>1. log \in [AuditEvents -> Nat] BY EmitType DEF AuditEvents
    <3>2. \A f \in ReviewEvents : f \in AuditEvents /\ log[f] = audit[f]
      BY EmitAt DEF ReviewEvents, AuditEvents
    <3>3. audit' = [log EXCEPT !["issue_card_decided"] = log["issue_card_decided"] + n]
      BY <2>2 DEF n
    <3>4. "issue_card_decided" \in ReviewEvents BY DEF ReviewEvents
    <3> HIDE DEF log
    <3> QED BY <3>1, <3>2, <3>3, <3>4
  <2> QED BY <2>7, <2>8, <2>9, <2>10 DEF RecordRows, ReviewEvents
<1>8. CASE DoRunFinalQA
  <2>1. PICK found \in SUBSET Unraised, suggested \in SUBSET Unraised :
          proj' = RunFinalQA(proj, found, suggested)
    BY <1>8 DEF DoRunFinalQA
  <2> DEFINE det == RunDeterministicQA(proj, found)
  <2>2. SameRecords(proj, proj') /\ proj'.qaRuns = proj.qaRuns + 1
    BY <1>0, <2>1 DEF RunFinalQA, RunDeterministicQA, ProjectState, SameRecords
  <2>3. proj'.runs = RanAgent(proj, "final_qa_assistant")
    BY <1>0, <2>1 DEF RunFinalQA, RunDeterministicQA, ProjectState, RanAgent
  <2>4. proj'.runs["review_synthesizer"] = proj.runs["review_synthesizer"]
    BY <1>0, <2>3, SynthesizerRuns DEF AgentRoles
  <2>5. Finals(proj') = Finals(proj) BY <2>2 DEF SameRecords, Finals
  <2>6. audit' = Emit(audit, "deterministic_qa_run") BY <1>8 DEF DoRunFinalQA
  <2> QED BY <1>1, <1>2, <2>2, <2>4, <2>5, <2>6 DEF RecordRows, SameRecords, ReviewEvents
<1>9. CASE DoApproveFinal
  <2>1. PICK a \in Lawyers : CanApproveFinal(proj, a) /\ proj' = ApproveFinal(proj, a)
    BY <1>9 DEF DoApproveFinal, CanApproveFinal
  <2> DEFINE n == Len(proj.versions)
             last == [proj.versions[n] EXCEPT !.final = TRUE, !.approvedBy = a]
  <2>2. n \in 1..n /\ proj.versions[n] \in Version BY <1>0, <2>1 DEF CanApproveFinal
  <2>3. last.final BY <2>2 DEF Version
  <2>4. /\ proj'.versions = [proj.versions EXCEPT ![n] = last]
        /\ proj'.history = proj.history /\ proj'.qaRuns = proj.qaRuns
        /\ proj'.exports = proj.exports /\ proj'.iterations = proj.iterations
        /\ proj'.runs = proj.runs
    BY <1>0, <2>1 DEF ApproveFinal, ProjectState
  <2> HIDE DEF last
  <2>5. Len(proj'.versions) = n /\ proj'.versions[n] = last BY <1>0, <2>2, <2>4, ExceptSeq
  <2>6. Finals(proj') # {} BY <2>2, <2>3, <2>5 DEF Finals
  <2>7. Finals(proj) = {}
    <3>1. ~AtLeast(proj.status, "final_approved")
      BY <2>1, RankOf DEF CanApproveFinal, AtLeast
    <3> QED BY <1>0, <3>1, NotYetFinal DEF Good
  <2>8. audit' = Emit(audit, "final_approved") BY <1>9 DEF DoApproveFinal
  <2> QED BY <1>1, <1>2, <2>4, <2>5, <2>6, <2>7, <2>8 DEF RecordRows, ReviewEvents, Once
<1>10. CASE DoCreateExport
  <2>1. PICK type \in ExportTypes, marked \in BOOLEAN : proj' = CreateExport(proj, type, marked)
    BY <1>10 DEF DoCreateExport
  <2>2. /\ proj'.history = proj.history /\ proj'.qaRuns = proj.qaRuns
        /\ proj'.versions = proj.versions /\ proj'.iterations = proj.iterations
        /\ proj'.runs = proj.runs
    BY <1>0, <2>1 DEF CreateExport, ProjectState
  <2>3. PICK file : proj'.exports = Append(proj.exports, file)
    BY <1>0, <2>1 DEF CreateExport, ProjectState
  <2>4. Len(proj'.exports) = Len(proj.exports) + 1 BY <1>0, <2>3
  <2>5. Finals(proj') = Finals(proj) BY <2>2 DEF Finals
  <2>6. audit' = Emit(audit, "exported") BY <1>10 DEF DoCreateExport
  <2> QED BY <1>1, <1>2, <2>2, <2>4, <2>5, <2>6 DEF RecordRows, ReviewEvents
<1>11. CASE DoCreateDraftIteration
  <2>1. /\ proj'.history = proj.history /\ proj'.qaRuns = proj.qaRuns
        /\ proj'.versions = proj.versions /\ proj'.exports = proj.exports
        /\ proj'.runs = proj.runs
    BY <1>0, <1>11 DEF DoCreateDraftIteration, CreateDraftIteration, ProjectState
  <2>2. PICK it : proj'.iterations = Append(proj.iterations, it)
    BY <1>0, <1>11 DEF DoCreateDraftIteration, CreateDraftIteration, ProjectState
  <2>3. Len(proj'.iterations) = Len(proj.iterations) + 1 BY <1>0, <2>2
  <2>4. Finals(proj') = Finals(proj) BY <2>1 DEF Finals
  <2>5. audit' = Emit(audit, "draft_iteration_created") BY <1>11 DEF DoCreateDraftIteration
  <2> QED BY <1>1, <1>2, <2>1, <2>3, <2>4, <2>5 DEF RecordRows, ReviewEvents
<1>12. CASE DoSynthesizeReviews
  <2>1. PICK k \in 1..Len(proj.iterations) : proj' = SynthesizeReviews(proj, k)
    BY <1>12 DEF DoSynthesizeReviews
  <2>2. /\ proj'.history = proj.history /\ proj'.qaRuns = proj.qaRuns
        /\ proj'.versions = proj.versions /\ proj'.exports = proj.exports
        /\ proj'.runs = RanAgent(proj, "review_synthesizer")
    BY <1>0, <2>1 DEF SynthesizeReviews, ProjectState
  <2>3. PICK it : proj'.iterations = [proj.iterations EXCEPT ![k] = it]
    BY <1>0, <2>1 DEF SynthesizeReviews, ProjectState
  <2>4. Len(proj'.iterations) = Len(proj.iterations) BY <1>0, <2>3
  <2>5. Finals(proj') = Finals(proj) BY <2>2 DEF Finals
  <2>6. proj'.runs["review_synthesizer"] = proj.runs["review_synthesizer"] + 1
    BY <1>0, <2>2, SynthesizerRuns DEF AgentRoles
  <2>7. audit' = Emit(audit, "draft_iteration_synthesized") BY <1>12 DEF DoSynthesizeReviews
  <2> QED BY <1>1, <1>2, <2>2, <2>4, <2>5, <2>6, <2>7 DEF RecordRows, ReviewEvents
<1>13. CASE DoStopDraftLoop
  <2>1. PICK k \in 1..Len(proj.iterations) : proj' = StopDraftLoop(proj, k)
    BY <1>13 DEF DoStopDraftLoop
  <2>2. /\ proj'.history = proj.history /\ proj'.qaRuns = proj.qaRuns
        /\ proj'.versions = proj.versions /\ proj'.exports = proj.exports
        /\ proj'.runs = proj.runs
    BY <1>0, <2>1 DEF StopDraftLoop, ProjectState
  <2>3. PICK it : proj'.iterations = [proj.iterations EXCEPT ![k] = it]
    BY <1>0, <2>1 DEF StopDraftLoop, ProjectState
  <2>4. Len(proj'.iterations) = Len(proj.iterations) BY <1>0, <2>3
  <2>5. SameCounted(proj, proj') BY <2>2, <2>4 DEF SameCounted, Finals
  <2>6. audit' = Emit(audit, "draft_iteration_stopped") BY <1>13 DEF DoStopDraftLoop
  <2>7. \A f \in ReviewEvents : audit'[f] = audit[f]
    <3>1. "draft_iteration_stopped" \in AuditEvents BY DEF AuditEvents
    <3>2. \A f \in ReviewEvents : f \in AuditEvents /\ f # "draft_iteration_stopped"
      BY DEF ReviewEvents, AuditEvents
    <3> QED BY <2>6, <3>1, <3>2, EmitAt
  <2> QED BY <2>5, <2>7, RecordRowsKept
<1> QED BY <1>3, <1>4, <1>5, <1>6, <1>7, <1>8, <1>9, <1>10, <1>11, <1>12, <1>13 DEF Review

RowsMatch == ApprovalRows(proj, audit) /\ RecordRows(proj, audit)

\* One row per document, decision, version, QA run, export, iteration and synthesis,
\* and one for the lock, the type, the playbook and each approval once there is one:
\* none is missing from the audit log, and none is written twice.
THEOREM AuditTellsTheStory == Spec => []AuditMatchesState
<1>1. Init => RowsMatch
  <2> SUFFICES ASSUME Init PROVE RowsMatch OBVIOUS
  <2>1. IsFiniteSet({}) /\ Cardinality({}) = 0 BY FS_EmptySet
  <2>2. ApprovalRows(proj, audit)
    BY <2>1 DEF Init, EmptyProject, ApprovalRows, Once, AuditEvents
  <2>3. RecordRows(proj, audit)
    BY DEF Init, EmptyProject, RecordRows, Once, Finals, AuditEvents, AgentRoles
  <2> QED BY <2>2, <2>3 DEF RowsMatch
<1>2. IInv /\ RowsMatch /\ [Next]_vars => RowsMatch'
  <2> SUFFICES ASSUME IInv, RowsMatch, [Next]_vars PROVE RowsMatch' OBVIOUS
  <2>1. CASE Next
    <3>1. Good(proj) /\ Good(proj') /\ audit \in [AuditEvents -> Nat]
      BY <2>1, NextGood DEF IInv
    <3>2. CASE Preparation
      BY <3>1, <3>2, PreparationApprovalRows, PreparationRecordRows DEF RowsMatch
    <3>3. CASE Review
      <4>1. SameInputs(proj, proj') BY <3>1, <3>3, ReviewKeepsInputs
      <4>2. ApprovalRows(proj', audit')
        BY <3>1, <3>3, <4>1, ReviewRows, ApprovalRowsKept DEF RowsMatch, SameInputs
      <4> QED BY <3>1, <3>3, <4>2, ReviewRecordRows DEF RowsMatch
    <3> QED BY <2>1, <3>2, <3>3, TwoParts
  <2>2. CASE UNCHANGED vars
    BY <2>2 DEF vars, RowsMatch, ApprovalRows, RecordRows, Finals
  <2> QED BY <2>1, <2>2
<1>3. IInv /\ RowsMatch => AuditMatchesState
  <2> SUFFICES ASSUME IInv, RowsMatch PROVE AuditMatchesState OBVIOUS
  <2>1. Cardinality(Finals(proj)) = Once(Finals(proj) # {})
    <3>1. CASE Finals(proj) = {} BY <3>1, FS_EmptySet DEF Once
    <3>2. CASE Finals(proj) # {}
      <4>1. PICK i : i \in Finals(proj) BY <3>2
      <4>2. Finals(proj) = {i} BY <4>1 DEF IInv, Good, Settled
      <4> QED BY <3>2, <4>2, FS_Singleton DEF Once
    <3> QED BY <3>1, <3>2
  <2> QED BY <2>1 DEF RowsMatch, ApprovalRows, RecordRows, AuditMatchesState
<1> QED BY <1>1, <1>2, <1>3, IInvHolds, PTL DEF Spec
=============================================================================
