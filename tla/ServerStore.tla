---------------------------- MODULE ServerStore -----------------------------
(***************************************************************************)
(* Requests against one stored project: the route handlers of              *)
(* packages/web/app/api/projects and packages/web/lib/server-store.ts.     *)
(*                                                                         *)
(* A request authorizes against one read of the project, computes its      *)
(* result from a second read, overwrites the whole stored blob with it,    *)
(* then appends the audit rows and decision_history entries it owes, one   *)
(* at a time.  There is no lock and no version check, so every await is a  *)
(* point where another request may run, where an append may be refused by  *)
(* the storage, and where the server may stop.  The storage survives the   *)
(* server (the file and the postgres adapters).                            *)
(*                                                                         *)
(* The project starts where review starts: a first draft with the cards of *)
(* a review round, or a revision made after one acceptance.  Each request  *)
(* comes from an actor of its own and runs once.  An id the server makes   *)
(* (of a version, a card, a membership) is the request's, which is as      *)
(* unique as the UUID of the code.                                         *)
(***************************************************************************)
EXTENDS ProjectSoundness

CONSTANTS
  Requests,       \* requests that may be made
  ActorOf,        \* the actor of each
  Operations,     \* what each may ask for (see AllOperations)
  InitialMembers, \* memberships when the requests begin
  FirstCards,     \* cards of the review round before the requests
  FirstDraft,     \* id of version v0
  FirstRevision,  \* id of the revision a project may start with
  MaxInFlight,    \* bound: requests being served at once
  MaxFaults       \* bound: refused appends and server stops

ProjectRoles == {"owner_lawyer", "reviewer_lawyer", "business_contributor",
                 "business_viewer"}
LawyerRoles == {"owner_lawyer", "reviewer_lawyer"}

\* The part of PROJECT_ROLE_MATRIX the operations below need.
\* Mutant: a reviewing lawyer may approve, as well as advise.
RoleMatrixLoose ==
  [owner_lawyer |-> {"decide_issue", "create_revision", "run_qa",
                     "approve_final", "batch_accept_issues", "manage_memberships"},
   reviewer_lawyer |-> {"decide_issue", "create_revision", "run_qa",
                        "approve_final", "batch_accept_issues"},
   business_contributor |-> {}, business_viewer |-> {}]
RoleMatrix ==
  [owner_lawyer |-> {"decide_issue", "create_revision", "run_qa",
                     "approve_final", "batch_accept_issues", "manage_memberships"},
   reviewer_lawyer |-> {"decide_issue", "create_revision", "run_qa",
                        "batch_accept_issues"},
   business_contributor |-> {}, business_viewer |-> {}]

\* mapOperationToPermission, and what the two membership routes require.
PermissionFor ==
  [decide_issue |-> "decide_issue",
   create_revision |-> "create_revision", run_mock_final_qa |-> "run_qa",
   approve_final |-> "approve_final",
   batch_accept_review_issues |-> "batch_accept_issues",
   add_membership |-> "manage_memberships", disable_membership |-> "manage_memberships"]

MemberIds == {m.id : m \in InitialMembers} \union Requests
Membership == [id : MemberIds, actor : Actors, role : ProjectRoles, disabled : BOOLEAN]

AllOperations ==
  [name : {"create_revision", "run_mock_final_qa", "approve_final"}]
    \union [name : {"decide_issue"}, card : Cards, decision : Outcomes]
    \union [name : {"batch_accept_review_issues"}, cards : SUBSET Cards]
    \union [name : {"add_membership"}, actor : Actors, role : ProjectRoles]
    \union [name : {"disable_membership"}, member : MemberIds]

\* Operations that wait for a model provider before they return.
AgentOperations == {"create_revision", "run_mock_final_qa"}

ASSUME RequestsAssumption ==
  /\ ActorOf \in [Requests -> Actors]
  /\ \A r, s \in Requests : ActorOf[r] = ActorOf[s] => r = s
  /\ Requests \union {FirstDraft, FirstRevision} \subseteq VersionIds
  /\ {FirstDraft, FirstRevision} \intersect Requests = {}
  /\ Operations \in [Requests -> SUBSET AllOperations]
  /\ FirstCards \subseteq Cards \ Requests
ASSUME MembersAssumption ==
  /\ InitialMembers \subseteq Membership
  /\ \A m \in InitialMembers :
       /\ ~m.disabled /\ m.id \notin Requests
       /\ m.role \in LawyerRoles => m.actor \in Lawyers
       /\ \A n \in InitialMembers : m.id = n.id \/ m.actor = n.actor => m = n
  /\ \E m \in InitialMembers : m.role = "owner_lawyer"
ASSUME LimitsAssumption == MaxInFlight \in Nat /\ MaxFaults \in Nat

VARIABLES
  blob,    \* the stored ProjectState and, inside it, its memberships
  rows,    \* the audit log: rows as [request, event, ref]
  journal, \* the decision_history journal
  req,     \* each request: where it is, what it asked for, what it holds
  faults   \* refused appends and server stops so far
vars == <<blob, rows, journal, req, faults>>

Stages == {"waiting", "authorized", "loaded", "saved",
           "done", "denied", "refused", "agent_failed", "append_failed", "lost"}
InFlight == {r \in Requests : req[r].at \in {"authorized", "loaded", "saved"}}
Calm == InFlight = {}
\* Where a request has not said yet what it asks for, or it no longer matters.
Unasked == {"waiting", "denied", "refused", "append_failed", "lost"}
\* No two requests have been served at the same time.
Undisturbed == \A r \in Requests : req[r].alone

-----------------------------------------------------------------------------
(* What an operation makes of a snapshot *)

Active(members, a) == {m \in members : m.actor = a /\ ~m.disabled}

\* requireProjectPermission.
Permitted(members, a, op) ==
  \E m \in Active(members, a) : PermissionFor[op.name] \in RoleMatrix[m.role]

ActiveOwners(members) == {m \in members : m.role = "owner_lawyer" /\ ~m.disabled}

CanAddMembership(members, op) ==
  /\ op.role \in LawyerRoles => op.actor \in Lawyers
  /\ Active(members, op.actor) = {}

\* Mutant: the last active owner may be disabled.
CanDisableMembershipAny(members, op) == \E m \in members : m.id = op.member
CanDisableMembership(members, op) ==
  \E m \in members :
    /\ m.id = op.member
    /\ m.role = "owner_lawyer" /\ ~m.disabled => ActiveOwners(members) # {m}
DisableMembership(members, id) ==
  {IF m.id = id THEN [m EXCEPT !.disabled = TRUE] ELSE m : m \in members}

\* What is owed to the append-only stores for a result: the rows in the order
\* they are emitted, then the entries the result has beyond the snapshot.
Row(r, event, ref) == [request |-> r, event |-> event, ref |-> ref]
\* Mutant: the slice starts one entry late.
NewEntriesLate(snap, next) == SubSeq(next.history, Len(snap.history) + 2, Len(next.history))
NewEntries(snap, next) == SubSeq(next.history, Len(snap.history) + 1, Len(next.history))

Asks(r, name) == req[r].at = "loaded" /\ req[r].op.name = name

\* What the operation asks of the snapshot: false when the code throws.
Accepts(op, a, snap) ==
  LET p == snap.project IN
  CASE op.name = "decide_issue"  -> CanDecideIssue(p, op.card, op.decision, a, TRUE)
    [] op.name = "batch_accept_review_issues" -> CanBatchAccept(p, op.cards, a)
    [] op.name = "create_revision"   -> CanCreateRevision(p)
    [] op.name = "run_mock_final_qa" -> CanRunFinalQA(p)
    [] op.name = "approve_final"     -> CanApproveFinal(p, a)
    [] op.name = "add_membership"     -> CanAddMembership(snap.members, op)
    [] op.name = "disable_membership" -> CanDisableMembership(snap.members, op)

-----------------------------------------------------------------------------
(* The project when the requests begin *)

Drafted(d, t, b, a) ==
  LET ready == SelectPlaybook(
                 ClassifyAndConfirm(LockSourcePack(AddSource(EmptyProject, d)), t), b)
      agreed == ApproveDealMemo(DraftDealMemo(ready), a)
  IN  CreateV0(ApproveDraftingPlan(DraftDraftingPlan(agreed), a), FirstDraft)

Reviewed(d, t, b, a) == RunReviews(Drafted(d, t, b, a), FirstCards)

Revised(d, t, b, a, c) ==
  CreateRevision(DecideIssue(Reviewed(d, t, b, a), c, "accepted", a), FirstRevision)

\* Who has brought it here.
FirstOwner == (CHOOSE m \in InitialMembers : m.role = "owner_lawyer").actor

Idle == [at |-> "waiting", op |-> None, snap |-> None, rows |-> << >>, entries |-> << >>,
         alone |-> TRUE]

Init ==
  /\ \E d \in Docs, t \in ContractTypes, b \in Playbooks, c \in FirstCards :
       /\ b \in Candidates(t)
       /\ QuestionsOf[b] \intersect RequiredQuestions = {}
       /\ \E p \in {Reviewed(d, t, b, FirstOwner), Revised(d, t, b, FirstOwner, c)} :
            blob = [project |-> p, members |-> InitialMembers]
  /\ rows = {Row(None, "issue_card_decided", c) : c \in FirstCards \ Pending(blob.project)}
              \union {Row(None, "revision_generated", v) :
                        v \in UsedIds(blob.project) \ {FirstDraft}}
  /\ journal = blob.project.history
  /\ req = [r \in Requests |-> Idle]
  /\ faults = 0

-----------------------------------------------------------------------------
(* Serving a request *)

\* The route handler reads the project and checks the caller's permission.  alone:
\* no other request was served at the same time.
Authorize(r) == \E op \in Operations[r] :
  /\ req[r].at = "waiting"
  /\ Cardinality(InFlight) < MaxInFlight
  /\ Permitted(blob.members, ActorOf[r], op)
  /\ req' = [s \in Requests |->
               IF s = r THEN [Idle EXCEPT !.at = "authorized", !.op = op, !.alone = Calm]
               ELSE [req[s] EXCEPT !.alone = @ /\ s \notin InFlight]]
  /\ UNCHANGED <<blob, rows, journal, faults>>

\* Requests rs end with nothing to show for it: what they asked for is forgotten.
Dropped(rs, how) ==
  [r \in Requests |-> IF r \in rs THEN [Idle EXCEPT !.at = how, !.alone = req[r].alone]
                                 ELSE req[r]]

Deny(r) == \E op \in Operations[r] :
  /\ req[r].at = "waiting"
  /\ ~Permitted(blob.members, ActorOf[r], op)
  /\ req' = Dropped({r}, "denied")
  /\ UNCHANGED <<blob, rows, journal, faults>>

\* The store reads the project again: const current = await a.getProjectState.
Load(r) ==
  /\ req[r].at = "authorized"
  /\ req' = [req EXCEPT ![r].at = "loaded", ![r].snap = blob]
  /\ UNCHANGED <<blob, rows, journal, faults>>

\* Mutant: a request that ended still holds what it had read and owed.
EndedHolding(r, how) == [req EXCEPT ![r].at = how]
Ended(r, how) ==
  [req EXCEPT ![r] = [Idle EXCEPT !.at = how, !.op = req[r].op, !.alone = req[r].alone]]

Refuse(r) ==
  /\ req[r].at = "loaded"
  /\ ~Accepts(req[r].op, ActorOf[r], req[r].snap)
  /\ req' = Dropped({r}, "refused")
  /\ UNCHANGED <<blob, rows, journal, faults>>

\* The agent of the operation fails, and the operation throws.
\* Mutant: the row of what was to be made is written before the agent is asked.
AgentFailsLeavingRow(r) ==
  /\ req[r].at = "loaded"
  /\ req[r].op.name \in AgentOperations
  /\ Accepts(req[r].op, ActorOf[r], req[r].snap)
  /\ req' = Ended(r, "agent_failed")
  /\ rows' = rows \union {Row(r, "revision_generated", r)}
  /\ UNCHANGED <<blob, journal, faults>>
AgentFails(r) ==
  /\ req[r].at = "loaded"
  /\ req[r].op.name \in AgentOperations
  /\ Accepts(req[r].op, ActorOf[r], req[r].snap)
  /\ req' = Ended(r, "agent_failed")
  /\ UNCHANGED <<blob, rows, journal, faults>>

\* saveProjectState: the result, computed from the snapshot, replaces whatever
\* is stored by now.
\* Mutant: the stored history is kept and the result's entries added to it.
SaveMerging(r, project, members, newRows) ==
  /\ req[r].at = "loaded"
  /\ Accepts(req[r].op, ActorOf[r], req[r].snap)
  /\ blob' = [project |-> [project EXCEPT !.history =
                             blob.project.history \o NewEntries(req[r].snap.project, project)],
              members |-> members]
  /\ req' = [req EXCEPT ![r].at = "saved", ![r].snap = None, ![r].rows = newRows,
                        ![r].entries = NewEntries(req[r].snap.project, project)]
  /\ UNCHANGED <<rows, journal, faults>>
Save(r, project, members, newRows) ==
  /\ req[r].at = "loaded"
  /\ Accepts(req[r].op, ActorOf[r], req[r].snap)
  /\ blob' = [project |-> project, members |-> members]
  /\ req' = [req EXCEPT ![r].at = "saved", ![r].snap = None, ![r].rows = newRows,
                        ![r].entries = NewEntries(req[r].snap.project, project)]
  /\ UNCHANGED <<rows, journal, faults>>

SaveDecision(r) ==
  LET s == req[r].snap
      op == req[r].op IN
  /\ Asks(r, "decide_issue")
  /\ Save(r, DecideIssue(s.project, op.card, op.decision, ActorOf[r]), s.members,
          <<Row(r, "issue_card_decided", op.card)>>)

SaveBatch(r) ==
  LET s == req[r].snap
      op == req[r].op IN
  /\ Asks(r, "batch_accept_review_issues")
  /\ \E order \in Orders(op.cards \intersect Pending(s.project)) :
       Save(r, BatchAccept(s.project, order, ActorOf[r]), s.members,
            [i \in DOMAIN order |-> Row(r, "issue_card_decided", order[i])]
              \o <<Row(r, "review_issues_batch_accepted", None)>>)

SaveRevision(r) ==
  LET s == req[r].snap IN
  /\ Asks(r, "create_revision")
  /\ Save(r, CreateRevision(s.project, r), s.members,
          <<Row(r, "revision_generated", r)>>)

\* Deterministic QA or the assistant may find one thing new.
SaveFinalQA(r) == \E found \in SUBSET ({r} \intersect Cards) :
  LET s == req[r].snap IN
  /\ Asks(r, "run_mock_final_qa")
  /\ Save(r, RunFinalQA(s.project, found, {}), s.members,
          <<Row(r, "deterministic_qa_run", Latest(s.project).id)>>)

SaveFinal(r) ==
  LET s == req[r].snap IN
  /\ Asks(r, "approve_final")
  /\ Save(r, ApproveFinal(s.project, ActorOf[r]), s.members,
          <<Row(r, "final_approved", Latest(s.project).id)>>)

SaveNewMember(r) ==
  LET s == req[r].snap
      op == req[r].op IN
  /\ Asks(r, "add_membership")
  /\ Save(r, s.project,
          s.members \union {[id |-> r, actor |-> op.actor, role |-> op.role,
                             disabled |-> FALSE]},
          <<Row(r, "membership_created", r)>>)

SaveDisabledMember(r) ==
  LET s == req[r].snap
      op == req[r].op IN
  /\ Asks(r, "disable_membership")
  /\ \E m \in s.members : m.id = op.member /\ ~m.disabled
  /\ Save(r, s.project, DisableMembership(s.members, op.member),
          <<Row(r, "membership_disabled", op.member)>>)

\* A membership that is disabled already is returned as it is: no save, no row.
DisableAgain(r) ==
  LET s == req[r].snap
      op == req[r].op IN
  /\ Asks(r, "disable_membership")
  /\ \E m \in s.members : m.id = op.member /\ m.disabled
  /\ req' = Ended(r, "done")
  /\ UNCHANGED <<blob, rows, journal, faults>>

AppendAuditLog(r) ==
  /\ req[r].at = "saved"
  /\ req[r].rows # << >>
  /\ rows' = rows \union {Head(req[r].rows)}
  /\ req' = [req EXCEPT ![r].rows = Tail(@)]
  /\ UNCHANGED <<blob, journal, faults>>

AppendDecisionHistory(r) ==
  /\ req[r].at = "saved"
  /\ req[r].rows = << >> /\ req[r].entries # << >>
  /\ journal' = Append(journal, Head(req[r].entries))
  /\ req' = [req EXCEPT ![r].entries = Tail(@)]
  /\ UNCHANGED <<blob, rows, faults>>

Respond(r) ==
  /\ req[r].at = "saved"
  /\ req[r].rows = << >> /\ req[r].entries = << >>
  /\ req' = Ended(r, "done")
  /\ UNCHANGED <<blob, rows, journal, faults>>

\* The storage refuses an append: the handler gives up and answers with an error.
AppendFails(r) ==
  /\ faults < MaxFaults
  /\ req[r].at = "saved"
  /\ req[r].rows # << >> \/ req[r].entries # << >>
  /\ req' = Dropped({r}, "append_failed")
  /\ faults' = faults + 1
  /\ UNCHANGED <<blob, rows, journal>>

\* The server stops: the requests it was serving are gone, the storage is not.
ServerStops ==
  /\ faults < MaxFaults
  /\ ~Calm
  /\ req' = Dropped(InFlight, "lost")
  /\ faults' = faults + 1
  /\ UNCHANGED <<blob, rows, journal>>

Next ==
  \/ \E r \in Requests :
       \/ Authorize(r)     \/ Deny(r)          \/ Load(r)
       \/ Refuse(r)        \/ AgentFails(r)    \/ SaveDecision(r)
       \/ SaveBatch(r)     \/ SaveRevision(r)  \/ SaveFinalQA(r)
       \/ SaveFinal(r)     \/ SaveNewMember(r) \/ SaveDisabledMember(r)
       \/ DisableAgain(r)  \/ AppendAuditLog(r) \/ AppendDecisionHistory(r)
       \/ Respond(r)       \/ AppendFails(r)
  \/ ServerStops

Spec == Init /\ [][Next]_vars

RowEvents == {"issue_card_decided", "review_issues_batch_accepted", "revision_generated",
              "deterministic_qa_run", "final_approved", "membership_created",
              "membership_disabled"}
Rows == [request : Requests \union {None}, event : RowEvents,
         ref : VersionIds \union Cards \union MemberIds \union {None}]

\* The shapes of the stores; a snapshot is held only between the read and the
\* save, and writes are owed only between the save and the answer.
TypeOK ==
  /\ blob.project \in ProjectState /\ blob.members \subseteq Membership
  /\ rows \subseteq Rows
  /\ journal \in Seq(Entry)
  /\ faults \in 0..MaxFaults
  /\ \A r \in Requests :
       /\ req[r].at \in Stages
       /\ req[r].at \in Unasked => req[r].op = None
       /\ req[r].at \notin Unasked => req[r].op \in AllOperations
       /\ req[r].at # "loaded" => req[r].snap = None
       /\ req[r].at # "saved" => req[r].rows = << >> /\ req[r].entries = << >>

-----------------------------------------------------------------------------
(* Requests that do not overlap with another *)

\* What an operation that request r asked for has left in store s.
Effective(s, r, op) ==
  LET p == s.project IN
  CASE op.name = "decide_issue" ->
         \E i \in 1..Len(p.history) :
           p.history[i].issue = op.card /\ p.history[i].new = op.decision
             /\ p.history[i].actor = ActorOf[r]
    [] op.name = "batch_accept_review_issues" -> op.cards \intersect Pending(p) = {}
    [] op.name = "create_revision" -> r \in UsedIds(p)
    [] op.name = "run_mock_final_qa" -> p.qaRuns > 0
    [] op.name = "approve_final" ->
         \E i \in Finals(p) : p.versions[i].approvedBy = ActorOf[r]
    [] op.name = "add_membership" -> \E m \in s.members : m.id = r
    [] op.name = "disable_membership" ->
         \E m \in s.members : m.id = op.member /\ m.disabled

\* A request that was answered with success, and that no other overlapped, stays in
\* force, whatever is asked next, wherever later requests are cut off and however
\* these overlap.
AcknowledgedIsStored ==
  \A r \in Requests : req[r].at = "done" /\ req[r].alone => Effective(blob, r, req[r].op)

\* persistence/types.ts: no entry is ever removed from decision_history, so the
\* snapshot has every entry the journal has.
NoEntryRemoved ==
  \A i \in 1..Len(journal) :
    \E k \in 1..Len(blob.project.history) : blob.project.history[k] = journal[i]

\* Every decision of the snapshot is in the journal, or owed to it by a request
\* still being served, unless an append was refused or the server stopped.  As long
\* as no two requests have overlapped the journal never has more than the snapshot,
\* and is its history, entry by entry, when nothing was cut off.
JournalMirrorsHistory ==
  /\ faults = 0 =>
       \A k \in 1..Len(blob.project.history) :
         LET entry == blob.project.history[k] IN
         \/ \E i \in 1..Len(journal) : journal[i] = entry
         \/ \E r \in Requests : \E i \in 1..Len(req[r].entries) :
              req[r].entries[i] = entry
  /\ Undisturbed =>
       /\ NoEntryRemoved
       /\ Calm /\ faults = 0 => journal = blob.project.history

\* Only an owner who is one at that moment gives final approval or changes who
\* has access: the save that does either is a request of an active owner's, unless
\* another request came between the check of the permission and the save.
OwnersDecide ==
  [][\A r \in Requests :
       /\ req[r].at = "loaded" /\ req'[r].at = "saved" /\ req[r].alone
       /\ \/ Finals(blob'.project) # Finals(blob.project)
          \/ blob'.members # blob.members
       => \E m \in ActiveOwners(blob.members) : m.actor = ActorOf[r]]_vars

-----------------------------------------------------------------------------
(* Requests that overlap *)

\* However requests overlap, the snapshot that survives is a coherent project:
\* its status, approvals, cards, history and revisions agree with each other,
\* though it may miss what an acknowledged request did.
StoredProjectIsSound ==
  /\ Agrees(blob.project)
  /\ Settled(blob.project)
  /\ Explained(blob.project)
  /\ AppliedTracks(blob.project)

\* However requests overlap, the project has an active owner, nobody has two
\* active memberships, and only lawyers hold the lawyers' roles.
MembershipSound ==
  /\ ActiveOwners(blob.members) # {}
  /\ \A m, n \in blob.members :
       /\ m.id = n.id => m = n
       /\ ~m.disabled /\ ~n.disabled /\ m.actor = n.actor => m = n
  /\ \A m \in blob.members : m.role \in LawyerRoles => m.actor \in Lawyers

\* A request that was denied, refused or let down by its agent leaves no version, card
\* or membership, whatever overlaps it, and no row that says it did something: none,
\* or that of the deterministic QA that runs before the agent is asked (see
\* DeterministicQaSurvivesFailure).
RefusedLeavesNoTrace ==
  \A r \in Requests :
    req[r].at \in {"denied", "refused", "agent_failed"} =>
      /\ \A row \in rows : row.request = r =>
           req[r].at = "agent_failed" /\ row.event = "deterministic_qa_run"
      /\ r \notin UsedIds(blob.project) \union Raised(blob.project)
      /\ \A m \in blob.members : m.id # r

-----------------------------------------------------------------------------
(* What the documentation says, and the code does not do *)

\* docs/06: one audit entry per action, with no duplicates and no omissions.
\* Once nothing is being served, every decision and every revision the project
\* has is in the audit log.
AuditComplete ==
  Calm =>
    /\ \A k \in 1..Len(blob.project.history) :
         \E row \in rows : row.event = "issue_card_decided"
                           /\ row.ref = blob.project.history[k].issue
    /\ \A id \in UsedIds(blob.project) \ {FirstDraft} :
         \E row \in rows : row.event = "revision_generated" /\ row.ref = id

\* The comment in aggRunMockFinalQA: deterministic QA is guaranteed to run even
\* if the call to the model fails, and emits its own audit entry.
DeterministicQaSurvivesFailure ==
  \A r \in Requests :
    req[r].at = "agent_failed" /\ req[r].op.name = "run_mock_final_qa" =>
      \E row \in rows : row.request = r /\ row.event = "deterministic_qa_run"
=============================================================================
