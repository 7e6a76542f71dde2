# Contractops: a verification project

TLA+ modules, TLC runs and TLAPS proofs for the contract-drafting workflow of
this repository: `packages/core` (the workflow), `packages/schemas` (its
entities) and `packages/web` (the server and the browser client). Paths below
are relative to the repository.

## The system

A *project* takes a contract from its sources to an exported document. Agents
(model providers behind `packages/core/src/agents`) draft and review; lawyers
approve and decide. All of a project is one JSON value, `ProjectState`
(`packages/core/src/state.ts`).

| component | state it keeps | operations | where it is hard |
| --- | --- | --- | --- |
| workflow core (`core/src/aggregate.ts` and the entity helpers) | none of its own: each `agg*` operation maps a ProjectState to a new one and a list of audit rows, or throws | 21 operations, from `aggAddSource` to `aggStopDraftLoop` | the same stages are gone through again (revision after revision, QA passes that raise new findings on a project that stays at `revised`); several operations are allowed "from a status on", so they go on after final approval; decisions are changed; agents fail half way |
| server store and routes (`web/lib/server-store.ts`, `web/app/api/projects`) | none: reads and writes the adapters | create a project, apply an operation, add and disable memberships | each request is authorize, read, compute, save the whole blob, append rows one by one, with an await at every step, no lock and no version check |
| persistence adapters (`web/lib/persistence`) | blob per project, audit log, decision_history journal | create, get, save, append (refuses an id it has), list, reset | memory, file and postgres differ in what survives a stop, in which calls are one step and in what a failure in the middle leaves; the file adapter caches seen ids over an await and writes in place; postgres keeps the promise that made its tables, rejected or not |
| memberships and permissions (`web/lib/auth/permissions.ts`, `project-authz.ts`) | memberships inside the blob | role matrix, active membership, last-owner rule | checked on one read, used on another |
| authentication (`web/lib/auth`, `web/app/api/auth`) | users and event log in memory, configuration read once; cookies in the browsers | sign in, resolve a session, sign out, demo actor | tokens outlive what they assert; redeploys change mode, secret and cookie name under cookies already given; answers with `Set-Cookie` arrive in any order |
| agents and providers (`core/src/agents`, `core/src/providers`, `web/lib/server-aggregate-context.ts`) | the AgentRuns of a project | choose a provider from the environment, ask for JSON, validate, correct once | five gates that a deployment may leave half open; failure and delay; which runs are kept |
| deterministic QA, issue tracker, export renderer (`core/src/qa`, `issue-tracker.ts`, `export-renderer`) | none | pure functions of text and cards | boundaries of numbering and references, what a clean export may hold |
| browser store (`web/components/store-provider.tsx`, `web/lib/actions.ts`) | in each tab a copy of every project and of its log, and the session | hydrate, operate, create, switch the demo actor, reset | answers that come late, out of order or never; two tabs that share a cookie |
| pages (`web/app/projects/[id]`) | none | enable controls, suggest the next step, download an export | what a page reads off the records against what the core reads off the status |

How they interact: the browser posts an `Operation`; the route resolves the
actor, authorizes it against a read of the project and calls
`applyOperationToStore`; that reads the project again, calls one core operation
(which may wait for agents), saves the result over the stored blob, appends the
audit rows and the new `decision_history` entries, and answers with the new
project.

What makes each part correct, in short: the core never lets a draft exist
without the chain of approvals under it, nor a final version over an undecided
finding, and its records (history, versions, exports, audit rows) tell one
story; the store keeps what it acknowledged and stores only coherent projects;
the memberships always leave an owner; the log and the journal have everything
the project has. `PROJECT.json` lists the hazards line by line, with the
properties that watch them.

## The modules

| module | models | how it corresponds |
| --- | --- | --- |
| `Statuses` | `project-status.ts`, `transitions.ts` | the order of the statuses, the edges `withStatus` accepts |
| `Aggregate` | `aggregate.ts` and the entity helpers | an operation `aggX` is the pair `CanX` (no guard throws, the agent answers) and `X` (the new ProjectState), over a record `p` with the fields of ProjectState; also the second of two `withStatus` calls is there |
| `ProjectSoundness` | what a coherent ProjectState is | four predicates of the record, shared by the two state machines |
| `Workflow` | the dispatch of the 21 operations, one request at a time | `proj` is the stored ProjectState, `audit` counts the audit rows by event; `DoX` is one request that succeeds; a request that is refused changes nothing |
| `ReviewPromise` | nothing in the code: the abstract specification of review and approval | phase, verdicts, and the text under review; implemented by `Workflow` (`Workflow!Promise`) |
| `ServerStore` | `server-store.ts`, the operation and membership routes, the part of the permissions they use | `blob`, `rows`, `journal` are the stores, `req[r]` a request with its stage, what it asked for, the snapshot it holds and the writes it owes; one action per await |
| `Sessions` | `web/lib/auth`, the routes under `web/app/api/auth`, and the 401 of the operations route | `env` is the environment (`conf` the AuthConfig read from it), `users`, `events` the memory stores, `jar` the browsers' cookies, `calls[c]` a call with the cookies it carries and its answer; a route is an action, login is two (before and after the password hash); `grants` and `clean` are history variables the properties use |
| `Pages` | `web/app/projects/[id]/*/page.tsx`, `components/draft-loop` | each page is the set of operations its enabled controls send for a project and an actor; `NextSuggestion` is the overview's; `Takes` says whether the core accepts what a control sends |
| `Adapters` | `web/lib/persistence/*-adapter.ts`, and the calls of `server-store.ts` to create, operate, list and reset | `driver` is the selected adapter, `blob` and `log` what is stored (a file may be `Empty` or `Torn`), `seen` the file adapter's set of ids, `boot` the postgres adapter's promise, `calls[c]` a call and the writes still to come; one action per write that another call can come between |
| `PersistencePromise` | nothing in the code: what `persistence/types.ts` asks of any adapter | snapshots that are overwritten, logs that only grow; implemented by `Adapters` (`Adapters!PersistencePromiseKept`) |
| `Browser` | `store-provider.tsx`, `actions.ts`, the export download, with the routes they call | a flow is a function of the provider in a tab, from the click to its end: each request carries the cookie of the moment it is sent, is served at a later time and answered at a later one still; an operation is three steps at the server (read, save, rows) with those of other tabs in between; `crossed` is a history variable |
| `Providers` | `core/src/agents/framework.ts`, `core/src/providers`, `server-aggregate-context.ts`, the two routes under `web/app/api/agent` | `env` is the environment, `calls[role]` the agent call of a role, `runs` the AgentRuns that are stored; proved about, not run (see below) |
| `ProjectProofs` | | what each operation of `Aggregate` keeps of a project record, used by both machines below |
| `WorkflowProofs`, `PagesProofs` | | the theorems about `Workflow`, and from them those about `Pages` |
| `StoreProofs`, `SessionsProofs`, `AdaptersProofs`, `ProvidersProofs`, `BrowserProofs` | | the theorems about `ServerStore`, `Sessions`, `Adapters`, `Providers` and `Browser` |
| `MCWorkflow`, `MCServerStore`, `MCSessions`, `MCAdapters`, `MCBrowser` | | values for the constants of the runs |

Abstractions. Texts, answers, contract types and ids are members of small
sets. An Issue Card is its decision, `applied_version` and severity class
(critical or not). A contract version is the set of cards whose revision
sections `createRevisionVersion` appends to it, and whether it is final. What an
agent says is a nondeterministic choice: any set of new findings, any set of
cards a synthesis names. Agents and permissions may refuse: in `Workflow` a
refusal is a stuttering step, in `ServerStore` it is an action. Operators named in
a comment `Mutant:` are variants of the definition after them, each a plausible
mistake in that code; the project does not use them otherwise than to see that
the property it is paired with in `PROJECT.json` notices.

The ServerStore requests run on a project that starts at the review stage, where
the stores matter most (only decisions write the journal), built by the core's
own operations (`Reviewed`, `Revised`). The storage survives `ServerStops`, as
with the file and postgres adapters; with the memory adapter a stop loses
everything, so there is nothing to state about it.

`Adapters` and `ServerStore` look at the same requests from two sides. `ServerStore` has
what the operations compute and one storage that survives; `Adapters` has three
storages, and of an operation only that it reads a snapshot, overwrites it and
appends a row. A snapshot there stands for the call that made it, so that a
snapshot that came back, or was lost, can be told. The two append-only logs are
one, since the code handles them twice alike. A behaviour has one driver.

In `Browser` a project is the sequence of the flows that worked on it. An operation reads
the project, saves what it made of that over whatever is stored then, be the project still
there or not, and appends its rows; a read of a project takes the snapshot, then the rows; the
steps of other requests come between. So an operation of one tab may undo that of another, or
bring back a project that was reset. A creation, a list and a reset are one step each: nobody
knows of a new project before the answer but by a list or a reset, and what comes between the steps of a
list or of a reset leads to no copy that a list before or after it does not lead to. The cookie changes when
the answer of a switch arrives, or is lost after its header came. Which actor a tab shows is
left out, since no request depends on it. A reload is the opening of another tab.

In `Sessions` a browser carries only the cookies the server gave it, with their
ages, so a token is the record of what `createSessionToken` signed and under which
secret; a password is right or not; requests with a malformed body change nothing
and are left out. Resolution of a cookie is one step (its awaits are on memory
maps), the wait for the password hash is not. `SetDisabled` is the operation of the
user store; no route calls it yet. The clock counts in units of the least cookie age.

## The runs

Bounds are constants of the modules (`Max...`) or the sizes of the sets.

| run | bounds | shows |
| --- | --- | --- |
| `WorkflowLive` | 2 documents, 2 questions (1 required), 3 contract types (one with a playbook, one falling back to the custom one), 1 card, 2 versions | the whole way from creation to export: types, status against records, approvals, what an approval freezes; that a diligent lawyer always gets the project exported; and of the pages, in every state on that way, that the core takes what an enabled control sends, except for a list of controls at stages where the page offers too much (`Refused`) and where the core always refuses, that every step a project still needs is offered somewhere, and that the overview's suggestion leads on |
| `WorkflowReview` | 2 cards, 3 versions, 3 decisions, 2 review rounds, 1 QA pass, 1 export, 1 batch | decisions changed, two revisions, QA after a revision, decisions and a revision after final approval: settled approvals, history, applied versions, audit log, exports, append-only records; the refinement of ReviewPromise |
| `WorkflowLoop` | 2 ordinary cards and a critical one, 2 iterations, 1 synthesis, 1 batch | the drafting loop and batch accepts: numbering, stopped iterations, the rows and entries of a batch in every order |
| `Store` | 3 requests of three members, each with 5 to 7 operations to choose from (`MCOperations`), 2 of them at once, and 1 fault (a refused append or a stop), at any await and in any combination | what an acknowledged request that was served alone leaves for good, the journal against the history, owners alone decide; whatever overlaps, the stored project is coherent and has an owner, and a refused request leaves no version, card or membership, and no row but that of deterministic QA |
| `Adapters` | 3 drivers, 3 calls in flight, 2 projects, 1 id of an operation, 2 faults (stops, or failures of the storage) | what was acknowledged can be read (in the file adapter: unless another call on the project was cut off in its write, is at it, or wrote at the same time), an id that is known is refused, a file that is damaged is one the fault was writing, a creation leaves its rows; the three adapters implement PersistencePromise |
| `AdaptersIdTwice` | as Adapters | violated: two overlapping appends of one new id are both written by the file adapter |
| `Browser` | 2 tabs of one browser, one of them opening, 2 flows of a user, 2 projects, 2 actors, 2 lost requests or answers | a tab shows its own work, and nothing of what a reset took, unless another operation was between its read and its save at the server at that time; a log that is complete when the tab rests, whatever crossed; a download is recorded |
| `Sessions` | 2 browsers, 3 calls of which 2 overlap, 2 users (one of them managed), 5 environments, 1 restart, time 0 to 1 | nobody acts on a cookie that is not its own, of the other mode, of another secret, or expired; sessions are in the log; signing out leaves neither cookie |
| `StoreLostUpdate` | as Store, without faults | violated: an overlapping save removes an entry of `decision_history` |
| `StoreAuditGap` | as Store, one at a time | violated: an action without its audit row |
| `StoreQaLost` | as Store, one at a time | violated: a QA pass whose assistant fails leaves no trace of the deterministic part |
| `WorkflowRejected` | as WorkflowReview | violated: a rejected card with an `applied_version` |

Why they are enough. A card interacts with others only through "is any card
pending" and through the order of a batch, so two ordinary cards and a critical
one show what more would; the chain of a card's history needs three decisions
(the third checks a link that starts from a second decision); `applied_version`
needs two revisions to be stale, which three version ids allow; the races of the
store are between two requests, and the third one makes it possible to see what
comes after. Two owners and a reviewer are the smallest cast in which both
membership races exist. What each of the three may ask for is cut so that every pair of
kinds that can disturb each other (two decisions, a decision and a revision, QA and final
approval, two admissions, two owners who disable each other, an approval and the disabling of
the approver) is there between two members. One fault may come at any await of an overlap, and the third
request shows what comes after it; `StoreProofs` is about any number of requests at once and of faults.
Three calls of `Adapters` are a creation, an operation and the reset or listing that
comes between, with a fault before and one after a restart; two of its operations append the
same id; its proofs are for any number of each. In `Browser` two flows of
a user overlap with each other and with the hydration of an opening tab, in one tab or in two
that share a cookie: two operations that cross, an operation that crosses a reset, a download
that is crossed while it is recorded. (Three flows without lost answers were checked once, with
2.9 million states.) A session goes
wrong between at most three calls (one that gives a cookie, one that takes it or changes
what it stands for, one that acts), and the environments include both modes, a
rotated secret, a weak one, another cookie name and age; the proofs of `Sessions` are for any
number of all of these. Where the sets are interchangeable the Workflow runs use
symmetry (not under liveness properties). `CHECK_DEADLOCK FALSE` in every run: a
project may rest for ever (an exported one, or one nobody works on), and a
ServerStore behaviour ends when its requests have.

The counters that are cut by a bound (decisions, rounds, passes) have it in the guard of
the action of `Workflow` that counts them; `RoomToDecide` keeps room for a first
decision of every card, so the bound never stops what must happen.

Fairness. Nothing in the code schedules people, so liveness rests on an assumption
about them, `Diligence`: weak fairness of each step on a lawyer's worklist (an
unanswered required question, a pending card, the first revision, the approvals, and so on).
Nobody is assumed to do the optional things, and nobody is assumed to stop doing
them beyond the bounds; QA passes are bounded, because a QA assistant that finds
something new on every pass would keep any project open, and rightly so.
`EveryProjectCanBeDelivered` says that under this there is no dead end.

## What disagrees with the documentation

The five violated runs, each with the line it quotes in `PROJECT.json`:

1. A save replaces the whole blob by a result computed from an older read, so two
   overlapping decisions leave one of them out of `decision_history`, which
   `persistence/types.ts` says never loses an entry. The journal keeps both.
2. The save comes before the appends, each on its own, so an append that is refused,
   or a stop, leaves an action without an audit row; `docs/06` wants one per action
   without omissions. The comment in `server-store.ts` knows the order and calls the
   journals the formal trail, which makes the missing row the worse half.
3. `aggRunMockFinalQA` says that deterministic QA is guaranteed to run and to
   leave its audit entry even if the model fails; the exception discards both.
4. A card that was accepted, put in a revision and then rejected keeps its
   `applied_version`, which `docs/06` and `run-fixture.ts` say a rejected card never has.
   (The revision made after the rejection does leave its text out.)
5. The file adapter looks an id up, awaits the append, and then notes the id, so two
   overlapping appends of one new id are both written; `persistence/types.ts` says that
   every adapter MUST refuse the second.

Seen while modelling, and not the subject of a run:

- The comment above `aggRunMockFinalQA` (`aggregate.ts:722-724`) has a pass that leaves pending
  findings put or keep the status at `issues_open`. The code calls
  `withStatus` only below `issues_open` (`aggregate.ts:767-771`), so a revised project stays at `revised` with its cards
  pending. `StatusAgrees` says nothing of pending cards; final approval waits for them all the
  same (`FinalIsSettled`).
- The comment on `aggAddSourceContent` (`aggregate.ts:142`) allows it at pre-final-approval
  statuses; its guard is only a lower bound, so bodies change after final approval and export.
- The file adapter writes a snapshot in place. A save that is cut off there leaves a project
  unreadable that was acknowledged long before, and an append that is cut off leaves its log
  so, and every later append to that log then fails. `AcknowledgedSurvives` allows exactly that.
- The comment of `signed-cookie.ts` says that the route handler clears the bad cookie of
  a refused session; the session and logout routes do, while the operations route clears
  only the demo cookie, so a bad signed cookie is refused again until one of the others is
  called.
- `core/src/env-config.ts:36-39` says that `counterparty_reviewer` stays governed by the
  provider allowlist alone; `server-aggregate-context.ts:131-141` asks for the role
  allowlist too, deliberately (ADR-021), so the comment is the older of the two.
  Of the two routes under `web/app/api/agent`, the same reviewer's asks for no role
  allowlist (`RoutesAreReal` says what they do ask for), and the deal-memo route takes
  whichever provider `selectProvider` picks, where the operation takes OpenAI only.
- `core/src/provider-factory.ts:22` says that there is no silent fallback to the mock, and
  the factory throws; its caller in `server-aggregate-context.ts:156` catches that and falls
  back to the mock, as `docs/08` has it. The AgentRun says which of them answered
  (`RunsStayTrue`).
- The pages offer some controls at stages where the core refuses what they send, most of
  them under a guard that reads the records where the core reads the status. `Refused` is the
  whole list, and `EnabledControlsWork` says that the core refuses these and takes all others:
  "classify" of the contract type from `type_confirmed` on; the intake answers from `deal_memo_approved` on; "Regenerate" of the
  deal memo outside `intake_in_progress` and of the drafting plan outside
  `deal_memo_approved`; the approval of the memo while a required answer is missing; on the
  Draft Loop page the first draft before `drafting_plan_approved` and a revision before
  `issues_open`; the reviews, on the Issues and the Draft Loop page, before `draft_v0_created` and
  from `revised` on; on the QA page a QA pass outside `issues_open` and `revised`, and the
  final approval outside `revised`.
- A run of an agent that failed is kept in the project by reviews only; the other
  operations throw, and their AgentRun is lost with the result.

## The proofs

Everything here is for every value of the constants that meets the named assumptions:
lawyers are actors; `None` is none of the data; the playbook functions have their
domains; cards are finitely many (`Aggregate`); bounds are naturals (`Workflow`);
a request has its own actor and its own ids, the first members have one membership
each and an owner among them (`ServerStore`); default names and actor exist, constants
are of their sets (`Sessions`); a founded project is not created again, the ids of
operations are not those of a creation's rows, the markers are none of the data (`Adapters`);
the id of a created project is none of the founded ones, the opening tabs are tabs,
`None` is no actor and no tab (`Browser`). `Providers` has no constants. Two theorems about `Pages`
have a hypothesis about the playbooks, discussed there.

**The record.** `ProjectProofs` speaks of one `ProjectState` and one operation. Its
invariants are stated together because they need each other:

- `Good`: the type, `Agrees` (status against entities), `Settled` (what final approval
  settles) and `Numbered` (iterations in order). `Settled` alone is not inductive: that
  a later revision leaves one final version needs that new versions are never final; that
  no finding appears after approval, that the review and QA guards exclude the stages
  from `final_approved` on; that the final version is a revision, `Agrees` (`revised`
  means more than one version). The types need `Settled` (an export looks up the final
  version), and the numbers would not be known to be numbers without `Numbered`.
- `Sound`: `Good`, `Explained` (the history chains to every card's decision) and
  `AppliedTracks` (`applied_version` is the latest revision with the card). The last
  needs the history: what a revision carries was accepted by some entry of it.

There is a lemma `XGood` for each operation `X`, and a lemma `XSound` for those that
touch cards, versions or history, about the record alone, so that they serve requests one
after another and requests that overlap.

**`Workflow`** (`WorkflowProofs`). A step of `Next` is an operation of those lemmas, which gives

- `TypeCorrect`, `StagesAgree`, `FinalApprovalSettles`, from `Good`;
- `InputsStayApproved` and `RecordsStay`, action properties: the
  operations up to the approved plan leave the records of the review alone, and those
  after it the approved inputs;
- `WorkflowKeepsPromise`: the refinement of `ReviewPromise`. `PhaseOf`
  and `TextOf` are the mapping as operators of a project; each operation is shown to be
  one of the promise's steps, with the witnesses written down, or a stutter;
- `DraftsAreApproved`, `ExportsAreFinal`, `LoopStaysNumbered`, `HistoryIsComplete`,
  `AppliedStaysTracked`: the first three each strengthen `Good` with a
  part of their own (`Chain`: who approved, over which answers; `FromFinal`; `Based`: an
  iteration is about a version there is, or comes before the first draft and before every
  iteration that is not); the other two are `Sound`;
- `BatchIsOrdinary`, `AuditTellsTheStory`: `RowsMatch` counts the rows of
  each event against the project, each operation adding as many as it records. A row of
  what happens once is there exactly when the record is, since the guard of the operation
  that writes both is a stage that `Agrees` joins to the record's absence.

**`ServerStore`** (`StoreProofs`). The code has no lock, so an operation may save over
a project that it never read. The invariant therefore speaks of all `Stores`: the stored
project and the snapshot each loaded request holds. `Moves` says what one operation makes
of the store it read: sound again, larger, with the operation's effect, and with no ids
but the old ones and the request's own. `Inv`: the types, every store is sound, and a
request that has not saved shows in no store and in no row. It is inductive because a save
only replaces one member of `Stores` by what `Moves` made of another; a refused append or a
stop only takes requests out, at whatever await each of them is. Hence
`StoreTypeCorrect`, `StoredProjectStaysSound`, `MembershipStaysSound` (an owner is left
though two owners disable each other at once: the save that comes last was held to the
last-owner rule on what it read, and that is what is stored) and `RefusalLeavesNoTrace`. All this is for any number of overlapping requests with any number of faults among them. Three more rest on it:

- `AcknowledgedStays`. What an acknowledged request that was alone did is in *every*
  store (`Acknowledged`), those held by others included, so any later save is computed
  from one that has it. It needs `Solo`: two requests being served are neither of them
  alone, and one that is alone holds what is stored.
- `OwnersAlwaysDecide`. The permission of a request that is alone is still there when it
  saves.
- `JournalAlwaysMirrors`. Every entry in any store is in the journal or owed to it by a
  request that has saved (`Recorded`), and as long as nothing overlaps the journal with
  what is owed is the history (`Covered`, `Matched`).

That the invariant holds at first uses that the stored project was built by the core's
own operations from the empty one, in order (`AtStage` to `UnderReview`).

**`Sessions`** (`SessionsProofs`). `SessionTypes`, `NobodyActsUngranted`,
`SessionsInLog` and `SignedOutIsOut`: every property of the run. The
inductive invariant follows a cookie around: in an answer, in a jar and in the header of
a call it is `Backed` by a grant to that browser (a token by one that lasts at least as
long), a login that waits for its hash is in a readable signed configuration (a restart
would have lost it), the grants of the running server are in its log, and a browser that
has signed out has no identity coming (`NothingComing`; without it a late answer would
undo the sign-out). Each route is an instance of one lemma, `AnswerKeeps`; `ActIsOperate`
reduces the action properties to one route.

**`Adapters`** (`AdaptersProofs`). All six properties of the run, `AdaptersTyped`,
`AcknowledgedKept`, `KnownIdsRefused`, `DamageConfined`, `CreationRecorded` and the
refinement `PromiseKept`, for any number of projects, calls and faults under each driver.
The invariant says of a call what it has written (`Stored`: its project, its rows, until
a reset) and what it has not (`Fresh`: the rows of a creation are nowhere before it writes
them), and of a store

- `Uncreated` (memory): of a project that is not yet created there is nothing, so that
  the creation, which begins the log anew, loses no row. It rests on `CreatedOnce`;
- `Ahead` (file): the seen ids that are loaded contain the file's, so that a known id is
  never past the check. It holds as long as no call went on across a reset;
- `LogDamage` (file): a broken log is broken in its last line, nobody is about to
  append to it, which makes the rows before that line the log of the promise, and a call was cut
  off at an append to it;
- `BlobDamage` (file): a file that is being written is empty unless its writer has crossed
  another, and one that does not parse is being written, its writer was cut off, or two crossed;
- `Joined`, `Unlisted` (file): calls at the same write have both crossed, and an id that was
  looked up by one call alone is not in the log when it is appended; so an id that the promise
  sees written twice is `Contended`.

`AcknowledgedKept` needs that it was *another* call that did the damage: a call that was
answered is neither writing nor cut off, and by `Joined` one that crossed did not cross alone.

A step is first reduced to what it does to the calls (`NextCalls`, `Movers`: each call goes on
in its list of writes, ends, or stays) and to the stores (`LogSteps`, `SeenSteps`,
`BlobSteps`); the parts of the invariant are then proved from those.

**`Providers`** (`ProvidersProofs`). `RealNeedsItsGates` (no agent talks to a real provider
whose switch, allowlists and key do not let it), `CorrectedOnce` (a second call is made to a
real provider after a bad answer only, never after a failed call), `RunsStayTrue` (an
AgentRun that is kept says what happened) and `RoutesAreReal` (what the two agent
routes ask of the environment). The invariant is `TypeOK`, `CallsAreSound` (the gates seen
from each call) and `KeptRunsAreTrue`. No run is of this module: its environments,
calls and kept runs multiply beyond what a run of five minutes enumerates, and a
restricted choice would say less than the proofs.

**`Pages`** (`PagesProofs`). The pages read the records of a project, the core reads its
status; `Agrees` joins the two, and `Stage` puts it as what each record says of the rank of
the status, so that two neighbouring records leave one stage between them. Two more facts
are needed (`Fit`, an invariant of its own): findings are there from `issues_open` on
only, which follows from the refinement of `ReviewPromise`, and the questions are those of
the selected playbook. From these and the chain of approvals, for every reachable project:
`StepsAreOffered`, `ControlsWork` and `SuggestionsLead`. `ControlsWork` is an equivalence: an
enabled control is taken exactly when it is not one of `Refused`, so the list can neither be
too short nor too long. The guards of `NextSuggestion`
are shown to exclude each other, so that its order does not matter. The iteration the
Draft Loop page works on is the least of a set of numbers, which exists by the
well-foundedness of `<`.

Two of these have a hypothesis about the playbooks on disk, kept in the theorem because the
code does not check it. `ControlsWork` needs a custom playbook: without one the button
of the playbook page is enabled for a contract type that no playbook has, and the core
refuses. `SuggestionsLead` needs a required question in every playbook as well
(`PlaybooksSuffice`): the overview takes a playbook without one for unanswered, and would
stay on the intake for ever (no other page is lost by it). The files under
`playbooks/` meet both, and so do the constants of `WorkflowLive`.

**`Browser`** (`BrowserProofs`). All four properties of the run, for any number of tabs,
projects, flows, actors and lost answers: `OwnWorkStaysShown`, `LogsAreWhole`,
`ResetsAreClear`, `DownloadsOnRecord`. None of the properties is
inductive, since each is about what a tab shows and can be broken by an answer that is
still on its way, or by a snapshot that some operation read and has yet to save. `Inv`
therefore speaks of what the flows hold:

- `FlowsAlone`: what is known of one flow by itself (its stages, and that an answer has
  the flow's own work);
- `Solo`, `CreatedOnce`: two flows of a tab that are under way know of
  each other, unless they opened it; an id is created once;
- `LoadedTogether`, `LoadedIsCurrent`: two operations between read and save of one project have
  crossed, and what one that has not crossed holds is what is stored;
- `NothingOfUnmade`, `NothingOfAbsent`, `WipedIsGone`: a project that nobody made or that is not
  there is nowhere; one that a reset deleted stays deleted, if no operation was between
  read and save then;
- `SeenIsPrefix`: of a project that is there and on which no operations crossed (not
  `Muddled`), every copy, in a tab or in an answer, is a beginning;
- `RowsAreStored`, `WorkIsStored`: answered rows are in the log for good; work that was saved and
  not crossed is stored, and whoever is about to save the project has read it (`Kept`);
- `RowsArePrefix`, `OwnWorkStays`, `ResetStays`: the log of a tab is a beginning of the
  server's, except between the two answers of an operation (`Refreshing`); what is
  on its way to a tab has the work that the tab did alone (`Carries`), and nothing
  of what a reset took (`Spares`). A list that was asked for before the reset would
  bring a project back, which is why the reset must have been by itself.

`Moves` says what a step does to its flow, to the server and to the tab, whichever of the
nineteen it is (`Starts`, for the beginning of a flow); each part of `Inv` is proved
from that alone. TLC checked `Inv` on the instance of the run before it was proved.

Only model-checked: liveness (`EveryProjectCanBeDelivered`). Liveness under fairness and
`ENABLED` are out of the prover's reach, as is induction over data (what a recursive
definition computes for every input). All other properties of the passing runs
are proved.

## Not modelled

- *Deterministic QA, the export renderer, the issue tracker* are pure functions of text
  and cards, without a state of their own. What matters of them to the workflow is in
  it: a QA pass finds any set of new findings, an export has the version it renders and
  its marks. What the regular expressions of QA find, and what a document says, is
  about text, which the models do not have; a model of it would repeat it line by line.
- *Prompts, parsing and the text agents write*: an answer is valid, of the wrong shape,
  no JSON, or none. `completeText`, `completeJsonWithRetry` and the two browser proxies of the
  providers are used by no operation.
- *The permissions to view, the members page, the filters of the issues page, the health
  route*: reads, or screens whose only state is what is typed in them. The routes that
  change memberships are in `ServerStore`.
- *The formats of the schemas*: a record is of its set; strings are not looked into.
- *Scripts and fixtures* drive the core in a fixed order. They were read as tests.

Bounds of what is there: an operation runs to its end in a `ServerStore` request or its
agent fails, so the agents of one operation are seen only in `Providers`; `ServerStore` has the
operations of the review stage, which alone write the journal; `Adapters` has one log where the
code has two that are handled alike; in `Browser` a creation, a list and a reset are one step each,
and the agents of an operation do not fail apart from its being refused.
