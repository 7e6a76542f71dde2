------------------------------- MODULE Browser --------------------------------
(***************************************************************************)
(* The browser's store (packages/web/components/store-provider.tsx): the   *)
(* copies that the tabs of one browser hold of the projects, and what the  *)
(* requests of their pages do to them.                                     *)
(*                                                                         *)
(* A flow is a function of the provider, or a download of the exports      *)
(* page, from the click to its end: a chain of requests, each of which is  *)
(* served at some time and answered at a later one.  Flows of a tab may    *)
(* overlap, since most pages do not disable their controls meanwhile.  The *)
(* flow that opens a tab hydrates it.  A reload is the opening of another  *)
(* tab.  Which actor a tab shows is not modelled: no request says it.      *)
(*                                                                         *)
(* A project is the sequence of the flows that have worked on it, its      *)
(* audit log the sequence of those that have written their rows; << >> is  *)
(* a project that is not there.  An operation reads the project, saves     *)
(* what it made of it over whatever is there then, and appends its rows,   *)
(* with the steps of other requests in between; a read takes first the     *)
(* project and then the rows.                                              *)
(***************************************************************************)
EXTENDS Naturals, SequencesExt

CONSTANTS
  Tabs,
  Opening,      \* the tabs that have just been opened; the others are up to date
  Actors, Lawyers,
  Projects,
  Members,      \* whom each project has as members
  Founded,      \* projects that exist at the start
  Founder,      \* stands for the flows that made them and approved a final version
  Flows,        \* flows that a user may start
  Asks,         \* what they may be (see AllAsks)
  MaxFaults,    \* bound: requests or answers that are lost
  None          \* not begun

AllAsks ==
  [kind : {"operate", "download", "create"}, project : Projects]
    \union [kind : {"switch"}, actor : Actors]
    \union [kind : {"reset"}]
Hydration(t) == <<t, "hydration">>
AllFlows == Flows \union {Hydration(t) : t \in Opening}

ASSUME BrowserAssumption ==
  /\ Opening \subseteq Tabs /\ Founded \subseteq Projects /\ Asks \subseteq AllAsks
  /\ Members \in [Projects -> SUBSET Actors] /\ None \notin Actors \union Tabs
  /\ Lawyers \subseteq Actors
  /\ \A a \in Asks : a.kind = "create" =>
       a.project \notin Founded /\ Lawyers \subseteq Members[a.project]
  /\ MaxFaults \in Nat

VARIABLES
  saved, rows,  \* the server: each project and its log
  cookie,       \* the browser: the actor its demo cookie names
  copy, listed, \* each tab: projects with their audits, and projectIds
  flow,         \* each flow
  crossed,      \* flows that were between read and save with another (see Crossed)
  faults
vars == <<saved, rows, cookie, copy, listed, flow, crossed, faults>>
server == <<saved, rows, cookie, crossed>>
tabs == <<copy, listed>>

NoCopy == [state |-> << >>, rows |-> << >>]
Nothing == [p \in Projects |-> NoCopy]

\* tab and ask: whose flow it is, and what for.  todo: projects still to be read;
\* got: what was read.  by: the actor of the cookie that its request was sent with.
\* mixed: another flow of the tab was under way at some time.  landed: the tab has
\* taken over the first answer.  wiped: what a reset has deleted.  file: what was
\* downloaded.
Fresh(t, ask, at, by) ==
  [at |-> at, tab |-> t, ask |-> ask, todo |-> {}, list |-> {}, got |-> Nothing,
   by |-> by, mixed |-> FALSE, landed |-> FALSE, wiped |-> {}, file |-> << >>]

Over(c) == flow[c].at \in {"done", "failed"}
InFlight(c) == flow[c].at # "new" /\ ~Over(c)
Kind(c) == flow[c].ask.kind
Project(c) == flow[c].ask.project
OfTab(t) == {c \in AllFlows : flow[c].tab = t}
Cached(t) == {p \in Projects : copy[t][p].state # << >>}
\* The flows on p, or on any project, that have read it and not yet saved it.
Loaded(p) == {c \in AllFlows : flow[c].at = "loaded" /\ Project(c) = p}
AllLoaded == {c \in AllFlows : flow[c].at = "loaded"}
Crossed(c, others) == crossed \union IF others = {} THEN {} ELSE others \union {c}
\* Pages of a project, and the button to reset, wait for the hydration.
Hydrated(t) == t \in Opening => Over(Hydration(t))

Init ==
  /\ saved = [p \in Projects |-> IF p \in Founded THEN <<Founder>> ELSE << >>]
  /\ rows = saved
  /\ cookie \in Actors
  /\ listed = [t \in Tabs |-> IF t \in Opening THEN {}
                              ELSE {p \in Founded : cookie \in Members[p]}]
  /\ copy = [t \in Tabs |->
               [p \in Projects |->
                  IF p \in listed[t] THEN [state |-> saved[p], rows |-> rows[p]] ELSE NoCopy]]
  /\ flow = [c \in AllFlows |->
               IF c \in Flows THEN Fresh(None, None, "new", None)
               ELSE Fresh(c[1], [kind |-> "list"], "listing", cookie)]
  /\ crossed = {}
  /\ faults = 0

Step(c, at) == flow' = [flow EXCEPT ![c].at = at]
Fails(c) == Step(c, "failed") /\ UNCHANGED <<server, tabs, faults>>

-----------------------------------------------------------------------------
(* What a user starts *)

\* The exports page, the new-project page and the actor selector disable their
\* control while it is under way; the id of a new project is new.
Offered(t, ask) ==
  CASE ask.kind = "operate" -> Hydrated(t) /\ ask.project \in Cached(t)
    [] ask.kind = "download" ->
         /\ Hydrated(t) /\ Contains(copy[t][ask.project].state, Founder)
         /\ \A c \in OfTab(t) : Kind(c) = "download" => Over(c)
    [] ask.kind = "create" ->
         \A c \in AllFlows : flow[c].at # "new" /\ Kind(c) = "create" => flow[c].ask # ask
    [] ask.kind = "reset" -> Hydrated(t) /\ listed[t] # {}
    [] ask.kind = "switch" -> \A c \in OfTab(t) : Kind(c) = "switch" => Over(c)

\* A download sends the copy that the page shows; every request the cookie.
Begin(c) == \E t \in Tabs, ask \in Asks :
  LET others == {d \in OfTab(t) : InFlight(d)}
      posted == IF ask.kind = "download"
                THEN [Nothing EXCEPT ![ask.project] = copy[t][ask.project]] ELSE Nothing IN
  /\ flow[c].at = "new" /\ Offered(t, ask)
  /\ flow' = [d \in AllFlows |->
                IF d = c THEN [Fresh(t, ask, "sent", cookie) EXCEPT
                                 !.got = posted, !.mixed = others # {}]
                ELSE IF d \in others THEN [flow[d] EXCEPT !.mixed = TRUE]
                ELSE flow[d]]
  /\ UNCHANGED <<server, tabs, faults>>

-----------------------------------------------------------------------------
(* What the server does *)

\* The project is there and the actor of the cookie that was sent is a member.
Allowed(c, p) == saved[p] # << >> /\ flow[c].by \in Members[p]

\* POST operations: authorize, read the project and work on what was read ...
LoadOperation(c) ==
  LET p == Project(c) IN
  /\ \/ flow[c].at = "sent" /\ Kind(c) = "operate"
     \/ flow[c].at = "recording"
  /\ Allowed(c, p)
  /\ flow' = [flow EXCEPT ![c].at = "loaded", ![c].got = [Nothing EXCEPT ![p].state = saved[p]]]
  /\ crossed' = Crossed(c, Loaded(p))
  /\ UNCHANGED <<saved, rows, cookie, tabs, faults>>
\* ... save the snapshot, be the project still there or not, ...
SaveOperation(c) ==
  LET p == Project(c) IN
  /\ flow[c].at = "loaded"
  /\ saved' = [saved EXCEPT ![p] = Append(flow[c].got[p].state, c)]
  /\ flow' = [flow EXCEPT ![c].at = "saved", ![c].got = [Nothing EXCEPT ![p].state = saved'[p]]]
  /\ UNCHANGED <<rows, cookie, crossed, tabs, faults>>
\* ... then append the rows, and answer with these alone.
ServeRows(c) ==
  LET p == Project(c) IN
  /\ flow[c].at = "saved"
  /\ rows' = [rows EXCEPT ![p] = Append(@, c)]
  /\ flow' = [flow EXCEPT ![c].at = "answered", ![c].got[p].rows = <<c>>]
  /\ UNCHANGED <<saved, cookie, crossed, tabs, faults>>
\* 403 or 404, or 422 when the core has refused what was asked.
ServeRefusal(c) ==
  /\ \/ /\ \/ flow[c].at = "sent" /\ Kind(c) \in {"operate", "download"}
           \/ flow[c].at = "recording"
        /\ ~Allowed(c, Project(c))
     \/ flow[c].at = "sent" /\ Kind(c) = "create" /\ flow[c].by \notin Lawyers
     \/ flow[c].at = "loaded"
  /\ Fails(c)

\* POST /api/projects, its rows in the answer.
ServeCreation(c) ==
  LET p == Project(c) IN
  /\ flow[c].at = "sent" /\ Kind(c) = "create" /\ flow[c].by \in Lawyers
  /\ saved' = [saved EXCEPT ![p] = <<c>>]
  /\ rows' = [rows EXCEPT ![p] = <<c>>]
  /\ flow' = [flow EXCEPT ![c].at = "answered",
                          ![c].got[p] = [state |-> <<c>>, rows |-> <<c>>]]
  /\ UNCHANGED <<cookie, crossed, tabs, faults>>

ServeReset(c) ==
  /\ flow[c].at = "sent" /\ Kind(c) = "reset"
  /\ saved' = [p \in Projects |-> << >>] /\ rows' = [p \in Projects |-> << >>]
  /\ flow' = [flow EXCEPT ![c].at = "answered",
                          ![c].wiped = {p \in Projects : saved[p] # << >>}]
  /\ crossed' = Crossed(c, AllLoaded)
  /\ UNCHANGED <<cookie, tabs, faults>>

\* POST demo/actor: the answer carries the cookie.
ServeSwitch(c) ==
  /\ flow[c].at = "sent" /\ Kind(c) = "switch"
  /\ Step(c, "answered")
  /\ UNCHANGED <<server, tabs, faults>>

\* GET /api/projects: those the actor is a member of.
ServeList(c) ==
  /\ flow[c].at = "listing"
  /\ flow' = [flow EXCEPT ![c].at = "listed", ![c].list = {p \in Projects : Allowed(c, p)}]
  /\ UNCHANGED <<server, tabs, faults>>

\* GET /api/projects/[id]: the state, or 403 or 404, ...
ReadState(c) == \E p \in flow[c].todo :
  /\ flow[c].at = "reading" /\ flow[c].got[p] = NoCopy
  /\ IF Allowed(c, p) THEN flow' = [flow EXCEPT ![c].got[p].state = saved[p]]
                      ELSE flow' = [flow EXCEPT ![c].at = "failed"]
  /\ UNCHANGED <<server, tabs, faults>>
\* ... then the audits.
ReadRows(c) == \E p \in flow[c].todo :
  /\ flow[c].at = "reading" /\ flow[c].got[p] # NoCopy
  /\ flow' = [flow EXCEPT ![c].got[p].rows = rows[p], ![c].todo = @ \ {p},
                          ![c].at = IF flow[c].todo = {p} THEN "read" ELSE @]
  /\ UNCHANGED <<server, tabs, faults>>

\* POST render: a file of the copy that was sent, not of what is stored.
Render(c) ==
  /\ flow[c].at = "sent" /\ Kind(c) = "download" /\ Allowed(c, Project(c))
  /\ Step(c, "rendered")
  /\ UNCHANGED <<server, tabs, faults>>

-----------------------------------------------------------------------------
(* What the tab does with an answer *)

\* The exports page saves the file, and only then asks to record the export.
\* Mutant: the page is content with the file.
LandFileOnly(c) ==
  /\ flow[c].at = "rendered"
  /\ flow' = [flow EXCEPT ![c].at = "done", ![c].file = flow[c].got[Project(c)].state]
  /\ UNCHANGED <<server, tabs, faults>>
LandFile(c) ==
  /\ flow[c].at = "rendered"
  /\ flow' = [flow EXCEPT ![c].at = "recording", ![c].by = cookie,
                          ![c].file = flow[c].got[Project(c)].state]
  /\ UNCHANGED <<server, tabs, faults>>

\* upsertProject and commit.
Upsert(c, p) ==
  LET t == flow[c].tab IN
  /\ copy' = [copy EXCEPT ![t][p] = flow[c].got[p]]
  /\ listed' = [listed EXCEPT ![t] = @ \union {p}]

\* The project with the rows of this operation only, so that it is read again.
\* Mutants: it is not read again; it is read again but not taken over at once.
LandAnswerOnly(c) ==
  /\ flow[c].at = "answered" /\ Kind(c) \in {"operate", "download", "create"}
  /\ Upsert(c, Project(c))
  /\ flow' = [flow EXCEPT ![c].landed = TRUE, ![c].at = "done"]
  /\ UNCHANGED <<server, faults>>
LandAnswerLater(c) ==
  /\ flow[c].at = "answered" /\ Kind(c) \in {"operate", "download", "create"}
  /\ IF Kind(c) = "create" THEN Upsert(c, Project(c)) ELSE UNCHANGED <<copy, listed>>
  /\ flow' = [flow EXCEPT ![c].landed = TRUE, ![c].got = Nothing, ![c].by = cookie,
                          ![c].at = IF Kind(c) = "create" THEN "done" ELSE "reading",
                          ![c].todo = {Project(c)}]
  /\ UNCHANGED <<server, faults>>
LandAnswer(c) ==
  /\ flow[c].at = "answered" /\ Kind(c) \in {"operate", "download", "create"}
  /\ Upsert(c, Project(c))
  /\ flow' = IF Kind(c) = "create"
             THEN [flow EXCEPT ![c].landed = TRUE, ![c].at = "done"]
             ELSE [flow EXCEPT ![c].landed = TRUE, ![c].at = "reading", ![c].by = cookie,
                               ![c].got = Nothing, ![c].todo = {Project(c)}]
  /\ UNCHANGED <<server, faults>>
\* refreshProject.
LandRefresh(c) ==
  /\ flow[c].at = "read" /\ Kind(c) \in {"operate", "download"}
  /\ Upsert(c, Project(c))
  /\ Step(c, "done")
  /\ UNCHANGED <<server, faults>>

\* refreshProjects fetches what it has no copy of, ...
LandList(c) ==
  LET todo == flow[c].list \ Cached(flow[c].tab) IN
  /\ flow[c].at = "listed"
  /\ flow' = [flow EXCEPT ![c].todo = todo, ![c].got = Nothing, ![c].by = cookie,
                          ![c].at = IF todo = {} THEN "read" ELSE "reading"]
  /\ UNCHANGED <<server, tabs, faults>>
\* ... keeps the other copies, and puts the list in place of the ids.
LandProjects(c) ==
  LET t == flow[c].tab IN
  /\ flow[c].at = "read" /\ Kind(c) \in {"list", "reset"}
  /\ copy' = [copy EXCEPT ![t] =
                [p \in Projects |-> IF flow[c].got[p] = NoCopy THEN @[p] ELSE flow[c].got[p]]]
  /\ listed' = [listed EXCEPT ![t] = flow[c].list]
  /\ Step(c, "done")
  /\ UNCHANGED <<server, faults>>

\* resetStore empties the store and lists again.
\* Mutant: the copies are kept.
LandResetKept(c) ==
  /\ flow[c].at = "answered" /\ Kind(c) = "reset"
  /\ flow' = [flow EXCEPT ![c].landed = TRUE, ![c].at = "listing", ![c].by = cookie]
  /\ UNCHANGED <<server, tabs, faults>>
LandReset(c) ==
  LET t == flow[c].tab IN
  /\ flow[c].at = "answered" /\ Kind(c) = "reset"
  /\ copy' = [copy EXCEPT ![t] = Nothing] /\ listed' = [listed EXCEPT ![t] = {}]
  /\ flow' = [flow EXCEPT ![c].landed = TRUE, ![c].at = "listing", ![c].by = cookie]
  /\ UNCHANGED <<server, faults>>

\* setActorId: the cookie is the browser's, so every tab's next request carries it.
LandSwitch(c) ==
  /\ flow[c].at = "answered" /\ Kind(c) = "switch"
  /\ cookie' = flow[c].ask.actor
  /\ Step(c, "done")
  /\ UNCHANGED <<saved, rows, crossed, tabs, faults>>

\* A request that does not arrive, or an answer, of which the cookie may have come.
\* Whatever was done stays.
Lost(c) ==
  /\ InFlight(c) /\ flow[c].at \notin {"loaded", "saved"}
  /\ faults < MaxFaults /\ faults' = faults + 1
  /\ Step(c, "failed")
  /\ \/ UNCHANGED cookie
     \/ flow[c].at = "answered" /\ Kind(c) = "switch" /\ cookie' = flow[c].ask.actor
  /\ UNCHANGED <<saved, rows, crossed, tabs>>

FlowStep(c) ==
  \/ LoadOperation(c) \/ SaveOperation(c) \/ ServeRows(c) \/ ServeRefusal(c)
  \/ ServeCreation(c) \/ ServeReset(c) \/ ServeSwitch(c) \/ ServeList(c) \/ ReadState(c)
  \/ ReadRows(c) \/ Render(c) \/ LandFile(c) \/ LandAnswer(c) \/ LandRefresh(c)
  \/ LandList(c) \/ LandProjects(c) \/ LandReset(c) \/ LandSwitch(c) \/ Lost(c)

Next == (\E c \in Flows : Begin(c)) \/ \E c \in AllFlows : FlowStep(c)

Spec == Init /\ [][Next]_vars

-----------------------------------------------------------------------------
(* Properties *)

Works(c) == flow[c].at # "new" /\ Kind(c) \in {"operate", "download", "create"}
\* A reset has deleted p.  (It may be back: an operation that had read it has saved it.)
Deleted(p) == \E c \in AllFlows : p \in flow[c].wiped

\* applyProjectOp shows what was done even if the read that follows it fails, and
\* no later flow of the tab takes it away again.  Work that a tab did with nothing
\* else under way in the tab, and that no other operation on the project crossed at
\* the server, is in the tab's copy until somebody resets the store.
OwnWorkIsShown ==
  \A c \in AllFlows :
    Works(c) /\ flow[c].landed /\ ~flow[c].mixed /\ c \notin crossed =>
      Contains(copy[flow[c].tab][Project(c)].state, c) \/ Deleted(Project(c))

\* Between the two answers of an operation the tab has only that operation's rows.
\* Once it is at rest, and no answer was lost, each of its logs is the server's from
\* the first row on, with the rows of all that it did with nothing else under way,
\* whatever crossed at the server: snapshots are overwritten, rows are not.
LogIsWholeAtRest ==
  \A t \in Tabs, p \in Projects :
    (\A c \in OfTab(t) : flow[c].at = "done") /\ ~Deleted(p) =>
      /\ IsPrefix(copy[t][p].rows, rows[p])
      /\ \A c \in OfTab(t) :
           Works(c) /\ Project(c) = p /\ ~flow[c].mixed => Contains(copy[t][p].rows, c)

\* After a tab has reset the store, with nothing else under way in the tab and no
\* operation between its read and its save at the server, it never again shows a
\* project that was deleted.
ResetClearsTab ==
  \A c \in AllFlows :
    /\ flow[c].at # "new" /\ Kind(c) = "reset" /\ flow[c].landed
    /\ ~flow[c].mixed /\ c \notin crossed
    => flow[c].wiped \intersect (Cached(flow[c].tab) \union listed[flow[c].tab]) = {}

\* A file is made from what the browser sent, and recorded by a later request.  It is
\* nevertheless on the project's record unless the page reported an error or is still
\* at it, or the recording was crossed by another operation or the store was reset;
\* and if no operations on the project ever crossed, it is of a state that what is
\* stored has grown from.
DownloadIsRecorded ==
  \A c \in AllFlows :
    flow[c].file # << >> /\ ~Deleted(Project(c)) =>
      /\ flow[c].at = "done" /\ c \notin crossed => Contains(saved[Project(c)], c)
      /\ \/ \E d \in crossed : Works(d) /\ Project(d) = Project(c)
         \/ IsPrefix(flow[c].file, saved[Project(c)])
=============================================================================
