---------------------------- MODULE BrowserProofs -----------------------------
(***************************************************************************)
(* What the tabs of a browser keep, for any number of tabs, projects,      *)
(* flows and lost answers: work done alone stays on the screen, the log of *)
(* a tab at rest is the server's, a reset clears the tab, and a downloaded *)
(* file is on record; as far as operations of other tabs do not cross      *)
(* theirs between read and save.                                           *)
(*                                                                         *)
(* A step is first reduced to what it does to one flow, to the server and  *)
(* to the tab of that flow (Moves, Starts); each part of the invariant is  *)
(* then proved from that reduction alone.                                  *)
(***************************************************************************)
EXTENDS Browser, TLAPS, SequenceTheorems

-----------------------------------------------------------------------------
(* The inductive invariant: one flow by itself *)

Names == AllFlows \union {Founder}
Copy == [state : Seq(Names), rows : Seq(Names)]
Stages ==
  {"new", "sent", "rendered", "recording", "loaded", "saved", "answered", "listing",
   "listed", "reading", "read", "done", "failed"}
Orders == Asks \union {[kind |-> "list"]}
Flow ==
  [at : Stages, tab : Tabs \union {None}, ask : Orders \union {None},
   todo : SUBSET Projects, list : SUBSET Projects, got : [Projects -> Copy],
   by : Actors \union {None}, mixed : BOOLEAN, landed : BOOLEAN,
   wiped : SUBSET Projects, file : Seq(Names)]

TypeOK ==
  /\ saved \in [Projects -> Seq(Names)] /\ rows \in [Projects -> Seq(Names)]
  /\ cookie \in Actors /\ crossed \subseteq AllFlows
  /\ copy \in [Tabs -> [Projects -> Copy]] /\ listed \in [Tabs -> SUBSET Projects]
  /\ flow \in [AllFlows -> Flow]

Begun(c) == flow[c].at # "new"
Reading(c) == flow[c].at \in {"reading", "read"}

\* The stages are those of the kind of the flow.
InCourse(at, kind) ==
  /\ at \in {"sent", "answered"} => kind # "list"
  /\ at \in {"rendered", "recording"} => kind = "download"
  /\ at \in {"loaded", "saved"} => kind \in {"operate", "download"}
  /\ at \in {"listing", "listed"} => kind \in {"list", "reset"}
  /\ at \in {"reading", "read"} => kind \in {"operate", "download", "list", "reset"}

\* A flow that has begun has its tab and its order and is on its course.
OnCourse(c) ==
  IF Begun(c)
  THEN /\ flow[c].tab \in Tabs /\ flow[c].ask \in Orders
       /\ InCourse(flow[c].at, Kind(c))
       /\ flow[c].file # << >> => Kind(c) = "download"
  ELSE flow[c].tab = None /\ flow[c].file = << >> /\ ~flow[c].landed

\* When the tab has taken over the first answer, and when a reset deletes.
LandsInTime(c) ==
  /\ flow[c].landed =>
       flow[c].at \in {"listing", "listed", "reading", "read", "done", "failed"}
  /\ Works(c) /\ flow[c].at \in {"reading", "read", "done"} => flow[c].landed
  /\ flow[c].at \in {"new", "sent"} => flow[c].wiped = {}

\* An answer has the flow's own work; a project that was read is there.
AnswersItself(c) ==
  /\ Works(c) /\ flow[c].at \in {"saved", "answered"} =>
       Contains(flow[c].got[Project(c)].state, c)
  /\ Works(c) /\ flow[c].at = "answered" /\ Kind(c) = "create" =>
       flow[c].got[Project(c)] = [state |-> <<c>>, rows |-> <<c>>]
ReadsWhatIs(c) ==
  /\ Reading(c) => \A p \in Projects : flow[c].got[p] # NoCopy => flow[c].got[p].state # << >>
  /\ flow[c].at = "reading" /\ Works(c) => flow[c].todo = {Project(c)}
  /\ flow[c].at = "read" => /\ flow[c].todo = {}
                            /\ Works(c) => flow[c].got[Project(c)] # NoCopy

Alone(c) == OnCourse(c) /\ LandsInTime(c) /\ AnswersItself(c) /\ ReadsWhatIs(c)
FlowsAlone == \A c \in AllFlows : Alone(c)

-----------------------------------------------------------------------------
(* The inductive invariant: flows, the server and the tabs *)

\* A flow with another one beside it knows.
Solo ==
  \A c, d \in AllFlows :
    /\ c # d /\ InFlight(c) /\ InFlight(d) /\ flow[c].tab = flow[d].tab
    /\ Kind(c) # "list"
    => flow[c].mixed

Creates(c, p) == Begun(c) /\ Kind(c) = "create" /\ Project(c) = p
CreatedOnce ==
  \A c, d \in AllFlows, p \in Projects : Creates(c, p) /\ Creates(d, p) => c = d

\* Two flows between the read and the save of one project have crossed, and what one
\* has read that has not crossed is what is stored.
LoadedTogether ==
  \A c, d \in AllFlows :
    /\ c # d /\ flow[c].at = "loaded" /\ flow[d].at = "loaded" /\ Project(c) = Project(d)
    => c \in crossed
LoadedIsCurrent ==
  \A c \in AllFlows :
    flow[c].at = "loaded" /\ c \notin crossed =>
      flow[c].got[Project(c)].state = saved[Project(c)]

\* A project that nobody has made is not there; one that is not there, and that no
\* reset has deleted, is nowhere.
Live(p) == ~Deleted(p)
Made(p) == p \in Founded \/ \E c \in AllFlows : Creates(c, p) /\ flow[c].at # "sent"
Untouched(p) ==
  /\ rows[p] = << >>
  /\ \A t \in Tabs : copy[t][p] = NoCopy
  /\ \A c \in AllFlows : Begun(c) =>
       /\ flow[c].got[p] = NoCopy
       /\ Works(c) /\ Project(c) = p => Kind(c) = "create"
NothingOfUnmade == \A p \in Projects : ~Made(p) => saved[p] = << >> /\ Live(p)
NothingOfAbsent == \A p \in Projects : saved[p] = << >> /\ Live(p) => Untouched(p)

\* A project that a reset deleted, with no operation between read and save, stays
\* deleted: its id is not used again.
WipedIsGone ==
  \A c \in AllFlows : c \notin crossed => \A p \in flow[c].wiped :
    saved[p] = << >> /\ \A d \in AllFlows : flow[d].at = "loaded" => Project(d) # p

\* What anybody has of a project that was not deleted, and on which no operations
\* crossed, is the beginning of it.
Muddled(p) == \E d \in crossed : Works(d) /\ Project(d) = p
SeenIsPrefix ==
  \A p \in Projects : Live(p) /\ ~Muddled(p) =>
    /\ \A t \in Tabs : IsPrefix(copy[t][p].state, saved[p])
    /\ \A c \in AllFlows : Begun(c) =>
         /\ IsPrefix(flow[c].got[p].state, saved[p])
         /\ Works(c) /\ Project(c) = p => IsPrefix(flow[c].file, saved[p])

\* Rows that were answered are in the log.  Work that was saved is stored, if nothing
\* crossed it, and whoever is about to save the project has read it.
HasSaved(c) == flow[c].landed \/ flow[c].at \in {"saved", "answered"}
HasRows(c) == flow[c].landed \/ flow[c].at = "answered"
RowsAreStored ==
  \A c \in AllFlows : Works(c) /\ Live(Project(c)) /\ HasRows(c) =>
    Contains(rows[Project(c)], c)
Kept(c) ==
  LET p == Project(c) IN
  /\ Contains(saved[p], c)
  /\ \A d \in AllFlows : flow[d].at = "loaded" /\ Project(d) = p =>
       Contains(flow[d].got[p].state, c)
WorkIsStored ==
  \A c \in AllFlows :
    Works(c) /\ Live(Project(c)) /\ HasSaved(c) /\ c \notin crossed => Kept(c)

\* The tab is between the two answers of an operation, or was left there.
Refreshes(c, t, p) ==
  /\ flow[c].tab = t /\ Works(c) /\ Project(c) = p /\ flow[c].landed
  /\ flow[c].at \in {"reading", "read", "failed"}
Refreshing(t, p) == \E c \in AllFlows : Refreshes(c, t, p)
\* The rows that the flow holds of a project are rows of the log.
HoldsRows(c, p) == Reading(c) \/ (Creates(c, p) /\ flow[c].at = "answered")
RowsArePrefix ==
  \A p \in Projects : Live(p) =>
    /\ \A t \in Tabs : Refreshing(t, p) \/ IsPrefix(copy[t][p].rows, rows[p])
    /\ \A c \in AllFlows : HoldsRows(c, p) => IsPrefix(flow[c].got[p].rows, rows[p])

\* Work that had nothing beside it in the tab is in the tab's log, and in its copy if
\* nothing crossed it; and nothing that the tab is about to take over is without it.
Carries(d, p, c) ==
  /\ c \notin crossed => flow[d].got[p].state = << >> \/ Contains(flow[d].got[p].state, c)
  /\ ~(Kind(d) = "reset" /\ flow[d].at = "answered")
  /\ ~(Creates(d, p) /\ flow[d].at = "answered")
  /\ Reading(d) => \/ flow[d].got[p] = NoCopy \/ p \in flow[d].todo
                   \/ Contains(flow[d].got[p].rows, c)
Shown(c) ==
  LET p == Project(c) t == flow[c].tab IN
  Live(p) =>
    /\ c \notin crossed => Contains(copy[t][p].state, c)
    /\ Refreshing(t, p) \/ Contains(copy[t][p].rows, c)
    /\ \A d \in AllFlows : InFlight(d) /\ flow[d].tab = t => Carries(d, p, c)
OwnWorkStays ==
  \A c \in AllFlows : Works(c) /\ flow[c].landed /\ ~flow[c].mixed => Shown(c)

\* After a reset that had nothing beside it, nothing brings a deleted project back.
Spares(d, p) ==
  /\ Works(d) => Project(d) # p
  /\ Reading(d) => flow[d].got[p] = NoCopy
  /\ flow[d].at \in {"listed", "reading", "read"} /\ ~Works(d) => p \notin flow[d].list
Cleared(c) ==
  LET t == flow[c].tab IN
  \A p \in flow[c].wiped :
    /\ copy[t][p].state = << >> /\ p \notin listed[t]
    /\ \A d \in AllFlows : InFlight(d) /\ flow[d].tab = t => Spares(d, p)
ResetStays ==
  \A c \in AllFlows :
    Begun(c) /\ Kind(c) = "reset" /\ flow[c].landed /\ ~flow[c].mixed /\ c \notin crossed
    => Cleared(c)

Inv ==
  /\ TypeOK /\ FlowsAlone /\ Solo /\ CreatedOnce /\ LoadedTogether /\ LoadedIsCurrent
  /\ NothingOfUnmade /\ NothingOfAbsent /\ WipedIsGone /\ SeenIsPrefix /\ RowsAreStored
  /\ WorkIsStored /\ RowsArePrefix /\ OwnWorkStays /\ ResetStays

-----------------------------------------------------------------------------
(* Sequences, orders and flows *)

LEMMA PrefixFacts ==
  \A s, t \in Seq(Names), e \in Names :
    /\ IsPrefix(s, s) /\ IsPrefix(<< >>, s)
    /\ IsPrefix(s, t) => IsPrefix(s, Append(t, e))
    /\ \A f : IsPrefix(s, t) /\ Contains(s, f) => Contains(t, f)
<1> TAKE s, t \in Seq(Names), e \in Names
<1> QED
  BY DEF IsPrefix, Contains

LEMMA AppendFacts ==
  \A s \in Seq(Names), e \in Names :
    /\ Contains(Append(s, e), e) /\ Append(s, e) # << >> /\ Append(s, e) \in Seq(Names)
    /\ \A f : Contains(s, f) => Contains(Append(s, e), f)
<1> TAKE s \in Seq(Names), e \in Names
<1>1. \A i \in 1..Len(s) : Append(s, e)[i] = s[i]
  BY AppendProperties
<1>2. Append(s, e)[Len(s) + 1] = e /\ Len(Append(s, e)) = Len(s) + 1 /\ Len(s) \in Nat
  BY AppendProperties, LenProperties
<1>3. Contains(Append(s, e), e) /\ Append(s, e) # << >>
  BY <1>2 DEF Contains
<1>4. \A f : Contains(s, f) => Contains(Append(s, e), f)
  BY <1>1, <1>2 DEF Contains
<1>5. QED
  BY <1>3, <1>4

LEMMA ContainsFacts ==
  /\ \A f : ~Contains(<< >>, f)
  /\ \A e \in Names : <<e>> \in Seq(Names) /\ <<e>> # << >>
                       /\ \A f : Contains(<<e>>, f) <=> f = e
  BY DEF Contains

LEMMA OrderFacts ==
  ASSUME NEW a \in Orders
  PROVE  /\ a.kind \in {"operate", "download", "create", "switch", "reset", "list"}
         /\ a.kind \in {"operate", "download", "create"} => a.project \in Projects
         /\ a.kind = "create" => a.project \notin Founded
         /\ a.kind = "switch" => a.actor \in Actors
         /\ \A b \in Orders : a.kind = "create" /\ b.kind = "create"
                               /\ a.project = b.project => a = b
  BY BrowserAssumption DEF Orders, AllAsks

\* The kinds of a flow, and what it is about.
LEMMA FlowFacts ==
  ASSUME FlowsAlone, NEW c \in AllFlows, Begun(c)
  PROVE  /\ Kind(c) \in {"operate", "download", "create", "switch", "reset", "list"}
         /\ Works(c) <=> Kind(c) \in {"operate", "download", "create"}
         /\ Works(c) => Project(c) \in Projects
         /\ flow[c].tab \in Tabs /\ InCourse(flow[c].at, Kind(c))
         /\ Creates(c, Project(c)) <=> Kind(c) = "create"
         /\ Kind(c) = "create" => Project(c) \notin Founded
  BY OrderFacts DEF FlowsAlone, Alone, OnCourse, Begun, Kind, Project, Works, Creates

\* What a flow holds of a project is a copy.
LEMMA HeldTypes ==
  ASSUME TypeOK, NEW d \in AllFlows, NEW p \in Projects
  PROVE  /\ flow[d].got[p] \in Copy
         /\ flow[d].got[p].state \in Seq(Names) /\ flow[d].got[p].rows \in Seq(Names)
<1>1. flow[d] \in Flow
  BY DEF TypeOK
<1>2. flow[d].got \in [Projects -> Copy]
  BY <1>1 DEF Flow
<1> QED
  BY <1>2 DEF Copy

LEMMA NoCopyFacts ==
  /\ NoCopy \in Copy /\ NoCopy.state = << >> /\ NoCopy.rows = << >>
  /\ Nothing \in [Projects -> Copy] /\ \A p \in Projects : Nothing[p] = NoCopy
  BY DEF NoCopy, Nothing, Copy

-----------------------------------------------------------------------------
(* What a step of a flow does *)

\* Only its own record changes, and of that not what it was begun with.
Frame(c) ==
  /\ c \in AllFlows /\ InFlight(c) /\ flow'[c].at \notin {"new", "sent"}
  /\ \A d \in AllFlows : d # c => flow'[d] = flow[d]
  /\ flow'[c].tab = flow[c].tab /\ flow'[c].ask = flow[c].ask
  /\ flow'[c].mixed = flow[c].mixed

\* The server: nothing, a snapshot, its rows, a new project, a reset.
Appends(c, p) == Works(c) /\ Kind(c) # "create" /\ Project(c) = p
ServerMoves(c) == \A p \in Projects :
  \/ saved'[p] = saved[p] /\ rows'[p] = rows[p]
  \/ /\ Appends(c, p) /\ flow[c].at = "loaded"
     /\ saved'[p] = Append(flow[c].got[p].state, c) /\ rows'[p] = rows[p]
  \/ Appends(c, p) /\ saved'[p] = saved[p] /\ rows'[p] = Append(rows[p], c)
  \/ /\ Creates(c, p) /\ flow[c].at = "sent"
     /\ saved'[p] = <<c>> /\ rows'[p] = <<c>>
  \/ /\ saved'[p] = << >> /\ rows'[p] = << >>
     /\ saved[p] = << >> \/ (p \notin flow[c].wiped /\ p \in flow'[c].wiped)
StoresMoves(c) == Works(c) =>
  /\ HasSaved(c)' /\ ~HasSaved(c) =>
       /\ Contains(saved'[Project(c)], c)
       /\ flow[c].at = "loaded" \/ (Kind(c) = "create" /\ flow[c].at = "sent")
  /\ HasRows(c)' => HasRows(c) \/ Contains(rows'[Project(c)], c)
\* A read of an operation, which the operations crossing it learn of.
LoadMoves(c) ==
  /\ crossed \subseteq crossed'
  /\ flow'[c].at = "loaded" =>
       /\ Works(c) /\ Kind(c) # "create" /\ saved' = saved
       /\ saved[Project(c)] # << >>
       /\ flow'[c].got[Project(c)].state = saved[Project(c)]
       /\ \A d \in AllFlows : flow[d].at = "loaded" /\ Project(d) = Project(c) =>
            d \in crossed' /\ c \in crossed'

\* What the flow holds of a project: as before, nothing, or what was just read.
GotMoves(c) == \A p \in Projects :
  LET old == flow[c].got[p] new == flow'[c].got[p] IN
  /\ \/ new.state \in {old.state, << >>}
     \/ saved'[p] # << >> /\ new.state = saved'[p]
  /\ new # NoCopy /\ old = NoCopy => saved'[p] # << >>
  /\ Reading(c)' /\ ~Reading(c) => new = NoCopy
  /\ HoldsRows(c, p)' =>
       \/ new = NoCopy \/ (p \in flow'[c].todo /\ new.rows = << >>)
       \/ new.rows = rows'[p]
       \/ Reading(c) /\ new = old /\ (p \in flow[c].todo => p \in flow'[c].todo)
FileMoves(c) ==
  \/ flow'[c].file = flow[c].file
  \/ Works(c) /\ flow'[c].file = flow[c].got[Project(c)].state
WipedMoves(c) ==
  \/ flow'[c].wiped = flow[c].wiped
  \/ /\ ~flow'[c].landed /\ flow'[c].at = "answered"
     /\ flow[c].wiped = {} /\ flow'[c].wiped = {p \in Projects : saved[p] # << >>}
     /\ \A p \in Projects : saved'[p] = << >>
     /\ \A d \in AllFlows : flow[d].at = "loaded" => d \in crossed' /\ c \in crossed'
ListMoves(c) == \A p \in flow'[c].list :
  flow'[c].at \in {"listed", "reading", "read"} /\ ~Works(c) =>
    \/ saved'[p] # << >>
    \/ flow[c].at \in {"listed", "reading", "read"} /\ p \in flow[c].list

\* The tab: nothing, a project taken over, or everything forgotten.
Takes(c, p) ==
  \/ /\ Works(c) /\ flow[c].at = "answered" /\ p = Project(c) /\ flow'[c].landed
     /\ flow'[c].at = IF Kind(c) = "create" THEN "done" ELSE "reading"
  \/ flow[c].at = "read" /\ flow[c].got[p] # NoCopy /\ flow'[c].at = "done"
CopyMoves(c) == \A t \in Tabs, p \in Projects :
  \/ copy'[t][p] = copy[t][p]
  \/ t = flow[c].tab /\ Takes(c, p) /\ copy'[t][p] = flow[c].got[p]
  \/ /\ t = flow[c].tab /\ Kind(c) = "reset" /\ flow[c].at = "answered"
     /\ copy'[t][p] = NoCopy
ListedMoves(c) == \A t \in Tabs : \A p \in listed'[t] :
  \/ p \in listed[t]
  \/ t = flow[c].tab /\ Works(c) /\ p = Project(c)
  \/ t = flow[c].tab /\ ~Works(c) /\ flow[c].at = "read" /\ p \in flow[c].list

\* The first answer is taken over at once, by the tab and by the flow.
LandMoves(c) ==
  /\ flow[c].landed => flow'[c].landed
  /\ flow'[c].landed /\ ~flow[c].landed =>
       /\ flow[c].at = "answered"
       /\ Works(c) => Takes(c, Project(c))
                        /\ copy'[flow[c].tab][Project(c)] = flow[c].got[Project(c)]
       /\ Kind(c) = "reset" => \A p \in Projects : /\ copy'[flow[c].tab][p] = NoCopy
                                                   /\ listed'[flow[c].tab] = {}
                                                   /\ flow'[c].at = "listing"
       /\ \A p \in Projects : Reading(c)' => flow'[c].got[p] = NoCopy
\* A refresh that was begun is there to the end.
RefreshMoves(c) ==
  Works(c) /\ flow[c].landed /\ flow[c].at \in {"reading", "read", "failed"} =>
    \/ flow'[c].at \in {"reading", "read", "failed"}
    \/ /\ flow[c].at = "read"
       /\ copy'[flow[c].tab][Project(c)] = flow[c].got[Project(c)]
\* A flow is answered by what it asked for.
AnswerMoves(c) ==
  /\ Kind(c) = "reset" /\ flow'[c].at = "answered" =>
       flow[c].at = "sent" /\ \A p \in Projects : saved'[p] = << >>
  /\ Kind(c) = "create" /\ flow'[c].at = "answered" => flow[c].at = "sent"

Moves(c) ==
  /\ Frame(c) /\ ServerMoves(c) /\ StoresMoves(c) /\ LoadMoves(c) /\ GotMoves(c)
  /\ FileMoves(c) /\ WipedMoves(c) /\ ListMoves(c) /\ CopyMoves(c) /\ ListedMoves(c)
  /\ LandMoves(c) /\ RefreshMoves(c) /\ AnswerMoves(c)

\* An operation reads the project, and so do those that it crosses.
LEMMA LoadOperationMoves ==
  ASSUME TypeOK, FlowsAlone, NEW c \in AllFlows, LoadOperation(c)
  PROVE  TypeOK' /\ Alone(c)' /\ Moves(c)
<1> DEFINE p == Project(c)
<1> USE NoCopyFacts
<1>1. flow[c] \in Flow /\ Begun(c)
  BY DEF LoadOperation, TypeOK, Begun
<1>2. /\ Works(c) /\ Kind(c) \in {"operate", "download"} /\ p \in Projects /\ Alone(c)
      /\ ~flow[c].landed /\ flow[c].tab \in Tabs /\ flow[c].at \in {"sent", "recording"}
  BY <1>1, FlowFacts DEF LoadOperation, InCourse, FlowsAlone, Alone, LandsInTime
<1>3. /\ saved[p] # << >> /\ saved[p] \in Seq(Names)
      /\ UNCHANGED <<saved, rows, cookie, copy, listed>>
  BY <1>2 DEF LoadOperation, TypeOK, Allowed, tabs
<1>a. crossed \subseteq crossed' /\ crossed' \subseteq AllFlows
      /\ \A d \in AllFlows : flow[d].at = "loaded" /\ Project(d) = p =>
           d \in crossed' /\ c \in crossed'
  <2>1. crossed' = Crossed(c, Loaded(p))
    BY DEF LoadOperation
  <2>2. \A d \in AllFlows : flow[d].at = "loaded" /\ Project(d) = p => d \in Loaded(p)
    BY DEF Loaded
  <2>3. Loaded(p) \subseteq AllFlows /\ crossed \subseteq AllFlows
    BY DEF Loaded, TypeOK
  <2>4. QED
    BY <2>1, <2>2, <2>3 DEF Crossed
<1>4. /\ \A d \in AllFlows : d # c => flow'[d] = flow[d]
      /\ flow'[c].at = "loaded" /\ flow'[c].file = flow[c].file
      /\ flow'[c].wiped = flow[c].wiped /\ flow'[c].landed = flow[c].landed
      /\ flow'[c].ask = flow[c].ask /\ flow'[c].tab = flow[c].tab
      /\ flow'[c].mixed = flow[c].mixed
      /\ flow'[c].todo = flow[c].todo /\ flow'[c].list = flow[c].list
      /\ flow'[c].got = [Nothing EXCEPT ![Project(c)].state = saved[Project(c)]]
  BY <1>1 DEF LoadOperation, TypeOK, Flow
<1>5. /\ flow'[c].got \in [Projects -> Copy]
      /\ flow'[c].got[p].state = saved[p]
      /\ \A q \in Projects \ {p} : flow'[c].got[q] = NoCopy
  <2>1. [NoCopy EXCEPT !.state = saved[p]] \in Copy
        /\ [NoCopy EXCEPT !.state = saved[p]].state = saved[p]
    BY <1>3 DEF NoCopy, Copy
  <2>2. flow'[c].got = [Nothing EXCEPT ![p] = [NoCopy EXCEPT !.state = saved[p]]]
    BY <1>2, <1>4
  <2>3. QED
    BY <1>2, <2>1, <2>2
<1>6. flow' \in [AllFlows -> Flow]
  <2>1. [Nothing EXCEPT ![Project(c)].state = saved[Project(c)]] \in [Projects -> Copy]
    BY <1>4, <1>5
  <2>2. flow' = [flow EXCEPT ![c].at = "loaded",
                            ![c].got = [Nothing EXCEPT ![Project(c)].state = saved[Project(c)]]]
    BY DEF LoadOperation
  <2>3. "loaded" \in Stages /\ flow \in [AllFlows -> Flow]
    BY DEF TypeOK, Stages
  <2>4. QED
    BY <1>1, <2>1, <2>2, <2>3 DEF Flow
<1>7. TypeOK'
  BY <1>3, <1>a, <1>6 DEF TypeOK
<1>8. Alone(c)'
  BY <1>2, <1>4, <1>5
  DEF Alone, OnCourse, LandsInTime, AnswersItself, ReadsWhatIs, Begun, Reading, Kind, Project,
      Works, InCourse
<1>9. Frame(c)
  BY <1>1, <1>2, <1>4 DEF Frame, InFlight, Over
<1>10. ServerMoves(c) /\ StoresMoves(c)
  BY <1>2, <1>3, <1>4 DEF ServerMoves, StoresMoves, HasSaved, HasRows
<1>11. GotMoves(c) /\ FileMoves(c) /\ WipedMoves(c) /\ ListMoves(c)
  BY <1>2, <1>3, <1>4, <1>5
  DEF GotMoves, FileMoves, WipedMoves, ListMoves, Reading, HoldsRows, Creates, Kind, Project,
      Works
<1>12. CopyMoves(c) /\ ListedMoves(c) /\ LandMoves(c) /\ RefreshMoves(c) /\ AnswerMoves(c)
  BY <1>2, <1>3, <1>4
  DEF CopyMoves, ListedMoves, LandMoves, RefreshMoves, AnswerMoves
<1>13. LoadMoves(c)
  BY <1>2, <1>3, <1>a, <1>5 DEF LoadMoves
<1>14. QED
  BY <1>7, <1>8, <1>9, <1>10, <1>11, <1>12, <1>13 DEF Moves

\* ... and saves what it made of what it read.
LEMMA SaveOperationMoves ==
  ASSUME TypeOK, FlowsAlone, NEW c \in AllFlows, SaveOperation(c)
  PROVE  TypeOK' /\ Alone(c)' /\ Moves(c)
<1> DEFINE p == Project(c)
<1> USE NoCopyFacts
<1>1. flow[c] \in Flow /\ Begun(c)
  BY DEF SaveOperation, TypeOK, Begun
<1>2. /\ Works(c) /\ Kind(c) \in {"operate", "download"} /\ p \in Projects /\ Alone(c)
      /\ ~flow[c].landed /\ flow[c].tab \in Tabs /\ flow[c].at = "loaded"
  BY <1>1, FlowFacts DEF SaveOperation, InCourse, FlowsAlone, Alone, LandsInTime
<1>b. flow[c].got[p].state \in Seq(Names) /\ c \in Names
  BY <1>2, HeldTypes DEF Names
<1>3. /\ saved' = [saved EXCEPT ![p] = Append(flow[c].got[p].state, c)]
      /\ saved'[p] = Append(flow[c].got[p].state, c) /\ saved'[p] \in Seq(Names)
      /\ UNCHANGED <<rows, cookie, crossed, copy, listed>>
      /\ \A q \in Projects : q # p => saved'[q] = saved[q]
      /\ saved' \in [Projects -> Seq(Names)]
  <2>1. saved' = [saved EXCEPT ![p] = Append(flow[c].got[p].state, c)]
        /\ UNCHANGED <<rows, cookie, crossed, copy, listed>>
    BY DEF SaveOperation, tabs
  <2>2. Append(flow[c].got[p].state, c) \in Seq(Names)
    BY <1>b, AppendFacts
  <2>3. QED
    BY <1>2, <2>1, <2>2 DEF TypeOK
<1>a. Contains(saved'[p], c) /\ saved'[p] # << >>
  <2>1. /\ Contains(Append(flow[c].got[p].state, c), c)
        /\ Append(flow[c].got[p].state, c) # << >>
    BY <1>b, AppendFacts
  <2>2. QED
    BY <1>3, <2>1
<1>4. /\ \A d \in AllFlows : d # c => flow'[d] = flow[d]
      /\ flow'[c].at = "saved" /\ flow'[c].file = flow[c].file
      /\ flow'[c].wiped = flow[c].wiped /\ flow'[c].landed = flow[c].landed
      /\ flow'[c].ask = flow[c].ask /\ flow'[c].tab = flow[c].tab
      /\ flow'[c].mixed = flow[c].mixed
      /\ flow'[c].todo = flow[c].todo /\ flow'[c].list = flow[c].list
      /\ flow'[c].got = [Nothing EXCEPT ![Project(c)].state = saved'[Project(c)]]
  BY <1>1 DEF SaveOperation, TypeOK, Flow
<1>5. /\ flow'[c].got \in [Projects -> Copy]
      /\ flow'[c].got[p].state = saved'[p]
      /\ \A q \in Projects \ {p} : flow'[c].got[q] = NoCopy
  <2>1. [NoCopy EXCEPT !.state = saved'[p]] \in Copy
        /\ [NoCopy EXCEPT !.state = saved'[p]].state = saved'[p]
    BY <1>3 DEF NoCopy, Copy
  <2>2. flow'[c].got = [Nothing EXCEPT ![p] = [NoCopy EXCEPT !.state = saved'[p]]]
    BY <1>2, <1>4
  <2>3. QED
    BY <1>2, <2>1, <2>2
<1>6. flow' \in [AllFlows -> Flow]
  <2>1. [Nothing EXCEPT ![Project(c)].state = saved'[Project(c)]] \in [Projects -> Copy]
    BY <1>4, <1>5
  <2>2. flow' = [flow EXCEPT ![c].at = "saved",
                            ![c].got = [Nothing EXCEPT ![Project(c)].state = saved'[Project(c)]]]
    BY DEF SaveOperation
  <2>3. "saved" \in Stages /\ flow \in [AllFlows -> Flow]
    BY DEF TypeOK, Stages
  <2>4. QED
    BY <1>1, <2>1, <2>2, <2>3 DEF Flow
<1>7. TypeOK'
  BY <1>3, <1>6 DEF TypeOK
<1>8. Alone(c)'
  BY <1>2, <1>a, <1>4, <1>5
  DEF Alone, OnCourse, LandsInTime, AnswersItself, ReadsWhatIs, Begun, Reading, Kind, Project,
      Works, InCourse
<1>9. Frame(c)
  BY <1>1, <1>2, <1>4 DEF Frame, InFlight, Over
<1>10. ServerMoves(c) /\ StoresMoves(c)
  BY <1>2, <1>3, <1>a, <1>4 DEF ServerMoves, StoresMoves, Appends, HasSaved, HasRows
<1>11. GotMoves(c) /\ FileMoves(c) /\ WipedMoves(c) /\ ListMoves(c)
  BY <1>2, <1>3, <1>a, <1>4, <1>5
  DEF GotMoves, FileMoves, WipedMoves, ListMoves, Reading, HoldsRows, Creates, Kind, Project,
      Works
<1>12. CopyMoves(c) /\ ListedMoves(c) /\ LandMoves(c) /\ RefreshMoves(c) /\ AnswerMoves(c)
  BY <1>2, <1>3, <1>4
  DEF CopyMoves, ListedMoves, LandMoves, RefreshMoves, AnswerMoves
<1>13. LoadMoves(c)
  BY <1>3, <1>4 DEF LoadMoves
<1>14. QED
  BY <1>7, <1>8, <1>9, <1>10, <1>11, <1>12, <1>13 DEF Moves

\* A request or an answer that is lost, or a refusal.
LEMMA FailMoves ==
  ASSUME TypeOK, FlowsAlone, NEW c \in AllFlows, InFlight(c), Step(c, "failed"),
         UNCHANGED <<saved, rows, crossed, tabs>>, cookie' \in Actors
  PROVE  TypeOK' /\ Alone(c)' /\ Moves(c)
<1> DEFINE p == Project(c)
<1> USE NoCopyFacts
<1>1. flow[c] \in Flow /\ Begun(c) /\ Alone(c)
  BY DEF InFlight, TypeOK, Begun, FlowsAlone
<1>2. flow[c].at \notin {"new", "done", "failed"} /\ flow[c].tab \in Tabs
  BY <1>1, FlowFacts DEF InFlight, Over
<1>3. UNCHANGED <<saved, rows, crossed, copy, listed>> /\ cookie' \in Actors
  BY DEF tabs
<1>4. /\ \A d \in AllFlows : d # c => flow'[d] = flow[d]
      /\ flow'[c].at = "failed"
      /\ flow'[c].tab = flow[c].tab /\ flow'[c].ask = flow[c].ask
      /\ flow'[c].todo = flow[c].todo /\ flow'[c].list = flow[c].list
      /\ flow'[c].got = flow[c].got
      /\ flow'[c].mixed = flow[c].mixed
      /\ flow'[c].landed = flow[c].landed /\ flow'[c].wiped = flow[c].wiped
      /\ flow'[c].file = flow[c].file
  BY <1>1 DEF Step, TypeOK, Flow
<1>6. flow' \in [AllFlows -> Flow]
  BY <1>1, <1>2, <1>3, <1>4 DEF Step, TypeOK, Flow, Stages
<1>7. TypeOK'
  BY <1>3, <1>6 DEF TypeOK
<1>8. Alone(c)'
  BY <1>1, <1>2, <1>3, <1>4
  DEF Alone, OnCourse, LandsInTime, AnswersItself, ReadsWhatIs, Begun, Reading, Kind, Project,
      Works, InCourse
<1>9. Frame(c)
  BY <1>1, <1>2, <1>4 DEF Frame, InFlight, Over
<1>10. ServerMoves(c) /\ StoresMoves(c)
  BY <1>1, <1>2, <1>3, <1>4 DEF ServerMoves, StoresMoves, Appends, Creates, HasSaved, HasRows
<1>11. GotMoves(c) /\ FileMoves(c) /\ WipedMoves(c) /\ ListMoves(c)
  BY <1>2, <1>3, <1>4
  DEF GotMoves, FileMoves, WipedMoves, ListMoves, Reading, HoldsRows, Creates, Kind, Project,
      Works
<1>12. CopyMoves(c) /\ ListedMoves(c) /\ LandMoves(c) /\ RefreshMoves(c) /\ AnswerMoves(c)
  BY <1>2, <1>3, <1>4
  DEF CopyMoves, ListedMoves, LandMoves, RefreshMoves, AnswerMoves, Takes, Reading
<1>13. LoadMoves(c)
  BY <1>2, <1>3, <1>4 DEF LoadMoves
<1>14. QED
  BY <1>7, <1>8, <1>9, <1>10, <1>11, <1>12, <1>13 DEF Moves

\* The rows of an operation, and the answer.
LEMMA ServeRowsMoves ==
  ASSUME TypeOK, FlowsAlone, NEW c \in AllFlows, ServeRows(c)
  PROVE  TypeOK' /\ Alone(c)' /\ Moves(c)
<1> DEFINE p == Project(c)
<1> USE NoCopyFacts
<1>1. flow[c] \in Flow /\ Begun(c) /\ Alone(c)
  BY DEF ServeRows, TypeOK, Begun, FlowsAlone
<1>2. /\ Works(c) /\ Kind(c) \in {"operate", "download"} /\ p \in Projects
      /\ ~flow[c].landed /\ flow[c].tab \in Tabs /\ flow[c].at = "saved"
      /\ Contains(flow[c].got[p].state, c)
  BY <1>1, FlowFacts DEF ServeRows, InCourse, Alone, LandsInTime, AnswersItself
<1>3. /\ UNCHANGED <<saved, cookie, crossed, copy, listed>>
      /\ rows[p] \in Seq(Names) /\ c \in Names
      /\ rows' = [rows EXCEPT ![p] = Append(rows[p], c)]
      /\ rows'[p] = Append(rows[p], c) /\ Contains(rows'[p], c)
      /\ rows' \in [Projects -> Seq(Names)]
  <2>1. rows[p] \in Seq(Names) /\ c \in Names
    BY <1>2 DEF TypeOK, Names
  <2>2. UNCHANGED <<saved, cookie, crossed, copy, listed>>
        /\ rows' = [rows EXCEPT ![p] = Append(rows[p], c)]
        /\ rows'[p] = Append(rows[p], c)
    BY <1>2 DEF ServeRows, TypeOK, tabs
  <2>3. QED
    BY <2>1, <2>2, AppendFacts DEF TypeOK
<1>4. /\ \A d \in AllFlows : d # c => flow'[d] = flow[d]
      /\ flow'[c].at = "answered"
      /\ flow'[c].got = [flow[c].got EXCEPT ![Project(c)].rows = <<c>>]
      /\ flow'[c].tab = flow[c].tab /\ flow'[c].ask = flow[c].ask
      /\ flow'[c].todo = flow[c].todo /\ flow'[c].list = flow[c].list

      /\ flow'[c].mixed = flow[c].mixed /\ flow'[c].landed = flow[c].landed
      /\ flow'[c].wiped = flow[c].wiped /\ flow'[c].file = flow[c].file
  BY <1>1 DEF ServeRows, TypeOK, Flow
<1>5. /\ flow'[c].got \in [Projects -> Copy]
      /\ flow'[c].got[p].state = flow[c].got[p].state /\ flow[c].got[p] # NoCopy
      /\ \A q \in Projects \ {p} : flow'[c].got[q] = flow[c].got[q]
  <2>1. flow[c].got \in [Projects -> Copy] /\ <<c>> \in Seq(Names)
    BY <1>1, <1>3, ContainsFacts DEF Flow
  <2>2. flow[c].got[p] # NoCopy
    BY <1>2, ContainsFacts
  <2>3. flow[c].got[p] \in [state : Seq(Names), rows : Seq(Names)]
    BY <1>2, <2>1 DEF Copy
  <2>4. [flow[c].got[p] EXCEPT !.rows = <<c>>] \in [state : Seq(Names), rows : Seq(Names)]
        /\ [flow[c].got[p] EXCEPT !.rows = <<c>>].state = flow[c].got[p].state
    BY <2>1, <2>3
  <2>5. QED
    BY <1>2, <1>4, <2>1, <2>2, <2>4 DEF Copy
<1>6. flow' \in [AllFlows -> Flow]
  <2>1. [flow[c].got EXCEPT ![Project(c)].rows = <<c>>] \in [Projects -> Copy]
    BY <1>4, <1>5
  <2>2. QED
    BY <1>1, <2>1 DEF ServeRows, TypeOK, Flow, Stages
<1>7. TypeOK'
  BY <1>3, <1>6 DEF TypeOK
<1>8. Alone(c)'
  BY <1>1, <1>2, <1>3, <1>4, <1>5
  DEF Alone, OnCourse, LandsInTime, AnswersItself, ReadsWhatIs, Begun, Reading, Kind, Project,
      Works, InCourse
<1>9. Frame(c)
  BY <1>1, <1>2, <1>4 DEF Frame, InFlight, Over
<1>10. ServerMoves(c) /\ StoresMoves(c)
  BY <1>1, <1>2, <1>3, <1>4, <1>5 DEF ServerMoves, StoresMoves, Appends, Creates, HasSaved, HasRows
<1>11. GotMoves(c) /\ FileMoves(c) /\ WipedMoves(c) /\ ListMoves(c)
  BY <1>2, <1>3, <1>4, <1>5
  DEF GotMoves, FileMoves, WipedMoves, ListMoves, Reading, HoldsRows, Creates, Kind, Project,
      Works
<1>12. CopyMoves(c) /\ ListedMoves(c) /\ LandMoves(c) /\ RefreshMoves(c) /\ AnswerMoves(c)
  BY <1>2, <1>3, <1>4, <1>5
  DEF CopyMoves, ListedMoves, LandMoves, RefreshMoves, AnswerMoves, Takes, Reading
<1>13. LoadMoves(c)
  BY <1>2, <1>3, <1>4 DEF LoadMoves
<1>14. QED
  BY <1>7, <1>8, <1>9, <1>10, <1>11, <1>12, <1>13 DEF Moves

\* A new project, with its first row.
LEMMA ServeCreationMoves ==
  ASSUME TypeOK, FlowsAlone, NEW c \in AllFlows, ServeCreation(c)
  PROVE  TypeOK' /\ Alone(c)' /\ Moves(c)
<1> DEFINE p == Project(c)
<1> USE NoCopyFacts
<1>1. flow[c] \in Flow /\ Begun(c) /\ Alone(c)
  BY DEF ServeCreation, TypeOK, Begun, FlowsAlone
<1>2. /\ Works(c) /\ Kind(c) = "create" /\ p \in Projects
      /\ ~flow[c].landed /\ flow[c].tab \in Tabs /\ flow[c].at = "sent"
  BY <1>1, FlowFacts DEF ServeCreation, Alone, LandsInTime
<1>3. /\ UNCHANGED <<cookie, crossed, copy, listed>>
      /\ <<c>> \in Seq(Names) /\ <<c>> # << >> /\ Contains(<<c>>, c)
      /\ saved' = [saved EXCEPT ![p] = <<c>>] /\ rows' = [rows EXCEPT ![p] = <<c>>]
      /\ saved'[p] = <<c>> /\ rows'[p] = <<c>> /\ cookie \in Actors
      /\ \A q \in Projects : q # p => saved'[q] = saved[q] /\ rows'[q] = rows[q]
  <2>1. c \in Names
    BY DEF Names
  <2>2. /\ UNCHANGED <<cookie, crossed, copy, listed>>
        /\ saved' = [saved EXCEPT ![p] = <<c>>] /\ rows' = [rows EXCEPT ![p] = <<c>>]
    BY DEF ServeCreation, tabs
  <2>3. QED
    BY <1>2, <2>1, <2>2, ContainsFacts DEF TypeOK
<1>4. /\ \A d \in AllFlows : d # c => flow'[d] = flow[d]
      /\ flow'[c].at = "answered"

      /\ flow'[c].got = [flow[c].got EXCEPT ![Project(c)] = [state |-> <<c>>, rows |-> <<c>>]]
      /\ flow'[c].tab = flow[c].tab /\ flow'[c].ask = flow[c].ask
      /\ flow'[c].todo = flow[c].todo /\ flow'[c].list = flow[c].list
      /\ flow'[c].mixed = flow[c].mixed
      /\ flow'[c].landed = flow[c].landed /\ flow'[c].wiped = flow[c].wiped
      /\ flow'[c].file = flow[c].file
  BY <1>1 DEF ServeCreation, TypeOK, Flow
<1>5. /\ flow'[c].got \in [Projects -> Copy]
      /\ flow'[c].got[p] = [state |-> <<c>>, rows |-> <<c>>]
      /\ flow'[c].got[p].state = <<c>> /\ flow'[c].got[p].rows = <<c>>
      /\ \A q \in Projects \ {p} : flow'[c].got[q] = flow[c].got[q]
  <2>1. flow[c].got \in [Projects -> Copy] /\ [state |-> <<c>>, rows |-> <<c>>] \in Copy
    BY <1>1, <1>3 DEF Flow, Copy
  <2>2. QED
    BY <1>2, <1>4, <2>1
<1>6. flow' \in [AllFlows -> Flow]
  <2>1. [flow[c].got EXCEPT ![Project(c)] = [state |-> <<c>>, rows |-> <<c>>]]
          \in [Projects -> Copy]
    BY <1>4, <1>5
  <2>2. QED
    BY <1>1, <2>1 DEF ServeCreation, TypeOK, Flow, Stages
<1>7. TypeOK'
  BY <1>3, <1>6 DEF TypeOK
<1>8. Alone(c)'
  <2>1. OnCourse(c)'
    BY <1>1, <1>2, <1>3, <1>4, <1>5 DEF Alone, OnCourse, Begun, Kind, InCourse
  <2>2. LandsInTime(c)'
    BY <1>2, <1>4 DEF LandsInTime
  <2>a. AnswersItself(c)'
    <3>1. Project(c)' = p /\ flow'[c].got[p] = [state |-> <<c>>, rows |-> <<c>>]
          /\ Contains(flow'[c].got[p].state, c)
      BY <1>3, <1>4, <1>5 DEF Project
    <3>2. QED
      BY <3>1 DEF AnswersItself
  <2>3. ReadsWhatIs(c)'
    BY <1>1, <1>2, <1>3, <1>4, <1>5 DEF Alone, ReadsWhatIs, Reading, Kind, Project, Works
  <2>4. QED
    BY <2>1, <2>2, <2>a, <2>3 DEF Alone
<1>9. Frame(c)
  BY <1>1, <1>2, <1>4 DEF Frame, InFlight, Over
<1>10. ServerMoves(c) /\ StoresMoves(c)
  BY <1>1, <1>2, <1>3, <1>4, <1>5 DEF ServerMoves, StoresMoves, Appends, Creates, HasSaved, HasRows
<1>11. GotMoves(c) /\ FileMoves(c) /\ WipedMoves(c) /\ ListMoves(c)
  <2>1. ~Reading(c)' /\ \A q \in Projects : HoldsRows(c, q)' => q = p
    BY <1>4 DEF HoldsRows, Reading, Creates, Project
  <2>2. GotMoves(c)
    <3>1. SUFFICES ASSUME NEW q \in Projects
                   PROVE  LET old == flow[c].got[q] new == flow'[c].got[q] IN
                          /\ (new.state = old.state \/ (saved'[q] # << >> /\ new.state = saved'[q]))
                          /\ new # NoCopy /\ old = NoCopy => saved'[q] # << >>
                          /\ HoldsRows(c, q)' => new.rows = rows'[q]
      BY <2>1 DEF GotMoves
    <3>2. CASE q = p
      BY <1>3, <1>5, <3>2
    <3>3. CASE q # p
      <4>1. flow'[c].got[q] = flow[c].got[q] /\ ~HoldsRows(c, q)'
        BY <1>5, <2>1, <3>1, <3>3
      <4>2. QED
        BY <4>1
    <3>4. QED
      BY <3>2, <3>3
  <2>3. QED
    BY <1>2, <1>3, <1>4, <2>2 DEF FileMoves, WipedMoves, ListMoves
<1>12. CopyMoves(c) /\ ListedMoves(c) /\ LandMoves(c) /\ RefreshMoves(c) /\ AnswerMoves(c)
  BY <1>2, <1>3, <1>4, <1>5
  DEF CopyMoves, ListedMoves, LandMoves, RefreshMoves, AnswerMoves, Takes, Reading
<1>13. LoadMoves(c)
  BY <1>2, <1>3, <1>4 DEF LoadMoves
<1>14. QED
  BY <1>7, <1>8, <1>9, <1>10, <1>11, <1>12, <1>13 DEF Moves

\* Everything is deleted.
LEMMA ServeResetMoves ==
  ASSUME TypeOK, FlowsAlone, NEW c \in AllFlows, ServeReset(c)
  PROVE  TypeOK' /\ Alone(c)' /\ Moves(c)
<1> DEFINE p == Project(c)
<1> USE NoCopyFacts
<1>1. flow[c] \in Flow /\ Begun(c) /\ Alone(c)
  BY DEF ServeReset, TypeOK, Begun, FlowsAlone
<1>2. /\ ~Works(c) /\ Kind(c) = "reset"
      /\ ~flow[c].landed /\ flow[c].tab \in Tabs /\ flow[c].at = "sent"
      /\ flow[c].wiped = {}
  BY <1>1, FlowFacts DEF ServeReset, Alone, LandsInTime
<1>3. /\ UNCHANGED <<cookie, copy, listed>>
      /\ saved' \in [Projects -> Seq(Names)] /\ rows' \in [Projects -> Seq(Names)]
      /\ \A q \in Projects : saved'[q] = << >> /\ rows'[q] = << >>
  BY DEF ServeReset, tabs
<1>a. crossed \subseteq crossed' /\ crossed' \subseteq AllFlows
      /\ \A d \in AllFlows : flow[d].at = "loaded" => d \in crossed' /\ c \in crossed'
  <2>1. crossed' = Crossed(c, AllLoaded)
    BY DEF ServeReset
  <2>2. \A d \in AllFlows : flow[d].at = "loaded" => d \in AllLoaded
    BY DEF AllLoaded
  <2>3. AllLoaded \subseteq AllFlows /\ crossed \subseteq AllFlows
    BY DEF AllLoaded, TypeOK
  <2>4. QED
    BY <2>1, <2>2, <2>3 DEF Crossed
<1>4. /\ \A d \in AllFlows : d # c => flow'[d] = flow[d]
      /\ flow'[c].at = "answered"
      /\ flow'[c].wiped = {q \in Projects : saved[q] # << >>}
      /\ flow'[c].tab = flow[c].tab /\ flow'[c].ask = flow[c].ask
      /\ flow'[c].todo = flow[c].todo /\ flow'[c].list = flow[c].list
      /\ flow'[c].got = flow[c].got
      /\ flow'[c].mixed = flow[c].mixed
      /\ flow'[c].landed = flow[c].landed /\ flow'[c].file = flow[c].file
  BY <1>1 DEF ServeReset, TypeOK, Flow
<1>6. flow' \in [AllFlows -> Flow]
  BY <1>1, <1>2, <1>3, <1>4 DEF ServeReset, TypeOK, Flow, Stages
<1>7. TypeOK'
  BY <1>3, <1>a, <1>6 DEF TypeOK
<1>8. Alone(c)'
  BY <1>1, <1>2, <1>3, <1>4
  DEF Alone, OnCourse, LandsInTime, AnswersItself, ReadsWhatIs, Begun, Reading, Kind, Project,
      Works, InCourse
<1>9. Frame(c)
  BY <1>1, <1>2, <1>4 DEF Frame, InFlight, Over
<1>10. ServerMoves(c) /\ StoresMoves(c)
  BY <1>1, <1>2, <1>3, <1>4 DEF ServerMoves, StoresMoves, Appends, Creates, HasSaved, HasRows
<1>11. GotMoves(c) /\ FileMoves(c) /\ WipedMoves(c) /\ ListMoves(c)
  BY <1>2, <1>3, <1>a, <1>4
  DEF GotMoves, FileMoves, WipedMoves, ListMoves, Reading, HoldsRows, Creates, Kind, Project,
      Works
<1>12. CopyMoves(c) /\ ListedMoves(c) /\ LandMoves(c) /\ RefreshMoves(c) /\ AnswerMoves(c)
  BY <1>2, <1>3, <1>4
  DEF CopyMoves, ListedMoves, LandMoves, RefreshMoves, AnswerMoves, Takes, Reading
<1>13. LoadMoves(c)
  BY <1>3, <1>a, <1>4 DEF LoadMoves
<1>14. QED
  BY <1>7, <1>8, <1>9, <1>10, <1>11, <1>12, <1>13 DEF Moves

\* The projects that the actor may see, which are there.
LEMMA ServeListMoves ==
  ASSUME TypeOK, FlowsAlone, NEW c \in AllFlows, ServeList(c)
  PROVE  TypeOK' /\ Alone(c)' /\ Moves(c)
<1> DEFINE p == Project(c)
<1> USE NoCopyFacts
<1>1. flow[c] \in Flow /\ Begun(c) /\ Alone(c)
  BY DEF ServeList, TypeOK, Begun, FlowsAlone
<1>2. /\ ~Works(c) /\ Kind(c) \in {"list", "reset"}
      /\ flow[c].tab \in Tabs /\ flow[c].at = "listing"
  BY <1>1, FlowFacts DEF ServeList, Alone, OnCourse, InCourse
<1>3. UNCHANGED <<saved, rows, cookie, crossed, copy, listed>>
  BY DEF ServeList, server, tabs
<1>4. /\ \A d \in AllFlows : d # c => flow'[d] = flow[d]
      /\ flow'[c].at = "listed"
      /\ flow'[c].list = {q \in Projects : Allowed(c, q)}
      /\ flow'[c].tab = flow[c].tab /\ flow'[c].ask = flow[c].ask
      /\ flow'[c].todo = flow[c].todo /\ flow'[c].got = flow[c].got

      /\ flow'[c].mixed = flow[c].mixed /\ flow'[c].landed = flow[c].landed
      /\ flow'[c].wiped = flow[c].wiped /\ flow'[c].file = flow[c].file
  BY <1>1 DEF ServeList, TypeOK, Flow
<1>6. flow' \in [AllFlows -> Flow]
  BY <1>1, <1>2, <1>3, <1>4 DEF ServeList, TypeOK, Flow, Stages
<1>7. TypeOK'
  BY <1>3, <1>6 DEF TypeOK
<1>8. Alone(c)'
  BY <1>1, <1>2, <1>3, <1>4
  DEF Alone, OnCourse, LandsInTime, AnswersItself, ReadsWhatIs, Begun, Reading, Kind, Project,
      Works, InCourse
<1>9. Frame(c)
  BY <1>1, <1>2, <1>4 DEF Frame, InFlight, Over
<1>10. ServerMoves(c) /\ StoresMoves(c)
  BY <1>1, <1>2, <1>3, <1>4 DEF ServerMoves, StoresMoves, Appends, Creates, HasSaved, HasRows
<1>11. GotMoves(c) /\ FileMoves(c) /\ WipedMoves(c) /\ ListMoves(c)
  BY <1>2, <1>3, <1>4
  DEF GotMoves, FileMoves, WipedMoves, ListMoves, Reading, HoldsRows, Creates, Kind, Project,
      Works, Allowed
<1>12. CopyMoves(c) /\ ListedMoves(c) /\ LandMoves(c) /\ RefreshMoves(c) /\ AnswerMoves(c)
  BY <1>2, <1>3, <1>4
  DEF CopyMoves, ListedMoves, LandMoves, RefreshMoves, AnswerMoves, Takes, Reading
<1>13. LoadMoves(c)
  BY <1>2, <1>3, <1>4 DEF LoadMoves
<1>14. QED
  BY <1>7, <1>8, <1>9, <1>10, <1>11, <1>12, <1>13 DEF Moves

\* The answer to a switch, with the cookie.
LEMMA ServeSwitchMoves ==
  ASSUME TypeOK, FlowsAlone, NEW c \in AllFlows, ServeSwitch(c)
  PROVE  TypeOK' /\ Alone(c)' /\ Moves(c)
<1> DEFINE p == Project(c)
<1> USE NoCopyFacts
<1>1. flow[c] \in Flow /\ Begun(c) /\ Alone(c)
  BY DEF ServeSwitch, TypeOK, Begun, FlowsAlone
<1>2. /\ ~Works(c) /\ Kind(c) = "switch"
      /\ ~flow[c].landed /\ flow[c].tab \in Tabs /\ flow[c].at = "sent"
  BY <1>1, FlowFacts DEF ServeSwitch, Alone, LandsInTime, InCourse
<1>3. /\ UNCHANGED <<saved, rows, cookie, crossed, copy, listed>>
      /\ cookie \in Actors
  BY <1>1, <1>2 DEF ServeSwitch, server, tabs, TypeOK, Flow, Copy
<1>4. /\ \A d \in AllFlows : d # c => flow'[d] = flow[d]
      /\ flow'[c].at = "answered"
      /\ flow'[c].file = flow[c].file
      /\ flow'[c].tab = flow[c].tab /\ flow'[c].ask = flow[c].ask
      /\ flow'[c].todo = flow[c].todo /\ flow'[c].list = flow[c].list
      /\ flow'[c].got = flow[c].got /\ flow'[c].mixed = flow[c].mixed
      /\ flow'[c].landed = flow[c].landed /\ flow'[c].wiped = flow[c].wiped
  BY <1>1 DEF ServeSwitch, Step, TypeOK, Flow
<1>6. flow' \in [AllFlows -> Flow]
  BY <1>1, <1>2, <1>3, <1>4 DEF ServeSwitch, Step, TypeOK, Flow, Stages
<1>7. TypeOK'
  BY <1>3, <1>6 DEF TypeOK
<1>8. Alone(c)'
  BY <1>1, <1>2, <1>3, <1>4
  DEF Alone, OnCourse, LandsInTime, AnswersItself, ReadsWhatIs, Begun, Reading, Kind, Project,
      Works, InCourse
<1>9. Frame(c)
  BY <1>1, <1>2, <1>4 DEF Frame, InFlight, Over
<1>10. ServerMoves(c) /\ StoresMoves(c)
  BY <1>1, <1>2, <1>3, <1>4 DEF ServerMoves, StoresMoves, Appends, Creates, HasSaved, HasRows
<1>11. GotMoves(c) /\ FileMoves(c) /\ WipedMoves(c) /\ ListMoves(c)
  BY <1>2, <1>3, <1>4
  DEF GotMoves, FileMoves, WipedMoves, ListMoves, Reading, HoldsRows, Creates, Kind, Project,
      Works
<1>12. CopyMoves(c) /\ ListedMoves(c) /\ LandMoves(c) /\ RefreshMoves(c) /\ AnswerMoves(c)
  BY <1>2, <1>3, <1>4
  DEF CopyMoves, ListedMoves, LandMoves, RefreshMoves, AnswerMoves, Takes, Reading
<1>13. LoadMoves(c)
  BY <1>2, <1>3, <1>4 DEF LoadMoves
<1>14. QED
  BY <1>7, <1>8, <1>9, <1>10, <1>11, <1>12, <1>13 DEF Moves

\* The cookie is taken over.
LEMMA LandSwitchMoves ==
  ASSUME TypeOK, FlowsAlone, NEW c \in AllFlows, LandSwitch(c)
  PROVE  TypeOK' /\ Alone(c)' /\ Moves(c)
<1> DEFINE p == Project(c)
<1> USE NoCopyFacts
<1>1. flow[c] \in Flow /\ Begun(c) /\ Alone(c)
  BY DEF LandSwitch, TypeOK, Begun, FlowsAlone
<1>2. /\ ~Works(c) /\ Kind(c) = "switch"
      /\ ~flow[c].landed /\ flow[c].tab \in Tabs /\ flow[c].at = "answered"
  BY <1>1, FlowFacts DEF LandSwitch, Alone, LandsInTime, InCourse
<1>3. UNCHANGED <<saved, rows, crossed, copy, listed>> /\ cookie' \in Actors
  BY <1>1, <1>2, OrderFacts DEF LandSwitch, tabs, Alone, OnCourse, Kind
<1>4. /\ \A d \in AllFlows : d # c => flow'[d] = flow[d]
      /\ flow'[c].at = "done"
      /\ flow'[c].file = flow[c].file
      /\ flow'[c].tab = flow[c].tab /\ flow'[c].ask = flow[c].ask
      /\ flow'[c].todo = flow[c].todo /\ flow'[c].list = flow[c].list
      /\ flow'[c].got = flow[c].got /\ flow'[c].mixed = flow[c].mixed
      /\ flow'[c].landed = flow[c].landed /\ flow'[c].wiped = flow[c].wiped
  BY <1>1 DEF LandSwitch, Step, TypeOK, Flow
<1>6. flow' \in [AllFlows -> Flow]
  BY <1>1, <1>2, <1>3, <1>4 DEF LandSwitch, Step, TypeOK, Flow, Stages
<1>7. TypeOK'
  BY <1>3, <1>6 DEF TypeOK
<1>8. Alone(c)'
  BY <1>1, <1>2, <1>3, <1>4
  DEF Alone, OnCourse, LandsInTime, AnswersItself, ReadsWhatIs, Begun, Reading, Kind, Project,
      Works, InCourse
<1>9. Frame(c)
  BY <1>1, <1>2, <1>4 DEF Frame, InFlight, Over
<1>10. ServerMoves(c) /\ StoresMoves(c)
  BY <1>1, <1>2, <1>3, <1>4 DEF ServerMoves, StoresMoves, Appends, Creates, HasSaved, HasRows
<1>11. GotMoves(c) /\ FileMoves(c) /\ WipedMoves(c) /\ ListMoves(c)
  BY <1>2, <1>3, <1>4
  DEF GotMoves, FileMoves, WipedMoves, ListMoves, Reading, HoldsRows, Creates, Kind, Project,
      Works
<1>12. CopyMoves(c) /\ ListedMoves(c) /\ LandMoves(c) /\ RefreshMoves(c) /\ AnswerMoves(c)
  BY <1>2, <1>3, <1>4
  DEF CopyMoves, ListedMoves, LandMoves, RefreshMoves, AnswerMoves, Takes, Reading
<1>13. LoadMoves(c)
  BY <1>2, <1>3, <1>4 DEF LoadMoves
<1>14. QED
  BY <1>7, <1>8, <1>9, <1>10, <1>11, <1>12, <1>13 DEF Moves

\* A file of what was sent.
LEMMA RenderMoves ==
  ASSUME TypeOK, FlowsAlone, NEW c \in AllFlows, Render(c)
  PROVE  TypeOK' /\ Alone(c)' /\ Moves(c)
<1> DEFINE p == Project(c)
<1> USE NoCopyFacts
<1>1. flow[c] \in Flow /\ Begun(c) /\ Alone(c)
  BY DEF Render, TypeOK, Begun, FlowsAlone
<1>2. /\ Works(c) /\ Kind(c) = "download" /\ p \in Projects
      /\ ~flow[c].landed /\ flow[c].tab \in Tabs /\ flow[c].at = "sent"
  BY <1>1, FlowFacts DEF Render, Alone, LandsInTime, InCourse
<1>3. /\ UNCHANGED <<saved, rows, cookie, crossed, copy, listed>>
      /\ cookie \in Actors
  BY <1>1, <1>2 DEF Render, server, tabs, TypeOK, Flow, Copy
<1>4. /\ \A d \in AllFlows : d # c => flow'[d] = flow[d]
      /\ flow'[c].at = "rendered"
      /\ flow'[c].file = flow[c].file
      /\ flow'[c].tab = flow[c].tab /\ flow'[c].ask = flow[c].ask
      /\ flow'[c].todo = flow[c].todo /\ flow'[c].list = flow[c].list
      /\ flow'[c].got = flow[c].got /\ flow'[c].mixed = flow[c].mixed
      /\ flow'[c].landed = flow[c].landed /\ flow'[c].wiped = flow[c].wiped
  BY <1>1 DEF Render, Step, TypeOK, Flow
<1>6. flow' \in [AllFlows -> Flow]
  BY <1>1, <1>2, <1>3, <1>4 DEF Render, Step, TypeOK, Flow, Stages
<1>7. TypeOK'
  BY <1>3, <1>6 DEF TypeOK
<1>8. Alone(c)'
  BY <1>1, <1>2, <1>3, <1>4
  DEF Alone, OnCourse, LandsInTime, AnswersItself, ReadsWhatIs, Begun, Reading, Kind, Project,
      Works, InCourse
<1>9. Frame(c)
  BY <1>1, <1>2, <1>4 DEF Frame, InFlight, Over
<1>10. ServerMoves(c) /\ StoresMoves(c)
  BY <1>1, <1>2, <1>3, <1>4 DEF ServerMoves, StoresMoves, Appends, Creates, HasSaved, HasRows
<1>11. GotMoves(c) /\ FileMoves(c) /\ WipedMoves(c) /\ ListMoves(c)
  BY <1>2, <1>3, <1>4
  DEF GotMoves, FileMoves, WipedMoves, ListMoves, Reading, HoldsRows, Creates, Kind, Project,
      Works
<1>12. CopyMoves(c) /\ ListedMoves(c) /\ LandMoves(c) /\ RefreshMoves(c) /\ AnswerMoves(c)
  BY <1>2, <1>3, <1>4
  DEF CopyMoves, ListedMoves, LandMoves, RefreshMoves, AnswerMoves, Takes, Reading
<1>13. LoadMoves(c)
  BY <1>2, <1>3, <1>4 DEF LoadMoves
<1>14. QED
  BY <1>7, <1>8, <1>9, <1>10, <1>11, <1>12, <1>13 DEF Moves

\* The file is saved, and its record asked for.
LEMMA LandFileMoves ==
  ASSUME TypeOK, FlowsAlone, NEW c \in AllFlows, LandFile(c)
  PROVE  TypeOK' /\ Alone(c)' /\ Moves(c)
<1> DEFINE p == Project(c)
<1> USE NoCopyFacts
<1>1. flow[c] \in Flow /\ Begun(c) /\ Alone(c)
  BY DEF LandFile, TypeOK, Begun, FlowsAlone
<1>2. /\ Works(c) /\ Kind(c) = "download" /\ p \in Projects
      /\ ~flow[c].landed /\ flow[c].tab \in Tabs /\ flow[c].at = "rendered"
  BY <1>1, FlowFacts DEF LandFile, Alone, LandsInTime, InCourse
<1>3. /\ UNCHANGED <<saved, rows, cookie, crossed, copy, listed>>
      /\ cookie \in Actors
      /\ flow[c].got[p].state \in Seq(Names)
  BY <1>1, <1>2 DEF LandFile, server, tabs, TypeOK, Flow, Copy
<1>4. /\ \A d \in AllFlows : d # c => flow'[d] = flow[d]
      /\ flow'[c].at = "recording"
      /\ flow'[c].file = flow[c].got[Project(c)].state
      /\ flow'[c].tab = flow[c].tab /\ flow'[c].ask = flow[c].ask
      /\ flow'[c].todo = flow[c].todo /\ flow'[c].list = flow[c].list
      /\ flow'[c].got = flow[c].got /\ flow'[c].mixed = flow[c].mixed
      /\ flow'[c].landed = flow[c].landed /\ flow'[c].wiped = flow[c].wiped
  BY <1>1 DEF LandFile, Step, TypeOK, Flow
<1>6. flow' \in [AllFlows -> Flow]
  BY <1>1, <1>2, <1>3, <1>4 DEF LandFile, Step, TypeOK, Flow, Stages
<1>7. TypeOK'
  BY <1>3, <1>6 DEF TypeOK
<1>8. Alone(c)'
  BY <1>1, <1>2, <1>3, <1>4
  DEF Alone, OnCourse, LandsInTime, AnswersItself, ReadsWhatIs, Begun, Reading, Kind, Project,
      Works, InCourse
<1>9. Frame(c)
  BY <1>1, <1>2, <1>4 DEF Frame, InFlight, Over
<1>10. ServerMoves(c) /\ StoresMoves(c)
  BY <1>1, <1>2, <1>3, <1>4 DEF ServerMoves, StoresMoves, Appends, Creates, HasSaved, HasRows
<1>11. GotMoves(c) /\ FileMoves(c) /\ WipedMoves(c) /\ ListMoves(c)
  BY <1>2, <1>3, <1>4
  DEF GotMoves, FileMoves, WipedMoves, ListMoves, Reading, HoldsRows, Creates, Kind, Project,
      Works
<1>12. CopyMoves(c) /\ ListedMoves(c) /\ LandMoves(c) /\ RefreshMoves(c) /\ AnswerMoves(c)
  BY <1>2, <1>3, <1>4
  DEF CopyMoves, ListedMoves, LandMoves, RefreshMoves, AnswerMoves, Takes, Reading
<1>13. LoadMoves(c)
  BY <1>2, <1>3, <1>4 DEF LoadMoves
<1>14. QED
  BY <1>7, <1>8, <1>9, <1>10, <1>11, <1>12, <1>13 DEF Moves

\* The tab takes over what was done; it is then read again, unless it is new.
LEMMA LandAnswerMoves ==
  ASSUME TypeOK, FlowsAlone, NEW c \in AllFlows, LandAnswer(c)
  PROVE  TypeOK' /\ Alone(c)' /\ Moves(c)
<1> DEFINE p == Project(c)
<1> USE NoCopyFacts
<1>1. flow[c] \in Flow /\ Begun(c) /\ Alone(c)
  BY DEF LandAnswer, TypeOK, Begun, FlowsAlone
<1>2. /\ Works(c) /\ p \in Projects /\ flow[c].at = "answered"
      /\ Kind(c) \in {"operate", "download", "create"}
      /\ ~flow[c].landed /\ flow[c].tab \in Tabs
      /\ Contains(flow[c].got[p].state, c) /\ flow[c].got[p] # NoCopy
  BY <1>1, FlowFacts, ContainsFacts DEF LandAnswer, Alone, LandsInTime, AnswersItself
<1>3. /\ UNCHANGED <<saved, rows, cookie, crossed>>
      /\ \A u \in Tabs, q \in Projects :
           copy'[u][q] = IF u = flow[c].tab /\ q = p THEN flow[c].got[p] ELSE copy[u][q]
      /\ \A u \in Tabs :
           listed'[u] = IF u = flow[c].tab THEN listed[u] \union {p} ELSE listed[u]
      /\ copy' \in [Tabs -> [Projects -> Copy]] /\ listed' \in [Tabs -> SUBSET Projects]
  <2>1. flow[c].got[p] \in Copy
    BY <1>1, <1>2 DEF Flow
  <2>2. UNCHANGED <<saved, rows, cookie, crossed>> /\ Upsert(c, p)
    BY DEF LandAnswer, server
  <2>3. QED
    BY <1>2, <2>1, <2>2 DEF Upsert, TypeOK
<1>4. /\ \A d \in AllFlows : d # c => flow'[d] = flow[d]
      /\ flow'[c].at = IF Kind(c) = "create" THEN "done" ELSE "reading"
      /\ flow'[c].landed = TRUE
      /\ flow'[c].got = IF Kind(c) = "create" THEN flow[c].got ELSE Nothing
      /\ flow'[c].todo = IF Kind(c) = "create" THEN flow[c].todo ELSE {Project(c)}
      /\ flow'[c].tab = flow[c].tab /\ flow'[c].ask = flow[c].ask
      /\ flow'[c].list = flow[c].list
      /\ flow'[c].mixed = flow[c].mixed
      /\ flow'[c].wiped = flow[c].wiped /\ flow'[c].file = flow[c].file
  <2>1. CASE Kind(c) = "create"
    <3>1. flow' = [flow EXCEPT ![c].landed = TRUE, ![c].at = "done"]
      BY <2>1 DEF LandAnswer
    <3>2. QED
      BY <1>1, <2>1, <3>1 DEF TypeOK, Flow
  <2>2. CASE Kind(c) # "create"
    <3>1. flow' = [flow EXCEPT ![c].landed = TRUE, ![c].at = "reading", ![c].by = cookie,
                               ![c].got = Nothing, ![c].todo = {Project(c)}]
      BY <2>2 DEF LandAnswer
    <3>2. QED
      BY <1>1, <2>2, <3>1 DEF TypeOK, Flow
  <2>3. QED
    BY <2>1, <2>2
<1>6. flow' \in [AllFlows -> Flow]
  <2>1. CASE Kind(c) = "create"
    <3>1. flow' = [flow EXCEPT ![c].landed = TRUE, ![c].at = "done"]
      BY <2>1 DEF LandAnswer
    <3>2. QED
      BY <1>1, <2>1, <3>1 DEF TypeOK, Flow, Stages
  <2>2. CASE Kind(c) # "create"
    <3>1. flow' = [flow EXCEPT ![c].landed = TRUE, ![c].at = "reading", ![c].by = cookie,
                               ![c].got = Nothing, ![c].todo = {Project(c)}]
      BY <2>2 DEF LandAnswer
    <3>2. /\ {Project(c)} \in SUBSET Projects /\ Nothing \in [Projects -> Copy]
          /\ cookie \in Actors
      BY <1>2 DEF TypeOK
    <3>3. QED
      BY <1>1, <3>1, <3>2 DEF TypeOK, Flow, Stages
  <2>3. QED
    BY <2>1, <2>2
<1>7. TypeOK'
  BY <1>3, <1>6 DEF TypeOK
<1>8. Alone(c)'
  <2>1. OnCourse(c)'
    BY <1>1, <1>2, <1>3, <1>4 DEF Alone, OnCourse, Begun, Kind, InCourse
  <2>a. flow'[c].at \in {"done", "reading"} /\ flow'[c].landed
    BY <1>4
  <2>2. LandsInTime(c)' /\ AnswersItself(c)'
    BY <2>a DEF LandsInTime, AnswersItself
  <2>3. ReadsWhatIs(c)'
    <3>1. CASE Kind(c) = "create"
      BY <1>4, <3>1 DEF ReadsWhatIs, Reading
    <3>2. CASE Kind(c) # "create"
      <4>1. /\ flow'[c].at = "reading" /\ flow'[c].got = Nothing
            /\ flow'[c].todo = {Project(c)} /\ Project(c)' = Project(c)
        BY <1>4, <3>2 DEF Project
      <4>2. QED
        BY <4>1 DEF ReadsWhatIs, Reading
    <3>3. QED
      BY <3>1, <3>2
  <2>4. QED
    BY <2>1, <2>2, <2>3 DEF Alone
<1>9. Frame(c)
  BY <1>1, <1>2, <1>4 DEF Frame, InFlight, Over
<1>10. ServerMoves(c) /\ StoresMoves(c)
  <2>1. ServerMoves(c)
    BY <1>3 DEF ServerMoves
  <2>2. HasSaved(c) /\ HasRows(c)
    BY <1>2 DEF HasSaved, HasRows
  <2>3. QED
    BY <2>1, <2>2 DEF StoresMoves
<1>11. GotMoves(c) /\ FileMoves(c) /\ WipedMoves(c) /\ ListMoves(c)
  <2>1. GotMoves(c)
    <3>1. CASE Kind(c) = "create"
      <4>1. flow'[c].got = flow[c].got /\ flow'[c].at = "done"
        BY <1>4, <3>1
      <4>2. QED
        BY <4>1 DEF GotMoves, Reading, HoldsRows
    <3>2. CASE Kind(c) # "create"
      <4>1. flow'[c].got = Nothing
        BY <1>4, <3>2
      <4>2. QED
        BY <4>1 DEF GotMoves
    <3>3. QED
      BY <3>1, <3>2
  <2>2. FileMoves(c) /\ WipedMoves(c) /\ ListMoves(c)
    BY <1>2, <1>4 DEF FileMoves, WipedMoves, ListMoves
  <2>3. QED
    BY <2>1, <2>2
<1>12. CopyMoves(c) /\ ListedMoves(c) /\ LandMoves(c) /\ RefreshMoves(c) /\ AnswerMoves(c)
  BY <1>2, <1>3, <1>4
  DEF CopyMoves, ListedMoves, LandMoves, RefreshMoves, AnswerMoves, Takes, Reading
<1>13. LoadMoves(c)
  BY <1>2, <1>3, <1>4 DEF LoadMoves
<1>14. QED
  BY <1>7, <1>8, <1>9, <1>10, <1>11, <1>12, <1>13 DEF Moves

\* The tab takes over what was read again.
LEMMA LandRefreshMoves ==
  ASSUME TypeOK, FlowsAlone, NEW c \in AllFlows, LandRefresh(c)
  PROVE  TypeOK' /\ Alone(c)' /\ Moves(c)
<1> DEFINE p == Project(c)
<1> USE NoCopyFacts
<1>1. flow[c] \in Flow /\ Begun(c) /\ Alone(c)
  BY DEF LandRefresh, TypeOK, Begun, FlowsAlone, Step
<1>2. /\ Works(c) /\ p \in Projects /\ flow[c].at = "read"
      /\ Kind(c) \in {"operate", "download"}
      /\ flow[c].landed /\ flow[c].tab \in Tabs
      /\ flow[c].got[p] # NoCopy
  BY <1>1, FlowFacts DEF LandRefresh, Alone, LandsInTime, ReadsWhatIs
<1>3. /\ UNCHANGED <<saved, rows, cookie, crossed>>
      /\ \A u \in Tabs, q \in Projects :
           copy'[u][q] = IF u = flow[c].tab /\ q = p THEN flow[c].got[p] ELSE copy[u][q]
      /\ \A u \in Tabs :
           listed'[u] = IF u = flow[c].tab THEN listed[u] \union {p} ELSE listed[u]
      /\ copy' \in [Tabs -> [Projects -> Copy]] /\ listed' \in [Tabs -> SUBSET Projects]
  <2>1. flow[c].got[p] \in Copy
    BY <1>1, <1>2 DEF Flow
  <2>2. UNCHANGED <<saved, rows, cookie, crossed>> /\ Upsert(c, p)
    BY DEF LandRefresh, server
  <2>3. QED
    BY <1>2, <2>1, <2>2 DEF Upsert, TypeOK
<1>4. /\ \A d \in AllFlows : d # c => flow'[d] = flow[d]
      /\ flow'[c].at = "done"
      /\ flow'[c].tab = flow[c].tab /\ flow'[c].ask = flow[c].ask
      /\ flow'[c].todo = flow[c].todo /\ flow'[c].list = flow[c].list
      /\ flow'[c].got = flow[c].got
      /\ flow'[c].mixed = flow[c].mixed
      /\ flow'[c].landed = flow[c].landed /\ flow'[c].wiped = flow[c].wiped
      /\ flow'[c].file = flow[c].file
  BY <1>1 DEF LandRefresh, TypeOK, Flow, Step
<1>6. flow' \in [AllFlows -> Flow]
  BY <1>1, <1>2, <1>3, <1>4 DEF LandRefresh, TypeOK, Flow, Stages, Step
<1>7. TypeOK'
  BY <1>3, <1>6 DEF TypeOK
<1>8. Alone(c)'
  BY <1>1, <1>2, <1>3, <1>4
  DEF Alone, OnCourse, LandsInTime, AnswersItself, ReadsWhatIs, Begun, Reading, Kind, Project,
      Works, InCourse
<1>9. Frame(c)
  BY <1>1, <1>2, <1>4 DEF Frame, InFlight, Over
<1>10. ServerMoves(c) /\ StoresMoves(c)
  BY <1>1, <1>2, <1>3, <1>4 DEF ServerMoves, StoresMoves, Appends, Creates, HasSaved, HasRows
<1>11. GotMoves(c) /\ FileMoves(c) /\ WipedMoves(c) /\ ListMoves(c)
  BY <1>2, <1>3, <1>4
  DEF GotMoves, FileMoves, WipedMoves, ListMoves, Reading, HoldsRows, Creates, Kind, Project,
      Works
<1>12. CopyMoves(c) /\ ListedMoves(c) /\ LandMoves(c) /\ RefreshMoves(c) /\ AnswerMoves(c)
  BY <1>2, <1>3, <1>4
  DEF CopyMoves, ListedMoves, LandMoves, RefreshMoves, AnswerMoves, Takes, Reading
<1>13. LoadMoves(c)
  BY <1>2, <1>3, <1>4 DEF LoadMoves
<1>14. QED
  BY <1>7, <1>8, <1>9, <1>10, <1>11, <1>12, <1>13 DEF Moves

\* What the tab has no copy of is to be read.
LEMMA LandListMoves ==
  ASSUME TypeOK, FlowsAlone, NEW c \in AllFlows, LandList(c)
  PROVE  TypeOK' /\ Alone(c)' /\ Moves(c)
<1> DEFINE p == Project(c)
<1> USE NoCopyFacts
<1>1. flow[c] \in Flow /\ Begun(c) /\ Alone(c)
  BY DEF LandList, TypeOK, Begun, FlowsAlone
<1>2. /\ ~Works(c) /\ Kind(c) \in {"list", "reset"}
      /\ flow[c].tab \in Tabs /\ flow[c].at = "listed"
  BY <1>1, FlowFacts DEF LandList, Alone, OnCourse, InCourse
<1>3. UNCHANGED <<saved, rows, cookie, crossed, copy, listed>>
  BY DEF LandList, server, tabs
<1>4. /\ \A d \in AllFlows : d # c => flow'[d] = flow[d]
      /\ flow'[c].at = IF flow[c].list \ Cached(flow[c].tab) = {} THEN "read" ELSE "reading"
      /\ flow'[c].todo = flow[c].list \ Cached(flow[c].tab)
      /\ flow'[c].got = Nothing
      /\ flow'[c].tab = flow[c].tab /\ flow'[c].ask = flow[c].ask
      /\ flow'[c].list = flow[c].list
      /\ flow'[c].mixed = flow[c].mixed
      /\ flow'[c].landed = flow[c].landed /\ flow'[c].wiped = flow[c].wiped
      /\ flow'[c].file = flow[c].file
  <2>1. flow' = [flow EXCEPT ![c].todo = flow[c].list \ Cached(flow[c].tab), ![c].got = Nothing,
                    ![c].by = cookie,
                    ![c].at = IF flow[c].list \ Cached(flow[c].tab) = {} THEN "read" ELSE "reading"]
    BY DEF LandList
  <2>2. QED
    BY <1>1, <2>1 DEF TypeOK, Flow
<1>6. flow' \in [AllFlows -> Flow]
  <2>1. flow[c].list \ Cached(flow[c].tab) \in SUBSET Projects /\ cookie \in Actors
    BY <1>1 DEF Flow, TypeOK
  <2>2. flow' = [flow EXCEPT ![c].todo = flow[c].list \ Cached(flow[c].tab), ![c].got = Nothing,
                    ![c].by = cookie,
                    ![c].at = IF flow[c].list \ Cached(flow[c].tab) = {} THEN "read" ELSE "reading"]
    BY DEF LandList
  <2>3. QED
    BY <1>1, <2>1, <2>2 DEF TypeOK, Flow, Stages
<1>7. TypeOK'
  BY <1>3, <1>6 DEF TypeOK
<1>8. Alone(c)'
  BY <1>1, <1>2, <1>3, <1>4
  DEF Alone, OnCourse, LandsInTime, AnswersItself, ReadsWhatIs, Begun, Reading, Kind, Project,
      Works, InCourse
<1>9. Frame(c)
  BY <1>1, <1>2, <1>4 DEF Frame, InFlight, Over
<1>10. ServerMoves(c) /\ StoresMoves(c)
  BY <1>1, <1>2, <1>3, <1>4 DEF ServerMoves, StoresMoves, Appends, Creates, HasSaved, HasRows
<1>11. GotMoves(c) /\ FileMoves(c) /\ WipedMoves(c) /\ ListMoves(c)
  BY <1>2, <1>3, <1>4
  DEF GotMoves, FileMoves, WipedMoves, ListMoves, Reading, HoldsRows, Creates, Kind, Project,
      Works
<1>12. CopyMoves(c) /\ ListedMoves(c) /\ LandMoves(c) /\ RefreshMoves(c) /\ AnswerMoves(c)
  BY <1>2, <1>3, <1>4
  DEF CopyMoves, ListedMoves, LandMoves, RefreshMoves, AnswerMoves, Takes, Reading
<1>13. LoadMoves(c)
  BY <1>2, <1>3, <1>4 DEF LoadMoves
<1>14. QED
  BY <1>7, <1>8, <1>9, <1>10, <1>11, <1>12, <1>13 DEF Moves

\* The tab takes over the projects that were read.
LEMMA LandProjectsMoves ==
  ASSUME TypeOK, FlowsAlone, NEW c \in AllFlows, LandProjects(c)
  PROVE  TypeOK' /\ Alone(c)' /\ Moves(c)
<1> DEFINE p == Project(c)
<1> USE NoCopyFacts
<1>1. flow[c] \in Flow /\ Begun(c) /\ Alone(c)
  BY DEF LandProjects, TypeOK, Begun, FlowsAlone, Step
<1>2. /\ ~Works(c) /\ Kind(c) \in {"list", "reset"}
      /\ flow[c].tab \in Tabs /\ flow[c].at = "read"
  BY <1>1, FlowFacts DEF LandProjects
<1>3. /\ UNCHANGED <<saved, rows, cookie, crossed>>
      /\ \A u \in Tabs, q \in Projects :
           copy'[u][q] = IF u = flow[c].tab /\ flow[c].got[q] # NoCopy
                         THEN flow[c].got[q] ELSE copy[u][q]
      /\ \A u \in Tabs : listed'[u] = IF u = flow[c].tab THEN flow[c].list ELSE listed[u]
      /\ copy' \in [Tabs -> [Projects -> Copy]] /\ listed' \in [Tabs -> SUBSET Projects]
  <2>1. flow[c].got \in [Projects -> Copy] /\ flow[c].list \in SUBSET Projects
    BY <1>1 DEF Flow
  <2>2. QED
    BY <1>2, <2>1 DEF LandProjects, server, TypeOK
<1>4. /\ \A d \in AllFlows : d # c => flow'[d] = flow[d]
      /\ flow'[c].at = "done"
      /\ flow'[c].tab = flow[c].tab /\ flow'[c].ask = flow[c].ask
      /\ flow'[c].todo = flow[c].todo /\ flow'[c].list = flow[c].list
      /\ flow'[c].got = flow[c].got
      /\ flow'[c].mixed = flow[c].mixed
      /\ flow'[c].landed = flow[c].landed /\ flow'[c].wiped = flow[c].wiped
      /\ flow'[c].file = flow[c].file
  BY <1>1 DEF LandProjects, TypeOK, Flow, Step
<1>6. flow' \in [AllFlows -> Flow]
  BY <1>1, <1>2, <1>3, <1>4 DEF LandProjects, TypeOK, Flow, Stages, Step
<1>7. TypeOK'
  BY <1>3, <1>6 DEF TypeOK
<1>8. Alone(c)'
  BY <1>1, <1>2, <1>3, <1>4
  DEF Alone, OnCourse, LandsInTime, AnswersItself, ReadsWhatIs, Begun, Reading, Kind, Project,
      Works, InCourse
<1>9. Frame(c)
  BY <1>1, <1>2, <1>4 DEF Frame, InFlight, Over
<1>10. ServerMoves(c) /\ StoresMoves(c)
  BY <1>1, <1>2, <1>3, <1>4 DEF ServerMoves, StoresMoves, Appends, Creates, HasSaved, HasRows
<1>11. GotMoves(c) /\ FileMoves(c) /\ WipedMoves(c) /\ ListMoves(c)
  BY <1>2, <1>3, <1>4
  DEF GotMoves, FileMoves, WipedMoves, ListMoves, Reading, HoldsRows, Creates, Kind, Project,
      Works
<1>12. CopyMoves(c) /\ ListedMoves(c) /\ LandMoves(c) /\ RefreshMoves(c) /\ AnswerMoves(c)
  BY <1>2, <1>3, <1>4
  DEF CopyMoves, ListedMoves, LandMoves, RefreshMoves, AnswerMoves, Takes, Reading
<1>13. LoadMoves(c)
  BY <1>2, <1>3, <1>4 DEF LoadMoves
<1>14. QED
  BY <1>7, <1>8, <1>9, <1>10, <1>11, <1>12, <1>13 DEF Moves

\* The tab forgets everything.
LEMMA LandResetMoves ==
  ASSUME TypeOK, FlowsAlone, NEW c \in AllFlows, LandReset(c)
  PROVE  TypeOK' /\ Alone(c)' /\ Moves(c)
<1> DEFINE p == Project(c)
<1> USE NoCopyFacts
<1>1. flow[c] \in Flow /\ Begun(c) /\ Alone(c)
  BY DEF LandReset, TypeOK, Begun, FlowsAlone
<1>2. /\ ~Works(c) /\ Kind(c) = "reset" /\ ~flow[c].landed
      /\ flow[c].tab \in Tabs /\ flow[c].at = "answered"
  BY <1>1, FlowFacts DEF LandReset, Alone, LandsInTime
<1>3. /\ UNCHANGED <<saved, rows, cookie, crossed>>
      /\ \A u \in Tabs, q \in Projects :
           copy'[u][q] = IF u = flow[c].tab THEN NoCopy ELSE copy[u][q]
      /\ \A u \in Tabs : listed'[u] = IF u = flow[c].tab THEN {} ELSE listed[u]
      /\ copy' \in [Tabs -> [Projects -> Copy]] /\ listed' \in [Tabs -> SUBSET Projects]
  BY <1>2 DEF LandReset, server, TypeOK
<1>4. /\ \A d \in AllFlows : d # c => flow'[d] = flow[d]
      /\ flow'[c].at = "listing"
      /\ flow'[c].landed = TRUE
      /\ flow'[c].tab = flow[c].tab /\ flow'[c].ask = flow[c].ask
      /\ flow'[c].todo = flow[c].todo /\ flow'[c].list = flow[c].list
      /\ flow'[c].got = flow[c].got
      /\ flow'[c].mixed = flow[c].mixed
      /\ flow'[c].wiped = flow[c].wiped /\ flow'[c].file = flow[c].file
  <2>1. flow' = [flow EXCEPT ![c].landed = TRUE, ![c].at = "listing", ![c].by = cookie]
    BY DEF LandReset
  <2>2. QED
    BY <1>1, <2>1 DEF TypeOK, Flow
<1>6. flow' \in [AllFlows -> Flow]
  <2>1. flow' = [flow EXCEPT ![c].landed = TRUE, ![c].at = "listing", ![c].by = cookie]
    BY DEF LandReset
  <2>2. QED
    BY <1>1, <2>1 DEF TypeOK, Flow, Stages
<1>7. TypeOK'
  BY <1>3, <1>6 DEF TypeOK
<1>8. Alone(c)'
  BY <1>1, <1>2, <1>3, <1>4
  DEF Alone, OnCourse, LandsInTime, AnswersItself, ReadsWhatIs, Begun, Reading, Kind, Project,
      Works, InCourse
<1>9. Frame(c)
  BY <1>1, <1>2, <1>4 DEF Frame, InFlight, Over
<1>10. ServerMoves(c) /\ StoresMoves(c)
  BY <1>1, <1>2, <1>3, <1>4 DEF ServerMoves, StoresMoves, Appends, Creates, HasSaved, HasRows
<1>11. GotMoves(c) /\ FileMoves(c) /\ WipedMoves(c) /\ ListMoves(c)
  BY <1>2, <1>3, <1>4
  DEF GotMoves, FileMoves, WipedMoves, ListMoves, Reading, HoldsRows, Creates, Kind, Project,
      Works
<1>12. CopyMoves(c) /\ ListedMoves(c) /\ LandMoves(c) /\ RefreshMoves(c) /\ AnswerMoves(c)
  BY <1>2, <1>3, <1>4
  DEF CopyMoves, ListedMoves, LandMoves, RefreshMoves, AnswerMoves, Takes, Reading
<1>13. LoadMoves(c)
  BY <1>2, <1>3, <1>4 DEF LoadMoves
<1>14. QED
  BY <1>7, <1>8, <1>9, <1>10, <1>11, <1>12, <1>13 DEF Moves

\* A project is read as it is, or the whole flow fails.
LEMMA ReadStateMoves ==
  ASSUME TypeOK, FlowsAlone, NEW c \in AllFlows, ReadState(c)
  PROVE  TypeOK' /\ Alone(c)' /\ Moves(c)
<1> USE NoCopyFacts
<1>1. flow[c] \in Flow /\ Begun(c) /\ Alone(c)
  BY DEF ReadState, TypeOK, Begun, FlowsAlone
<1>2. PICK q \in flow[c].todo :
        /\ flow[c].at = "reading" /\ flow[c].got[q] = NoCopy
        /\ IF Allowed(c, q) THEN flow' = [flow EXCEPT ![c].got[q].state = saved[q]]
                         ELSE flow' = [flow EXCEPT ![c].at = "failed"]
        /\ UNCHANGED <<server, tabs, faults>>
  BY DEF ReadState
<1>3. CASE ~Allowed(c, q)
  BY <1>2, <1>3, FailMoves DEF InFlight, Over, Step, server, TypeOK
<1>4. CASE Allowed(c, q)
  <2>1. /\ UNCHANGED <<saved, rows, cookie, crossed, copy, listed>>
        /\ q \in Projects /\ saved[q] \in Seq(Names) /\ saved[q] # << >>
        /\ flow[c].tab \in Tabs  /\ flow[c].got \in [Projects -> Copy]
        /\ Works(c) => flow[c].landed /\ flow[c].todo = {Project(c)}
    BY <1>1, <1>2, <1>4, FlowFacts
    DEF server, tabs, Flow, TypeOK, Allowed, Alone, OnCourse, InCourse,
        LandsInTime, ReadsWhatIs
  <2>2. /\ \A d \in AllFlows : d # c => flow'[d] = flow[d]
        /\ flow'[c].got = [flow[c].got EXCEPT ![q].state = saved[q]]
        /\ flow'[c].at = flow[c].at /\ flow'[c].tab = flow[c].tab
        /\ flow'[c].ask = flow[c].ask /\ flow'[c].todo = flow[c].todo
        /\ flow'[c].list = flow[c].list
        /\ flow'[c].mixed = flow[c].mixed
        /\ flow'[c].landed = flow[c].landed /\ flow'[c].wiped = flow[c].wiped
        /\ flow'[c].file = flow[c].file
    BY <1>1, <1>2, <1>4 DEF TypeOK, Flow
  <2>3. /\ flow'[c].got \in [Projects -> Copy]
        /\ flow'[c].got[q].state = saved[q] /\ flow'[c].got[q].rows = << >>
        /\ \A r \in Projects : r # q => flow'[c].got[r] = flow[c].got[r]
    <3>1. flow[c].got[q] \in [state : Seq(Names), rows : Seq(Names)]
      BY <2>1 DEF Copy
    <3>2. LET new == [flow[c].got[q] EXCEPT !.state = saved[q]] IN
          /\ new \in [state : Seq(Names), rows : Seq(Names)]
          /\ new.state = saved[q] /\ new.rows = << >>
      BY <1>2, <2>1, <3>1
    <3>3. QED
      BY <2>1, <2>2, <3>2 DEF Copy
  <2>4. flow' \in [AllFlows -> Flow]
    <3>1. [flow[c].got EXCEPT ![q].state = saved[q]] \in [Projects -> Copy]
      BY <2>2, <2>3
    <3>2. flow' = [flow EXCEPT ![c].got = [flow[c].got EXCEPT ![q].state = saved[q]]]
      BY <1>1, <1>2, <1>4 DEF TypeOK, Flow
    <3>3. QED
      BY <1>1, <3>1, <3>2 DEF TypeOK, Flow
  <2>5. TypeOK'
    BY <2>1, <2>4 DEF TypeOK
  <2>6. Alone(c)'
    BY <1>1, <1>2, <2>1, <2>2, <2>3
    DEF Alone, OnCourse, LandsInTime, AnswersItself, ReadsWhatIs, Begun, Reading, Kind,
        Project, Works, InCourse
  <2>7. Frame(c)
    BY <1>1, <1>2, <2>2 DEF Frame, InFlight, Over
  <2>8. ServerMoves(c) /\ StoresMoves(c)
    BY <1>1, <1>2, <2>1, <2>2 DEF ServerMoves, StoresMoves, HasSaved, HasRows
  <2>9. GotMoves(c)
    BY <1>2, <2>1, <2>2, <2>3 DEF GotMoves, Reading, HoldsRows, Creates
  <2>10. FileMoves(c) /\ WipedMoves(c) /\ ListMoves(c)
    BY <1>2, <2>1, <2>2 DEF FileMoves, WipedMoves, ListMoves
  <2>11. CopyMoves(c) /\ ListedMoves(c) /\ LandMoves(c) /\ RefreshMoves(c) /\ AnswerMoves(c)
    BY <1>2, <2>1, <2>2
    DEF CopyMoves, ListedMoves, LandMoves, RefreshMoves, AnswerMoves
  <2>12. LoadMoves(c)
    BY <1>2, <2>1, <2>2 DEF LoadMoves
  <2>13. QED
    BY <2>5, <2>6, <2>7, <2>8, <2>9, <2>10, <2>11, <2>12 DEF Moves
<1>5. QED
  BY <1>3, <1>4

\* The rows of a project that was read, which ends with the last of them.
LEMMA ReadRowsMoves ==
  ASSUME TypeOK, FlowsAlone, NEW c \in AllFlows, ReadRows(c)
  PROVE  TypeOK' /\ Alone(c)' /\ Moves(c)
<1> USE NoCopyFacts
<1>1. flow[c] \in Flow /\ Begun(c) /\ Alone(c)
  BY DEF ReadRows, TypeOK, Begun, FlowsAlone
<1>2. PICK q \in flow[c].todo :
        /\ flow[c].at = "reading" /\ flow[c].got[q] # NoCopy
        /\ flow' = [flow EXCEPT ![c].got[q].rows = rows[q], ![c].todo = flow[c].todo \ {q},
                      ![c].at = IF flow[c].todo = {q} THEN "read" ELSE flow[c].at]
        /\ UNCHANGED <<server, tabs, faults>>
  BY <1>1 DEF ReadRows, TypeOK, Flow
<1>3. /\ UNCHANGED <<saved, rows, cookie, crossed, copy, listed>>
      /\ q \in Projects /\ rows[q] \in Seq(Names) /\ flow[c].got[q].state # << >>
      /\ flow[c].tab \in Tabs  /\ flow[c].got \in [Projects -> Copy]
      /\ Works(c) => flow[c].landed /\ flow[c].todo = {Project(c)}
  BY <1>1, <1>2, FlowFacts
  DEF server, tabs, Flow, TypeOK, Alone, OnCourse, InCourse, LandsInTime,
      ReadsWhatIs, Reading
<1>4. /\ \A d \in AllFlows : d # c => flow'[d] = flow[d]
      /\ flow'[c].got = [flow[c].got EXCEPT ![q].rows = rows[q]]
      /\ flow'[c].todo = flow[c].todo \ {q}
      /\ flow'[c].at = IF flow[c].todo = {q} THEN "read" ELSE "reading"
      /\ flow'[c].tab = flow[c].tab /\ flow'[c].ask = flow[c].ask
      /\ flow'[c].list = flow[c].list
      /\ flow'[c].mixed = flow[c].mixed
      /\ flow'[c].landed = flow[c].landed /\ flow'[c].wiped = flow[c].wiped
      /\ flow'[c].file = flow[c].file
  BY <1>1, <1>2 DEF TypeOK, Flow
<1>5. /\ flow'[c].got \in [Projects -> Copy]
      /\ flow'[c].got[q].state = flow[c].got[q].state /\ flow'[c].got[q].rows = rows[q]
      /\ \A r \in Projects : r # q => flow'[c].got[r] = flow[c].got[r]
  <2>1. flow[c].got[q] \in [state : Seq(Names), rows : Seq(Names)]
    BY <1>3 DEF Copy
  <2>2. /\ [flow[c].got[q] EXCEPT !.rows = rows[q]] \in [state : Seq(Names), rows : Seq(Names)]
        /\ [flow[c].got[q] EXCEPT !.rows = rows[q]].state = flow[c].got[q].state
        /\ [flow[c].got[q] EXCEPT !.rows = rows[q]].rows = rows[q]
    BY <1>3, <2>1
  <2>3. QED
    BY <1>3, <1>4, <2>2 DEF Copy
<1>6. flow' \in [AllFlows -> Flow]
  <2>1. [flow[c].got EXCEPT ![q].rows = rows[q]] \in [Projects -> Copy]
        /\ flow[c].todo \ {q} \in SUBSET Projects
    BY <1>1, <1>4, <1>5 DEF Flow
  <2>2. QED
    BY <1>1, <1>2, <2>1 DEF TypeOK, Flow, Stages
<1>7. TypeOK'
  BY <1>3, <1>6 DEF TypeOK
<1>a. /\ flow'[c].at \in {"read", "reading"}
      /\ flow'[c].at = "read" => flow'[c].todo = {}
      /\ Works(c) => flow'[c].at = "read" /\ q = Project(c)
  <2>1. flow'[c].at \in {"read", "reading"}
    BY <1>4
  <2>2. flow'[c].at = "read" => flow[c].todo = {q}
    BY <1>4
  <2>3. Works(c) => flow[c].todo = {q} /\ q = Project(c)
    BY <1>2, <1>3
  <2>4. QED
    BY <1>4, <2>1, <2>2, <2>3
<1>8. Alone(c)'
  <2>1. OnCourse(c)'
    BY <1>1, <1>2, <1>4, <1>a DEF Alone, OnCourse, Begun, Kind, InCourse
  <2>2. LandsInTime(c)' /\ AnswersItself(c)'
    BY <1>1, <1>2, <1>3, <1>4, <1>a DEF Alone, LandsInTime, AnswersItself, Kind, Works
  <2>3. ReadsWhatIs(c)'
    <3>1. \A r \in Projects : flow'[c].got[r] # NoCopy => flow'[c].got[r].state # << >>
      BY <1>1, <1>2, <1>3, <1>5 DEF Alone, ReadsWhatIs, Reading
    <3>2. Works(c) => flow'[c].got[Project(c)] # NoCopy
      BY <1>3, <1>5, <1>a
    <3>3. QED
      BY <1>2, <1>4, <1>a, <3>1, <3>2 DEF ReadsWhatIs, Works, Kind, Project, Begun
  <2>4. QED
    BY <2>1, <2>2, <2>3 DEF Alone
<1>9. Frame(c)
  BY <1>1, <1>2, <1>4, <1>a DEF Frame, InFlight, Over
<1>10. ServerMoves(c) /\ StoresMoves(c)
  BY <1>1, <1>2, <1>3, <1>4, <1>a DEF ServerMoves, StoresMoves, HasSaved, HasRows
<1>11. GotMoves(c)
  BY <1>2, <1>3, <1>4, <1>5 DEF GotMoves, Reading, HoldsRows, Creates
<1>12. FileMoves(c) /\ WipedMoves(c) /\ ListMoves(c)
  BY <1>2, <1>3, <1>4 DEF FileMoves, WipedMoves, ListMoves
<1>13. CopyMoves(c) /\ ListedMoves(c) /\ LandMoves(c) /\ RefreshMoves(c) /\ AnswerMoves(c)
  <2>1. CopyMoves(c) /\ ListedMoves(c)
    BY <1>3 DEF CopyMoves, ListedMoves
  <2>2. LandMoves(c)
    BY <1>4 DEF LandMoves
  <2>3. RefreshMoves(c) /\ AnswerMoves(c)
    BY <1>a DEF RefreshMoves, AnswerMoves
  <2>4. QED
    BY <2>1, <2>2, <2>3
<1>14. LoadMoves(c)
  BY <1>3, <1>a DEF LoadMoves
<1>15. QED
  BY <1>7, <1>8, <1>9, <1>10, <1>11, <1>12, <1>13, <1>14 DEF Moves

LEMMA StepMoves ==
  ASSUME TypeOK, FlowsAlone, NEW c \in AllFlows, FlowStep(c)
  PROVE  TypeOK' /\ Alone(c)' /\ Moves(c)
<1>1. CASE ServeRefusal(c) \/ Lost(c)
  <2>1. InFlight(c) /\ Step(c, "failed") /\ UNCHANGED <<saved, rows, crossed, tabs>>
    BY <1>1 DEF ServeRefusal, Lost, Fails, InFlight, Over, server, tabs
  <2>2. cookie' \in Actors
    <3>1. CASE cookie' = cookie
      BY <3>1 DEF TypeOK
    <3>2. CASE InFlight(c) /\ Kind(c) = "switch" /\ cookie' = flow[c].ask.actor
      BY <3>2, OrderFacts DEF FlowsAlone, Alone, OnCourse, Begun, Kind, InFlight
    <3>3. QED
      BY <1>1, <3>1, <3>2 DEF ServeRefusal, Lost, Fails, server
  <2>3. QED
    BY <2>1, <2>2, FailMoves
<1>2. QED
  BY <1>1, LoadOperationMoves, SaveOperationMoves, ServeRowsMoves, ServeCreationMoves,
     ServeResetMoves, ServeSwitchMoves, ServeListMoves, ReadStateMoves, ReadRowsMoves,
     RenderMoves, LandFileMoves, LandAnswerMoves, LandRefreshMoves, LandListMoves,
     LandProjectsMoves, LandResetMoves, LandSwitchMoves
  DEF FlowStep

-----------------------------------------------------------------------------
(* What the start of a flow does *)

Starts(c, t, ask) ==
  /\ c \in AllFlows /\ t \in Tabs /\ ask \in Orders /\ ~Begun(c) /\ flow[c].tab # t
  /\ ask.kind # "list"
  /\ UNCHANGED <<saved, rows, cookie, crossed, copy, listed>>
  /\ \A d \in AllFlows : d # c =>
       /\ flow'[d].at = flow[d].at /\ flow'[d].tab = flow[d].tab
       /\ flow'[d].ask = flow[d].ask /\ flow'[d].todo = flow[d].todo
       /\ flow'[d].list = flow[d].list /\ flow'[d].got = flow[d].got
       /\ flow'[d].landed = flow[d].landed /\ flow'[d].wiped = flow[d].wiped
       /\ flow'[d].file = flow[d].file
       /\ flow'[d].mixed = (flow[d].mixed \/ (flow[d].tab = t /\ InFlight(d)))
  /\ flow'[c].at = "sent" /\ flow'[c].tab = t /\ flow'[c].ask = ask
  /\ ~flow'[c].landed /\ flow'[c].wiped = {} /\ flow'[c].file = << >>
  /\ ~flow'[c].mixed => \A d \in AllFlows : flow[d].tab = t => ~InFlight(d)
  /\ \A p \in Projects :
       flow'[c].got[p] \in {NoCopy, copy[t][p]}
  /\ ask.kind \in {"operate", "download"} => copy[t][ask.project].state # << >>
  /\ ask.kind = "create" => \A d \in AllFlows : ~Creates(d, ask.project)

LEMMA BeginStarts ==
  ASSUME TypeOK, FlowsAlone, NEW c \in Flows, Begin(c)
  PROVE  TypeOK' /\ FlowsAlone' /\ \E t \in Tabs, ask \in Orders : Starts(c, t, ask)
<1> USE NoCopyFacts
<1>1. PICK t \in Tabs, ask \in Asks :
        LET others == {d \in OfTab(t) : InFlight(d)}
            posted == IF ask.kind = "download"
                      THEN [Nothing EXCEPT ![ask.project] = copy[t][ask.project]] ELSE Nothing
        IN /\ flow[c].at = "new" /\ Offered(t, ask)
           /\ flow' = [d \in AllFlows |->
                         IF d = c THEN [Fresh(t, ask, "sent", cookie) EXCEPT
                                          !.got = posted, !.mixed = others # {}]
                         ELSE IF d \in others THEN [flow[d] EXCEPT !.mixed = TRUE]
                         ELSE flow[d]]
           /\ UNCHANGED <<saved, rows, cookie, crossed, copy, listed, faults>>
  BY DEF Begin, server, tabs
<1> DEFINE others == {d \in OfTab(t) : InFlight(d)}
           posted == IF ask.kind = "download"
                     THEN [Nothing EXCEPT ![ask.project] = copy[t][ask.project]] ELSE Nothing
<1>2. /\ c \in AllFlows /\ ask \in Orders /\ ~Begun(c) /\ flow[c].tab # t
      /\ ask.kind \in {"operate", "download", "create", "switch", "reset"}
  BY <1>1, BrowserAssumption
  DEF AllFlows, Orders, Begun, FlowsAlone, Alone, OnCourse, AllAsks
<1>3. posted \in [Projects -> Copy] /\ \A p \in Projects : posted[p] \in {NoCopy, copy[t][p]}
  BY <1>2, OrderFacts DEF TypeOK
<1>4. flow'[c] = [at |-> "sent", tab |-> t, ask |-> ask, todo |-> {}, list |-> {},
                  got |-> posted, by |-> cookie,
                  mixed |-> others # {}, landed |-> FALSE, wiped |-> {}, file |-> << >>]
  BY <1>1, <1>2 DEF Fresh
<1>5. \A d \in AllFlows : d # c =>
        flow'[d] = IF d \in others THEN [flow[d] EXCEPT !.mixed = TRUE] ELSE flow[d]
  BY <1>1
<1>6. UNCHANGED <<saved, rows, cookie, crossed, copy, listed>> /\ Offered(t, ask)
  BY <1>1
<1>7. \A d \in AllFlows : d # c =>
       /\ flow'[d] \in Flow
       /\ flow'[d].at = flow[d].at /\ flow'[d].tab = flow[d].tab
       /\ flow'[d].ask = flow[d].ask /\ flow'[d].todo = flow[d].todo
       /\ flow'[d].list = flow[d].list /\ flow'[d].got = flow[d].got
       /\ flow'[d].landed = flow[d].landed /\ flow'[d].wiped = flow[d].wiped
       /\ flow'[d].file = flow[d].file
       /\ flow'[d].mixed = (flow[d].mixed \/ (flow[d].tab = t /\ InFlight(d)))
  <2> SUFFICES ASSUME NEW d \in AllFlows, d # c
               PROVE  /\ flow'[d] \in Flow
                      /\ flow'[d].at = flow[d].at /\ flow'[d].tab = flow[d].tab
                      /\ flow'[d].ask = flow[d].ask /\ flow'[d].todo = flow[d].todo
                      /\ flow'[d].list = flow[d].list /\ flow'[d].got = flow[d].got
                      /\ flow'[d].landed = flow[d].landed /\ flow'[d].wiped = flow[d].wiped
                      /\ flow'[d].file = flow[d].file
                      /\ flow'[d].mixed = (flow[d].mixed \/ (flow[d].tab = t /\ InFlight(d)))
    OBVIOUS
  <2>1. flow[d] \in Flow /\ (d \in others <=> flow[d].tab = t /\ InFlight(d))
    BY DEF TypeOK, OfTab
  <2>2. CASE d \in others
    <3>1. flow'[d] = [flow[d] EXCEPT !.mixed = TRUE]
      BY <1>5, <2>2
    <3>2. flow'[d] \in Flow
      BY <2>1, <3>1 DEF Flow
    <3>3. /\ flow'[d].at = flow[d].at /\ flow'[d].tab = flow[d].tab
          /\ flow'[d].ask = flow[d].ask /\ flow'[d].todo = flow[d].todo
          /\ flow'[d].list = flow[d].list /\ flow'[d].got = flow[d].got
      BY <2>1, <3>1 DEF Flow
    <3>4. /\ flow'[d].landed = flow[d].landed /\ flow'[d].wiped = flow[d].wiped
          /\ flow'[d].file = flow[d].file /\ flow'[d].mixed = TRUE
      BY <2>1, <3>1 DEF Flow
    <3>5. QED
      BY <2>1, <2>2, <3>2, <3>3, <3>4
  <2>3. CASE d \notin others
    BY <1>5, <2>1, <2>3 DEF Flow
  <2>4. QED
    BY <2>2, <2>3
<1>8. flow'[c] \in Flow
  <2>1. cookie \in Actors /\ << >> \in Seq(Names)
    BY DEF TypeOK
  <2>2. QED
    BY <1>2, <1>3, <1>4, <2>1 DEF Flow, Stages
<1>9. TypeOK'
  <2>1. flow' = [d \in AllFlows |-> flow'[d]]
    BY <1>1
  <2>2. flow' \in [AllFlows -> Flow]
    BY <1>7, <1>8, <2>1
  <2>3. QED
    BY <1>6, <2>2 DEF TypeOK
<1>10. FlowsAlone'
  <2>1. ASSUME NEW d \in AllFlows, d # c  PROVE Alone(d)'
    <3>1. /\ flow'[d].at = flow[d].at /\ flow'[d].tab = flow[d].tab
          /\ flow'[d].ask = flow[d].ask /\ flow'[d].todo = flow[d].todo
          /\ flow'[d].got = flow[d].got /\ flow'[d].landed = flow[d].landed
          /\ flow'[d].file = flow[d].file /\ flow'[d].wiped = flow[d].wiped
          /\ Alone(d)
      BY <1>7, <2>1 DEF FlowsAlone
    <3>2. OnCourse(d)'
      BY <3>1 DEF Alone, OnCourse, Begun, Kind
    <3>3. LandsInTime(d)' /\ AnswersItself(d)'
      BY <3>1 DEF Alone, LandsInTime, AnswersItself, Works, Kind, Project
    <3>4. ReadsWhatIs(d)'
      BY <3>1 DEF Alone, ReadsWhatIs, Reading, Works, Kind, Project
    <3>5. QED
      BY <3>2, <3>3, <3>4 DEF Alone
  <2>2. Alone(c)'
    BY <1>2, <1>4
    DEF Alone, OnCourse, LandsInTime, AnswersItself, ReadsWhatIs, Begun, Reading, Kind,
        Project, Works, InCourse
  <2>3. QED
    BY <2>1, <2>2 DEF FlowsAlone
<1>11. ask.kind \in {"operate", "download"} => copy[t][ask.project].state # << >>
  <2>1. CASE ask.kind = "operate"
    <3>1. ask.project \in Cached(t)
      BY <1>6, <2>1 DEF Offered
    <3>2. QED
      BY <3>1 DEF Cached
  <2>2. CASE ask.kind = "download"
    <3>1. Contains(copy[t][ask.project].state, Founder)
      BY <1>6, <2>2 DEF Offered
    <3>2. QED
      BY <3>1, ContainsFacts
  <2>3. QED
    BY <2>1, <2>2
<1>12. ask.kind = "create" => \A d \in AllFlows : ~Creates(d, ask.project)
  <2> SUFFICES ASSUME ask.kind = "create", NEW d \in AllFlows, Creates(d, ask.project)
               PROVE  FALSE
    OBVIOUS
  <2>1. flow[d].ask \in Orders /\ flow[d].ask.kind = "create"
        /\ flow[d].ask.project = ask.project /\ flow[d].at # "new"
    BY DEF Creates, FlowsAlone, Alone, OnCourse, Begun, Kind, Project
  <2>2. flow[d].ask = ask
    BY <1>2, <2>1, OrderFacts
  <2>3. QED
    BY <1>6, <2>1, <2>2 DEF Offered, Kind
<1>13. ~flow'[c].mixed => \A d \in AllFlows : flow[d].tab = t => ~InFlight(d)
  <2>1. ~flow'[c].mixed => others = {}
    <3>1. flow'[c].mixed = (others # {})
      BY <1>4
    <3>2. QED
      BY <3>1
  <2>2. QED
    BY <2>1 DEF OfTab
<1>14. Starts(c, t, ask)
  BY <1>2, <1>3, <1>4, <1>6, <1>7, <1>11, <1>12, <1>13 DEF Starts
<1>15. QED
  BY <1>2, <1>9, <1>10, <1>14

-----------------------------------------------------------------------------
(* The invariant is kept by a step of a flow *)

\* What a flow was begun with stays, and only that flow can end.
LEMMA FrameFacts ==
  ASSUME NEW c, Frame(c)
  PROVE  \A d \in AllFlows :
           /\ Begun(d)' <=> Begun(d)
           /\ Kind(d)' = Kind(d) /\ Project(d)' = Project(d)
           /\ Works(d)' <=> Works(d)
           /\ \A p : Creates(d, p)' <=> Creates(d, p)
           /\ flow'[d].tab = flow[d].tab /\ flow'[d].mixed = flow[d].mixed
           /\ InFlight(d)' => InFlight(d)
<1>1. TAKE d \in AllFlows
<1>2. CASE d = c
  BY <1>2 DEF Frame, Begun, Kind, Project, Works, Creates, InFlight, Over
<1>3. CASE d # c
  BY <1>3 DEF Frame, Begun, Kind, Project, Works, Creates, InFlight, Over
<1>4. QED
  BY <1>2, <1>3

\* What was deleted, and what has crossed, stays so.
LEMMA MovesFacts ==
  ASSUME TypeOK, NEW c \in AllFlows, Moves(c)
  PROVE  /\ \A p : Live(p)' => Live(p)
         /\ \A d \in AllFlows, p \in Projects : p \in flow'[d].wiped =>
              p \in flow[d].wiped \/ (d = c /\ saved[p] # << >> /\ saved'[p] = << >>)
         /\ \A p \in Projects : p \in flow'[c].wiped => ~Live(p)'
         /\ \A d : d \notin crossed' => d \notin crossed
         /\ \A p : ~Muddled(p)' => ~Muddled(p)
<1>1. Frame(c) /\ WipedMoves(c) /\ crossed \subseteq crossed'
  BY DEF Moves, LoadMoves
<1>2. \A d \in AllFlows : \A p : p \in flow[d].wiped => p \in flow'[d].wiped
  <2>1. flow[c].wiped = {} \/ flow'[c].wiped = flow[c].wiped
    BY <1>1 DEF WipedMoves
  <2>2. QED
    BY <1>1, <2>1 DEF Frame
<1>3. \A p : Live(p)' => Live(p)
  BY <1>2 DEF Live, Deleted
<1>4. \A d \in AllFlows, p \in Projects : p \in flow'[d].wiped =>
        p \in flow[d].wiped \/ (d = c /\ saved[p] # << >> /\ saved'[p] = << >>)
  BY <1>1 DEF WipedMoves, Frame
<1>5. \A p \in Projects : p \in flow'[c].wiped => ~Live(p)'
  BY DEF Live, Deleted
<1>6. \A p : ~Muddled(p)' => ~Muddled(p)
  <2> SUFFICES ASSUME NEW p, Muddled(p)  PROVE Muddled(p)'
    OBVIOUS
  <2>1. QED
    BY <1>1, FrameFacts DEF Muddled, TypeOK
<1>7. QED
  BY <1>1, <1>3, <1>4, <1>5, <1>6

LEMMA StepKeepsSolo ==
  ASSUME Inv, NEW c \in AllFlows, Moves(c)
  PROVE  Solo' /\ CreatedOnce'
<1>1. Frame(c)
  BY DEF Moves
<1>2. Solo'
  BY <1>1, FrameFacts DEF Inv, Solo
<1>3. CreatedOnce'
  BY <1>1, FrameFacts DEF Inv, CreatedOnce
<1>4. QED
  BY <1>2, <1>3

\* An operation that has read its project works on it, and did not make it.
LEMMA LoadedFacts ==
  ASSUME FlowsAlone, NEW d \in AllFlows, flow[d].at = "loaded"
  PROVE  Appends(d, Project(d)) /\ Project(d) \in Projects /\ ~HasSaved(d)
<1>1. Begun(d)
  BY DEF Begun
<1>2. QED
  BY <1>1, FlowFacts DEF InCourse, Appends, FlowsAlone, Alone, LandsInTime, HasSaved

\* A project is made once, and work on it comes after.
LEMMA MadeFacts ==
  ASSUME Inv, NEW p \in Projects
  PROVE  /\ saved[p] = << >> /\ Live(p) => Untouched(p)
         /\ \A d \in AllFlows : Appends(d, p) => ~Untouched(p)
         /\ \A d \in AllFlows : Works(d) /\ Project(d) = p /\ HasSaved(d) => Made(p)
         /\ \A d \in AllFlows : p \in flow[d].wiped => Made(p)
         /\ \A d \in AllFlows : Creates(d, p) /\ flow[d].at = "sent" =>
              ~Made(p) /\ saved[p] = << >> /\ Live(p) /\ Untouched(p)
<1>1. saved[p] = << >> /\ Live(p) => Untouched(p)
  BY DEF Inv, NothingOfAbsent
<1>2. \A d \in AllFlows : Appends(d, p) => ~Untouched(p)
  BY DEF Untouched, Appends, Works, Begun
<1>3. ~Made(p) => saved[p] = << >> /\ Live(p)
  BY DEF Inv, NothingOfUnmade
<1>4. \A d \in AllFlows : Works(d) /\ Project(d) = p /\ HasSaved(d) => Made(p)
  <2> SUFFICES ASSUME NEW d \in AllFlows, Works(d), Project(d) = p, HasSaved(d)
               PROVE  Made(p)
    OBVIOUS
  <2>1. flow[d].at # "sent"
    BY DEF Inv, FlowsAlone, Alone, LandsInTime, HasSaved
  <2>2. Kind(d) # "create" => ~Untouched(p)
    BY <1>2 DEF Appends
  <2>3. QED
    BY <1>1, <1>3, <2>1, <2>2 DEF Made, Creates, Works, Begun
<1>5. \A d \in AllFlows : p \in flow[d].wiped => Made(p)
  BY <1>3 DEF Live, Deleted
<1>6. \A d \in AllFlows : Creates(d, p) /\ flow[d].at = "sent" => ~Made(p)
  BY FlowFacts DEF Inv, CreatedOnce, Made, Creates
<1>7. QED
  BY <1>1, <1>2, <1>3, <1>4, <1>5, <1>6

LEMMA MadeStays ==
  ASSUME Inv, NEW c \in AllFlows, Moves(c), NEW p \in Projects, Made(p)
  PROVE  Made(p)'
<1>1. Frame(c)
  BY DEF Moves
<1>2. ASSUME NEW d \in AllFlows, Creates(d, p), flow[d].at # "sent"
      PROVE  Creates(d, p)' /\ flow'[d].at # "sent"
  BY <1>1, <1>2, FrameFacts DEF Frame
<1>3. QED
  BY <1>2 DEF Made

\* What the server has of a project that no reset deleted: nothing as yet, or it has
\* changed by an operation at most.
LEMMA ServerGrows ==
  ASSUME Inv, NEW c \in AllFlows, Moves(c), NEW p \in Projects, Live(p)'
  PROVE  /\ saved[p] = << >> => Untouched(p)
         /\ saved[p] # << >> =>
              /\ \/ saved'[p] = saved[p]
                 \/ /\ Appends(c, p) /\ flow[c].at = "loaded"
                    /\ saved'[p] = Append(flow[c].got[p].state, c)
              /\ rows'[p] = rows[p] \/ rows'[p] = Append(rows[p], c)
<1>1. Live(p)
  BY MovesFacts DEF Inv
<1>2. saved[p] = << >> => Untouched(p)
  BY <1>1, MadeFacts
<1>3. ASSUME saved[p] # << >>
      PROVE  /\ \/ saved'[p] = saved[p]
                \/ /\ Appends(c, p) /\ flow[c].at = "loaded"
                   /\ saved'[p] = Append(flow[c].got[p].state, c)
             /\ rows'[p] = rows[p] \/ rows'[p] = Append(rows[p], c)
  <2>1. ~(Creates(c, p) /\ flow[c].at = "sent")
    BY <1>3, MadeFacts
  <2>2. p \notin flow'[c].wiped
    BY MovesFacts DEF Inv
  <2>3. QED
    BY <1>3, <2>1, <2>2 DEF Moves, ServerMoves
<1>4. QED
  BY <1>2, <1>3

\* What was a beginning of a project or of its log is one still.
LEMMA PrefixStays ==
  ASSUME Inv, TypeOK', NEW c \in AllFlows, Moves(c), NEW p \in Projects,
         Live(p)', NEW s \in Seq(Names), saved[p] = << >> => s = << >>
  PROVE  /\ ~Muddled(p)' /\ IsPrefix(s, saved[p]) => IsPrefix(s, saved'[p])
         /\ IsPrefix(s, rows[p]) => IsPrefix(s, rows'[p])
<1>1. /\ saved[p] \in Seq(Names) /\ rows[p] \in Seq(Names) /\ c \in Names
      /\ saved'[p] \in Seq(Names) /\ rows'[p] \in Seq(Names)
  BY DEF Inv, TypeOK, Names
<1>2. IsPrefix(<< >>, saved'[p]) /\ IsPrefix(<< >>, rows'[p])
  BY <1>1, PrefixFacts
<1>3. CASE saved[p] # << >>
  <2>1. /\ \/ saved'[p] = saved[p]
           \/ /\ Appends(c, p) /\ flow[c].at = "loaded"
              /\ saved'[p] = Append(flow[c].got[p].state, c)
        /\ rows'[p] = rows[p] \/ rows'[p] = Append(rows[p], c)
    BY <1>3, ServerGrows
  <2>2. IsPrefix(s, saved[p]) => IsPrefix(s, Append(saved[p], c))
    BY <1>1, PrefixFacts
  <2>3. IsPrefix(s, rows[p]) => IsPrefix(s, Append(rows[p], c))
    BY <1>1, PrefixFacts
  <2>4. ASSUME ~Muddled(p)', Appends(c, p), flow[c].at = "loaded"
        PROVE  flow[c].got[p].state = saved[p]
    <3>1. c \notin crossed
      BY <2>4, MovesFacts DEF Inv, Muddled, Appends
    <3>2. QED
      BY <2>4, <3>1 DEF Inv, LoadedIsCurrent, Appends
  <2>5. QED
    BY <2>1, <2>2, <2>3, <2>4
<1>4. CASE saved[p] = << >>
  BY <1>2, <1>4
<1>5. QED
  BY <1>3, <1>4

\* Operations learn of each other when they read, and of a reset when it deletes.
LEMMA StepKeepsLoaded ==
  ASSUME Inv, NEW c \in AllFlows, Moves(c)
  PROVE  LoadedTogether' /\ LoadedIsCurrent'
<1>1. /\ Frame(c) /\ LoadMoves(c)
      /\ \A d \in AllFlows : Project(d)' = Project(d)
  BY FrameFacts DEF Moves
<1>2. LoadedTogether'
  <2> SUFFICES ASSUME NEW d \in AllFlows, NEW e \in AllFlows, d # e, flow'[d].at = "loaded",
                      flow'[e].at = "loaded", Project(d) = Project(e)
               PROVE  d \in crossed'
    BY <1>1 DEF LoadedTogether
  <2>1. CASE d = c
    BY <1>1, <2>1 DEF LoadMoves, Frame
  <2>2. CASE e = c
    BY <1>1, <2>2 DEF LoadMoves, Frame
  <2>3. CASE d # c /\ e # c
    BY <1>1, <2>3 DEF LoadMoves, Frame, Inv, LoadedTogether
  <2>4. QED
    BY <2>1, <2>2, <2>3
<1>3. LoadedIsCurrent'
  <2> SUFFICES ASSUME NEW d \in AllFlows, flow'[d].at = "loaded", d \notin crossed'
               PROVE  flow'[d].got[Project(d)].state = saved'[Project(d)]
    BY <1>1 DEF LoadedIsCurrent
  <2>1. CASE d = c
    BY <1>1, <2>1 DEF LoadMoves
  <2>2. CASE d # c
    <3> DEFINE p == Project(d)
    <3>1. flow'[d] = flow[d] /\ flow[d].at = "loaded" /\ d \notin crossed
      BY <1>1, <2>2 DEF Frame, LoadMoves
    <3>2. Appends(d, p) /\ p \in Projects
      BY <3>1, LoadedFacts DEF Inv
    <3>3. flow[d].got[p].state = saved[p]
      BY <3>1 DEF Inv, LoadedIsCurrent
    <3>4. ~(Appends(c, p) /\ flow[c].at = "loaded")
      BY <2>2, <3>1 DEF Inv, LoadedTogether, Appends
    <3>5. ~(Creates(c, p) /\ flow[c].at = "sent")
      BY <3>2, MadeFacts
    <3>6. ~(p \notin flow[c].wiped /\ p \in flow'[c].wiped)
      BY <3>1 DEF Moves, WipedMoves
    <3>7. saved'[p] = saved[p]
      BY <3>2, <3>4, <3>5, <3>6 DEF Moves, ServerMoves
    <3>8. QED
      BY <3>1, <3>3, <3>7
  <2>3. QED
    BY <2>1, <2>2
<1>4. QED
  BY <1>2, <1>3

LEMMA StepKeepsUnmade ==
  ASSUME Inv, TypeOK', NEW c \in AllFlows, Moves(c)
  PROVE  NothingOfUnmade' /\ NothingOfAbsent'
<1>a. Frame(c) /\ Begun(c)
  BY DEF Moves, Frame, InFlight, Begun
<1>1. ASSUME NEW p \in Projects, ~Made(p)'
      PROVE  saved'[p] = << >> /\ Live(p)'
  <2>1. ~Made(p)
    BY <1>1, MadeStays
  <2>2. saved[p] = << >> /\ Live(p) /\ Untouched(p)
    BY <2>1, MadeFacts DEF Inv, NothingOfUnmade
  <2>3. ~Appends(c, p) /\ ~(Creates(c, p) /\ flow[c].at = "sent")
    BY <1>1, <1>a, <2>2, MadeFacts, FrameFacts DEF Frame, Made
  <2>4. saved'[p] = << >>
    BY <2>2, <2>3 DEF Moves, ServerMoves
  <2>5. Live(p)'
    BY <2>2, MovesFacts DEF Inv, Live, Deleted
  <2>6. QED
    BY <2>4, <2>5
<1>2. ASSUME NEW p \in Projects, saved'[p] = << >>, Live(p)'
      PROVE  Untouched(p)'
  <2>1. saved[p] = << >>
    <3>1. flow[c].got[p].state \in Seq(Names) /\ c \in Names
      BY HeldTypes DEF Inv, Names
    <3>2. Append(flow[c].got[p].state, c) # << >>
      BY <3>1, AppendFacts
    <3>3. QED
      BY <1>2, <3>2, ServerGrows
  <2>2. Untouched(p)
    BY <1>2, <2>1, ServerGrows
  <2>3. ~Appends(c, p)
    BY <2>2, MadeFacts
  <2>4. rows'[p] = << >>
    <3>1. <<c>> # << >>
      OBVIOUS
    <3>2. QED
      BY <1>2, <2>2, <2>3, <3>1 DEF Moves, ServerMoves, Untouched
  <2>5. flow[c].got[p] = NoCopy
    BY <1>a, <2>2 DEF Untouched
  <2>6. \A t \in Tabs : copy'[t][p] = NoCopy
    BY <2>2, <2>5 DEF Moves, CopyMoves, Untouched
  <2>7. ASSUME NEW d \in AllFlows, Begun(d)'
        PROVE  /\ flow'[d].got[p] = NoCopy
               /\ Works(d)' /\ Project(d)' = p => Kind(d)' = "create"
    <3>1. CASE d = c
      <4>1. flow'[c].got[p] = NoCopy
        BY <1>2, <2>5 DEF Moves, GotMoves
      <4>2. QED
        BY <1>a, <2>2, <2>7, <3>1, <4>1, FrameFacts DEF Untouched
    <3>2. CASE d # c
      BY <1>a, <2>2, <2>7, <3>2, FrameFacts DEF Frame, Untouched
    <3>3. QED
      BY <3>1, <3>2
  <2>8. QED
    BY <2>4, <2>6, <2>7 DEF Untouched
<1>3. QED
  BY <1>1, <1>2 DEF NothingOfUnmade, NothingOfAbsent

LEMMA StepKeepsWiped ==
  ASSUME Inv, TypeOK', NEW c \in AllFlows, Moves(c)
  PROVE  WipedIsGone'
<1>1. /\ Frame(c) /\ LoadMoves(c)
      /\ \A d \in AllFlows : Project(d)' = Project(d)
  BY FrameFacts DEF Moves
<1> SUFFICES ASSUME NEW d \in AllFlows, d \notin crossed', NEW p \in flow'[d].wiped
             PROVE  /\ saved'[p] = << >>
                    /\ \A e \in AllFlows : flow'[e].at = "loaded" => Project(e) # p
  BY <1>1 DEF WipedIsGone
<1>2. p \in Projects
  BY DEF TypeOK, Flow
<1>3. CASE p \in flow[d].wiped
  <2>1. /\ saved[p] = << >> /\ Made(p)
        /\ \A e \in AllFlows : flow[e].at = "loaded" => Project(e) # p
    BY <1>1, <1>2, <1>3, MadeFacts DEF LoadMoves, Inv, WipedIsGone
  <2>2. saved'[p] = << >>
    BY <1>2, <2>1, MadeFacts DEF Moves, ServerMoves, Appends
  <2>3. QED
    BY <1>1, <2>1, <2>2 DEF Frame, LoadMoves
<1>4. CASE p \notin flow[d].wiped
  <2>1. /\ d = c /\ saved'[p] = << >> /\ flow'[c].at = "answered"
        /\ \A e \in AllFlows : flow[e].at = "loaded" => c \in crossed'
    BY <1>1, <1>2, <1>4 DEF Frame, Moves, WipedMoves
  <2>2. QED
    BY <1>1, <2>1 DEF Frame
<1>5. QED
  BY <1>3, <1>4

LEMMA StepKeepsSeen ==
  ASSUME Inv, NEW c \in AllFlows, Moves(c), TypeOK'
  PROVE  SeenIsPrefix'
<1> USE NoCopyFacts
<1> SUFFICES ASSUME NEW p \in Projects, Live(p)', ~Muddled(p)'
             PROVE  /\ \A t \in Tabs : IsPrefix(copy'[t][p].state, saved'[p])
                    /\ \A d \in AllFlows : Begun(d)' =>
                         /\ IsPrefix(flow'[d].got[p].state, saved'[p])
                         /\ Works(d)' /\ Project(d)' = p => IsPrefix(flow'[d].file, saved'[p])
  BY DEF SeenIsPrefix
<1>1. saved'[p] \in Seq(Names) /\ IsPrefix(saved'[p], saved'[p])
      /\ IsPrefix(<< >>, saved'[p])
  BY PrefixFacts DEF TypeOK, Names
<1>2. saved[p] = << >> => Untouched(p)
  BY ServerGrows
<1>a. Live(p) /\ ~Muddled(p)
  BY MovesFacts DEF Inv
<1>3. ASSUME NEW d \in AllFlows, Begun(d)  PROVE IsPrefix(flow[d].got[p].state, saved'[p])
  <2>1. flow[d].got[p].state \in Seq(Names)
    BY HeldTypes DEF Inv
  <2>2. IsPrefix(flow[d].got[p].state, saved[p])
    BY <1>3, <1>a DEF Inv, SeenIsPrefix
  <2>3. saved[p] = << >> => flow[d].got[p].state = << >>
    BY <1>2, <1>3 DEF Untouched
  <2>4. QED
    BY <2>1, <2>2, <2>3, PrefixStays
<1>4. ASSUME NEW d \in AllFlows, Works(d), Project(d) = p
      PROVE  IsPrefix(flow[d].file, saved'[p])
  <2>1. flow[d].file \in Seq(Names) /\ Begun(d)
    BY <1>4 DEF Inv, TypeOK, Flow, Works, Begun
  <2>2. IsPrefix(flow[d].file, saved[p])
    BY <1>4, <1>a, <2>1 DEF Inv, SeenIsPrefix
  <2>3. saved[p] = << >> => flow[d].file = << >>
    BY <1>2, <1>4, <2>1 DEF Untouched, Inv, FlowsAlone, Alone, OnCourse
  <2>4. QED
    BY <2>1, <2>2, <2>3, PrefixStays
<1>5. Begun(c)
  BY DEF Moves, Frame, InFlight, Begun
<1>6. ASSUME NEW t \in Tabs  PROVE IsPrefix(copy'[t][p].state, saved'[p])
  <2>1. copy[t][p].state \in Seq(Names)
    BY DEF Inv, TypeOK, Copy
  <2>2. IsPrefix(copy[t][p].state, saved[p])
    BY <1>a DEF Inv, SeenIsPrefix
  <2>3. saved[p] = << >> => copy[t][p].state = << >>
    BY <1>2 DEF Untouched
  <2>4. IsPrefix(copy[t][p].state, saved'[p])
    BY <2>1, <2>2, <2>3, PrefixStays
  <2>5. QED
    BY <1>1, <1>3, <1>5, <2>4 DEF Moves, CopyMoves
<1>7. ASSUME NEW d \in AllFlows, Begun(d)'
      PROVE  /\ IsPrefix(flow'[d].got[p].state, saved'[p])
             /\ Works(d)' /\ Project(d)' = p => IsPrefix(flow'[d].file, saved'[p])
  <2>1. CASE d = c
    <3>1. IsPrefix(flow'[c].got[p].state, saved'[p])
      BY <1>1, <1>3, <1>5 DEF Moves, GotMoves
    <3>2. Works(c) /\ Project(c) = p => IsPrefix(flow'[c].file, saved'[p])
      BY <1>3, <1>4, <1>5 DEF Moves, FileMoves
    <3>3. QED
      BY <2>1, <3>1, <3>2, FrameFacts DEF Moves
  <2>2. CASE d # c
    BY <1>3, <1>4, <1>7, <2>2, FrameFacts DEF Moves, Frame
  <2>3. QED
    BY <2>1, <2>2
<1>8. QED
  BY <1>6, <1>7

LEMMA StepKeepsLogged ==
  ASSUME Inv, TypeOK', NEW c \in AllFlows, Moves(c)
  PROVE  RowsAreStored'
<1> SUFFICES ASSUME NEW d \in AllFlows, Works(d), NEW p, p = Project(d), Live(p)',
                    HasRows(d)'
             PROVE  Contains(rows'[p], d)
  BY FrameFacts DEF RowsAreStored, Moves, Live, Deleted
<1>1. p \in Projects /\ rows[p] \in Seq(Names) /\ c \in Names
  BY FlowFacts DEF Inv, TypeOK, Names, Works, Begun
<1>2. ASSUME HasRows(d)  PROVE Contains(rows'[p], d)
  <2>1. Live(p)
    BY MovesFacts DEF Inv
  <2>2. Contains(rows[p], d)
    BY <1>2, <2>1 DEF Inv, RowsAreStored
  <2>3. saved[p] # << >>
    BY <1>1, <2>2, ServerGrows, ContainsFacts DEF Untouched
  <2>4. rows'[p] = rows[p] \/ rows'[p] = Append(rows[p], c)
    BY <1>1, <2>3, ServerGrows
  <2>5. Contains(Append(rows[p], c), d)
    BY <1>1, <2>2, AppendFacts
  <2>6. QED
    BY <2>2, <2>4, <2>5
<1>3. CASE d = c
  BY <1>2, <1>3 DEF Moves, StoresMoves
<1>4. CASE d # c
  BY <1>2, <1>4 DEF Moves, Frame, HasRows
<1>5. QED
  BY <1>3, <1>4

LEMMA StepKeepsStored ==
  ASSUME Inv, TypeOK', NEW c \in AllFlows, Moves(c)
  PROVE  WorkIsStored'
<1>a. /\ Frame(c) /\ LoadMoves(c)
      /\ \A d \in AllFlows : Project(d)' = Project(d) /\ (Works(d)' <=> Works(d))
  BY FrameFacts DEF Moves
<1> SUFFICES ASSUME NEW d \in AllFlows, Works(d), NEW p, p = Project(d), Live(p)',
                    HasSaved(d)', d \notin crossed'
             PROVE  /\ Contains(saved'[p], d)
                    /\ \A e \in AllFlows : flow'[e].at = "loaded" /\ Project(e) = p =>
                         Contains(flow'[e].got[p].state, d)
  BY <1>a DEF WorkIsStored, Kept
<1>1. p \in Projects /\ saved[p] \in Seq(Names) /\ c \in Names
  BY FlowFacts DEF Inv, TypeOK, Names, Works, Begun
<1>2. Live(p) /\ d \notin crossed
  BY MovesFacts DEF Inv
\* What was saved before: whoever saves now has read it, and who reads now reads it.
<1>3. CASE HasSaved(d)
  <2>1. /\ Contains(saved[p], d)
        /\ \A e \in AllFlows : flow[e].at = "loaded" /\ Project(e) = p =>
             Contains(flow[e].got[p].state, d)
    BY <1>2, <1>3 DEF Inv, WorkIsStored, Kept
  <2>2. saved[p] # << >>
    BY <2>1, ContainsFacts
  <2>3. ASSUME Appends(c, p), flow[c].at = "loaded",
               saved'[p] = Append(flow[c].got[p].state, c)
        PROVE  Contains(saved'[p], d)
    <3>1. Contains(flow[c].got[p].state, d) /\ flow[c].got[p].state \in Seq(Names)
      BY <1>1, <2>1, <2>3, HeldTypes DEF Inv, Appends
    <3>2. QED
      BY <1>1, <2>3, <3>1, AppendFacts
  <2>4. Contains(saved'[p], d)
    BY <1>1, <2>1, <2>2, <2>3, ServerGrows
  <2>5. QED
    BY <1>a, <2>1, <2>4 DEF Frame, LoadMoves
\* What is saved now: nobody else is at it.
<1>4. CASE ~HasSaved(d)
  <2>1. d = c
    BY <1>4, <1>a DEF Frame, HasSaved
  <2>2. /\ Contains(saved'[p], d)
        /\ flow[c].at = "loaded" \/ (Kind(c) = "create" /\ flow[c].at = "sent")
    BY <1>4, <2>1 DEF Moves, StoresMoves
  <2>3. ASSUME NEW e \in AllFlows, flow'[e].at = "loaded", Project(e) = p
        PROVE  FALSE
    <3>1. e # c
      BY <1>4, <2>1, <2>2, <2>3 DEF HasSaved, Moves, LandMoves
    <3>2. flow[e].at = "loaded" /\ Appends(e, p)
      BY <1>a, <2>3, <3>1, LoadedFacts DEF Frame, Inv
    <3>3. CASE flow[c].at = "loaded"
      BY <1>2, <2>1, <2>3, <3>1, <3>2, <3>3 DEF Inv, LoadedTogether
    <3>4. CASE Kind(c) = "create" /\ flow[c].at = "sent"
      BY <1>1, <2>1, <3>2, <3>4, MadeFacts DEF Creates, Begun
    <3>5. QED
      BY <2>2, <3>3, <3>4
  <2>4. QED
    BY <2>2, <2>3
<1>5. QED
  BY <1>3, <1>4


\* A refresh that is under way goes on, fails, or is taken over.
LEMMA RefreshingStays ==
  ASSUME Inv, NEW c \in AllFlows, Moves(c), NEW t \in Tabs, NEW p \in Projects,
         Refreshing(t, p)
  PROVE  \/ Refreshing(t, p)'
         \/ /\ flow[c].at = "read" /\ Works(c) /\ Project(c) = p /\ flow[c].tab = t
            /\ copy'[t][p] = flow[c].got[p]
<1>1. PICK d \in AllFlows : Refreshes(d, t, p)
  BY DEF Refreshing
<1>2. CASE d = c
  BY <1>1, <1>2, FrameFacts DEF Moves, RefreshMoves, LandMoves, Refreshes, Refreshing
<1>3. CASE d # c
  BY <1>1, <1>3, FrameFacts DEF Moves, Frame, Refreshes, Refreshing
<1>4. QED
  BY <1>2, <1>3

\* A flow that takes over an answer other than that of a creation reads it again.
LEMMA TakesFacts ==
  ASSUME Inv, NEW c \in AllFlows, Moves(c), NEW p \in Projects, Takes(c, p),
         NEW t, t = flow[c].tab
  PROVE  \/ Refreshing(t, p)'
         \/ /\ Creates(c, p) /\ flow[c].at = "answered"
            /\ flow[c].got[p] = [state |-> <<c>>, rows |-> <<c>>]
         \/ flow[c].at = "read" /\ flow[c].got[p] # NoCopy /\ flow[c].todo = {}
<1>1. CASE flow[c].at = "read"
  BY <1>1 DEF Inv, FlowsAlone, Alone, ReadsWhatIs, Takes
<1>2. CASE Works(c) /\ flow[c].at = "answered" /\ Kind(c) = "create"
  BY <1>2 DEF Inv, FlowsAlone, Alone, AnswersItself, Takes, Creates, Begun
<1>3. CASE Works(c) /\ flow[c].at = "answered" /\ Kind(c) # "create"
  <2>1. p = Project(c) /\ flow'[c].landed /\ flow'[c].at = "reading"
    BY <1>3 DEF Takes
  <2>2. QED
    BY <1>3, <2>1, FrameFacts DEF Moves, Refreshing, Refreshes
<1>4. QED
  BY <1>1, <1>2, <1>3 DEF Takes

LEMMA StepKeepsRows ==
  ASSUME Inv, TypeOK', NEW c \in AllFlows, Moves(c)
  PROVE  RowsArePrefix'
<1> USE NoCopyFacts
<1> SUFFICES ASSUME NEW p \in Projects, Live(p)'
             PROVE  /\ \A t \in Tabs : Refreshing(t, p)' \/ IsPrefix(copy'[t][p].rows, rows'[p])
                    /\ \A d \in AllFlows : HoldsRows(d, p)' =>
                         IsPrefix(flow'[d].got[p].rows, rows'[p])
  BY DEF RowsArePrefix
<1>1. rows'[p] \in Seq(Names) /\ IsPrefix(rows'[p], rows'[p]) /\ IsPrefix(<< >>, rows'[p])
  BY PrefixFacts DEF TypeOK, Names
<1>2. Live(p) /\ (saved[p] = << >> => Untouched(p))
  BY MovesFacts, ServerGrows DEF Inv
<1>3. ASSUME NEW d \in AllFlows, HoldsRows(d, p)
      PROVE  IsPrefix(flow[d].got[p].rows, rows'[p])
  <2>1. flow[d].got[p].rows \in Seq(Names)
    BY HeldTypes DEF Inv
  <2>a. Begun(d)
    BY <1>3 DEF HoldsRows, Reading, Creates, Begun
  <2>2. IsPrefix(flow[d].got[p].rows, rows[p])
    BY <1>2, <1>3 DEF Inv, RowsArePrefix
  <2>3. saved[p] = << >> => flow[d].got[p].rows = << >>
    BY <1>2, <2>a DEF Untouched
  <2>4. QED
    BY <2>1, <2>2, <2>3, PrefixStays
<1>4. ASSUME NEW t \in Tabs, ~Refreshing(t, p)'
      PROVE  IsPrefix(copy'[t][p].rows, rows'[p])
  <2>1. CASE copy'[t][p] = copy[t][p]
    <3>1. copy[t][p].rows \in Seq(Names)
      BY DEF Inv, TypeOK, Copy
    <3>2. saved[p] = << >> => copy[t][p].rows = << >>
      BY <1>2 DEF Untouched
    <3>3. CASE Refreshing(t, p)
      <4>1. flow[c].at = "read" /\ copy'[t][p] = flow[c].got[p]
        BY <1>4, <3>3, RefreshingStays
      <4>2. QED
        BY <1>3, <4>1 DEF HoldsRows, Reading
    <3>4. CASE ~Refreshing(t, p)
      <4>1. IsPrefix(copy[t][p].rows, rows[p])
        BY <1>2, <3>4 DEF Inv, RowsArePrefix
      <4>2. QED
        BY <2>1, <3>1, <3>2, <4>1, PrefixStays
    <3>5. QED
      BY <3>3, <3>4
  <2>2. CASE t = flow[c].tab /\ Takes(c, p) /\ copy'[t][p] = flow[c].got[p]
    BY <1>3, <1>4, <2>2, TakesFacts DEF HoldsRows, Reading
  <2>3. CASE copy'[t][p] = NoCopy
    BY <1>1, <2>3
  <2>4. QED
    BY <2>1, <2>2, <2>3 DEF Moves, CopyMoves
<1>5. ASSUME NEW d \in AllFlows, HoldsRows(d, p)'
      PROVE  IsPrefix(flow'[d].got[p].rows, rows'[p])
  <2>1. CASE d = c
    <3>1. Reading(c) => IsPrefix(flow[c].got[p].rows, rows'[p])
      BY <1>3 DEF HoldsRows
    <3>2. QED
      BY <1>1, <1>5, <2>1, <3>1 DEF Moves, GotMoves
  <2>2. CASE d # c
    <3>1. HoldsRows(d, p) /\ flow'[d] = flow[d]
      BY <1>5, <2>2, FrameFacts DEF Moves, Frame, HoldsRows, Reading
    <3>2. QED
      BY <1>3, <3>1
  <2>3. QED
    BY <2>1, <2>2
<1>6. QED
  BY <1>4, <1>5

\* Work that the tab has had to itself stays on the screen.
LEMMA StepKeepsOwn ==
  ASSUME Inv, TypeOK', NEW c \in AllFlows, Moves(c), NothingOfAbsent', RowsAreStored',
         WorkIsStored'
  PROVE  OwnWorkStays'
<1> USE NoCopyFacts
<1> SUFFICES ASSUME NEW d \in AllFlows, Works(d), flow'[d].landed, ~flow[d].mixed,
                    NEW p, p = Project(d), NEW t, t = flow[d].tab, Live(p)'
             PROVE  /\ d \notin crossed' => Contains(copy'[t][p].state, d)
                    /\ Refreshing(t, p)' \/ Contains(copy'[t][p].rows, d)
                    /\ \A e \in AllFlows : InFlight(e)' /\ flow'[e].tab = t => Carries(e, p, d)'
  BY FrameFacts DEF OwnWorkStays, Shown, Moves, Live, Deleted
<1>1. /\ p \in Projects /\ t \in Tabs /\ Begun(d) /\ d \in Names
      /\ Kind(d) \in {"operate", "download", "create"}
  BY FlowFacts DEF Inv, Works, Begun, Names
<1>2. (d \notin crossed' => Contains(saved'[p], d)) /\ Contains(rows'[p], d)
  <2>1. Works(d)' /\ Project(d)' = p /\ HasSaved(d)' /\ HasRows(d)'
    BY FrameFacts DEF Moves, HasSaved, HasRows
  <2>2. QED
    BY <2>1 DEF RowsAreStored, WorkIsStored, Kept, Live, Deleted
<1>3. ~Contains(<< >>, d)
  BY ContainsFacts
\* It has just been taken over: there is nothing else in the tab.
<1>4. CASE ~flow[d].landed
  <2>1. c = d /\ flow[c].at = "answered" /\ Takes(c, p) /\ copy'[t][p] = flow[c].got[p]
    BY <1>4 DEF Moves, Frame, LandMoves
  <2>2. Contains(flow[c].got[p].state, d)
    BY <2>1 DEF Inv, FlowsAlone, Alone, AnswersItself
  <2>3. Refreshing(t, p)' \/ Contains(copy'[t][p].rows, d)
    <3>1. CASE flow[c].got[p] = [state |-> <<c>>, rows |-> <<c>>]
      BY <1>1, <2>1, <3>1, ContainsFacts
    <3>2. CASE flow[c].at = "read"
      BY <2>1, <3>2
    <3>3. QED
      BY <1>1, <2>1, <3>1, <3>2, TakesFacts
  <2>4. ASSUME NEW e \in AllFlows, InFlight(e)', flow'[e].tab = t
        PROVE  Carries(e, p, d)'
    <3>1. e = c
      <4>1. InFlight(e) /\ InFlight(d) /\ flow[e].tab = flow[d].tab
        BY <2>1, <2>4, FrameFacts DEF Moves, Frame
      <4>2. QED
        BY <1>1, <2>1, <4>1 DEF Inv, Solo
    <3>2. flow'[c].at = "reading"
      BY <2>1, <2>4, <3>1 DEF Takes, InFlight, Over
    <3>3. flow'[c].got[p] = NoCopy
      BY <1>1, <1>4, <2>1, <3>2 DEF Moves, LandMoves, Reading
    <3>4. QED
      BY <3>1, <3>2, <3>3 DEF Carries
  <2>5. QED
    BY <2>1, <2>2, <2>3, <2>4
<1>5. CASE flow[d].landed
  <2>1. Live(p) /\ (d \notin crossed' => d \notin crossed)
    BY MovesFacts DEF Inv
  <2>2. /\ d \notin crossed' => Contains(copy[t][p].state, d)
        /\ Refreshing(t, p) \/ Contains(copy[t][p].rows, d)
        /\ \A e \in AllFlows : InFlight(e) /\ flow[e].tab = t => Carries(e, p, d)
    BY <1>5, <2>1 DEF Inv, OwnWorkStays, Shown
  <2>3. InFlight(c)
    BY DEF Moves, Frame
  \* What is taken over has it.
  <2>4. ASSUME t = flow[c].tab, Takes(c, p)
        PROVE  /\ d \notin crossed' => Contains(flow[c].got[p].state, d)
               /\ Refreshing(t, p)' \/ Contains(flow[c].got[p].rows, d)
    <3>1. Carries(c, p, d)
      BY <2>2, <2>3, <2>4
    <3>2. flow[c].got[p].state # << >>
      <4>1. Alone(c)
        BY DEF Inv, FlowsAlone
      <4>2. CASE Works(c) /\ flow[c].at = "answered" /\ p = Project(c)
        BY <4>1, <4>2, ContainsFacts DEF Alone, AnswersItself
      <4>3. CASE flow[c].at = "read" /\ flow[c].got[p] # NoCopy
        BY <1>1, <4>1, <4>3 DEF Alone, ReadsWhatIs, Reading
      <4>4. QED
        BY <2>4, <4>2, <4>3 DEF Takes
    <3>3. d \notin crossed' => Contains(flow[c].got[p].state, d)
      BY <2>1, <3>1, <3>2 DEF Carries
    <3>4. ~(Creates(c, p) /\ flow[c].at = "answered")
      BY <3>1 DEF Carries
    <3>5. CASE flow[c].at = "read" /\ flow[c].got[p] # NoCopy /\ flow[c].todo = {}
      BY <3>1, <3>3, <3>5 DEF Carries, Reading
    <3>6. QED
      BY <1>1, <2>4, <3>3, <3>4, <3>5, TakesFacts
  <2>5. ~(t = flow[c].tab /\ Kind(c) = "reset" /\ flow[c].at = "answered")
    BY <2>2, <2>3 DEF Carries
  <2>6. d \notin crossed' => Contains(copy'[t][p].state, d)
    BY <1>1, <2>2, <2>4, <2>5 DEF Moves, CopyMoves
  <2>7. Refreshing(t, p)' \/ Contains(copy'[t][p].rows, d)
    <3>1. CASE copy'[t][p] = copy[t][p]
      <4>1. CASE Refreshing(t, p)
        <5>1. SUFFICES ASSUME ~Refreshing(t, p)'
                       PROVE  Contains(copy'[t][p].rows, d)
          OBVIOUS
        <5>2. /\ flow[c].at = "read" /\ Works(c) /\ Project(c) = p /\ flow[c].tab = t
              /\ copy'[t][p] = flow[c].got[p]
          BY <1>1, <4>1, <5>1, RefreshingStays
        <5>3. flow[c].got[p] # NoCopy /\ flow[c].todo = {}
          BY <5>2 DEF Inv, FlowsAlone, Alone, ReadsWhatIs
        <5>4. Carries(c, p, d)
          BY <2>2, <2>3, <5>2
        <5>5. QED
          BY <5>2, <5>3, <5>4 DEF Carries, Reading
      <4>2. CASE Contains(copy[t][p].rows, d)
        BY <3>1, <4>2
      <4>3. QED
        BY <2>2, <4>1, <4>2
    <3>2. CASE t = flow[c].tab /\ Takes(c, p) /\ copy'[t][p] = flow[c].got[p]
      BY <2>4, <3>2
    <3>3. QED
      BY <1>1, <2>5, <3>1, <3>2 DEF Moves, CopyMoves
  <2>8. ASSUME NEW e \in AllFlows, InFlight(e)', flow'[e].tab = t
        PROVE  Carries(e, p, d)'
    <3>1. /\ InFlight(e) /\ flow[e].tab = t /\ Carries(e, p, d)
          /\ Kind(e)' = Kind(e) /\ (Creates(e, p)' <=> Creates(e, p))
      BY <2>2, <2>8, FrameFacts DEF Moves
    <3>2. CASE e # c
      BY <2>1, <3>1, <3>2 DEF Moves, Frame, Carries, Reading
    <3>3. CASE e = c
      <4>1. d \notin crossed' =>
              flow'[c].got[p].state = << >> \/ Contains(flow'[c].got[p].state, d)
        BY <1>1, <1>2, <2>1, <3>1, <3>3 DEF Moves, GotMoves, Carries
      <4>2. ~(Kind(c)' = "reset" /\ flow'[c].at = "answered")
        <5>1. saved'[p] # << >>
          BY <1>1, <1>2, ContainsFacts DEF NothingOfAbsent, Untouched
        <5>2. QED
          BY <1>1, <3>1, <3>3, <5>1 DEF Moves, AnswerMoves
      <4>a. ~(Creates(c, p)' /\ flow'[c].at = "answered")
        <5>1. Made(p)
          BY <1>1, <1>5, MadeFacts DEF HasSaved
        <5>2. ~(Creates(c, p) /\ flow[c].at = "sent")
          BY <1>1, <5>1, MadeFacts
        <5>3. QED
          BY <3>1, <3>3, <5>2 DEF Moves, AnswerMoves, Creates
      <4>3. ASSUME Reading(c)'
            PROVE  \/ flow'[c].got[p] = NoCopy \/ p \in flow'[c].todo
                   \/ Contains(flow'[c].got[p].rows, d)
        <5>1. HoldsRows(c, p)'
          BY <4>3 DEF HoldsRows
        <5>2. QED
          BY <1>1, <1>2, <3>1, <3>3, <5>1 DEF Moves, GotMoves, Carries
      <4>4. QED
        BY <3>3, <4>1, <4>2, <4>a, <4>3 DEF Carries
    <3>4. QED
      BY <3>2, <3>3
  <2>9. QED
    BY <2>6, <2>7, <2>8
<1>6. QED
  BY <1>4, <1>5

\* A project that a reset of this tab has deleted does not come back to it.
LEMMA StepKeepsReset ==
  ASSUME Inv, TypeOK', NEW c \in AllFlows, Moves(c), WipedIsGone'
  PROVE  ResetStays'
<1> USE NoCopyFacts
<1> SUFFICES ASSUME NEW d \in AllFlows, Begun(d), Kind(d) = "reset", flow'[d].landed,
                    ~flow[d].mixed, d \notin crossed', NEW p \in flow'[d].wiped,
                    NEW t, t = flow[d].tab
             PROVE  /\ copy'[t][p].state = << >> /\ p \notin listed'[t]
                    /\ \A e \in AllFlows : InFlight(e)' /\ flow'[e].tab = t => Spares(e, p)'
  BY FrameFacts DEF ResetStays, Cleared, Moves
<1>1. t \in Tabs /\ ~Works(d) /\ p \in Projects
  BY FlowFacts DEF Inv, TypeOK, Flow
<1>2. saved'[p] = << >>
  BY DEF WipedIsGone
<1>3. p \in flow[d].wiped
  BY DEF Moves, WipedMoves, Frame
\* It has just been cleared, and there is nothing else in the tab.
<1>4. CASE ~flow[d].landed
  <2>1. /\ c = d /\ flow[c].at = "answered" /\ flow'[c].at = "listing"
        /\ copy'[t][p] = NoCopy /\ listed'[t] = {}
    BY <1>1, <1>4 DEF Moves, Frame, LandMoves
  <2>2. ASSUME NEW e \in AllFlows, InFlight(e)', flow'[e].tab = t
        PROVE  Spares(e, p)'
    <3>1. e = c
      <4>1. InFlight(e) /\ InFlight(d) /\ flow[e].tab = flow[d].tab
        BY <2>1, <2>2, FrameFacts DEF Moves, Frame
      <4>2. QED
        BY <1>1, <2>1, <4>1 DEF Inv, Solo
    <3>2. QED
      BY <1>1, <2>1, <3>1, FrameFacts DEF Spares, Reading, Moves
  <2>3. QED
    BY <2>1, <2>2
<1>5. CASE flow[d].landed
  <2>1. /\ copy[t][p].state = << >> /\ p \notin listed[t]
        /\ \A e \in AllFlows : InFlight(e) /\ flow[e].tab = t => Spares(e, p)
    BY <1>3, <1>5, MovesFacts DEF Inv, ResetStays, Cleared
  <2>2. InFlight(c)
    BY DEF Moves, Frame
  <2>3. ~(t = flow[c].tab /\ Takes(c, p))
    BY <2>1, <2>2 DEF Takes, Spares, Reading
  <2>4. copy'[t][p].state = << >>
    BY <1>1, <2>1, <2>3 DEF Moves, CopyMoves
  <2>5. p \notin listed'[t]
    BY <1>1, <2>1, <2>2 DEF Moves, ListedMoves, Spares
  <2>6. ASSUME NEW e \in AllFlows, InFlight(e)', flow'[e].tab = t
        PROVE  Spares(e, p)'
    <3>1. InFlight(e) /\ flow[e].tab = t /\ Spares(e, p)
      BY <2>1, <2>6, FrameFacts DEF Moves
    <3>2. CASE e # c
      BY <3>1, <3>2, FrameFacts DEF Moves, Frame, Spares, Reading
    <3>3. CASE e = c
      <4>1. Works(c)' => Project(c)' # p
        BY <3>1, <3>3, FrameFacts DEF Moves, Spares
      <4>2. Reading(c)' => flow'[c].got[p] = NoCopy
        <5>1. CASE Reading(c)
          BY <1>1, <1>2, <3>1, <3>3, <5>1 DEF Moves, GotMoves, Spares
        <5>2. CASE ~Reading(c)
          BY <1>1, <5>2 DEF Moves, GotMoves
        <5>3. QED
          BY <5>1, <5>2
      <4>3. flow'[c].at \in {"listed", "reading", "read"} /\ ~Works(c)' => p \notin flow'[c].list
        BY <1>2, <3>1, <3>3, FrameFacts DEF Moves, ListMoves, Spares
      <4>4. QED
        BY <3>3, <4>1, <4>2, <4>3 DEF Spares
    <3>4. QED
      BY <3>2, <3>3
  <2>7. QED
    BY <2>4, <2>5, <2>6
<1>6. QED
  BY <1>4, <1>5

LEMMA StepKeepsInv ==
  ASSUME Inv, NEW c \in AllFlows, FlowStep(c)
  PROVE  Inv'
<1>1. TypeOK' /\ Alone(c)' /\ Moves(c)
  BY StepMoves DEF Inv
<1>2. FlowsAlone'
  <2>1. ASSUME NEW d \in AllFlows, d # c  PROVE Alone(d)'
    <3>1. flow'[d] = flow[d] /\ Alone(d)
      BY <1>1, <2>1 DEF Inv, FlowsAlone, Moves, Frame
    <3>2. OnCourse(d)'
      BY <3>1 DEF Alone, OnCourse, Begun, Kind
    <3>3. LandsInTime(d)' /\ AnswersItself(d)'
      BY <3>1 DEF Alone, LandsInTime, AnswersItself, Works, Kind, Project
    <3>4. ReadsWhatIs(d)'
      BY <3>1 DEF Alone, ReadsWhatIs, Reading, Works, Kind, Project
    <3>5. QED
      BY <3>2, <3>3, <3>4 DEF Alone
  <2>2. QED
    BY <1>1, <2>1 DEF FlowsAlone
<1>3. Solo' /\ CreatedOnce' /\ LoadedTogether' /\ LoadedIsCurrent'
  BY <1>1, StepKeepsSolo, StepKeepsLoaded
<1>4. NothingOfUnmade' /\ NothingOfAbsent' /\ WipedIsGone'
  BY <1>1, StepKeepsUnmade, StepKeepsWiped
<1>5. SeenIsPrefix' /\ RowsAreStored' /\ WorkIsStored' /\ RowsArePrefix'
  BY <1>1, StepKeepsSeen, StepKeepsLogged, StepKeepsStored, StepKeepsRows
<1>6. OwnWorkStays'
  BY <1>1, <1>4, <1>5, StepKeepsOwn
<1>7. ResetStays'
  BY <1>1, <1>4, StepKeepsReset
<1>8. QED
  BY <1>1, <1>2, <1>3, <1>4, <1>5, <1>6, <1>7 DEF Inv

-----------------------------------------------------------------------------
(* The invariant is kept by the start of a flow *)

\* The flow that starts has done nothing yet; the others may have company now.
LEMMA StartFacts ==
  ASSUME NEW c, NEW t, NEW ask, Starts(c, t, ask)
  PROVE  /\ Begun(c)' /\ ~Begun(c) /\ Kind(c)' = ask.kind /\ Project(c)' = ask.project
         /\ InFlight(c)' /\ ~Reading(c)' /\ flow'[c].tab = t /\ flow'[c].at = "sent"
         /\ \A d \in AllFlows : d # c =>
              /\ Begun(d)' <=> Begun(d)
              /\ Kind(d)' = Kind(d) /\ Project(d)' = Project(d)
              /\ Works(d)' <=> Works(d)
              /\ Reading(d)' <=> Reading(d)
              /\ HasSaved(d)' <=> HasSaved(d)
              /\ HasRows(d)' <=> HasRows(d)
              /\ \A p : Creates(d, p)' <=> Creates(d, p)
              /\ InFlight(d)' <=> InFlight(d)
              /\ ~flow'[d].mixed => ~flow[d].mixed
<1>1. /\ Begun(c)' /\ ~Begun(c) /\ Kind(c)' = ask.kind /\ Project(c)' = ask.project
      /\ InFlight(c)' /\ ~Reading(c)' /\ flow'[c].tab = t /\ flow'[c].at = "sent"
  BY DEF Starts, Begun, Kind, Project, InFlight, Over, Reading
<1>2. ASSUME NEW d \in AllFlows, d # c
      PROVE  /\ flow'[d].at = flow[d].at /\ flow'[d].ask = flow[d].ask
             /\ flow'[d].landed = flow[d].landed
             /\ ~flow'[d].mixed => ~flow[d].mixed
  BY <1>2 DEF Starts
<1>3. QED
  BY <1>1, <1>2
  DEF Begun, Kind, Project, Works, Reading, HasSaved, HasRows, Creates, InFlight,
      Over

\* At the server nothing happens.
LEMMA StartKeepsServer ==
  ASSUME Inv, NEW c, NEW t, NEW ask, Starts(c, t, ask)
  PROVE  /\ saved' = saved /\ rows' = rows /\ copy' = copy /\ crossed' = crossed
         /\ \A p : Live(p)' <=> Live(p)
         /\ \A p : ~Muddled(p)' => ~Muddled(p)
<1>1. saved' = saved /\ rows' = rows /\ copy' = copy /\ crossed' = crossed
  BY DEF Starts
<1>2. \A d \in AllFlows : flow'[d].wiped = flow[d].wiped
  <2>1. flow[c].wiped = {} /\ flow'[c].wiped = {}
    BY DEF Starts, Inv, FlowsAlone, Alone, LandsInTime, Begun
  <2>2. QED
    BY <2>1 DEF Starts
<1>3. \A p : Live(p)' <=> Live(p)
  BY <1>2 DEF Live, Deleted
<1>4. \A p : Muddled(p) => Muddled(p)'
  <2>1. \A d \in crossed : d \in AllFlows
    BY DEF Inv, TypeOK
  <2>2. \A d \in AllFlows : Works(d) => d # c
    BY DEF Starts, Works, Begun
  <2>3. QED
    BY <1>1, <2>1, <2>2, StartFacts DEF Muddled
<1>5. QED
  BY <1>1, <1>3, <1>4

LEMMA StartKeepsSolo ==
  ASSUME Inv, NEW c, NEW t, NEW ask, Starts(c, t, ask)
  PROVE  Solo' /\ CreatedOnce'
<1>1. Solo'
  <2> SUFFICES ASSUME NEW d \in AllFlows, NEW e \in AllFlows, d # e, InFlight(d)',
                      InFlight(e)', flow'[d].tab = flow'[e].tab,
                      Kind(d)' # "list"
               PROVE  flow'[d].mixed
    BY DEF Solo
  <2>1. CASE d = c
    <3>1. InFlight(e) /\ flow[e].tab = t
      BY <2>1, StartFacts DEF Starts
    <3>2. QED
      BY <2>1, <3>1 DEF Starts
  <2>2. CASE e = c
    <3>1. InFlight(d) /\ flow[d].tab = t
      BY <2>2, StartFacts DEF Starts
    <3>2. QED
      BY <2>2, <3>1 DEF Starts
  <2>3. CASE d # c /\ e # c
    BY <2>3, StartFacts DEF Starts, Inv, Solo
  <2>4. QED
    BY <2>1, <2>2, <2>3
<1>2. CreatedOnce'
  <2>1. \A p : Creates(c, p)' => \A d \in AllFlows : ~Creates(d, p)
    BY StartFacts DEF Starts, Creates
  <2>2. QED
    BY <2>1, StartFacts DEF Inv, CreatedOnce
<1>3. QED
  BY <1>1, <1>2

LEMMA StartKeepsLoaded ==
  ASSUME Inv, NEW c, NEW t, NEW ask, Starts(c, t, ask)
  PROVE  LoadedTogether' /\ LoadedIsCurrent'
<1>1. \A d \in AllFlows : flow'[d].at = "loaded" =>
        /\ d # c /\ flow[d].at = "loaded" /\ Project(d)' = Project(d)
        /\ flow'[d].got = flow[d].got
  BY StartFacts DEF Starts
<1>2. LoadedTogether'
  BY <1>1, StartKeepsServer DEF Inv, LoadedTogether
<1>3. LoadedIsCurrent'
  BY <1>1, StartKeepsServer DEF Inv, LoadedIsCurrent
<1>4. QED
  BY <1>2, <1>3

\* A project is made by the server, not by the click.
LEMMA StartMakesNothing ==
  ASSUME NEW c, NEW t, NEW ask, Starts(c, t, ask), NEW p
  PROVE  Made(p)' <=> Made(p)
<1>1. \A d \in AllFlows :
        Creates(d, p)' /\ flow'[d].at # "sent" <=> Creates(d, p) /\ flow[d].at # "sent"
  BY StartFacts DEF Starts, Creates
<1>2. QED
  BY <1>1 DEF Made

LEMMA StartKeepsUnmade ==
  ASSUME Inv, NEW c, NEW t, NEW ask, Starts(c, t, ask)
  PROVE  NothingOfUnmade' /\ NothingOfAbsent' /\ WipedIsGone'
<1> USE NoCopyFacts
<1>1. WipedIsGone'
  BY StartFacts DEF Inv, WipedIsGone, Starts
<1>a. NothingOfUnmade'
  BY StartMakesNothing, StartKeepsServer DEF Inv, NothingOfUnmade
<1>2. ASSUME NEW p \in Projects, saved'[p] = << >>, Live(p)'
      PROVE  Untouched(p)'
  <2>1. Untouched(p)
    BY <1>2, StartKeepsServer DEF Inv, NothingOfAbsent
  <2>2. ASSUME NEW d \in AllFlows, Begun(d)'
        PROVE  /\ flow'[d].got[p] = NoCopy
               /\ Works(d)' /\ Project(d)' = p => Kind(d)' = "create"
    <3>1. CASE d = c
      <4>1. copy[t][p] = NoCopy
        BY <2>1 DEF Untouched, Starts
      <4>2. Works(c)' => ask.kind \in {"operate", "download", "create"}
        BY StartFacts DEF Works
      <4>3. QED
        BY <3>1, <4>1, <4>2, StartFacts DEF Starts
    <3>2. CASE d # c
      BY <2>1, <2>2, <3>2, StartFacts DEF Starts, Untouched
    <3>3. QED
      BY <3>1, <3>2
  <2>3. QED
    BY <2>1, <2>2 DEF Untouched, Starts
<1>3. QED
  BY <1>1, <1>a, <1>2 DEF NothingOfAbsent

LEMMA StartKeepsStored ==
  ASSUME Inv, NEW c, NEW t, NEW ask, Starts(c, t, ask)
  PROVE  SeenIsPrefix' /\ RowsAreStored' /\ WorkIsStored' /\ RowsArePrefix'
<1> USE NoCopyFacts
<1>1. SeenIsPrefix'
  <2> SUFFICES ASSUME NEW p \in Projects, Live(p)', ~Muddled(p)'
               PROVE  /\ \A u \in Tabs : IsPrefix(copy'[u][p].state, saved'[p])
                      /\ \A d \in AllFlows : Begun(d)' =>
                           /\ IsPrefix(flow'[d].got[p].state, saved'[p])
                           /\ Works(d)' /\ Project(d)' = p => IsPrefix(flow'[d].file, saved'[p])
    BY DEF SeenIsPrefix
  <2>1. saved' = saved /\ copy' = copy /\ t \in Tabs /\ Live(p) /\ ~Muddled(p)
    BY StartKeepsServer DEF Starts
  <2>2. IsPrefix(<< >>, saved[p])
    BY PrefixFacts DEF Inv, TypeOK, Names
  <2>3. \A u \in Tabs : IsPrefix(copy[u][p].state, saved[p])
    BY <2>1 DEF Inv, SeenIsPrefix
  <2>4. IsPrefix(flow'[c].got[p].state, saved[p]) /\ flow'[c].file = << >>
    BY <2>1, <2>2, <2>3 DEF Starts
  <2>5. \A d \in AllFlows : d # c /\ Begun(d) =>
          /\ IsPrefix(flow'[d].got[p].state, saved[p])
          /\ Works(d) /\ Project(d) = p => IsPrefix(flow'[d].file, saved[p])
    BY <2>1 DEF Inv, SeenIsPrefix, Starts
  <2>6. QED
    BY <2>1, <2>2, <2>3, <2>4, <2>5, StartFacts
<1>2. RowsAreStored' /\ WorkIsStored'
  <2>1. ~HasSaved(c)' /\ ~HasRows(c)' /\ flow'[c].at # "loaded"
    BY DEF Starts, HasSaved, HasRows
  <2>2. RowsAreStored'
    <3> SUFFICES ASSUME NEW d \in AllFlows, Works(d)', Live(Project(d))', HasRows(d)'
                 PROVE  Contains(rows[Project(d)], d)'
      BY DEF RowsAreStored
    <3>1. Works(d) /\ HasRows(d) /\ Project(d)' = Project(d)
      BY <2>1, StartFacts
    <3>2. Live(Project(d))
      BY <3>1, StartKeepsServer
    <3>3. QED
      BY <3>1, <3>2, StartKeepsServer DEF Inv, RowsAreStored
  <2>3. WorkIsStored'
    <3> SUFFICES ASSUME NEW d \in AllFlows, Works(d)', Live(Project(d))', HasSaved(d)',
                        d \notin crossed'
                 PROVE  Kept(d)'
      BY DEF WorkIsStored
    <3>1. Works(d) /\ HasSaved(d) /\ Project(d)' = Project(d)
      BY <2>1, StartFacts
    <3>2. Kept(d)
      BY <3>1, StartKeepsServer DEF Inv, WorkIsStored
    <3>3. \A e \in AllFlows : flow'[e].at = "loaded" =>
            /\ flow[e].at = "loaded" /\ Project(e)' = Project(e)
            /\ flow'[e].got = flow[e].got
      BY <2>1, StartFacts DEF Starts
    <3>4. QED
      BY <3>1, <3>2, <3>3, StartKeepsServer DEF Kept
  <2>4. QED
    BY <2>2, <2>3
<1>3. RowsArePrefix'
  <2>1. \A u \in Tabs, p \in Projects : Refreshing(u, p) => Refreshing(u, p)'
    <3>1. \A u, p : \A d \in AllFlows : Refreshes(d, u, p) => Refreshes(d, u, p)'
      BY StartFacts DEF Refreshes, Starts, Works, Begun
    <3>2. QED
      BY <3>1 DEF Refreshing
  <2>2. \A d \in AllFlows, p \in Projects : HoldsRows(d, p)' => d # c /\ HoldsRows(d, p)
    BY StartFacts DEF HoldsRows, Starts
  <2>3. QED
    BY <2>1, <2>2, StartKeepsServer DEF Inv, RowsArePrefix, Starts
<1>4. QED
  BY <1>1, <1>2, <1>3

\* What a new flow takes from the screen has the work that is on the screen.
LEMMA StartKeepsOwn ==
  ASSUME Inv, NEW c, NEW t, NEW ask, Starts(c, t, ask)
  PROVE  OwnWorkStays'
<1> USE NoCopyFacts
<1> SUFFICES ASSUME NEW d \in AllFlows, Works(d)', flow'[d].landed, ~flow'[d].mixed,
                    NEW p, p = Project(d)', NEW u, u = flow'[d].tab, Live(p)'
             PROVE  /\ d \notin crossed' => Contains(copy'[u][p].state, d)
                    /\ Refreshing(u, p)' \/ Contains(copy'[u][p].rows, d)
                    /\ \A e \in AllFlows : InFlight(e)' /\ flow'[e].tab = u => Carries(e, p, d)'
  BY DEF OwnWorkStays, Shown, Live, Deleted
<1>1. /\ d # c /\ Works(d) /\ flow[d].landed /\ ~flow[d].mixed
      /\ p = Project(d) /\ u = flow[d].tab /\ Live(p)
  BY StartFacts, StartKeepsServer DEF Starts
<1>2. /\ d \notin crossed => Contains(copy[u][p].state, d)
      /\ Refreshing(u, p) \/ Contains(copy[u][p].rows, d)
      /\ \A e \in AllFlows : InFlight(e) /\ flow[e].tab = u => Carries(e, p, d)
  BY <1>1 DEF Inv, OwnWorkStays, Shown
<1>3. p \in Projects
  BY <1>1, FlowFacts DEF Inv, Works, Begun
<1>4. Refreshing(u, p) => Refreshing(u, p)'
  <2>1. \A e \in AllFlows : Refreshes(e, u, p) => Refreshes(e, u, p)'
    BY StartFacts DEF Refreshes, Starts, Works, Begun
  <2>2. QED
    BY <2>1 DEF Refreshing
<1>5. ASSUME NEW e \in AllFlows, InFlight(e)', flow'[e].tab = u
      PROVE  Carries(e, p, d)'
  <2>1. CASE e = c
    <3>1. \/ flow'[e].got[p] = NoCopy
          \/ flow'[e].got[p] = copy[u][p]
      BY <1>3, <1>5, <2>1, StartFacts DEF Starts
    <3>2. flow'[e].at = "sent" /\ ~Reading(e)'
      BY <2>1, StartFacts
    <3>3. QED
      BY <1>2, <3>1, <3>2, StartKeepsServer DEF Carries
  <2>2. CASE e # c
    <3>1. /\ flow'[e].got = flow[e].got /\ flow'[e].at = flow[e].at
          /\ flow'[e].todo = flow[e].todo /\ flow'[e].tab = flow[e].tab
          /\ Kind(e)' = Kind(e) /\ (Reading(e)' <=> Reading(e))
          /\ (Creates(e, p)' <=> Creates(e, p)) /\ crossed' = crossed
      BY <2>2, StartFacts, StartKeepsServer DEF Starts
    <3>2. InFlight(e)
      BY <1>5, <3>1 DEF InFlight, Over
    <3>3. Carries(e, p, d)
      BY <1>2, <1>5, <3>1, <3>2
    <3>4. QED
      BY <3>1, <3>3 DEF Carries
  <2>3. QED
    BY <2>1, <2>2
<1>6. QED
  BY <1>2, <1>4, <1>5 DEF Starts

\* A tab that was cleared offers no work on what was deleted, and no new project
\* has its id.
LEMMA StartKeepsReset ==
  ASSUME Inv, NEW c, NEW t, NEW ask, Starts(c, t, ask)
  PROVE  ResetStays'
<1> USE NoCopyFacts
<1> SUFFICES ASSUME NEW d \in AllFlows, Begun(d)', Kind(d)' = "reset", flow'[d].landed,
                    ~flow'[d].mixed, d \notin crossed', NEW p \in flow'[d].wiped,
                    NEW u, u = flow'[d].tab
             PROVE  /\ copy'[u][p].state = << >> /\ p \notin listed'[u]
                    /\ \A e \in AllFlows : InFlight(e)' /\ flow'[e].tab = u => Spares(e, p)'
  BY DEF ResetStays, Cleared
<1>1. /\ d # c /\ Begun(d) /\ Kind(d) = "reset" /\ flow[d].landed /\ ~flow[d].mixed
      /\ p \in flow[d].wiped /\ u = flow[d].tab /\ d \notin crossed
  BY StartFacts DEF Starts
<1>2. /\ copy[u][p].state = << >> /\ p \notin listed[u]
      /\ \A e \in AllFlows : InFlight(e) /\ flow[e].tab = u => Spares(e, p)
  BY <1>1 DEF Inv, ResetStays, Cleared
<1>3. p \in Projects /\ Made(p)
  <2>1. p \in Projects
    BY <1>1 DEF Inv, TypeOK, Flow
  <2>2. QED
    BY <1>1, <2>1, MadeFacts
<1>4. ASSUME NEW e \in AllFlows, InFlight(e)', flow'[e].tab = u
      PROVE  Spares(e, p)'
  <2>1. CASE e = c
    <3>1. u = t
      BY <1>4, <2>1 DEF Starts
    <3>2. Works(c)' => ask.kind \in {"operate", "download", "create"}
      BY StartFacts DEF Works
    <3>3. ask.kind = "create" => ask.project # p
      BY <1>3, OrderFacts DEF Starts, Made
    <3>4. ask.kind \in {"operate", "download"} => ask.project # p
      BY <1>2, <3>1 DEF Starts
    <3>5. QED
      BY <2>1, <3>2, <3>3, <3>4, StartFacts DEF Spares
  <2>2. CASE e # c
    BY <1>2, <1>4, <2>2, StartFacts DEF Starts, Spares
  <2>3. QED
    BY <2>1, <2>2
<1>5. QED
  BY <1>2, <1>4 DEF Starts

-----------------------------------------------------------------------------
(* The invariant holds *)

LEMMA InitKeepsInv == Init => Inv
<1> SUFFICES ASSUME Init  PROVE Inv
  OBVIOUS
<1> USE NoCopyFacts
<1>1. /\ saved = [p \in Projects |-> IF p \in Founded THEN <<Founder>> ELSE << >>]
      /\ rows = saved /\ cookie \in Actors
      /\ crossed = {}
      /\ listed = [t \in Tabs |-> IF t \in Opening THEN {}
                                  ELSE {p \in Founded : cookie \in Members[p]}]
      /\ copy = [t \in Tabs |->
                   [p \in Projects |->
                      IF p \in listed[t] THEN [state |-> saved[p], rows |-> rows[p]]
                      ELSE NoCopy]]
  BY DEF Init
<1>2. ASSUME NEW c \in AllFlows
      PROVE  \/ flow[c] = Fresh(None, None, "new", None)
             \/ \E t \in Tabs : flow[c] = Fresh(t, [kind |-> "list"], "listing", cookie)
  <2>1. c \in Flows => flow[c] = Fresh(None, None, "new", None)
    BY DEF Init, AllFlows
  <2>2. ASSUME NEW t \in Opening, c = <<t, "hydration">>, c \notin Flows
        PROVE  flow[c] = Fresh(t, [kind |-> "list"], "listing", cookie)
    BY <2>2 DEF Init
  <2>3. QED
    BY <2>1, <2>2, BrowserAssumption DEF AllFlows, Hydration
<1>3. ASSUME NEW c \in AllFlows
      PROVE  /\ flow[c] \in Flow /\ ~flow[c].landed /\ flow[c].wiped = {}
             /\ flow[c].file = << >> /\ flow[c].got = Nothing /\ ~flow[c].mixed
             /\ Begun(c) \/ flow[c].tab = None
             /\ Begun(c) => /\ flow[c].tab \in Tabs /\ flow[c].ask \in Orders
                            /\ Kind(c) = "list" /\ flow[c].at = "listing"
  <2>1. << >> \in Seq(Names)
    OBVIOUS
  <2>2. CASE flow[c] = Fresh(None, None, "new", None)
    BY <2>1, <2>2 DEF Fresh, Flow, Stages, Begun
  <2>3. ASSUME NEW t \in Tabs, flow[c] = Fresh(t, [kind |-> "list"], "listing", cookie)
        PROVE  /\ flow[c] \in Flow /\ ~flow[c].landed /\ flow[c].wiped = {}
               /\ flow[c].file = << >> /\ flow[c].got = Nothing /\ ~flow[c].mixed
               /\ Begun(c) /\ flow[c].tab = t /\ flow[c].ask \in Orders
               /\ Kind(c) = "list" /\ flow[c].at = "listing"
    <3>1. PICK ask \in Orders : flow[c] = Fresh(t, ask, "listing", cookie) /\ ask.kind = "list"
      BY <2>3 DEF Orders
    <3>2. QED
      BY <1>1, <2>1, <3>1 DEF Fresh, Flow, Stages, Kind, Begun
  <2>4. QED
    BY <1>2, <2>2, <2>3
<1>4. /\ saved \in [Projects -> Seq(Names)]
      /\ \A p \in Projects : p \notin Founded => saved[p] = << >>
      /\ \A p \in Projects : IsPrefix(<< >>, saved[p]) /\ IsPrefix(saved[p], saved[p])
  <2>1. Founder \in Names /\ << >> \in Seq(Names) /\ <<Founder>> \in Seq(Names)
    BY DEF Names
  <2>2. saved \in [Projects -> Seq(Names)]
        /\ \A p \in Projects : p \notin Founded => saved[p] = << >>
    BY <1>1, <2>1
  <2>3. QED
    BY <2>1, <2>2, PrefixFacts
<1>5. /\ listed \in [Tabs -> SUBSET Projects]
      /\ \A t \in Tabs : listed[t] \subseteq Founded
  BY <1>1, BrowserAssumption
<1>6. /\ copy \in [Tabs -> [Projects -> Copy]]
      /\ \A t \in Tabs, p \in Projects :
           \/ p \in Founded /\ copy[t][p].state = saved[p] /\ copy[t][p].rows = rows[p]
           \/ copy[t][p] = NoCopy
  <2>1. \A p \in Projects : [state |-> saved[p], rows |-> rows[p]] \in Copy
    BY <1>1, <1>4 DEF Copy
  <2>2. QED
    BY <1>1, <1>5, <2>1
<1>7. TypeOK
  <2>1. flow \in [AllFlows -> Flow]
    BY <1>3 DEF Init
  <2>2. QED
    BY <1>1, <1>4, <1>5, <1>6, <2>1 DEF TypeOK
<1>8. \A c \in AllFlows : ~Works(c) /\ ~Reading(c) /\ flow[c].at # "answered"
                           /\ flow[c].at # "loaded" /\ \A p : ~Creates(c, p)
  BY <1>3 DEF Works, Reading, Creates, Begun
<1>9. FlowsAlone
  <2> SUFFICES ASSUME NEW c \in AllFlows
               PROVE  Alone(c)
    BY DEF FlowsAlone
  <2>1. OnCourse(c)
    BY <1>3 DEF OnCourse, InCourse
  <2>2. LandsInTime(c) /\ AnswersItself(c)
    BY <1>3, <1>8 DEF LandsInTime, AnswersItself
  <2>3. ReadsWhatIs(c)
    BY <1>8 DEF ReadsWhatIs, Reading
  <2>4. QED
    BY <2>1, <2>2, <2>3 DEF Alone
<1>10. Solo /\ CreatedOnce /\ LoadedTogether /\ LoadedIsCurrent
  BY <1>3, <1>8 DEF Solo, CreatedOnce, LoadedTogether, LoadedIsCurrent, InFlight, Begun
<1>a. \A p \in Projects : p \notin Founded => saved[p] = << >> /\ Untouched(p)
  BY <1>1, <1>3, <1>4, <1>6, <1>8 DEF Untouched
<1>b. \A p \in Projects : p \in Founded => saved[p] # << >>
  BY <1>1
<1>11. NothingOfUnmade /\ NothingOfAbsent /\ WipedIsGone
  BY <1>3, <1>a, <1>b
  DEF NothingOfUnmade, NothingOfAbsent, WipedIsGone, Made, Live, Deleted
<1>12. SeenIsPrefix
  BY <1>3, <1>4, <1>6, <1>8 DEF SeenIsPrefix
<1>13. RowsAreStored /\ WorkIsStored /\ RowsArePrefix
  BY <1>1, <1>4, <1>6, <1>8 DEF RowsAreStored, WorkIsStored, RowsArePrefix, HoldsRows
<1>14. OwnWorkStays /\ ResetStays
  BY <1>3, <1>8 DEF OwnWorkStays, ResetStays
<1>15. QED
  BY <1>7, <1>9, <1>10, <1>11, <1>12, <1>13, <1>14 DEF Inv

LEMMA StutterKeepsInv ==
  ASSUME Inv, UNCHANGED vars
  PROVE  Inv'
<1>1. TypeOK' /\ FlowsAlone'
  BY DEF vars, Inv, TypeOK, FlowsAlone, Alone, OnCourse, LandsInTime, AnswersItself,
       ReadsWhatIs, Begun, Reading, Kind, Project, Works
<1>2. /\ Solo' /\ CreatedOnce' /\ LoadedTogether' /\ LoadedIsCurrent'
      /\ NothingOfUnmade' /\ NothingOfAbsent' /\ WipedIsGone'
  BY DEF vars, Inv, Solo, CreatedOnce, LoadedTogether, LoadedIsCurrent, NothingOfUnmade,
       NothingOfAbsent, WipedIsGone, InFlight, Over, Kind, Creates, Begun, Project, Made,
       Untouched, Works, Live, Deleted
<1>3. SeenIsPrefix' /\ RowsAreStored' /\ WorkIsStored' /\ RowsArePrefix'
  BY DEF vars, Inv, SeenIsPrefix, RowsAreStored, WorkIsStored, Kept, RowsArePrefix, Begun,
       Works, Project, Kind, HasSaved, HasRows, Refreshing, Refreshes, HoldsRows, Reading,
       Creates, Live, Deleted, Muddled
<1>4. OwnWorkStays'
  <2>1. \A d, c \in AllFlows, p \in Projects : Carries(d, p, c)' = Carries(d, p, c)
    BY DEF vars, Carries, Kind, Project, Begun, Creates, Reading
  <2>2. \A t, p : Refreshing(t, p)' = Refreshing(t, p)
    BY DEF vars, Refreshing, Refreshes, Works, Project, Kind
  <2>3. \A d \in AllFlows :
          /\ Works(d)' = Works(d) /\ Project(d)' = Project(d) /\ InFlight(d)' = InFlight(d)
          /\ flow'[d] = flow[d]
    BY DEF vars, Works, Project, Kind, InFlight, Over
  <2>4. /\ copy' = copy /\ crossed' = crossed
        /\ \A p : Live(p)' <=> Live(p)
    BY DEF vars, Live, Deleted
  <2>5. ASSUME NEW c \in AllFlows, Works(c), Shown(c), FlowsAlone  PROVE Shown(c)'
    <3>1. Project(c) \in Projects
      BY <2>5, FlowFacts DEF Works, Begun
    <3>2. QED
      BY <2>1, <2>2, <2>3, <2>4, <2>5, <3>1 DEF Shown
  <2>6. QED
    BY <2>3, <2>5 DEF Inv, OwnWorkStays
<1>a. ResetStays'
  BY DEF vars, Inv, ResetStays, Cleared, Spares, Works, Project, Kind, Begun, Reading,
       InFlight, Over
<1>5. QED
  BY <1>1, <1>2, <1>3, <1>4, <1>a DEF Inv

\* Every state that a browser with its server can be in satisfies Inv.
THEOREM InvHolds == Spec => []Inv
<1>1. ASSUME Inv, NEW c \in Flows, Begin(c)  PROVE Inv'
  <2>1. TypeOK' /\ FlowsAlone' /\ \E t \in Tabs, ask \in Orders : Starts(c, t, ask)
    BY <1>1, BeginStarts DEF Inv
  <2>2. PICK t \in Tabs, ask \in Orders : Starts(c, t, ask)
    BY <2>1
  <2>3. QED
    BY <1>1, <2>1, <2>2, StartKeepsSolo, StartKeepsLoaded, StartKeepsUnmade,
       StartKeepsStored, StartKeepsOwn, StartKeepsReset
    DEF Inv
<1>2. Inv /\ [Next]_vars => Inv'
  BY <1>1, StepKeepsInv, StutterKeepsInv DEF Next
<1>3. QED
  BY <1>2, InitKeepsInv, PTL DEF Spec

-----------------------------------------------------------------------------
(* What it says *)

\* Work that a tab did with nothing else under way in it, and that no other operation
\* crossed between read and save, is in the tab's copy from the moment its answer is
\* taken over (applyProjectOp), whether the read that follows succeeds or fails; and
\* no flow of the tab begun later takes it away, as long as nobody resets the store.
THEOREM OwnWorkStaysShown == Spec => []OwnWorkIsShown
<1>1. Inv => OwnWorkIsShown
  BY FlowFacts DEF Inv, OwnWorkStays, Shown, OwnWorkIsShown, Live
<1>2. QED
  BY <1>1, InvHolds, PTL

\* When all the flows of a tab have ended well, the log it shows of a project is the
\* server's from the first row on, and has the rows of all that the tab did by itself:
\* refreshProject repairs what applyProjectOp left.
THEOREM LogsAreWhole == Spec => []LogIsWholeAtRest
<1>1. Inv => LogIsWholeAtRest
  <2> SUFFICES ASSUME Inv, NEW t \in Tabs, NEW p \in Projects,
                      \A c \in OfTab(t) : flow[c].at = "done", Live(p)
               PROVE  /\ IsPrefix(copy[t][p].rows, rows[p])
                      /\ \A c \in OfTab(t) : Works(c) /\ Project(c) = p /\ ~flow[c].mixed
                                              => Contains(copy[t][p].rows, c)
    BY DEF LogIsWholeAtRest, Live
  <2>1. ~Refreshing(t, p)
    BY DEF Refreshing, Refreshes, OfTab
  <2>2. IsPrefix(copy[t][p].rows, rows[p])
    BY <2>1 DEF Inv, RowsArePrefix
  <2>3. ASSUME NEW c \in OfTab(t), Works(c), Project(c) = p, ~flow[c].mixed
        PROVE  Contains(copy[t][p].rows, c)
    <3>1. c \in AllFlows /\ flow[c].tab = t /\ flow[c].at = "done"
      BY DEF OfTab
    <3>2. flow[c].landed
      BY <2>3, <3>1 DEF Inv, FlowsAlone, Alone, LandsInTime
    <3>3. QED
      BY <2>1, <2>3, <3>1, <3>2 DEF Inv, OwnWorkStays, Shown
  <2>4. QED
    BY <2>2, <2>3
<1>2. QED
  BY <1>1, InvHolds, PTL

\* A tab that reset the store (resetStore) with nothing else under way in it, while no
\* operation was between its read and its save, never shows one of the deleted
\* projects again, neither in its copies nor in its list.
THEOREM ResetsAreClear == Spec => []ResetClearsTab
<1>1. Inv => ResetClearsTab
  <2> SUFFICES ASSUME Inv, NEW c \in AllFlows, Begun(c), Kind(c) = "reset", flow[c].landed,
                      ~flow[c].mixed, c \notin crossed, NEW p \in flow[c].wiped
               PROVE  p \notin Cached(flow[c].tab) \union listed[flow[c].tab]
    BY DEF ResetClearsTab, Begun
  <2>1. QED
    BY DEF Inv, ResetStays, Cleared, Cached
<1>2. QED
  BY <1>1, InvHolds, PTL

\* A file that was rendered from what the browser sent is of a state that what is
\* stored has grown from, unless operations on the project crossed; and once the
\* download is through, uncrossed, it is on the project's record.
THEOREM DownloadsOnRecord == Spec => []DownloadIsRecorded
<1>1. Inv => DownloadIsRecorded
  <2> SUFFICES ASSUME Inv, NEW c \in AllFlows, flow[c].file # << >>, Live(Project(c))
               PROVE  /\ flow[c].at = "done" /\ c \notin crossed =>
                           Contains(saved[Project(c)], c)
                      /\ Muddled(Project(c)) \/ IsPrefix(flow[c].file, saved[Project(c)])
    BY DEF DownloadIsRecorded, Live, Muddled
  <2>1. Begun(c) /\ Kind(c) = "download"
    BY DEF Inv, FlowsAlone, Alone, OnCourse
  <2>2. Works(c) /\ Project(c) \in Projects
    BY <2>1, FlowFacts DEF Inv
  <2>3. Muddled(Project(c)) \/ IsPrefix(flow[c].file, saved[Project(c)])
    BY <2>1, <2>2 DEF Inv, SeenIsPrefix
  <2>4. flow[c].at = "done" /\ c \notin crossed => Contains(saved[Project(c)], c)
    BY <2>2 DEF Inv, WorkIsStored, Kept, HasSaved, FlowsAlone, Alone, LandsInTime
  <2>5. QED
    BY <2>3, <2>4
<1>2. QED
  BY <1>1, InvHolds, PTL

=============================================================================
