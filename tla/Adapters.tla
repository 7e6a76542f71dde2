------------------------------ MODULE Adapters -------------------------------
(***************************************************************************)
(* The three persistence adapters of packages/web/lib/persistence under    *)
(* the calls of server-store.ts: creating a project, an operation on one   *)
(* (read, save the snapshot, append a row), listing, resetting.  A         *)
(* behaviour has one driver, chosen when it starts.                        *)
(*                                                                         *)
(*   memory    every call is one step; a stop of the server loses it all   *)
(*   file      a save truncates the file and then writes it; an append     *)
(*             looks the id up in a set filled from the file on first use, *)
(*             and then appends; a reset removes the files one by one      *)
(*   postgres  a statement or a transaction is one step; the tables are    *)
(*             created on first use, by a promise that is kept even when   *)
(*             it was rejected; a reset is four statements                 *)
(*                                                                         *)
(* A snapshot stands for the call that made it.  The audit log and the     *)
(* decision_history journal are handled by the same code twice, so a       *)
(* project has one log here.  The ids of the rows of a creation are as     *)
(* unique as UUIDs; operations take theirs from a small set, which lets    *)
(* two of them append the same id, what an adapter must refuse.            *)
(***************************************************************************)
EXTENDS Naturals, Sequences, FiniteSets

CONSTANTS
  Projects, Ids,  \* projects; the ids operations append
  Calls,          \* calls that may be made
  Asks,           \* what a call may ask for (see AllAsks)
  Drivers,        \* drivers that may have been selected
  Founded,        \* projects that exist when the calls begin
  Founder,        \* stands for the call that created them
  MaxInFlight,    \* bound: calls being served at once
  MaxFaults,      \* bound: stops of the server and failures of the storage
  None,           \* no snapshot
  Empty, Torn     \* a file that was truncated; a file or a line that does not parse

AllDrivers == {"memory", "file", "postgres"}
Row(c, event) == <<c, event>>
Events == {"project_created", "membership_created"}
Entries == Ids \union ((Calls \union {Founder}) \X Events)
AllAsks ==
  [name : {"create"}, project : Projects]
    \union [name : {"operate"}, project : Projects, id : Ids]
    \union [name : {"list", "reset"}]

ASSUME CallsAssumption ==
  /\ Asks \subseteq AllAsks /\ Drivers \subseteq AllDrivers /\ Founded \subseteq Projects
  /\ \A a \in Asks : a.name = "create" => a.project \notin Founded
  /\ Founder \notin Calls /\ None \notin AllAsks
  /\ {None, Empty, Torn} \intersect (Calls \union {Founder}) = {}
  /\ None \notin {Empty, Torn} /\ Empty # Torn /\ Torn \notin Entries
  /\ Ids \intersect ((Calls \union {Founder}) \X Events) = {}
ASSUME BoundsAssumption == MaxInFlight \in Nat /\ MaxFaults \in Nat

VARIABLES
  driver,  \* selectPersistenceAdapter, cached on globalThis
  blob,    \* the snapshot of each project
  log,     \* the log of each project; a half-written line is Torn
  seen,    \* file: the ids the server knows of each log, and whether it has read it
  boot,    \* postgres: bootstrapPromise
  calls,   \* each call: where it is, what it asked for, the writes still to come
  faults,  \* stops and failures so far
  crossed  \* file: the calls that were at the same write as another (see Crossed)
vars == <<driver, blob, log, seen, boot, calls, faults, crossed>>

Listed(p) == {log[p][i] : i \in 1..Len(log[p])} \ {Torn}
InFlight == {c \in Calls : calls[c].at \in {"begun", "checked", "opened"}}
Unread == [p \in Projects |-> [loaded |-> FALSE, ids |-> {}]]

\* The writes a call makes, in the order it makes them.
\* Mutant: the membership row goes before the creation row.
StepsSwapped(op) ==
  CASE op.name = "create" ->
         IF driver = "file" THEN <<"blob", "membership_created", "project_created">>
                            ELSE <<"both", "membership_created">>
    [] op.name = "operate" -> <<"read", "blob", "entry">>
    [] op.name = "list" -> <<"list">>
    [] op.name = "reset" -> IF driver = "memory" THEN <<"all">> ELSE <<"logs", "blobs">>
Steps(op) ==
  CASE op.name = "create" ->
         IF driver = "file" THEN <<"blob", "project_created", "membership_created">>
                            ELSE <<"both", "membership_created">>
    [] op.name = "operate" -> <<"read", "blob", "entry">>
    [] op.name = "list" -> <<"list">>
    [] op.name = "reset" -> IF driver = "memory" THEN <<"all">> ELSE <<"logs", "blobs">>

\* The id the next write of a call appends.
NextEntry(c) ==
  IF Head(calls[c].todo) = "entry" THEN calls[c].op.id ELSE Row(c, Head(calls[c].todo))
Appends == {"entry"} \union Events

\* The calls between the two steps of a write of the file adapter: of a snapshot that
\* is still there, of an id to a log.  Crossed notes those that a call joins there.
Writers(p) ==
  {d \in Calls : calls[d].at = "opened" /\ ~calls[d].stale /\ calls[d].op.project = p}
Appenders(p, e) ==
  {d \in Calls : calls[d].at = "checked" /\ calls[d].op.project = p /\ NextEntry(d) = e}
Crossed(c, stage, others) ==
  crossed \union {<<d, stage>> : d \in IF others = {} THEN {} ELSE others \union {c}}

Unparsable == {Empty, Torn}
BrokenLog(p) == \E i \in 1..Len(log[p]) : log[p][i] = Torn

Idle == [at |-> "waiting", op |-> None, todo |-> << >>,
         known |-> FALSE, wiped |-> FALSE, stale |-> FALSE]

Init ==
  /\ driver \in Drivers
  /\ blob = [p \in Projects |-> IF p \in Founded THEN Founder ELSE None]
  /\ log = [p \in Projects |->
              IF p \in Founded THEN <<Row(Founder, "project_created"),
                                      Row(Founder, "membership_created")>>
              ELSE << >>]
  /\ seen = Unread
  /\ boot = "unset"
  /\ calls = [c \in Calls |-> Idle]
  /\ faults = 0
  /\ crossed = {}

-----------------------------------------------------------------------------
(* The course of a call *)

\* known: the id is in the log before the call begins.  wiped: a reset was made
\* since.  A project is created once: its id is new.
Begin(c) == \E op \in Asks :
  /\ calls[c].at = "waiting"
  /\ Cardinality(InFlight) < MaxInFlight
  /\ op.name = "create" =>
       \A d \in Calls : calls[d].at = "waiting" \/ calls[d].op # op
  /\ calls' = [calls EXCEPT ![c] =
                 [Idle EXCEPT !.at = "begun", !.op = op, !.todo = Steps(op),
                              !.known = op.name = "operate" /\ op.id \in Listed(op.project)]]
  /\ UNCHANGED <<driver, blob, log, seen, boot, faults, crossed>>

\* At the step `step`, with the tables of postgres there.
At(c, step) ==
  /\ calls[c].at = "begun"
  /\ Head(calls[c].todo) = step
  /\ driver = "postgres" => boot = "made"
Advanced(c) ==
  [calls EXCEPT ![c].at = IF Len(calls[c].todo) = 1 THEN "done" ELSE "begun",
                ![c].todo = Tail(@)]
Ended(c, how) == [calls EXCEPT ![c].at = how]

\* ensureBootstrapped: the promise is kept, whether it was fulfilled or not.
Bootstrap(c) ==
  /\ driver = "postgres" /\ boot = "unset" /\ calls[c].at = "begun"
  /\ \/ boot' = "made" /\ UNCHANGED <<calls, faults>>
     \/ faults < MaxFaults /\ faults' = faults + 1
        /\ boot' = "rejected" /\ calls' = Ended(c, "failed")
  /\ UNCHANGED <<driver, blob, log, seen, crossed>>
BootstrapRejected(c) ==
  /\ driver = "postgres" /\ boot = "rejected" /\ calls[c].at = "begun"
  /\ calls' = Ended(c, "failed")
  /\ UNCHANGED <<driver, blob, log, seen, boot, faults, crossed>>

-----------------------------------------------------------------------------
(* Reading *)

\* getProjectState, at the start of an operation.
ReadState(c) ==
  /\ At(c, "read")
  /\ calls' = CASE blob[calls[c].op.project] = None -> Ended(c, "not_found")
                [] blob[calls[c].op.project] \in Unparsable -> Ended(c, "failed")
                [] OTHER -> Advanced(c)
  /\ UNCHANGED <<driver, blob, log, seen, boot, faults, crossed>>

\* listProjects parses every snapshot there is.
ListProjects(c) ==
  /\ At(c, "list")
  /\ calls' = IF \E p \in Projects : blob[p] \in Unparsable
            THEN Ended(c, "failed") ELSE Advanced(c)
  /\ UNCHANGED <<driver, blob, log, seen, boot, faults, crossed>>

-----------------------------------------------------------------------------
(* Saving *)

\* The upsert of memory and postgres.
SaveState(c) ==
  /\ driver # "file" /\ At(c, "blob")
  /\ blob' = [blob EXCEPT ![calls[c].op.project] = c]
  /\ calls' = Advanced(c)
  /\ UNCHANGED <<driver, log, seen, boot, faults, crossed>>

\* writeFile opens the file, which empties it, ...
\* Mutants: whatever the driver; two ids have one safeName.
OpenFileAlways(c) ==
  /\ At(c, "blob")
  /\ blob' = [blob EXCEPT ![calls[c].op.project] = Empty]
  /\ calls' = [calls EXCEPT ![c].at = "opened"]
  /\ crossed' = Crossed(c, "opened", Writers(calls[c].op.project))
  /\ UNCHANGED <<driver, log, seen, boot, faults>>
OpenFileShared(c) ==
  /\ driver = "file" /\ At(c, "blob")
  /\ blob' = [p \in Projects |-> Empty]
  /\ calls' = [calls EXCEPT ![c].at = "opened"]
  /\ crossed' = Crossed(c, "opened", Writers(calls[c].op.project))
  /\ UNCHANGED <<driver, log, seen, boot, faults>>
OpenFile(c) ==
  /\ driver = "file" /\ At(c, "blob")
  /\ blob' = [blob EXCEPT ![calls[c].op.project] = Empty]
  /\ calls' = [calls EXCEPT ![c].at = "opened"]
  /\ crossed' = Crossed(c, "opened", Writers(calls[c].op.project))
  /\ UNCHANGED <<driver, log, seen, boot, faults>>

\* ... and then writes it from the start.  If another call has written it in
\* between, a longer text of that call's sticks out at the end.  A file that a
\* reset has removed meanwhile is written to no avail.
WriteFile(c) ==
  LET p == calls[c].op.project IN
  /\ calls[c].at = "opened"
  /\ \E v \in IF calls[c].stale THEN {blob[p]}
             ELSE IF blob[p] = Empty THEN {c} ELSE {c, Torn} : blob' = [blob EXCEPT ![p] = v]
  /\ calls' = Advanced(c)
  /\ UNCHANGED <<driver, log, seen, boot, faults, crossed>>

\* createProject of memory and postgres: snapshot and creation row together.
CreateProject(c) ==
  LET p == calls[c].op.project IN
  /\ At(c, "both")
  /\ blob' = [blob EXCEPT ![p] = c]
  /\ log' = [log EXCEPT ![p] = IF driver = "memory" THEN <<Row(c, "project_created")>>
                               ELSE Append(@, Row(c, "project_created"))]
  /\ calls' = Advanced(c)
  /\ UNCHANGED <<driver, seen, boot, faults, crossed>>

-----------------------------------------------------------------------------
(* Appending *)

\* Memory looks the id up in the project's log.  In postgres it is the primary key
\* of the table, whatever the project, which has to exist.
\* Mutant: memory does not look the id up.
AcceptsAny(p, e) == driver = "postgres" => blob[p] # None
Accepts(p, e) ==
  IF driver = "memory" THEN e \notin Listed(p)
  ELSE blob[p] # None /\ \A q \in Projects : e \notin Listed(q)

\* Mutant: the list is begun again.
AppendEntryAlone(c) ==
  LET p == calls[c].op.project IN
  /\ driver # "file"
  /\ \E step \in Appends : At(c, step)
  /\ IF Accepts(p, NextEntry(c))
     THEN log' = [log EXCEPT ![p] = <<NextEntry(c)>>] /\ calls' = Advanced(c)
     ELSE calls' = Ended(c, "refused") /\ UNCHANGED log
  /\ UNCHANGED <<driver, blob, seen, boot, faults, crossed>>
AppendEntry(c) ==
  LET p == calls[c].op.project IN
  /\ driver # "file"
  /\ \E step \in Appends : At(c, step)
  /\ IF Accepts(p, NextEntry(c))
     THEN log' = [log EXCEPT ![p] = Append(@, NextEntry(c))] /\ calls' = Advanced(c)
     ELSE calls' = Ended(c, "refused") /\ UNCHANGED log
  /\ UNCHANGED <<driver, blob, seen, boot, faults, crossed>>

\* loadSeen, and the check that follows it.
\* Mutant: the set counts as loaded though nothing was read.
LoadSeenEmpty(c) ==
  LET p == calls[c].op.project IN
  /\ driver = "file"
  /\ \E step \in Appends : At(c, step)
  /\ seen' = [seen EXCEPT ![p].loaded = TRUE]
  /\ calls' = IF NextEntry(c) \in seen[p].ids
              THEN Ended(c, "refused") ELSE [calls EXCEPT ![c].at = "checked"]
  /\ UNCHANGED <<driver, blob, log, boot, faults, crossed>>
LoadSeen(c) ==
  LET p == calls[c].op.project
      ids == seen[p].ids \union (IF seen[p].loaded THEN {} ELSE Listed(p)) IN
  /\ driver = "file"
  /\ \E step \in Appends : At(c, step)
  /\ BrokenLog(p) => seen[p].loaded
  /\ seen' = [seen EXCEPT ![p] = [loaded |-> TRUE, ids |-> ids]]
  /\ calls' = IF NextEntry(c) \in ids
              THEN Ended(c, "refused") ELSE [calls EXCEPT ![c].at = "checked"]
  /\ crossed' = IF NextEntry(c) \in ids THEN crossed
                 ELSE Crossed(c, "checked", Appenders(p, NextEntry(c)))
  /\ UNCHANGED <<driver, blob, log, boot, faults>>

\* A line that does not parse: the log can be read no more.
LoadSeenFails(c) ==
  LET p == calls[c].op.project IN
  /\ driver = "file"
  /\ \E step \in Appends : At(c, step)
  /\ BrokenLog(p) /\ ~seen[p].loaded
  /\ calls' = Ended(c, "failed")
  /\ UNCHANGED <<driver, blob, log, seen, boot, faults, crossed>>

\* appendFile, then seen.add; after a reset that is the set of a cache no longer used.
AppendFile(c) ==
  LET p == calls[c].op.project IN
  /\ calls[c].at = "checked"
  /\ log' = [log EXCEPT ![p] = Append(@, NextEntry(c))]
  /\ seen' = [seen EXCEPT ![p].ids = IF calls[c].stale THEN @ ELSE @ \union {NextEntry(c)}]
  /\ calls' = Advanced(c)
  /\ UNCHANGED <<driver, blob, boot, faults, crossed>>

-----------------------------------------------------------------------------
(* Resetting *)

\* A reset that has begun to delete: calls made before it may lose what they wrote.
Wiped(table) ==
  [d \in Calls |-> IF table[d].at = "waiting" THEN table[d]
                   ELSE [table[d] EXCEPT !.wiped = TRUE]]

ResetMemory(c) ==
  /\ At(c, "all")
  /\ blob' = [p \in Projects |-> None]
  /\ log' = [p \in Projects |-> << >>]
  /\ calls' = Wiped(Advanced(c))
  /\ UNCHANGED <<driver, seen, boot, faults, crossed>>

\* DELETE FROM the history and the audit logs, ...
DeleteLogs(c) ==
  /\ driver = "postgres" /\ At(c, "logs")
  /\ log' = [p \in Projects |-> << >>]
  /\ calls' = Wiped(Advanced(c))
  /\ UNCHANGED <<driver, blob, seen, boot, faults, crossed>>
\* ... then FROM the states and the projects, with the rows that refer to them.
DeleteProjects(c) ==
  /\ driver = "postgres" /\ At(c, "blobs")
  /\ blob' = [p \in Projects |-> None]
  /\ log' = [p \in Projects |-> << >>]
  /\ calls' = Wiped(Advanced(c))
  /\ UNCHANGED <<driver, seen, boot, faults, crossed>>

\* rm removes the files of the directory one by one, in the order it finds them.
RemoveFile(c) == \E p \in Projects :
  /\ driver = "file" /\ At(c, "logs")
  /\ \/ /\ blob[p] # None /\ blob' = [blob EXCEPT ![p] = None] /\ UNCHANGED log
        /\ calls' = Wiped([d \in Calls |->
                             IF calls[d].at = "opened" /\ calls[d].op.project = p
                             THEN [calls[d] EXCEPT !.stale = TRUE] ELSE calls[d]])
     \/ /\ log[p] # << >> /\ log' = [log EXCEPT ![p] = << >>] /\ UNCHANGED blob
        /\ calls' = Wiped(calls)
  /\ UNCHANGED <<driver, seen, boot, faults, crossed>>
\* Then the sets of seen ids are dropped; a call that holds one goes on with it.
ForgetSeen(c) ==
  /\ driver = "file" /\ At(c, "logs")
  /\ \A p \in Projects : blob[p] = None /\ log[p] = << >>
  /\ seen' = Unread
  /\ calls' = [d \in Calls |->
                 IF d = c THEN [Ended(c, "done")[c] EXCEPT !.wiped = TRUE]
                 ELSE IF calls[d].at = "checked" THEN [calls[d] EXCEPT !.stale = TRUE]
                 ELSE calls[d]]
  /\ UNCHANGED <<driver, blob, log, boot, faults, crossed>>

-----------------------------------------------------------------------------
(* Failures *)

\* The file system or the database refuses a step, also because a reset has just
\* removed the directory.  What the call has done so far stays; a transaction that
\* was open is rolled back.
StorageFails(c) ==
  /\ driver # "memory" /\ c \in InFlight
  /\ \/ faults < MaxFaults /\ faults' = faults + 1
     \/ driver = "file" /\ calls[c].wiped /\ UNCHANGED faults
  /\ calls' = Ended(c, "failed")
  /\ UNCHANGED <<driver, blob, log, seen, boot, crossed>>

\* The server stops.  Memory is lost; of a file that was being written there is
\* what was written; a line that was being appended may be there in part.
ServerStops ==
  /\ faults < MaxFaults
  /\ faults' = faults + 1
  /\ LET cut == [c \in Calls |-> IF c \in InFlight THEN [calls[c] EXCEPT !.at = "lost"]
                                 ELSE calls[c]]
     IN  calls' = IF driver = "memory" THEN Wiped(cut) ELSE cut
  /\ blob' = IF driver = "memory" THEN [p \in Projects |-> None] ELSE blob
  /\ IF driver = "memory" THEN log' = [p \in Projects |-> << >>]
     ELSE \E broken \in SUBSET {calls[c].op.project :
                                c \in {d \in Calls : calls[d].at = "checked"}} :
            log' = [p \in Projects |-> IF p \in broken THEN Append(log[p], Torn)
                                       ELSE log[p]]
  /\ seen' = Unread
  /\ boot' = "unset"
  /\ UNCHANGED <<driver, crossed>>

Next ==
  \/ \E c \in Calls :
       \/ Begin(c)         \/ Bootstrap(c)      \/ BootstrapRejected(c)
       \/ ReadState(c)     \/ ListProjects(c)   \/ SaveState(c)
       \/ OpenFile(c)      \/ WriteFile(c)      \/ CreateProject(c)
       \/ AppendEntry(c)   \/ LoadSeen(c)       \/ LoadSeenFails(c)
       \/ AppendFile(c)    \/ ResetMemory(c)    \/ DeleteLogs(c)
       \/ DeleteProjects(c) \/ RemoveFile(c)    \/ ForgetSeen(c)
       \/ StorageFails(c)
  \/ ServerStops

Spec == Init /\ [][Next]_vars

Snapshots == Calls \union {Founder, None} \union Unparsable
StepNames == Appends \union {"blob", "both", "read", "list", "all", "logs", "blobs"}

\* The shapes of the stores and the calls; only the file adapter knows files that
\* do not parse, calls between two steps of one write, and seen ids.
TypeOK ==
  /\ driver \in Drivers
  /\ blob \in [Projects -> Snapshots]
  /\ log \in [Projects -> Seq(Entries \union {Torn})]
  /\ seen \in [Projects -> [loaded : BOOLEAN, ids : SUBSET Entries]]
  /\ boot \in {"unset", "made", "rejected"}
  /\ calls \in [Calls -> [at : {"waiting", "begun", "checked", "opened", "done", "refused",
                                "not_found", "failed", "lost"},
                          op : Asks \union {None}, todo : Seq(StepNames),
                          known : BOOLEAN, wiped : BOOLEAN, stale : BOOLEAN]]
  /\ faults \in 0..MaxFaults
  /\ crossed \subseteq Calls \X {"opened", "checked"}
  /\ driver # "file" =>
       /\ \A p \in Projects : blob[p] \notin Unparsable /\ ~BrokenLog(p) /\ ~seen[p].loaded
       /\ \A c \in Calls : calls[c].at \notin {"checked", "opened"}

-----------------------------------------------------------------------------
(* What the adapters have in common *)

\* The rows of a log: a line that was half written is its last.
Whole(p) == IF BrokenLog(p) THEN SubSeq(log[p], 1, Len(log[p]) - 1) ELSE log[p]

\* An id that the file adapter looked up for two appends at once or across a reset.
Contended ==
  {pe \in Projects \X Entries :
     \E c \in Appenders(pe[1], pe[2]) :
       <<c, "checked">> \in crossed \/ \E d \in Calls : calls[d].stale}

Promise == INSTANCE PersistencePromise WITH
  known <- {p \in Projects : blob[p] # None},
  log <- [p \in Projects |-> Whole(p)],
  resetting <- \E c \in InFlight : calls[c].op.name = "reset",
  contended <- Contended,
  volatile <- driver = "memory"

\* persistence/types.ts: every adapter keeps the append-only contract.  Rows are
\* only added, at the end, and none twice, but where the file adapter checks one id
\* for two appends at once or across a reset; what goes, goes by a reset, and in
\* memory by a stop.
PersistencePromiseKept == Promise!Spec

Saves(c) == calls[c].op # None /\ calls[c].op.name \in {"create", "operate"}
Saver(c, p) == Saves(c) /\ calls[c].op.project = p
Cut(c) == calls[c].at \in {"lost", "failed"}

\* What may leave a snapshot of the file adapter that does not parse: c is writing
\* it or was cut off there; c wrote it at the same time as another.
WritesSnapshot(c, p) ==
  /\ driver = "file" /\ Saver(c, p)
  /\ calls[c].at = "opened" \/ (Cut(c) /\ Head(calls[c].todo) = "blob")
MixedSnapshot(c, p) ==
  driver = "file" /\ Saver(c, p) /\ <<c, "opened">> \in crossed /\ blob[p] = Torn
\* What may leave a log that does not parse: c was cut off at an append.
SpoilsLog(c, p) ==
  driver = "file" /\ Saver(c, p) /\ Cut(c) /\ Head(calls[c].todo) \in Appends

\* What a call was told is stored is there to be read, whatever is called next and
\* wherever the server stops (with the memory driver: until it does), until a reset:
\* its rows in the log of its project, and a snapshot of the project.  Only in the
\* file adapter can it be lost, and then by another call on the same project, which
\* was cut off in its write, is at it, or wrote the snapshot at the same time.
AcknowledgedSurvives ==
  \A c \in Calls :
    /\ calls[c].at = "done" /\ ~calls[c].wiped
    /\ calls[c].op.name \in {"create", "operate"}
    => LET p == calls[c].op.project
           others == Calls \ {c} IN
       /\ blob[p] # None
       /\ blob[p] \in Unparsable =>
            \E d \in others : WritesSnapshot(d, p) \/ MixedSnapshot(d, p)
       /\ IF calls[c].op.name = "operate" THEN calls[c].op.id \in Listed(p)
          ELSE \A event \in Events : Row(c, event) \in Listed(p)
       /\ BrokenLog(p) => \E d \in others : SpoilsLog(d, p)

\* types.ts: an id that exists already is refused.  In every adapter an id that was
\* in the log when the call began is, over restarts of the server and whatever of
\* the log it has read; only a call that went on across a reset may confuse the
\* file adapter's set of seen ids.
KnownIdRefused ==
  (\A d \in Calls : ~calls[d].stale) =>
    \A c \in Calls : calls[c].known /\ ~calls[c].wiped => calls[c].at # "done"

\* A snapshot that does not parse is being written, or its writer was cut off, or
\* two calls wrote it at once; a log breaks only under a call that was cut off.  The
\* other projects are not touched.
DamageIsConfined ==
  \A p \in Projects :
    /\ blob[p] \in Unparsable =>
         \E c \in Calls : WritesSnapshot(c, p) \/ MixedSnapshot(c, p)
    /\ BrokenLog(p) => \E c \in Calls : SpoilsLog(c, p)

\* types.ts: appending an id that exists throws.  So no log has an id twice.
NoIdTwice ==
  \A p \in Projects : \A i, j \in 1..Len(log[p]) :
    i # j /\ log[p][i] = log[p][j] => log[p][i] = Torn

\* A project that is in the store has its project_created row, and the row of its
\* owner's membership comes after that: the two writes of createProject are one, or
\* the row is on its way, or the file adapter's call was cut off between them.
CreationIsRecorded ==
  (\A c \in Calls : ~calls[c].wiped) =>
    \A p \in Projects \ Founded :
      /\ blob[p] # None =>
           \E c \in Calls :
             /\ Saves(c) /\ calls[c].op.name = "create" /\ calls[c].op.project = p
             /\ \/ Row(c, "project_created") \in Listed(p)
                \/ driver = "file" /\ (c \in InFlight \/ Cut(c))
      /\ \A c \in Calls, i \in 1..Len(log[p]) :
           log[p][i] = Row(c, "membership_created") =>
             \E j \in 1..(i - 1) : log[p][j] = Row(c, "project_created")
=============================================================================
