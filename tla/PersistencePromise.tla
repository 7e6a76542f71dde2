------------------------- MODULE PersistencePromise --------------------------
(***************************************************************************)
(* What packages/web/lib/persistence/types.ts asks of an adapter, whatever *)
(* it stores things in: a project has a snapshot that is overwritten and a *)
(* log that is only appended to, and nothing goes but by a reset.          *)
(*                                                                         *)
(* No log has an id twice, unless the id is contended: an adapter that     *)
(* looks an id up and appends it in two steps may have two appends of it   *)
(* under way, or one that goes on across a reset.  An adapter that is      *)
(* volatile loses everything when its server stops.                        *)
(* Adapters implements it (Adapters!PersistencePromiseKept).               *)
(***************************************************************************)
EXTENDS Sequences, Naturals

CONSTANTS Projects, Entries

VARIABLES
  known,      \* projects that have a snapshot, readable or not
  log,        \* the log of each project
  resetting,  \* somebody is resetting the store
  contended,  \* the entries of projects that may be appended unchecked
  volatile    \* the adapter forgets when its server stops
vars == <<known, log, resetting, contended, volatile>>

Listed(p) == {log[p][i] : i \in 1..Len(log[p])}

Init ==
  /\ known \subseteq Projects
  /\ log \in [Projects -> Seq(Entries)]
  /\ ~resetting
  /\ contended = {}
  /\ volatile \in BOOLEAN

\* saveProjectState: a project's first snapshot or a later one.
Save(p) == known' = known \union {p} /\ UNCHANGED log

\* appendAuditLog, appendDecisionHistory.
AppendEntry(p, e) ==
  /\ e \in Listed(p) => <<p, e>> \in contended
  /\ log' = [log EXCEPT ![p] = Append(@, e)]

\* createProject: the two in one go.
Create(p, e) == known' = known \union {p} /\ AppendEntry(p, e)

\* resetDemoStore: whole snapshots and whole logs go, in any order.
Reset ==
  /\ resetting
  /\ known' \subseteq known
  /\ \A p \in Projects : log'[p] \in {log[p], << >>}
  /\ DOMAIN log' = Projects

Stop == volatile /\ known' = {} /\ log' = [p \in Projects |-> << >>]

Next ==
  /\ UNCHANGED volatile
  /\ resetting' \in BOOLEAN
  /\ contended' \subseteq Projects \X Entries
  /\ \/ UNCHANGED <<known, log>>
     \/ \E p \in Projects :
          \/ Save(p)
          \/ \E e \in Entries : AppendEntry(p, e) /\ UNCHANGED known
          \/ \E e \in Entries : Create(p, e)
     \/ Reset
     \/ Stop

Spec == Init /\ [][Next]_vars
=============================================================================
