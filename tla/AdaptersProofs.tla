--------------------------- MODULE AdaptersProofs ---------------------------
(***************************************************************************)
(* What the persistence adapters keep, for any number of projects, calls   *)
(* and faults: what a caller was told is stored stays, an id that is known *)
(* is refused, a file that is damaged is one that was being written, a     *)
(* creation is recorded, and every adapter implements PersistencePromise.  *)
(***************************************************************************)
EXTENDS Adapters, TLAPS, SequenceTheorems

-----------------------------------------------------------------------------
(* The invariant *)

\* What may be left to write of a call.
Rests(op) ==
  CASE op.name = "create" ->
         IF driver = "file"
         THEN {<<"blob", "project_created", "membership_created">>,
               <<"project_created", "membership_created">>, <<"membership_created">>, << >>}
         ELSE {<<"both", "membership_created">>, <<"membership_created">>, << >>}
    [] op.name = "operate" ->
         {<<"read", "blob", "entry">>, <<"blob", "entry">>, <<"entry">>, << >>}
    [] op.name = "list" -> {<<"list">>, << >>}
    [] op.name = "reset" -> IF driver = "memory" THEN {<<"all">>, << >>}
                            ELSE {<<"logs", "blobs">>, <<"blobs">>, << >>}

Due(k, step) == k.todo # << >> /\ Head(k.todo) = step
Owes(c, step) == Due(calls[c], step)
OwesRow(c) == \E step \in Appends : Owes(c, step)
Serving == {"begun", "checked", "opened"}

\* The shape of the record of a call.
Shape(k) ==
  /\ k.at = "waiting" => k = Idle
  /\ k.at # "waiting" => k.op \in Asks /\ k.todo \in Rests(k.op)
  /\ k.at \in Serving => k.todo # << >>
  /\ k.at = "done" => k.todo = << >> \/ k.op.name = "reset"
  /\ k.at = "checked" => driver = "file" /\ \E step \in Appends : Due(k, step)
  /\ k.at = "opened" => driver = "file" /\ Due(k, "blob")
  /\ k.stale => k.wiped \/ k.todo = << >> \/ \E step \in Appends : Due(k, step)
  /\ k.stale /\ k.at = "begun" => \E step \in Appends : Due(k, step)
  /\ k.known => k.at # "waiting" /\ k.op.name = "operate"
Shaped(c) == Shape(calls[c])

\* How far a call has come: it works on a project that is there, the project is its
\* own and has its first row, everything is written.
Creates(c) == calls[c].at # "waiting" /\ calls[c].op.name = "create"
Operates(c) == calls[c].at # "waiting" /\ calls[c].op.name = "operate"
Finished(c) == calls[c].todo = << >>
Created(c) == Creates(c) /\ (Finished(c) \/ Owes(c, "membership_created"))
HasProject(c) == \/ Operates(c) /\ ~Owes(c, "read")
                 \/ Creates(c) /\ (Finished(c) \/ OwesRow(c))

\* What a call has written is there, until a reset.
Stored(c) ==
  LET p == calls[c].op.project IN
  ~calls[c].wiped =>
    /\ HasProject(c) => blob[p] # None
    /\ Created(c) => Row(c, "project_created") \in Listed(p)
    /\ Creates(c) /\ Finished(c) => Row(c, "membership_created") \in Listed(p)
    /\ Operates(c) /\ (Finished(c) \/ calls[c].known) => calls[c].op.id \in Listed(p)

\* The rows of a creation are nowhere before it writes them.
Fresh(c, p) ==
  /\ Row(c, "project_created") \in Listed(p) \union seen[p].ids =>
       Created(c) /\ calls[c].op.project = p
  /\ Row(c, "membership_created") \in Listed(p) \union seen[p].ids =>
       Creates(c) /\ Finished(c) /\ calls[c].op.project = p

CreatedOnce ==
  \A c, d \in Calls : Creates(c) /\ Creates(d) /\ calls[c].op = calls[d].op => c = d

\* Memory: of a project that is not yet created there is nothing.
Uncreated(p) ==
  driver = "memory" /\ p \notin Founded
    /\ (\A c \in Calls : Creates(c) /\ calls[c].op.project = p => Owes(c, "both")) =>
    /\ blob[p] = None /\ log[p] = << >>
    /\ \A c \in Calls : Operates(c) /\ calls[c].op.project = p => Owes(c, "read")

\* File: the seen ids are ahead of the file, so what is known cannot be appended.
NoneStale == \A c \in Calls : ~calls[c].stale
Ahead ==
  NoneStale =>
    /\ \A p \in Projects : seen[p].loaded => Listed(p) \subseteq seen[p].ids
    /\ \A c \in Calls : calls[c].known /\ ~calls[c].wiped => calls[c].at \notin {"checked", "done"}

\* File: where a log or a snapshot is broken.
LogDamage(p) ==
  BrokenLog(p) =>
    /\ ~seen[p].loaded
    /\ \A c \in Calls : calls[c].at = "checked" => calls[c].op.project # p
    /\ \A i \in 1..(Len(log[p]) - 1) : log[p][i] # Torn
    /\ \E c \in Calls : Saver(c, p) /\ Cut(c) /\ OwesRow(c)
Writes(c) == calls[c].at = "opened" /\ ~calls[c].stale
BlobDamage(p) ==
  /\ \A c \in Calls : Writes(c) /\ calls[c].op.project = p =>
       blob[p] = Empty \/ <<c, "opened">> \in crossed
  /\ blob[p] \in Unparsable =>
       \/ \E c \in Calls : Saver(c, p) /\ (Writes(c) \/ (Cut(c) /\ Owes(c, "blob")))
       \/ blob[p] = Torn /\ \E c \in Calls : Saver(c, p) /\ <<c, "opened">> \in crossed

\* File: calls at the same write have crossed there, and nobody alone.
Together(c, d, stage) == <<c, stage>> \in crossed /\ <<d, stage>> \in crossed
SameRow(c, d) ==
  /\ calls[c].at = "checked" /\ calls[d].at = "checked"
  /\ calls[c].op.project = calls[d].op.project /\ NextEntry(c) = NextEntry(d)
Joined ==
  /\ \A c, d \in Calls :
       /\ c # d /\ Writes(c) /\ Writes(d) /\ calls[c].op.project = calls[d].op.project
       => Together(c, d, "opened")
  /\ \A c, d \in Calls : c # d /\ SameRow(c, d) => Together(c, d, "checked")
  /\ \A c \in Calls : <<c, "opened">> \in crossed =>
       \E d \in Calls \ {c} : /\ <<d, "opened">> \in crossed /\ Saves(c) /\ Saves(d)
                              /\ calls[c].op.project = calls[d].op.project
\* File: an id that was looked up alone is not in the log when it is appended.
Unlisted ==
  NoneStale =>
    \A c \in Calls : calls[c].at = "checked" /\ <<c, "checked">> \notin crossed =>
      NextEntry(c) \notin Listed(calls[c].op.project)

Inv ==
  /\ TypeOK
  /\ \A c \in Calls : Shaped(c)
  /\ \A c \in Calls : Stored(c)
  /\ \A c \in Calls, p \in Projects : Fresh(c, p)
  /\ CreatedOnce
  /\ \A p \in Projects : Uncreated(p)
  /\ Ahead
  /\ \A p \in Projects : LogDamage(p) /\ BlobDamage(p)
  /\ Joined /\ Unlisted
  /\ CreationIsRecorded

-----------------------------------------------------------------------------
(* Calls *)

CallState ==
  [at : {"waiting", "begun", "checked", "opened", "done", "refused",
         "not_found", "failed", "lost"},
   op : Asks \union {None}, todo : Seq(StepNames),
   known : BOOLEAN, wiped : BOOLEAN, stale : BOOLEAN]

LEMMA StepsAreRests ==
  ASSUME NEW op \in AllAsks, driver \in AllDrivers
  PROVE  /\ Steps(op) \in Rests(op) /\ Steps(op) # << >>
         /\ op.name = "operate" <=> Head(Steps(op)) = "read"
         /\ op.name = "create" =>
              Head(Steps(op)) = IF driver = "file" THEN "blob" ELSE "both"
<1>1. CASE op.name = "create" BY <1>1 DEF Steps, Rests
<1>2. CASE op.name = "operate" BY <1>2 DEF Steps, Rests
<1>3. CASE op.name = "list" BY <1>3 DEF Steps, Rests
<1>4. CASE op.name = "reset" BY <1>4 DEF Steps, Rests
<1> QED BY <1>1, <1>2, <1>3, <1>4 DEF AllAsks

LEMMA ShortSequences ==
  ASSUME NEW S, NEW a \in S, NEW b \in S, NEW c \in S
  PROVE  /\ <<a>> \in Seq(S) /\ <<a>> # << >> /\ Head(<<a>>) = a /\ Tail(<<a>>) = << >>
         /\ <<a, b>> \in Seq(S) /\ <<a, b>> # << >>
         /\ Head(<<a, b>>) = a /\ Tail(<<a, b>>) = <<b>>
         /\ <<a, b, c>> \in Seq(S) /\ <<a, b, c>> # << >>
         /\ Head(<<a, b, c>>) = a /\ Tail(<<a, b, c>>) = <<b, c>>
OBVIOUS

LEMMA LastStep ==
  ASSUME NEW S, NEW t \in Seq(S), t # << >>
  PROVE  Len(t) = 1 <=> Tail(t) = << >>
<1>1. Tail(t) \in Seq(S) /\ Len(Tail(t)) = Len(t) - 1 /\ Len(t) \in Nat
  BY HeadTailProperties
<1> QED BY <1>1, EmptySeq

\* The steps of a call, in their order.
LEMMA RestFacts ==
  ASSUME NEW op \in AllAsks, NEW t \in Rests(op)
  PROVE  /\ t \in Seq(StepNames)
         /\ t # << >> =>
              /\ Head(t) \in StepNames /\ Tail(t) \in Rests(op)
              /\ Head(t) = "read" => /\ op.name = "operate"
                                     /\ Tail(t) # << >> /\ Head(Tail(t)) = "blob"
              /\ Head(t) = "blob" =>
                   /\ Tail(t) # << >>
                   /\ \/ op.name = "operate" /\ Head(Tail(t)) = "entry"
                      \/ /\ op.name = "create" /\ driver = "file"
                         /\ Head(Tail(t)) = "project_created"
              /\ Head(t) = "both" =>
                   /\ op.name = "create" /\ driver # "file"
                   /\ Tail(t) # << >> /\ Head(Tail(t)) = "membership_created"
              /\ Head(t) = "project_created" =>
                   /\ op.name = "create" /\ driver = "file"
                   /\ Tail(t) # << >> /\ Head(Tail(t)) = "membership_created"
              /\ Head(t) = "membership_created" => op.name = "create" /\ Tail(t) = << >>
              /\ Head(t) = "entry" => op.name = "operate" /\ Tail(t) = << >>
              /\ Head(t) \in {"all", "logs", "blobs"} => op.name = "reset"
              /\ Head(t) = "all" => driver = "memory"
              /\ Head(t) = "list" => op.name = "list"
<1> DEFINE N == {"blob", "both", "read", "list", "all", "logs", "blobs", "entry",
                 "project_created", "membership_created"}
<1>0. StepNames = N BY DEF StepNames, Appends, Events
<1> HIDE DEF N
<1>1. /\ "blob" \in N /\ "both" \in N /\ "read" \in N /\ "list" \in N /\ "all" \in N
      /\ "logs" \in N /\ "blobs" \in N /\ "entry" \in N /\ "project_created" \in N
      /\ "membership_created" \in N
  BY DEF N
<1>2. << >> \in Seq(N) BY EmptySeq
<1>3. CASE op.name = "create" /\ driver = "file"
  <2>1. Rests(op) = {<<"blob", "project_created", "membership_created">>,
               <<"project_created", "membership_created">>, <<"membership_created">>, << >>}
    BY <1>3 DEF Rests
  <2>2. CASE t = <<"blob", "project_created", "membership_created">>
    BY <1>0, <1>1, <1>3, <2>1, <2>2, ShortSequences
  <2>3. CASE t = <<"project_created", "membership_created">>
    BY <1>0, <1>1, <1>3, <2>1, <2>3, ShortSequences
  <2>4. CASE t = <<"membership_created">>
    BY <1>0, <1>1, <1>3, <2>1, <2>4, ShortSequences
  <2> QED BY <1>0, <1>2, <2>1, <2>2, <2>3, <2>4
<1>4. CASE op.name = "create" /\ driver # "file"
  <2>1. Rests(op) = {<<"both", "membership_created">>, <<"membership_created">>, << >>}
    BY <1>4 DEF Rests
  <2>2. CASE t = <<"both", "membership_created">>
    BY <1>0, <1>1, <1>4, <2>1, <2>2, ShortSequences
  <2>3. CASE t = <<"membership_created">>
    BY <1>0, <1>1, <1>4, <2>1, <2>3, ShortSequences
  <2> QED BY <1>0, <1>2, <2>1, <2>2, <2>3
<1>5. CASE op.name = "operate"
  <2>1. Rests(op) = {<<"read", "blob", "entry">>, <<"blob", "entry">>, <<"entry">>, << >>}
    BY <1>5 DEF Rests
  <2>2. CASE t = <<"read", "blob", "entry">>
    BY <1>0, <1>1, <1>5, <2>1, <2>2, ShortSequences
  <2>3. CASE t = <<"blob", "entry">> BY <1>0, <1>1, <1>5, <2>1, <2>3, ShortSequences
  <2>4. CASE t = <<"entry">> BY <1>0, <1>1, <1>5, <2>1, <2>4, ShortSequences
  <2> QED BY <1>0, <1>2, <2>1, <2>2, <2>3, <2>4
<1>6. CASE op.name = "list"
  <2>1. Rests(op) = {<<"list">>, << >>} BY <1>6 DEF Rests
  <2>2. CASE t = <<"list">> BY <1>0, <1>1, <1>6, <2>1, <2>2, ShortSequences
  <2> QED BY <1>0, <1>2, <2>1, <2>2
<1>7. CASE op.name = "reset" /\ driver = "memory"
  <2>1. Rests(op) = {<<"all">>, << >>} BY <1>7 DEF Rests
  <2>2. CASE t = <<"all">> BY <1>0, <1>1, <1>7, <2>1, <2>2, ShortSequences
  <2> QED BY <1>0, <1>2, <2>1, <2>2
<1>8. CASE op.name = "reset" /\ driver # "memory"
  <2>1. Rests(op) = {<<"logs", "blobs">>, <<"blobs">>, << >>} BY <1>8 DEF Rests
  <2>2. CASE t = <<"logs", "blobs">> BY <1>0, <1>1, <1>8, <2>1, <2>2, ShortSequences
  <2>3. CASE t = <<"blobs">> BY <1>0, <1>1, <1>8, <2>1, <2>3, ShortSequences
  <2> QED BY <1>0, <1>2, <2>1, <2>2, <2>3
<1> QED BY <1>3, <1>4, <1>5, <1>6, <1>7, <1>8 DEF AllAsks

LEMMA AskProject ==
  ASSUME NEW op \in AllAsks, op.name \in {"create", "operate"}
  PROVE  op.project \in Projects /\ (op.name = "operate" => op.id \in Ids)
BY DEF AllAsks

LEMMA RestsOnDriver ==
  ASSUME NEW op \in AllAsks, driver' = driver
  PROVE  Rests(op)' = Rests(op)
BY DEF Rests

\* The record of a call after a step, k before it and l after it.
Follows(k, l) ==
  /\ l.op = k.op /\ l.known = k.known /\ l.at # "waiting"
  /\ k.wiped => l.wiped
  /\ k.stale => l.stale
  /\ l.todo = k.todo \/ (k.at \in Serving /\ k.todo # << >> /\ l.todo = Tail(k.todo))
  /\ k.at \notin Serving => l.at = k.at

LEMMA AdvanceShape ==
  ASSUME NEW k \in CallState, Shape(k), k.at \in Serving,
         NEW l, l = [k EXCEPT !.at = IF Len(k.todo) = 1 THEN "done" ELSE "begun",
                              !.todo = Tail(k.todo)]
  PROVE  l \in CallState /\ Shape(l) /\ Follows(k, l)
<1>1. k.op \in Asks /\ k.op \in AllAsks /\ k.todo \in Rests(k.op) /\ k.todo # << >>
  BY CallsAssumption DEF Shape, Serving
<1>2. Tail(k.todo) \in Rests(k.op) /\ Tail(k.todo) \in Seq(StepNames) BY <1>1, RestFacts
<1>3. k.todo \in Seq(StepNames) BY <1>1, RestFacts
<1>4. Len(k.todo) = 1 <=> Tail(k.todo) = << >> BY <1>1, <1>3, LastStep
<1>5. /\ l.at = IF Len(k.todo) = 1 THEN "done" ELSE "begun"
      /\ l.todo = Tail(k.todo) /\ l.op = k.op /\ l.known = k.known
      /\ l.wiped = k.wiped /\ l.stale = k.stale
      /\ l \in CallState
  BY <1>2 DEF CallState
<1>6. l.at \in {"done", "begun"} BY <1>5
<1>7. (\E step \in Appends : Due(k, step)) \/ Due(k, "blob") =>
        l.todo = << >> \/ \E step \in Appends : Due(l, step)
  BY <1>1, <1>5, RestFacts DEF Due, Appends, Events
<1>8. Shape(l) BY <1>1, <1>2, <1>4, <1>5, <1>6, <1>7 DEF Shape, Serving
<1> QED BY <1>1, <1>5, <1>6, <1>8 DEF Follows

LEMMA EndShape ==
  ASSUME NEW k \in CallState, Shape(k), k.at \in Serving,
         NEW how \in {"refused", "not_found", "failed", "lost"},
         NEW l, l = [k EXCEPT !.at = how]
  PROVE  l \in CallState /\ Shape(l) /\ Follows(k, l)
<1>1. /\ l.at = how /\ l.todo = k.todo /\ l.op = k.op /\ l.known = k.known
      /\ l.wiped = k.wiped /\ l.stale = k.stale
      /\ l \in CallState
  BY DEF CallState
<1>2. Shape(l) BY <1>1 DEF Shape, Serving, Due
<1> QED BY <1>1, <1>2 DEF Follows

LEMMA CheckShape ==
  ASSUME NEW k \in CallState, Shape(k), k.at = "begun", driver = "file",
         \E step \in Appends : Due(k, step),
         NEW l, l = [k EXCEPT !.at = "checked"]
  PROVE  l \in CallState /\ Shape(l) /\ Follows(k, l)
<1>1. /\ l.at = "checked" /\ l.todo = k.todo /\ l.op = k.op /\ l.known = k.known
      /\ l.wiped = k.wiped /\ l.stale = k.stale
      /\ l \in CallState
  BY DEF CallState
<1>2. \E step \in Appends : Due(l, step) BY <1>1 DEF Due
<1>3. Shape(l) BY <1>1, <1>2 DEF Shape, Serving, Due
<1> QED BY <1>1, <1>3 DEF Follows, Serving

LEMMA OpenShape ==
  ASSUME NEW k \in CallState, Shape(k), k.at = "begun", driver = "file", Due(k, "blob"),
         NEW l, l = [k EXCEPT !.at = "opened"]
  PROVE  l \in CallState /\ Shape(l) /\ Follows(k, l)
<1>1. /\ l.at = "opened" /\ l.todo = k.todo /\ l.op = k.op /\ l.known = k.known
      /\ l.wiped = k.wiped /\ l.stale = k.stale
      /\ l \in CallState
  BY DEF CallState
<1>2. Shape(l) BY <1>1 DEF Shape, Serving, Due
<1> QED BY <1>1, <1>2 DEF Follows, Serving

LEMMA WipeShape ==
  ASSUME NEW k \in CallState, Shape(k), k.at # "waiting",
         NEW l, l = [k EXCEPT !.wiped = TRUE]
  PROVE  l \in CallState /\ Shape(l) /\ Follows(k, l)
<1>1. /\ l.at = k.at /\ l.todo = k.todo /\ l.op = k.op /\ l.known = k.known
      /\ l.wiped = TRUE /\ l.stale = k.stale
      /\ l \in CallState
  BY DEF CallState
<1>2. Shape(l) BY <1>1 DEF Shape, Serving, Due
<1> QED BY <1>1, <1>2 DEF Follows

LEMMA StaleShape ==
  ASSUME NEW k \in CallState, Shape(k), k.at = "checked",
         NEW l, l = [k EXCEPT !.stale = TRUE]
  PROVE  l \in CallState /\ Shape(l) /\ Follows(k, l)
<1>1. /\ l.at = k.at /\ l.todo = k.todo /\ l.op = k.op /\ l.known = k.known
      /\ l.wiped = k.wiped /\ l.stale = TRUE
      /\ l \in CallState
  BY DEF CallState
<1>2. Shape(l) BY <1>1 DEF Shape, Serving, Due
<1> QED BY <1>1, <1>2 DEF Follows

LEMMA FollowsOnWiped ==
  ASSUME NEW k \in CallState, NEW m \in CallState, Shape(m), Follows(k, m),
         NEW l, l = [m EXCEPT !.wiped = TRUE]
  PROVE  l \in CallState /\ Shape(l) /\ Follows(k, l) /\ l.wiped
<1>1. m.at # "waiting" BY DEF Follows
<1>2. l \in CallState /\ Shape(l) BY <1>1, WipeShape
<1>3. /\ l.at = m.at /\ l.todo = m.todo /\ l.op = m.op /\ l.known = m.known
      /\ l.wiped = TRUE /\ l.stale = m.stale
  BY DEF CallState
<1> QED BY <1>2, <1>3 DEF Follows

LEMMA FollowsItself ==
  ASSUME NEW k, k.at # "waiting"
  PROVE  Follows(k, k)
BY DEF Follows

-----------------------------------------------------------------------------
(* What a step does to the calls *)

CallsFollow ==
  /\ calls' \in [Calls -> CallState]
  /\ \A d \in Calls :
       /\ Shaped(d)'
       /\ calls[d].at # "waiting" => Follows(calls[d], calls'[d])
       /\ calls[d].at = "waiting" => calls'[d] = calls[d]

Typed == TypeOK /\ \A c \in Calls : Shaped(c)

LEMMA TypedCalls ==
  ASSUME Typed
  PROVE  /\ calls \in [Calls -> CallState]
         /\ \A c \in Calls : calls[c] \in CallState /\ Shape(calls[c])
<1>1. calls \in [Calls -> CallState] BY DEF Typed, TypeOK, CallState
<1> QED BY <1>1 DEF Typed, Shaped

LEMMA ShapedNext ==
  ASSUME driver' = driver, NEW d \in Calls, Shape(calls'[d])
  PROVE  Shaped(d)'
BY DEF Shaped, Shape, Due, Idle, Rests

\* One call moves, or none does.
LEMMA OneFollows ==
  ASSUME Typed, driver' = driver, NEW c \in Calls, NEW l \in CallState, Shape(l),
         calls[c].at # "waiting", Follows(calls[c], l), calls' = [calls EXCEPT ![c] = l]
  PROVE  CallsFollow /\ calls'[c] = l /\ \A d \in Calls \ {c} : calls'[d] = calls[d]
<1>1. /\ calls' \in [Calls -> CallState] /\ calls'[c] = l
      /\ \A d \in Calls \ {c} : calls'[d] = calls[d]
  BY TypedCalls
<1>2. ASSUME NEW d \in Calls
      PROVE  /\ Shaped(d)'
             /\ calls[d].at # "waiting" => Follows(calls[d], calls'[d])
             /\ calls[d].at = "waiting" => calls'[d] = calls[d]
  <2>1. Shape(calls'[d]) BY <1>1, TypedCalls
  <2> QED BY <1>1, <2>1, ShapedNext, FollowsItself
<1> QED BY <1>1, <1>2 DEF CallsFollow

LEMMA NoneFollow ==
  ASSUME Typed, driver' = driver, calls' = calls
  PROVE  CallsFollow
<1>1. ASSUME NEW d \in Calls
      PROVE  Shaped(d)' /\ (calls[d].at # "waiting" => Follows(calls[d], calls'[d]))
  BY <1>1, TypedCalls, ShapedNext, FollowsItself
<1> QED BY <1>1, TypedCalls DEF CallsFollow

\* Every call moves, each by itself.
LEMMA AllFollow ==
  ASSUME Typed, driver' = driver, NEW table \in [Calls -> CallState], calls' = table,
         \A d \in Calls : /\ Shape(table[d])
                          /\ calls[d].at # "waiting" => Follows(calls[d], table[d])
                          /\ calls[d].at = "waiting" => table[d] = calls[d]
  PROVE  CallsFollow
BY ShapedNext DEF CallsFollow

AdvancedCall(k) ==
  [k EXCEPT !.at = IF Len(k.todo) = 1 THEN "done" ELSE "begun", !.todo = Tail(k.todo)]
LEMMA AdvancedIs ==
  ASSUME Typed, NEW c \in Calls
  PROVE  Advanced(c) = [calls EXCEPT ![c] = AdvancedCall(calls[c])]
BY TypedCalls DEF Advanced, AdvancedCall, CallState
LEMMA EndedIs ==
  ASSUME Typed, NEW c \in Calls, NEW how
  PROVE  Ended(c, how) = [calls EXCEPT ![c] = [calls[c] EXCEPT !.at = how]]
BY TypedCalls DEF Ended, CallState

HasAdvanced(c) ==
  /\ calls'[c] = AdvancedCall(calls[c])
  /\ \A d \in Calls \ {c} : calls'[d] = calls[d]
HasEnded(c, how) ==
  /\ calls'[c] = [calls[c] EXCEPT !.at = how]
  /\ \A d \in Calls \ {c} : calls'[d] = calls[d]

LEMMA AdvancedFollows ==
  ASSUME Typed, driver' = driver, NEW c \in Calls, calls[c].at \in Serving,
         calls' = Advanced(c)
  PROVE  CallsFollow /\ HasAdvanced(c)
<1>1. AdvancedCall(calls[c]) \in CallState /\ Shape(AdvancedCall(calls[c]))
      /\ Follows(calls[c], AdvancedCall(calls[c]))
  BY TypedCalls, AdvanceShape DEF AdvancedCall
<1>2. calls[c].at # "waiting" BY DEF Serving
<1> QED BY <1>1, <1>2, AdvancedIs, OneFollows DEF HasAdvanced

LEMMA EndedFollows ==
  ASSUME Typed, driver' = driver, NEW c \in Calls, calls[c].at \in Serving,
         NEW how \in {"refused", "not_found", "failed", "lost"}, calls' = Ended(c, how)
  PROVE  CallsFollow /\ HasEnded(c, how)
<1> DEFINE l == [calls[c] EXCEPT !.at = how]
<1>1. l \in CallState /\ Shape(l) /\ Follows(calls[c], l) BY TypedCalls, EndShape
<1>2. calls[c].at # "waiting" BY DEF Serving
<1>3. calls' = [calls EXCEPT ![c] = l] BY EndedIs
<1> HIDE DEF l
<1>4. CallsFollow /\ calls'[c] = l /\ \A d \in Calls \ {c} : calls'[d] = calls[d]
  BY <1>1, <1>2, <1>3, OneFollows
<1> QED BY <1>4 DEF HasEnded, l

LEMMA AtDue ==
  ASSUME Typed, NEW c \in Calls, NEW step, At(c, step)
  PROVE  /\ calls[c].at = "begun" /\ calls[c].at \in Serving /\ calls[c].at # "waiting"
         /\ Owes(c, step) /\ calls[c].todo \in Rests(calls[c].op)
         /\ calls[c].op \in Asks /\ calls[c].op \in AllAsks
BY TypedCalls, CallsAssumption DEF At, Shape, Owes, Due, Serving

LEMMA WipedFields ==
  ASSUME NEW m \in [Calls -> CallState], NEW d \in Calls
  PROVE  /\ Wiped(m)[d].at = m[d].at /\ Wiped(m)[d].todo = m[d].todo
         /\ Wiped(m)[d].op = m[d].op /\ Wiped(m)[d].stale = m[d].stale
         /\ Wiped(m)[d].known = m[d].known
<1>1. CASE m[d].at = "waiting" BY <1>1 DEF Wiped
<1>2. CASE m[d].at # "waiting"
  <2>1. Wiped(m)[d] = [m[d] EXCEPT !.wiped = TRUE] BY <1>2 DEF Wiped
  <2> QED BY <2>1 DEF CallState
<1> QED BY <1>1, <1>2

LEMMA WipedFollows ==
  ASSUME Typed, driver' = driver, NEW m \in [Calls -> CallState], calls' = Wiped(m),
         \A d \in Calls : /\ Shape(m[d])
                          /\ calls[d].at # "waiting" => Follows(calls[d], m[d])
                          /\ calls[d].at = "waiting" => m[d] = calls[d]
  PROVE  /\ CallsFollow
         /\ \A d \in Calls : /\ calls[d].at # "waiting" => calls'[d].wiped
                             /\ calls[d].at = "waiting" => calls'[d] = calls[d]
<1>1. ASSUME NEW d \in Calls
      PROVE  /\ Wiped(m)[d] \in CallState /\ Shape(Wiped(m)[d])
             /\ calls[d].at # "waiting" => /\ Follows(calls[d], Wiped(m)[d])
                                           /\ Wiped(m)[d].wiped
             /\ calls[d].at = "waiting" => Wiped(m)[d] = calls[d]
  <2>1. CASE calls[d].at = "waiting" BY <2>1, TypedCalls DEF Wiped
  <2>2. CASE calls[d].at # "waiting"
    <3>1. Follows(calls[d], m[d]) /\ Shape(m[d]) /\ m[d] \in CallState BY <2>2
    <3>2. m[d].at # "waiting" BY <3>1 DEF Follows
    <3>3. Wiped(m)[d] = [m[d] EXCEPT !.wiped = TRUE] BY <3>2 DEF Wiped
    <3> QED BY <2>2, <3>1, <3>3, FollowsOnWiped, TypedCalls
  <2> QED BY <2>1, <2>2
<1>2. Wiped(m) \in [Calls -> CallState]
  <2>1. Wiped(m) = [d \in Calls |-> Wiped(m)[d]] BY DEF Wiped
  <2> QED BY <1>1, <2>1
<1>3. CallsFollow BY <1>1, <1>2, AllFollow
<1> QED BY <1>1, <1>3

\* The step of a reset that deletes: every call that has begun may lose what it wrote.
Erased ==
  /\ CallsFollow
  /\ \A d \in Calls : /\ calls[d].at # "waiting" => calls'[d].wiped
                      /\ calls[d].at = "waiting" => calls'[d] = calls[d]

LEMMA WipedAdvancedFollows ==
  ASSUME Typed, driver' = driver, NEW c \in Calls, calls[c].at \in Serving,
         calls' = Wiped(Advanced(c))
  PROVE  /\ Erased /\ calls'[c].at \in {"begun", "done"}
         /\ \A d \in Calls \ {c} : /\ calls'[d].todo = calls[d].todo
                                 /\ calls'[d].at = calls[d].at
                                 /\ calls'[d].stale = calls[d].stale
<1> DEFINE m == [calls EXCEPT ![c] = AdvancedCall(calls[c])]
<1>1. Advanced(c) = m BY AdvancedIs
<1>2. /\ AdvancedCall(calls[c]) \in CallState /\ Shape(AdvancedCall(calls[c]))
      /\ Follows(calls[c], AdvancedCall(calls[c]))
  BY TypedCalls, AdvanceShape DEF AdvancedCall
<1>3. m \in [Calls -> CallState] BY <1>2, TypedCalls
<1>4. ASSUME NEW d \in Calls
      PROVE  /\ Shape(m[d])
             /\ calls[d].at # "waiting" => Follows(calls[d], m[d])
             /\ calls[d].at = "waiting" => m[d] = calls[d]
  <2>1. CASE d = c
    <3>1. calls[c].at # "waiting" BY DEF Serving
    <3> QED BY <2>1, <3>1, <1>2, TypedCalls
  <2>2. CASE d # c BY <2>2, TypedCalls, FollowsItself
  <2> QED BY <2>1, <2>2
<1> HIDE DEF m
<1>5. calls' = Wiped(m) BY <1>1
<1>6. /\ \A d \in Calls \ {c} : m[d] = calls[d]
      /\ m[c] = AdvancedCall(calls[c])
  BY TypedCalls DEF m
<1>7. \A d \in Calls : /\ calls'[d].todo = m[d].todo /\ calls'[d].at = m[d].at
                       /\ calls'[d].stale = m[d].stale
  BY <1>3, <1>5, WipedFields
<1>8. AdvancedCall(calls[c]).at \in {"begun", "done"}
  BY TypedCalls DEF AdvancedCall, CallState
<1> QED BY <1>3, <1>4, <1>5, <1>6, <1>7, <1>8, WipedFollows DEF Erased

KnownId(op) == op.name = "operate" /\ op.id \in Listed(op.project)
BegunCall(op) ==
  [Idle EXCEPT !.at = "begun", !.op = op, !.todo = Steps(op), !.known = KnownId(op)]

LEMMA BegunIs ==
  ASSUME NEW op \in Asks, Steps(op) \in Seq(StepNames)
  PROVE  /\ BegunCall(op) \in CallState
         /\ BegunCall(op).at = "begun" /\ BegunCall(op).op = op
         /\ BegunCall(op).todo = Steps(op) /\ BegunCall(op).known = KnownId(op)
         /\ ~BegunCall(op).wiped /\ ~BegunCall(op).stale
<1>1. KnownId(op) \in BOOLEAN BY DEF KnownId
<1> QED BY <1>1, EmptySeq DEF BegunCall, Idle, CallState

LEMMA BeginCalls ==
  ASSUME Typed, NEW c \in Calls, NEW op \in Asks, driver' = driver,
         calls[c].at = "waiting",
         calls' = [calls EXCEPT ![c] = BegunCall(op)]
  PROVE  /\ calls' \in [Calls -> CallState] /\ \A d \in Calls : Shaped(d)'
         /\ \A d \in Calls \ {c} : calls'[d] = calls[d]
         /\ calls'[c].at = "begun" /\ calls'[c].op = op /\ calls'[c].todo = Steps(op)
         /\ calls'[c].known = KnownId(op)
         /\ ~calls'[c].wiped /\ ~calls'[c].stale
<1>1. op \in AllAsks BY CallsAssumption
<1>2. driver \in AllDrivers BY CallsAssumption DEF Typed, TypeOK
<1>3. Steps(op) \in Rests(op) /\ Steps(op) # << >> BY <1>1, <1>2, StepsAreRests
<1>4. Steps(op) \in Seq(StepNames) BY <1>1, <1>3, RestFacts
<1>5. PICK l : l = BegunCall(op) OBVIOUS
<1>6. /\ l \in CallState /\ l.at = "begun" /\ l.op = op /\ l.todo = Steps(op)
      /\ l.known = KnownId(op) /\ ~l.wiped /\ ~l.stale
  BY <1>4, <1>5, BegunIs
<1>7. l.known => op.name = "operate" BY <1>6 DEF KnownId
<1>8. Shape(l) BY <1>3, <1>6, <1>7 DEF Shape, Serving
<1>9. calls' \in [Calls -> CallState] BY <1>5, <1>6, TypedCalls
<1>10. calls'[c] = l /\ \A d \in Calls \ {c} : calls'[d] = calls[d] BY <1>5, TypedCalls
<1>11. \A d \in Calls : Shape(calls'[d]) BY <1>8, <1>10, TypedCalls
<1>12. \A d \in Calls : Shaped(d)' BY <1>11, ShapedNext
<1> QED BY <1>6, <1>9, <1>10, <1>12

HasOpened(c, at) ==
  /\ calls'[c] = [calls[c] EXCEPT !.at = at]
  /\ \A d \in Calls \ {c} : calls'[d] = calls[d]

LEMMA OpenedFollows ==
  ASSUME Typed, driver' = driver, NEW c \in Calls, calls[c].at = "begun", driver = "file",
         NEW at,
         \/ at = "opened" /\ Owes(c, "blob")
         \/ at = "checked" /\ OwesRow(c),
         calls' = [calls EXCEPT ![c].at = at]
  PROVE  CallsFollow /\ HasOpened(c, at)
<1>1. PICK l : l = [calls[c] EXCEPT !.at = at] OBVIOUS
<1>2. l \in CallState /\ Shape(l) /\ Follows(calls[c], l)
  BY <1>1, TypedCalls, CheckShape, OpenShape DEF Owes, OwesRow
<1>3. calls' = [calls EXCEPT ![c] = l] BY <1>1, TypedCalls
<1> QED BY <1>1, <1>2, <1>3, OneFollows DEF HasOpened

LEMMA ReadStateCalls ==
  ASSUME Typed, NEW c \in Calls, ReadState(c)
  PROVE  /\ CallsFollow /\ Owes(c, "read")
         /\ \/ HasAdvanced(c) /\ blob[calls[c].op.project] # None
            \/ HasEnded(c, "not_found")
            \/ HasEnded(c, "failed")
<1>1. driver' = driver /\ calls[c].at \in Serving /\ Owes(c, "read")
  BY AtDue DEF ReadState
<1>2. CASE blob[calls[c].op.project] = None
  BY <1>1, <1>2, EndedFollows DEF ReadState
<1>3. CASE blob[calls[c].op.project] # None /\ blob[calls[c].op.project] \in Unparsable
  <2>1. calls' = Ended(c, "failed") BY <1>3 DEF ReadState
  <2> QED BY <1>1, <2>1, EndedFollows
<1>4. CASE blob[calls[c].op.project] # None /\ blob[calls[c].op.project] \notin Unparsable
  <2>1. calls' = Advanced(c) BY <1>4 DEF ReadState
  <2> QED BY <1>1, <1>4, <2>1, AdvancedFollows
<1> QED BY <1>2, <1>3, <1>4

LEMMA AppendEntryCalls ==
  ASSUME Typed, NEW c \in Calls, AppendEntry(c)
  PROVE  /\ CallsFollow /\ OwesRow(c) /\ calls[c].at \in Serving
         /\ HasAdvanced(c) \/ HasEnded(c, "refused")
<1>1. PICK step \in Appends : At(c, step) BY DEF AppendEntry
<1>2. calls[c].at \in Serving /\ Owes(c, step) BY <1>1, AtDue
<1> QED BY <1>2, AdvancedFollows, EndedFollows DEF AppendEntry, OwesRow

LEMMA LoadSeenCalls ==
  ASSUME Typed, NEW c \in Calls, LoadSeen(c)
  PROVE  /\ CallsFollow /\ OwesRow(c) /\ calls[c].at = "begun"
         /\ HasOpened(c, "checked") \/ HasEnded(c, "refused")
<1>1. PICK step \in Appends : At(c, step) BY DEF LoadSeen
<1>2. calls[c].at = "begun" /\ Owes(c, step) BY <1>1, AtDue
<1> QED BY <1>2, OpenedFollows, EndedFollows DEF LoadSeen, OwesRow, Serving

\* An open file that is removed: its writer is stale, and wiped at once.
LEMMA StaleWipedShape ==
  ASSUME NEW k \in CallState, Shape(k), k.at = "opened",
         NEW m, m = [k EXCEPT !.stale = TRUE], NEW l, l = [m EXCEPT !.wiped = TRUE]
  PROVE  /\ m.at = k.at /\ l \in CallState /\ Shape(l) /\ Follows(k, l) /\ l.wiped
         /\ l.at = k.at /\ l.todo = k.todo /\ l.stale
<1>1. /\ m.at = k.at /\ m.todo = k.todo /\ m.op = k.op /\ m.known = k.known
      /\ m.stale = TRUE /\ m \in CallState
  BY DEF CallState
<1>2. /\ l.at = m.at /\ l.todo = m.todo /\ l.op = m.op /\ l.known = m.known
      /\ l.wiped = TRUE /\ l.stale = m.stale /\ l \in CallState
  BY <1>1 DEF CallState
<1>3. Shape(l) BY <1>1, <1>2 DEF Shape, Serving, Due
<1> QED BY <1>1, <1>2, <1>3 DEF Follows

LEMMA RemoveFileCalls ==
  ASSUME Typed, NEW c \in Calls, RemoveFile(c)
  PROVE  /\ Erased
         /\ \A d \in Calls :
              /\ calls'[d].at = calls[d].at /\ calls'[d].todo = calls[d].todo
              /\ \/ calls'[d].stale = calls[d].stale
                 \/ blob'[calls[d].op.project] = None /\ calls'[d].stale
              /\ calls[d].at = "opened" =>
                   calls'[d].stale \/ blob'[calls[d].op.project] = blob[calls[d].op.project]
<1>1. driver' = driver BY DEF RemoveFile
<1>2. PICK p \in Projects :
        \/ /\ blob' = [blob EXCEPT ![p] = None]
           /\ calls' = Wiped([d \in Calls |->
                             IF calls[d].at = "opened" /\ calls[d].op.project = p
                             THEN [calls[d] EXCEPT !.stale = TRUE] ELSE calls[d]])
        \/ blob' = blob /\ calls' = Wiped(calls)
  BY DEF RemoveFile
<1>3. CASE blob' = blob /\ calls' = Wiped(calls)
  <2>1. PICK m : m = calls OBVIOUS
  <2>2. Erased BY <1>1, <1>3, <2>1, TypedCalls, FollowsItself, WipedFollows DEF Erased
  <2>3. calls \in [Calls -> CallState] BY TypedCalls
  <2> QED BY <1>3, <2>2, <2>3, WipedFields
<1>4. CASE ~(blob' = blob /\ calls' = Wiped(calls))
  <2>1. PICK m : m = [d \in Calls |->
                        IF calls[d].at = "opened" /\ calls[d].op.project = p
                        THEN [calls[d] EXCEPT !.stale = TRUE] ELSE calls[d]]
    OBVIOUS
  <2>2. calls' = Wiped(m) BY <1>2, <1>4, <2>1
  <2>3. ASSUME NEW d \in Calls
        PROVE  /\ Wiped(m)[d] \in CallState /\ Shape(Wiped(m)[d])
               /\ calls[d].at # "waiting" => /\ Follows(calls[d], Wiped(m)[d])
                                             /\ Wiped(m)[d].wiped
               /\ calls[d].at = "waiting" => Wiped(m)[d] = calls[d]
               /\ Wiped(m)[d].at = calls[d].at /\ Wiped(m)[d].todo = calls[d].todo
               /\ \/ Wiped(m)[d].stale = calls[d].stale
                  \/ calls[d].op.project = p /\ Wiped(m)[d].stale
               /\ calls[d].at = "opened" /\ calls[d].op.project = p => Wiped(m)[d].stale
    <3>1. CASE calls[d].at = "opened" /\ calls[d].op.project = p
      <4>1. m[d] = [calls[d] EXCEPT !.stale = TRUE] BY <2>1, <3>1
      <4>2. m[d].at = calls[d].at BY <3>1, <4>1, TypedCalls, StaleWipedShape
      <4>3. Wiped(m)[d] = [m[d] EXCEPT !.wiped = TRUE] BY <3>1, <4>2 DEF Wiped
      <4>4. PICK k, n, l : k = calls[d] /\ n = m[d] /\ l = Wiped(m)[d] OBVIOUS
      <4>5. k \in CallState /\ Shape(k) /\ k.at = "opened" BY <3>1, <4>4, TypedCalls
      <4>6. n = [k EXCEPT !.stale = TRUE] /\ l = [n EXCEPT !.wiped = TRUE]
        BY <4>1, <4>3, <4>4
      <4>7. /\ l \in CallState /\ Shape(l) /\ Follows(k, l) /\ l.wiped
            /\ l.at = k.at /\ l.todo = k.todo /\ l.stale
        BY <4>5, <4>6, StaleWipedShape
      <4> QED BY <3>1, <4>4, <4>7
    <3>2. CASE ~(calls[d].at = "opened" /\ calls[d].op.project = p)
      <4>1. m[d] = calls[d] BY <2>1, <3>2
      <4>2. CASE calls[d].at = "waiting" BY <4>1, <4>2, TypedCalls DEF Wiped
      <4>3. CASE calls[d].at # "waiting"
        <5>1. Wiped(m)[d] = [calls[d] EXCEPT !.wiped = TRUE] BY <4>1, <4>3 DEF Wiped
        <5>2. /\ Wiped(m)[d].at = calls[d].at /\ Wiped(m)[d].todo = calls[d].todo
              /\ Wiped(m)[d].stale = calls[d].stale
          BY <5>1, TypedCalls DEF CallState
        <5>3. PICK k, l : k = calls[d] /\ l = Wiped(m)[d] OBVIOUS
        <5>4. k \in CallState /\ Shape(k) /\ Follows(k, k)
          BY <4>3, <5>3, TypedCalls, FollowsItself
        <5>5. l = [k EXCEPT !.wiped = TRUE] BY <5>1, <5>3
        <5>6. l \in CallState /\ Shape(l) /\ Follows(k, l) /\ l.wiped
          BY <5>4, <5>5, FollowsOnWiped
        <5> QED BY <3>2, <4>3, <5>2, <5>3, <5>6
      <4> QED BY <4>2, <4>3
    <3> QED BY <3>1, <3>2
  <2>4. Wiped(m) \in [Calls -> CallState]
    <3>1. Wiped(m) = [d \in Calls |-> Wiped(m)[d]] BY DEF Wiped
    <3> QED BY <2>3, <3>1
  <2>5. CallsFollow BY <1>1, <2>2, <2>3, <2>4, AllFollow
  <2>6. blob'[p] = None /\ \A q \in Projects \ {p} : blob'[q] = blob[q]
    BY <1>2, <1>4 DEF Typed, TypeOK
  <2>7. \A d \in Calls : calls[d].at = "opened" => calls[d].op.project \in Projects
    BY TypedCalls, CallsAssumption, RestFacts, AskProject DEF Shape, Due
  <2> QED BY <2>2, <2>3, <2>5, <2>6, <2>7 DEF Erased
<1> QED BY <1>3, <1>4

\* After a reset of the files: the call has ended, those that hold a set of seen
\* ids go on with it.
LEMMA ForgetSeenCalls ==
  ASSUME Typed, NEW c \in Calls, ForgetSeen(c)
  PROVE  /\ CallsFollow /\ calls'[c].wiped /\ calls'[c].at = "done"
         /\ calls[c].op.name = "reset"
         /\ \A d \in Calls : calls'[d].todo = calls[d].todo
         /\ \A d \in Calls \ {c} :
              /\ calls'[d].wiped = calls[d].wiped /\ calls'[d].at = calls[d].at
              /\ calls[d].at = "checked" => calls'[d].stale
              /\ calls[d].at # "checked" => calls'[d].stale = calls[d].stale
<1>1. /\ driver' = driver /\ calls[c].at = "begun" /\ calls[c].at \in Serving
      /\ calls[c].op.name = "reset" /\ calls[c].op \in Asks
      /\ calls[c].todo \in Rests(calls[c].op)
  BY AtDue, RestFacts DEF ForgetSeen, Owes, Due
<1>2. PICK table : /\ calls' = table
                   /\ table = [d \in Calls |->
                        IF d = c THEN [Ended(c, "done")[c] EXCEPT !.wiped = TRUE]
                        ELSE IF calls[d].at = "checked" THEN [calls[d] EXCEPT !.stale = TRUE]
                        ELSE calls[d]]
  BY DEF ForgetSeen
<1>3. ASSUME NEW d \in Calls
      PROVE  /\ table[d] \in CallState /\ Shape(table[d])
             /\ calls[d].at # "waiting" => Follows(calls[d], table[d])
             /\ calls[d].at = "waiting" => table[d] = calls[d]
             /\ d = c => table[d].wiped /\ table[d].at = "done"
             /\ table[d].todo = calls[d].todo
             /\ d # c => /\ table[d].wiped = calls[d].wiped /\ table[d].at = calls[d].at
                         /\ calls[d].at = "checked" => table[d].stale
                         /\ calls[d].at # "checked" => table[d].stale = calls[d].stale
  <2>1. CASE d = c
    <3>1. PICK m : m = [calls[c] EXCEPT !.at = "done"] OBVIOUS
    <3>2. Ended(c, "done")[c] = m BY <3>1, TypedCalls, EndedIs
    <3>3. /\ m.at = "done" /\ m.todo = calls[c].todo /\ m.op = calls[c].op
          /\ m.known = calls[c].known /\ m.wiped = calls[c].wiped
          /\ m.stale = calls[c].stale /\ m \in CallState
      BY <3>1, TypedCalls DEF CallState
    <3>4. Shape(m) /\ Follows(calls[c], m)
      BY <1>1, <3>3, TypedCalls DEF Shape, Serving, Due, Follows
    <3>5. table[d] = [m EXCEPT !.wiped = TRUE] BY <1>2, <2>1, <3>2
    <3>6. table[d].todo = m.todo /\ table[d].at = m.at BY <3>3, <3>5 DEF CallState
    <3> QED BY <1>1, <2>1, <3>3, <3>4, <3>5, <3>6, TypedCalls, FollowsOnWiped DEF Serving
  <2>2. CASE d # c /\ calls[d].at = "checked"
    <3>1. table[d] = [calls[d] EXCEPT !.stale = TRUE] BY <1>2, <2>2
    <3>2. /\ table[d].wiped = calls[d].wiped /\ table[d].at = calls[d].at
          /\ table[d].todo = calls[d].todo /\ table[d].stale
      BY <3>1, TypedCalls DEF CallState
    <3> QED BY <2>2, <3>1, <3>2, TypedCalls, StaleShape
  <2>3. CASE d # c /\ calls[d].at # "checked"
    BY <1>2, <2>3, TypedCalls, FollowsItself
  <2> QED BY <2>1, <2>2, <2>3
<1>4. table \in [Calls -> CallState]
  <2>1. table = [d \in Calls |-> table[d]] BY <1>2
  <2> QED BY <1>3, <2>1
<1>5. CallsFollow BY <1>1, <1>2, <1>3, <1>4, AllFollow
<1> QED BY <1>1, <1>2, <1>3, <1>5

LEMMA ServerStopsCalls ==
  ASSUME Typed, ServerStops
  PROVE  /\ CallsFollow
         /\ driver = "memory" => Erased
         /\ \A d \in Calls :
              /\ calls'[d].at \notin Serving
              /\ calls'[d].todo = calls[d].todo /\ calls'[d].op = calls[d].op
              /\ calls'[d].stale = calls[d].stale
              /\ calls[d].at \in Serving => calls'[d].at = "lost"
              /\ calls[d].at \notin Serving => calls'[d].at = calls[d].at
              /\ driver # "memory" => calls'[d].wiped = calls[d].wiped
<1> DEFINE cut == [c \in Calls |-> IF c \in InFlight THEN [calls[c] EXCEPT !.at = "lost"]
                                   ELSE calls[c]]
<1>1. driver' = driver /\ calls' = IF driver = "memory" THEN Wiped(cut) ELSE cut
  BY DEF ServerStops
<1>2. PICK m : m = cut OBVIOUS
<1>3. calls' = IF driver = "memory" THEN Wiped(m) ELSE m BY <1>1, <1>2
<1>4. ASSUME NEW d \in Calls
      PROVE  /\ m[d] \in CallState /\ Shape(m[d])
             /\ calls[d].at # "waiting" => Follows(calls[d], m[d])
             /\ calls[d].at = "waiting" => m[d] = calls[d]
             /\ m[d].at \notin Serving
             /\ m[d].todo = calls[d].todo /\ m[d].op = calls[d].op
             /\ m[d].stale = calls[d].stale /\ m[d].wiped = calls[d].wiped
             /\ calls[d].at \in Serving => m[d].at = "lost"
             /\ calls[d].at \notin Serving => m[d].at = calls[d].at
  <2>1. CASE calls[d].at \in Serving
    <3>1. m[d] = [calls[d] EXCEPT !.at = "lost"] BY <1>2, <2>1 DEF InFlight, Serving
    <3>2. m[d] \in CallState /\ Shape(m[d]) /\ Follows(calls[d], m[d])
      BY <2>1, <3>1, TypedCalls, EndShape
    <3>3. /\ m[d].at = "lost" /\ m[d].todo = calls[d].todo /\ m[d].op = calls[d].op
          /\ m[d].stale = calls[d].stale /\ m[d].wiped = calls[d].wiped
      BY <3>1, TypedCalls DEF CallState
    <3> QED BY <2>1, <3>2, <3>3 DEF Serving
  <2>2. CASE calls[d].at \notin Serving
    <3>1. m[d] = calls[d] BY <1>2, <2>2 DEF InFlight, Serving
    <3> QED BY <2>2, <3>1, TypedCalls, FollowsItself
  <2> QED BY <2>1, <2>2
<1> HIDE DEF cut
<1>5. m \in [Calls -> CallState]
  <2>1. m = [d \in Calls |-> m[d]] BY <1>2 DEF cut
  <2> QED BY <1>4, <2>1
<1>6. CASE driver # "memory"
  <2>1. calls' = m BY <1>3, <1>6
  <2>2. CallsFollow BY <1>1, <1>4, <1>5, <2>1, AllFollow
  <2> QED BY <1>4, <1>6, <2>1, <2>2
<1>7. CASE driver = "memory"
  <2>1. calls' = Wiped(m) BY <1>3, <1>7
  <2>2. Erased BY <1>1, <1>4, <1>5, <2>1, WipedFollows DEF Erased
  <2>3. ASSUME NEW d \in Calls
        PROVE  /\ calls'[d].at = m[d].at /\ calls'[d].todo = m[d].todo
               /\ calls'[d].op = m[d].op /\ calls'[d].stale = m[d].stale
    <3>1. CASE m[d].at = "waiting" BY <2>1, <3>1 DEF Wiped
    <3>2. CASE m[d].at # "waiting"
      <4>1. calls'[d] = [m[d] EXCEPT !.wiped = TRUE] BY <2>1, <3>2 DEF Wiped
      <4> QED BY <1>4, <4>1 DEF CallState
    <3> QED BY <3>1, <3>2
  <2> QED BY <1>4, <1>7, <2>2, <2>3 DEF Erased
<1> QED BY <1>6, <1>7

\* Every step but the beginning of a call makes each call follow itself.
LEMMA NextCalls ==
  ASSUME Typed, Next
  PROVE  CallsFollow \/ \E c \in Calls : Begin(c)
<1>1. CASE ServerStops BY <1>1, ServerStopsCalls
<1>2. ASSUME NEW c \in Calls,
             \/ Bootstrap(c) \/ BootstrapRejected(c) \/ StorageFails(c)
      PROVE  CallsFollow
  <2>1. driver' = driver BY <1>2 DEF Bootstrap, BootstrapRejected, StorageFails
  <2>2. calls[c].at \in Serving
    BY <1>2 DEF Bootstrap, BootstrapRejected, StorageFails, Serving, InFlight
  <2>3. calls' = calls \/ calls' = Ended(c, "failed")
    BY <1>2 DEF Bootstrap, BootstrapRejected, StorageFails
  <2> QED BY <2>1, <2>2, <2>3, NoneFollow, EndedFollows
<1>3. ASSUME NEW c \in Calls, ListProjects(c) PROVE CallsFollow
  BY <1>3, AtDue, AdvancedFollows, EndedFollows DEF ListProjects
<1>4. ASSUME NEW c \in Calls, SaveState(c) \/ CreateProject(c) PROVE CallsFollow
  BY <1>4, AtDue, AdvancedFollows DEF SaveState, CreateProject
<1>5. ASSUME NEW c \in Calls, WriteFile(c) \/ AppendFile(c) PROVE CallsFollow
  BY <1>5, AdvancedFollows DEF WriteFile, AppendFile, Serving
<1>6. ASSUME NEW c \in Calls, OpenFile(c) PROVE CallsFollow
  BY <1>6, AtDue, OpenedFollows DEF OpenFile
<1>7. ASSUME NEW c \in Calls, LoadSeenFails(c) PROVE CallsFollow
  <2>1. PICK step \in Appends : At(c, step) BY <1>7 DEF LoadSeenFails
  <2> QED BY <1>7, <2>1, AtDue, EndedFollows DEF LoadSeenFails
<1>8. ASSUME NEW c \in Calls, ResetMemory(c) \/ DeleteLogs(c) \/ DeleteProjects(c)
      PROVE  CallsFollow
  BY <1>8, AtDue, WipedAdvancedFollows DEF ResetMemory, DeleteLogs, DeleteProjects, Erased
<1>9. ASSUME NEW c \in Calls,
             \/ ReadState(c) \/ AppendEntry(c) \/ LoadSeen(c) \/ RemoveFile(c)
             \/ ForgetSeen(c)
      PROVE  CallsFollow
  BY <1>9, ReadStateCalls, AppendEntryCalls, LoadSeenCalls, RemoveFileCalls,
     ForgetSeenCalls DEF Erased
<1> QED BY <1>1, <1>2, <1>3, <1>4, <1>5, <1>6, <1>7, <1>8, <1>9 DEF Next

-----------------------------------------------------------------------------
(* Types *)

\* What a call appends, and where.
LEMMA NextEntryTyped ==
  ASSUME Typed, NEW c \in Calls, OwesRow(c), calls[c].at # "waiting"
  PROVE  /\ calls[c].op.project \in Projects /\ calls[c].op.name \in {"create", "operate"}
         /\ NextEntry(c) \in Entries /\ NextEntry(c) # Torn
         /\ Owes(c, "entry") => calls[c].op.name = "operate" /\ NextEntry(c) = calls[c].op.id
         /\ \A event \in Events :
              Owes(c, event) => calls[c].op.name = "create" /\ NextEntry(c) = Row(c, event)
<1>1. calls[c].op \in AllAsks /\ calls[c].todo \in Rests(calls[c].op)
  BY TypedCalls, CallsAssumption DEF Shape
<1>2. /\ calls[c].todo # << >> /\ Head(calls[c].todo) \in Appends
      /\ \A step : Owes(c, step) => Head(calls[c].todo) = step
  BY DEF OwesRow, Owes, Due
<1>3. CASE Head(calls[c].todo) = "entry"
  <2>1. calls[c].op.name = "operate" BY <1>1, <1>2, <1>3, RestFacts
  <2>2. NextEntry(c) = calls[c].op.id BY <1>3 DEF NextEntry
  <2>3. NextEntry(c) \in Entries BY <1>1, <2>1, <2>2, AskProject DEF Entries
  <2> QED BY <1>1, <1>2, <1>3, <2>1, <2>2, <2>3, AskProject, CallsAssumption DEF Events
<1>4. CASE Head(calls[c].todo) \in Events
  <2>1. calls[c].op.name = "create" BY <1>1, <1>2, <1>4, RestFacts DEF Events
  <2>2. NextEntry(c) = Row(c, Head(calls[c].todo)) BY <1>4 DEF NextEntry, Events
  <2>3. NextEntry(c) \in Entries BY <1>4, <2>2 DEF Entries, Row
  <2> QED BY <1>1, <1>2, <1>4, <2>1, <2>2, <2>3, AskProject, CallsAssumption DEF Events
<1> QED BY <1>2, <1>3, <1>4 DEF Appends

Logs == [Projects -> Seq(Entries \union {Torn})]

LEMMA LogAppended ==
  ASSUME log \in Logs, NEW p \in Projects, NEW e \in Entries,
         log' = [log EXCEPT ![p] = Append(@, e)]
  PROVE  /\ log' \in Logs
         /\ \A q \in Projects \ {p} : log'[q] = log[q]
         /\ log'[p] = Append(log[p], e)
         /\ Len(log'[p]) = Len(log[p]) + 1 /\ Len(log[p]) \in Nat
         /\ \A i \in 1..Len(log[p]) : log'[p][i] = log[p][i]
         /\ log'[p][Len(log[p]) + 1] = e
<1>1. log'[p] = Append(log[p], e) /\ log[p] \in Seq(Entries \union {Torn}) BY DEF Logs
<1>2. log' \in Logs BY <1>1, AppendProperties DEF Logs
<1> QED BY <1>1, <1>2, AppendProperties

LEMMA ListedSame ==
  ASSUME NEW p \in Projects, log'[p] = log[p]
  PROVE  Listed(p)' = Listed(p) /\ (BrokenLog(p)' <=> BrokenLog(p))
BY DEF Listed, BrokenLog

LEMMA ListedAppended ==
  ASSUME log \in Logs, NEW p \in Projects, NEW e \in Entries,
         log' = [log EXCEPT ![p] = Append(@, e)]
  PROVE  /\ Listed(p)' = Listed(p) \union {e}
         /\ BrokenLog(p)' <=> BrokenLog(p)
<1>1. /\ Len(log'[p]) = Len(log[p]) + 1 /\ Len(log[p]) \in Nat
      /\ \A i \in 1..Len(log[p]) : log'[p][i] = log[p][i]
      /\ log'[p][Len(log[p]) + 1] = e
  BY LogAppended
<1>2. e # Torn BY CallsAssumption
<1>3. 1..Len(log'[p]) = (1..Len(log[p])) \union {Len(log[p]) + 1} BY <1>1
<1> QED BY <1>1, <1>2, <1>3 DEF Listed, BrokenLog

\* A line that is cut off is no row, and is the last.
LEMMA TornAppended ==
  ASSUME log \in Logs, NEW p \in Projects, log'[p] = Append(log[p], Torn)
  PROVE  /\ Listed(p)' = Listed(p) /\ BrokenLog(p)'
         /\ Len(log'[p]) = Len(log[p]) + 1 /\ Len(log[p]) \in Nat
         /\ \A i \in 1..Len(log[p]) : log'[p][i] = log[p][i]
         /\ log'[p][Len(log[p]) + 1] = Torn
<1>1. log[p] \in Seq(Entries \union {Torn}) BY DEF Logs
<1>2. /\ Len(log'[p]) = Len(log[p]) + 1 /\ Len(log[p]) \in Nat
      /\ \A i \in 1..Len(log[p]) : log'[p][i] = log[p][i]
      /\ log'[p][Len(log[p]) + 1] = Torn
  BY <1>1, AppendProperties
<1>3. 1..Len(log'[p]) = (1..Len(log[p])) \union {Len(log[p]) + 1} BY <1>2
<1> QED BY <1>2, <1>3 DEF Listed, BrokenLog

LEMMA ListedEmptied ==
  ASSUME NEW p \in Projects, log'[p] = << >>
  PROVE  Listed(p)' = {} /\ ~BrokenLog(p)'
<1>1. Len(log'[p]) = 0 OBVIOUS
<1> QED BY <1>1 DEF Listed, BrokenLog

LEMMA ListedFirst ==
  ASSUME NEW p \in Projects, NEW e \in Entries, log'[p] = <<e>>
  PROVE  Listed(p)' = {e} /\ ~BrokenLog(p)'
<1>1. Len(log'[p]) = 1 /\ log'[p][1] = e OBVIOUS
<1>2. e # Torn BY CallsAssumption
<1> QED BY <1>1, <1>2 DEF Listed, BrokenLog

\* An append adds to the ids of its own log.
LEMMA AppendFileSeen ==
  ASSUME TypeOK, NEW c \in Calls, AppendFile(c), NEW p \in Projects,
         calls[c].op.project = p
  PROVE  /\ \A q \in Projects \ {p} : seen'[q] = seen[q]
         /\ seen'[p].loaded = seen[p].loaded
         /\ seen'[p].ids = IF calls[c].stale THEN seen[p].ids
                           ELSE seen[p].ids \union {NextEntry(c)}
<1>1. PICK ids : /\ ids = IF calls[c].stale THEN seen[p].ids
                          ELSE seen[p].ids \union {NextEntry(c)}
                 /\ seen' = [seen EXCEPT ![p].ids = ids]
  BY DEF AppendFile
<1>2. seen \in [Projects -> [loaded : BOOLEAN, ids : SUBSET Entries]] BY DEF TypeOK
<1>3. seen'[p] = [seen[p] EXCEPT !.ids = ids] /\ \A q \in Projects \ {p} : seen'[q] = seen[q]
  BY <1>1, <1>2
<1>4. seen'[p].ids = ids /\ seen'[p].loaded = seen[p].loaded BY <1>2, <1>3
<1> QED BY <1>1, <1>3, <1>4

\* What a step adds to crossed.
Crosses ==
  \/ crossed' = crossed
  \/ \E c \in Calls :
       /\ OpenFile(c) /\ calls[c].at = "begun"
       /\ crossed' = Crossed(c, "opened", Writers(calls[c].op.project))
  \/ \E c \in Calls :
       /\ LoadSeen(c) /\ calls[c].at = "begun"
       /\ crossed' = Crossed(c, "checked", Appenders(calls[c].op.project, NextEntry(c)))

LEMMA StepCrosses ==
  ASSUME Next
  PROVE  Crosses
<1>1. ASSUME NEW c \in Calls, OpenFile(c) PROVE Crosses
  BY <1>1 DEF OpenFile, At, Crosses
<1>2. ASSUME NEW c \in Calls, LoadSeen(c) PROVE Crosses
  <2>1. \/ crossed' = crossed
        \/ crossed' = Crossed(c, "checked", Appenders(calls[c].op.project, NextEntry(c)))
    BY <1>2 DEF LoadSeen
  <2> QED BY <1>2, <2>1 DEF LoadSeen, At, Crosses
<1>3. ASSUME NEW c \in Calls,
             \/ Begin(c)         \/ Bootstrap(c)      \/ BootstrapRejected(c)
             \/ ReadState(c)     \/ ListProjects(c)   \/ SaveState(c)
             \/ WriteFile(c)     \/ CreateProject(c)  \/ AppendEntry(c)
             \/ LoadSeenFails(c) \/ AppendFile(c)     \/ ResetMemory(c)
             \/ DeleteLogs(c)    \/ DeleteProjects(c) \/ RemoveFile(c)
             \/ ForgetSeen(c)    \/ StorageFails(c)
      PROVE  crossed' = crossed
  BY <1>3 DEF Begin, Bootstrap, BootstrapRejected, ReadState, ListProjects, SaveState,
     WriteFile, CreateProject, AppendEntry, LoadSeenFails, AppendFile, ResetMemory,
     DeleteLogs, DeleteProjects, RemoveFile, ForgetSeen, StorageFails
<1>4. CASE ServerStops BY <1>4 DEF ServerStops, Crosses
<1> QED BY <1>1, <1>2, <1>3, <1>4 DEF Next, Crosses

LEMMA CrossedGrows ==
  ASSUME Next
  PROVE  crossed \subseteq crossed'
BY StepCrosses DEF Crosses, Crossed

LEMMA CrossedTyped ==
  ASSUME TypeOK, Next
  PROVE  crossed' \subseteq Calls \X {"opened", "checked"}
<1>1. ASSUME NEW c \in Calls, NEW stage \in {"opened", "checked"}, NEW others \in SUBSET Calls
      PROVE  Crossed(c, stage, others) \subseteq Calls \X {"opened", "checked"}
  BY <1>1 DEF Crossed, TypeOK
<1>2. \A p : Writers(p) \in SUBSET Calls BY DEF Writers
<1>3. \A p, e : Appenders(p, e) \in SUBSET Calls BY DEF Appenders
<1> QED BY <1>1, <1>2, <1>3, StepCrosses DEF Crosses, TypeOK

LEMMA TypesNext ==
  ASSUME Typed, Next
  PROVE  Typed'
<1> USE DEF Typed
<1>0. driver' = driver
  BY DEF Next, Begin, Bootstrap, BootstrapRejected, ReadState, ListProjects, SaveState,
         OpenFile, WriteFile, CreateProject, AppendEntry, LoadSeen, LoadSeenFails, AppendFile,
         ResetMemory, DeleteLogs, DeleteProjects, RemoveFile, ForgetSeen, StorageFails,
         ServerStops
<1>1. calls' \in [Calls -> CallState] /\ \A d \in Calls : Shaped(d)'
  <2>1. ASSUME NEW c \in Calls, Begin(c)
        PROVE  calls' \in [Calls -> CallState] /\ \A d \in Calls : Shaped(d)'
    <3>1. PICK op \in Asks : /\ calls[c].at = "waiting"
                             /\ calls' = [calls EXCEPT ![c] = BegunCall(op)]
      BY <2>1, Zenon DEF Begin, BegunCall, KnownId
    <3> QED BY <1>0, <3>1, BeginCalls
  <2> QED BY <2>1, NextCalls DEF CallsFollow
<1>2. /\ driver # "file" => \A c \in Calls : calls'[c].at \notin {"checked", "opened"}
      /\ crossed' \subseteq Calls \X {"opened", "checked"}
  BY <1>0, <1>1, CrossedTyped DEF Shaped, Shape
<1>3. ASSUME UNCHANGED <<blob, log, seen, boot, faults>> PROVE TypeOK'
  BY <1>0, <1>1, <1>2, <1>3 DEF TypeOK, CallState, BrokenLog
<1>4. ASSUME NEW c \in Calls, Begin(c) PROVE TypeOK' BY <1>3, <1>4 DEF Begin
<1>5. ASSUME NEW c \in Calls, Bootstrap(c) \/ StorageFails(c) PROVE TypeOK'
  <2>1. UNCHANGED <<blob, log, seen>> /\ boot' \in {"unset", "made", "rejected"}
    BY <1>5 DEF Bootstrap, StorageFails, TypeOK
  <2>2. faults' \in 0..MaxFaults BY <1>5, BoundsAssumption DEF Bootstrap, StorageFails, TypeOK
  <2> QED BY <1>0, <1>1, <1>2, <2>1, <2>2 DEF TypeOK, CallState, BrokenLog
<1>6. ASSUME NEW c \in Calls,
             BootstrapRejected(c) \/ ReadState(c) \/ ListProjects(c) \/ LoadSeenFails(c)
      PROVE  TypeOK'
  BY <1>3, <1>6 DEF BootstrapRejected, ReadState, ListProjects, LoadSeenFails
<1>7. ASSUME UNCHANGED <<log, seen, boot, faults>>, blob' \in [Projects -> Snapshots],
             driver # "file" => \A p \in Projects : blob'[p] \notin Unparsable
      PROVE  TypeOK'
  BY <1>0, <1>1, <1>2, <1>7 DEF TypeOK, CallState, BrokenLog
<1>8. ASSUME NEW c \in Calls PROVE c \in Snapshots /\ c \notin Unparsable
  BY <1>8, CallsAssumption DEF Snapshots, Unparsable
<1>9. ASSUME NEW c \in Calls, SaveState(c) PROVE TypeOK'
  <2>1. blob' = [blob EXCEPT ![calls[c].op.project] = c] BY <1>9 DEF SaveState
  <2>2. blob' \in [Projects -> Snapshots] BY <1>8, <2>1 DEF TypeOK
  <2>3. driver # "file" => \A p \in Projects : blob'[p] \notin Unparsable
    BY <1>8, <2>1 DEF TypeOK
  <2> QED BY <1>7, <1>9, <2>2, <2>3 DEF SaveState
<1>10. ASSUME NEW c \in Calls, OpenFile(c) PROVE TypeOK'
  <2>1. blob' \in [Projects -> Snapshots] BY <1>10 DEF OpenFile, TypeOK, Snapshots, Unparsable
  <2> QED BY <1>7, <1>10, <2>1 DEF OpenFile
<1>11. ASSUME NEW c \in Calls, WriteFile(c) PROVE TypeOK'
  <2>1. driver = "file" BY <1>11, TypedCalls DEF WriteFile, Shape
  <2>2. calls[c].op.project \in Projects
    <3>1. calls[c].op \in AllAsks /\ calls[c].todo \in Rests(calls[c].op) /\ Owes(c, "blob")
      BY <1>11, TypedCalls, CallsAssumption DEF WriteFile, Shape, Owes
    <3> QED BY <3>1, RestFacts, AskProject DEF Owes, Due
  <2>3. PICK v \in {c, Torn, blob[calls[c].op.project]} :
          blob' = [blob EXCEPT ![calls[c].op.project] = v]
    BY <1>11 DEF WriteFile
  <2>4. v \in Snapshots BY <1>8, <2>2 DEF TypeOK, Snapshots, Unparsable
  <2>5. blob' \in [Projects -> Snapshots] BY <2>3, <2>4 DEF TypeOK
  <2> QED BY <1>7, <1>11, <2>1, <2>5 DEF WriteFile
<1>12. ASSUME NEW c \in Calls, CreateProject(c) PROVE TypeOK'
  <2>1. Row(c, "project_created") \in Entries /\ Row(c, "project_created") # Torn
    BY CallsAssumption DEF Row, Entries, Events
  <2>0. calls[c].op.project \in Projects
    BY <1>12, AtDue, RestFacts, AskProject DEF CreateProject, Owes, Due
  <2>7. log \in Logs BY DEF TypeOK, Logs
  <2>2. log' \in Logs /\ (driver # "file" => \A p \in Projects : ~BrokenLog(p)')
    <3> DEFINE p == calls[c].op.project
    <3>1. CASE driver = "memory"
      <4>1. log' = [log EXCEPT ![p] = <<Row(c, "project_created")>>]
        BY <1>12, <3>1 DEF CreateProject
      <4>6. <<Row(c, "project_created")>> \in Seq(Entries \union {Torn})
        BY <2>1, ShortSequences
      <4>2. log' \in Logs BY <2>7, <4>1, <4>6 DEF Logs
      <4>3. \A q \in Projects : q # p => log'[q] = log[q] BY <2>7, <4>1 DEF Logs
      <4>4. log'[p] = <<Row(c, "project_created")>> BY <2>0, <2>7, <4>1 DEF Logs
      <4>5. \A q \in Projects : ~BrokenLog(q)'
        BY <2>1, <3>1, <4>3, <4>4, ListedSame, ListedFirst DEF TypeOK
      <4> QED BY <4>2, <4>5
    <3>2. CASE driver # "memory"
      <4>1. log' = [log EXCEPT ![p] = Append(@, Row(c, "project_created"))]
        BY <1>12, <3>2 DEF CreateProject
      <4>2. log' \in Logs /\ \A q \in Projects \ {p} : log'[q] = log[q]
        BY <2>0, <2>1, <2>7, <4>1, LogAppended
      <4>3. \A q \in Projects : BrokenLog(q)' <=> BrokenLog(q)
        BY <2>0, <2>1, <2>7, <4>1, <4>2, ListedAppended, ListedSame
      <4> QED BY <4>2, <4>3 DEF TypeOK
    <3> QED BY <3>1, <3>2
  <2>3. blob' \in [Projects -> Snapshots] BY <1>8, <1>12 DEF CreateProject, TypeOK
  <2>4. driver # "file" => \A p \in Projects : blob'[p] \notin Unparsable
    BY <1>8, <1>12 DEF CreateProject, TypeOK
  <2>6. UNCHANGED <<seen, boot, faults>> BY <1>12 DEF CreateProject
  <2> QED BY <1>0, <1>1, <1>2, <2>2, <2>3, <2>4, <2>6 DEF TypeOK, CallState, Logs
<1>13. ASSUME NEW c \in Calls, AppendEntry(c) PROVE TypeOK'
  <2>1. NextEntry(c) \in Entries /\ calls[c].op.project \in Projects
    BY <1>13, AppendEntryCalls, NextEntryTyped DEF Serving
  <2>2. log' = log \/ log' = [log EXCEPT ![calls[c].op.project] = Append(@, NextEntry(c))]
    BY <1>13 DEF AppendEntry
  <2>3. log \in Logs BY DEF TypeOK, Logs
  <2>4. log' \in Logs /\ \A p \in Projects : BrokenLog(p)' <=> BrokenLog(p)
    BY <2>1, <2>2, <2>3, LogAppended, ListedAppended, ListedSame
  <2>5. UNCHANGED <<blob, seen, boot, faults>> BY <1>13 DEF AppendEntry
  <2> QED BY <1>0, <1>1, <1>2, <2>4, <2>5 DEF TypeOK, CallState, Logs
<1>14. ASSUME NEW c \in Calls, LoadSeen(c) PROVE TypeOK'
  <2>1. \A p \in Projects : Listed(p) \subseteq Entries
    BY DEF TypeOK, Listed
  <2>2. seen' \in [Projects -> [loaded : BOOLEAN, ids : SUBSET Entries]]
    <3>1. calls[c].op.project \in Projects BY <1>14, LoadSeenCalls, NextEntryTyped
    <3> DEFINE p == calls[c].op.project
               ids == seen[p].ids \union (IF seen[p].loaded THEN {} ELSE Listed(p))
    <3>2. ids \in SUBSET Entries BY <2>1, <3>1 DEF TypeOK
    <3>3. seen' = [seen EXCEPT ![p] = [loaded |-> TRUE, ids |-> ids]]
      BY <1>14 DEF LoadSeen
    <3> HIDE DEF p, ids
    <3> QED BY <3>2, <3>3 DEF TypeOK
  <2>3. driver = "file" /\ UNCHANGED <<blob, log, boot, faults>> BY <1>14 DEF LoadSeen
  <2> QED BY <1>0, <1>1, <1>2, <2>2, <2>3 DEF TypeOK, CallState
<1>15. ASSUME NEW c \in Calls, AppendFile(c) PROVE TypeOK'
  <2>1. driver = "file" /\ OwesRow(c) /\ calls[c].at # "waiting"
    BY <1>15, TypedCalls DEF AppendFile, Shape, OwesRow, Owes
  <2>2. NextEntry(c) \in Entries /\ calls[c].op.project \in Projects
    BY <2>1, NextEntryTyped
  <2>3. log' \in Logs
    <3>1. log \in Logs BY DEF TypeOK, Logs
    <3>2. log' = [log EXCEPT ![calls[c].op.project] = Append(@, NextEntry(c))]
      BY <1>15 DEF AppendFile
    <3> QED BY <2>2, <3>1, <3>2, LogAppended
  <2>4. seen' \in [Projects -> [loaded : BOOLEAN, ids : SUBSET Entries]]
    <3> DEFINE p == calls[c].op.project
    <3>1. seen' = seen \/ seen' = [seen EXCEPT ![p].ids = @ \union {NextEntry(c)}]
      <4>1. CASE calls[c].stale
        <5>1. seen' = [seen EXCEPT ![p].ids = @] BY <1>15, <4>1 DEF AppendFile
        <5>2. [seen EXCEPT ![p].ids = @] = seen BY <2>2 DEF TypeOK
        <5> QED BY <5>1, <5>2
      <4>2. CASE ~calls[c].stale BY <1>15, <4>2 DEF AppendFile
      <4> QED BY <4>1, <4>2
    <3>2. CASE seen' = [seen EXCEPT ![p].ids = @ \union {NextEntry(c)}]
      <4>1. seen[p].ids \union {NextEntry(c)} \in SUBSET Entries BY <2>2 DEF TypeOK
      <4>2. seen'[p] = [seen[p] EXCEPT !.ids = seen[p].ids \union {NextEntry(c)}]
        BY <2>2, <3>2 DEF TypeOK
      <4>3. seen'[p] \in [loaded : BOOLEAN, ids : SUBSET Entries]
        <5>1. seen[p] \in [loaded : BOOLEAN, ids : SUBSET Entries] BY <2>2 DEF TypeOK
        <5>2. PICK ids \in SUBSET Entries : ids = seen[p].ids \union {NextEntry(c)}
          BY <4>1
        <5>3. seen'[p] = [seen[p] EXCEPT !.ids = ids] BY <4>2, <5>2
        <5> HIDE DEF p
        <5> QED BY <5>1, <5>3
      <4>4. \A q \in Projects \ {p} : seen'[q] = seen[q] BY <3>2 DEF TypeOK
      <4>5. seen' = [q \in Projects |-> seen'[q]] BY <3>2 DEF TypeOK
      <4> QED BY <4>3, <4>4, <4>5 DEF TypeOK
    <3> QED BY <3>1, <3>2 DEF TypeOK
  <2>5. UNCHANGED <<blob, boot, faults>> BY <1>15 DEF AppendFile
  <2> QED BY <1>0, <1>1, <1>2, <2>1, <2>3, <2>4, <2>5 DEF TypeOK, CallState, Logs
<1>16. ASSUME NEW c \in Calls,
              ResetMemory(c) \/ DeleteLogs(c) \/ DeleteProjects(c) \/ RemoveFile(c)
       PROVE  TypeOK'
  <2>1. None \in Snapshots /\ None \notin Unparsable
    BY CallsAssumption DEF Snapshots, Unparsable
  <2>2. blob' = blob \/ blob' = [p \in Projects |-> None]
          \/ \E p \in Projects : blob' = [blob EXCEPT ![p] = None]
    BY <1>16 DEF ResetMemory, DeleteLogs, DeleteProjects, RemoveFile
  <2>3. log' = log \/ log' = [p \in Projects |-> << >>]
          \/ \E p \in Projects : log' = [log EXCEPT ![p] = << >>]
    BY <1>16 DEF ResetMemory, DeleteLogs, DeleteProjects, RemoveFile
  <2>4. blob' \in [Projects -> Snapshots]
    BY <2>1, <2>2 DEF TypeOK
  <2>5. log' \in Logs
    <3>1. << >> \in Seq(Entries \union {Torn}) BY EmptySeq
    <3> QED BY <2>3, <3>1 DEF TypeOK, Logs
  <2>7. \A p \in Projects : blob'[p] = blob[p] \/ blob'[p] = None BY <2>2 DEF TypeOK
  <2>8. \A p \in Projects : log'[p] = log[p] \/ log'[p] = << >> BY <2>3 DEF TypeOK
  <2>9. driver # "file" => \A p \in Projects : blob'[p] \notin Unparsable /\ ~BrokenLog(p)'
    BY <2>1, <2>7, <2>8, ListedSame, ListedEmptied DEF TypeOK
  <2>6. UNCHANGED <<seen, boot, faults>>
    BY <1>16 DEF ResetMemory, DeleteLogs, DeleteProjects, RemoveFile
  <2> QED BY <1>0, <1>1, <1>2, <2>4, <2>5, <2>6, <2>9 DEF TypeOK, CallState, Logs
<1>17. ASSUME NEW c \in Calls, ForgetSeen(c) PROVE TypeOK'
  <2>1. seen' \in [Projects -> [loaded : BOOLEAN, ids : SUBSET Entries]]
    BY <1>17 DEF ForgetSeen, Unread
  <2>2. driver = "file" /\ UNCHANGED <<blob, log, boot, faults>> BY <1>17 DEF ForgetSeen
  <2> QED BY <1>0, <1>1, <1>2, <2>1, <2>2 DEF TypeOK, CallState
<1>18. CASE ServerStops
  <2>1. /\ seen' \in [Projects -> [loaded : BOOLEAN, ids : SUBSET Entries]]
        /\ \A p \in Projects : ~seen'[p].loaded
    BY <1>18 DEF ServerStops, Unread
  <2>2. boot' = "unset" /\ faults' \in 0..MaxFaults
    BY <1>18, BoundsAssumption DEF ServerStops, TypeOK
  <2>3. CASE driver = "memory"
    <3>1. blob' = [p \in Projects |-> None] /\ log' = [p \in Projects |-> << >>]
      BY <1>18, <2>3 DEF ServerStops
    <3>2. blob' \in [Projects -> Snapshots] /\ log' \in [Projects -> Seq(Entries \union {Torn})]
      BY <3>1 DEF Snapshots
    <3>3. \A p \in Projects : blob'[p] \notin Unparsable /\ ~BrokenLog(p)'
      BY <3>1, CallsAssumption DEF Unparsable, BrokenLog
    <3> QED BY <1>0, <1>1, <1>2, <2>1, <2>2, <3>2, <3>3 DEF TypeOK, CallState
  <2>4. CASE driver # "memory"
    <3>1. PICK broken \in SUBSET {calls[c].op.project :
                                c \in {d \in Calls : calls[d].at = "checked"}} :
            log' = [p \in Projects |-> IF p \in broken THEN Append(log[p], Torn) ELSE log[p]]
      BY <1>18, <2>4 DEF ServerStops
    <3>2. log' \in [Projects -> Seq(Entries \union {Torn})] BY <3>1 DEF TypeOK
    <3>3. blob' = blob BY <1>18, <2>4 DEF ServerStops
    <3>4. driver # "file" => broken = {} BY <3>1 DEF TypeOK
    <3>5. driver # "file" => \A p \in Projects : log'[p] = log[p] BY <3>1, <3>4
    <3>6. driver # "file" => \A p \in Projects : ~BrokenLog(p)'
      BY <3>5 DEF TypeOK, BrokenLog
    <3> QED BY <1>0, <1>1, <1>2, <2>1, <2>2, <3>2, <3>3, <3>6 DEF TypeOK, CallState
  <2> QED BY <2>3, <2>4
<1> QED BY <1>1, <1>4, <1>5, <1>6, <1>9, <1>10, <1>11, <1>12, <1>13, <1>14, <1>15, <1>16,
        <1>17, <1>18 DEF Next

-----------------------------------------------------------------------------
(* What a call has written stays *)

Kept ==
  /\ \A p \in Projects : blob[p] # None => blob'[p] # None
  /\ \A p \in Projects : Listed(p) \subseteq Listed(p)'

LEMMA AdvancedFields ==
  ASSUME Typed, NEW c \in Calls, calls[c].at \in Serving, HasAdvanced(c)
  PROVE  /\ calls'[c].op = calls[c].op /\ calls'[c].todo = Tail(calls[c].todo)
         /\ calls'[c].known = calls[c].known /\ calls'[c].wiped = calls[c].wiped
         /\ calls'[c].stale = calls[c].stale
         /\ calls'[c].at \in {"begun", "done"}
         /\ calls[c].at # "waiting" /\ calls[c].todo # << >>
         /\ calls[c].op \in AllAsks /\ calls[c].todo \in Rests(calls[c].op)
<1>1. PICK l : l = AdvancedCall(calls[c]) OBVIOUS
<1>2. l \in CallState BY <1>1, TypedCalls, AdvanceShape DEF AdvancedCall
<1>3. /\ l.op = calls[c].op /\ l.todo = Tail(calls[c].todo) /\ l.known = calls[c].known
      /\ l.wiped = calls[c].wiped /\ l.stale = calls[c].stale
      /\ l.at = IF Len(calls[c].todo) = 1 THEN "done" ELSE "begun"
  BY <1>1, TypedCalls DEF AdvancedCall, CallState
<1> QED BY <1>1, <1>3, TypedCalls, CallsAssumption DEF HasAdvanced, Shape, Serving

LEMMA EndedFields ==
  ASSUME Typed, NEW c \in Calls, calls[c].at \in Serving, NEW how, HasEnded(c, how)
  PROVE  /\ calls'[c].op = calls[c].op /\ calls'[c].todo = calls[c].todo
         /\ calls'[c].known = calls[c].known /\ calls'[c].wiped = calls[c].wiped
         /\ calls'[c].stale = calls[c].stale /\ calls'[c].at = how
         /\ calls[c].at # "waiting"
BY TypedCalls DEF HasEnded, CallState, Serving

LEMMA OpenedFields ==
  ASSUME Typed, NEW c \in Calls, calls[c].at \in Serving, NEW how, HasOpened(c, how)
  PROVE  /\ calls'[c].op = calls[c].op /\ calls'[c].todo = calls[c].todo
         /\ calls'[c].known = calls[c].known /\ calls'[c].wiped = calls[c].wiped
         /\ calls'[c].stale = calls[c].stale /\ calls'[c].at = how
         /\ calls[c].at # "waiting"
BY TypedCalls DEF HasOpened, CallState, Serving

LEMMA WorksOn ==
  ASSUME Typed, NEW c \in Calls, Creates(c) \/ Operates(c)
  PROVE  calls[c].op \in AllAsks /\ calls[c].op.project \in Projects
BY TypedCalls, CallsAssumption, AskProject DEF Creates, Operates, Shape

\* A call that has come no further.
LEMMA StoredSame ==
  ASSUME Typed, Kept, NEW c \in Calls, Stored(c), calls[c].at # "waiting",
         calls'[c].op = calls[c].op, calls'[c].todo = calls[c].todo,
         calls'[c].known = calls[c].known, calls[c].wiped => calls'[c].wiped
  PROVE  Stored(c)'
<1>1. /\ Creates(c)' => Creates(c)
      /\ Operates(c)' => Operates(c)
      /\ Finished(c)' <=> Finished(c)
      /\ Created(c)' => Created(c)
      /\ HasProject(c)' => HasProject(c)
  BY DEF Creates, Operates, Finished, Created, HasProject, Owes, OwesRow, Due
<1>2. Creates(c) \/ Operates(c) => calls[c].op.project \in Projects BY WorksOn
<1>3. Created(c) => Creates(c) BY DEF Created
<1>4. HasProject(c) => Creates(c) \/ Operates(c) BY DEF HasProject
<1>5. calls'[c].op.project = calls[c].op.project /\ calls'[c].op.id = calls[c].op.id OBVIOUS
<1> DEFINE p == calls[c].op.project
<1> SUFFICES ASSUME ~calls[c].wiped, ~calls'[c].wiped
             PROVE  /\ HasProject(c)' => blob'[p] # None
                    /\ Created(c)' => Row(c, "project_created") \in Listed(p)'
                    /\ Creates(c)' /\ Finished(c)' =>
                         Row(c, "membership_created") \in Listed(p)'
                    /\ Operates(c)' /\ (Finished(c)' \/ calls'[c].known) =>
                         calls[c].op.id \in Listed(p)'
  BY <1>5 DEF Stored
<1>6. HasProject(c)' => blob'[p] # None BY <1>1, <1>2, <1>4 DEF Stored, Kept
<1>7. Created(c)' => Row(c, "project_created") \in Listed(p)'
  BY <1>1, <1>2, <1>3 DEF Stored, Kept
<1>8. Creates(c)' /\ Finished(c)' => Row(c, "membership_created") \in Listed(p)'
  BY <1>1, <1>2 DEF Stored, Kept
<1>9. Operates(c)' /\ (Finished(c)' \/ calls'[c].known) => calls[c].op.id \in Listed(p)'
  BY <1>1, <1>2 DEF Stored, Kept
<1> QED BY <1>6, <1>7, <1>8, <1>9

\* A call that has made its next write.
Wrote(c) ==
  \A p \in Projects : calls[c].op.project = p =>
    /\ (\E step \in {"read", "blob", "both"} : Owes(c, step)) =>
         calls[c].wiped \/ blob'[p] # None
    /\ Owes(c, "both") => Row(c, "project_created") \in Listed(p)'
    /\ OwesRow(c) => NextEntry(c) \in Listed(p)'

LEMMA StoredAdvanced ==
  ASSUME Typed, Kept, NEW c \in Calls, Stored(c), Wrote(c), calls[c].at # "waiting",
         Follows(calls[c], calls'[c]), calls'[c].todo # calls[c].todo
  PROVE  Stored(c)'
<1>p. PICK p : p = calls[c].op.project OBVIOUS
<1> DEFINE t == calls[c].todo
<1>1. /\ calls'[c].op = calls[c].op /\ calls'[c].todo = Tail(t)
      /\ calls'[c].known = calls[c].known
      /\ calls[c].wiped => calls'[c].wiped
      /\ calls'[c].at # "waiting" /\ calls[c].at # "waiting" /\ t # << >>
      /\ calls[c].op \in AllAsks /\ t \in Rests(calls[c].op)
  BY TypedCalls, CallsAssumption DEF Follows, Shape
<1>0. p \in Projects /\ (Creates(c) \/ Operates(c)) =>
        /\ (\E step \in {"read", "blob", "both"} : Owes(c, step)) =>
             calls[c].wiped \/ blob'[p] # None
        /\ Owes(c, "both") => Row(c, "project_created") \in Listed(p)'
        /\ OwesRow(c) => NextEntry(c) \in Listed(p)'
  BY <1>p DEF Wrote
<1>2. \A step : Owes(c, step) <=> Head(t) = step BY <1>1 DEF Owes, Due
<1>3. \A step : Owes(c, step)' <=> Tail(t) # << >> /\ Head(Tail(t)) = step
  BY <1>1 DEF Owes, Due
<1>4. /\ Finished(c)' <=> Tail(t) = << >>
      /\ ~Finished(c)
  BY <1>1 DEF Finished
<1>5. /\ Creates(c)' <=> calls[c].op.name = "create"
      /\ Creates(c) <=> calls[c].op.name = "create"
      /\ Operates(c)' <=> calls[c].op.name = "operate"
      /\ Operates(c) <=> calls[c].op.name = "operate"
  BY <1>1 DEF Creates, Operates
<1>6. Creates(c) \/ Operates(c) => p \in Projects BY <1>p, WorksOn
<1> SUFFICES ASSUME ~calls'[c].wiped PROVE Stored(c)'
  BY DEF Stored
<1>13. ~calls[c].wiped BY <1>1
<1>7. OwesRow(c) <=> Head(t) \in Appends BY <1>2 DEF OwesRow
<1>8. /\ Head(t) \in StepNames /\ Tail(t) \in Rests(calls[c].op)
      /\ Head(t) = "read" => /\ calls[c].op.name = "operate" /\ Tail(t) # << >>
      /\ Head(t) = "blob" =>
           /\ Tail(t) # << >>
           /\ Head(Tail(t)) = "entry" \/ Head(Tail(t)) = "project_created"
      /\ Head(t) = "both" => Tail(t) # << >> /\ Head(Tail(t)) = "membership_created"
      /\ Head(t) = "project_created" =>
           calls[c].op.name = "create" /\ Tail(t) # << >>
      /\ Head(t) = "membership_created" => calls[c].op.name = "create" /\ Tail(t) = << >>
      /\ Head(t) = "entry" => calls[c].op.name = "operate" /\ Tail(t) = << >>
      /\ Head(t) \in {"all", "logs", "blobs"} => calls[c].op.name = "reset"
      /\ Head(t) = "list" => calls[c].op.name = "list"
  BY <1>1, RestFacts
<1>9. HasProject(c)' => blob'[p] # None
  <2>1. CASE Head(t) \in {"read", "blob", "both"} BY <1>0, <1>2, <1>5, <1>6, <1>8, <1>13, <2>1 DEF HasProject
  <2>2. CASE Head(t) \in Appends
    <3>1. HasProject(c)
      BY <1>5, <1>2, <1>7, <1>8, <2>2 DEF HasProject, Appends, Events
    <3> QED BY <1>5, <1>6, <1>p, <1>13, <3>1 DEF Stored, Kept, HasProject
  <2>3. CASE Head(t) \in {"all", "logs", "blobs", "list"}
    BY <1>5, <1>8, <2>3 DEF HasProject
  <2> QED BY <1>8, <2>1, <2>2, <2>3 DEF StepNames
<1>10. Created(c)' => Row(c, "project_created") \in Listed(p)'
  <2>1. CASE Head(t) = "both" BY <1>0, <1>2, <1>5, <1>6, <2>1 DEF Created
  <2>2. CASE Head(t) = "project_created"
    BY <1>0, <1>13, <1>p, <1>5, <1>6, <1>7, <1>8, <2>2 DEF NextEntry, Appends, Events
  <2>3. CASE Head(t) = "membership_created"
    <3>1. Created(c) BY <1>2, <1>5, <1>8, <2>3 DEF Created
    <3>2. Row(c, "project_created") \in Listed(p) BY <1>p, <1>13, <3>1 DEF Stored
    <3>3. p \in Projects BY <1>5, <1>6, <1>8, <2>3
    <3> QED BY <1>1, <3>2, <3>3 DEF Kept
  <2>4. CASE Head(t) \notin {"both", "project_created", "membership_created"}
    <3>1. calls[c].op.name = "create" => Tail(t) # << >> /\ Head(Tail(t)) # "membership_created"
      BY <1>8, <2>4 DEF StepNames, Appends, Events
    <3> QED BY <1>3, <1>4, <1>5, <3>1 DEF Created
  <2> QED BY <2>1, <2>2, <2>3, <2>4
<1>11. Creates(c)' /\ Finished(c)' => Row(c, "membership_created") \in Listed(p)'
  <2>1. CASE Head(t) = "membership_created"
    BY <1>0, <1>13, <1>p, <1>5, <1>6, <1>7, <1>8, <2>1 DEF NextEntry, Appends, Events
  <2>2. CASE Head(t) # "membership_created"
    BY <1>4, <1>5, <1>8, <2>2 DEF StepNames, Appends, Events
  <2> QED BY <2>1, <2>2
<1>12. Operates(c)' /\ (Finished(c)' \/ calls[c].known) => calls[c].op.id \in Listed(p)'
  <2>1. CASE Head(t) = "entry" BY <1>0, <1>13, <1>p, <1>5, <1>6, <1>7, <1>8, <2>1 DEF NextEntry, Appends, Events
  <2>2. CASE Head(t) # "entry" /\ Finished(c)'
    <3>1. calls[c].op.name # "operate" BY <1>4, <1>8, <2>2 DEF StepNames, Appends, Events
    <3> QED BY <1>5, <3>1
  <2>3. CASE Operates(c)' /\ calls[c].known
    <3>1. calls[c].op.id \in Listed(p) BY <1>5, <1>p, <1>13, <2>3 DEF Stored
    <3>2. p \in Projects BY <1>5, <1>6, <2>3
    <3> QED BY <1>1, <3>1, <3>2 DEF Kept
  <2> QED BY <2>1, <2>2, <2>3
<1>14. calls'[c].op.project = p /\ calls'[c].op.id = calls[c].op.id BY <1>1, <1>p
<1>15. Listed(calls[c].op.project)' = Listed(p)' BY <1>14 DEF Listed
<1> QED BY <1>1, <1>9, <1>10, <1>11, <1>12, <1>14, <1>15 DEF Stored

\* Memory: the row of a creation is the first of its project.
LEMMA CreateFirst ==
  ASSUME Typed, CreatedOnce, NEW c \in Calls, CreateProject(c), driver = "memory",
         NEW p \in Projects, calls[c].op.project = p, Uncreated(p)
  PROVE  log[p] = << >>
<1>1. /\ Owes(c, "both") /\ calls[c].at # "waiting" /\ calls[c].op.name = "create"
      /\ calls[c].op \in Asks
  BY AtDue, RestFacts DEF CreateProject, Owes, Due
<1>2. p \notin Founded BY <1>1, CallsAssumption
<1>3. ASSUME NEW d \in Calls, Creates(d), calls[d].op.project = p PROVE Owes(d, "both")
  <2>1. calls[d].op \in AllAsks /\ calls[c].op \in AllAsks
    BY <1>1, <1>3, WorksOn, CallsAssumption
  <2>2. \A a, b \in AllAsks : a.name = "create" /\ b.name = "create" /\ a.project = b.project
           => a = b
    BY DEF AllAsks
  <2>3. calls[d].op = calls[c].op BY <1>1, <1>3, <2>1, <2>2 DEF Creates
  <2>4. d = c BY <1>1, <1>3, <2>3 DEF CreatedOnce, Creates
  <2> QED BY <1>1, <2>4
<1> QED BY <1>2, <1>3 DEF Uncreated

AllWrote ==
  \A d \in Calls : calls[d].at # "waiting" /\ calls'[d].todo # calls[d].todo => Wrote(d)

\* Only the call that moves has written.
LEMMA MoverWrote ==
  ASSUME NEW c \in Calls, \A d \in Calls \ {c} : calls'[d] = calls[d], Wrote(c)
  PROVE  AllWrote
BY DEF AllWrote

LEMMA NextWrites ==
  ASSUME Typed, CreatedOnce, \A p \in Projects : Uncreated(p), Next
  PROVE  Erased \/ (Kept /\ AllWrote)
<1>0. ASSUME UNCHANGED <<blob, log>> PROVE Kept
  BY <1>0 DEF Kept, Listed
<1>1. ASSUME NEW c \in Calls, Begin(c) PROVE Kept /\ AllWrote
  <2>1. PICK l : calls[c].at = "waiting" /\ calls' = [calls EXCEPT ![c] = l]
    BY <1>1 DEF Begin
  <2> QED BY <1>0, <1>1, <2>1, TypedCalls DEF AllWrote, Begin
<1>2. ASSUME NEW c \in Calls,
             Bootstrap(c) \/ BootstrapRejected(c) \/ StorageFails(c) \/ LoadSeenFails(c)
      PROVE  Kept /\ AllWrote
  <2>1. UNCHANGED <<driver, blob, log>> /\ calls[c].at \in Serving
    BY <1>2, AtDue DEF Bootstrap, BootstrapRejected, StorageFails, LoadSeenFails, Serving, InFlight
  <2>2. calls' = calls \/ calls' = Ended(c, "failed")
    BY <1>2 DEF Bootstrap, BootstrapRejected, StorageFails, LoadSeenFails
  <2>3. calls' = Ended(c, "failed") => HasEnded(c, "failed") BY <2>1, EndedFollows
  <2>4. \A d \in Calls : calls'[d].todo = calls[d].todo
    BY <2>1, <2>2, <2>3, EndedFields DEF HasEnded
  <2> QED BY <1>0, <2>1, <2>4 DEF AllWrote
<1>3. ASSUME NEW c \in Calls, ReadState(c) PROVE Kept /\ AllWrote
  <2>1. /\ UNCHANGED <<driver, blob, log>> /\ calls[c].at \in Serving
        /\ Owes(c, "read") /\ calls[c].at # "waiting"
    BY <1>3, AtDue DEF ReadState
  <2>2. CASE HasEnded(c, "not_found") \/ HasEnded(c, "failed")
    <3>1. \A d \in Calls : calls'[d].todo = calls[d].todo
      BY <2>1, <2>2, EndedFields DEF HasEnded
    <3> QED BY <1>0, <2>1, <3>1 DEF AllWrote
  <2>3. CASE HasAdvanced(c) /\ blob[calls[c].op.project] # None
    <3>1. Wrote(c) BY <2>1, <2>3 DEF Wrote, Owes, Due, OwesRow, Appends, Events
    <3> QED BY <1>0, <2>1, <2>3, <3>1, MoverWrote DEF HasAdvanced
  <2> QED BY <1>3, <2>2, <2>3, ReadStateCalls
<1>4. ASSUME NEW c \in Calls, ListProjects(c) PROVE Kept /\ AllWrote
  <2>1. UNCHANGED <<driver, blob, log>> /\ calls[c].at \in Serving /\ Owes(c, "list")
    BY <1>4, AtDue DEF ListProjects
  <2>2. CASE calls' = Ended(c, "failed")
    <3>0. HasEnded(c, "failed") BY <2>1, <2>2, EndedFollows
    <3>1. \A d \in Calls : calls'[d].todo = calls[d].todo
      BY <2>1, <3>0, EndedFields DEF HasEnded
    <3> QED BY <1>0, <2>1, <3>1 DEF AllWrote
  <2>3. CASE calls' = Advanced(c)
    <3>1. Wrote(c) BY <2>1 DEF Wrote, Owes, Due, OwesRow, Appends, Events
    <3>2. HasAdvanced(c) BY <2>1, <2>3, AdvancedFollows
    <3> QED BY <1>0, <2>1, <3>1, <3>2, MoverWrote DEF HasAdvanced
  <2> QED BY <1>4, <2>2, <2>3 DEF ListProjects
<1>5. ASSUME NEW c \in Calls, OpenFile(c) PROVE Kept /\ AllWrote
  <2>1. /\ blob' = [blob EXCEPT ![calls[c].op.project] = Empty] /\ UNCHANGED <<driver, log>>
        /\ HasOpened(c, "opened") /\ calls[c].at \in Serving
    BY <1>5, AtDue, OpenedFollows DEF OpenFile
  <2>2. \A d \in Calls : calls'[d].todo = calls[d].todo
    BY <2>1, OpenedFields DEF HasOpened
  <2>3. Kept BY <2>1, CallsAssumption DEF Kept, Listed, Typed, TypeOK
  <2> QED BY <2>2, <2>3 DEF AllWrote
<1>6. ASSUME NEW c \in Calls, LoadSeen(c) PROVE Kept /\ AllWrote
  <2>0. calls[c].at \in Serving /\ (HasOpened(c, "checked") \/ HasEnded(c, "refused"))
    BY <1>6, LoadSeenCalls DEF Serving
  <2>1. \A d \in Calls : calls'[d].todo = calls[d].todo
    BY <2>0, OpenedFields, EndedFields DEF HasOpened, HasEnded
  <2> QED BY <1>0, <1>6, <2>1 DEF AllWrote, LoadSeen
<1>7. ASSUME NEW c \in Calls, SaveState(c) PROVE Kept /\ AllWrote
  <2>1. /\ blob' = [blob EXCEPT ![calls[c].op.project] = c] /\ UNCHANGED <<driver, log>>
        /\ HasAdvanced(c) /\ Owes(c, "blob")
    BY <1>7, AtDue, AdvancedFollows DEF SaveState
  <2>2. c # None BY CallsAssumption
  <2>3. Kept BY <2>1, <2>2 DEF Kept, Listed, Typed, TypeOK
  <2>4. Wrote(c)
    BY <2>1, <2>2 DEF Wrote, Owes, Due, OwesRow, Appends, Events, Typed, TypeOK
  <2> QED BY <2>1, <2>3, <2>4, MoverWrote DEF HasAdvanced
<1>8. ASSUME NEW c \in Calls, WriteFile(c) PROVE Kept /\ AllWrote
  <2>1. /\ calls[c].at = "opened" /\ calls[c].at \in Serving /\ UNCHANGED <<driver, log>>
        /\ calls' = Advanced(c)
    BY <1>8 DEF WriteFile, Serving
  <2>2. HasAdvanced(c) /\ Owes(c, "blob") /\ (calls[c].stale => calls[c].wiped)
    BY <2>1, AdvancedFollows, TypedCalls DEF Shape, Owes, Due, Appends, Events
  <2>3. PICK v : /\ blob' = [blob EXCEPT ![calls[c].op.project] = v]
                 /\ IF calls[c].stale THEN v = blob[calls[c].op.project] ELSE v \in {c, Torn}
    BY <1>8 DEF WriteFile
  <2>4. c # None /\ Torn # None BY CallsAssumption
  <2>5. Kept BY <2>1, <2>3, <2>4 DEF Kept, Listed, Typed, TypeOK
  <2>6. Wrote(c)
    BY <2>2, <2>3, <2>4 DEF Wrote, Owes, Due, OwesRow, Appends, Events, Typed, TypeOK
  <2> QED BY <2>2, <2>5, <2>6, MoverWrote DEF HasAdvanced
<1>9. ASSUME NEW c \in Calls, CreateProject(c) PROVE Kept /\ AllWrote
  <2>1. /\ blob' = [blob EXCEPT ![calls[c].op.project] = c] /\ UNCHANGED driver
        /\ HasAdvanced(c) /\ Owes(c, "both") /\ calls[c].op.project \in Projects
    BY <1>9, AtDue, AdvancedFollows, RestFacts, AskProject DEF CreateProject, Owes, Due
  <2>2. PICK p \in Projects : p = calls[c].op.project BY <2>1
  <2>3. c # None /\ Row(c, "project_created") \in Entries
    BY CallsAssumption DEF Row, Entries, Events
  <2>4. log \in Logs BY DEF Typed, TypeOK, Logs
  <2>5. /\ Listed(p)' = Listed(p) \union {Row(c, "project_created")}
        /\ \A q \in Projects \ {p} : log'[q] = log[q]
    <3>1. CASE driver = "memory"
      <4>1. log[p] = << >> BY <1>9, <2>2, <3>1, CreateFirst
      <4>2. log'[p] = <<Row(c, "project_created")>>
            /\ \A q \in Projects \ {p} : log'[q] = log[q]
        BY <1>9, <2>2, <2>4, <3>1 DEF CreateProject, Logs
      <4>3. Listed(p)' = {Row(c, "project_created")} BY <2>3, <4>2, ListedFirst
      <4>4. Listed(p) = {} BY <4>1 DEF Listed
      <4> QED BY <4>2, <4>3, <4>4
    <3>2. CASE driver # "memory"
      <4>1. log' = [log EXCEPT ![p] = Append(@, Row(c, "project_created"))]
        BY <1>9, <2>2, <3>2 DEF CreateProject
      <4> QED BY <2>3, <2>4, <4>1, ListedAppended, LogAppended
    <3> QED BY <3>1, <3>2
  <2>6. Kept BY <2>1, <2>3, <2>5, ListedSame DEF Kept, Typed, TypeOK
  <2>7. Wrote(c)
    BY <2>1, <2>2, <2>3, <2>5 DEF Wrote, Owes, Due, OwesRow, Appends, Events, Typed, TypeOK
  <2> QED BY <2>1, <2>6, <2>7, MoverWrote DEF HasAdvanced
<1>10. ASSUME NEW c \in Calls, AppendEntry(c) PROVE Kept /\ AllWrote
  <2>1. OwesRow(c) /\ calls[c].at \in Serving /\ UNCHANGED <<driver, blob>>
    BY <1>10, AppendEntryCalls DEF AppendEntry
  <2>2. PICK p \in Projects : p = calls[c].op.project
    BY <2>1, NextEntryTyped DEF Serving
  <2>3. NextEntry(c) \in Entries BY <2>1, NextEntryTyped DEF Serving
  <2>4. CASE Accepts(p, NextEntry(c))
    <3>1. /\ log' = [log EXCEPT ![p] = Append(@, NextEntry(c))]
          /\ calls' = Advanced(c)
      BY <1>10, <2>2, <2>4 DEF AppendEntry
    <3>2. HasAdvanced(c) BY <2>1, <3>1, AdvancedFollows
    <3>3. log \in Logs BY DEF Typed, TypeOK, Logs
    <3>4. /\ Listed(p)' = Listed(p) \union {NextEntry(c)}
          /\ \A q \in Projects \ {p} : log'[q] = log[q]
      BY <2>3, <3>1, <3>3, ListedAppended, LogAppended
    <3>5. Kept BY <2>1, <3>4, ListedSame DEF Kept
    <3>6. Wrote(c) BY <2>1, <2>2, <3>4 DEF Wrote, Owes, Due, OwesRow, Appends, Events
    <3> QED BY <3>2, <3>5, <3>6, MoverWrote DEF HasAdvanced
  <2>5. CASE ~Accepts(p, NextEntry(c))
    <3>1. log' = log /\ calls' = Ended(c, "refused") BY <1>10, <2>2, <2>5 DEF AppendEntry
    <3>0. HasEnded(c, "refused") BY <2>1, <3>1, EndedFollows
    <3>2. \A d \in Calls : calls'[d].todo = calls[d].todo
      BY <2>1, <3>0, EndedFields DEF HasEnded
    <3> QED BY <1>0, <2>1, <3>1, <3>2 DEF AllWrote
  <2> QED BY <2>4, <2>5
<1>11. ASSUME NEW c \in Calls, AppendFile(c) PROVE Kept /\ AllWrote
  <2>1. /\ OwesRow(c) /\ calls[c].at \in Serving /\ UNCHANGED <<driver, blob>>
        /\ calls' = Advanced(c)
        /\ log' = [log EXCEPT ![calls[c].op.project] = Append(@, NextEntry(c))]
    BY <1>11, TypedCalls DEF AppendFile, Shape, OwesRow, Owes, Serving
  <2>2. PICK p \in Projects : p = calls[c].op.project
    BY <2>1, NextEntryTyped DEF Serving
  <2>3. NextEntry(c) \in Entries BY <2>1, NextEntryTyped DEF Serving
  <2>4. HasAdvanced(c) BY <2>1, AdvancedFollows
  <2>5. log \in Logs BY DEF Typed, TypeOK, Logs
  <2>6. /\ Listed(p)' = Listed(p) \union {NextEntry(c)}
        /\ \A q \in Projects \ {p} : log'[q] = log[q]
    BY <2>1, <2>2, <2>3, <2>5, ListedAppended, LogAppended
  <2>7. Kept BY <2>1, <2>6, ListedSame DEF Kept
  <2>8. Wrote(c) BY <2>1, <2>2, <2>6 DEF Wrote, Owes, Due, OwesRow, Appends, Events
  <2> QED BY <2>4, <2>7, <2>8, MoverWrote DEF HasAdvanced
<1>12. ASSUME NEW c \in Calls,
              ResetMemory(c) \/ DeleteLogs(c) \/ DeleteProjects(c) \/ RemoveFile(c)
       PROVE  Erased
  BY <1>12, AtDue, WipedAdvancedFollows, RemoveFileCalls
  DEF ResetMemory, DeleteLogs, DeleteProjects
<1>13. ASSUME NEW c \in Calls, ForgetSeen(c) PROVE Kept /\ AllWrote
  <2>1. UNCHANGED <<blob, log>> BY <1>13 DEF ForgetSeen
  <2>2. \A d \in Calls : calls'[d].todo = calls[d].todo BY <1>13, ForgetSeenCalls
  <2> QED BY <1>0, <2>1, <2>2 DEF AllWrote
<1>14. CASE ServerStops /\ driver # "memory"
  <2>1. \A d \in Calls : calls'[d].todo = calls[d].todo BY <1>14, ServerStopsCalls
  <2>2. PICK broken :
          log' = [p \in Projects |-> IF p \in broken THEN Append(log[p], Torn) ELSE log[p]]
    BY <1>14 DEF ServerStops
  <2>3. ASSUME NEW p \in Projects PROVE Listed(p) \subseteq Listed(p)'
    <3>1. log \in Logs BY DEF Typed, TypeOK, Logs
    <3> QED BY <2>2, <3>1, TornAppended, ListedSame
  <2> QED BY <1>14, <2>1, <2>3 DEF AllWrote, Kept, ServerStops
<1>15. CASE ServerStops /\ driver = "memory" BY <1>15, ServerStopsCalls
<1> QED BY <1>1, <1>2, <1>3, <1>4, <1>5, <1>6, <1>7, <1>8, <1>9, <1>10, <1>11, <1>12, <1>13,
        <1>14, <1>15 DEF Next

LEMMA StoredNext ==
  ASSUME Inv, Next
  PROVE  \A c \in Calls : Stored(c)'
<1>1. /\ Typed /\ CreatedOnce
      /\ \A p \in Projects : Uncreated(p)
      /\ \A c \in Calls : Stored(c)
  BY DEF Inv, Typed
<1>2. CASE Erased
  BY <1>2 DEF Erased, Stored, CallsFollow, Shaped, Shape, Creates, Operates, Created,
     HasProject
<1>3. CASE Kept /\ AllWrote /\ CallsFollow
  <2>1. ASSUME NEW c \in Calls PROVE Stored(c)'
    <3>1. CASE calls[c].at = "waiting"
      <4>1. calls'[c].at = "waiting" BY <1>3, <3>1 DEF CallsFollow
      <4> QED BY <4>1 DEF Stored, Creates, Operates, Created, HasProject
    <3>2. CASE calls[c].at # "waiting"
      <4>1. Follows(calls[c], calls'[c]) BY <1>3, <3>2 DEF CallsFollow
      <4>2. CASE calls'[c].todo = calls[c].todo
        BY <1>1, <1>3, <3>2, <4>1, <4>2, StoredSame DEF Follows
      <4>3. CASE calls'[c].todo # calls[c].todo
        BY <1>1, <1>3, <3>2, <4>1, <4>3, StoredAdvanced DEF AllWrote
      <4> QED BY <4>2, <4>3
    <3> QED BY <3>1, <3>2
  <2> QED BY <2>1
<1>4. ASSUME NEW c \in Calls, Begin(c), Kept PROVE \A d \in Calls : Stored(d)'
  <2>1. PICK op \in Asks : /\ calls[c].at = "waiting"
                           /\ calls' = [calls EXCEPT ![c] = BegunCall(op)]
    BY <1>4, Zenon DEF Begin, BegunCall, KnownId
  <2>2. driver' = driver /\ log' = log BY <1>4 DEF Begin
  <2>3. /\ \A d \in Calls \ {c} : calls'[d] = calls[d]
        /\ calls'[c].op = op /\ calls'[c].todo = Steps(op) /\ calls'[c].known = KnownId(op)
    BY <1>1, <2>1, <2>2, BeginCalls
  <2>4. op \in AllAsks /\ driver \in AllDrivers
    BY <1>1, CallsAssumption DEF Typed, TypeOK
  <2>5. ASSUME NEW d \in Calls, d # c PROVE Stored(d)'
    <3>1. calls'[d] = calls[d] BY <2>3, <2>5
    <3>2. CASE calls[d].at = "waiting"
      BY <3>1, <3>2 DEF Stored, Creates, Operates, Created, HasProject
    <3>3. CASE calls[d].at # "waiting" BY <1>1, <1>4, <3>1, <3>3, StoredSame
    <3> QED BY <3>2, <3>3
  <2>6. Stored(c)'
    <3>1. PICK t : t = Steps(op) /\ calls'[c].todo = t BY <2>3
    <3>2. /\ t # << >>
          /\ op.name = "operate" <=> Head(t) = "read"
          /\ op.name = "create" => Head(t) \in {"blob", "both"}
      BY <2>4, <3>1, StepsAreRests
    <3>3. ~HasProject(c)' /\ ~Created(c)' /\ ~Finished(c)'
      BY <2>3, <3>1, <3>2
      DEF HasProject, Created, Finished, Owes, OwesRow, Due, Creates, Operates, Appends, Events
    <3>4. calls'[c].known => calls'[c].op.id \in Listed(op.project)
      BY <2>3 DEF KnownId
    <3>5. Listed(op.project)' = Listed(op.project) BY <2>2 DEF Listed
    <3> QED BY <2>2, <2>3, <3>3, <3>4, <3>5 DEF Stored, Listed
  <2> QED BY <2>5, <2>6
<1>5. ASSUME NEW c \in Calls, Begin(c) PROVE Kept
  BY <1>5 DEF Begin, Kept, Listed
<1> QED BY <1>1, <1>2, <1>3, <1>4, <1>5, NextWrites, NextCalls

-----------------------------------------------------------------------------
(* The rows of a creation *)

\* A call that has come so far does not go back.
LEMMA CreatedStays ==
  ASSUME Typed, NEW c \in Calls, calls[c].at # "waiting" => Follows(calls[c], calls'[c])
  PROVE  /\ Created(c) => Created(c)'
         /\ Creates(c) /\ Finished(c) => Creates(c)' /\ Finished(c)'
         /\ Creates(c) \/ Operates(c) => calls'[c].op = calls[c].op
<1> SUFFICES ASSUME calls[c].at # "waiting"
             PROVE  /\ Created(c) => Created(c)'
                    /\ Creates(c) /\ Finished(c) => Creates(c)' /\ Finished(c)'
                    /\ calls'[c].op = calls[c].op
  BY DEF Created, Creates, Operates
<1>1. /\ calls'[c].op = calls[c].op /\ calls'[c].at # "waiting"
      /\ \/ calls'[c].todo = calls[c].todo
         \/ calls[c].todo # << >> /\ calls'[c].todo = Tail(calls[c].todo)
      /\ calls[c].op \in AllAsks /\ calls[c].todo \in Rests(calls[c].op)
  BY TypedCalls, CallsAssumption DEF Follows, Shape
<1>2. Owes(c, "membership_created") => Tail(calls[c].todo) = << >>
  BY <1>1, RestFacts DEF Owes, Due
<1> QED BY <1>1, <1>2 DEF Created, Creates, Finished, Owes, Due

\* Where a row is found, and who has just written it there.
Rows(p) == Listed(p) \union seen[p].ids
AppendedBy(c, p, e) ==
  /\ calls[c].at # "waiting" /\ calls[c].op.project = p
  /\ calls[c].todo # << >> /\ calls'[c].todo = Tail(calls[c].todo)
  /\ \/ OwesRow(c) /\ e = NextEntry(c)
     \/ Owes(c, "both") /\ e = Row(c, "project_created")
NewRows ==
  \A p \in Projects : \A e \in Rows(p)' :
    e \in Rows(p) \/ \E c \in Calls : AppendedBy(c, p, e)

LEMMA NextNewRows ==
  ASSUME Typed, Next
  PROVE  NewRows
<1>0. /\ log \in Logs /\ seen \in [Projects -> [loaded : BOOLEAN, ids : SUBSET Entries]]
  BY DEF Typed, TypeOK, Logs
<1>1. ASSUME \A p \in Projects : log'[p] \in {log[p], << >>}, \/ seen' = seen \/ seen' = Unread
      PROVE  NewRows
  <2>1. ASSUME NEW p \in Projects PROVE Rows(p)' \subseteq Rows(p)
    <3>1. Listed(p)' \subseteq Listed(p) BY <1>1, ListedSame, ListedEmptied
    <3>2. seen'[p].ids \subseteq seen[p].ids BY <1>1 DEF Unread
    <3> QED BY <3>1, <3>2 DEF Rows
  <2> QED BY <2>1 DEF NewRows
<1>2. ASSUME NEW c \in Calls,
             \/ Begin(c) \/ Bootstrap(c) \/ BootstrapRejected(c) \/ ReadState(c)
             \/ ListProjects(c) \/ SaveState(c) \/ OpenFile(c) \/ WriteFile(c)
             \/ LoadSeenFails(c) \/ StorageFails(c)
      PROVE  NewRows
  <2>1. UNCHANGED <<log, seen>>
    BY <1>2 DEF Begin, Bootstrap, BootstrapRejected, ReadState, ListProjects, SaveState,
       OpenFile, WriteFile, LoadSeenFails, StorageFails
  <2> QED BY <1>1, <2>1
<1>3. ASSUME NEW c \in Calls,
             \/ ResetMemory(c) \/ DeleteLogs(c) \/ DeleteProjects(c) \/ RemoveFile(c)
             \/ ForgetSeen(c)
      PROVE  NewRows
  <2>1. seen' = seen \/ seen' = Unread
    BY <1>3 DEF ResetMemory, DeleteLogs, DeleteProjects, RemoveFile, ForgetSeen
  <2>2. log' = log \/ log' = [p \in Projects |-> << >>]
          \/ \E p \in Projects : log' = [log EXCEPT ![p] = << >>]
    BY <1>3 DEF ResetMemory, DeleteLogs, DeleteProjects, RemoveFile, ForgetSeen
  <2>3. \A p \in Projects : log'[p] \in {log[p], << >>} BY <1>0, <2>2 DEF Logs
  <2> QED BY <1>1, <2>1, <2>3
<1>4. ASSUME NEW c \in Calls, CreateProject(c) PROVE NewRows
  <2>1. /\ HasAdvanced(c) /\ Owes(c, "both") /\ calls[c].at # "waiting"
        /\ calls[c].op.project \in Projects /\ seen' = seen /\ calls[c].at \in Serving
    BY <1>4, AtDue, AdvancedFollows, RestFacts, AskProject DEF CreateProject, Owes, Due
  <2>2. PICK p \in Projects : p = calls[c].op.project BY <2>1
  <2>3. calls[c].todo # << >> /\ calls'[c].todo = Tail(calls[c].todo)
    BY <2>1, AdvancedFields
  <2>4. AppendedBy(c, p, Row(c, "project_created"))
    BY <2>1, <2>2, <2>3 DEF AppendedBy
  <2>5. Row(c, "project_created") \in Entries BY DEF Row, Entries, Events
  <2>6. /\ Listed(p)' \subseteq Listed(p) \union {Row(c, "project_created")}
        /\ \A q \in Projects \ {p} : log'[q] = log[q]
    <3>1. CASE driver = "memory"
      <4>1. log'[p] = <<Row(c, "project_created")>>
            /\ \A q \in Projects \ {p} : log'[q] = log[q]
        BY <1>0, <1>4, <2>2, <3>1 DEF CreateProject, Logs
      <4> QED BY <2>5, <4>1, ListedFirst
    <3>2. CASE driver # "memory"
      <4>1. log' = [log EXCEPT ![p] = Append(@, Row(c, "project_created"))]
        BY <1>4, <2>2, <3>2 DEF CreateProject
      <4> QED BY <1>0, <2>5, <4>1, ListedAppended, LogAppended
    <3> QED BY <3>1, <3>2
  <2>7. \A q \in Projects \ {p} : Rows(q)' = Rows(q) BY <2>1, <2>6, ListedSame DEF Rows
  <2>8. Rows(p)' \subseteq Rows(p) \union {Row(c, "project_created")}
    BY <2>1, <2>6 DEF Rows
  <2> QED BY <2>4, <2>7, <2>8 DEF NewRows
<1>5. ASSUME NEW c \in Calls, NEW p \in Projects, calls[c].op.project = p, OwesRow(c),
             calls[c].at \in Serving, HasAdvanced(c),
             log' = [log EXCEPT ![p] = Append(@, NextEntry(c))],
             \A q \in Projects \ {p} : seen'[q].ids \subseteq seen[q].ids,
             seen'[p].ids \subseteq seen[p].ids \union {NextEntry(c)}
      PROVE  NewRows
  <2>1. calls[c].at # "waiting" BY <1>5 DEF Serving
  <2>2. NextEntry(c) \in Entries BY <1>5, <2>1, NextEntryTyped
  <2>3. calls[c].todo # << >> /\ calls'[c].todo = Tail(calls[c].todo)
    BY <1>5, AdvancedFields
  <2>4. AppendedBy(c, p, NextEntry(c)) BY <1>5, <2>1, <2>3 DEF AppendedBy
  <2>5. /\ Listed(p)' = Listed(p) \union {NextEntry(c)}
        /\ \A q \in Projects \ {p} : log'[q] = log[q]
    BY <1>0, <1>5, <2>2, ListedAppended, LogAppended
  <2>6. \A q \in Projects \ {p} : Rows(q)' \subseteq Rows(q)
    BY <1>5, <2>5, ListedSame DEF Rows
  <2>7. Rows(p)' \subseteq Rows(p) \union {NextEntry(c)}
    BY <1>5, <2>5 DEF Rows
  <2> QED BY <2>4, <2>6, <2>7 DEF NewRows
<1>6. ASSUME NEW c \in Calls, AppendEntry(c) PROVE NewRows
  <2>1. OwesRow(c) /\ calls[c].at \in Serving /\ UNCHANGED <<driver, seen>>
    BY <1>6, AppendEntryCalls DEF AppendEntry
  <2>2. PICK p \in Projects : p = calls[c].op.project
    BY <2>1, NextEntryTyped DEF Serving
  <2>3. CASE Accepts(p, NextEntry(c))
    <3>1. /\ log' = [log EXCEPT ![p] = Append(@, NextEntry(c))]
          /\ calls' = Advanced(c)
      BY <1>6, <2>2, <2>3 DEF AppendEntry
    <3>2. HasAdvanced(c) BY <2>1, <3>1, AdvancedFollows
    <3> QED BY <1>5, <2>1, <2>2, <3>1, <3>2
  <2>4. CASE ~Accepts(p, NextEntry(c)) BY <1>1, <1>6, <2>1, <2>2, <2>4 DEF AppendEntry
  <2> QED BY <2>3, <2>4
<1>7. ASSUME NEW c \in Calls, LoadSeen(c) PROVE NewRows
  <2>1. PICK p \in Projects : p = calls[c].op.project
    BY <1>7, LoadSeenCalls, NextEntryTyped
  <2>2. PICK ids : /\ ids = seen[p].ids \union (IF seen[p].loaded THEN {} ELSE Listed(p))
                   /\ seen' = [seen EXCEPT ![p] = [loaded |-> TRUE, ids |-> ids]]
    BY <1>7, <2>1 DEF LoadSeen
  <2>3. seen'[p].ids = ids /\ \A q \in Projects \ {p} : seen'[q] = seen[q] BY <1>0, <2>2
  <2>4. \A q \in Projects : Listed(q)' = Listed(q) BY <1>7 DEF LoadSeen, Listed
  <2>5. \A q \in Projects : Rows(q)' \subseteq Rows(q) BY <2>2, <2>3, <2>4 DEF Rows
  <2> QED BY <2>5 DEF NewRows
<1>8. ASSUME NEW c \in Calls, AppendFile(c) PROVE NewRows
  <2>1. /\ OwesRow(c) /\ calls[c].at \in Serving /\ driver' = driver
        /\ calls' = Advanced(c)
    BY <1>8, TypedCalls DEF AppendFile, Shape, OwesRow, Owes, Serving
  <2>2. PICK p \in Projects : p = calls[c].op.project
    BY <2>1, NextEntryTyped DEF Serving
  <2>3. HasAdvanced(c) BY <2>1, AdvancedFollows
  <2>4. log' = [log EXCEPT ![p] = Append(@, NextEntry(c))] BY <1>8, <2>2 DEF AppendFile
  <2>5. /\ \A q \in Projects \ {p} : seen'[q] = seen[q]
        /\ seen'[p].ids = IF calls[c].stale THEN seen[p].ids
                          ELSE seen[p].ids \union {NextEntry(c)}
    BY <1>8, <2>2, AppendFileSeen DEF Typed
  <2> QED BY <1>5, <2>1, <2>2, <2>3, <2>4, <2>5
<1>9. CASE ServerStops
  <2>1. seen' = Unread BY <1>9 DEF ServerStops
  <2>2. ASSUME NEW p \in Projects PROVE Listed(p)' \subseteq Listed(p)
    <3>1. CASE driver = "memory"
      <4>1. log'[p] = << >> BY <1>9, <3>1 DEF ServerStops
      <4> QED BY <4>1, ListedEmptied
    <3>2. CASE driver # "memory"
      <4>1. log'[p] \in {log[p], Append(log[p], Torn)} BY <1>9, <3>2 DEF ServerStops
      <4> QED BY <1>0, <4>1, TornAppended, ListedSame
    <3> QED BY <3>1, <3>2
  <2> QED BY <2>1, <2>2 DEF NewRows, Rows, Unread
<1> QED BY <1>2, <1>3, <1>4, <1>6, <1>7, <1>8, <1>9 DEF Next

LEMMA FreshNext ==
  ASSUME Inv, Next
  PROVE  \A c \in Calls, p \in Projects : Fresh(c, p)'
<1>1. Typed /\ \A c \in Calls, p \in Projects : Fresh(c, p) BY DEF Inv, Typed
<1>2. NewRows BY <1>1, NextNewRows
<1>3. ASSUME NEW c \in Calls, NEW p \in Projects, NEW event \in Events,
             Row(c, event) \in Rows(p)'
      PROVE  \/ Row(c, event) \in Rows(p)
             \/ /\ calls[c].at # "waiting" /\ calls[c].op.project = p
                /\ calls[c].todo # << >> /\ calls'[c].todo = Tail(calls[c].todo)
                /\ Owes(c, event) \/ (event = "project_created" /\ Owes(c, "both"))
  <2>1. SUFFICES ASSUME NEW d \in Calls, AppendedBy(d, p, Row(c, event))
                 PROVE  d = c /\ (Owes(c, event) \/ (event = "project_created" /\ Owes(c, "both")))
    BY <1>2, <1>3 DEF NewRows, AppendedBy
  <2>2. CASE OwesRow(d) /\ Row(c, event) = NextEntry(d)
    <3>1. PICK step \in Appends : Owes(d, step) BY <2>2 DEF OwesRow
    <3>2. CASE step = "entry"
      <4>1. NextEntry(d) \in Ids
        BY <1>1, <2>1, <2>2, <3>1, <3>2, NextEntryTyped, TypedCalls, CallsAssumption, AskProject
        DEF AppendedBy, Shape
      <4> QED BY <2>2, <4>1, CallsAssumption DEF Row
    <3>3. CASE step \in Events
      <4>1. NextEntry(d) = Row(d, step)
        BY <1>1, <2>1, <2>2, <3>1, <3>3, NextEntryTyped DEF AppendedBy
      <4> QED BY <2>2, <3>1, <4>1 DEF Row
    <3> QED BY <3>1, <3>2, <3>3 DEF Appends
  <2>3. CASE Owes(d, "both") /\ Row(c, event) = Row(d, "project_created")
    BY <2>3 DEF Row
  <2> QED BY <2>1, <2>2, <2>3 DEF AppendedBy
<1>4. ASSUME CallsFollow, NEW c \in Calls, NEW p \in Projects PROVE Fresh(c, p)'
  <2>1. /\ calls[c].at # "waiting" => Follows(calls[c], calls'[c])
        /\ calls[c].at = "waiting" => calls'[c] = calls[c]
    BY <1>4 DEF CallsFollow
  <2>2. /\ Created(c) => Created(c)'
        /\ Creates(c) /\ Finished(c) => Creates(c)' /\ Finished(c)'
        /\ Creates(c) \/ Operates(c) => calls'[c].op = calls[c].op
    BY <1>1, <2>1, CreatedStays DEF Follows
  <2>3. Created(c) => Creates(c) BY DEF Created
  <2>4. ASSUME calls[c].at # "waiting", calls[c].todo # << >>,
               calls'[c].todo = Tail(calls[c].todo)
        PROVE  /\ Owes(c, "project_created") \/ Owes(c, "both") => Created(c)'
               /\ Owes(c, "membership_created") => Creates(c)' /\ Finished(c)'
               /\ calls'[c].op = calls[c].op
    <3>1. calls[c].op \in AllAsks /\ calls[c].todo \in Rests(calls[c].op)
      BY <1>1, <2>4, TypedCalls, CallsAssumption DEF Shape
    <3>2. calls'[c].op = calls[c].op /\ calls'[c].at # "waiting" BY <2>1, <2>4 DEF Follows
    <3>3. /\ Owes(c, "project_created") \/ Owes(c, "both") =>
               /\ calls[c].op.name = "create" /\ Tail(calls[c].todo) # << >>
               /\ Head(Tail(calls[c].todo)) = "membership_created"
          /\ Owes(c, "membership_created") =>
               calls[c].op.name = "create" /\ Tail(calls[c].todo) = << >>
      BY <3>1, RestFacts DEF Owes, Due
    <3> QED BY <2>4, <3>2, <3>3 DEF Created, Creates, Finished, Owes, Due
  <2>5. ASSUME Row(c, "project_created") \in Rows(p)'
        PROVE  Created(c)' /\ calls'[c].op.project = p
    BY <1>1, <1>3, <2>2, <2>3, <2>4, <2>5 DEF Fresh, Rows, Events
  <2>6. ASSUME Row(c, "membership_created") \in Rows(p)'
        PROVE  Creates(c)' /\ Finished(c)' /\ calls'[c].op.project = p
    BY <1>1, <1>3, <2>2, <2>3, <2>4, <2>6 DEF Fresh, Rows, Events
  <2> QED BY <2>5, <2>6 DEF Fresh, Rows
<1>5. ASSUME NEW b \in Calls, Begin(b), NEW c \in Calls, NEW p \in Projects
      PROVE  Fresh(c, p)'
  <2>1. PICK l : calls[b].at = "waiting" /\ calls' = [calls EXCEPT ![b] = l]
    BY <1>5 DEF Begin
  <2>2. Rows(p)' = Rows(p) BY <1>5 DEF Begin, Rows, Listed
  <2>3. CASE c = b
    <3>1. ~Created(c) /\ ~Creates(c) BY <2>1, <2>3 DEF Created, Creates
    <3> QED BY <1>1, <2>2, <3>1 DEF Fresh, Rows
  <2>4. CASE c # b
    <3>1. calls'[c] = calls[c] BY <1>1, <2>1, <2>4, TypedCalls
    <3> QED BY <1>1, <2>2, <3>1 DEF Fresh, Rows, Created, Creates, Finished, Owes, Due
  <2> QED BY <2>3, <2>4
<1> QED BY <1>1, <1>4, <1>5, NextCalls

-----------------------------------------------------------------------------
(* Creating a project *)

LEMMA CreatedOnceNext ==
  ASSUME Typed, CreatedOnce, Next
  PROVE  CreatedOnce'
<1>1. CASE CallsFollow
  <2>1. \A c \in Calls : Creates(c)' => Creates(c) /\ calls'[c].op = calls[c].op
    BY <1>1 DEF CallsFollow, Follows, Creates
  <2> QED BY <2>1 DEF CreatedOnce
<1>2. ASSUME NEW b \in Calls, Begin(b) PROVE CreatedOnce'
  <2>1. PICK op \in Asks :
          /\ calls[b].at = "waiting"
          /\ op.name = "create" => \A d \in Calls : calls[d].at = "waiting" \/ calls[d].op # op
          /\ calls' = [calls EXCEPT ![b] = BegunCall(op)]
    BY <1>2, Zenon DEF Begin, BegunCall, KnownId
  <2>2. driver' = driver BY <1>2 DEF Begin
  <2>3. calls'[b].op = op /\ \A d \in Calls \ {b} : calls'[d] = calls[d]
    BY <2>1, <2>2, BeginCalls
  <2> QED BY <2>1, <2>3 DEF CreatedOnce, Creates
<1> QED BY <1>1, <1>2, NextCalls

\* Who moves: a call goes on in its list by a step of its own.
Passes(d) ==
  \/ ReadState(d)  \/ ListProjects(d) \/ SaveState(d)  \/ WriteFile(d) \/ CreateProject(d)
  \/ AppendEntry(d) \/ AppendFile(d)  \/ ResetMemory(d) \/ DeleteLogs(d) \/ DeleteProjects(d)
Same(d) == calls'[d].todo = calls[d].todo /\ calls'[d].at = calls[d].at
Fails(d) == calls'[d].todo = calls[d].todo /\ calls'[d].at \in {"failed", "lost"}
Moved(d) ==
  \/ Same(d)
  \/ calls[d].at \in Serving /\ Fails(d)
  \/ Passes(d) /\ calls[d].at \in Serving /\ calls'[d].at \in {"begun", "done"}
  \/ /\ calls[d].at = "begun" /\ calls'[d].todo = calls[d].todo
     /\ \/ ReadState(d) /\ calls'[d].at = "not_found"
        \/ AppendEntry(d) /\ calls'[d].at = "refused"
        \/ LoadSeen(d) /\ calls'[d].at \in {"refused", "checked"}
        \/ OpenFile(d) /\ calls'[d].at = "opened"
        \/ ForgetSeen(d) /\ calls'[d].at = "done"

LEMMA Movers ==
  ASSUME Typed, Next, NEW d \in Calls, calls[d].at # "waiting"
  PROVE  Moved(d)
<1>0. ASSUME NEW c \in Calls, \A e \in Calls \ {c} : calls'[e] = calls[e], d # c
      PROVE  Same(d)
  BY <1>0 DEF Same
<1>a. ASSUME NEW c \in Calls, calls[c].at \in Serving, HasEnded(c, "failed")
      PROVE  Moved(d)
  BY <1>0, <1>a, EndedFields DEF HasEnded, Fails, Moved
<1>b. ASSUME NEW c \in Calls, calls[c].at \in Serving, HasAdvanced(c), Passes(c)
      PROVE  Moved(d)
  BY <1>0, <1>b, AdvancedFields DEF HasAdvanced, Moved
<1>1. ASSUME NEW c \in Calls, Begin(c) PROVE Moved(d)
  <2>1. PICK l : calls[c].at = "waiting" /\ calls' = [calls EXCEPT ![c] = l]
    BY <1>1 DEF Begin
  <2> QED BY <1>0, <2>1, TypedCalls DEF Moved
<1>2. ASSUME NEW c \in Calls,
             Bootstrap(c) \/ BootstrapRejected(c) \/ StorageFails(c) \/ LoadSeenFails(c)
      PROVE  Moved(d)
  <2>1. driver' = driver /\ calls[c].at \in Serving
    BY <1>2, AtDue DEF Bootstrap, BootstrapRejected, StorageFails, LoadSeenFails, Serving, InFlight
  <2>2. calls' = calls \/ calls' = Ended(c, "failed")
    BY <1>2 DEF Bootstrap, BootstrapRejected, StorageFails, LoadSeenFails
  <2>3. calls' = Ended(c, "failed") => HasEnded(c, "failed") BY <2>1, EndedFollows
  <2>4. calls' = calls => Same(d) BY DEF Same
  <2> QED BY <1>a, <2>1, <2>2, <2>3, <2>4 DEF Moved
<1>3. ASSUME NEW c \in Calls, ReadState(c) PROVE Moved(d)
  <2>1. calls[c].at \in Serving /\ calls[c].at = "begun" BY <1>3, AtDue DEF ReadState
  <2>2. ASSUME HasEnded(c, "not_found") PROVE Moved(d)
    BY <1>0, <1>3, <2>1, <2>2, EndedFields DEF HasEnded, Moved
  <2> QED BY <1>a, <1>b, <1>3, <2>1, <2>2, ReadStateCalls DEF Passes
<1>4. ASSUME NEW c \in Calls, ListProjects(c) PROVE Moved(d)
  <2>1. driver' = driver /\ calls[c].at \in Serving BY <1>4, AtDue DEF ListProjects
  <2>2. HasEnded(c, "failed") \/ HasAdvanced(c)
    BY <1>4, <2>1, EndedFollows, AdvancedFollows DEF ListProjects
  <2> QED BY <1>a, <1>b, <1>4, <2>1, <2>2 DEF Passes
<1>5. ASSUME NEW c \in Calls, OpenFile(c) PROVE Moved(d)
  <2>1. HasOpened(c, "opened") /\ calls[c].at \in Serving /\ calls[c].at = "begun"
    BY <1>5, AtDue, OpenedFollows DEF OpenFile
  <2> QED BY <1>0, <1>5, <2>1, OpenedFields DEF HasOpened, Moved
<1>6. ASSUME NEW c \in Calls, LoadSeen(c) PROVE Moved(d)
  <2>1. /\ calls[c].at \in Serving /\ calls[c].at = "begun"
        /\ HasOpened(c, "checked") \/ HasEnded(c, "refused")
    BY <1>6, LoadSeenCalls DEF Serving
  <2> QED BY <1>0, <1>6, <2>1, OpenedFields, EndedFields DEF HasOpened, HasEnded, Moved
<1>7. ASSUME NEW c \in Calls, SaveState(c) \/ CreateProject(c) PROVE Moved(d)
  <2>1. HasAdvanced(c) /\ calls[c].at \in Serving
    BY <1>7, AtDue, AdvancedFollows DEF SaveState, CreateProject
  <2> QED BY <1>b, <1>7, <2>1 DEF Passes
<1>8. ASSUME NEW c \in Calls, WriteFile(c) \/ AppendFile(c) PROVE Moved(d)
  <2>1. driver' = driver /\ calls[c].at \in Serving /\ calls' = Advanced(c)
    BY <1>8 DEF WriteFile, AppendFile, Serving
  <2> QED BY <1>b, <1>8, <2>1, AdvancedFollows DEF Passes
<1>9. ASSUME NEW c \in Calls, AppendEntry(c) PROVE Moved(d)
  <2>1. /\ calls[c].at \in Serving /\ calls[c].at = "begun"
        /\ HasAdvanced(c) \/ HasEnded(c, "refused")
    BY <1>9, AppendEntryCalls, AtDue DEF AppendEntry
  <2>2. ASSUME HasEnded(c, "refused") PROVE Moved(d)
    BY <1>0, <1>9, <2>1, <2>2, EndedFields DEF HasEnded, Moved
  <2> QED BY <1>b, <1>9, <2>1, <2>2 DEF Passes
<1>10. ASSUME NEW c \in Calls, ResetMemory(c) \/ DeleteLogs(c) \/ DeleteProjects(c)
       PROVE  Moved(d)
  <2>1. driver' = driver /\ calls[c].at \in Serving /\ calls' = Wiped(Advanced(c))
    BY <1>10, AtDue DEF ResetMemory, DeleteLogs, DeleteProjects
  <2>2. CASE d = c BY <1>10, <2>1, <2>2, WipedAdvancedFollows DEF Moved, Passes
  <2>3. CASE d # c BY <2>1, <2>3, WipedAdvancedFollows DEF Moved, Same
  <2> QED BY <2>2, <2>3
<1>11. ASSUME NEW c \in Calls, RemoveFile(c) PROVE Moved(d)
  BY <1>11, RemoveFileCalls DEF Moved, Same
<1>12. ASSUME NEW c \in Calls, ForgetSeen(c) PROVE Moved(d)
  <2>1. CASE d = c BY <1>12, <2>1, AtDue, ForgetSeenCalls DEF ForgetSeen, Moved
  <2>2. CASE d # c BY <1>12, <2>2, ForgetSeenCalls DEF Moved, Same
  <2> QED BY <2>1, <2>2
<1>13. CASE ServerStops
  <2>1. CASE calls[d].at \in Serving BY <1>13, <2>1, ServerStopsCalls DEF Moved, Fails
  <2>2. CASE calls[d].at \notin Serving BY <1>13, <2>2, ServerStopsCalls DEF Moved, Same
  <2> QED BY <2>1, <2>2
<1> QED BY <1>1, <1>2, <1>3, <1>4, <1>5, <1>6, <1>7, <1>8, <1>9, <1>10, <1>11, <1>12, <1>13
    DEF Next

\* An operation reads the project it then writes.
LEMMA ReadersFind ==
  ASSUME Typed, Next, NEW d \in Calls, Owes(d, "read"), calls[d].at # "waiting",
         calls'[d].todo # calls[d].todo
  PROVE  blob[calls[d].op.project] # None
<1>1. Passes(d) /\ calls[d].at \in Serving BY Movers DEF Moved, Same, Fails
<1>2. \A step : Owes(d, step) => step = "read" BY DEF Owes, Due
<1>3. CASE ReadState(d)
  BY <1>1, <1>3, ReadStateCalls, EndedFields
<1>4. CASE SaveState(d) \/ CreateProject(d) \/ ListProjects(d) \/ ResetMemory(d)
             \/ DeleteLogs(d) \/ DeleteProjects(d)
  BY <1>2, <1>4, AtDue DEF SaveState, CreateProject, ListProjects, ResetMemory, DeleteLogs,
     DeleteProjects
<1>5. CASE AppendEntry(d) BY <1>2, <1>5, AppendEntryCalls DEF OwesRow, Appends, Events
<1>6. CASE WriteFile(d) \/ AppendFile(d)
  BY <1>2, <1>6, TypedCalls DEF WriteFile, AppendFile, Shape, Owes, Appends, Events
<1> QED BY <1>1, <1>3, <1>4, <1>5, <1>6 DEF Passes

\* Memory: a project changes by the write of a call that works on it, or goes.
LEMMA MemoryChanges ==
  ASSUME Typed, driver = "memory", Next, NEW p \in Projects
  PROVE  \/ blob'[p] = blob[p] /\ log'[p] = log[p]
         \/ blob'[p] = None /\ log'[p] = << >>
         \/ \E c \in Calls :
              /\ calls[c].op.project = p /\ calls[c].at \in Serving /\ HasAdvanced(c)
              /\ Owes(c, "blob") \/ Owes(c, "both") \/ OwesRow(c)
<1>0. /\ log \in Logs /\ blob \in [Projects -> Snapshots]
      /\ \A c \in Calls : calls[c].at \notin {"checked", "opened"}
  BY DEF Typed, TypeOK, Logs
<1>1. ASSUME NEW c \in Calls,
             \/ Begin(c) \/ Bootstrap(c) \/ BootstrapRejected(c) \/ ReadState(c)
             \/ ListProjects(c) \/ OpenFile(c) \/ WriteFile(c)
             \/ LoadSeen(c) \/ LoadSeenFails(c) \/ AppendFile(c) \/ ForgetSeen(c)
             \/ StorageFails(c)
      PROVE  UNCHANGED <<blob, log>>
  BY <1>0, <1>1 DEF Begin, Bootstrap, BootstrapRejected, ReadState, ListProjects,
     OpenFile, WriteFile, LoadSeen, LoadSeenFails, AppendFile, ForgetSeen, StorageFails
<1>2. ASSUME NEW c \in Calls, SaveState(c) \/ CreateProject(c)
      PROVE  \/ blob'[p] = blob[p] /\ log'[p] = log[p]
             \/ /\ calls[c].op.project = p /\ calls[c].at \in Serving /\ HasAdvanced(c)
                /\ Owes(c, "blob") \/ Owes(c, "both")
  <2>1. /\ HasAdvanced(c) /\ calls[c].at \in Serving
        /\ Owes(c, "blob") \/ Owes(c, "both")
    BY <1>2, AtDue, AdvancedFollows DEF SaveState, CreateProject
  <2>2. calls[c].op.project # p => blob'[p] = blob[p] /\ log'[p] = log[p]
    BY <1>0, <1>2 DEF SaveState, CreateProject, Logs
  <2> QED BY <2>1, <2>2
<1>3. ASSUME NEW c \in Calls, AppendEntry(c)
      PROVE  \/ blob'[p] = blob[p] /\ log'[p] = log[p]
             \/ /\ calls[c].op.project = p /\ calls[c].at \in Serving /\ HasAdvanced(c)
                /\ OwesRow(c)
  <2>1. OwesRow(c) /\ calls[c].at \in Serving /\ UNCHANGED <<driver, blob>>
    BY <1>3, AppendEntryCalls DEF AppendEntry
  <2>2. \/ log' = log
        \/ /\ log' = [log EXCEPT ![calls[c].op.project] = Append(@, NextEntry(c))]
           /\ calls' = Advanced(c)
    BY <1>3 DEF AppendEntry
  <2>3. calls' = Advanced(c) => HasAdvanced(c) BY <2>1, AdvancedFollows
  <2>4. calls[c].op.project # p => log'[p] = log[p] BY <1>0, <2>2 DEF Logs
  <2> QED BY <2>1, <2>2, <2>3, <2>4
<1>4. ASSUME NEW c \in Calls,
             ResetMemory(c) \/ DeleteLogs(c) \/ DeleteProjects(c) \/ RemoveFile(c)
      PROVE  blob'[p] = None /\ log'[p] = << >>
  BY <1>4 DEF ResetMemory, DeleteLogs, DeleteProjects, RemoveFile
<1>5. CASE ServerStops BY <1>5 DEF ServerStops
<1> QED BY <1>1, <1>2, <1>3, <1>4, <1>5 DEF Next

LEMMA UncreatedNext ==
  ASSUME Inv, Next, NEW p \in Projects
  PROVE  Uncreated(p)'
<1>1. Typed /\ Uncreated(p) BY DEF Inv, Typed
<1>2. driver' = driver
  BY DEF Next, Begin, Bootstrap, BootstrapRejected, ReadState, ListProjects, SaveState,
         OpenFile, WriteFile, CreateProject, AppendEntry, LoadSeen, LoadSeenFails, AppendFile,
         ResetMemory, DeleteLogs, DeleteProjects, RemoveFile, ForgetSeen, StorageFails,
         ServerStops
<1> SUFFICES ASSUME driver = "memory", p \notin Founded,
                    \A c \in Calls : Creates(c)' /\ calls'[c].op.project = p => Owes(c, "both")'
             PROVE  /\ blob'[p] = None /\ log'[p] = << >>
                    /\ \A c \in Calls : Operates(c)' /\ calls'[c].op.project = p =>
                         Owes(c, "read")'
  BY <1>2 DEF Uncreated
<1>3. ASSUME NEW c \in Calls, calls[c].at # "waiting"
      PROVE  /\ Follows(calls[c], calls'[c])
             /\ calls[c].op \in AllAsks /\ calls[c].todo \in Rests(calls[c].op)
  <2>1. ASSUME NEW b \in Calls, Begin(b) PROVE calls'[c] = calls[c]
    <3>1. PICK l : calls[b].at = "waiting" /\ calls' = [calls EXCEPT ![b] = l]
      BY <2>1 DEF Begin
    <3> QED BY <1>1, <1>3, <3>1, TypedCalls
  <2> QED BY <1>1, <1>3, <2>1, NextCalls, FollowsItself, TypedCalls, CallsAssumption
      DEF CallsFollow, Shape
<1>4. ASSUME NEW c \in Calls, Creates(c), calls[c].op.project = p PROVE Owes(c, "both")
  <2>1. calls[c].at # "waiting" /\ calls[c].op.name = "create" BY <1>4 DEF Creates
  <2>2. calls'[c].op = calls[c].op /\ calls'[c].at # "waiting" BY <1>3, <2>1 DEF Follows
  <2>3. calls'[c].todo # << >> /\ Head(calls'[c].todo) = "both"
    BY <1>4, <2>1, <2>2 DEF Creates, Owes, Due
  <2>4. calls[c].todo # << >> => Tail(calls[c].todo) = << >> \/ Head(Tail(calls[c].todo)) # "both"
    <3>1. SUFFICES ASSUME calls[c].todo # << >>
                   PROVE  Tail(calls[c].todo) = << >> \/ Head(Tail(calls[c].todo)) # "both"
      OBVIOUS
    <3>2. Head(calls[c].todo) \in {"blob", "both", "project_created", "membership_created"}
      BY <1>3, <2>1, <3>1, RestFacts DEF StepNames, Appends, Events
    <3> QED BY <1>3, <2>1, <3>1, <3>2, RestFacts
  <2> QED BY <1>3, <2>1, <2>3, <2>4 DEF Follows, Owes, Due
<1>5. /\ blob[p] = None /\ log[p] = << >>
      /\ \A c \in Calls : Operates(c) /\ calls[c].op.project = p => Owes(c, "read")
  BY <1>1, <1>4 DEF Uncreated
<1>6. blob'[p] = None /\ log'[p] = << >>
  <2>1. ASSUME NEW c \in Calls, calls[c].op.project = p, calls[c].at \in Serving,
               HasAdvanced(c), Owes(c, "blob") \/ Owes(c, "both") \/ OwesRow(c)
        PROVE  FALSE
    <3>1. /\ calls[c].at # "waiting" /\ calls'[c].op = calls[c].op
          /\ calls'[c].todo = Tail(calls[c].todo) /\ calls'[c].at # "waiting"
      BY <1>1, <2>1, AdvancedFields
    <3>2. calls[c].op.name \in {"create", "operate"}
      BY <1>3, <2>1, <3>1, RestFacts DEF Owes, OwesRow, Due, Appends, Events
    <3>3. CASE calls[c].op.name = "operate"
      <4>1. Owes(c, "read") BY <1>5, <2>1, <3>1, <3>3 DEF Operates
      <4> QED BY <2>1, <4>1 DEF Owes, OwesRow, Due, Appends, Events
    <3>4. CASE calls[c].op.name = "create"
      <4>1. Owes(c, "both") BY <1>4, <2>1, <3>1, <3>4 DEF Creates
      <4>2. Head(Tail(calls[c].todo)) = "membership_created"
        BY <1>3, <3>1, <4>1, RestFacts DEF Owes, Due
      <4>3. Owes(c, "both")' BY <2>1, <3>1, <3>4 DEF Creates
      <4> QED BY <3>1, <4>2, <4>3 DEF Owes, Due
    <3> QED BY <3>2, <3>3, <3>4
  <2> QED BY <1>1, <1>5, <2>1, MemoryChanges
<1>7. ASSUME NEW c \in Calls, Operates(c)', calls'[c].op.project = p PROVE Owes(c, "read")'
  <2>1. CASE calls[c].at # "waiting"
    <3>1. calls'[c].op = calls[c].op BY <1>3, <2>1 DEF Follows
    <3>2. Owes(c, "read") BY <1>5, <1>7, <2>1, <3>1 DEF Operates
    <3>3. calls'[c].todo = calls[c].todo
      BY <1>1, <1>5, <1>7, <2>1, <3>1, <3>2, ReadersFind
    <3> QED BY <3>2, <3>3 DEF Owes, Due
  <2>2. CASE calls[c].at = "waiting"
    <3>1. PICK b \in Calls : Begin(b)
      BY <1>1, <1>7, <2>2, NextCalls DEF CallsFollow, Operates
    <3>2. PICK op \in Asks : calls' = [calls EXCEPT ![b] = BegunCall(op)] /\ calls[b].at = "waiting"
      BY <3>1, Zenon DEF Begin, BegunCall, KnownId
    <3>3. /\ \A d \in Calls \ {b} : calls'[d] = calls[d]
          /\ calls'[b].op = op /\ calls'[b].todo = Steps(op)
      BY <1>1, <1>2, <3>2, BeginCalls
    <3>4. c = b BY <1>7, <2>2, <3>3 DEF Operates
    <3>5. op \in AllAsks /\ driver \in AllDrivers /\ op.name = "operate"
      BY <1>1, <1>7, <3>3, <3>4, CallsAssumption DEF Typed, TypeOK, Operates
    <3>6. PICK t : t = Steps(op) /\ calls'[b].todo = t BY <3>3
    <3>7. t # << >> /\ Head(t) = "read" BY <3>5, <3>6, StepsAreRests
    <3> QED BY <3>4, <3>6, <3>7 DEF Owes, Due
  <2> QED BY <2>1, <2>2
<1> QED BY <1>6, <1>7

-----------------------------------------------------------------------------
(* What becomes of a log *)

Appending(c, p, e) ==
  /\ AppendedBy(c, p, e) /\ e \in Entries /\ calls[c].at \in Serving /\ HasAdvanced(c)
  /\ log' = [log EXCEPT ![p] = Append(@, e)]
  /\ \/ CreateProject(c) /\ Owes(c, "both") /\ e = Row(c, "project_created")
     \/ AppendEntry(c) /\ OwesRow(c) /\ e = NextEntry(c) /\ Accepts(p, e)
     \/ AppendFile(c) /\ OwesRow(c) /\ e = NextEntry(c)
Tearing(p) ==
  /\ log'[p] = Append(log[p], Torn)
  /\ \E c \in Calls : calls[c].at = "checked" /\ calls[c].op.project = p

\* A call that writes a row appends it; only an append that is refused does not.
LEMMA WritesAppend ==
  ASSUME Typed, CreatedOnce, \A p \in Projects : Uncreated(p), NEW c \in Calls,
         CreateProject(c) \/ (AppendEntry(c) /\ log' # log) \/ AppendFile(c)
  PROVE  \E p \in Projects, e \in Entries : Appending(c, p, e)
<1>1. CASE CreateProject(c)
  <2>1. /\ HasAdvanced(c) /\ Owes(c, "both") /\ calls[c].at # "waiting"
        /\ calls[c].op.project \in Projects /\ calls[c].at \in Serving
    BY <1>1, AtDue, AdvancedFollows, RestFacts, AskProject DEF CreateProject, Owes, Due
  <2>2. PICK p \in Projects : p = calls[c].op.project BY <2>1
  <2>3. PICK e \in Entries : e = Row(c, "project_created") BY DEF Row, Entries, Events
  <2>4. calls[c].todo # << >> /\ calls'[c].todo = Tail(calls[c].todo)
    BY <2>1, AdvancedFields
  <2>5. log' = [log EXCEPT ![p] = Append(@, e)]
    <3>1. CASE driver = "memory"
      <4>1. log[p] = << >> BY <1>1, <2>2, <3>1, CreateFirst
      <4>2. log' = [log EXCEPT ![p] = <<e>>] BY <1>1, <2>2, <2>3, <3>1 DEF CreateProject
      <4>3. Append(log[p], e) = <<e>> BY <4>1
      <4> QED BY <4>2, <4>3
    <3>2. CASE driver # "memory" BY <1>1, <2>2, <2>3, <3>2 DEF CreateProject
    <3> QED BY <3>1, <3>2
  <2>6. Appending(c, p, e)
    BY <1>1, <2>1, <2>2, <2>3, <2>4, <2>5 DEF Appending, AppendedBy
  <2> QED BY <2>6
<1>2. CASE AppendEntry(c) /\ log' # log
  <2>1. OwesRow(c) /\ calls[c].at \in Serving /\ calls[c].at # "waiting" /\ driver' = driver
    BY <1>2, AppendEntryCalls DEF AppendEntry, Serving
  <2>2. PICK p \in Projects : p = calls[c].op.project BY <2>1, NextEntryTyped
  <2>3. PICK e \in Entries : e = NextEntry(c) BY <2>1, NextEntryTyped
  <2>4. /\ Accepts(p, e) /\ log' = [log EXCEPT ![p] = Append(@, e)]
        /\ calls' = Advanced(c)
    BY <1>2, <2>2, <2>3 DEF AppendEntry
  <2>5. HasAdvanced(c) BY <2>1, <2>4, AdvancedFollows
  <2>6. calls[c].todo # << >> /\ calls'[c].todo = Tail(calls[c].todo)
    BY <2>1, <2>5, AdvancedFields
  <2>7. Appending(c, p, e)
    BY <1>2, <2>1, <2>2, <2>3, <2>4, <2>5, <2>6 DEF Appending, AppendedBy
  <2> QED BY <2>7
<1>3. CASE AppendFile(c)
  <2>1. /\ OwesRow(c) /\ calls[c].at \in Serving /\ driver' = driver
        /\ calls' = Advanced(c) /\ calls[c].at # "waiting"
    BY <1>3, TypedCalls DEF AppendFile, Shape, OwesRow, Owes, Serving
  <2>2. PICK p \in Projects : p = calls[c].op.project BY <2>1, NextEntryTyped
  <2>3. PICK e \in Entries : e = NextEntry(c) BY <2>1, NextEntryTyped
  <2>4. log' = [log EXCEPT ![p] = Append(@, e)] BY <1>3, <2>2, <2>3 DEF AppendFile
  <2>5. HasAdvanced(c) BY <2>1, AdvancedFollows
  <2>6. calls[c].todo # << >> /\ calls'[c].todo = Tail(calls[c].todo)
    BY <2>1, <2>5, AdvancedFields
  <2>7. Appending(c, p, e)
    BY <1>3, <2>1, <2>2, <2>3, <2>4, <2>5, <2>6 DEF Appending, AppendedBy
  <2> QED BY <2>7
<1> QED BY <1>1, <1>2, <1>3

\* What a stop leaves of the logs on disk: the line that was being appended, in part.
LEMMA StopLogs ==
  ASSUME ServerStops, driver # "memory"
  PROVE  blob' = blob /\ \A p \in Projects : log'[p] = log[p] \/ Tearing(p)
<1>1. PICK broken \in SUBSET {calls[c].op.project :
                            c \in {d \in Calls : calls[d].at = "checked"}} :
        log' = [p \in Projects |-> IF p \in broken THEN Append(log[p], Torn) ELSE log[p]]
  BY DEF ServerStops
<1>2. \A p \in Projects : log'[p] = log[p] \/ Tearing(p) BY <1>1 DEF Tearing
<1> QED BY <1>2 DEF ServerStops

LEMMA LogSteps ==
  ASSUME Typed, CreatedOnce, \A p \in Projects : Uncreated(p), Next
  PROVE  \/ \A p \in Projects : log'[p] \in {log[p], << >>}
         \/ \E c \in Calls, p \in Projects, e \in Entries : Appending(c, p, e)
         \/ /\ ServerStops /\ driver = "file"
            /\ \A p \in Projects : log'[p] = log[p] \/ Tearing(p)
<1>0. log \in Logs BY DEF Typed, TypeOK, Logs
<1>1. ASSUME NEW c \in Calls,
             \/ Begin(c) \/ Bootstrap(c) \/ BootstrapRejected(c) \/ ReadState(c)
             \/ ListProjects(c) \/ SaveState(c) \/ OpenFile(c) \/ WriteFile(c)
             \/ LoadSeen(c) \/ LoadSeenFails(c) \/ StorageFails(c) \/ ForgetSeen(c)
      PROVE  log' = log
  BY <1>1 DEF Begin, Bootstrap, BootstrapRejected, ReadState, ListProjects, SaveState,
     OpenFile, WriteFile, LoadSeen, LoadSeenFails, StorageFails, ForgetSeen
<1>2. ASSUME NEW c \in Calls,
             ResetMemory(c) \/ DeleteLogs(c) \/ DeleteProjects(c) \/ RemoveFile(c)
      PROVE  \A p \in Projects : log'[p] \in {log[p], << >>}
  <2>1. log' = log \/ log' = [p \in Projects |-> << >>]
          \/ \E p \in Projects : log' = [log EXCEPT ![p] = << >>]
    BY <1>2 DEF ResetMemory, DeleteLogs, DeleteProjects, RemoveFile
  <2> QED BY <1>0, <2>1 DEF Logs
<1>3. ASSUME NEW c \in Calls,
             CreateProject(c) \/ (AppendEntry(c) /\ log' # log) \/ AppendFile(c)
      PROVE  \E p \in Projects, e \in Entries : Appending(c, p, e)
  BY <1>3, WritesAppend
<1>4. CASE ServerStops
  <2>1. CASE driver = "memory" BY <1>4, <2>1 DEF ServerStops
  <2>2. CASE driver # "memory"
    <3>1. \A p \in Projects : log'[p] = log[p] \/ Tearing(p) BY <1>4, <2>2, StopLogs
    <3>2. driver # "file" => \A p \in Projects : ~Tearing(p)
      BY DEF Tearing, Typed, TypeOK
    <3> QED BY <1>4, <3>1, <3>2
  <2> QED BY <2>1, <2>2
<1> QED BY <1>1, <1>2, <1>3, <1>4 DEF Next

\* A row that is appended, in its log and in no other.
LEMMA AppendedRow ==
  ASSUME Typed, NEW c \in Calls, NEW p \in Projects, NEW e \in Entries, Appending(c, p, e)
  PROVE  /\ Listed(p)' = Listed(p) \union {e}
         /\ BrokenLog(p)' <=> BrokenLog(p)
         /\ \A q \in Projects \ {p} : log'[q] = log[q]
         /\ log'[p] = Append(log[p], e)
         /\ Len(log'[p]) = Len(log[p]) + 1 /\ Len(log[p]) \in Nat
         /\ \A i \in 1..Len(log[p]) : log'[p][i] = log[p][i]
         /\ log'[p][Len(log[p]) + 1] = e
<1>1. log \in Logs BY DEF Typed, TypeOK, Logs
<1>2. log' = [log EXCEPT ![p] = Append(@, e)] BY DEF Appending
<1> QED BY <1>1, <1>2, LogAppended, ListedAppended

-----------------------------------------------------------------------------
(* The ids the file adapter has seen *)

LEMMA LoadSeenIs ==
  ASSUME Typed, NEW c \in Calls, LoadSeen(c), NEW p \in Projects, calls[c].op.project = p
  PROVE  /\ seen'[p].loaded /\ (BrokenLog(p) => seen[p].loaded)
         /\ seen'[p].ids = seen[p].ids \union (IF seen[p].loaded THEN {} ELSE Listed(p))
         /\ \A q \in Projects \ {p} : seen'[q] = seen[q]
         /\ calls'[c].at = "checked" => NextEntry(c) \notin seen'[p].ids
         /\ calls'[c].at = "refused" => NextEntry(c) \in seen'[p].ids
<1>1. PICK ids : /\ ids = seen[p].ids \union (IF seen[p].loaded THEN {} ELSE Listed(p))
                 /\ seen' = [seen EXCEPT ![p] = [loaded |-> TRUE, ids |-> ids]]
                 /\ calls' = IF NextEntry(c) \in ids
                             THEN Ended(c, "refused") ELSE [calls EXCEPT ![c].at = "checked"]
  BY DEF LoadSeen
<1>2. seen \in [Projects -> [loaded : BOOLEAN, ids : SUBSET Entries]] BY DEF Typed, TypeOK
<1>3. /\ seen'[p].loaded /\ seen'[p].ids = ids
      /\ \A q \in Projects \ {p} : seen'[q] = seen[q]
  BY <1>1, <1>2
<1>4. calls'[c].at = IF NextEntry(c) \in ids THEN "refused" ELSE "checked"
  BY <1>1, TypedCalls DEF Ended, CallState
<1>5. BrokenLog(p) => seen[p].loaded BY DEF LoadSeen
<1> QED BY <1>1, <1>3, <1>4, <1>5

LEMMA SeenSteps ==
  ASSUME Typed, Next, NEW p \in Projects
  PROVE  \/ seen'[p] = seen[p]
         \/ ~seen'[p].loaded /\ seen'[p].ids = {}
         \/ \E c \in Calls : calls[c].op.project = p /\ LoadSeen(c)
         \/ \E c \in Calls : calls[c].op.project = p /\ AppendFile(c)
<1>1. ASSUME NEW c \in Calls,
             \/ Begin(c) \/ Bootstrap(c) \/ BootstrapRejected(c) \/ ReadState(c)
             \/ ListProjects(c) \/ SaveState(c) \/ OpenFile(c) \/ WriteFile(c)
             \/ CreateProject(c) \/ AppendEntry(c) \/ LoadSeenFails(c) \/ StorageFails(c)
             \/ ResetMemory(c) \/ DeleteLogs(c) \/ DeleteProjects(c) \/ RemoveFile(c)
      PROVE  seen'[p] = seen[p]
  BY <1>1 DEF Begin, Bootstrap, BootstrapRejected, ReadState, ListProjects, SaveState,
     OpenFile, WriteFile, CreateProject, AppendEntry, LoadSeenFails, StorageFails,
     ResetMemory, DeleteLogs, DeleteProjects, RemoveFile
<1>2. ASSUME NEW c \in Calls, LoadSeen(c), calls[c].op.project # p PROVE seen'[p] = seen[p]
  BY <1>2 DEF LoadSeen, Typed, TypeOK
<1>3. ASSUME NEW c \in Calls, AppendFile(c), calls[c].op.project # p PROVE seen'[p] = seen[p]
  BY <1>3 DEF AppendFile, Typed, TypeOK
<1>4. ASSUME NEW c \in Calls, ForgetSeen(c) \/ ServerStops
      PROVE  ~seen'[p].loaded /\ seen'[p].ids = {}
  BY <1>4 DEF ForgetSeen, ServerStops, Unread
<1>5. ASSUME ServerStops PROVE ~seen'[p].loaded /\ seen'[p].ids = {}
  BY <1>5 DEF ServerStops, Unread
<1> QED BY <1>1, <1>2, <1>3, <1>4, <1>5 DEF Next

\* The calls before a step are those after it, but for the one that begins.
LEMMA EachFollows ==
  ASSUME Typed, Next, NEW c \in Calls
  PROVE  /\ calls[c].at # "waiting" => Follows(calls[c], calls'[c])
         /\ calls[c].at = "waiting" =>
              \/ calls'[c] = calls[c]
              \/ calls'[c].at = "begun" /\ ~calls'[c].wiped /\ ~calls'[c].stale
<1>1. ASSUME NEW b \in Calls, Begin(b) PROVE
         /\ calls[c].at # "waiting" => calls'[c] = calls[c]
         /\ calls[c].at = "waiting" =>
              \/ calls'[c] = calls[c]
              \/ calls'[c].at = "begun" /\ ~calls'[c].wiped /\ ~calls'[c].stale
  <2>1. PICK op \in Asks : calls' = [calls EXCEPT ![b] = BegunCall(op)] /\ calls[b].at = "waiting"
    BY <1>1, Zenon DEF Begin, BegunCall, KnownId
  <2>2. driver' = driver BY <1>1 DEF Begin
  <2>3. /\ \A d \in Calls \ {b} : calls'[d] = calls[d]
        /\ calls'[b].at = "begun" /\ ~calls'[b].wiped /\ ~calls'[b].stale
    BY <2>1, <2>2, BeginCalls
  <2> QED BY <2>1, <2>3
<1> QED BY <1>1, NextCalls, FollowsItself DEF CallsFollow

LEMMA NoneStaleBefore ==
  ASSUME Typed, Next, NoneStale'
  PROVE  NoneStale
<1>1. ASSUME NEW c \in Calls, calls[c].stale PROVE FALSE
  <2>1. calls[c].at # "waiting" BY <1>1, TypedCalls DEF Shape, Idle
  <2>2. calls'[c].stale BY <1>1, <2>1, EachFollows DEF Follows
  <2> QED BY <2>2 DEF NoneStale
<1> QED BY <1>1 DEF NoneStale

LEMMA AheadNext ==
  ASSUME Inv, Next
  PROVE  Ahead'
<1> SUFFICES ASSUME NoneStale'
             PROVE  /\ \A p \in Projects : seen'[p].loaded => Listed(p)' \subseteq seen'[p].ids
                    /\ \A c \in Calls : calls'[c].known /\ ~calls'[c].wiped =>
                         calls'[c].at \notin {"checked", "done"}
  BY DEF Ahead
<1>1. /\ Typed /\ CreatedOnce /\ \A p \in Projects : Uncreated(p)
      /\ \A c \in Calls : Stored(c)
  BY DEF Inv, Typed
<1>2. /\ NoneStale
      /\ \A p \in Projects : seen[p].loaded => Listed(p) \subseteq seen[p].ids
      /\ \A c \in Calls : calls[c].known /\ ~calls[c].wiped =>
           calls[c].at \notin {"checked", "done"}
  BY <1>1, NoneStaleBefore DEF Inv, Ahead
<1>3. Typed' BY <1>1, TypesNext
<1>4. log \in Logs BY <1>1 DEF Typed, TypeOK, Logs
<1>5. ASSUME NEW p \in Projects, seen'[p].loaded PROVE Listed(p)' \subseteq seen'[p].ids
  <2>1. CASE \E c \in Calls : calls[c].op.project = p /\ LoadSeen(c)
    <3>1. PICK c \in Calls : calls[c].op.project = p /\ LoadSeen(c) BY <2>1
    <3>2. log'[p] = log[p] BY <3>1 DEF LoadSeen
    <3> QED BY <1>1, <1>2, <3>1, <3>2, LoadSeenIs, ListedSame
  <2>2. CASE \E c \in Calls : calls[c].op.project = p /\ AppendFile(c)
    <3>1. PICK c \in Calls : calls[c].op.project = p /\ AppendFile(c) BY <2>2
    <3>2. OwesRow(c) /\ calls[c].at # "waiting"
      BY <1>1, <3>1, TypedCalls DEF AppendFile, Shape, OwesRow, Owes
    <3>3. NextEntry(c) \in Entries BY <1>1, <3>2, NextEntryTyped
    <3>4. Listed(p)' = Listed(p) \union {NextEntry(c)}
      BY <1>4, <3>1, <3>3, ListedAppended DEF AppendFile
    <3>5. /\ seen'[p].loaded = seen[p].loaded
          /\ seen'[p].ids = seen[p].ids \union {NextEntry(c)}
      BY <1>1, <1>2, <3>1, AppendFileSeen DEF Typed, NoneStale
    <3> QED BY <1>2, <1>5, <3>4, <3>5
  <2>3. CASE /\ seen'[p] = seen[p]
             /\ ~\E c \in Calls : calls[c].op.project = p /\ AppendFile(c)
    <3>1. Listed(p) \subseteq seen'[p].ids BY <1>2, <1>5, <2>3
    <3>2. CASE \A q \in Projects : log'[q] \in {log[q], << >>}
      BY <3>1, <3>2, ListedSame, ListedEmptied
    <3>3. ASSUME NEW c \in Calls, NEW q \in Projects, NEW e \in Entries, Appending(c, q, e)
          PROVE  log'[p] = log[p]
      <4>1. CASE q # p BY <1>1, <3>3, <4>1, AppendedRow
      <4>2. CASE q = p
        <5>1. calls[c].op.project = p BY <3>3, <4>2 DEF Appending, AppendedBy
        <5>2. CreateProject(c) \/ AppendEntry(c) BY <2>3, <3>3, <5>1 DEF Appending
        <5>3. driver = "file" /\ driver' = driver
          BY <1>3, <1>5, <5>2 DEF Typed, TypeOK, CreateProject, AppendEntry
        <5>4. CreateProject(c) => driver # "file"
          BY <1>1, AtDue, RestFacts DEF CreateProject, Owes, Due
        <5> QED BY <5>2, <5>3, <5>4 DEF AppendEntry
      <4> QED BY <4>1, <4>2
    <3>4. CASE log'[p] = log[p] \/ Tearing(p)
      BY <1>4, <3>1, <3>4, ListedSame, TornAppended DEF Tearing
    <3> QED BY <1>1, <3>2, <3>3, <3>4, LogSteps
  <2> QED BY <1>1, <1>5, <2>1, <2>2, <2>3, SeenSteps
<1>6. ASSUME NEW c \in Calls, calls'[c].known, ~calls'[c].wiped,
             calls'[c].at \in {"checked", "done"}
      PROVE  FALSE
  <2>1. calls[c].at # "waiting"
    BY <1>1, <1>6, EachFollows, TypedCalls DEF Shape, Idle
  <2>2. calls[c].known /\ ~calls[c].wiped /\ calls'[c].op = calls[c].op
    BY <1>1, <1>6, <2>1, EachFollows DEF Follows
  <2>3. /\ calls[c].op.name = "operate" /\ calls[c].op \in AllAsks
        /\ calls[c].todo \in Rests(calls[c].op)
    BY <1>1, <2>1, <2>2, TypedCalls, CallsAssumption DEF Shape
  <2>4. PICK p \in Projects : calls[c].op.project = p BY <2>3, AskProject
  <2>5. calls[c].op.id \in Listed(p)
    BY <1>1, <2>1, <2>2, <2>3, <2>4 DEF Stored, Operates
  <2>6. calls[c].at \notin {"checked", "done"} BY <1>2, <2>2
  <2>7. OwesRow(c) => NextEntry(c) = calls[c].op.id
    <3>1. OwesRow(c) => Owes(c, "entry")
      BY <2>3, RestFacts DEF OwesRow, Owes, Due, Appends, Events
    <3> QED BY <1>1, <2>1, <3>1, NextEntryTyped
  <2>8. CASE LoadSeen(c)
    <3>1. NextEntry(c) = calls[c].op.id BY <1>1, <2>7, <2>8, LoadSeenCalls
    <3>2. calls[c].op.id \in seen'[p].ids
      <4>1. seen'[p].ids = seen[p].ids \union (IF seen[p].loaded THEN {} ELSE Listed(p))
        BY <1>1, <2>4, <2>8, LoadSeenIs
      <4>2. CASE seen[p].loaded BY <1>2, <2>5, <4>1, <4>2
      <4>3. CASE ~seen[p].loaded BY <2>5, <4>1, <4>3
      <4> QED BY <4>2, <4>3
    <3>3. calls'[c].at # "checked" BY <1>1, <2>4, <2>8, <3>1, <3>2, LoadSeenIs
    <3>4. calls'[c].at # "done"
      BY <1>1, <2>8, LoadSeenCalls, OpenedFields, EndedFields DEF Serving
    <3> QED BY <1>6, <3>3, <3>4
  <2>9. CASE Passes(c) /\ calls[c].at \in Serving /\ calls'[c].at \in {"begun", "done"}
    <3>1. calls'[c].at = "done" BY <1>6, <2>9
    <3>2. calls'[c].todo = << >>
      BY <1>3, <2>2, <2>3, <3>1 DEF Typed, Shaped, Shape
    <3>3. calls[c].todo # << >> BY <1>1, <2>9, TypedCalls DEF Shape
    <3>4. Tail(calls[c].todo) = << >>
      BY <1>1, <2>1, <3>2, <3>3, EachFollows DEF Follows
    <3>5. Owes(c, "entry") /\ \A step : Owes(c, step) => step = "entry"
      BY <2>3, <3>3, <3>4, RestFacts DEF Owes, Due, StepNames, Appends, Events
    <3>6. AppendEntry(c) \/ AppendFile(c)
      <4>1. ReadState(c) => Owes(c, "read") BY <1>1, AtDue DEF ReadState
      <4>2. ListProjects(c) => Owes(c, "list") BY <1>1, AtDue DEF ListProjects
      <4>3. SaveState(c) => Owes(c, "blob") BY <1>1, AtDue DEF SaveState
      <4>4. CreateProject(c) => Owes(c, "both") BY <1>1, AtDue DEF CreateProject
      <4>5. ResetMemory(c) => Owes(c, "all") BY <1>1, AtDue DEF ResetMemory
      <4>6. DeleteLogs(c) => Owes(c, "logs") BY <1>1, AtDue DEF DeleteLogs
      <4>7. DeleteProjects(c) => Owes(c, "blobs") BY <1>1, AtDue DEF DeleteProjects
      <4>8. WriteFile(c) => Owes(c, "blob") BY <1>1, TypedCalls DEF WriteFile, Shape, Owes
      <4> QED BY <2>9, <3>5, <4>1, <4>2, <4>3, <4>4, <4>5, <4>6, <4>7, <4>8 DEF Passes
    <3>7. AppendEntry(c) BY <2>6, <3>6 DEF AppendFile
    <3>8. NextEntry(c) = calls[c].op.id BY <2>7, <3>5 DEF OwesRow, Appends
    <3>9. ~Accepts(p, NextEntry(c)) BY <2>5, <3>8 DEF Accepts
    <3>10. calls' = Ended(c, "refused") BY <2>4, <3>7, <3>9 DEF AppendEntry
    <3> QED BY <1>1, <3>1, <3>10, TypedCalls DEF Ended, CallState
  <2>10. CASE Same(c) BY <1>6, <2>6, <2>10 DEF Same
  <2>11. CASE ForgetSeen(c)
    BY <1>1, <2>3, <2>11, ForgetSeenCalls
  <2> QED BY <1>1, <1>6, <2>1, <2>8, <2>9, <2>10, <2>11, Movers DEF Moved, Fails
<1> QED BY <1>5, <1>6

-----------------------------------------------------------------------------
(* Damage *)

LEMMA SaverStays ==
  ASSUME Typed, Next, NEW c \in Calls, NEW p, Saver(c, p)
  PROVE  /\ Saver(c, p)' /\ calls[c].at # "waiting"
         /\ Cut(c) => Cut(c)' /\ calls'[c].todo = calls[c].todo
<1>1. calls[c].at # "waiting" BY TypedCalls DEF Saver, Saves, Shape, Idle
<1>2. Follows(calls[c], calls'[c]) BY <1>1, EachFollows
<1>3. calls'[c].op = calls[c].op BY <1>2 DEF Follows
<1>4. Cut(c) => Cut(c)' /\ calls'[c].todo = calls[c].todo
  BY <1>2 DEF Follows, Cut, Serving
<1> QED BY <1>1, <1>3, <1>4 DEF Saver, Saves

\* A call that is writing a row saves its project.
LEMMA RowSaver ==
  ASSUME Typed, NEW c \in Calls, calls[c].at \in {"checked", "opened"}
  PROVE  /\ Saves(c) /\ calls[c].op.project \in Projects
         /\ calls[c].at = "checked" => OwesRow(c)
         /\ calls[c].at = "opened" => Owes(c, "blob")
<1>1. /\ calls[c].op \in AllAsks /\ calls[c].op \in Asks
      /\ calls[c].todo \in Rests(calls[c].op)
      /\ (\E step \in Appends : Owes(c, step)) \/ Owes(c, "blob")
      /\ calls[c].at = "checked" => OwesRow(c)
      /\ calls[c].at = "opened" => Owes(c, "blob")
  BY TypedCalls, CallsAssumption DEF Shape, Owes, OwesRow
<1>2. calls[c].op.name \in {"create", "operate"}
  BY <1>1, RestFacts DEF Owes, Due, Appends, Events
<1> QED BY <1>1, <1>2, AskProject, CallsAssumption DEF Saves

LEMMA LogDamageNext ==
  ASSUME Inv, Next, NEW p \in Projects
  PROVE  LogDamage(p)'
<1>1. /\ Typed /\ CreatedOnce /\ \A q \in Projects : Uncreated(q)
      /\ LogDamage(p)
  BY DEF Inv, Typed
<1>2. log \in Logs BY <1>1 DEF Typed, TypeOK, Logs
<1> SUFFICES ASSUME BrokenLog(p)'
             PROVE  /\ ~seen'[p].loaded
                    /\ \A c \in Calls : calls'[c].at = "checked" => calls'[c].op.project # p
                    /\ \A i \in 1..(Len(log'[p]) - 1) : log'[p][i] # Torn
                    /\ \E c \in Calls : Saver(c, p)' /\ Cut(c)' /\ OwesRow(c)'
  BY DEF LogDamage
<1>3. CASE log'[p] = log[p]
  <2>1. BrokenLog(p) BY <1>3, ListedSame
  <2>2. /\ ~seen[p].loaded
        /\ \A c \in Calls : calls[c].at = "checked" => calls[c].op.project # p
        /\ \A i \in 1..(Len(log[p]) - 1) : log[p][i] # Torn
    BY <1>1, <2>1 DEF LogDamage
  <2>3. ASSUME NEW c \in Calls, LoadSeen(c) PROVE calls[c].op.project # p
    BY <1>1, <2>1, <2>2, <2>3, LoadSeenIs
  <2>4. ~seen'[p].loaded
    <3>1. ASSUME NEW c \in Calls, AppendFile(c) PROVE calls[c].op.project # p
      BY <2>2, <3>1 DEF AppendFile
    <3> QED BY <1>1, <2>2, <2>3, <3>1, SeenSteps
  <2>5. ASSUME NEW c \in Calls, calls'[c].at = "checked" PROVE calls'[c].op.project # p
    <3>1. calls[c].at # "waiting"
      BY <1>1, <2>5, EachFollows
    <3>2. calls'[c].op = calls[c].op BY <1>1, <3>1, EachFollows DEF Follows
    <3>3. calls[c].at = "checked" \/ LoadSeen(c)
      BY <1>1, <2>5, <3>1, Movers DEF Moved, Same, Fails
    <3> QED BY <2>2, <2>3, <3>2, <3>3
  <2>6. \E c \in Calls : Saver(c, p)' /\ Cut(c)' /\ OwesRow(c)'
    <3>1. PICK c \in Calls : Saver(c, p) /\ Cut(c) /\ OwesRow(c)
      BY <1>1, <2>1 DEF LogDamage
    <3>2. Saver(c, p)' /\ Cut(c)' /\ calls'[c].todo = calls[c].todo
      BY <1>1, <3>1, SaverStays
    <3> QED BY <3>1, <3>2 DEF OwesRow, Owes, Due
  <2> QED BY <1>3, <2>2, <2>4, <2>5, <2>6
<1>4. CASE log'[p] = << >> BY <1>4, ListedEmptied
<1>5. ASSUME NEW c \in Calls, NEW q \in Projects, NEW e \in Entries, Appending(c, q, e)
      PROVE  log'[p] = log[p]
  <2>1. CASE q # p BY <1>1, <1>5, <2>1, AppendedRow
  <2>2. CASE q = p
    <3>1. BrokenLog(p) BY <1>1, <1>5, <2>2, AppendedRow
    <3>2. calls[c].op.project = p BY <1>5, <2>2 DEF Appending, AppendedBy
    <3>3. ~AppendFile(c) BY <1>1, <3>1, <3>2 DEF LogDamage, AppendFile
    <3>4. driver = "file" BY <1>1, <3>1 DEF Typed, TypeOK
    <3>5. CreateProject(c) => driver # "file"
      BY <1>1, AtDue, RestFacts DEF CreateProject, Owes, Due
    <3> QED BY <1>5, <3>3, <3>4, <3>5 DEF Appending, AppendEntry
  <2> QED BY <2>1, <2>2
<1>6. CASE ServerStops /\ Tearing(p)
  <2>1. PICK c \in Calls : calls[c].at = "checked" /\ calls[c].op.project = p
    BY <1>6 DEF Tearing
  <2>2. ~BrokenLog(p) BY <1>1, <2>1 DEF LogDamage
  <2>3. /\ Len(log'[p]) = Len(log[p]) + 1 /\ Len(log[p]) \in Nat
        /\ \A i \in 1..Len(log[p]) : log'[p][i] = log[p][i]
    BY <1>2, <1>6, TornAppended DEF Tearing
  <2>4. \A i \in 1..(Len(log'[p]) - 1) : log'[p][i] # Torn BY <2>2, <2>3 DEF BrokenLog
  <2>5. ~seen'[p].loaded BY <1>6 DEF ServerStops, Unread
  <2>6. \A d \in Calls : calls'[d].at # "checked" BY <1>1, <1>6, ServerStopsCalls DEF Serving
  <2>7. Saver(c, p) /\ OwesRow(c) BY <1>1, <2>1, RowSaver DEF Saver
  <2>8. calls'[c].at = "lost" /\ calls'[c].todo = calls[c].todo
    BY <1>1, <1>6, <2>1, ServerStopsCalls DEF Serving
  <2>9. Saver(c, p)' /\ Cut(c)' /\ OwesRow(c)'
    BY <1>1, <2>7, <2>8, SaverStays DEF Cut, OwesRow, Owes, Due
  <2> QED BY <2>4, <2>5, <2>6, <2>9
<1> QED BY <1>1, <1>3, <1>4, <1>5, <1>6, LogSteps

\* File: a snapshot changes when its file is removed, opened or written.
LEMMA BlobSteps ==
  ASSUME Typed, driver = "file", Next, NEW p \in Projects
  PROVE  \/ blob'[p] = blob[p]
         \/ blob'[p] = None /\ \E c \in Calls : RemoveFile(c)
         \/ blob'[p] = Empty /\ \E c \in Calls : OpenFile(c) /\ calls[c].op.project = p
         \/ \E c \in Calls :
              /\ WriteFile(c) /\ calls[c].op.project = p
              /\ blob'[p] = c \/ (blob'[p] = Torn /\ blob[p] # Empty)
<1>0. blob \in [Projects -> Snapshots] BY DEF Typed, TypeOK
<1>1. ASSUME NEW c \in Calls,
             \/ Begin(c) \/ Bootstrap(c) \/ BootstrapRejected(c) \/ ReadState(c)
             \/ ListProjects(c) \/ AppendEntry(c) \/ LoadSeen(c) \/ LoadSeenFails(c)
             \/ AppendFile(c) \/ DeleteLogs(c) \/ ForgetSeen(c) \/ StorageFails(c)
      PROVE  blob' = blob
  BY <1>1 DEF Begin, Bootstrap, BootstrapRejected, ReadState, ListProjects, AppendEntry,
     LoadSeen, LoadSeenFails, AppendFile, DeleteLogs, ForgetSeen, StorageFails
<1>2. ASSUME NEW c \in Calls, SaveState(c) \/ DeleteProjects(c) PROVE FALSE
  BY <1>2 DEF SaveState, DeleteProjects
<1>3. ASSUME NEW c \in Calls, CreateProject(c) \/ ResetMemory(c) PROVE FALSE
  <2>1. Owes(c, "both") \/ Owes(c, "all") BY <1>3, AtDue DEF CreateProject, ResetMemory
  <2>2. calls[c].todo \in Rests(calls[c].op) /\ calls[c].op \in AllAsks
    BY <1>3, AtDue DEF CreateProject, ResetMemory
  <2> QED BY <2>1, <2>2, RestFacts DEF Owes, Due
<1>4. ASSUME NEW c \in Calls, RemoveFile(c) PROVE blob'[p] \in {blob[p], None}
  BY <1>0, <1>4 DEF RemoveFile
<1>5. ASSUME NEW c \in Calls, OpenFile(c)
      PROVE  blob'[p] = IF calls[c].op.project = p THEN Empty ELSE blob[p]
  BY <1>0, <1>5 DEF OpenFile
<1>6. ASSUME NEW c \in Calls, WriteFile(c)
      PROVE  \/ blob'[p] = blob[p]
             \/ /\ calls[c].op.project = p
                /\ blob'[p] = c \/ (blob'[p] = Torn /\ blob[p] # Empty)
  <2>1. PICK v \in IF calls[c].stale THEN {blob[calls[c].op.project]}
                   ELSE IF blob[calls[c].op.project] = Empty THEN {c} ELSE {c, Torn} :
          blob' = [blob EXCEPT ![calls[c].op.project] = v]
    BY <1>6 DEF WriteFile
  <2> QED BY <1>0, <2>1
<1>7. CASE ServerStops BY <1>7 DEF ServerStops
<1> QED BY <1>1, <1>2, <1>3, <1>4, <1>5, <1>6, <1>7 DEF Next

\* A file that is being written goes stale when it is removed, and then only.
LEMMA OpenedStale ==
  ASSUME Typed, Next, NEW d \in Calls, calls[d].at = "opened"
  PROVE  calls'[d].stale = calls[d].stale \/ \E c \in Calls : RemoveFile(c)
<1>0. ASSUME NEW c \in Calls, calls[c].at \in Serving, NEW how,
             HasAdvanced(c) \/ HasEnded(c, how) \/ HasOpened(c, how)
      PROVE  calls'[d].stale = calls[d].stale
  BY <1>0, AdvancedFields, EndedFields, OpenedFields DEF HasAdvanced, HasEnded, HasOpened
<1>1. ASSUME NEW c \in Calls, Begin(c) PROVE calls'[d].stale = calls[d].stale
  <2>1. PICK l : calls[c].at = "waiting" /\ calls' = [calls EXCEPT ![c] = l]
    BY <1>1 DEF Begin
  <2> QED BY <2>1, TypedCalls
<1>2. ASSUME NEW c \in Calls,
             Bootstrap(c) \/ BootstrapRejected(c) \/ StorageFails(c) \/ LoadSeenFails(c)
      PROVE  calls'[d].stale = calls[d].stale
  <2>1. driver' = driver /\ calls[c].at \in Serving
    BY <1>2, AtDue DEF Bootstrap, BootstrapRejected, StorageFails, LoadSeenFails, Serving, InFlight
  <2>2. calls' = calls \/ calls' = Ended(c, "failed")
    BY <1>2 DEF Bootstrap, BootstrapRejected, StorageFails, LoadSeenFails
  <2> QED BY <1>0, <2>1, <2>2, EndedFollows
<1>3. ASSUME NEW c \in Calls, ReadState(c) PROVE calls'[d].stale = calls[d].stale
  BY <1>0, <1>3, AtDue, ReadStateCalls DEF ReadState
<1>4. ASSUME NEW c \in Calls, ListProjects(c) PROVE calls'[d].stale = calls[d].stale
  <2>1. driver' = driver /\ calls[c].at \in Serving BY <1>4, AtDue DEF ListProjects
  <2> QED BY <1>0, <1>4, <2>1, EndedFollows, AdvancedFollows DEF ListProjects
<1>5. ASSUME NEW c \in Calls, OpenFile(c) PROVE calls'[d].stale = calls[d].stale
  BY <1>0, <1>5, AtDue, OpenedFollows DEF OpenFile
<1>6. ASSUME NEW c \in Calls, LoadSeen(c) \/ AppendEntry(c)
      PROVE  calls'[d].stale = calls[d].stale
  BY <1>0, <1>6, LoadSeenCalls, AppendEntryCalls DEF Serving
<1>7. ASSUME NEW c \in Calls, SaveState(c) \/ CreateProject(c)
      PROVE  calls'[d].stale = calls[d].stale
  BY <1>0, <1>7, AtDue, AdvancedFollows DEF SaveState, CreateProject
<1>8. ASSUME NEW c \in Calls, WriteFile(c) \/ AppendFile(c)
      PROVE  calls'[d].stale = calls[d].stale
  <2>1. driver' = driver /\ calls[c].at \in Serving /\ calls' = Advanced(c)
    BY <1>8 DEF WriteFile, AppendFile, Serving
  <2> QED BY <1>0, <2>1, AdvancedFollows
<1>9. ASSUME NEW c \in Calls, ResetMemory(c) \/ DeleteLogs(c) \/ DeleteProjects(c)
      PROVE  calls'[d].stale = calls[d].stale
  <2>1. driver' = driver /\ calls[c].at = "begun" /\ calls' = Wiped(Advanced(c))
    BY <1>9, AtDue DEF ResetMemory, DeleteLogs, DeleteProjects
  <2> QED BY <2>1, WipedAdvancedFollows DEF Serving
<1>10. ASSUME NEW c \in Calls, ForgetSeen(c) PROVE calls'[d].stale = calls[d].stale
  <2>1. calls[c].at = "begun" BY <1>10, AtDue DEF ForgetSeen
  <2> QED BY <1>10, <2>1, ForgetSeenCalls
<1>11. CASE ServerStops BY <1>11, ServerStopsCalls
<1> QED BY <1>1, <1>2, <1>3, <1>4, <1>5, <1>6, <1>7, <1>8, <1>9, <1>10, <1>11 DEF Next

LEMMA BlobDamageNext ==
  ASSUME Inv, Next, NEW p \in Projects
  PROVE  BlobDamage(p)'
<1>1. Typed /\ BlobDamage(p) BY DEF Inv, Typed
<1>2. Typed' BY <1>1, TypesNext
<1>3. CASE driver' # "file"
  BY <1>2, <1>3 DEF Typed, TypeOK, BlobDamage, Writes
<1>4. CASE driver' = "file"
  <2>1. driver = "file"
    BY <1>4 DEF Next, Begin, Bootstrap, BootstrapRejected, ReadState, ListProjects, SaveState,
         OpenFile, WriteFile, CreateProject, AppendEntry, LoadSeen, LoadSeenFails, AppendFile,
         ResetMemory, DeleteLogs, DeleteProjects, RemoveFile, ForgetSeen, StorageFails,
         ServerStops
  <2>2. None \notin Unparsable /\ \A c \in Calls : c \notin Unparsable
    BY CallsAssumption DEF Unparsable
  <2>3. ASSUME NEW c \in Calls, WriteFile(c)
        PROVE  calls[c].at = "opened" /\ calls'[c].at # "opened" /\ Saves(c)
    <3>1. driver' = driver /\ calls[c].at = "opened" /\ calls' = Advanced(c)
      BY <2>3 DEF WriteFile
    <3>2. HasAdvanced(c) BY <1>1, <3>1, AdvancedFollows DEF Serving
    <3> QED BY <1>1, <3>1, <3>2, AdvancedFields, RowSaver DEF Serving
  <2>4. ASSUME NEW c \in Calls, OpenFile(c), calls[c].op.project = p
        PROVE  Writes(c)' /\ Saver(c, p)'
    <3>1. calls[c].at = "begun" /\ Owes(c, "blob") /\ driver' = driver
      BY <1>1, <2>4, AtDue DEF OpenFile
    <3>2. HasOpened(c, "opened") BY <1>1, <2>4, <3>1, OpenedFollows DEF OpenFile
    <3>3. /\ calls'[c].at = "opened" /\ calls'[c].stale = calls[c].stale
          /\ calls'[c].op = calls[c].op
      BY <1>1, <3>1, <3>2, OpenedFields DEF Serving
    <3>4. ~calls[c].stale
      BY <1>1, <3>1, TypedCalls DEF Shape, Owes, Due, Appends, Events
    <3>5. Saver(c, p)
      BY <1>1, <2>4, <3>1, TypedCalls, CallsAssumption, RestFacts
      DEF Shape, Owes, Due, Saver, Saves
    <3> QED BY <1>1, <3>3, <3>4, <3>5, SaverStays DEF Writes
  <2>5. ASSUME NEW d \in Calls, Writes(d)', calls'[d].op.project = p
        PROVE  blob'[p] = Empty \/ <<d, "opened">> \in crossed'
    <3>1. /\ calls[d].at # "waiting" /\ ~calls[d].stale /\ calls[d].op = calls'[d].op
          /\ calls'[d].at = "opened"
      BY <1>1, <2>5, EachFollows DEF Follows, Writes
    <3>2. CASE OpenFile(d) BY <1>1, <2>5, <3>1, <3>2 DEF OpenFile, Typed, TypeOK
    <3>3. CASE calls[d].at = "opened"
      <4>1. Saver(d, p) BY <1>1, <2>5, <3>1, <3>3, RowSaver DEF Saver
      <4>2. CASE <<d, "opened">> \in crossed BY <4>2, CrossedGrows
      <4>3. CASE <<d, "opened">> \notin crossed
        <5>1. blob[p] = Empty BY <1>1, <2>5, <3>1, <3>3, <4>3 DEF BlobDamage, Writes
        <5>2. ASSUME NEW c \in Calls, RemoveFile(c) PROVE blob'[p] = blob[p]
          BY <1>1, <2>5, <3>1, <3>3, <5>2, RemoveFileCalls DEF Writes
        <5>3. ASSUME NEW c \in Calls, WriteFile(c), calls[c].op.project = p
              PROVE  blob'[p] = blob[p]
          <6>1. c # d /\ calls[c].at = "opened" BY <2>3, <3>1, <5>3
          <6>2. calls[c].stale
            BY <2>5, <3>1, <3>3, <4>3, <5>3, <6>1 DEF Inv, Joined, Together, Writes
          <6> QED BY <1>1, <5>3, <6>2 DEF WriteFile, Typed, TypeOK
        <5> QED BY <1>1, <2>1, <5>1, <5>2, <5>3, BlobSteps
      <4> QED BY <4>2, <4>3
    <3> QED BY <1>1, <3>1, <3>2, <3>3, Movers DEF Moved, Same, Fails
  <2>6. ASSUME blob'[p] \in Unparsable
        PROVE  \/ \E c \in Calls : Saver(c, p)' /\ (Writes(c)' \/ (Cut(c)' /\ Owes(c, "blob")'))
               \/ blob'[p] = Torn /\ \E c \in Calls : Saver(c, p)' /\ <<c, "opened">> \in crossed'
    <3>1. CASE blob'[p] = blob[p]
      <4>1. ASSUME NEW c \in Calls, Saver(c, p), <<c, "opened">> \in crossed
            PROVE  Saver(c, p)' /\ <<c, "opened">> \in crossed'
        BY <1>1, <4>1, SaverStays, CrossedGrows
      <4>2. ASSUME NEW d \in Calls, Saver(d, p), Cut(d), Owes(d, "blob")
            PROVE  Saver(d, p)' /\ Cut(d)' /\ Owes(d, "blob")'
        BY <1>1, <4>2, SaverStays DEF Owes, Due
      <4>3. ASSUME NEW d \in Calls, Saver(d, p), Writes(d)
            PROVE  \/ Saver(d, p)' /\ (Writes(d)' \/ (Cut(d)' /\ Owes(d, "blob")'))
                   \/ /\ blob'[p] = Torn
                      /\ Saver(d, p)' /\ <<d, "opened">> \in crossed'
        <5>1. /\ calls[d].at = "opened" /\ calls[d].at # "waiting" /\ Owes(d, "blob")
              /\ Saver(d, p)' /\ calls[d].op.project = p
          BY <1>1, <4>3, RowSaver, SaverStays DEF Writes, Saver
        <5>2. CASE Same(d)
          <6>1. ASSUME NEW c \in Calls, RemoveFile(c) PROVE ~calls'[d].stale
            BY <1>1, <2>2, <2>6, <4>3, <5>1, <6>1, RemoveFileCalls DEF Writes
          <6>2. ~calls'[d].stale BY <1>1, <4>3, <5>1, <6>1, OpenedStale DEF Writes
          <6> QED BY <5>1, <5>2, <6>2 DEF Same, Writes
        <5>3. CASE Fails(d) BY <5>1, <5>3 DEF Fails, Cut, Owes, Due
        <5>4. CASE Passes(d)
          <6>1. WriteFile(d)
            BY <5>1, <5>4 DEF Passes, ReadState, ListProjects, SaveState, CreateProject,
               AppendEntry, AppendFile, ResetMemory, DeleteLogs, DeleteProjects, At
          <6>2. PICK v \in IF blob[p] = Empty THEN {d} ELSE {d, Torn} :
                  blob' = [blob EXCEPT ![p] = v]
            BY <4>3, <5>1, <6>1 DEF WriteFile, Writes
          <6>3. blob'[p] = v BY <1>1, <6>2 DEF Typed, TypeOK
          <6>4. blob'[p] = Torn /\ blob[p] # Empty BY <2>2, <2>6, <6>2, <6>3
          <6>5. <<d, "opened">> \in crossed BY <1>1, <2>2, <4>3, <5>1, <6>4 DEF BlobDamage
          <6> QED BY <4>1, <4>3, <6>4, <6>5
        <5> QED BY <1>1, <5>1, <5>2, <5>3, <5>4, Movers DEF Moved
      <4> QED BY <1>1, <2>6, <3>1, <4>1, <4>2, <4>3 DEF BlobDamage
    <3>2. ASSUME NEW c \in Calls, OpenFile(c), calls[c].op.project = p
          PROVE  \E d \in Calls : Saver(d, p)' /\ Writes(d)'
      BY <2>4, <3>2
    <3>3. ASSUME NEW c \in Calls, WriteFile(c), calls[c].op.project = p,
                 blob'[p] = c \/ (blob'[p] = Torn /\ blob[p] # Empty)
          PROVE  \/ blob'[p] = blob[p]
                 \/ blob'[p] = Torn /\ Saver(c, p)' /\ <<c, "opened">> \in crossed'
      <4>1. blob'[p] = Torn /\ blob[p] # Empty BY <2>2, <2>6, <3>3
      <4>2. CASE calls[c].stale
        BY <1>1, <3>3, <4>2 DEF WriteFile, Typed, TypeOK
      <4>3. CASE ~calls[c].stale
        <5>1. <<c, "opened">> \in crossed
          BY <1>1, <2>3, <3>3, <4>1, <4>3 DEF BlobDamage, Writes
        <5>2. Saver(c, p)' BY <1>1, <2>3, <3>3, SaverStays DEF Saver
        <5> QED BY <4>1, <5>1, <5>2, CrossedGrows
      <4> QED BY <4>2, <4>3
    <3> QED BY <1>1, <2>1, <2>2, <2>6, <3>1, <3>2, <3>3, BlobSteps
  <2> QED BY <2>5, <2>6 DEF BlobDamage
<1> QED BY <1>3, <1>4

-----------------------------------------------------------------------------
(* Calls at the same write *)

\* A call that is at a write was there before, or has just come.
LEMMA WasWriting ==
  ASSUME Typed, Next, NEW c \in Calls, Writes(c)'
  PROVE  /\ Writes(c) \/ (OpenFile(c) /\ calls[c].at = "begun")
         /\ calls'[c].op = calls[c].op /\ ~calls[c].stale
<1>1. /\ calls[c].at # "waiting" /\ ~calls[c].stale /\ calls'[c].op = calls[c].op
      /\ calls'[c].at = "opened"
  BY EachFollows DEF Follows, Writes
<1>2. calls[c].at = "opened" \/ (OpenFile(c) /\ calls[c].at = "begun")
  BY <1>1, Movers DEF Moved, Same, Fails
<1> QED BY <1>1, <1>2 DEF Writes

LEMMA WasAppending ==
  ASSUME Typed, Next, NEW c \in Calls, calls'[c].at = "checked"
  PROVE  /\ calls[c].at = "checked" \/ (LoadSeen(c) /\ calls[c].at = "begun")
         /\ calls'[c].op = calls[c].op /\ NextEntry(c)' = NextEntry(c)
         /\ calls'[c].stale \/ ~calls[c].stale
<1>1. /\ calls[c].at # "waiting" /\ calls'[c].op = calls[c].op
      /\ calls'[c].stale \/ ~calls[c].stale
  BY EachFollows DEF Follows
<1>2. calls'[c].todo = calls[c].todo
  BY <1>1, Movers DEF Moved, Same, Fails
<1>3. calls[c].at = "checked" \/ (LoadSeen(c) /\ calls[c].at = "begun")
  BY <1>1, Movers DEF Moved, Same, Fails
<1> QED BY <1>1, <1>2, <1>3 DEF NextEntry

\* Only the call that opens a file, or looks an id up, comes to its write.
LEMMA OneComes ==
  ASSUME Typed, Next, NEW c \in Calls, NEW d \in Calls, c # d, calls[c].at = "begun",
         OpenFile(c) \/ LoadSeen(c)
  PROVE  calls'[d] = calls[d]
<1>1. CASE OpenFile(c)
  <2>1. HasOpened(c, "opened") BY <1>1, AtDue, OpenedFollows DEF OpenFile
  <2> QED BY <2>1 DEF HasOpened
<1>2. CASE LoadSeen(c) BY <1>2, LoadSeenCalls DEF HasOpened, HasEnded
<1> QED BY <1>1, <1>2

LEMMA JoinedNext ==
  ASSUME Inv, Next
  PROVE  Joined'
<1>1. Typed /\ Joined BY DEF Inv, Typed
<1>2. ASSUME NEW c \in Calls, NEW d \in Calls, c # d, Writes(c)', Writes(d)',
             calls'[c].op.project = calls'[d].op.project
      PROVE  Together(c, d, "opened")'
  <2>1. /\ Writes(c) \/ (OpenFile(c) /\ calls[c].at = "begun")
        /\ Writes(d) \/ (OpenFile(d) /\ calls[d].at = "begun")
        /\ calls[c].op.project = calls[d].op.project
    BY <1>1, <1>2, WasWriting
  <2>2. CASE Writes(c) /\ Writes(d)
    BY <1>1, <1>2, <2>1, <2>2, CrossedGrows DEF Joined, Together
  <2>3. ASSUME NEW a \in Calls, NEW b \in Calls, a # b, OpenFile(a), calls[a].at = "begun",
               Writes(b) \/ calls[b].at = "begun", Writes(b)',
               calls[a].op.project = calls[b].op.project
        PROVE  Together(a, b, "opened")'
    <3>1. calls'[b] = calls[b] BY <1>1, <2>3, OneComes
    <3>2. Writes(b) BY <2>3, <3>1 DEF Writes
    <3>3. b \in Writers(calls[a].op.project) BY <2>3, <3>2 DEF Writers, Writes
    <3>4. crossed' = Crossed(a, "opened", Writers(calls[a].op.project))
      BY <2>3 DEF OpenFile
    <3> QED BY <3>3, <3>4 DEF Crossed, Together
  <2>4. Together(d, c, "opened")' => Together(c, d, "opened")' BY DEF Together
  <2> QED BY <1>2, <2>1, <2>2, <2>3, <2>4
<1>3. ASSUME NEW c \in Calls, NEW d \in Calls, c # d, SameRow(c, d)'
      PROVE  Together(c, d, "checked")'
  <2>0. calls'[c].at = "checked" /\ calls'[d].at = "checked" BY <1>3 DEF SameRow
  <2>1. /\ calls[c].at = "checked" \/ (LoadSeen(c) /\ calls[c].at = "begun")
        /\ calls[d].at = "checked" \/ (LoadSeen(d) /\ calls[d].at = "begun")
        /\ calls[c].op.project = calls[d].op.project /\ NextEntry(c) = NextEntry(d)
    <3>1. calls'[c].op.project = calls'[d].op.project /\ NextEntry(c)' = NextEntry(d)'
      BY <1>3 DEF SameRow
    <3> QED BY <1>1, <2>0, <3>1, WasAppending
  <2>2. CASE calls[c].at = "checked" /\ calls[d].at = "checked"
    BY <1>1, <1>3, <2>1, <2>2, CrossedGrows DEF Joined, Together, SameRow
  <2>3. ASSUME NEW a \in Calls, NEW b \in Calls, a # b, LoadSeen(a), calls[a].at = "begun",
               calls'[a].at = "checked", calls'[b].at = "checked",
               calls[a].op.project = calls[b].op.project, NextEntry(a) = NextEntry(b)
        PROVE  Together(a, b, "checked")'
    <3>1. calls'[b] = calls[b] BY <1>1, <2>3, OneComes
    <3>2. b \in Appenders(calls[a].op.project, NextEntry(a))
      BY <2>3, <3>1 DEF Appenders
    <3>3. crossed' = Crossed(a, "checked", Appenders(calls[a].op.project, NextEntry(a)))
      <4>1. PICK ids :
              /\ calls' = IF NextEntry(a) \in ids
                          THEN Ended(a, "refused") ELSE [calls EXCEPT ![a].at = "checked"]
              /\ crossed' = IF NextEntry(a) \in ids THEN crossed
                            ELSE Crossed(a, "checked",
                                         Appenders(calls[a].op.project, NextEntry(a)))
        BY <2>3 DEF LoadSeen
      <4>2. NextEntry(a) \notin ids
        <5>1. NextEntry(a) \in ids => calls'[a].at = "refused"
          BY <1>1, <4>1, TypedCalls DEF Ended, CallState
        <5> QED BY <2>3, <5>1
      <4> QED BY <4>1, <4>2
    <3> QED BY <3>2, <3>3 DEF Crossed, Together
  <2>4. Together(d, c, "checked")' => Together(c, d, "checked")' BY DEF Together
  <2> QED BY <1>3, <2>0, <2>1, <2>2, <2>3, <2>4
<1>4. ASSUME NEW c \in Calls, <<c, "opened">> \in crossed'
      PROVE  \E d \in Calls \ {c} :
               /\ <<d, "opened">> \in crossed' /\ Saves(c)' /\ Saves(d)'
               /\ calls'[c].op.project = calls'[d].op.project
  <2>1. CASE <<c, "opened">> \in crossed
    <3>1. PICK d \in Calls \ {c} : /\ <<d, "opened">> \in crossed /\ Saves(c) /\ Saves(d)
                                   /\ calls[c].op.project = calls[d].op.project
      BY <1>1, <2>1 DEF Joined
    <3>2. Saver(c, calls[c].op.project) /\ Saver(d, calls[c].op.project)
      BY <3>1 DEF Saver
    <3>3. /\ Saves(c)' /\ calls'[c].op.project = calls[c].op.project
          /\ Saves(d)' /\ calls'[d].op.project = calls[c].op.project
      BY <1>1, <3>2, SaverStays DEF Saver
    <3> QED BY <3>1, <3>3, CrossedGrows
  <2>2. CASE <<c, "opened">> \notin crossed
    <3>1. PICK a \in Calls :
            /\ OpenFile(a) /\ calls[a].at = "begun"
            /\ crossed' = Crossed(a, "opened", Writers(calls[a].op.project))
      BY <1>4, <2>2, StepCrosses DEF Crosses, Crossed
    <3>2. Saves(a)
      BY <1>1, <3>1, AtDue, RestFacts, CallsAssumption DEF OpenFile, Owes, Due, Saves
    <3>3. \A d \in Writers(calls[a].op.project) :
            /\ d \in Calls /\ d # a /\ Saves(d) /\ calls[d].op.project = calls[a].op.project
      BY <1>1, <3>1, RowSaver DEF Writers
    <3>4. /\ Writers(calls[a].op.project) # {}
          /\ c = a \/ c \in Writers(calls[a].op.project)
          /\ <<a, "opened">> \in crossed'
          /\ \A d \in Writers(calls[a].op.project) : <<d, "opened">> \in crossed'
      BY <1>4, <2>2, <3>1 DEF Crossed
    <3>5. PICK d \in Calls \ {c} : /\ <<d, "opened">> \in crossed' /\ Saves(c) /\ Saves(d)
                                   /\ calls[c].op.project = calls[d].op.project
      BY <3>2, <3>3, <3>4
    <3>6. Saver(c, calls[c].op.project) /\ Saver(d, calls[c].op.project)
      BY <3>5 DEF Saver
    <3>7. /\ Saves(c)' /\ calls'[c].op.project = calls[c].op.project
          /\ Saves(d)' /\ calls'[d].op.project = calls[c].op.project
      BY <1>1, <3>6, SaverStays DEF Saver
    <3> QED BY <3>5, <3>7
  <2> QED BY <2>1, <2>2
<1> QED BY <1>2, <1>3, <1>4 DEF Joined

LEMMA UnlistedNext ==
  ASSUME Inv, Next
  PROVE  Unlisted'
<1>1. /\ Typed /\ CreatedOnce /\ \A q \in Projects : Uncreated(q)
      /\ Joined /\ Unlisted
  BY DEF Inv, Typed
<1> SUFFICES ASSUME NoneStale', NEW c \in Calls, calls'[c].at = "checked",
                    <<c, "checked">> \notin crossed'
             PROVE  NextEntry(c)' \notin Listed(calls[c].op.project)'
  BY DEF Unlisted
<1>2. /\ calls[c].at = "checked" \/ (LoadSeen(c) /\ calls[c].at = "begun")
      /\ calls'[c].op = calls[c].op /\ NextEntry(c)' = NextEntry(c)
  BY <1>1, WasAppending
<1>4. PICK p \in Projects : p = calls[c].op.project
  <2>1. CASE calls[c].at = "checked" BY <1>1, <2>1, RowSaver
  <2>2. CASE LoadSeen(c)
    BY <1>1, <2>2, LoadSeenCalls, NextEntryTyped DEF Serving
  <2> QED BY <1>2, <2>1, <2>2
<1> SUFFICES NextEntry(c) \notin Listed(p)'
  <2>1. Listed(calls[c].op.project)' = Listed(p)' BY <1>2, <1>4 DEF Listed
  <2> QED BY <1>2, <2>1
<1>5. CASE LoadSeen(c)
  <2>1. seen'[p].loaded /\ NextEntry(c) \notin seen'[p].ids
    BY <1>1, <1>4, <1>5, LoadSeenIs
  <2>2. Listed(p)' \subseteq seen'[p].ids BY <2>1, AheadNext DEF Ahead
  <2> QED BY <1>2, <1>4, <2>1, <2>2
<1>6. CASE calls[c].at = "checked"
  <2>1. NextEntry(c) \notin Listed(p)
    BY <1>1, <1>4, <1>6, NoneStaleBefore, CrossedGrows DEF Unlisted
  <2>2. CASE \A q \in Projects : log'[q] \in {log[q], << >>}
    BY <1>2, <1>4, <2>1, <2>2, ListedSame, ListedEmptied
  <2>3. ASSUME NEW d \in Calls, NEW q \in Projects, NEW e \in Entries, Appending(d, q, e)
        PROVE  NextEntry(c) \notin Listed(p)'
    <3>1. CASE q # p
      <4>1. log'[p] = log[p] BY <1>1, <2>3, <3>1, AppendedRow
      <4> QED BY <2>1, <4>1, ListedSame
    <3>2. CASE q = p
      <4>1. driver = "file" BY <1>1, <1>6 DEF Typed, TypeOK
      <4>2. AppendFile(d)
        <5>1. CreateProject(d) => driver # "file"
          BY <1>1, AtDue, RestFacts DEF CreateProject, Owes, Due
        <5> QED BY <2>3, <4>1, <5>1 DEF Appending, AppendEntry
      <4>3. /\ calls[d].at = "checked" /\ calls[d].op.project = p
            /\ e = NextEntry(d) /\ d # c
        <5>1. HasAdvanced(d) /\ calls[d].op.project = p BY <2>3, <3>2 DEF Appending, AppendedBy
        <5>2. calls[d].at = "checked" BY <4>2 DEF AppendFile
        <5>3. calls'[d].at # "checked"
          BY <1>1, <5>1, <5>2, AdvancedFields DEF Serving
        <5>4. e = NextEntry(d)
          BY <1>1, <2>3, <4>1, <4>2 DEF Appending, CreateProject, AppendEntry, AppendFile, At
        <5> QED BY <5>1, <5>2, <5>3, <5>4
      <4>4. e # NextEntry(c)
        <5>1. <<c, "checked">> \notin crossed BY CrossedGrows
        <5> QED BY <1>1, <1>4, <1>6, <4>3, <5>1 DEF Joined, Together, SameRow
      <4>5. Listed(p)' = Listed(p) \union {e} BY <1>1, <2>3, <3>2, AppendedRow
      <4> QED BY <2>1, <4>4, <4>5
    <3> QED BY <3>1, <3>2
  <2>4. CASE \A q \in Projects : log'[q] = log[q] \/ Tearing(q)
    <3>1. log \in Logs BY <1>1 DEF Typed, TypeOK, Logs
    <3>2. Listed(p)' = Listed(p) BY <2>4, <3>1, ListedSame, TornAppended DEF Tearing
    <3> QED BY <1>2, <1>4, <2>1, <3>2
  <2> QED BY <1>1, <1>2, <1>4, <2>2, <2>3, <2>4, LogSteps
<1> QED BY <1>2, <1>5, <1>6

-----------------------------------------------------------------------------
(* The two writes of a creation *)

\* A project comes into the store by a write of a call that works on it.
LEMMA BlobComes ==
  ASSUME Typed, Next, NEW p \in Projects, blob[p] = None, blob'[p] # None
  PROVE  \E c \in Calls :
           /\ calls[c].op.project = p /\ calls[c].at \in Serving /\ driver' = driver
           /\ \/ SaveState(c) /\ Owes(c, "blob") /\ driver # "file" /\ HasAdvanced(c)
              \/ OpenFile(c) /\ Owes(c, "blob") /\ calls[c].at = "begun" /\ HasOpened(c, "opened")
              \/ WriteFile(c) /\ Owes(c, "blob") /\ HasAdvanced(c)
              \/ CreateProject(c) /\ Owes(c, "both") /\ HasAdvanced(c)
<1>0. blob \in [Projects -> Snapshots] BY DEF Typed, TypeOK
<1>1. ASSUME NEW c \in Calls,
             \/ Begin(c) \/ Bootstrap(c) \/ BootstrapRejected(c) \/ ReadState(c)
             \/ ListProjects(c) \/ AppendEntry(c) \/ LoadSeen(c) \/ LoadSeenFails(c)
             \/ AppendFile(c) \/ DeleteLogs(c) \/ ForgetSeen(c) \/ StorageFails(c)
      PROVE  blob' = blob
  BY <1>1 DEF Begin, Bootstrap, BootstrapRejected, ReadState, ListProjects, AppendEntry,
     LoadSeen, LoadSeenFails, AppendFile, DeleteLogs, ForgetSeen, StorageFails
<1>2. ASSUME NEW c \in Calls, ResetMemory(c) \/ DeleteProjects(c) \/ RemoveFile(c)
      PROVE  blob'[p] \in {blob[p], None}
  BY <1>0, <1>2 DEF ResetMemory, DeleteProjects, RemoveFile
<1>3. CASE ServerStops BY <1>3 DEF ServerStops
<1>4. ASSUME NEW c \in Calls, SaveState(c) \/ OpenFile(c) \/ WriteFile(c) \/ CreateProject(c)
      PROVE  blob'[p] = blob[p] \/ calls[c].op.project = p
  BY <1>0, <1>4 DEF SaveState, OpenFile, WriteFile, CreateProject
<1>5. ASSUME NEW c \in Calls, SaveState(c)
      PROVE  /\ calls[c].at \in Serving /\ driver' = driver /\ Owes(c, "blob")
             /\ driver # "file" /\ HasAdvanced(c)
  BY <1>5, AtDue, AdvancedFollows DEF SaveState
<1>6. ASSUME NEW c \in Calls, OpenFile(c)
      PROVE  /\ calls[c].at \in Serving /\ driver' = driver /\ Owes(c, "blob")
             /\ calls[c].at = "begun" /\ HasOpened(c, "opened")
  BY <1>6, AtDue, OpenedFollows DEF OpenFile
<1>7. ASSUME NEW c \in Calls, WriteFile(c)
      PROVE  /\ calls[c].at \in Serving /\ driver' = driver /\ Owes(c, "blob")
             /\ HasAdvanced(c)
  <2>1. driver' = driver /\ calls[c].at = "opened" /\ calls' = Advanced(c)
    BY <1>7 DEF WriteFile
  <2> QED BY <2>1, AdvancedFollows, RowSaver DEF Serving
<1>8. ASSUME NEW c \in Calls, CreateProject(c)
      PROVE  /\ calls[c].at \in Serving /\ driver' = driver /\ Owes(c, "both")
             /\ HasAdvanced(c)
  BY <1>8, AtDue, AdvancedFollows DEF CreateProject
<1> QED BY <1>1, <1>2, <1>3, <1>4, <1>5, <1>6, <1>7, <1>8 DEF Next

\* The row of a membership is appended by its own call, which created the project.
LEMMA MembershipRow ==
  ASSUME Typed, NEW d \in Calls, NEW p \in Projects, NEW c \in Calls,
         Appending(d, p, Row(c, "membership_created"))
  PROVE  Created(c) /\ calls[c].op.project = p
<1>1. /\ calls[d].at # "waiting" /\ calls[d].op.project = p
      /\ OwesRow(d) /\ Row(c, "membership_created") = NextEntry(d)
  BY DEF Appending, AppendedBy, Row
<1>2. PICK step \in Appends : Owes(d, step) BY <1>1 DEF OwesRow
<1>3. CASE step = "entry"
  <2>1. NextEntry(d) \in Ids
    BY <1>1, <1>2, <1>3, NextEntryTyped, TypedCalls, CallsAssumption, AskProject DEF Shape
  <2> QED BY <1>1, <2>1, CallsAssumption DEF Row, Events
<1>4. CASE step \in Events
  <2>1. NextEntry(d) = Row(d, step) /\ calls[d].op.name = "create"
    BY <1>1, <1>2, <1>4, NextEntryTyped
  <2> QED BY <1>1, <1>2, <2>1 DEF Row, Created, Creates
<1> QED BY <1>2, <1>3, <1>4 DEF Appends

\* The file adapter's call that creates a project has written its first row, or
\* is on its way, or was cut off.
LEMMA CreatorStays ==
  ASSUME Inv, Next, driver = "file", NEW c \in Calls, calls[c].op # None,
         calls[c].op.name = "create", c \in InFlight, ~calls'[c].wiped,
         NEW p \in Projects, calls[c].op.project = p
  PROVE  Row(c, "project_created") \in Listed(p)' \/ (c \in InFlight)' \/ Cut(c)'
<1>1. Typed /\ Fresh(c, p)' BY FreshNext DEF Inv, Typed
<1>2. Typed' /\ Stored(c)' BY <1>1, TypesNext, StoredNext
<1>3. calls[c].at \in Serving /\ calls[c].at # "waiting" BY DEF InFlight, Serving
<1>4. calls'[c].op = calls[c].op /\ calls'[c].at # "waiting"
  BY <1>1, <1>3, EachFollows DEF Follows
<1>5. calls[c].op \in AllAsks /\ calls[c].todo \in Rests(calls[c].op)
  BY <1>1, <1>3, TypedCalls, CallsAssumption DEF Shape
<1>6. CASE Same(c) BY <1>6 DEF Same, InFlight
<1>7. CASE Fails(c) BY <1>7 DEF Fails, Cut
<1>8. CASE calls'[c].at = "begun" \/ calls'[c].at = "checked" \/ calls'[c].at = "opened"
  BY <1>8 DEF InFlight
<1>9. CASE Passes(c) /\ calls'[c].at = "done"
  <2>1. calls'[c].todo = << >> BY <1>2, <1>4, <1>9 DEF Typed, Shaped, Shape
  <2>2. Created(c)' BY <1>4, <2>1 DEF Created, Creates, Finished
  <2>3. Row(c, "project_created") \in Listed(calls[c].op.project)'
    BY <1>2, <1>4, <2>2 DEF Stored, Listed
  <2> QED BY <1>4, <2>3 DEF Listed
<1>10. CASE ReadState(c)
  <2>1. Owes(c, "read") BY <1>1, <1>10, AtDue DEF ReadState
  <2> QED BY <1>5, <2>1, RestFacts DEF Owes, Due
<1>11. CASE AppendEntry(c) BY <1>11 DEF AppendEntry
<1>12. CASE LoadSeen(c) /\ calls'[c].at = "refused" /\ calls'[c].todo = calls[c].todo
  <2>1. NextEntry(c) \in seen'[p].ids BY <1>1, <1>12, LoadSeenIs
  <2>2. OwesRow(c) BY <1>1, <1>12, LoadSeenCalls
  <2>3. PICK event \in Appends : Owes(c, event) BY <2>2 DEF OwesRow
  <2>4. event # "entry" BY <1>5, <2>3, RestFacts DEF Owes, Due
  <2>5. NextEntry(c) = Row(c, event)
    BY <1>1, <1>3, <2>2, <2>3, <2>4, NextEntryTyped DEF Appends
  <2>6. Owes(c, event)' BY <1>12, <2>3 DEF Owes, Due
  <2>7. CASE event = "project_created"
    <3>1. Created(c)' BY <1>1, <2>1, <2>5, <2>7 DEF Fresh
    <3> QED BY <2>6, <2>7, <3>1 DEF Created, Finished, Owes, Due
  <2>8. CASE event = "membership_created"
    <3>1. Finished(c)' BY <1>1, <2>1, <2>5, <2>8 DEF Fresh
    <3> QED BY <2>6, <3>1 DEF Finished, Owes, Due
  <2> QED BY <2>4, <2>7, <2>8 DEF Appends, Events
<1>13. CASE ForgetSeen(c) BY <1>1, <1>13, ForgetSeenCalls
<1> QED BY <1>1, <1>3, <1>6, <1>7, <1>8, <1>9, <1>10, <1>11, <1>12, <1>13, Movers DEF Moved

LEMMA RecordedNext ==
  ASSUME Inv, Next
  PROVE  CreationIsRecorded'
<1>1. /\ Typed /\ CreatedOnce /\ \A q \in Projects : Uncreated(q)
      /\ \A c \in Calls : Stored(c)
  BY DEF Inv, Typed
<1>2. Typed' /\ \A c \in Calls : Stored(c)' BY <1>1, TypesNext, StoredNext
<1> SUFFICES ASSUME \A c \in Calls : ~calls'[c].wiped, NEW p \in Projects \ Founded
             PROVE  /\ blob'[p] # None =>
                         \E c \in Calls :
                           /\ Saves(c)' /\ calls'[c].op.name = "create"
                           /\ calls'[c].op.project = p
                           /\ \/ Row(c, "project_created") \in Listed(p)'
                              \/ driver' = "file" /\ ((c \in InFlight)' \/ Cut(c)')
                    /\ \A c \in Calls, i \in 1..Len(log'[p]) :
                         log'[p][i] = Row(c, "membership_created") =>
                           \E j \in 1..(i - 1) : log'[p][j] = Row(c, "project_created")
  BY DEF CreationIsRecorded
<1>3. \A c \in Calls : ~calls[c].wiped
  <2>1. SUFFICES ASSUME NEW c \in Calls, calls[c].wiped PROVE FALSE OBVIOUS
  <2>2. calls[c].at # "waiting" BY <1>1, <2>1, TypedCalls DEF Shape, Idle
  <2> QED BY <1>1, <2>1, <2>2, EachFollows DEF Follows
<1>4. /\ blob[p] # None =>
           \E c \in Calls :
             /\ Saves(c) /\ calls[c].op.name = "create" /\ calls[c].op.project = p
             /\ \/ Row(c, "project_created") \in Listed(p)
                \/ driver = "file" /\ (c \in InFlight \/ Cut(c))
      /\ \A c \in Calls, i \in 1..Len(log[p]) :
           log[p][i] = Row(c, "membership_created") =>
             \E j \in 1..(i - 1) : log[p][j] = Row(c, "project_created")
  BY <1>3 DEF Inv, CreationIsRecorded
<1>5. driver' = driver
  BY DEF Next, Begin, Bootstrap, BootstrapRejected, ReadState, ListProjects, SaveState,
         OpenFile, WriteFile, CreateProject, AppendEntry, LoadSeen, LoadSeenFails, AppendFile,
         ResetMemory, DeleteLogs, DeleteProjects, RemoveFile, ForgetSeen, StorageFails,
         ServerStops
<1>6. ASSUME blob'[p] # None, blob[p] = None
      PROVE  \E c \in Calls :
               /\ Saves(c)' /\ calls'[c].op.name = "create" /\ calls'[c].op.project = p
               /\ \/ Row(c, "project_created") \in Listed(p)'
                  \/ driver' = "file" /\ ((c \in InFlight)' \/ Cut(c)')
  <2>1. PICK c \in Calls :
           /\ calls[c].op.project = p /\ calls[c].at \in Serving
           /\ \/ SaveState(c) /\ Owes(c, "blob") /\ driver # "file" /\ HasAdvanced(c)
              \/ OpenFile(c) /\ Owes(c, "blob") /\ calls[c].at = "begun" /\ HasOpened(c, "opened")
              \/ WriteFile(c) /\ Owes(c, "blob") /\ HasAdvanced(c)
              \/ CreateProject(c) /\ Owes(c, "both") /\ HasAdvanced(c)
    BY <1>1, <1>6, BlobComes
  <2>2. /\ calls[c].at # "waiting" /\ calls[c].op \in AllAsks
        /\ calls[c].todo \in Rests(calls[c].op) /\ calls[c].todo # << >>
    BY <1>1, <2>1, TypedCalls, CallsAssumption DEF Shape, Serving
  <2>3. calls'[c].op = calls[c].op /\ calls'[c].at # "waiting"
    BY <1>1, <2>2, EachFollows DEF Follows
  <2>4. calls[c].op.name # "operate"
    <3>1. SUFFICES ASSUME calls[c].op.name = "operate" PROVE FALSE OBVIOUS
    <3>2. HasProject(c) BY <2>1, <2>2, <3>1 DEF HasProject, Operates, Owes, Due
    <3> QED BY <1>1, <1>3, <1>6, <2>1, <3>2 DEF Stored
  <2>5. calls[c].op.name = "create" /\ (Owes(c, "blob") => driver = "file")
    BY <2>1, <2>2, <2>4, RestFacts DEF Owes, Due
  <2>6. Saves(c)' BY <2>2, <2>3, <2>5, CallsAssumption DEF Saves
  <2>7. CASE Owes(c, "both") /\ HasAdvanced(c)
    <3>1. calls'[c].todo = Tail(calls[c].todo) BY <1>1, <2>1, <2>7, AdvancedFields
    <3>2. Owes(c, "membership_created")'
      BY <2>2, <2>7, <3>1, RestFacts DEF Owes, Due
    <3>3. Created(c)' BY <2>3, <2>5, <3>2 DEF Created, Creates
    <3>4. Row(c, "project_created") \in Listed(calls[c].op.project)'
      BY <1>2, <2>3, <3>3 DEF Stored, Listed
    <3> QED BY <2>1, <2>3, <2>5, <2>6, <3>4 DEF Listed
  <2>8. CASE OpenFile(c) /\ HasOpened(c, "opened") /\ Owes(c, "blob")
    <3>1. calls'[c].at = "opened" BY <1>1, <2>1, <2>8, OpenedFields
    <3> QED BY <1>5, <2>1, <2>3, <2>5, <2>6, <2>8, <3>1 DEF InFlight
  <2>9. CASE Owes(c, "blob") /\ HasAdvanced(c)
    <3>1. calls'[c].todo = Tail(calls[c].todo) /\ calls'[c].at \in {"begun", "done"}
      BY <1>1, <2>1, <2>9, AdvancedFields
    <3>2. calls'[c].todo # << >> BY <2>2, <2>9, <3>1, RestFacts DEF Owes, Due
    <3>3. calls'[c].at = "begun"
      BY <1>2, <2>3, <2>5, <3>1, <3>2 DEF Typed, Shaped, Shape
    <3> QED BY <1>5, <2>1, <2>3, <2>5, <2>6, <2>9, <3>3 DEF InFlight
  <2> QED BY <2>1, <2>7, <2>8, <2>9
<1>7. ASSUME blob'[p] # None, blob[p] # None
      PROVE  \E c \in Calls :
               /\ Saves(c)' /\ calls'[c].op.name = "create" /\ calls'[c].op.project = p
               /\ \/ Row(c, "project_created") \in Listed(p)'
                  \/ driver' = "file" /\ ((c \in InFlight)' \/ Cut(c)')
  <2>1. PICK c \in Calls :
             /\ Saves(c) /\ calls[c].op.name = "create" /\ calls[c].op.project = p
             /\ \/ Row(c, "project_created") \in Listed(p)
                \/ driver = "file" /\ (c \in InFlight \/ Cut(c))
    BY <1>4, <1>7
  <2>2. /\ Saves(c)' /\ calls[c].at # "waiting" /\ calls[c].op # None
        /\ Cut(c) => Cut(c)'
    BY <1>1, <2>1, SaverStays DEF Saver, Saves
  <2>3. calls'[c].op = calls[c].op BY <1>1, <2>2, EachFollows DEF Follows
  <2>4. CASE Row(c, "project_created") \in Listed(p)
    <3>1. ~Erased BY <2>2 DEF Erased
    <3>2. Row(c, "project_created") \in Listed(p)' BY <1>1, <2>4, <3>1, NextWrites DEF Kept
    <3> QED BY <2>1, <2>2, <2>3, <3>2
  <2>5. CASE driver = "file" /\ Cut(c) BY <1>5, <2>1, <2>2, <2>3, <2>5
  <2>6. CASE driver = "file" /\ c \in InFlight
    <3>1. Row(c, "project_created") \in Listed(p)' \/ (c \in InFlight)' \/ Cut(c)'
      BY <2>1, <2>2, <2>6, CreatorStays
    <3> QED BY <1>5, <2>1, <2>2, <2>3, <2>6, <3>1
  <2> QED BY <2>1, <2>4, <2>5, <2>6
<1>8. ASSUME NEW c \in Calls, NEW i \in 1..Len(log'[p]),
             log'[p][i] = Row(c, "membership_created")
      PROVE  \E j \in 1..(i - 1) : log'[p][j] = Row(c, "project_created")
  <2>0. Len(log[p]) \in Nat BY <1>1 DEF Typed, TypeOK
  <2>1. CASE log'[p] = log[p] BY <1>4, <1>8, <2>1
  <2>2. CASE log'[p] = << >> BY <1>8, <2>2
  <2>3. ASSUME \A k \in 1..Len(log[p]) : log'[p][k] = log[p][k], i \in 1..Len(log[p])
        PROVE  \E j \in 1..(i - 1) : log'[p][j] = Row(c, "project_created")
    <3>1. PICK j \in 1..(i - 1) : log[p][j] = Row(c, "project_created")
      BY <1>4, <1>8, <2>3
    <3>2. j \in 1..Len(log[p]) BY <2>0, <2>3
    <3> QED BY <2>3, <3>1, <3>2
  <2>4. ASSUME NEW d \in Calls, NEW q \in Projects, NEW e \in Entries, Appending(d, q, e)
        PROVE  \E j \in 1..(i - 1) : log'[p][j] = Row(c, "project_created")
    <3>1. CASE q # p BY <1>1, <2>1, <2>4, <3>1, AppendedRow
    <3>2. CASE q = p
      <4>1. /\ Len(log'[p]) = Len(log[p]) + 1
            /\ \A k \in 1..Len(log[p]) : log'[p][k] = log[p][k]
            /\ log'[p][Len(log[p]) + 1] = e
        BY <1>1, <2>4, <3>2, AppendedRow
      <4>2. CASE i = Len(log[p]) + 1
        <5>1. e = Row(c, "membership_created") BY <1>8, <4>1, <4>2
        <5>2. Created(c) /\ calls[c].op.project = p
          BY <1>1, <2>4, <3>2, <5>1, MembershipRow
        <5>3. Row(c, "project_created") \in Listed(p) BY <1>1, <1>3, <5>2 DEF Stored
        <5>4. PICK j \in 1..Len(log[p]) : log[p][j] = Row(c, "project_created")
          BY <5>3 DEF Listed
        <5> QED BY <2>0, <4>1, <4>2, <5>4
      <4>3. CASE i # Len(log[p]) + 1
        <5>1. i \in 1..Len(log[p]) BY <2>0, <4>1, <4>3
        <5> QED BY <2>3, <4>1, <5>1
      <4> QED BY <4>2, <4>3
    <3> QED BY <3>1, <3>2
  <2>5. CASE Tearing(p)
    <3>0. log \in Logs BY <1>1 DEF Typed, TypeOK, Logs
    <3>1. /\ Len(log'[p]) = Len(log[p]) + 1
          /\ \A k \in 1..Len(log[p]) : log'[p][k] = log[p][k]
          /\ log'[p][Len(log[p]) + 1] = Torn
      BY <2>5, <3>0, TornAppended DEF Tearing
    <3>2. Row(c, "membership_created") # Torn
      <4>1. Row(c, "membership_created") \in Entries BY DEF Row, Entries, Events
      <4> QED BY <4>1, CallsAssumption
    <3>3. i \in 1..Len(log[p]) BY <1>8, <2>0, <3>1, <3>2
    <3> QED BY <2>3, <3>1, <3>3
  <2> QED BY <1>1, <2>1, <2>2, <2>4, <2>5, LogSteps
<1> QED BY <1>6, <1>7, <1>8

-----------------------------------------------------------------------------
(* The invariant holds *)

\* When the calls begin, the founded projects have their two rows.
LEMMA InitLogs ==
  ASSUME Init, NEW p \in Projects
  PROVE  /\ log[p] \in Seq(Entries \union {Torn}) /\ ~BrokenLog(p)
         /\ Listed(p) \subseteq {Row(Founder, "project_created"), Row(Founder, "membership_created")}
<1>1. PICK a, b : a = Row(Founder, "project_created") /\ b = Row(Founder, "membership_created")
  OBVIOUS
<1>2. a \in Entries /\ b \in Entries BY <1>1 DEF Row, Entries, Events
<1>3. a # Torn /\ b # Torn BY <1>2, CallsAssumption
<1>4. CASE p \in Founded
  <2>1. log[p] = <<a, b>> BY <1>1, <1>4 DEF Init
  <2>2. Len(log[p]) = 2 /\ log[p][1] = a /\ log[p][2] = b BY <2>1
  <2>3. 1..2 = {1, 2} OBVIOUS
  <2>4. log[p] \in Seq(Entries \union {Torn}) BY <1>2, <2>1, ShortSequences
  <2>5. ~BrokenLog(p) BY <1>3, <2>2, <2>3 DEF BrokenLog
  <2>6. Listed(p) \subseteq {a, b} BY <2>2, <2>3 DEF Listed
  <2> QED BY <1>1, <2>4, <2>5, <2>6
<1>5. CASE p \notin Founded
  <2>1. log[p] = << >> BY <1>5 DEF Init
  <2>2. Len(log[p]) = 0 BY <2>1
  <2>3. log[p] \in Seq(Entries \union {Torn}) BY <2>1, EmptySeq
  <2> QED BY <2>2, <2>3 DEF BrokenLog, Listed
<1> QED BY <1>4, <1>5

LEMMA InitInv ==
  ASSUME Init
  PROVE  Inv
<1>1. PICK k : k = Idle OBVIOUS
<1>2. /\ k.at = "waiting" /\ k.op = None /\ k.todo = << >> /\ ~k.known /\ ~k.wiped /\ ~k.stale
      /\ k \in CallState
  BY <1>1, EmptySeq DEF Idle, CallState
<1>3. \A c \in Calls : calls[c] = k BY <1>1 DEF Init
<1>4. calls \in [Calls -> CallState] BY <1>1, <1>2 DEF Init
<1>5. \A c \in Calls : /\ calls[c].at = "waiting" /\ calls[c].op = None /\ ~calls[c].known
                       /\ ~calls[c].wiped /\ ~calls[c].stale
  BY <1>2, <1>3
<1>6. \A c \in Calls : Shaped(c)
  <2>1. Shape(k) BY <1>1, <1>2 DEF Shape, Serving
  <2> QED BY <1>3, <2>1 DEF Shaped
<1>7. \A p \in Projects : blob[p] \in {Founder, None} /\ (p \notin Founded => blob[p] = None)
  BY DEF Init
<1>8. {Founder, None} \intersect Unparsable = {} BY CallsAssumption DEF Unparsable
<1>9. \A p \in Projects : ~seen[p].loaded /\ seen[p].ids = {} BY DEF Init, Unread
<1>10. TypeOK
  <2>1. blob \in [Projects -> Snapshots] BY <1>7 DEF Init, Snapshots
  <2>2. log \in [Projects -> Seq(Entries \union {Torn})]
    <3>1. log = [p \in Projects |-> log[p]] BY DEF Init
    <3> QED BY <3>1, InitLogs
  <2>3. seen \in [Projects -> [loaded : BOOLEAN, ids : SUBSET Entries]] BY DEF Init, Unread
  <2>4. driver \in Drivers /\ boot \in {"unset", "made", "rejected"} /\ faults \in 0..MaxFaults
    BY BoundsAssumption DEF Init
  <2>5. \A p \in Projects : blob[p] \notin Unparsable /\ ~BrokenLog(p) /\ ~seen[p].loaded
    BY <1>7, <1>8, <1>9, InitLogs
  <2>6. crossed = {} BY DEF Init
  <2> QED BY <1>4, <1>5, <2>1, <2>2, <2>3, <2>4, <2>5, <2>6 DEF TypeOK, CallState
<1>11. \A c \in Calls : Stored(c)
  BY <1>5 DEF Stored, HasProject, Created, Creates, Operates
<1>12. \A c \in Calls, p \in Projects : Fresh(c, p)
  <2>1. ASSUME NEW c \in Calls, NEW p \in Projects, NEW event,
               Row(c, event) \in Listed(p) \union seen[p].ids
        PROVE  FALSE
    <3>1. Row(c, event) \in {Row(Founder, "project_created"), Row(Founder, "membership_created")}
      BY <1>9, <2>1, InitLogs
    <3>2. c = Founder BY <3>1 DEF Row
    <3> QED BY <3>2, CallsAssumption
  <2> QED BY <2>1 DEF Fresh
<1>13. CreatedOnce BY <1>5 DEF CreatedOnce, Creates
<1>14. \A p \in Projects : Uncreated(p)
  BY <1>5, <1>7 DEF Uncreated, Operates, Init
<1>15. Ahead BY <1>5, <1>9 DEF Ahead
<1>16. \A p \in Projects : LogDamage(p) /\ BlobDamage(p)
  BY <1>5, <1>7, <1>8, InitLogs DEF LogDamage, BlobDamage, Writes
<1>17. CreationIsRecorded
  <2>1. \A p \in Projects \ Founded : log[p] = << >> BY DEF Init
  <2>2. \A p \in Projects \ Founded : 1..Len(log[p]) = {} BY <2>1
  <2> QED BY <1>7, <2>2 DEF CreationIsRecorded
<1>18. Joined /\ Unlisted
  <2>1. crossed = {} BY DEF Init
  <2> QED BY <1>5, <2>1 DEF Joined, Unlisted, Writes, SameRow
<1> QED BY <1>6, <1>10, <1>11, <1>12, <1>13, <1>14, <1>15, <1>16, <1>17, <1>18 DEF Inv

LEMMA StutterInv ==
  ASSUME Inv, UNCHANGED vars
  PROVE  Inv'
<1> USE DEF vars
<1>1. TypeOK' BY DEF Inv, TypeOK, BrokenLog
<1>2. \A c \in Calls : Shaped(c)'
  BY DEF Inv, Shaped, Shape, Idle, Rests, Due
<1>3. \A c \in Calls : Stored(c)'
  BY DEF Inv, Stored, HasProject, Created, Creates, Operates, Finished, Owes, OwesRow, Due, Listed
<1>4. \A c \in Calls, p \in Projects : Fresh(c, p)'
  BY DEF Inv, Fresh, Created, Creates, Finished, Owes, Due, Listed
<1>5. CreatedOnce' BY DEF Inv, CreatedOnce, Creates
<1>6. \A p \in Projects : Uncreated(p)'
  BY DEF Inv, Uncreated, Creates, Operates, Owes, Due
<1>7. Ahead' BY DEF Inv, Ahead, NoneStale, Listed
<1>8. \A p \in Projects : LogDamage(p)'
  BY DEF Inv, LogDamage, BrokenLog, Saver, Saves, Cut, OwesRow, Owes, Due
<1>9. \A p \in Projects : BlobDamage(p)'
  BY DEF Inv, BlobDamage, Saver, Saves, Writes, Cut, Owes, Due
<1>10. CreationIsRecorded' BY DEF Inv, CreationIsRecorded, Saves, InFlight, Cut, Listed
<1>11. Joined' BY DEF Inv, Joined, Together, SameRow, Writes, Saves, NextEntry
<1>12. Unlisted' BY DEF Inv, Unlisted, NoneStale, NextEntry, Listed
<1> QED BY <1>1, <1>2, <1>3, <1>4, <1>5, <1>6, <1>7, <1>8, <1>9, <1>10, <1>11, <1>12 DEF Inv

LEMMA InvNext ==
  ASSUME Inv, [Next]_vars
  PROVE  Inv'
<1>1. CASE Next
  <2>1. Typed /\ CreatedOnce BY DEF Inv, Typed
  <2>2. Typed' BY <1>1, <2>1, TypesNext
  <2> QED BY <1>1, <2>1, <2>2, StoredNext, FreshNext, CreatedOnceNext, UncreatedNext, AheadNext,
             LogDamageNext, BlobDamageNext, JoinedNext, UnlistedNext, RecordedNext DEF Inv, Typed
<1>2. CASE UNCHANGED vars BY <1>2, StutterInv
<1> QED BY <1>1, <1>2

\* The strengthening of the properties holds for any numbers of projects, calls
\* and faults, under every driver.
THEOREM InvHolds == Spec => []Inv
<1>1. Init => Inv BY InitInv
<1>2. Inv /\ [Next]_vars => Inv' BY InvNext
<1> QED BY <1>1, <1>2, PTL DEF Spec

-----------------------------------------------------------------------------
(* The properties *)

\* The stores and the calls keep their shapes: only the file adapter knows files
\* that do not parse, calls between two steps of one write, and seen ids.
THEOREM AdaptersTyped == Spec => []TypeOK
<1>1. Inv => TypeOK BY DEF Inv
<1> QED BY <1>1, InvHolds, PTL

\* A snapshot that does not parse, and a log, have somebody to blame.
LEMMA Blame ==
  ASSUME Inv, NEW p \in Projects
  PROVE  /\ blob[p] \in Unparsable =>
              \E c \in Calls : WritesSnapshot(c, p) \/ MixedSnapshot(c, p)
         /\ BrokenLog(p) => \E c \in Calls : SpoilsLog(c, p)
<1>1. blob[p] \in Unparsable \/ BrokenLog(p) => driver = "file" BY DEF Inv, TypeOK
<1>2. ASSUME blob[p] \in Unparsable
      PROVE  \E c \in Calls : WritesSnapshot(c, p) \/ MixedSnapshot(c, p)
  <2>1. BlobDamage(p) BY DEF Inv
  <2>2. CASE \E c \in Calls : Saver(c, p) /\ (Writes(c) \/ (Cut(c) /\ Owes(c, "blob")))
    BY <1>1, <1>2, <2>2 DEF WritesSnapshot, Writes, Owes, Due
  <2>3. CASE blob[p] = Torn /\ \E c \in Calls : Saver(c, p) /\ <<c, "opened">> \in crossed
    BY <1>1, <1>2, <2>3 DEF MixedSnapshot
  <2> QED BY <1>2, <2>1, <2>2, <2>3 DEF BlobDamage
<1>3. ASSUME BrokenLog(p) PROVE \E c \in Calls : SpoilsLog(c, p)
  <2>1. \E c \in Calls : Saver(c, p) /\ Cut(c) /\ OwesRow(c) BY <1>3 DEF Inv, LogDamage
  <2> QED BY <1>1, <1>3, <2>1 DEF SpoilsLog, OwesRow, Owes, Due
<1> QED BY <1>2, <1>3

\* What a caller was told is stored is there to be read until a reset, whatever is
\* called next and wherever the server stops; in the file adapter unless another call
\* on that project was cut off in its write, is at it, or wrote at the same time.
THEOREM AcknowledgedKept == Spec => []AcknowledgedSurvives
<1>1. ASSUME Inv PROVE AcknowledgedSurvives
  <2>1. SUFFICES ASSUME NEW c \in Calls, calls[c].at = "done", ~calls[c].wiped,
                        calls[c].op.name \in {"create", "operate"},
                        NEW p, p = calls[c].op.project
                 PROVE  /\ blob[p] # None
                        /\ blob[p] \in Unparsable =>
                             \E d \in Calls \ {c} : WritesSnapshot(d, p) \/ MixedSnapshot(d, p)
                        /\ IF calls[c].op.name = "operate" THEN calls[c].op.id \in Listed(p)
                           ELSE \A event \in Events : Row(c, event) \in Listed(p)
                        /\ BrokenLog(p) => \E d \in Calls \ {c} : SpoilsLog(d, p)
    BY DEF AcknowledgedSurvives
  <2>2. Finished(c) BY <1>1, <2>1 DEF Inv, Shaped, Shape, Finished
  <2>3. Stored(c) BY <1>1 DEF Inv
  <2>4. HasProject(c) BY <2>1, <2>2 DEF HasProject, Operates, Creates, Finished, Owes, Due
  <2>5. /\ blob[p] # None
        /\ IF calls[c].op.name = "operate" THEN calls[c].op.id \in Listed(p)
           ELSE \A event \in Events : Row(c, event) \in Listed(p)
    <3>1. CASE calls[c].op.name = "operate"
      BY <2>1, <2>2, <2>3, <2>4, <3>1 DEF Stored, Operates
    <3>2. CASE calls[c].op.name = "create"
      <4>1. Creates(c) /\ Created(c) BY <2>1, <2>2, <3>2 DEF Creates, Created
      <4> QED BY <2>1, <2>2, <2>3, <2>4, <3>2, <4>1 DEF Stored, Events
    <3> QED BY <2>1, <3>1, <3>2
  <2>6. p \in Projects
    <3>1. calls[c].op \in AllAsks
      BY <1>1, <2>1, CallsAssumption DEF Inv, Shaped, Shape
    <3> QED BY <2>1, <3>1, AskProject
  <2>7. ~Cut(c) /\ calls[c].at # "opened" BY <2>1 DEF Cut
  <2>8. ~WritesSnapshot(c, p) /\ ~SpoilsLog(c, p)
    BY <2>7 DEF WritesSnapshot, SpoilsLog
  <2>9. ASSUME MixedSnapshot(c, p) PROVE \E d \in Calls \ {c} : MixedSnapshot(d, p)
    <3>1. <<c, "opened">> \in crossed BY <2>9 DEF MixedSnapshot
    <3>2. PICK d \in Calls \ {c} : /\ <<d, "opened">> \in crossed /\ Saves(d)
                                   /\ calls[c].op.project = calls[d].op.project
      BY <1>1, <3>1 DEF Inv, Joined
    <3> QED BY <2>1, <2>9, <3>2 DEF MixedSnapshot, Saver
  <2>10. /\ blob[p] \in Unparsable =>
              \E d \in Calls \ {c} : WritesSnapshot(d, p) \/ MixedSnapshot(d, p)
         /\ BrokenLog(p) => \E d \in Calls \ {c} : SpoilsLog(d, p)
    BY <1>1, <2>6, <2>8, <2>9, Blame
  <2> QED BY <2>5, <2>10
<1> QED BY <1>1, InvHolds, PTL

\* An id that was in the log when a call began is refused, whatever the server has
\* read of the log and however often it was restarted.
THEOREM KnownIdsRefused == Spec => []KnownIdRefused
<1>1. Inv => KnownIdRefused BY DEF Inv, Ahead, NoneStale, KnownIdRefused
<1> QED BY <1>1, InvHolds, PTL

\* A snapshot or a log breaks only under a call that writes it or was cut off in
\* writing it, or under calls that wrote one snapshot at the same time.
THEOREM DamageConfined == Spec => []DamageIsConfined
<1>1. Inv => DamageIsConfined BY Blame DEF DamageIsConfined
<1> QED BY <1>1, InvHolds, PTL

\* The two writes of a creation never leave a stored project without its first row,
\* but for a file adapter's call that is between them or was cut off there.
THEOREM CreationRecorded == Spec => []CreationIsRecorded
<1>1. Inv => CreationIsRecorded BY DEF Inv
<1> QED BY <1>1, InvHolds, PTL

-----------------------------------------------------------------------------
(* Every adapter implements the promise *)

KnownProjects == {p \in Projects : blob[p] # None}
WholeLogs == [p \in Projects |-> Whole(p)]

LEMMA SameRows ==
  ASSUME NEW S, NEW s \in Seq(S), NEW t \in Seq(S), Len(s) = Len(t),
         \A i \in 1..Len(s) : s[i] = t[i]
  PROVE  s = t
BY SeqEqual

\* The rows of a log are those before the line that does not parse.
LEMMA WholeTyped ==
  ASSUME log \in Logs, NEW p \in Projects, LogDamage(p)
  PROVE  Whole(p) \in Seq(Entries)
<1>1. log[p] \in Seq(Entries \union {Torn}) /\ Len(log[p]) \in Nat BY DEF Logs
<1>2. CASE ~BrokenLog(p)
  <2>1. \A i \in 1..Len(log[p]) : log[p][i] \in Entries BY <1>1, <1>2 DEF BrokenLog
  <2> QED BY <1>1, <1>2, <2>1 DEF Whole
<1>3. CASE BrokenLog(p)
  <2>1. \A i \in 1..(Len(log[p]) - 1) : log[p][i] \in Entries
    BY <1>1, <1>3 DEF LogDamage
  <2>2. PICK t : t = SubSeq(log[p], 1, Len(log[p]) - 1) OBVIOUS
  <2>3. Len(log[p]) >= 1 BY <1>1, <1>3 DEF BrokenLog
  <2>4. /\ t \in Seq(Entries \union {Torn}) /\ Len(t) = Len(log[p]) - 1
        /\ \A i \in 1..(Len(log[p]) - 1) : t[i] = log[p][i]
    BY <1>1, <2>2, <2>3
  <2>5. t \in Seq(Entries) BY <2>1, <2>4
  <2> QED BY <1>3, <2>2, <2>5 DEF Whole
<1> QED BY <1>2, <1>3

LEMMA WholeSame ==
  ASSUME NEW p \in Projects, log'[p] = log[p]
  PROVE  Whole(p)' = Whole(p)
BY DEF Whole, BrokenLog

LEMMA WholeEmptied ==
  ASSUME NEW p \in Projects, log'[p] = << >>
  PROVE  Whole(p)' = << >>
BY ListedEmptied DEF Whole

\* A line that is cut off adds no row.
LEMMA WholeTorn ==
  ASSUME log \in Logs, NEW p \in Projects, ~BrokenLog(p), log'[p] = Append(log[p], Torn)
  PROVE  Whole(p)' = Whole(p)
<1>1. log[p] \in Seq(Entries \union {Torn}) /\ Len(log[p]) \in Nat BY DEF Logs
<1>2. BrokenLog(p)' /\ Len(log'[p]) = Len(log[p]) + 1 BY TornAppended
<1>3. Whole(p)' = SubSeq(log'[p], 1, Len(log'[p]) - 1) BY <1>2 DEF Whole
<1>4. PICK t : t = SubSeq(Append(log[p], Torn), 1, Len(log[p])) OBVIOUS
<1>5. Whole(p)' = t BY <1>1, <1>2, <1>3, <1>4
<1>6. Append(log[p], Torn) \in Seq(Entries \union {Torn})
      /\ Len(Append(log[p], Torn)) = Len(log[p]) + 1
      /\ \A i \in 1..Len(log[p]) : Append(log[p], Torn)[i] = log[p][i]
  BY <1>1, AppendProperties
<1>7. /\ t \in Seq(Entries \union {Torn}) /\ Len(t) = Len(log[p])
      /\ \A i \in 1..Len(log[p]) : t[i] = log[p][i]
  BY <1>1, <1>4, <1>6
<1>8. t = log[p] BY <1>1, <1>7, SameRows
<1> QED BY <1>5, <1>8 DEF Whole

\* An append adds its row, and only a log that parses is appended to.
LEMMA WholeAppended ==
  ASSUME Inv, NEW c \in Calls, NEW p \in Projects, NEW e \in Entries, Appending(c, p, e)
  PROVE  /\ WholeLogs' = [WholeLogs EXCEPT ![p] = Append(@, e)]
         /\ Whole(p) = log[p] /\ ~BrokenLog(p)
<1>1. Typed /\ LogDamage(p) BY DEF Inv, Typed
<1>2. ~BrokenLog(p)
  <2>1. SUFFICES ASSUME BrokenLog(p) PROVE FALSE OBVIOUS
  <2>2. driver = "file" BY <1>1, <2>1 DEF Typed, TypeOK
  <2>3. AppendFile(c)
    <3>1. CreateProject(c) => driver # "file"
      BY <1>1, AtDue, RestFacts DEF CreateProject, Owes, Due
    <3> QED BY <2>2, <3>1 DEF Appending, AppendEntry
  <2>4. calls[c].at = "checked" /\ calls[c].op.project = p
    BY <2>3 DEF AppendFile, Appending, AppendedBy
  <2> QED BY <1>1, <2>1, <2>4 DEF LogDamage
<1>3. ~BrokenLog(p)' /\ log'[p] = Append(log[p], e) BY <1>1, <1>2, AppendedRow
<1>4. Whole(p) = log[p] /\ Whole(p)' = log'[p] BY <1>2, <1>3 DEF Whole
<1>5. \A q \in Projects \ {p} : Whole(q)' = Whole(q) BY <1>1, AppendedRow, WholeSame
<1>6. \A q \in Projects : Whole(q)' = IF q = p THEN Append(Whole(p), e) ELSE Whole(q)
  BY <1>3, <1>4, <1>5
<1> QED BY <1>2, <1>4, <1>6 DEF WholeLogs

\* Memory and postgres check and append in one go; the file adapter appends what it
\* looked up alone.
LEMMA NewRow ==
  ASSUME Inv, NEW c \in Calls, NEW p \in Projects, NEW e \in Entries,
         Appending(c, p, e), e \in Listed(p)
  PROVE  <<p, e>> \in Contended
<1>1. Typed /\ Fresh(c, p) /\ Unlisted BY DEF Inv, Typed
<1>2. ~(CreateProject(c) /\ Owes(c, "both") /\ e = Row(c, "project_created"))
  BY <1>1 DEF Fresh, Created, Finished, Owes, Due
<1>3. ~(AppendEntry(c) /\ Accepts(p, e))
  BY DEF Accepts
<1>4. AppendFile(c) /\ e = NextEntry(c) /\ calls[c].op.project = p
  BY <1>2, <1>3 DEF Appending, AppendedBy
<1>5. c \in Appenders(p, e) BY <1>4 DEF AppendFile, Appenders
<1>6. <<c, "checked">> \in crossed \/ \E d \in Calls : calls[d].stale
  BY <1>1, <1>4 DEF Unlisted, NoneStale, AppendFile
<1> QED BY <1>5, <1>6 DEF Contended

\* What a step is to somebody who sees which projects are known and the rows.
PStays == KnownProjects' = KnownProjects /\ WholeLogs' = WholeLogs
PSaves == \E p \in Projects : /\ KnownProjects' = KnownProjects \union {p}
                              /\ WholeLogs' = WholeLogs
PAppends == \E p \in Projects, e \in Entries :
              /\ KnownProjects' \in {KnownProjects, KnownProjects \union {p}}
              /\ (\E i \in 1..Len(WholeLogs[p]) : WholeLogs[p][i] = e) => <<p, e>> \in Contended
              /\ WholeLogs' = [WholeLogs EXCEPT ![p] = Append(@, e)]
PResets == /\ \E c \in InFlight : calls[c].op.name = "reset"
           /\ KnownProjects' \subseteq KnownProjects
           /\ \A p \in Projects : WholeLogs'[p] \in {WholeLogs[p], << >>}
PStops == /\ driver = "memory" /\ KnownProjects' = {}
          /\ WholeLogs' = [p \in Projects |-> << >>]

LEMMA StepsSeen ==
  ASSUME Inv, Next
  PROVE  PStays \/ PSaves \/ PAppends \/ PResets \/ PStops
<1>1. /\ Typed /\ CreatedOnce /\ \A q \in Projects : Uncreated(q)
      /\ \A p \in Projects : LogDamage(p)
  BY DEF Inv, Typed
<1>2. log \in Logs /\ blob \in [Projects -> Snapshots] BY <1>1 DEF Typed, TypeOK, Logs
<1>3. ASSUME log' = log PROVE WholeLogs' = WholeLogs BY <1>3, WholeSame DEF WholeLogs
<1>4. ASSUME blob' = blob PROVE KnownProjects' = KnownProjects BY <1>4 DEF KnownProjects
<1>5. ASSUME NEW c \in Calls,
             \/ Begin(c) \/ Bootstrap(c) \/ BootstrapRejected(c) \/ ReadState(c)
             \/ ListProjects(c) \/ LoadSeen(c) \/ LoadSeenFails(c) \/ ForgetSeen(c)
             \/ StorageFails(c)
      PROVE  PStays
  BY <1>3, <1>4, <1>5 DEF Begin, Bootstrap, BootstrapRejected, ReadState, ListProjects,
     LoadSeen, LoadSeenFails, ForgetSeen, StorageFails, PStays
<1>6. ASSUME NEW c \in Calls, SaveState(c) \/ OpenFile(c) \/ WriteFile(c)
      PROVE  PStays \/ PSaves
  <2>1. PICK v : blob' = [blob EXCEPT ![calls[c].op.project] = v]
    BY <1>6 DEF SaveState, OpenFile, WriteFile
  <2>2. WholeLogs' = WholeLogs BY <1>3, <1>6 DEF SaveState, OpenFile, WriteFile
  <2>3. calls[c].op.project \in Projects
    <3>1. CASE WriteFile(c) BY <1>1, <3>1, RowSaver DEF WriteFile
    <3>2. CASE SaveState(c) \/ OpenFile(c)
      <4>1. /\ Owes(c, "blob") /\ calls[c].op \in AllAsks
            /\ calls[c].todo \in Rests(calls[c].op)
        BY <1>1, <3>2, AtDue DEF SaveState, OpenFile
      <4>2. calls[c].op.name \in {"create", "operate"} BY <4>1, RestFacts DEF Owes, Due
      <4> QED BY <4>1, <4>2, AskProject
    <3> QED BY <1>6, <3>1, <3>2
  <2>4. PICK p \in Projects : p = calls[c].op.project BY <2>3
  <2>5. blob'[p] = v /\ \A q \in Projects \ {p} : blob'[q] = blob[q] BY <1>2, <2>1, <2>4
  <2>6. CASE v # None
    <3>1. KnownProjects' = KnownProjects \union {p} BY <2>5, <2>6 DEF KnownProjects
    <3> QED BY <2>2, <3>1 DEF PSaves
  <2>7. CASE v = None
    <3>1. WriteFile(c) /\ calls[c].stale
      BY <1>2, <1>6, <2>4, <2>5, <2>7, CallsAssumption DEF SaveState, OpenFile, WriteFile
    <3>2. blob' = blob
      BY <1>2, <2>4, <3>1 DEF WriteFile
    <3> QED BY <1>4, <2>2, <3>2 DEF PStays
  <2> QED BY <2>6, <2>7
<1>7. ASSUME NEW c \in Calls, NEW p \in Projects, NEW e \in Entries, Appending(c, p, e)
      PROVE  PAppends
  <2>1. /\ WholeLogs' = [WholeLogs EXCEPT ![p] = Append(@, e)]
        /\ WholeLogs[p] = log[p] /\ ~BrokenLog(p)
    BY <1>7, WholeAppended DEF WholeLogs
  <2>2. e # Torn BY CallsAssumption
  <2>3. (\E i \in 1..Len(WholeLogs[p]) : WholeLogs[p][i] = e) => <<p, e>> \in Contended
    BY <1>7, <2>1, <2>2, NewRow DEF Listed
  <2>4. KnownProjects' \in {KnownProjects, KnownProjects \union {p}}
    <3>1. CASE CreateProject(c)
      <4>1. calls[c].op.project = p BY <1>7 DEF Appending, AppendedBy
      <4>2. blob' = [blob EXCEPT ![p] = c] BY <3>1, <4>1 DEF CreateProject
      <4>3. c # None BY CallsAssumption
      <4>4. blob'[p] # None /\ \A q \in Projects \ {p} : blob'[q] = blob[q]
        BY <1>2, <4>2, <4>3
      <4>5. KnownProjects' = KnownProjects \union {p} BY <4>4 DEF KnownProjects
      <4> QED BY <4>5
    <3>2. CASE AppendEntry(c) \/ AppendFile(c)
      BY <1>4, <3>2 DEF AppendEntry, AppendFile
    <3> QED BY <1>7, <3>1, <3>2 DEF Appending
  <2> QED BY <2>1, <2>3, <2>4 DEF PAppends
<1>8. ASSUME NEW c \in Calls, CreateProject(c) \/ AppendEntry(c) \/ AppendFile(c)
      PROVE  PStays \/ PAppends
  <2>1. CASE CreateProject(c) \/ (AppendEntry(c) /\ log' # log) \/ AppendFile(c)
    BY <1>1, <1>7, <2>1, WritesAppend
  <2>2. CASE AppendEntry(c) /\ log' = log
    BY <1>3, <1>4, <2>2 DEF AppendEntry, PStays
  <2> QED BY <1>8, <2>1, <2>2
<1>9. ASSUME NEW c \in Calls,
             ResetMemory(c) \/ DeleteLogs(c) \/ DeleteProjects(c) \/ RemoveFile(c)
      PROVE  PResets
  <2>1. /\ calls[c].at = "begun" /\ calls[c].op.name = "reset"
    <3>1. PICK step \in {"all", "logs", "blobs"} : At(c, step)
      BY <1>9 DEF ResetMemory, DeleteLogs, DeleteProjects, RemoveFile
    <3>2. /\ calls[c].at = "begun" /\ Owes(c, step) /\ calls[c].op \in AllAsks
          /\ calls[c].todo \in Rests(calls[c].op)
      BY <1>1, <3>1, AtDue
    <3>3. calls[c].op.name = "reset" BY <3>2, RestFacts DEF Owes, Due
    <3> QED BY <3>2, <3>3
  <2>2. c \in InFlight BY <2>1 DEF InFlight
  <2>3. \A p \in Projects : blob'[p] \in {blob[p], None} /\ log'[p] \in {log[p], << >>}
    <3>1. CASE ResetMemory(c) BY <3>1 DEF ResetMemory
    <3>2. CASE DeleteLogs(c) BY <3>2 DEF DeleteLogs
    <3>3. CASE DeleteProjects(c) BY <3>3 DEF DeleteProjects
    <3>4. CASE RemoveFile(c) BY <1>2, <3>4 DEF RemoveFile, Logs
    <3> QED BY <1>9, <3>1, <3>2, <3>3, <3>4
  <2>4. KnownProjects' \subseteq KnownProjects BY <2>3 DEF KnownProjects
  <2>5. \A p \in Projects : WholeLogs'[p] \in {WholeLogs[p], << >>}
    <3>1. ASSUME NEW p \in Projects PROVE Whole(p)' \in {Whole(p), << >>}
      BY <2>3, WholeSame, WholeEmptied
    <3> QED BY <3>1 DEF WholeLogs
  <2> QED BY <2>1, <2>2, <2>4, <2>5 DEF PResets
<1>10. CASE ServerStops /\ driver = "memory"
  <2>1. \A p \in Projects : blob'[p] = None /\ log'[p] = << >> BY <1>10 DEF ServerStops
  <2>2. \A p \in Projects : Whole(p)' = << >> BY <2>1, WholeEmptied
  <2> QED BY <1>10, <2>1, <2>2 DEF PStops, KnownProjects, WholeLogs
<1>11. CASE ServerStops /\ driver # "memory"
  <2>1. blob' = blob /\ \A p \in Projects : log'[p] = log[p] \/ Tearing(p)
    BY <1>11, StopLogs
  <2>2. ASSUME NEW p \in Projects PROVE Whole(p)' = Whole(p)
    <3>1. CASE log'[p] = log[p] BY <3>1, WholeSame
    <3>2. CASE Tearing(p)
      <4>1. ~BrokenLog(p) BY <1>1, <3>2 DEF LogDamage, Tearing
      <4> QED BY <1>2, <3>2, <4>1, WholeTorn DEF Tearing
    <3> QED BY <2>1, <3>1, <3>2
  <2> QED BY <1>4, <2>1, <2>2 DEF PStays, WholeLogs
<1> QED BY <1>5, <1>6, <1>8, <1>9, <1>10, <1>11 DEF Next

\* Every adapter keeps the append-only contract: rows are only added, at the end, none
\* twice but where the file adapter checks one id for two appends at once or across a
\* reset, and what goes, goes by a reset, and in memory by a stop.
THEOREM PromiseKept == Spec => PersistencePromiseKept
<1>1. Init => Promise!Init
  <2> SUFFICES ASSUME Init PROVE Promise!Init OBVIOUS
  <2>1. Inv BY InitInv
  <2>2. \A p \in Projects : Whole(p) \in Seq(Entries)
    <3>1. log \in Logs /\ \A p \in Projects : LogDamage(p)
      BY <2>1 DEF Inv, TypeOK, Logs
    <3> QED BY <3>1, WholeTyped
  <2>3. ~\E c \in InFlight : calls[c].op.name = "reset"
    BY DEF Init, InFlight, Idle
  <2>4. Contended = {} BY DEF Init, Contended, Appenders, Idle
  <2> QED BY <2>2, <2>3, <2>4 DEF Promise!Init
<1>2. Inv /\ [Next]_vars => [Promise!Next]_(Promise!vars)
  <2> SUFFICES ASSUME Inv, [Next]_vars PROVE [Promise!Next]_(Promise!vars) OBVIOUS
  <2>1. CASE UNCHANGED vars
    BY <2>1 DEF vars, Promise!vars, Whole, BrokenLog, InFlight, Contended, Appenders, NextEntry
  <2>2. CASE Next
    <3>0. driver' = driver
      BY <2>2 DEF Next, Begin, Bootstrap, BootstrapRejected, ReadState, ListProjects,
         SaveState, OpenFile, WriteFile, CreateProject, AppendEntry, LoadSeen, LoadSeenFails,
         AppendFile, ResetMemory, DeleteLogs, DeleteProjects, RemoveFile, ForgetSeen,
         StorageFails, ServerStops
    <3>a. Contended' \subseteq Projects \X Entries BY DEF Contended
    <3>1. CASE PStays
      BY <3>0, <3>a, <3>1 DEF PStays, KnownProjects, WholeLogs, Promise!Next
    <3>2. CASE PSaves
      BY <3>0, <3>a, <3>2 DEF PSaves, KnownProjects, WholeLogs, Promise!Next, Promise!Save
    <3>3. CASE PAppends
      <4>1. PICK p \in Projects, e \in Entries :
              /\ KnownProjects' \in {KnownProjects, KnownProjects \union {p}}
              /\ (\E i \in 1..Len(WholeLogs[p]) : WholeLogs[p][i] = e) => <<p, e>> \in Contended
              /\ WholeLogs' = [WholeLogs EXCEPT ![p] = Append(@, e)]
        BY <3>3 DEF PAppends
      <4>2. Promise!AppendEntry(p, e)
        <5>1. e \in Promise!Listed(p) => <<p, e>> \in Contended
          BY <4>1 DEF WholeLogs, Promise!Listed
        <5>2. [q \in Projects |-> Whole(q)]' =
                [[q \in Projects |-> Whole(q)] EXCEPT ![p] = Append(@, e)]
          BY <4>1 DEF WholeLogs
        <5> QED BY <5>1, <5>2 DEF Promise!AppendEntry
      <4>3. CASE KnownProjects' = KnownProjects
        BY <3>0, <3>a, <4>2, <4>3 DEF KnownProjects, Promise!Next
      <4>4. CASE KnownProjects' = KnownProjects \union {p}
        <5>1. Promise!Create(p, e) BY <4>2, <4>4 DEF KnownProjects, Promise!Create
        <5> QED BY <3>0, <3>a, <5>1 DEF Promise!Next
      <4> QED BY <4>1, <4>3, <4>4
    <3>4. CASE PResets
      BY <3>0, <3>a, <3>4 DEF PResets, KnownProjects, WholeLogs, Promise!Next, Promise!Reset
    <3>5. CASE PStops
      BY <3>0, <3>a, <3>5 DEF PStops, KnownProjects, WholeLogs, Promise!Next, Promise!Stop
    <3> QED BY <2>2, <3>1, <3>2, <3>3, <3>4, <3>5, StepsSeen
  <2> QED BY <2>1, <2>2
<1> QED BY <1>1, <1>2, InvHolds, PTL DEF Spec, PersistencePromiseKept, Promise!Spec

=============================================================================
