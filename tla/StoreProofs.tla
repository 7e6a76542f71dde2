----------------------------- MODULE StoreProofs ----------------------------
(***************************************************************************)
(* What requests against one stored project leave behind, for any number   *)
(* of requests, members, cards and faults, however many of the requests    *)
(* overlap, and wherever among these an append is refused or the server    *)
(* stops.                                                                  *)
(*                                                                         *)
(* The stored project and the one each request has read are stores.  The   *)
(* first part follows one operation from the store it read to the store it *)
(* writes (Moves); the second shows that every store there is stays sound, *)
(* and that a request that has not saved left no trace in any; the third   *)
(* follows the requests that no other overlapped, and the last what is     *)
(* owed to the journal of decisions.                                       *)
(***************************************************************************)
EXTENDS ServerStore, ProjectProofs

Decided(p) == Raised(p) \ Pending(p)

\* What every operation leaves of a project: what was recorded in it.
Grows(p, q) ==
  /\ Extends(q.history, p.history)
  /\ UsedIds(p) \subseteq UsedIds(q)
  /\ q.qaRuns >= p.qaRuns
  /\ Decided(p) \subseteq Decided(q)
  /\ \A i \in Finals(p) : /\ i \in Finals(q)
                          /\ q.versions[i].approvedBy = p.versions[i].approvedBy

\* The ids a project shows: those of its versions and of its cards.
Shown(p) == UsedIds(p) \union Raised(p)

-----------------------------------------------------------------------------
(* One operation on a project *)

LEMMA SameVersions ==
  ASSUME NEW p, NEW q, q.versions = p.versions
  PROVE  /\ UsedIds(q) = UsedIds(p) /\ Finals(q) = Finals(p)
         /\ \A i \in Finals(p) : /\ i \in Finals(q)
                                 /\ q.versions[i].approvedBy = p.versions[i].approvedBy
BY DEF UsedIds, Finals

LEMMA SameGrows ==
  ASSUME NEW p, Sound(p)
  PROVE  Grows(p, p)
<1>1. p.history \in Seq(Entry) /\ p.qaRuns \in Nat BY DEF Sound, Good, ProjectState
<1> QED BY <1>1, SameExtends DEF Grows

LEMMA DecideIssueGrows ==
  ASSUME NEW p, Sound(p), NEW c \in Cards, NEW d \in Outcomes, NEW a \in Lawyers,
         p.decision[c] # "absent"
  PROVE  /\ Grows(p, DecideIssue(p, c, d, a))
         /\ Shown(DecideIssue(p, c, d, a)) = Shown(p)
         /\ Finals(DecideIssue(p, c, d, a)) = Finals(p)
         /\ \E i \in 1..Len(DecideIssue(p, c, d, a).history) :
              /\ DecideIssue(p, c, d, a).history[i].issue = c
              /\ DecideIssue(p, c, d, a).history[i].new = d
              /\ DecideIssue(p, c, d, a).history[i].actor = a
<1> DEFINE q == DecideIssue(p, c, d, a)
           entry == [issue |-> c, previous |-> p.decision[c], new |-> d, actor |-> a]
<1>1. /\ p \in ProjectState /\ p.history \in Seq(Entry) /\ p.qaRuns \in Nat
      /\ p.decision \in [Cards -> Decisions]
  BY DEF Sound, Good, ProjectState
<1>2. entry \in Entry BY <1>1 DEF Entry
<1>3. /\ q.versions = p.versions /\ q.qaRuns = p.qaRuns
      /\ q.history = Append(p.history, entry)
      /\ q.decision = [p.decision EXCEPT ![c] = d]
  BY <1>1 DEF DecideIssue, ProjectState
<1>4. entry.issue = c /\ entry.new = d /\ entry.actor = a OBVIOUS
<1> HIDE DEF q, entry
<1>5. d # "absent" /\ d # "pending" BY DEF Outcomes
<1>6. Raised(q) = Raised(p) BY <1>1, <1>3, <1>5 DEF Raised
<1>7. Decided(p) \subseteq Decided(q) BY <1>1, <1>3, <1>5 DEF Decided, Raised, Pending
<1>8. Extends(q.history, p.history) BY <1>1, <1>2, <1>3, AppendExtends
<1>9. Grows(p, q) BY <1>1, <1>3, <1>7, <1>8, SameVersions DEF Grows
<1>10. Shown(q) = Shown(p) /\ Finals(q) = Finals(p)
  BY <1>3, <1>6, SameVersions DEF Shown
<1>11. /\ Len(q.history) \in 1..Len(q.history)
       /\ q.history[Len(q.history)] = entry
  BY <1>1, <1>2, <1>3
<1> QED BY <1>4, <1>9, <1>10, <1>11 DEF q

LEMMA BatchAcceptGrows ==
  ASSUME NEW p, Sound(p), NEW ids \in SUBSET Raised(p),
         NEW order \in Orders(ids \intersect Pending(p)), NEW a \in Lawyers
  PROVE  /\ Grows(p, BatchAccept(p, order, a))
         /\ Shown(BatchAccept(p, order, a)) = Shown(p)
         /\ Finals(BatchAccept(p, order, a)) = Finals(p)
         /\ ids \subseteq Decided(BatchAccept(p, order, a))
<1> DEFINE q == BatchAccept(p, order, a)
           S == ids \intersect Pending(p)
<1>1. /\ p \in ProjectState /\ p.history \in Seq(Entry) /\ p.qaRuns \in Nat
      /\ p.decision \in [Cards -> Decisions]
  BY DEF Sound, Good, ProjectState
<1>2. q.versions = p.versions /\ q.qaRuns = p.qaRuns
  BY <1>1 DEF BatchAccept, ProjectState
<1>3. q.decision = [c \in Cards |-> IF \E i \in DOMAIN order : order[i] = c
                                    THEN "accepted" ELSE p.decision[c]]
  BY <1>1 DEF BatchAccept, ProjectState
<1>4. S \in SUBSET Cards /\ ids \in SUBSET Cards BY DEF Raised, Pending
<1>5. Extends(q.history, p.history)
  <2>1. /\ BatchEntries(order, a) \in Seq(Entry)
        /\ q.history = p.history \o BatchEntries(order, a)
    BY <1>1, <1>4, BatchAcceptAdds
  <2> HIDE DEF q
  <2> QED BY <1>1, <2>1, ConcatExtends
<1>6. \A c \in Cards : (\E i \in DOMAIN order : order[i] = c) <=> c \in S
  <2>1. IsFiniteSet(S) BY <1>4, CardsAssumption, FS_Subset
  <2>2. /\ order \in [1..Cardinality(S) -> S]
        /\ \A i, j \in DOMAIN order : order[i] = order[j] => i = j
    BY DEF Orders
  <2>3. order \in Injection(1..Cardinality(S), S)
    BY <2>2 DEF Injection, IsInjective
  <2>4. Cardinality(S) \in Nat BY <2>1, FS_CardinalityType
  <2>5. IsFiniteSet(1..Cardinality(S)) /\ Cardinality(1..Cardinality(S)) = Cardinality(S)
    BY <2>4, FS_Interval
  <2>6. order \in Surjection(1..Cardinality(S), S)
    BY <2>1, <2>3, <2>5, FS_Injection
  <2>7. \A c \in S : \E i \in 1..Cardinality(S) : order[i] = c BY <2>6 DEF Surjection
  <2>8. DOMAIN order = 1..Cardinality(S) /\ \A i \in 1..Cardinality(S) : order[i] \in S
    BY <2>2
  <2> QED BY <2>7, <2>8
<1> HIDE DEF q, S
<1>7. \A c \in Cards : q.decision[c] = IF c \in S THEN "accepted" ELSE p.decision[c]
  BY <1>3, <1>6
<1>8. \A c \in S : p.decision[c] = "pending" /\ c \in Cards BY DEF S, Pending
<1>9. Raised(q) = Raised(p) BY <1>7, <1>8 DEF Raised
<1>10. Decided(p) \subseteq Decided(q) BY <1>7, <1>8, <1>9 DEF Decided, Raised, Pending
<1>11. ids \subseteq Decided(q)
  <2> SUFFICES ASSUME NEW c \in ids PROVE c \in Decided(q) OBVIOUS
  <2>1. c \in Cards /\ c \in Raised(q) BY <1>4, <1>9
  <2>2. CASE c \in S BY <1>7, <2>1, <2>2 DEF Decided, Pending
  <2>3. CASE c \notin S
    <3>1. p.decision[c] # "pending" BY <2>1, <2>3 DEF S, Pending
    <3> QED BY <1>7, <2>1, <2>3, <3>1 DEF Decided, Pending
  <2> QED BY <2>2, <2>3
<1>12. Grows(p, q) BY <1>1, <1>2, <1>5, <1>10, SameVersions DEF Grows
<1>13. Shown(q) = Shown(p) /\ Finals(q) = Finals(p)
  BY <1>2, <1>9, SameVersions DEF Shown
<1> QED BY <1>11, <1>12, <1>13 DEF q

LEMMA CreateRevisionGrows ==
  ASSUME NEW p, Sound(p), NEW id \in VersionIds
  PROVE  /\ Grows(p, CreateRevision(p, id))
         /\ Shown(CreateRevision(p, id)) = Shown(p) \union {id}
         /\ Finals(CreateRevision(p, id)) = Finals(p)
         /\ id \in UsedIds(CreateRevision(p, id))
<1> DEFINE q == CreateRevision(p, id)
           v == Draft(id, Accepted(p))
           n == Len(p.versions)
<1>1. /\ p \in ProjectState /\ p.history \in Seq(Entry) /\ p.qaRuns \in Nat
      /\ p.versions \in Seq(Version)
  BY DEF Sound, Good, ProjectState
<1>2. /\ q.versions = Append(p.versions, v) /\ q.history = p.history
      /\ q.qaRuns = p.qaRuns /\ q.decision = p.decision
  BY <1>1 DEF CreateRevision, ProjectState
<1>3. v \in Version /\ v.id = id /\ ~v.final
  <2>1. Accepted(p) \in SUBSET Cards BY DEF Accepted
  <2> QED BY <2>1, DraftType DEF Draft
<1> HIDE DEF q, v
<1>4. /\ n \in Nat /\ Len(q.versions) = n + 1 /\ q.versions[n + 1] = v
      /\ \A i \in 1..n : q.versions[i] = p.versions[i]
  BY <1>1, <1>2, <1>3
<1> HIDE DEF n
<1>5. \A i \in 1..(n + 1) : i \in 1..n \/ i = n + 1 BY <1>4
<1>6. \A i \in 1..n : i \in 1..(n + 1) BY <1>4
<1>7. n + 1 \in 1..(n + 1) BY <1>4
<1>8. UsedIds(q) = UsedIds(p) \union {id}
  <2>1. UsedIds(p) = {p.versions[i].id : i \in 1..n} BY DEF UsedIds, n
  <2>2. UsedIds(q) = {q.versions[i].id : i \in 1..(n + 1)} BY <1>4 DEF UsedIds
  <2> QED BY <1>3, <1>4, <1>5, <1>6, <1>7, <2>1, <2>2
<1>9. Finals(q) = Finals(p)
  <2>1. Finals(p) = {i \in 1..n : p.versions[i].final} BY DEF Finals, n
  <2>2. Finals(q) = {i \in 1..(n + 1) : q.versions[i].final} BY <1>4 DEF Finals
  <2> QED BY <1>3, <1>4, <1>5, <1>6, <2>1, <2>2
<1>10. \A i \in Finals(p) : q.versions[i].approvedBy = p.versions[i].approvedBy
  BY <1>4 DEF Finals, n
<1>11. Raised(q) = Raised(p) /\ Decided(q) = Decided(p)
  BY <1>2 DEF Decided, Raised, Pending
<1>12. Extends(q.history, p.history) BY <1>1, <1>2, SameExtends
<1>13. Grows(p, q)
  <2>1. q.qaRuns >= p.qaRuns BY <1>1, <1>2
  <2>2. UsedIds(p) \subseteq UsedIds(q) /\ Decided(p) \subseteq Decided(q)
    BY <1>8, <1>11
  <2>3. \A i \in Finals(p) : /\ i \in Finals(q)
                             /\ q.versions[i].approvedBy = p.versions[i].approvedBy
    BY <1>9, <1>10
  <2> QED BY <1>12, <2>1, <2>2, <2>3 DEF Grows
<1> QED BY <1>8, <1>9, <1>11, <1>13 DEF q, Shown

LEMMA RunFinalQAGrows ==
  ASSUME NEW p, Sound(p), NEW S \in SUBSET (Cards \ Raised(p))
  PROVE  /\ Grows(p, RunFinalQA(p, S, {}))
         /\ Shown(RunFinalQA(p, S, {})) = Shown(p) \union S
         /\ Finals(RunFinalQA(p, S, {})) = Finals(p)
         /\ RunFinalQA(p, S, {}).qaRuns > 0
<1> DEFINE det == RunDeterministicQA(p, S)
           q == RunFinalQA(p, S, {})
<1>1. /\ p \in ProjectState /\ p.history \in Seq(Entry) /\ p.qaRuns \in Nat
      /\ det \in ProjectState
  BY RunDeterministicQAType DEF Sound, Good, ProjectState
<1>2. /\ det.versions = p.versions /\ det.history = p.history
      /\ det.qaRuns = p.qaRuns + 1
      /\ \A c \in Cards : det.decision[c] = IF c \in S THEN "pending" ELSE p.decision[c]
  BY <1>1 DEF RunDeterministicQA, Raise, ProjectState
<1>3. q = [det EXCEPT !.decision = Raise(det, {}), !.runs = RanAgent(det, "final_qa_assistant")]
  BY DEF RunFinalQA
<1> HIDE DEF det
<1>4. /\ q.versions = p.versions /\ q.history = p.history /\ q.qaRuns = p.qaRuns + 1
      /\ \A c \in Cards : q.decision[c] = IF c \in S THEN "pending" ELSE p.decision[c]
  <2>1. /\ q.versions = det.versions /\ q.history = det.history /\ q.qaRuns = det.qaRuns
        /\ q.decision = Raise(det, {})
    BY <1>1, <1>3 DEF ProjectState
  <2>2. \A c \in Cards : q.decision[c] = det.decision[c] BY <2>1 DEF Raise
  <2> HIDE DEF q
  <2> QED BY <1>2, <2>1, <2>2
<1> HIDE DEF q
<1>5. Raised(q) = Raised(p) \union S BY <1>4 DEF Raised
<1>6. Decided(p) \subseteq Decided(q) BY <1>4, <1>5 DEF Decided, Raised, Pending
<1>7. Grows(p, q) BY <1>1, <1>4, <1>6, SameVersions, SameExtends DEF Grows
<1>8. Shown(q) = Shown(p) \union S /\ Finals(q) = Finals(p)
  BY <1>4, <1>5, SameVersions DEF Shown
<1> QED BY <1>1, <1>4, <1>7, <1>8 DEF q

LEMMA ApproveFinalGrows ==
  ASSUME NEW p, Sound(p), NEW a \in Lawyers, CanApproveFinal(p, a)
  PROVE  /\ Grows(p, ApproveFinal(p, a))
         /\ Shown(ApproveFinal(p, a)) = Shown(p)
         /\ \E i \in Finals(ApproveFinal(p, a)) :
              ApproveFinal(p, a).versions[i].approvedBy = a
<1> DEFINE q == ApproveFinal(p, a)
           n == Len(p.versions)
           last == [p.versions[n] EXCEPT !.final = TRUE, !.approvedBy = a]
<1>1. /\ p \in ProjectState /\ p.history \in Seq(Entry) /\ p.qaRuns \in Nat
      /\ p.versions \in Seq(Version) /\ p.versions # << >>
  BY DEF Sound, Good, ProjectState, CanApproveFinal
<1>2. n \in Nat /\ n \in 1..n /\ p.versions[n] \in Version BY <1>1
<1>3. /\ last \in Version /\ last.id = p.versions[n].id
      /\ last.final /\ last.approvedBy = a
  BY <1>2 DEF Version, Approver
<1>4. /\ q.versions = [p.versions EXCEPT ![n] = last] /\ q.history = p.history
      /\ q.qaRuns = p.qaRuns /\ q.decision = p.decision
  BY <1>1 DEF ApproveFinal, ProjectState
<1>5. Finals(p) = {}
  <2>1. ~AtLeast(p.status, "final_approved")
    BY RankOf DEF AtLeast, CanApproveFinal
  <2> QED BY <1>1, <2>1, NotYetFinal DEF Sound, Good
<1> HIDE DEF q, last
<1>6. /\ Len(q.versions) = n
      /\ \A i \in 1..n : q.versions[i] = IF i = n THEN last ELSE p.versions[i]
  BY <1>1, <1>2, <1>3, <1>4, ExceptSeq
<1> HIDE DEF n
<1>7. UsedIds(q) = UsedIds(p)
  <2>1. UsedIds(p) = {p.versions[i].id : i \in 1..n} BY DEF UsedIds, n
  <2>2. UsedIds(q) = {q.versions[i].id : i \in 1..n} BY <1>6 DEF UsedIds
  <2>3. \A i \in 1..n : q.versions[i].id = p.versions[i].id BY <1>3, <1>6
  <2> QED BY <2>1, <2>2, <2>3
<1>8. Raised(q) = Raised(p) /\ Decided(q) = Decided(p)
  BY <1>4 DEF Decided, Raised, Pending
<1>9. Grows(p, q) BY <1>1, <1>4, <1>5, <1>7, <1>8, SameExtends DEF Grows
<1>10. n \in Finals(q) /\ q.versions[n].approvedBy = a BY <1>2, <1>3, <1>6 DEF Finals
<1> QED BY <1>7, <1>8, <1>9, <1>10 DEF q, Shown

-----------------------------------------------------------------------------
(* Memberships *)

Staffed(members) ==
  /\ members \subseteq Membership
  /\ ActiveOwners(members) # {}
  /\ \A m, n \in members :
       /\ m.id = n.id => m = n
       /\ ~m.disabled /\ ~n.disabled /\ m.actor = n.actor => m = n
  /\ \A m \in members : m.role \in LawyerRoles => m.actor \in Lawyers

Ids(members) == {m.id : m \in members}

\* A membership stays, and stays disabled once it is.
MembersGrow(members, new) ==
  \A m \in members : \E n \in new : n.id = m.id /\ (m.disabled => n.disabled)

LEMMA SameMembers ==
  ASSUME NEW members
  PROVE  MembersGrow(members, members)
BY DEF MembersGrow

NewMember(r, op) == [id |-> r, actor |-> op.actor, role |-> op.role, disabled |-> FALSE]

LEMMA AddStaffed ==
  ASSUME NEW members, Staffed(members), NEW r \in Requests, r \notin Ids(members),
         NEW op, op.actor \in Actors, op.role \in ProjectRoles,
         CanAddMembership(members, op)
  PROVE  /\ Staffed(members \union {NewMember(r, op)})
         /\ Ids(members \union {NewMember(r, op)}) = Ids(members) \union {r}
         /\ MembersGrow(members, members \union {NewMember(r, op)})
<1> DEFINE m == NewMember(r, op)
           new == members \union {m}
<1>1. m \in Membership BY DEF NewMember, Membership, MemberIds
<1>2. m.id = r /\ m.actor = op.actor /\ m.role = op.role /\ ~m.disabled BY DEF NewMember
<1> HIDE DEF m
<1>3. \A n \in members : n.id # r BY DEF Ids
<1>4. \A n \in members : ~(~n.disabled /\ n.actor = m.actor)
  BY <1>2 DEF CanAddMembership, Active
<1>5. m.role \in LawyerRoles => m.actor \in Lawyers BY <1>2 DEF CanAddMembership
<1>6. ActiveOwners(new) # {} BY DEF Staffed, ActiveOwners
<1>7. \A x, y \in new : /\ x.id = y.id => x = y
                        /\ ~x.disabled /\ ~y.disabled /\ x.actor = y.actor => x = y
  BY <1>2, <1>3, <1>4 DEF Staffed
<1>8. Staffed(new) BY <1>1, <1>5, <1>6, <1>7 DEF Staffed
<1>9. Ids(new) = Ids(members) \union {r} BY <1>2 DEF Ids
<1>10. MembersGrow(members, new) BY DEF MembersGrow
<1> QED BY <1>8, <1>9, <1>10 DEF m

LEMMA DisableStaffed ==
  ASSUME NEW members, Staffed(members), NEW op, CanDisableMembership(members, op)
  PROVE  /\ Staffed(DisableMembership(members, op.member))
         /\ Ids(DisableMembership(members, op.member)) = Ids(members)
         /\ MembersGrow(members, DisableMembership(members, op.member))
         /\ \E m \in DisableMembership(members, op.member) : m.id = op.member /\ m.disabled
<1> DEFINE After(m) == IF m.id = op.member THEN [m EXCEPT !.disabled = TRUE] ELSE m
           new == DisableMembership(members, op.member)
<1>1. new = {After(m) : m \in members} BY DEF DisableMembership
<1>2. \A m \in members :
        /\ After(m) \in Membership
        /\ After(m).id = m.id /\ After(m).actor = m.actor /\ After(m).role = m.role
        /\ m.disabled => After(m).disabled
        /\ m.id = op.member => After(m).disabled
        /\ ~After(m).disabled => After(m) = m
  BY DEF Staffed, Membership
<1>3. PICK t \in members :
        /\ t.id = op.member
        /\ t.role = "owner_lawyer" /\ ~t.disabled => ActiveOwners(members) # {t}
  BY DEF CanDisableMembership
<1>4. \A m \in members : m.id = t.id => m = t BY <1>3 DEF Staffed
<1>5. PICK o \in ActiveOwners(members) : o # t
  <2>1. CASE t \in ActiveOwners(members)
    <3>1. ActiveOwners(members) # {t} BY <1>3, <2>1 DEF ActiveOwners
    <3> QED BY <2>1, <3>1
  <2>2. CASE t \notin ActiveOwners(members) BY <2>2 DEF Staffed
  <2> QED BY <2>1, <2>2
<1>6. o \in members /\ o.id # op.member BY <1>3, <1>4, <1>5 DEF ActiveOwners
<1>7. After(o) = o BY <1>6
<1> HIDE DEF After, new
<1>8. ActiveOwners(new) # {} BY <1>1, <1>5, <1>6, <1>7 DEF ActiveOwners
<1>9. \A x, y \in new : /\ x.id = y.id => x = y
                        /\ ~x.disabled /\ ~y.disabled /\ x.actor = y.actor => x = y
  <2> SUFFICES ASSUME NEW m \in members, NEW n \in members
               PROVE  LET x == After(m)  y == After(n) IN
                      /\ x.id = y.id => x = y
                      /\ ~x.disabled /\ ~y.disabled /\ x.actor = y.actor => x = y
    BY <1>1
  <2>1. After(m).id = After(n).id => m = n BY <1>2 DEF Staffed
  <2>2. ~After(m).disabled /\ ~After(n).disabled /\ After(m).actor = After(n).actor => m = n
    BY <1>2 DEF Staffed
  <2> QED BY <2>1, <2>2
<1>10. \A x \in new : x.role \in LawyerRoles => x.actor \in Lawyers
  BY <1>1, <1>2 DEF Staffed
<1>11. Staffed(new) BY <1>1, <1>2, <1>8, <1>9, <1>10 DEF Staffed
<1>12. Ids(new) = Ids(members) BY <1>1, <1>2 DEF Ids
<1>13. MembersGrow(members, new) BY <1>1, <1>2 DEF MembersGrow
<1>14. After(t) \in new /\ After(t).id = op.member /\ After(t).disabled BY <1>1, <1>2, <1>3
<1> QED BY <1>11, <1>12, <1>13, <1>14 DEF new

-----------------------------------------------------------------------------
(* One operation on a store *)

SoundStore(s) == Sound(s.project) /\ Staffed(s.members)

\* The ids a store shows.
Traces(s) == Shown(s.project) \union Ids(s.members)

StoreGrows(s, t) == Grows(s.project, t.project) /\ MembersGrow(s.members, t.members)

\* What the operation of a request has left, in a form that later operations keep.
Left(s, r, op) ==
  /\ Effective(s, r, op)
  /\ op.name = "batch_accept_review_issues" => op.cards \subseteq Raised(s.project)

\* Operation op of request r takes the store s that it read to t.
Moves(r, op, s, t) ==
  /\ SoundStore(t)
  /\ Traces(t) \subseteq Traces(s) \union {r}
  /\ StoreGrows(s, t)
  /\ Left(t, r, op)
  /\ Finals(t.project) # Finals(s.project) => op.name = "approve_final"
  /\ t.members # s.members => op.name \in {"add_membership", "disable_membership"}

Store(project, members) == [project |-> project, members |-> members]

\* What an operation leaves, later operations keep.
LEMMA LeftStays ==
  ASSUME NEW s, NEW t, StoreGrows(s, t), SoundStore(s), SoundStore(t), NEW r,
         NEW op \in AllOperations, Left(s, r, op)
  PROVE  Left(t, r, op)
<1> DEFINE p == s.project
           q == t.project
<1>1. /\ p.history \in Seq(Entry) /\ q.history \in Seq(Entry)
      /\ p.qaRuns \in Nat /\ q.qaRuns \in Nat
  BY DEF SoundStore, Sound, Good, ProjectState
<1>2. Grows(p, q) /\ MembersGrow(s.members, t.members) BY DEF StoreGrows
<1>3. \A i \in 1..Len(p.history) : i \in 1..Len(q.history) /\ q.history[i] = p.history[i]
  BY <1>1, <1>2 DEF Grows, Extends
<1>4. Effective(s, r, op) BY DEF Left
<1>5. CASE op.name = "decide_issue"
  <2>1. PICK i \in 1..Len(p.history) :
          p.history[i].issue = op.card /\ p.history[i].new = op.decision
            /\ p.history[i].actor = ActorOf[r]
    BY <1>4, <1>5 DEF Effective
  <2>2. i \in 1..Len(q.history) /\ q.history[i] = p.history[i] BY <1>3
  <2>3. \E j \in 1..Len(q.history) :
          q.history[j].issue = op.card /\ q.history[j].new = op.decision
            /\ q.history[j].actor = ActorOf[r]
    BY <2>1, <2>2
  <2> QED BY <1>5, <2>3 DEF Left, Effective
<1>6. CASE op.name = "batch_accept_review_issues"
  <2>1. op.cards \subseteq Raised(p) /\ op.cards \intersect Pending(p) = {}
    BY <1>4, <1>6 DEF Left, Effective
  <2>2. op.cards \subseteq Decided(q) BY <1>2, <2>1 DEF Grows, Decided
  <2>3. op.cards \subseteq Raised(q) /\ op.cards \intersect Pending(q) = {}
    BY <2>2 DEF Decided
  <2> QED BY <1>6, <2>3 DEF Left, Effective
<1>7. CASE op.name = "create_revision"
  BY <1>2, <1>4, <1>7 DEF Left, Effective, Grows
<1>8. CASE op.name = "run_mock_final_qa"
  <2>1. p.qaRuns > 0 BY <1>4, <1>8 DEF Effective
  <2>2. q.qaRuns > 0 BY <1>1, <1>2, <2>1 DEF Grows
  <2> QED BY <1>8, <2>2 DEF Left, Effective
<1>9. CASE op.name = "approve_final"
  <2>1. PICK i \in Finals(p) : p.versions[i].approvedBy = ActorOf[r]
    BY <1>4, <1>9 DEF Effective
  <2>2. i \in Finals(q) /\ q.versions[i].approvedBy = ActorOf[r]
    BY <1>2, <2>1 DEF Grows
  <2> QED BY <1>9, <2>2 DEF Left, Effective
<1>10. CASE op.name = "add_membership"
  <2>1. PICK m \in s.members : m.id = r BY <1>4, <1>10 DEF Effective
  <2>2. \E n \in t.members : n.id = r BY <1>2, <2>1 DEF MembersGrow
  <2> QED BY <1>10, <2>2 DEF Left, Effective
<1>11. CASE op.name = "disable_membership"
  <2>1. PICK m \in s.members : m.id = op.member /\ m.disabled
    BY <1>4, <1>11 DEF Effective
  <2>2. \E n \in t.members : n.id = op.member /\ n.disabled
    BY <1>2, <2>1 DEF MembersGrow
  <2> QED BY <1>11, <2>2 DEF Left, Effective
<1> QED BY <1>5, <1>6, <1>7, <1>8, <1>9, <1>10, <1>11 DEF AllOperations

\* An operation that changes the project alone.
LEMMA ProjectMoves ==
  ASSUME NEW s, SoundStore(s), NEW q, Sound(q), Grows(s.project, q), NEW r, NEW op,
         Shown(q) \subseteq Shown(s.project) \union {r},
         Left(Store(q, s.members), r, op),
         Finals(q) # Finals(s.project) => op.name = "approve_final"
  PROVE  Moves(r, op, s, Store(q, s.members))
<1>1. Store(q, s.members).project = q /\ Store(q, s.members).members = s.members
  BY DEF Store
<1> QED BY <1>1, SameMembers DEF Moves, SoundStore, Traces, StoreGrows

LEMMA MembersMove ==
  ASSUME NEW s, SoundStore(s), NEW new, Staffed(new), MembersGrow(s.members, new),
         NEW r, NEW op, Ids(new) \subseteq Ids(s.members) \union {r},
         op.name \in {"add_membership", "disable_membership"},
         Left(Store(s.project, new), r, op)
  PROVE  Moves(r, op, s, Store(s.project, new))
<1>1. Store(s.project, new).project = s.project /\ Store(s.project, new).members = new
  BY DEF Store
<1>2. Grows(s.project, s.project) BY SameGrows DEF SoundStore
<1> QED BY <1>1, <1>2 DEF Moves, SoundStore, Traces, StoreGrows

LEMMA OperationShape ==
  ASSUME NEW op \in AllOperations
  PROVE  /\ op.name = "decide_issue" => op.card \in Cards /\ op.decision \in Outcomes
         /\ op.name = "batch_accept_review_issues" => op.cards \in SUBSET Cards
         /\ op.name = "add_membership" => op.actor \in Actors /\ op.role \in ProjectRoles
BY DEF AllOperations

LEMMA DecisionMoves ==
  ASSUME NEW s, SoundStore(s), NEW r \in Requests, NEW op \in AllOperations,
         op.name = "decide_issue", Accepts(op, ActorOf[r], s)
  PROVE  Moves(r, op, s, Store(DecideIssue(s.project, op.card, op.decision, ActorOf[r]),
                               s.members))
<1> DEFINE p == s.project
           q == DecideIssue(p, op.card, op.decision, ActorOf[r])
<1>1. CanDecideIssue(p, op.card, op.decision, ActorOf[r], TRUE) BY DEF Accepts
<1>2. /\ op.card \in Cards /\ op.decision \in Outcomes /\ ActorOf[r] \in Lawyers
      /\ p.decision[op.card] # "absent" /\ Sound(p)
  BY <1>1, OperationShape DEF CanDecideIssue, SoundStore
<1>3. /\ Grows(p, q) /\ Shown(q) = Shown(p) /\ Finals(q) = Finals(p)
      /\ \E i \in 1..Len(q.history) :
           q.history[i].issue = op.card /\ q.history[i].new = op.decision
             /\ q.history[i].actor = ActorOf[r]
  BY <1>2, DecideIssueGrows
<1>4. Sound(q) BY <1>2, DecideIssueSound
<1> HIDE DEF q
<1>5. Left(Store(q, s.members), r, op) BY <1>3 DEF Left, Effective, Store
<1>6. Moves(r, op, s, Store(q, s.members)) BY <1>3, <1>4, <1>5, ProjectMoves
<1> QED BY <1>6 DEF q

LEMMA BatchMoves ==
  ASSUME NEW s, SoundStore(s), NEW r \in Requests, NEW op \in AllOperations,
         op.name = "batch_accept_review_issues", Accepts(op, ActorOf[r], s),
         NEW order \in Orders(op.cards \intersect Pending(s.project))
  PROVE  Moves(r, op, s, Store(BatchAccept(s.project, order, ActorOf[r]), s.members))
<1> DEFINE p == s.project
           q == BatchAccept(p, order, ActorOf[r])
<1>1. CanBatchAccept(p, op.cards, ActorOf[r]) BY DEF Accepts
<1>2. /\ op.cards \in SUBSET Raised(p) /\ ActorOf[r] \in Lawyers /\ Sound(p)
      /\ op.cards \intersect Pending(p) \in SUBSET Pending(p)
  BY <1>1 DEF CanBatchAccept, SoundStore
<1>3. /\ Grows(p, q) /\ Shown(q) = Shown(p) /\ Finals(q) = Finals(p)
      /\ op.cards \subseteq Decided(q)
  BY <1>2, BatchAcceptGrows
<1>4. Sound(q) BY <1>2, BatchAcceptSound
<1> HIDE DEF q
<1>5. op.cards \subseteq Raised(q) /\ op.cards \intersect Pending(q) = {}
  BY <1>3 DEF Decided
<1>6. Left(Store(q, s.members), r, op) BY <1>5 DEF Left, Effective, Store
<1>7. Moves(r, op, s, Store(q, s.members)) BY <1>3, <1>4, <1>6, ProjectMoves
<1> QED BY <1>7 DEF q

LEMMA RevisionMoves ==
  ASSUME NEW s, SoundStore(s), NEW r \in Requests, NEW op \in AllOperations,
         op.name = "create_revision", Accepts(op, ActorOf[r], s)
  PROVE  Moves(r, op, s, Store(CreateRevision(s.project, r), s.members))
<1> DEFINE p == s.project
           q == CreateRevision(p, r)
<1>1. CanCreateRevision(p) BY DEF Accepts
<1>2. r \in VersionIds /\ Sound(p) BY RequestsAssumption DEF SoundStore
<1>3. /\ Grows(p, q) /\ Shown(q) = Shown(p) \union {r} /\ Finals(q) = Finals(p)
      /\ r \in UsedIds(q)
  BY <1>2, CreateRevisionGrows
<1>4. Sound(q) BY <1>1, <1>2, CreateRevisionSound
<1> HIDE DEF q
<1>5. Left(Store(q, s.members), r, op) BY <1>3 DEF Left, Effective, Store
<1>6. Moves(r, op, s, Store(q, s.members)) BY <1>3, <1>4, <1>5, ProjectMoves
<1> QED BY <1>6 DEF q

LEMMA FinalQAMoves ==
  ASSUME NEW s, SoundStore(s), NEW r \in Requests, NEW op \in AllOperations,
         op.name = "run_mock_final_qa", Accepts(op, ActorOf[r], s),
         NEW found \in SUBSET ({r} \intersect Cards), r \notin Traces(s)
  PROVE  Moves(r, op, s, Store(RunFinalQA(s.project, found, {}), s.members))
<1> DEFINE p == s.project
           q == RunFinalQA(p, found, {})
<1>1. CanRunFinalQA(p) BY DEF Accepts
<1>2. found \in SUBSET (Cards \ Raised(p)) /\ {} \in SUBSET (Cards \ Raised(p)) /\ Sound(p)
  BY DEF SoundStore, Traces, Shown
<1>3. /\ Grows(p, q) /\ Shown(q) = Shown(p) \union found /\ Finals(q) = Finals(p)
      /\ q.qaRuns > 0
  BY <1>2, RunFinalQAGrows
<1>4. Sound(q) BY <1>1, <1>2, RunFinalQASound
<1> HIDE DEF q
<1>5. Left(Store(q, s.members), r, op) BY <1>3 DEF Left, Effective, Store
<1>6. Shown(q) \subseteq Shown(p) \union {r} BY <1>3
<1>7. Moves(r, op, s, Store(q, s.members)) BY <1>3, <1>4, <1>5, <1>6, ProjectMoves
<1> QED BY <1>7 DEF q

LEMMA FinalMoves ==
  ASSUME NEW s, SoundStore(s), NEW r \in Requests, NEW op \in AllOperations,
         op.name = "approve_final", Accepts(op, ActorOf[r], s)
  PROVE  Moves(r, op, s, Store(ApproveFinal(s.project, ActorOf[r]), s.members))
<1> DEFINE p == s.project
           q == ApproveFinal(p, ActorOf[r])
<1>1. CanApproveFinal(p, ActorOf[r]) BY DEF Accepts
<1>2. ActorOf[r] \in Lawyers /\ Sound(p) BY <1>1 DEF CanApproveFinal, SoundStore
<1>3. /\ Grows(p, q) /\ Shown(q) = Shown(p)
      /\ \E i \in Finals(q) : q.versions[i].approvedBy = ActorOf[r]
  BY <1>1, <1>2, ApproveFinalGrows
<1>4. Sound(q) BY <1>1, <1>2, ApproveFinalSound
<1> HIDE DEF q
<1>5. Left(Store(q, s.members), r, op) BY <1>3 DEF Left, Effective, Store
<1>6. Moves(r, op, s, Store(q, s.members)) BY <1>3, <1>4, <1>5, ProjectMoves
<1> QED BY <1>6 DEF q

LEMMA NewMemberMoves ==
  ASSUME NEW s, SoundStore(s), NEW r \in Requests, NEW op \in AllOperations,
         op.name = "add_membership", Accepts(op, ActorOf[r], s), r \notin Traces(s)
  PROVE  Moves(r, op, s, Store(s.project, s.members \union {NewMember(r, op)}))
<1> DEFINE new == s.members \union {NewMember(r, op)}
<1>1. CanAddMembership(s.members, op) BY DEF Accepts
<1>2. /\ op.actor \in Actors /\ op.role \in ProjectRoles /\ r \notin Ids(s.members)
      /\ Staffed(s.members)
  BY OperationShape DEF Traces, SoundStore
<1>3. /\ Staffed(new) /\ Ids(new) = Ids(s.members) \union {r}
      /\ MembersGrow(s.members, new)
  BY <1>1, <1>2, AddStaffed
<1>4. NewMember(r, op) \in new /\ NewMember(r, op).id = r BY DEF NewMember
<1> HIDE DEF new
<1>5. Left(Store(s.project, new), r, op) BY <1>4 DEF Left, Effective, Store
<1>6. Moves(r, op, s, Store(s.project, new)) BY <1>3, <1>5, MembersMove
<1> QED BY <1>6 DEF new

LEMMA DisableMoves ==
  ASSUME NEW s, SoundStore(s), NEW r \in Requests, NEW op \in AllOperations,
         op.name = "disable_membership", Accepts(op, ActorOf[r], s)
  PROVE  Moves(r, op, s, Store(s.project, DisableMembership(s.members, op.member)))
<1> DEFINE new == DisableMembership(s.members, op.member)
<1>1. CanDisableMembership(s.members, op) BY DEF Accepts
<1>2. Staffed(s.members) BY DEF SoundStore
<1>3. /\ Staffed(new) /\ Ids(new) = Ids(s.members) /\ MembersGrow(s.members, new)
      /\ \E m \in new : m.id = op.member /\ m.disabled
  BY <1>1, <1>2, DisableStaffed
<1> HIDE DEF new
<1>4. Left(Store(s.project, new), r, op) BY <1>3 DEF Left, Effective, Store
<1>5. Moves(r, op, s, Store(s.project, new)) BY <1>3, <1>4, MembersMove
<1> QED BY <1>5 DEF new

-----------------------------------------------------------------------------
(* The steps of a request *)

Snapshots == [project : ProjectState, members : SUBSET Membership]
RequestState ==
  [at : Stages, op : AllOperations \union {None}, snap : Snapshots \union {None},
   rows : Seq(Rows), entries : Seq(Entry), alone : BOOLEAN]

Types ==
  /\ blob \in Snapshots /\ rows \subseteq Rows /\ journal \in Seq(Entry)
  /\ faults \in 0..MaxFaults /\ req \in [Requests -> RequestState]

OthersWait(r) == \A s \in Requests : s # r => req'[s] = req[s]
StoresStay == UNCHANGED <<blob, rows, journal>>

LEMMA IdleType ==
  ASSUME NEW at \in Stages, NEW op \in AllOperations \union {None}, NEW alone \in BOOLEAN
  PROVE  [Idle EXCEPT !.at = at, !.op = op, !.alone = alone] \in RequestState
<1>1. << >> \in Seq(Rows) /\ << >> \in Seq(Entry) OBVIOUS
<1>2. None \in Snapshots \union {None} OBVIOUS
<1> QED BY ONLY <1>1, <1>2, at \in Stages, op \in AllOperations \union {None},
           alone \in BOOLEAN DEF Idle, RequestState

LEMMA AuthorizeStep ==
  ASSUME Types, NEW r \in Requests, Authorize(r)
  PROVE  /\ req[r].at = "waiting" /\ StoresStay /\ faults' = faults
         /\ req' \in [Requests -> RequestState]
         /\ \E op \in Operations[r] :
              /\ Permitted(blob.members, ActorOf[r], op)
              /\ req'[r] = [Idle EXCEPT !.at = "authorized", !.op = op, !.alone = Calm]
         /\ \A s \in Requests : s # r =>
              /\ req'[s].at = req[s].at /\ req'[s].op = req[s].op
              /\ req'[s].snap = req[s].snap /\ req'[s].rows = req[s].rows
              /\ req'[s].entries = req[s].entries
              /\ req'[s].alone = (req[s].alone /\ s \notin InFlight)
<1>1. PICK op \in Operations[r] :
        /\ req[r].at = "waiting"
        /\ Permitted(blob.members, ActorOf[r], op)
        /\ req' = [s \in Requests |->
               IF s = r THEN [Idle EXCEPT !.at = "authorized", !.op = op, !.alone = Calm]
               ELSE [req[s] EXCEPT !.alone = @ /\ s \notin InFlight]]
        /\ UNCHANGED <<blob, rows, journal, faults>>
  BY DEF Authorize
<1> DEFINE first == [Idle EXCEPT !.at = "authorized", !.op = op, !.alone = Calm]
<1>2. first \in RequestState
  <2>1. op \in AllOperations BY RequestsAssumption
  <2>2. Calm \in BOOLEAN BY DEF Calm
  <2> QED BY <2>1, <2>2, IdleType DEF Stages
<1>3. req'[r] = first BY <1>1
<1> HIDE DEF first
<1>4. ASSUME NEW s \in Requests, s # r
      PROVE  /\ req'[s] \in RequestState
             /\ req'[s].at = req[s].at /\ req'[s].op = req[s].op
             /\ req'[s].snap = req[s].snap /\ req'[s].rows = req[s].rows
             /\ req'[s].entries = req[s].entries
             /\ req'[s].alone = (req[s].alone /\ s \notin InFlight)
  <2>1. req[s] \in RequestState BY DEF Types
  <2>2. req'[s] = [req[s] EXCEPT !.alone = req[s].alone /\ s \notin InFlight] BY <1>1, <1>4
  <2> QED BY <2>1, <2>2 DEF RequestState
<1>5. req' \in [Requests -> RequestState] BY <1>1, <1>2, <1>3, <1>4
<1> QED BY <1>1, <1>3, <1>4, <1>5 DEF StoresStay, first

\* What is left of a request that ended.
HasEnded(r, how) ==
  /\ req' \in [Requests -> RequestState] /\ OthersWait(r)
  /\ req'[r].at = how /\ req'[r].alone = req[r].alone
  /\ how \in Unasked => req'[r].op = None
  /\ how \notin Unasked => req'[r].op = req[r].op
  /\ req'[r].snap = None /\ req'[r].rows = << >> /\ req'[r].entries = << >>

LEMMA EndedStep ==
  ASSUME Types, NEW r \in Requests, NEW how \in Stages \ Unasked, req' = Ended(r, how)
  PROVE  HasEnded(r, how)
<1> DEFINE last == [Idle EXCEPT !.at = how, !.op = req[r].op, !.alone = req[r].alone]
<1>1. req[r] \in RequestState /\ req \in [Requests -> RequestState] BY DEF Types
<1>2. last \in RequestState BY <1>1, IdleType DEF RequestState
<1>3. /\ last.at = how /\ last.op = req[r].op /\ last.alone = req[r].alone
      /\ last.snap = None /\ last.rows = << >> /\ last.entries = << >>
  BY DEF Idle
<1>4. req' = [req EXCEPT ![r] = last] BY DEF Ended
<1> HIDE DEF last
<1> QED BY <1>1, <1>2, <1>3, <1>4 DEF HasEnded, OthersWait

LEMMA DroppedRecord ==
  ASSUME NEW how \in Stages, NEW alone \in BOOLEAN
  PROVE  LET last == [Idle EXCEPT !.at = how, !.alone = alone] IN
         /\ last \in RequestState
         /\ last.at = how /\ last.op = None /\ last.alone = alone
         /\ last.snap = None /\ last.rows = << >> /\ last.entries = << >>
<1> DEFINE last == [Idle EXCEPT !.at = how, !.alone = alone]
<1>1. /\ << >> \in Seq(Rows) /\ << >> \in Seq(Entry)
      /\ None \in Snapshots \union {None} /\ None \in AllOperations \union {None}
  OBVIOUS
<1>2. last \in RequestState
  BY ONLY <1>1, how \in Stages, alone \in BOOLEAN DEF Idle, RequestState
<1>3. /\ last.at = how /\ last.op = None /\ last.alone = alone
      /\ last.snap = None /\ last.rows = << >> /\ last.entries = << >>
  BY DEF Idle
<1> HIDE DEF last
<1>4. /\ last \in RequestState
      /\ last.at = how /\ last.op = None /\ last.alone = alone
      /\ last.snap = None /\ last.rows = << >> /\ last.entries = << >>
  BY <1>2, <1>3
<1> QED BY <1>4 DEF last

LEMMA DroppedStep ==
  ASSUME Types, NEW r \in Requests, NEW how \in Stages \intersect Unasked,
         req' = Dropped({r}, how)
  PROVE  HasEnded(r, how)
<1> DEFINE last == [Idle EXCEPT !.at = how, !.alone = req[r].alone]
<1>1. req[r] \in RequestState /\ req \in [Requests -> RequestState] BY DEF Types
<1>2. /\ last \in RequestState
      /\ last.at = how /\ last.op = None /\ last.alone = req[r].alone
      /\ last.snap = None /\ last.rows = << >> /\ last.entries = << >>
  <2>1. req[r].alone \in BOOLEAN BY <1>1 DEF RequestState
  <2> QED BY <2>1, DroppedRecord
<1>3. req' = [s \in Requests |-> IF s = r THEN last ELSE req[s]] BY DEF Dropped
<1> HIDE DEF last
<1> QED BY <1>1, <1>2, <1>3 DEF HasEnded, OthersWait

LEMMA DenyStep ==
  ASSUME Types, NEW r \in Requests, Deny(r)
  PROVE  /\ req[r].at = "waiting" /\ StoresStay /\ faults' = faults /\ OthersWait(r)
         /\ req' \in [Requests -> RequestState]
         /\ req'[r].at = "denied" /\ req'[r].op = None /\ req'[r].alone = req[r].alone
         /\ req'[r].snap = None /\ req'[r].rows = << >> /\ req'[r].entries = << >>
<1>1. /\ req[r].at = "waiting" /\ req' = Dropped({r}, "denied")
      /\ UNCHANGED <<blob, rows, journal, faults>>
  BY DEF Deny
<1>2. HasEnded(r, "denied") BY <1>1, DroppedStep DEF Unasked, Stages
<1> QED BY <1>1, <1>2 DEF StoresStay, HasEnded, Unasked

LEMMA LoadStep ==
  ASSUME Types, NEW r \in Requests, Load(r)
  PROVE  /\ req[r].at = "authorized" /\ StoresStay /\ faults' = faults /\ OthersWait(r)
         /\ req' \in [Requests -> RequestState]
         /\ req'[r].at = "loaded" /\ req'[r].snap = blob /\ req'[r].op = req[r].op
         /\ req'[r].rows = req[r].rows /\ req'[r].entries = req[r].entries
         /\ req'[r].alone = req[r].alone
<1>1. /\ req[r].at = "authorized"
      /\ req' = [req EXCEPT ![r].at = "loaded", ![r].snap = blob]
      /\ UNCHANGED <<blob, rows, journal, faults>>
  BY DEF Load
<1>2. req' = [req EXCEPT ![r] = [req[r] EXCEPT !.at = "loaded", !.snap = blob]]
  BY <1>1 DEF Types, RequestState
<1>3. req[r] \in RequestState /\ req \in [Requests -> RequestState] /\ blob \in Snapshots
  BY DEF Types
<1>4. [req[r] EXCEPT !.at = "loaded", !.snap = blob] \in RequestState
  BY <1>3 DEF RequestState, Stages
<1> QED BY <1>1, <1>2, <1>3, <1>4 DEF StoresStay, OthersWait, RequestState

\* What is left of a request that saved, and owes newRows.
HasSaved(r, project, members, newRows) ==
  /\ req[r].at = "loaded" /\ Accepts(req[r].op, ActorOf[r], req[r].snap)
  /\ blob' = Store(project, members)
  /\ UNCHANGED <<rows, journal, faults>>
  /\ OthersWait(r)
  /\ req'[r].at = "saved" /\ req'[r].op = req[r].op /\ req'[r].alone = req[r].alone
  /\ req'[r].snap = None /\ req'[r].rows = newRows
  /\ req'[r].entries = NewEntries(req[r].snap.project, project)

LEMMA SaveStep ==
  ASSUME Types, NEW r \in Requests, NEW project, NEW members, NEW newRows,
         Save(r, project, members, newRows)
  PROVE  /\ HasSaved(r, project, members, newRows)
         /\ newRows \in Seq(Rows)
              /\ NewEntries(req[r].snap.project, project) \in Seq(Entry)
            => req' \in [Requests -> RequestState]
<1> DEFINE e == NewEntries(req[r].snap.project, project)
           saved == [req[r] EXCEPT !.at = "saved", !.snap = None, !.rows = newRows,
                                   !.entries = e]
<1>1. /\ req[r].at = "loaded" /\ Accepts(req[r].op, ActorOf[r], req[r].snap)
      /\ blob' = Store(project, members)
      /\ req' = [req EXCEPT ![r].at = "saved", ![r].snap = None, ![r].rows = newRows,
                            ![r].entries = e]
      /\ UNCHANGED <<rows, journal, faults>>
  BY DEF Save, Store
<1> HIDE DEF e
<1>2. req[r] \in RequestState /\ req \in [Requests -> RequestState] BY DEF Types
<1>3. req' = [req EXCEPT ![r] = saved] BY <1>1, <1>2 DEF RequestState
<1>4. newRows \in Seq(Rows) /\ e \in Seq(Entry) => saved \in RequestState
  BY <1>2 DEF RequestState, Stages
<1>5. /\ saved.at = "saved" /\ saved.op = req[r].op /\ saved.alone = req[r].alone
      /\ saved.snap = None /\ saved.rows = newRows /\ saved.entries = e
  BY <1>2 DEF RequestState
<1> HIDE DEF saved
<1>6. HasSaved(r, project, members, newRows)
  BY <1>1, <1>2, <1>3, <1>5 DEF HasSaved, OthersWait, e
<1> QED BY <1>2, <1>3, <1>4, <1>6 DEF e

LEMMA AppendAuditLogStep ==
  ASSUME Types, NEW r \in Requests, AppendAuditLog(r)
  PROVE  /\ req[r].at = "saved" /\ req[r].rows # << >> /\ OthersWait(r)
         /\ req' \in [Requests -> RequestState]
         /\ UNCHANGED <<blob, journal, faults>>
         /\ rows' = rows \union {Head(req[r].rows)}
         /\ req'[r].rows = Tail(req[r].rows) /\ req'[r].at = "saved"
         /\ req'[r].snap = req[r].snap /\ req'[r].op = req[r].op
         /\ req'[r].entries = req[r].entries /\ req'[r].alone = req[r].alone
<1>1. /\ req[r].at = "saved" /\ req[r].rows # << >>
      /\ rows' = rows \union {Head(req[r].rows)}
      /\ req' = [req EXCEPT ![r].rows = Tail(@)]
      /\ UNCHANGED <<blob, journal, faults>>
  BY DEF AppendAuditLog
<1>2. req[r] \in RequestState /\ req \in [Requests -> RequestState] BY DEF Types
<1> DEFINE rest == Tail(req[r].rows)
<1>3. req' = [req EXCEPT ![r] = [req[r] EXCEPT !.rows = rest]] BY <1>1, <1>2
<1>4. rest \in Seq(Rows)
  <2>1. req[r].rows \in Seq(Rows) BY <1>2 DEF RequestState
  <2> QED BY <1>1, <2>1
<1> HIDE DEF rest
<1>5. [req[r] EXCEPT !.rows = rest] \in RequestState BY <1>2, <1>4 DEF RequestState
<1> QED BY <1>1, <1>2, <1>3, <1>5 DEF OthersWait, RequestState, rest

LEMMA AppendDecisionHistoryStep ==
  ASSUME Types, NEW r \in Requests, AppendDecisionHistory(r)
  PROVE  /\ req[r].at = "saved" /\ req[r].entries # << >> /\ OthersWait(r)
         /\ req' \in [Requests -> RequestState]
         /\ UNCHANGED <<blob, rows, faults>>
         /\ journal' = Append(journal, Head(req[r].entries))
         /\ req'[r].entries = Tail(req[r].entries) /\ req'[r].at = "saved"
         /\ req'[r].snap = req[r].snap /\ req'[r].op = req[r].op
         /\ req'[r].rows = req[r].rows /\ req'[r].alone = req[r].alone
<1>1. /\ req[r].at = "saved" /\ req[r].entries # << >>
      /\ journal' = Append(journal, Head(req[r].entries))
      /\ req' = [req EXCEPT ![r].entries = Tail(@)]
      /\ UNCHANGED <<blob, rows, faults>>
  BY DEF AppendDecisionHistory
<1>2. req[r] \in RequestState /\ req \in [Requests -> RequestState] BY DEF Types
<1> DEFINE rest == Tail(req[r].entries)
<1>3. req' = [req EXCEPT ![r] = [req[r] EXCEPT !.entries = rest]] BY <1>1, <1>2
<1>4. rest \in Seq(Entry)
  <2>1. req[r].entries \in Seq(Entry) BY <1>2 DEF RequestState
  <2> QED BY <1>1, <2>1
<1> HIDE DEF rest
<1>5. [req[r] EXCEPT !.entries = rest] \in RequestState BY <1>2, <1>4 DEF RequestState
<1> QED BY <1>1, <1>2, <1>3, <1>5 DEF OthersWait, RequestState, rest

LEMMA ServerStopsStep ==
  ASSUME Types, ServerStops
  PROVE  /\ StoresStay /\ faults' = faults + 1 /\ faults < MaxFaults
         /\ req' \in [Requests -> RequestState]
         /\ \A r \in Requests : req'[r].alone = req[r].alone
         /\ \A r \in Requests :
              IF r \in InFlight
              THEN /\ req'[r].at = "lost" /\ req'[r].op = None
                   /\ req'[r].snap = None /\ req'[r].rows = << >>
                   /\ req'[r].entries = << >>
              ELSE req'[r] = req[r]
<1>1. /\ faults < MaxFaults /\ faults' = faults + 1
      /\ req' = Dropped(InFlight, "lost")
      /\ UNCHANGED <<blob, rows, journal>>
  BY DEF ServerStops
<1> DEFINE Last(r) == [Idle EXCEPT !.at = "lost", !.alone = req[r].alone]
<1>2. ASSUME NEW r \in Requests
      PROVE  /\ Last(r) \in RequestState
             /\ Last(r).at = "lost" /\ Last(r).op = None /\ Last(r).alone = req[r].alone
             /\ Last(r).snap = None /\ Last(r).rows = << >> /\ Last(r).entries = << >>
  <2>1. req[r].alone \in BOOLEAN /\ "lost" \in Stages
    BY DEF Types, RequestState, Stages
  <2> QED BY <2>1, DroppedRecord
<1>3. \A r \in Requests : req[r] \in RequestState BY DEF Types
<1>4. req' = [r \in Requests |-> IF r \in InFlight THEN Last(r) ELSE req[r]]
  BY <1>1 DEF Dropped
<1> HIDE DEF Last
<1> QED BY <1>1, <1>2, <1>3, <1>4 DEF StoresStay

-----------------------------------------------------------------------------
(* The step that saves *)

LEMMA NewEntriesAre ==
  ASSUME NEW p, NEW q, p.history \in Seq(Entry), q.history \in Seq(Entry),
         Extends(q.history, p.history)
  PROVE  /\ NewEntries(p, q) \in Seq(Entry)
         /\ q.history = p.history \o NewEntries(p, q)
<1> DEFINE m == Len(p.history)
           n == Len(q.history)
           e == NewEntries(p, q)
<1>1. /\ m \in Nat /\ n \in Nat /\ n >= m
      /\ \A i \in 1..m : q.history[i] = p.history[i]
      /\ \A i \in 1..n : q.history[i] \in Entry
  BY DEF Extends
<1>2. e = SubSeq(q.history, m + 1, n) BY DEF NewEntries
<1> HIDE DEF m, n, e
<1>3. \A i \in (m + 1)..n : q.history[i] \in Entry BY <1>1
<1>4. m + 1 \in Int /\ n \in Int BY <1>1
<1>5. /\ e \in Seq(Entry) /\ Len(e) = IF m + 1 <= n THEN n - (m + 1) + 1 ELSE 0
      /\ \A i \in 1..(n - (m + 1) + 1) : e[i] = q.history[(m + 1) + i - 1]
  BY <1>2, <1>3, <1>4, SubSeqProperties
<1>6. Len(e) = n - m BY <1>1, <1>5
<1>7. \A i \in 1..(n - m) : e[i] = q.history[m + i] BY <1>1, <1>5
<1> DEFINE joined == p.history \o e
<1>8. /\ joined \in Seq(Entry) /\ Len(joined) = m + Len(e)
      /\ \A i \in 1..Len(joined) :
           joined[i] = IF i <= m THEN p.history[i] ELSE e[i - m]
  BY <1>5, ConcatProperties DEF m
<1> HIDE DEF joined
<1>9. Len(joined) = n BY <1>1, <1>6, <1>8
<1>10. ASSUME NEW i \in 1..n PROVE joined[i] = q.history[i]
  <2>1. joined[i] = IF i <= m THEN p.history[i] ELSE e[i - m] BY <1>8, <1>9
  <2>2. CASE i <= m
    <3>1. i \in 1..m BY <1>1, <2>2
    <3> QED BY <1>1, <2>1, <2>2, <3>1
  <2>3. CASE ~(i <= m)
    <3>1. i - m \in 1..(n - m) /\ m + (i - m) = i BY <1>1, <2>3
    <3> QED BY <1>7, <2>1, <2>3, <3>1
  <2> QED BY <2>2, <2>3
<1>11. q.history = joined BY <1>8, <1>9, <1>10 DEF n
<1> QED BY <1>5, <1>11 DEF joined, e

\* Request r, which read s, has written t: what the seven ways to save share.
Wrote(r, t) ==
  /\ req[r].at = "loaded" /\ blob' = t /\ t \in Snapshots
  /\ Moves(r, req[r].op, req[r].snap, t)
  /\ UNCHANGED <<rows, journal, faults>> /\ OthersWait(r)
  /\ req' \in [Requests -> RequestState]
  /\ req'[r].at = "saved" /\ req'[r].op = req[r].op /\ req'[r].alone = req[r].alone
  /\ req'[r].snap = None
  /\ \A i \in 1..Len(req'[r].rows) : req'[r].rows[i].request = r
  /\ req'[r].entries = NewEntries(req[r].snap.project, t.project)

LEMMA SavedWrote ==
  ASSUME Types, NEW r \in Requests, NEW project, NEW members, NEW newRows,
         Save(r, project, members, newRows), SoundStore(req[r].snap),
         Moves(r, req[r].op, req[r].snap, Store(project, members)),
         newRows \in Seq(Rows), \A i \in 1..Len(newRows) : newRows[i].request = r
  PROVE  Wrote(r, Store(project, members))
<1> DEFINE t == Store(project, members)
<1>1. /\ HasSaved(r, project, members, newRows)
      /\ NewEntries(req[r].snap.project, project) \in Seq(Entry)
           => req' \in [Requests -> RequestState]
  BY SaveStep
<1>2. t.project = project /\ t.members = members BY DEF Store
<1>3. SoundStore(t) /\ Extends(project.history, req[r].snap.project.history)
  BY <1>2 DEF Moves, StoreGrows, Grows
<1>4. /\ project \in ProjectState /\ members \in SUBSET Membership
      /\ project.history \in Seq(Entry) /\ req[r].snap.project.history \in Seq(Entry)
  BY <1>2, <1>3 DEF SoundStore, Staffed, Sound, Good, ProjectState
<1>5. t \in Snapshots BY <1>4 DEF Store, Snapshots
<1>6. NewEntries(req[r].snap.project, project) \in Seq(Entry) BY <1>3, <1>4, NewEntriesAre
<1>7. req' \in [Requests -> RequestState] BY <1>1, <1>6
<1> HIDE DEF t
<1> QED BY <1>1, <1>2, <1>5, <1>7 DEF Wrote, HasSaved, t

-----------------------------------------------------------------------------
(* The invariant of the requests *)

\* Every store there is: the one stored, and what a request holds of it.
Held == {r \in Requests : req[r].at = "loaded"}
Stores == {blob} \union {req[r].snap : r \in Held}

Shaped(r) ==
  /\ req[r].at # "loaded" => req[r].snap = None
  /\ req[r].at # "saved" => req[r].rows = << >> /\ req[r].entries = << >>
  /\ req[r].at \notin Unasked => req[r].op \in AllOperations
  /\ req[r].at \in Unasked => req[r].op = None
  /\ req[r].at = "waiting" => req[r].alone
  /\ \A i \in 1..Len(req[r].rows) : req[r].rows[i].request = r

Unsaved == {"waiting", "authorized", "loaded", "denied", "refused", "agent_failed"}

\* A request that has not saved shows in no store and in no row.
Untraced(r) ==
  req[r].at \in Unsaved => /\ \A s \in Stores : r \notin Traces(s)
                           /\ \A row \in rows : row.request # r

Inv ==
  /\ Types
  /\ \A r \in Requests : Shaped(r)
  /\ \A s \in Stores : SoundStore(s)
  /\ \A r \in Requests : Untraced(r)

LEMMA HeldStore ==
  ASSUME Inv, NEW r \in Requests, req[r].at = "loaded"
  PROVE  /\ req[r].snap \in Stores /\ SoundStore(req[r].snap)
         /\ r \notin Traces(req[r].snap) /\ req[r].op \in AllOperations
<1>1. req[r].snap \in Stores BY DEF Stores, Held
<1>2. req[r].at \notin Unasked /\ req[r].at \in Unsaved BY DEF Unasked, Unsaved
<1> QED BY <1>1, <1>2 DEF Inv, Shaped, Untraced

LEMMA RowType ==
  ASSUME NEW r \in Requests, NEW event \in RowEvents,
         NEW ref \in VersionIds \union Cards \union MemberIds \union {None}
  PROVE  /\ Row(r, event, ref) \in Rows /\ Row(r, event, ref).request = r
         /\ <<Row(r, event, ref)>> \in Seq(Rows)
         /\ \A i \in 1..Len(<<Row(r, event, ref)>>) :
              <<Row(r, event, ref)>>[i].request = r
<1>1. Row(r, event, ref) \in Rows /\ Row(r, event, ref).request = r BY DEF Row, Rows
<1> QED BY <1>1

LEMMA LatestId ==
  ASSUME NEW p, Sound(p), p.versions # << >>
  PROVE  Latest(p).id \in VersionIds
<1>1. p.versions \in Seq(Version) BY DEF Sound, Good, ProjectState
<1>2. p.versions[Len(p.versions)] \in Version BY <1>1
<1> QED BY <1>2 DEF Latest, Version

LEMMA BatchRows ==
  ASSUME NEW r \in Requests, NEW S \in SUBSET Cards, NEW order \in Orders(S)
  PROVE  LET new == [i \in DOMAIN order |-> Row(r, "issue_card_decided", order[i])]
                      \o <<Row(r, "review_issues_batch_accepted", None)>>
         IN  new \in Seq(Rows) /\ \A i \in 1..Len(new) : new[i].request = r
<1> DEFINE each == [i \in DOMAIN order |-> Row(r, "issue_card_decided", order[i])]
           last == <<Row(r, "review_issues_batch_accepted", None)>>
           n == Cardinality(S)
           Own == {x \in Rows : x.request = r}
<1>1. /\ IsFiniteSet(S) /\ n \in Nat BY CardsAssumption, FS_Subset, FS_CardinalityType
<1>2. order \in [1..n -> S] BY DEF Orders
<1>3. last \in Seq(Own)
  <2>1. Row(r, "review_issues_batch_accepted", None) \in Own BY RowType DEF RowEvents
  <2> QED BY <2>1
<1>4. each \in Seq(Own)
  <2>1. ASSUME NEW i \in 1..n
        PROVE  Row(r, "issue_card_decided", order[i]) \in Own
    <3>1. order[i] \in Cards BY <1>2
    <3> QED BY <3>1, RowType DEF RowEvents
  <2>2. DOMAIN order = 1..n BY <1>2
  <2> HIDE DEF n, Own
  <2>3. each \in [1..n -> Own] BY <2>1, <2>2
  <2> QED BY <1>1, <2>3, SeqDef
<1> HIDE DEF each, last
<1>5. each \o last \in Seq(Own) BY <1>3, <1>4, ConcatProperties
<1>6. \A i \in 1..Len(each \o last) : (each \o last)[i] \in Own
  <2> DEFINE new == each \o last
  <2> HIDE DEF new
  <2>1. new \in Seq(Own) BY <1>5 DEF new
  <2>2. \A i \in 1..Len(new) : new[i] \in Own BY <2>1
  <2> QED BY <2>2 DEF new
<1>7. Own \subseteq Rows OBVIOUS
<1>8. each \o last \in Seq(Rows) BY <1>5, <1>7, SeqMonotonic
<1> QED BY <1>6, <1>8 DEF each, last

Saves(r) ==
  \/ SaveDecision(r) \/ SaveBatch(r) \/ SaveRevision(r) \/ SaveFinalQA(r)
  \/ SaveFinal(r) \/ SaveNewMember(r) \/ SaveDisabledMember(r)

LEMMA SavesWrote ==
  ASSUME Inv, NEW r \in Requests, Saves(r)
  PROVE  \E t : Wrote(r, t)
<1> DEFINE s == req[r].snap
           op == req[r].op
           a == ActorOf[r]
<1>1. Types /\ req[r].at = "loaded" /\ Accepts(op, a, s)
  BY DEF Inv, Saves, SaveDecision, SaveBatch, SaveRevision, SaveFinalQA, SaveFinal,
     SaveNewMember, SaveDisabledMember, Save
<1>2. SoundStore(s) /\ r \notin Traces(s) /\ op \in AllOperations BY <1>1, HeldStore
<1>3. Sound(s.project) BY <1>2 DEF SoundStore
<1> HIDE DEF s, op
<1>4. CASE SaveDecision(r)
  <2>1. /\ op.name = "decide_issue"
        /\ Save(r, DecideIssue(s.project, op.card, op.decision, a), s.members,
                <<Row(r, "issue_card_decided", op.card)>>)
    BY <1>4 DEF SaveDecision, Asks, s, op
  <2>2. op.card \in Cards BY <1>2, <2>1, OperationShape
  <2>3. Moves(r, op, s, Store(DecideIssue(s.project, op.card, op.decision, a), s.members))
    BY <1>1, <1>2, <2>1, DecisionMoves
  <2>4. /\ <<Row(r, "issue_card_decided", op.card)>> \in Seq(Rows)
        /\ \A i \in 1..Len(<<Row(r, "issue_card_decided", op.card)>>) :
             <<Row(r, "issue_card_decided", op.card)>>[i].request = r
    BY <2>2, RowType DEF RowEvents
  <2> QED BY <1>1, <1>2, <2>1, <2>3, <2>4, SavedWrote DEF s, op
<1>5. CASE SaveBatch(r)
  <2> DEFINE Made(order) == [i \in DOMAIN order |-> Row(r, "issue_card_decided", order[i])]
                              \o <<Row(r, "review_issues_batch_accepted", None)>>
  <2>1. PICK order \in Orders(op.cards \intersect Pending(s.project)) :
          /\ op.name = "batch_accept_review_issues"
          /\ Save(r, BatchAccept(s.project, order, a), s.members, Made(order))
    BY <1>5 DEF SaveBatch, Asks, s, op
  <2>2. op.cards \intersect Pending(s.project) \in SUBSET Cards BY DEF Pending
  <2>3. Moves(r, op, s, Store(BatchAccept(s.project, order, a), s.members))
    BY <1>1, <1>2, <2>1, BatchMoves
  <2>4. /\ Made(order) \in Seq(Rows)
        /\ \A i \in 1..Len(Made(order)) : Made(order)[i].request = r
    BY <2>2, BatchRows
  <2> HIDE DEF Made
  <2> QED BY <1>1, <1>2, <2>1, <2>3, <2>4, SavedWrote DEF s, op
<1>6. CASE SaveRevision(r)
  <2>1. /\ op.name = "create_revision"
        /\ Save(r, CreateRevision(s.project, r), s.members,
                <<Row(r, "revision_generated", r)>>)
    BY <1>6 DEF SaveRevision, Asks, s, op
  <2>2. Moves(r, op, s, Store(CreateRevision(s.project, r), s.members))
    BY <1>1, <1>2, <2>1, RevisionMoves
  <2>3. /\ <<Row(r, "revision_generated", r)>> \in Seq(Rows)
        /\ \A i \in 1..Len(<<Row(r, "revision_generated", r)>>) :
             <<Row(r, "revision_generated", r)>>[i].request = r
    BY RequestsAssumption, RowType DEF RowEvents
  <2> QED BY <1>1, <1>2, <2>1, <2>2, <2>3, SavedWrote DEF s, op
<1>7. CASE SaveFinalQA(r)
  <2>1. PICK found \in SUBSET ({r} \intersect Cards) :
          /\ op.name = "run_mock_final_qa"
          /\ Save(r, RunFinalQA(s.project, found, {}), s.members,
                  <<Row(r, "deterministic_qa_run", Latest(s.project).id)>>)
    BY <1>7 DEF SaveFinalQA, Asks, s, op
  <2>2. Latest(s.project).id \in VersionIds
    BY <1>1, <1>3, <2>1, LatestId DEF Accepts, CanRunFinalQA, CanRunDeterministicQA
  <2>3. Moves(r, op, s, Store(RunFinalQA(s.project, found, {}), s.members))
    BY <1>1, <1>2, <2>1, FinalQAMoves
  <2>4. /\ <<Row(r, "deterministic_qa_run", Latest(s.project).id)>> \in Seq(Rows)
        /\ \A i \in 1..Len(<<Row(r, "deterministic_qa_run", Latest(s.project).id)>>) :
             <<Row(r, "deterministic_qa_run", Latest(s.project).id)>>[i].request = r
    BY <2>2, RowType DEF RowEvents
  <2> QED BY <1>1, <1>2, <2>1, <2>3, <2>4, SavedWrote DEF s, op
<1>8. CASE SaveFinal(r)
  <2>1. /\ op.name = "approve_final"
        /\ Save(r, ApproveFinal(s.project, a), s.members,
                <<Row(r, "final_approved", Latest(s.project).id)>>)
    BY <1>8 DEF SaveFinal, Asks, s, op
  <2>2. Latest(s.project).id \in VersionIds
    BY <1>1, <1>3, <2>1, LatestId DEF Accepts, CanApproveFinal
  <2>3. Moves(r, op, s, Store(ApproveFinal(s.project, a), s.members))
    BY <1>1, <1>2, <2>1, FinalMoves
  <2>4. /\ <<Row(r, "final_approved", Latest(s.project).id)>> \in Seq(Rows)
        /\ \A i \in 1..Len(<<Row(r, "final_approved", Latest(s.project).id)>>) :
             <<Row(r, "final_approved", Latest(s.project).id)>>[i].request = r
    BY <2>2, RowType DEF RowEvents
  <2> QED BY <1>1, <1>2, <2>1, <2>3, <2>4, SavedWrote DEF s, op
<1>9. CASE SaveNewMember(r)
  <2>1. /\ op.name = "add_membership"
        /\ Save(r, s.project, s.members \union {NewMember(r, op)},
                <<Row(r, "membership_created", r)>>)
    BY <1>9 DEF SaveNewMember, NewMember, Asks, s, op
  <2>2. Moves(r, op, s, Store(s.project, s.members \union {NewMember(r, op)}))
    BY <1>1, <1>2, <2>1, NewMemberMoves
  <2>3. /\ <<Row(r, "membership_created", r)>> \in Seq(Rows)
        /\ \A i \in 1..Len(<<Row(r, "membership_created", r)>>) :
             <<Row(r, "membership_created", r)>>[i].request = r
    BY RequestsAssumption, RowType DEF RowEvents
  <2> QED BY <1>1, <1>2, <2>1, <2>2, <2>3, SavedWrote DEF s, op
<1>10. CASE SaveDisabledMember(r)
  <2>1. /\ op.name = "disable_membership"
        /\ Save(r, s.project, DisableMembership(s.members, op.member),
                <<Row(r, "membership_disabled", op.member)>>)
    BY <1>10 DEF SaveDisabledMember, Asks, s, op
  <2>2. Moves(r, op, s, Store(s.project, DisableMembership(s.members, op.member)))
    BY <1>1, <1>2, <2>1, DisableMoves
  <2>3. op.member \in MemberIds BY <1>2, <2>1 DEF AllOperations
  <2>4. /\ <<Row(r, "membership_disabled", op.member)>> \in Seq(Rows)
        /\ \A i \in 1..Len(<<Row(r, "membership_disabled", op.member)>>) :
             <<Row(r, "membership_disabled", op.member)>>[i].request = r
    BY <2>3, RowType DEF RowEvents
  <2> QED BY <1>1, <1>2, <2>1, <2>2, <2>4, SavedWrote DEF s, op
<1> QED BY <1>4, <1>5, <1>6, <1>7, <1>8, <1>9, <1>10 DEF Saves

\* A request that ends, in whatever way.
Ends(r) == Refuse(r) \/ AgentFails(r) \/ DisableAgain(r) \/ Respond(r) \/ AppendFails(r)

LEMMA EndsStep ==
  ASSUME Types, NEW r \in Requests, Ends(r)
  PROVE  /\ StoresStay /\ faults' \in 0..MaxFaults
         /\ \E how \in Stages :
              /\ HasEnded(r, how)
              /\ \/ /\ req[r].at = "loaded" /\ faults' = faults
                    /\ how \in {"refused", "agent_failed"} \/ (how = "done" /\ DisableAgain(r))
                 \/ /\ req[r].at = "saved" /\ how = "done" /\ req[r].entries = << >>
                    /\ faults' = faults
                 \/ req[r].at = "saved" /\ how = "append_failed" /\ faults' = faults + 1
<1>1. faults \in 0..MaxFaults /\ MaxFaults \in Nat BY LimitsAssumption DEF Types
<1>2. CASE Refuse(r)
  <2>1. HasEnded(r, "refused") BY <1>2, DroppedStep DEF Refuse, Stages, Unasked
  <2>2. req[r].at = "loaded" /\ UNCHANGED <<blob, rows, journal, faults>>
    BY <1>2 DEF Refuse
  <2>3. "refused" \in Stages BY DEF Stages
  <2> QED BY <1>1, <2>1, <2>2, <2>3 DEF StoresStay
<1>3. CASE AgentFails(r)
  <2>1. HasEnded(r, "agent_failed") BY <1>3, EndedStep DEF AgentFails, Stages, Unasked
  <2>2. req[r].at = "loaded" /\ UNCHANGED <<blob, rows, journal, faults>>
    BY <1>3 DEF AgentFails
  <2>3. "agent_failed" \in Stages BY DEF Stages
  <2> QED BY <1>1, <2>1, <2>2, <2>3 DEF StoresStay
<1>4. CASE DisableAgain(r)
  <2>1. HasEnded(r, "done") BY <1>4, EndedStep DEF DisableAgain, Stages, Unasked
  <2>2. req[r].at = "loaded" /\ UNCHANGED <<blob, rows, journal, faults>>
    BY <1>4 DEF DisableAgain, Asks
  <2> QED BY <1>1, <1>4, <2>1, <2>2 DEF StoresStay, Stages
<1>5. CASE Respond(r)
  <2>1. HasEnded(r, "done") BY <1>5, EndedStep DEF Respond, Stages, Unasked
  <2> QED BY <1>1, <1>5, <2>1 DEF Respond, StoresStay, Stages
<1>6. CASE AppendFails(r)
  <2>1. HasEnded(r, "append_failed") BY <1>6, DroppedStep DEF AppendFails, Stages, Unasked
  <2>2. /\ req[r].at = "saved" /\ faults < MaxFaults /\ faults' = faults + 1
        /\ UNCHANGED <<blob, rows, journal>>
    BY <1>6 DEF AppendFails
  <2>3. faults' \in 0..MaxFaults BY <1>1, <2>2
  <2> QED BY <2>1, <2>2, <2>3 DEF StoresStay, Stages
<1> QED BY <1>2, <1>3, <1>4, <1>5, <1>6 DEF Ends

LEMMA NextCases ==
  ASSUME [Next]_vars
  PROVE  \/ \E r \in Requests :
              \/ Authorize(r) \/ Deny(r) \/ Load(r) \/ Saves(r) \/ Ends(r)
              \/ AppendAuditLog(r) \/ AppendDecisionHistory(r)
         \/ ServerStops
         \/ UNCHANGED vars
BY DEF Next, Saves, Ends

\* A step that stores nothing new, and no request that saved becomes one that
\* has not, keeps the invariant.
LEMMA Kept ==
  ASSUME Inv, Types', \A r \in Requests : Shaped(r)', blob' = blob,
         \A r \in Requests : req'[r].at = "loaded" => req'[r].snap \in Stores,
         \A r \in Requests : req'[r].at \in Unsaved => req[r].at \in Unsaved,
         \A row \in rows' : \/ row \in rows
                            \/ \E r \in Requests : req'[r].at = "saved" /\ row.request = r
  PROVE  Inv' /\ Stores' \subseteq Stores
<1>1. Stores' \subseteq Stores BY DEF Stores, Held
<1>2. ASSUME NEW r \in Requests PROVE Untraced(r)'
  <2> SUFFICES ASSUME req'[r].at \in Unsaved
               PROVE  /\ \A s \in Stores' : r \notin Traces(s)
                      /\ \A row \in rows' : row.request # r
    BY DEF Untraced, Traces, Shown, UsedIds, Raised, Ids
  <2>1. /\ \A s \in Stores : r \notin Traces(s)
        /\ \A row \in rows : row.request # r
    BY DEF Inv, Untraced
  <2>2. req'[r].at # "saved" BY DEF Unsaved
  <2> QED BY <1>1, <2>1, <2>2
<1>3. \A s \in Stores' : SoundStore(s) BY <1>1 DEF Inv
<1> QED BY <1>1, <1>2, <1>3 DEF Inv

LEMMA KeptByOne ==
  ASSUME Inv, Types', NEW r \in Requests, Shaped(r)', OthersWait(r), blob' = blob,
         req'[r].at = "loaded" => req'[r].snap = blob,
         req'[r].at \in Unsaved => req[r].at \in Unsaved,
         \A row \in rows' : row \in rows \/ (req'[r].at = "saved" /\ row.request = r)
  PROVE  Inv' /\ Stores' \subseteq Stores
<1>1. \A s \in Requests : Shaped(s)' BY DEF Inv, Shaped, OthersWait
<1>2. \A s \in Requests : req'[s].at = "loaded" => req'[s].snap \in Stores
  BY DEF Stores, Held, OthersWait
<1>3. \A s \in Requests : req'[s].at \in Unsaved => req[s].at \in Unsaved
  BY DEF OthersWait
<1> QED BY <1>1, <1>2, <1>3, Kept

\* The step that saves, seen from every request.
LEMMA WroteKeeps ==
  ASSUME Inv, NEW r \in Requests, NEW t, Wrote(r, t)
  PROVE  Inv' /\ Stores' \subseteq Stores \union {t}
<1>1. Types' BY DEF Inv, Types, Wrote
<1>2. ASSUME NEW s \in Requests PROVE Shaped(s)'
  <2>1. CASE s = r BY <2>1, HeldStore DEF Wrote, Shaped, Unasked
  <2>2. CASE s # r BY <2>2 DEF Wrote, OthersWait, Inv, Shaped
  <2> QED BY <2>1, <2>2
<1>3. Stores' \subseteq Stores \union {t} BY DEF Wrote, OthersWait, Stores, Held
<1>4. \A s \in Stores' : SoundStore(s) BY <1>3 DEF Wrote, Moves, Inv
<1>5. ASSUME NEW s \in Requests, req'[s].at \in Unsaved
      PROVE  /\ \A u \in Stores' : s \notin Traces(u)
             /\ \A row \in rows' : row.request # s
  <2>1. s # r /\ req'[s] = req[s] BY <1>5 DEF Wrote, Unsaved, OthersWait
  <2>2. /\ \A u \in Stores : s \notin Traces(u)
        /\ \A row \in rows : row.request # s
    BY <1>5, <2>1 DEF Inv, Untraced
  <2>3. req[r].snap \in Stores BY HeldStore DEF Wrote
  <2>4. s \notin Traces(t) BY <2>1, <2>2, <2>3 DEF Wrote, Moves
  <2> QED BY <1>3, <2>2, <2>4 DEF Wrote
<1>6. \A s \in Requests : Untraced(s)'
  BY <1>5 DEF Untraced, Traces, Shown, UsedIds, Raised, Ids
<1> QED BY <1>1, <1>2, <1>3, <1>4, <1>6 DEF Inv

LEMMA AuthorizeKeeps ==
  ASSUME Inv, NEW r \in Requests, Authorize(r)
  PROVE  Inv' /\ Stores' \subseteq Stores
<1>1. /\ req[r].at = "waiting" /\ StoresStay /\ faults' = faults
      /\ req' \in [Requests -> RequestState]
      /\ \A s \in Requests : s # r =>
           /\ req'[s].at = req[s].at /\ req'[s].op = req[s].op
           /\ req'[s].snap = req[s].snap /\ req'[s].rows = req[s].rows
           /\ req'[s].entries = req[s].entries
           /\ req'[s].alone = (req[s].alone /\ s \notin InFlight)
  BY AuthorizeStep DEF Inv
<1>2. PICK op \in Operations[r] :
        req'[r] = [Idle EXCEPT !.at = "authorized", !.op = op, !.alone = Calm]
  BY AuthorizeStep DEF Inv
<1>3. /\ req'[r].at = "authorized" /\ req'[r].op = op /\ req'[r].snap = None
      /\ req'[r].rows = << >> /\ req'[r].entries = << >>
  BY <1>2 DEF Idle
<1>4. Types' BY <1>1 DEF Inv, Types, StoresStay
<1>5. ASSUME NEW s \in Requests PROVE Shaped(s)'
  <2>1. CASE s = r BY <1>3, <2>1, RequestsAssumption DEF Shaped, Unasked
  <2>2. CASE s # r
    <3>1. req[s].at = "waiting" => req[s].alone /\ s \notin InFlight
      BY DEF Inv, Shaped, InFlight
    <3>2. Shaped(s) BY DEF Inv
    <3> QED BY <1>1, <2>2, <3>1, <3>2 DEF Shaped
  <2> QED BY <2>1, <2>2
<1>6. \A s \in Requests : req'[s].at = "loaded" => req'[s].snap \in Stores
  BY <1>1, <1>3 DEF Stores, Held
<1>7. \A s \in Requests : req'[s].at \in Unsaved => req[s].at \in Unsaved
  BY <1>1, <1>3 DEF Unsaved
<1> QED BY <1>1, <1>4, <1>5, <1>6, <1>7, Kept DEF StoresStay

LEMMA DenyKeeps ==
  ASSUME Inv, NEW r \in Requests, Deny(r)
  PROVE  Inv' /\ Stores' \subseteq Stores
<1>1. /\ req[r].at = "waiting" /\ StoresStay /\ faults' = faults /\ OthersWait(r)
      /\ req' \in [Requests -> RequestState]
      /\ req'[r].at = "denied" /\ req'[r].op = None
      /\ req'[r].snap = None /\ req'[r].rows = << >> /\ req'[r].entries = << >>
  BY DenyStep DEF Inv
<1>2. Types' BY <1>1 DEF Inv, Types, StoresStay
<1>3. Shaped(r)' BY <1>1 DEF Shaped, Unasked
<1>4. "waiting" \in Unsaved BY DEF Unsaved
<1> QED BY <1>1, <1>2, <1>3, <1>4, KeptByOne DEF StoresStay

LEMMA LoadKeeps ==
  ASSUME Inv, NEW r \in Requests, Load(r)
  PROVE  Inv' /\ Stores' \subseteq Stores
<1>1. /\ req[r].at = "authorized" /\ StoresStay /\ faults' = faults /\ OthersWait(r)
      /\ req' \in [Requests -> RequestState]
      /\ req'[r].at = "loaded" /\ req'[r].snap = blob /\ req'[r].op = req[r].op
      /\ req'[r].rows = req[r].rows /\ req'[r].entries = req[r].entries
  BY LoadStep DEF Inv
<1>2. Types' BY <1>1 DEF Inv, Types, StoresStay
<1>3. Shaped(r)' BY <1>1 DEF Inv, Shaped, Unasked
<1>4. "authorized" \in Unsaved BY DEF Unsaved
<1> QED BY <1>1, <1>2, <1>3, <1>4, KeptByOne DEF StoresStay

LEMMA EndsKeeps ==
  ASSUME Inv, NEW r \in Requests, Ends(r)
  PROVE  Inv' /\ Stores' \subseteq Stores
<1>1. StoresStay /\ faults' \in 0..MaxFaults BY EndsStep DEF Inv
<1>2. PICK how \in Stages :
        /\ HasEnded(r, how)
        /\ \/ req[r].at = "loaded" /\ how \in {"refused", "agent_failed", "done"}
           \/ req[r].at = "saved" /\ how \in {"done", "append_failed"}
  BY EndsStep DEF Inv
<1>3. Types' BY <1>1, <1>2 DEF Inv, Types, StoresStay, HasEnded
<1>4. Shaped(r)' BY <1>2 DEF Inv, Shaped, HasEnded, Unasked
<1>5. req'[r].at \in Unsaved => req[r].at \in Unsaved BY <1>2 DEF HasEnded, Unsaved
<1> QED BY <1>1, <1>2, <1>3, <1>4, <1>5, KeptByOne DEF StoresStay, HasEnded

LEMMA AppendAuditLogKeeps ==
  ASSUME Inv, NEW r \in Requests, AppendAuditLog(r)
  PROVE  Inv' /\ Stores' \subseteq Stores
<1>1. /\ req[r].at = "saved" /\ req[r].rows # << >> /\ OthersWait(r)
      /\ req' \in [Requests -> RequestState]
      /\ UNCHANGED <<blob, journal, faults>>
      /\ rows' = rows \union {Head(req[r].rows)}
      /\ req'[r].rows = Tail(req[r].rows) /\ req'[r].at = "saved"
      /\ req'[r].snap = req[r].snap /\ req'[r].op = req[r].op
      /\ req'[r].entries = req[r].entries
  BY AppendAuditLogStep DEF Inv
<1> DEFINE owed == req[r].rows
<1>2. owed \in Seq(Rows) /\ \A i \in 1..Len(owed) : owed[i].request = r
  BY DEF Inv, Types, RequestState, Shaped
<1>3. /\ Head(owed) \in Rows /\ Head(owed) = owed[1] /\ 1 \in 1..Len(owed)
      /\ Len(Tail(owed)) = Len(owed) - 1
      /\ \A i \in 1..Len(Tail(owed)) : Tail(owed)[i] = owed[i + 1]
  BY <1>1, <1>2, HeadTailProperties
<1>4. \A i \in 1..Len(Tail(owed)) : i + 1 \in 1..Len(owed) BY <1>2, <1>3
<1>5. \A i \in 1..Len(Tail(owed)) : Tail(owed)[i].request = r BY <1>2, <1>3, <1>4
<1>6. Types' BY <1>1, <1>3 DEF Inv, Types
<1>7. Shaped(r)' BY <1>1, <1>5 DEF Inv, Shaped
<1>8. \A row \in rows' : row \in rows \/ (req'[r].at = "saved" /\ row.request = r)
  BY <1>1, <1>2, <1>3
<1> QED BY <1>1, <1>6, <1>7, <1>8, KeptByOne DEF Unsaved

LEMMA AppendDecisionHistoryKeeps ==
  ASSUME Inv, NEW r \in Requests, AppendDecisionHistory(r)
  PROVE  Inv' /\ Stores' \subseteq Stores
<1>1. /\ req[r].at = "saved" /\ req[r].entries # << >> /\ OthersWait(r)
      /\ req' \in [Requests -> RequestState]
      /\ UNCHANGED <<blob, rows, faults>>
      /\ journal' = Append(journal, Head(req[r].entries))
      /\ req'[r].at = "saved"
      /\ req'[r].snap = req[r].snap /\ req'[r].op = req[r].op
      /\ req'[r].rows = req[r].rows
  BY AppendDecisionHistoryStep DEF Inv
<1>2. req[r].entries \in Seq(Entry) /\ journal \in Seq(Entry)
  BY DEF Inv, Types, RequestState
<1>3. journal' \in Seq(Entry)
  <2>1. Head(req[r].entries) \in Entry BY <1>1, <1>2, HeadTailProperties
  <2> QED BY <1>1, <1>2, <2>1
<1>4. Types' BY <1>1, <1>3 DEF Inv, Types
<1>5. Shaped(r)' BY <1>1 DEF Inv, Shaped
<1> QED BY <1>1, <1>4, <1>5, KeptByOne DEF Unsaved

LEMMA ServerStopsKeeps ==
  ASSUME Inv, ServerStops
  PROVE  Inv' /\ Stores' \subseteq Stores
<1>1. /\ StoresStay /\ faults' = faults + 1 /\ faults < MaxFaults
      /\ req' \in [Requests -> RequestState]
      /\ \A r \in Requests :
           IF r \in InFlight
           THEN /\ req'[r].at = "lost" /\ req'[r].op = None
                /\ req'[r].snap = None /\ req'[r].rows = << >>
                /\ req'[r].entries = << >>
           ELSE req'[r] = req[r]
  BY ServerStopsStep DEF Inv
<1>2. faults' \in 0..MaxFaults BY <1>1, LimitsAssumption DEF Inv, Types
<1>3. Types' BY <1>1, <1>2 DEF Inv, Types, StoresStay
<1>4. ASSUME NEW r \in Requests
      PROVE  /\ Shaped(r)'
             /\ req'[r].at # "loaded"
             /\ req'[r].at \in Unsaved => req[r].at \in Unsaved
  BY <1>1 DEF Inv, Shaped, InFlight, Unsaved, Unasked
<1> QED BY <1>1, <1>3, <1>4, Kept DEF StoresStay

LEMMA InvKept ==
  ASSUME Inv, [Next]_vars
  PROVE  Inv'
<1>1. ASSUME NEW r \in Requests, Saves(r) PROVE Inv' BY <1>1, SavesWrote, WroteKeeps
<1>2. CASE UNCHANGED vars
  BY <1>2 DEF vars, Inv, Types, Shaped, Untraced, Stores, Held, SoundStore
<1> QED BY <1>1, <1>2, NextCases, AuthorizeKeeps, DenyKeeps, LoadKeeps, EndsKeeps,
       AppendAuditLogKeeps, AppendDecisionHistoryKeeps, ServerStopsKeeps

-----------------------------------------------------------------------------
(* The project when the requests begin *)

\* Nothing has been drafted or raised in p, and it is at the given stage.
AtStage(p, stage) ==
  /\ Sound(p) /\ p.status = stage
  /\ p.versions = << >> /\ p.history = << >>
  /\ p.decision = [c \in Cards |-> "absent"] /\ p.applied = [c \in Cards |-> None]

LEMMA NextStage ==
  ASSUME NEW p, NEW q, NEW stage, NEW next, AtStage(p, stage), Good(q), q.status = next,
         q.versions = p.versions, q.history = p.history, q.decision = p.decision,
         q.applied = p.applied
  PROVE  AtStage(q, next)
BY SoundKept DEF AtStage

LEMMA AdvanceEarly ==
  /\ Advance("sources_uploaded", "source_pack_locked") = "source_pack_locked"
  /\ Advance("source_pack_locked", "type_suggested") = "type_suggested"
  /\ Advance("type_suggested", "type_confirmed") = "type_confirmed"
  /\ Advance("intake_in_progress", "deal_memo_drafted") = "deal_memo_drafted"
  /\ Advance("deal_memo_drafted", "deal_memo_approved") = "deal_memo_approved"
  /\ Advance("deal_memo_approved", "drafting_plan_drafted") = "drafting_plan_drafted"
  /\ Advance("drafting_plan_drafted", "drafting_plan_approved") = "drafting_plan_approved"
  /\ Advance("drafting_plan_approved", "draft_v0_created") = "draft_v0_created"
BY RankOf DEF Advance, AtLeast

LEMMA ReadyForIntake ==
  ASSUME NEW d \in Docs, NEW t \in ContractTypes, NEW b \in Playbooks, b \in Candidates(t),
         Lawyers # {}
  PROVE  LET p == SelectPlaybook(
                    ClassifyAndConfirm(LockSourcePack(AddSource(EmptyProject, d)), t), b)
         IN  /\ AtStage(p, "intake_in_progress") /\ p.playbook = b
             /\ p.questions = QuestionsOf[b]
<1> DEFINE p0 == EmptyProject
           p1 == AddSource(p0, d)
           p2 == LockSourcePack(p1)
           p3 == ClassifyAndConfirm(p2, t)
           p4 == SelectPlaybook(p3, b)
<1>1. AtStage(p0, "created") /\ Good(p0) /\ p0 \in ProjectState
  BY EmptyProjectSound DEF AtStage, EmptyProject, Sound, Good
<1>2. CanAddSource(p0, d) BY DEF CanAddSource, EmptyProject
<1> HIDE DEF p0
<1>3. Good(p1) /\ p1 \in ProjectState BY <1>1, <1>2, AddSourceGood DEF Good
<1>4. /\ p1.status = "sources_uploaded" /\ p1.versions = p0.versions
      /\ p1.history = p0.history /\ p1.decision = p0.decision /\ p1.applied = p0.applied
  BY <1>1, AdvanceOnce DEF AddSource, ProjectState, AtStage
<1> HIDE DEF p1
<1>5. AtStage(p1, "sources_uploaded") BY <1>1, <1>3, <1>4, NextStage
<1>6. Good(p2) /\ p2 \in ProjectState
  BY <1>3, <1>4, LockSourcePackGood DEF Good, CanLockSourcePack
<1>7. /\ p2.status = "source_pack_locked" /\ p2.versions = p1.versions
      /\ p2.history = p1.history /\ p2.decision = p1.decision /\ p2.applied = p1.applied
  BY <1>3, <1>4, AdvanceEarly DEF LockSourcePack, ProjectState
<1> HIDE DEF p2
<1>8. AtStage(p2, "source_pack_locked") BY <1>5, <1>6, <1>7, NextStage
<1>9. Good(p3) /\ p3 \in ProjectState
  <2>1. PICK a \in Lawyers : a \in Actors BY ActorsAssumption
  <2>2. CanClassifyAndConfirm(p2, a) BY <1>7 DEF CanClassifyAndConfirm
  <2> QED BY <1>6, <2>1, <2>2, ClassifyAndConfirmGood DEF Good
<1>10. /\ p3.status = "type_confirmed" /\ p3.versions = p2.versions /\ p3.ctype = t
       /\ p3.history = p2.history /\ p3.decision = p2.decision /\ p3.applied = p2.applied
  BY <1>6, <1>7, AdvanceEarly DEF ClassifyAndConfirm, ProjectState
<1> HIDE DEF p3
<1>11. AtStage(p3, "type_confirmed") BY <1>8, <1>9, <1>10, NextStage
<1>12. Good(p4) /\ p4 \in ProjectState
  <2>1. CanSelectPlaybook(p3, b) BY <1>10, DataAssumption DEF CanSelectPlaybook
  <2> QED BY <1>9, <2>1, SelectPlaybookGood DEF Good
<1>13. /\ p4.status = "intake_in_progress" /\ p4.versions = p3.versions /\ p4.playbook = b
       /\ p4.history = p3.history /\ p4.decision = p3.decision /\ p4.applied = p3.applied
       /\ p4.questions = QuestionsOf[b]
  BY <1>9, <1>10, AdvanceOnce DEF SelectPlaybook, ProjectState
<1> HIDE DEF p4
<1>14. AtStage(p4, "intake_in_progress") BY <1>11, <1>12, <1>13, NextStage
<1> QED BY <1>13, <1>14 DEF p4, p3, p2, p1, p0

LEMMA ReadyForDraft ==
  ASSUME NEW p, AtStage(p, "intake_in_progress"), p.playbook # None,
         p.questions \intersect RequiredQuestions = {}, NEW a \in Lawyers
  PROVE  LET q == ApproveDraftingPlan(
                    DraftDraftingPlan(ApproveDealMemo(DraftDealMemo(p), a)), a)
         IN  /\ AtStage(q, "drafting_plan_approved") /\ q.playbook # None
             /\ q.memo.state = "approved" /\ q.plan.state = "approved"
<1> DEFINE p1 == DraftDealMemo(p)
           p2 == ApproveDealMemo(p1, a)
           p3 == DraftDraftingPlan(p2)
           p4 == ApproveDraftingPlan(p3, a)
<1>1. Good(p) /\ p \in ProjectState /\ p.status = "intake_in_progress"
  BY DEF AtStage, Sound, Good
<1>2. Good(p1) /\ p1 \in ProjectState
  BY <1>1, DraftDealMemoGood DEF Good, CanDraftDealMemo
<1>3. /\ p1.status = "deal_memo_drafted" /\ p1.versions = p.versions
      /\ p1.history = p.history /\ p1.decision = p.decision /\ p1.applied = p.applied
      /\ p1.playbook = p.playbook /\ p1.questions = p.questions
      /\ p1.memo.state = "drafted"
  BY <1>1, AdvanceEarly DEF DraftDealMemo, ProjectState
<1> HIDE DEF p1
<1>4. AtStage(p1, "deal_memo_drafted") BY <1>2, <1>3, NextStage
<1>5. Good(p2) /\ p2 \in ProjectState
  <2>1. MissingAnswers(p1) = {} BY <1>3 DEF MissingAnswers
  <2>2. CanApproveDealMemo(p1, a) BY <1>3, <2>1 DEF CanApproveDealMemo
  <2> QED BY <1>2, <2>2, ApproveDealMemoGood DEF Good
<1>6. /\ p2.status = "deal_memo_approved" /\ p2.versions = p1.versions
      /\ p2.history = p1.history /\ p2.decision = p1.decision /\ p2.applied = p1.applied
      /\ p2.playbook = p1.playbook /\ p2.memo.state = "approved"
  BY <1>2, <1>3, AdvanceEarly DEF ApproveDealMemo, ProjectState, Memo
<1> HIDE DEF p2
<1>7. AtStage(p2, "deal_memo_approved") BY <1>4, <1>5, <1>6, NextStage
<1>8. Good(p3) /\ p3 \in ProjectState
  BY <1>3, <1>5, <1>6, DraftDraftingPlanGood DEF Good, CanDraftDraftingPlan
<1>9. /\ p3.status = "drafting_plan_drafted" /\ p3.versions = p2.versions
      /\ p3.history = p2.history /\ p3.decision = p2.decision /\ p3.applied = p2.applied
      /\ p3.playbook = p2.playbook /\ p3.memo = p2.memo /\ p3.plan.state = "drafted"
  BY <1>5, <1>6, AdvanceEarly DEF DraftDraftingPlan, ProjectState
<1> HIDE DEF p3
<1>10. AtStage(p3, "drafting_plan_drafted") BY <1>7, <1>8, <1>9, NextStage
<1>11. Good(p4) /\ p4 \in ProjectState
  BY <1>6, <1>8, <1>9, ApproveDraftingPlanGood DEF Good, CanApproveDraftingPlan
<1>12. /\ p4.status = "drafting_plan_approved" /\ p4.versions = p3.versions
       /\ p4.history = p3.history /\ p4.decision = p3.decision /\ p4.applied = p3.applied
       /\ p4.playbook = p3.playbook /\ p4.memo = p3.memo /\ p4.plan.state = "approved"
  BY <1>8, <1>9, AdvanceEarly DEF ApproveDraftingPlan, ProjectState, Plan
<1> HIDE DEF p4
<1>13. AtStage(p4, "drafting_plan_approved") BY <1>10, <1>11, <1>12, NextStage
<1>14. p4.playbook # None /\ p4.memo.state = "approved"
  BY <1>3, <1>6, <1>9, <1>12
<1> QED BY <1>12, <1>13, <1>14 DEF p4, p3, p2, p1

\* A project under review, from which a revision may be made.
UnderReview(p) ==
  /\ Sound(p) /\ p.status = "issues_open" /\ p.versions # << >>
  /\ p.playbook # None /\ p.memo.state = "approved" /\ p.plan.state = "approved"
  /\ Raised(p) = FirstCards
  /\ Shown(p) \intersect Requests = {}

LEMMA ReviewedUnderReview ==
  ASSUME NEW d \in Docs, NEW t \in ContractTypes, NEW b \in Playbooks, b \in Candidates(t),
         QuestionsOf[b] \intersect RequiredQuestions = {}, NEW a \in Lawyers
  PROVE  UnderReview(Reviewed(d, t, b, a))
<1> DEFINE p0 == SelectPlaybook(
                   ClassifyAndConfirm(LockSourcePack(AddSource(EmptyProject, d)), t), b)
           p1 == ApproveDraftingPlan(
                   DraftDraftingPlan(ApproveDealMemo(DraftDealMemo(p0), a)), a)
           p2 == CreateV0(p1, FirstDraft)
           p3 == RunReviews(p2, FirstCards)
           v == Draft(FirstDraft, {})
<1>1. p3 = Reviewed(d, t, b, a) BY DEF Reviewed, Drafted
<1>2. /\ AtStage(p0, "intake_in_progress") /\ p0.playbook # None
      /\ p0.questions \intersect RequiredQuestions = {}
  BY ReadyForIntake, DataAssumption
<1> HIDE DEF p0
<1>3. /\ AtStage(p1, "drafting_plan_approved") /\ p1.playbook # None
      /\ p1.memo.state = "approved" /\ p1.plan.state = "approved"
  BY <1>2, ReadyForDraft
<1>4. Sound(p1) /\ p1 \in ProjectState BY <1>3 DEF AtStage, Sound, Good
<1> HIDE DEF p1
<1>5. Sound(p2) /\ p2 \in ProjectState
  BY <1>3, <1>4, RequestsAssumption, CreateV0Sound DEF AtStage, CanCreateV0, Sound, Good
<1>6. v \in Version /\ v.id = FirstDraft BY RequestsAssumption, DraftType DEF Draft
<1>7. /\ p2.status = "draft_v0_created" /\ p2.versions = Append(p1.versions, v)
      /\ p2.playbook = p1.playbook /\ p2.memo = p1.memo /\ p2.plan = p1.plan
      /\ p2.decision = p1.decision
  BY <1>3, <1>4, AdvanceEarly DEF AtStage, CreateV0, ProjectState
<1> HIDE DEF p2, v
<1>8. p2.versions = <<v>> BY <1>3, <1>6, <1>7 DEF AtStage
<1>9. Raised(p2) = {} BY <1>3, <1>7 DEF AtStage, Raised
<1>10. FirstCards \in SUBSET (Cards \ Raised(p2)) BY <1>9, RequestsAssumption
<1>11. Sound(p3)
  <2>1. CanRunReviews(p2) BY <1>3, <1>7, <1>8 DEF CanRunReviews
  <2> QED BY <1>5, <1>10, <2>1, RunReviewsSound
<1>12. /\ p3.status = "issues_open" /\ p3.versions = p2.versions
       /\ p3.playbook = p2.playbook /\ p3.memo = p2.memo /\ p3.plan = p2.plan
       /\ p3.decision = Raise(p2, FirstCards)
  BY <1>5, <1>7, AdvanceOnce DEF RunReviews, ProjectState
<1> HIDE DEF p3
<1>13. Raised(p3) = FirstCards
  <2>1. \A c \in Cards : p2.decision[c] = "absent" BY <1>9 DEF Raised
  <2> QED BY <1>10, <1>12, <2>1 DEF Raised, Raise
<1>14. UsedIds(p3) = {FirstDraft} BY <1>6, <1>8, <1>12 DEF UsedIds
<1>15. Shown(p3) \intersect Requests = {} BY <1>13, <1>14, RequestsAssumption DEF Shown
<1>16. /\ p3.versions # << >> /\ p3.playbook # None /\ p3.memo.state = "approved"
       /\ p3.plan.state = "approved"
  BY <1>3, <1>7, <1>8, <1>12
<1>17. UnderReview(p3) BY <1>11, <1>12, <1>13, <1>15, <1>16 DEF UnderReview
<1> QED BY <1>1, <1>17

LEMMA RevisedSound ==
  ASSUME NEW p, UnderReview(p), NEW c \in FirstCards, NEW a \in Lawyers
  PROVE  LET q == CreateRevision(DecideIssue(p, c, "accepted", a), FirstRevision)
         IN  Sound(q) /\ Shown(q) \intersect Requests = {}
<1> DEFINE p1 == DecideIssue(p, c, "accepted", a)
           q == CreateRevision(p1, FirstRevision)
<1>1. Sound(p) /\ p \in ProjectState /\ c \in Raised(p)
  BY DEF UnderReview, Sound, Good
<1>2. c \in Cards /\ p.decision[c] # "absent" /\ "accepted" \in Outcomes
  BY <1>1 DEF Raised, Outcomes
<1>3. Sound(p1) /\ Shown(p1) = Shown(p) BY <1>1, <1>2, DecideIssueSound, DecideIssueGrows
<1>4. /\ p1.status = p.status /\ p1.versions = p.versions /\ p1.playbook = p.playbook
      /\ p1.memo = p.memo /\ p1.plan = p.plan
  BY <1>1 DEF DecideIssue, ProjectState
<1> HIDE DEF p1
<1>5. CanCreateRevision(p1)
  <2>1. AtLeast("issues_open", "issues_open") BY RankOf DEF AtLeast
  <2>2. "revised" \in Edges["issues_open"] BY DEF Edges
  <2> QED BY <1>4, <2>1, <2>2 DEF CanCreateRevision, CanAdvance, UnderReview
<1>6. FirstRevision \in VersionIds /\ FirstRevision \notin Requests BY RequestsAssumption
<1>7. Sound(q) /\ Shown(q) = Shown(p1) \union {FirstRevision}
  BY <1>3, <1>5, <1>6, CreateRevisionSound, CreateRevisionGrows
<1> HIDE DEF q
<1>8. Sound(q) /\ Shown(q) \intersect Requests = {} BY <1>3, <1>6, <1>7 DEF UnderReview
<1> QED BY <1>8 DEF q, p1

LEMMA FirstMembers ==
  /\ Staffed(InitialMembers) /\ FirstOwner \in Lawyers
  /\ Ids(InitialMembers) \intersect Requests = {}
<1>1. InitialMembers \subseteq Membership BY MembersAssumption DEF Membership, MemberIds
<1>2. PICK o \in InitialMembers : o.role = "owner_lawyer" BY MembersAssumption
<1>3. o \in ActiveOwners(InitialMembers) BY <1>2, MembersAssumption DEF ActiveOwners
<1>4. Staffed(InitialMembers) BY <1>1, <1>3, MembersAssumption DEF Staffed
<1>5. FirstOwner \in Lawyers
  <2> DEFINE m == CHOOSE x \in InitialMembers : x.role = "owner_lawyer"
  <2>1. m \in InitialMembers /\ m.role = "owner_lawyer" BY <1>2
  <2> HIDE DEF m
  <2>2. m.actor \in Lawyers BY <2>1, MembersAssumption DEF LawyerRoles
  <2> QED BY <2>2 DEF FirstOwner, m
<1>6. \A m \in InitialMembers : m.id \notin Requests BY MembersAssumption
<1>7. Ids(InitialMembers) \intersect Requests = {} BY <1>6 DEF Ids
<1> QED BY <1>4, <1>5, <1>7

LEMMA InvInit ==
  ASSUME Init
  PROVE  Inv
<1>1. PICK d \in Docs, t \in ContractTypes, b \in Playbooks, c \in FirstCards :
        /\ b \in Candidates(t)
        /\ QuestionsOf[b] \intersect RequiredQuestions = {}
        /\ \E p \in {Reviewed(d, t, b, FirstOwner), Revised(d, t, b, FirstOwner, c)} :
             blob = [project |-> p, members |-> InitialMembers]
  BY DEF Init
<1>2. PICK p \in {Reviewed(d, t, b, FirstOwner), Revised(d, t, b, FirstOwner, c)} :
        blob = [project |-> p, members |-> InitialMembers]
  BY <1>1
<1>3. Sound(p) /\ Shown(p) \intersect Requests = {}
  <2>1. UnderReview(Reviewed(d, t, b, FirstOwner)) BY <1>1, FirstMembers, ReviewedUnderReview
  <2>2. CASE p = Reviewed(d, t, b, FirstOwner) BY <2>1, <2>2 DEF UnderReview
  <2>3. CASE p = Revised(d, t, b, FirstOwner, c)
    BY <2>1, <2>3, FirstMembers, RevisedSound DEF Revised
  <2> QED BY <2>2, <2>3
<1>4. blob.project = p /\ blob.members = InitialMembers BY <1>2
<1>5. SoundStore(blob) /\ \A r \in Requests : r \notin Traces(blob)
  BY <1>3, <1>4, FirstMembers DEF SoundStore, Traces
<1>6. /\ p \in ProjectState /\ p.history \in Seq(Entry) /\ p.versions \in Seq(Version)
  BY <1>3 DEF Sound, Good, ProjectState
<1>7. blob \in Snapshots BY <1>2, <1>6, FirstMembers DEF Snapshots, Staffed
<1>8. Idle \in RequestState
  <2>1. << >> \in Seq(Rows) /\ << >> \in Seq(Entry) /\ None \in Snapshots \union {None}
    OBVIOUS
  <2>2. None \in AllOperations \union {None} /\ "waiting" \in Stages /\ TRUE \in BOOLEAN
    BY DEF Stages
  <2> QED BY ONLY <2>1, <2>2 DEF Idle, RequestState
<1>9. req \in [Requests -> RequestState] /\ \A r \in Requests : req[r] = Idle
  BY <1>8 DEF Init
<1>10. \A row \in rows : row \in Rows /\ row.request = None
  <2>1. \A v \in UsedIds(p) : v \in VersionIds
    <3>1. \A i \in 1..Len(p.versions) : p.versions[i] \in Version BY <1>6
    <3> QED BY <3>1 DEF UsedIds, Version
  <2>2. \A e \in FirstCards : Row(None, "issue_card_decided", e) \in Rows
    BY RequestsAssumption DEF Row, Rows, RowEvents
  <2>3. \A v \in VersionIds : Row(None, "revision_generated", v) \in Rows
    BY DEF Row, Rows, RowEvents
  <2>4. \A event, ref : Row(None, event, ref).request = None BY DEF Row
  <2>5. \A row \in rows :
          \/ \E e \in FirstCards : row = Row(None, "issue_card_decided", e)
          \/ \E v \in UsedIds(p) : row = Row(None, "revision_generated", v)
    BY <1>4 DEF Init
  <2> QED BY <2>1, <2>2, <2>3, <2>4, <2>5
<1>11. journal = p.history /\ faults \in 0..MaxFaults
  BY <1>4, LimitsAssumption DEF Init
<1>12. Types BY <1>6, <1>7, <1>9, <1>10, <1>11 DEF Types
<1>13. \A r \in Requests : Shaped(r) BY <1>9 DEF Shaped, Idle, Unasked
<1>14. Stores = {blob} BY <1>9 DEF Stores, Held, Idle
<1>15. None \notin Requests BY RequestsAssumption, DataAssumption
<1> QED BY <1>5, <1>10, <1>12, <1>13, <1>14, <1>15 DEF Inv, Untraced

\* The invariant of the stores and of the requests in flight, however they interleave
\* and wherever the server stops.
THEOREM InvHolds == Spec => []Inv
<1> QED BY InvInit, InvKept, PTL DEF Spec

\* The shapes of the stores: a snapshot is held only between the read and the save,
\* and writes are owed only between the save and the answer.
THEOREM StoreTypeCorrect == Spec => []TypeOK
<1>1. Inv => TypeOK BY DEF Inv, Types, Snapshots, RequestState, Shaped, TypeOK
<1> QED BY <1>1, InvHolds, PTL

\* However many requests overlap, and wherever the server stops, the project that
\* survives is a coherent one: an overlap may lose what an acknowledged request did,
\* it cannot leave a status, an approval, a card or a revision that contradicts another.
THEOREM StoredProjectStaysSound == Spec => []StoredProjectIsSound
<1>1. Inv => StoredProjectIsSound
  <2>1. Inv => SoundStore(blob) BY DEF Inv, Stores
  <2> QED BY <2>1 DEF SoundStore, Sound, Good, StoredProjectIsSound
<1> QED BY <1>1, InvHolds, PTL

\* However many requests overlap, an active owner is left, nobody holds two active
\* memberships, and only lawyers hold the lawyers' roles.
THEOREM MembershipStaysSound == Spec => []MembershipSound
<1>1. Inv => MembershipSound
  <2>1. Inv => SoundStore(blob) BY DEF Inv, Stores
  <2> QED BY <2>1 DEF SoundStore, Staffed, MembershipSound
<1> QED BY <1>1, InvHolds, PTL

\* A request that was denied, refused or let down by its agent shows in no project,
\* in no membership, and in no row that says it did something.
THEOREM RefusalLeavesNoTrace == Spec => []RefusedLeavesNoTrace
<1>1. ASSUME Inv PROVE RefusedLeavesNoTrace
  <2> SUFFICES ASSUME NEW r \in Requests, req[r].at \in {"denied", "refused", "agent_failed"}
               PROVE  /\ \A row \in rows : row.request = r =>
                           req[r].at = "agent_failed" /\ row.event = "deterministic_qa_run"
                      /\ r \notin UsedIds(blob.project) \union Raised(blob.project)
                      /\ \A m \in blob.members : m.id # r
    BY DEF RefusedLeavesNoTrace
  <2>1. blob \in Stores /\ req[r].at \in Unsaved BY DEF Stores, Unsaved
  <2>2. r \notin Traces(blob) /\ \A row \in rows : row.request # r
    BY <1>1, <2>1 DEF Inv, Untraced
  <2> QED BY <2>2 DEF Traces, Shown, Ids
<1> QED BY <1>1, InvHolds, PTL

-----------------------------------------------------------------------------
(* Requests that no other overlapped *)

Serving == {"authorized", "loaded", "saved"}

\* Of two requests being served neither is alone; one that is alone holds what is
\* stored, and its actor still has the permission it was authorized by.
Solo ==
  /\ \A r, s \in Requests :
       r # s /\ req[r].at \in Serving /\ req[s].at \in Serving => ~req[r].alone
  /\ \A r \in Requests : req[r].alone =>
       /\ req[r].at = "loaded" => req[r].snap = blob
       /\ req[r].at \in {"authorized", "loaded"} =>
            Permitted(blob.members, ActorOf[r], req[r].op)

LEMMA InFlightIs ==
  \A r \in Requests : r \in InFlight <=> req[r].at \in Serving
BY DEF InFlight, Serving

LEMMA SoloByOne ==
  ASSUME Solo, NEW r \in Requests, OthersWait(r), req'[r].alone = req[r].alone,
         req'[r].at \in Serving => req[r].at \in Serving,
         blob' # blob => req[r].at \in Serving,
         req'[r].alone => /\ req'[r].at = "loaded" => req'[r].snap = blob'
                          /\ req'[r].at \in {"authorized", "loaded"} =>
                               Permitted(blob'.members, ActorOf[r], req'[r].op)
  PROVE  Solo'
<1>1. ASSUME NEW s \in Requests, NEW u \in Requests, s # u,
             req'[s].at \in Serving, req'[u].at \in Serving
      PROVE  ~req'[s].alone
  <2>1. req[s].at \in Serving /\ req[u].at \in Serving BY <1>1 DEF OthersWait
  <2> QED BY <1>1, <2>1 DEF Solo, OthersWait
<1>2. ASSUME NEW s \in Requests, s # r, req'[s].alone
      PROVE  /\ req'[s].at = "loaded" => req'[s].snap = blob'
             /\ req'[s].at \in {"authorized", "loaded"} =>
                  Permitted(blob'.members, ActorOf[s], req'[s].op)
  <2>1. req'[s] = req[s] BY <1>2 DEF OthersWait
  <2>2. CASE req[s].at \in {"authorized", "loaded"}
    <3>1. req[s].at \in Serving BY <2>2 DEF Serving
    <3>2. req[r].at \notin Serving BY <1>2, <2>1, <3>1 DEF Solo
    <3>3. blob' = blob BY <3>2
    <3> QED BY <1>2, <2>1, <3>3 DEF Solo
  <2>3. CASE req[s].at \notin {"authorized", "loaded"} BY <2>1, <2>3
  <2> QED BY <2>2, <2>3
<1>3. \A s \in Requests : req'[s].alone =>
        /\ req'[s].at = "loaded" => req'[s].snap = blob'
        /\ req'[s].at \in {"authorized", "loaded"} =>
             Permitted(blob'.members, ActorOf[s], req'[s].op)
  BY <1>2
<1> QED BY <1>1, <1>3 DEF Solo

LEMMA SoloAuthorize ==
  ASSUME Inv, Solo, NEW r \in Requests, Authorize(r)
  PROVE  Solo'
<1>1. /\ req[r].at = "waiting" /\ blob' = blob
      /\ \A s \in Requests : s # r =>
           /\ req'[s].at = req[s].at /\ req'[s].op = req[s].op
           /\ req'[s].snap = req[s].snap
           /\ req'[s].alone = (req[s].alone /\ s \notin InFlight)
  BY AuthorizeStep DEF Inv, StoresStay
<1>2. PICK op \in Operations[r] :
        /\ Permitted(blob.members, ActorOf[r], op)
        /\ req'[r] = [Idle EXCEPT !.at = "authorized", !.op = op, !.alone = Calm]
  BY AuthorizeStep DEF Inv
<1>3. /\ req'[r].at = "authorized" /\ req'[r].op = op /\ req'[r].alone = Calm
  BY <1>2 DEF Idle
<1>4. ASSUME NEW s \in Requests, NEW u \in Requests, s # u,
             req'[s].at \in Serving, req'[u].at \in Serving
      PROVE  ~req'[s].alone
  <2>1. CASE s = r
    <3>1. u \in InFlight BY <1>1, <1>4, <2>1, InFlightIs
    <3>2. ~Calm BY <3>1 DEF Calm
    <3> QED BY <1>3, <2>1, <3>2
  <2>2. CASE s # r
    <3>1. s \in InFlight BY <1>1, <1>4, <2>2, InFlightIs
    <3> QED BY <1>1, <2>2, <3>1
  <2> QED BY <2>1, <2>2
<1>5. ASSUME NEW s \in Requests, req'[s].alone
      PROVE  /\ req'[s].at = "loaded" => req'[s].snap = blob'
             /\ req'[s].at \in {"authorized", "loaded"} =>
                  Permitted(blob'.members, ActorOf[s], req'[s].op)
  <2>1. CASE s = r BY <1>1, <1>2, <1>3, <2>1
  <2>2. CASE s # r BY <1>1, <1>5, <2>2 DEF Solo
  <2> QED BY <2>1, <2>2
<1> QED BY <1>4, <1>5 DEF Solo

LEMMA SoloServerStops ==
  ASSUME Inv, Solo, ServerStops
  PROVE  Solo'
<1>1. /\ blob' = blob
      /\ \A r \in Requests : IF r \in InFlight THEN req'[r].at = "lost"
                             ELSE req'[r] = req[r]
  BY ServerStopsStep DEF Inv, StoresStay
<1>2. \A r \in Requests : req'[r].at \notin Serving BY <1>1, InFlightIs DEF Serving
<1> QED BY <1>2 DEF Solo, Serving

LEMMA SoloKept ==
  ASSUME Inv, Solo, [Next]_vars
  PROVE  Solo'
<1>1. ASSUME NEW r \in Requests, Deny(r) PROVE Solo'
  <2>1. /\ blob' = blob /\ OthersWait(r) /\ req'[r].at = "denied"
        /\ req'[r].alone = req[r].alone
    BY <1>1, DenyStep DEF Inv, StoresStay
  <2> QED BY <2>1, SoloByOne DEF Serving
<1>2. ASSUME NEW r \in Requests, Load(r) PROVE Solo'
  <2>1. /\ blob' = blob /\ OthersWait(r) /\ req[r].at = "authorized"
        /\ req'[r].alone = req[r].alone /\ req'[r].snap = blob /\ req'[r].op = req[r].op
    BY <1>2, LoadStep DEF Inv, StoresStay
  <2>2. req'[r].alone => Permitted(blob'.members, ActorOf[r], req'[r].op)
    BY <2>1 DEF Solo
  <2> QED BY <2>1, <2>2, SoloByOne DEF Serving
<1>3. ASSUME NEW r \in Requests, Saves(r) PROVE Solo'
  <2>1. PICK t : Wrote(r, t) BY <1>3, SavesWrote
  <2> QED BY <2>1, SoloByOne DEF Wrote, Serving
<1>4. ASSUME NEW r \in Requests, Ends(r) PROVE Solo'
  <2>1. blob' = blob BY <1>4, EndsStep DEF Inv, StoresStay
  <2>2. PICK how : /\ HasEnded(r, how)
                   /\ how \in {"refused", "agent_failed", "done", "append_failed"}
    BY <1>4, EndsStep DEF Inv
  <2>3. req'[r].at \notin Serving BY <2>2 DEF HasEnded, Serving
  <2> QED BY <2>1, <2>2, <2>3, SoloByOne DEF HasEnded, Serving
<1>5. ASSUME NEW r \in Requests, AppendAuditLog(r) PROVE Solo'
  <2>1. /\ blob' = blob /\ OthersWait(r) /\ req[r].at = "saved" /\ req'[r].at = "saved"
        /\ req'[r].alone = req[r].alone
    BY <1>5, AppendAuditLogStep DEF Inv
  <2> QED BY <2>1, SoloByOne
<1>6. ASSUME NEW r \in Requests, AppendDecisionHistory(r) PROVE Solo'
  <2>1. /\ blob' = blob /\ OthersWait(r) /\ req[r].at = "saved" /\ req'[r].at = "saved"
        /\ req'[r].alone = req[r].alone
    BY <1>6, AppendDecisionHistoryStep DEF Inv
  <2> QED BY <2>1, SoloByOne
<1>7. CASE UNCHANGED vars BY <1>7 DEF vars, Solo
<1> QED BY <1>1, <1>2, <1>3, <1>4, <1>5, <1>6, <1>7, NextCases, SoloAuthorize,
       SoloServerStops

LEMMA SoloInit ==
  ASSUME Init
  PROVE  Solo
<1>1. \A r \in Requests : req[r].at = "waiting" BY DEF Init, Idle
<1> QED BY <1>1 DEF Solo, Serving

\* While a request is served alone no other holds anything.
LEMMA OnlyOneHolds ==
  ASSUME Solo, NEW r \in Requests, req[r].at \in Serving, req[r].alone
  PROVE  \A s \in Requests : s # r => req[s].at \notin Serving
BY DEF Solo

\* What a request answered with success left is in every store, and so in what
\* any later save is computed from.
Acknowledged ==
  \A r \in Requests : req[r].at \in {"saved", "done"} /\ req[r].alone =>
    \A s \in Stores : Left(s, r, req[r].op)

\* A step that stores nothing, and makes no request one that saved, keeps it.
LEMMA AcknowledgedSame ==
  ASSUME Acknowledged, Stores' \subseteq Stores,
         \A r \in Requests :
           req'[r].at \in {"saved", "done"} /\ req'[r].alone =>
             /\ req[r].at \in {"saved", "done"} /\ req[r].alone
             /\ req'[r].op = req[r].op
  PROVE  Acknowledged'
<1> SUFFICES ASSUME NEW r \in Requests, req'[r].at \in {"saved", "done"}, req'[r].alone,
                    NEW s \in Stores'
             PROVE  Left(s, r, req'[r].op)
  BY DEF Acknowledged, Left, Effective, Raised, Pending, UsedIds, Finals
<1> QED BY DEF Acknowledged

LEMMA AcknowledgedSaves ==
  ASSUME Inv, Solo, Acknowledged, NEW r \in Requests, Saves(r)
  PROVE  Acknowledged'
<1>1. PICK t : Wrote(r, t) BY SavesWrote
<1>2. Stores' \subseteq Stores \union {t} BY <1>1, WroteKeeps
<1>3. req[r].snap \in Stores /\ SoundStore(req[r].snap) BY <1>1, HeldStore DEF Wrote
<1>4. StoreGrows(req[r].snap, t) /\ SoundStore(t) /\ Left(t, r, req[r].op)
  BY <1>1 DEF Wrote, Moves
<1>5. ASSUME NEW q \in Requests, req'[q].at \in {"saved", "done"}, req'[q].alone,
             NEW s \in Stores'
      PROVE  Left(s, q, req'[q].op)
  <2>1. CASE q = r
    <3>1. req[r].at = "loaded" /\ req[r].alone /\ req'[r].op = req[r].op
          /\ req'[r].at = "saved" /\ OthersWait(r) /\ blob' = t
      BY <1>1, <1>5, <2>1 DEF Wrote
    <3>2. \A u \in Requests : u # r => req'[u].at # "loaded"
      BY <3>1, OnlyOneHolds DEF Serving, OthersWait
    <3>3. s = t BY <3>1, <3>2 DEF Stores, Held
    <3> QED BY <1>4, <2>1, <3>1, <3>3
  <2>2. CASE q # r
    <3>1. req'[q] = req[q] BY <1>1, <2>2 DEF Wrote, OthersWait
    <3>2. req[q].op \in AllOperations BY <1>5, <3>1 DEF Inv, Shaped, Unasked
    <3>3. \A u \in Stores : Left(u, q, req[q].op) BY <1>5, <3>1 DEF Acknowledged
    <3>4. Left(t, q, req[q].op) BY <1>3, <1>4, <3>2, <3>3, LeftStays
    <3> QED BY <1>2, <3>1, <3>3, <3>4
  <2> QED BY <2>1, <2>2
<1> QED BY <1>5 DEF Acknowledged, Left, Effective, Raised, Pending, UsedIds, Finals

LEMMA AcknowledgedEnds ==
  ASSUME Inv, Solo, Acknowledged, NEW r \in Requests, Ends(r)
  PROVE  Acknowledged'
<1>1. Stores' \subseteq Stores /\ blob' = blob BY EndsKeeps, EndsStep DEF Inv, StoresStay
<1>2. PICK how \in Stages :
        /\ HasEnded(r, how)
        /\ \/ how \notin {"saved", "done"}
           \/ req[r].at = "saved" /\ how = "done"
           \/ req[r].at = "loaded" /\ how = "done" /\ DisableAgain(r)
  BY EndsStep DEF Inv
<1>3. CASE how \notin {"saved", "done"} \/ (req[r].at = "saved" /\ how = "done")
  BY <1>1, <1>2, <1>3, AcknowledgedSame DEF HasEnded, OthersWait, Unasked
<1>4. CASE req[r].at = "loaded" /\ how = "done" /\ DisableAgain(r)
  <2>1. ASSUME NEW q \in Requests, req'[q].at \in {"saved", "done"}, req'[q].alone,
               NEW s \in Stores'
        PROVE  Left(s, q, req'[q].op)
    <3>1. CASE q = r
      <4>1. req[r].alone /\ req'[r].op = req[r].op /\ req'[r].at = "done" /\ OthersWait(r)
        BY <1>2, <1>4, <2>1, <3>1 DEF HasEnded, Unasked
      <4>2. \A u \in Requests : req'[u].at # "loaded"
        BY <1>4, <4>1, OnlyOneHolds DEF Serving, OthersWait
      <4>3. s = blob BY <1>1, <4>2 DEF Stores, Held
      <4>4. req[r].snap = blob BY <1>4, <4>1 DEF Solo
      <4>5. /\ req[r].op.name = "disable_membership"
            /\ \E m \in req[r].snap.members : m.id = req[r].op.member /\ m.disabled
        BY <1>4 DEF DisableAgain, Asks
      <4>6. Left(blob, r, req[r].op) BY <4>4, <4>5 DEF Left, Effective
      <4> QED BY <3>1, <4>1, <4>3, <4>6
    <3>2. CASE q # r BY <1>1, <1>2, <2>1, <3>2 DEF HasEnded, OthersWait, Acknowledged
    <3> QED BY <3>1, <3>2
  <2> QED BY <2>1 DEF Acknowledged, Left, Effective, Raised, Pending, UsedIds, Finals
<1> QED BY <1>2, <1>3, <1>4

LEMMA AcknowledgedKept ==
  ASSUME Inv, Solo, Acknowledged, [Next]_vars
  PROVE  Acknowledged'
<1>1. ASSUME NEW r \in Requests, Authorize(r) PROVE Acknowledged'
  <2>1. /\ req[r].at = "waiting"
        /\ \A s \in Requests : s # r =>
             /\ req'[s].at = req[s].at /\ req'[s].op = req[s].op
             /\ req'[s].alone = (req[s].alone /\ s \notin InFlight)
    BY <1>1, AuthorizeStep DEF Inv
  <2>2. req'[r].at = "authorized" BY <1>1, AuthorizeStep DEF Inv, Idle
  <2> QED BY <1>1, <2>1, <2>2, AuthorizeKeeps, AcknowledgedSame
<1>2. ASSUME NEW r \in Requests, Deny(r) PROVE Acknowledged'
  <2>1. OthersWait(r) /\ req'[r].at = "denied" BY <1>2, DenyStep DEF Inv
  <2> QED BY <1>2, <2>1, DenyKeeps, AcknowledgedSame DEF OthersWait
<1>3. ASSUME NEW r \in Requests, Load(r) PROVE Acknowledged'
  <2>1. OthersWait(r) /\ req'[r].at = "loaded" BY <1>3, LoadStep DEF Inv
  <2> QED BY <1>3, <2>1, LoadKeeps, AcknowledgedSame DEF OthersWait
<1>4. ASSUME NEW r \in Requests, AppendAuditLog(r) PROVE Acknowledged'
  <2>1. /\ OthersWait(r) /\ req[r].at = "saved" /\ req'[r].op = req[r].op
        /\ req'[r].alone = req[r].alone
    BY <1>4, AppendAuditLogStep DEF Inv
  <2> QED BY <1>4, <2>1, AppendAuditLogKeeps, AcknowledgedSame DEF OthersWait
<1>5. ASSUME NEW r \in Requests, AppendDecisionHistory(r) PROVE Acknowledged'
  <2>1. /\ OthersWait(r) /\ req[r].at = "saved" /\ req'[r].op = req[r].op
        /\ req'[r].alone = req[r].alone
    BY <1>5, AppendDecisionHistoryStep DEF Inv
  <2> QED BY <1>5, <2>1, AppendDecisionHistoryKeeps, AcknowledgedSame DEF OthersWait
<1>6. CASE ServerStops
  <2>1. \A r \in Requests : req'[r].at = "lost" \/ req'[r] = req[r]
    BY <1>6, ServerStopsStep DEF Inv
  <2> QED BY <1>6, <2>1, ServerStopsKeeps, AcknowledgedSame
<1>7. CASE UNCHANGED vars BY <1>7, AcknowledgedSame DEF vars, Stores, Held
<1> QED BY <1>1, <1>2, <1>3, <1>4, <1>5, <1>6, <1>7, NextCases, AcknowledgedSaves,
       AcknowledgedEnds

\* A request answered with success that no other overlapped stays in force, whatever
\* is asked next, however later requests overlap and wherever the server stops.
THEOREM AcknowledgedStays == Spec => []AcknowledgedIsStored
<1>1. Init => Acknowledged BY DEF Init, Idle, Acknowledged
<1>2. Inv /\ Acknowledged => AcknowledgedIsStored
  <2>1. blob \in Stores BY DEF Stores
  <2> QED BY <2>1 DEF Acknowledged, AcknowledgedIsStored, Left
<1>3. Inv /\ Solo /\ Acknowledged /\ [Next]_vars => Inv' /\ Solo' /\ Acknowledged'
  BY InvKept, SoloKept, AcknowledgedKept
<1> QED BY <1>1, <1>2, <1>3, InvInit, SoloInit, PTL DEF Spec

LEMMA OnlySavesSave ==
  ASSUME Inv, [Next]_vars, NEW r \in Requests, req[r].at = "loaded", req'[r].at = "saved"
  PROVE  \E t : Wrote(r, t)
<1>1. ASSUME NEW q \in Requests, Authorize(q) PROVE FALSE
  <2>1. \A s \in Requests : s # q => req'[s].at = req[s].at BY <1>1, AuthorizeStep DEF Inv
  <2>2. req[q].at = "waiting" BY <1>1, AuthorizeStep DEF Inv
  <2> QED BY <2>1, <2>2
<1>2. ASSUME NEW q \in Requests, Deny(q) PROVE FALSE
  BY <1>2, DenyStep DEF Inv, OthersWait
<1>3. ASSUME NEW q \in Requests, Load(q) PROVE FALSE
  BY <1>3, LoadStep DEF Inv, OthersWait
<1>4. ASSUME NEW q \in Requests, Ends(q) PROVE FALSE
  <2>1. PICK how : HasEnded(q, how) /\ how # "saved" BY <1>4, EndsStep DEF Inv
  <2> QED BY <2>1 DEF HasEnded, OthersWait
<1>5. ASSUME NEW q \in Requests, AppendAuditLog(q) PROVE FALSE
  <2>1. OthersWait(q) /\ req[q].at = "saved" BY <1>5, AppendAuditLogStep DEF Inv
  <2> QED BY <2>1 DEF OthersWait
<1>6. ASSUME NEW q \in Requests, AppendDecisionHistory(q) PROVE FALSE
  <2>1. OthersWait(q) /\ req[q].at = "saved" BY <1>6, AppendDecisionHistoryStep DEF Inv
  <2> QED BY <2>1 DEF OthersWait
<1>7. ASSUME ServerStops PROVE FALSE
  <2>1. \A s \in Requests : req'[s].at = "lost" \/ req'[s] = req[s]
    BY <1>7, ServerStopsStep DEF Inv
  <2> QED BY <2>1
<1>8. ASSUME UNCHANGED vars PROVE FALSE BY <1>8 DEF vars
<1>9. PICK q \in Requests : Saves(q)
  BY <1>1, <1>2, <1>3, <1>4, <1>5, <1>6, <1>7, <1>8, NextCases
<1>10. PICK t : Wrote(q, t) BY <1>9, SavesWrote
<1>11. q = r BY <1>10 DEF Wrote, OthersWait
<1> QED BY <1>10, <1>11

\* Final approval, and any change of who has access, is a request of somebody who is
\* an active owner when it is saved, unless another request came in between.
THEOREM OwnersAlwaysDecide == Spec => OwnersDecide
<1>1. ASSUME Inv, Solo, [Next]_vars
      PROVE  \A r \in Requests :
               /\ req[r].at = "loaded" /\ req'[r].at = "saved" /\ req[r].alone
               /\ \/ Finals(blob'.project) # Finals(blob.project)
                  \/ blob'.members # blob.members
               => \E m \in ActiveOwners(blob.members) : m.actor = ActorOf[r]
  <2> SUFFICES ASSUME NEW r \in Requests,
                      req[r].at = "loaded", req'[r].at = "saved", req[r].alone,
                      \/ Finals(blob'.project) # Finals(blob.project)
                      \/ blob'.members # blob.members
               PROVE  \E m \in ActiveOwners(blob.members) : m.actor = ActorOf[r]
    OBVIOUS
  <2>1. PICK t : Wrote(r, t) BY <1>1, OnlySavesSave
  <2>2. req[r].snap = blob /\ Permitted(blob.members, ActorOf[r], req[r].op)
    BY <1>1 DEF Solo
  <2>3. req[r].op.name \in {"approve_final", "add_membership", "disable_membership"}
    BY <2>1, <2>2 DEF Wrote, Moves
  <2>4. PermissionFor[req[r].op.name] \in {"approve_final", "manage_memberships"}
    BY <2>3 DEF PermissionFor
  <2>5. PICK m \in Active(blob.members, ActorOf[r]) :
          PermissionFor[req[r].op.name] \in RoleMatrix[m.role]
    BY <2>2 DEF Permitted
  <2>6. /\ m \in blob.members /\ m.actor = ActorOf[r] /\ ~m.disabled
        /\ m.role \in ProjectRoles
    BY <1>1, <2>5 DEF Active, Inv, Types, Snapshots, Membership
  <2>7. m.role = "owner_lawyer" BY <2>4, <2>5, <2>6 DEF ProjectRoles, RoleMatrix
  <2> QED BY <2>6, <2>7 DEF ActiveOwners
<1>2. Inv /\ Solo /\ [Next]_vars => Inv' /\ Solo' BY InvKept, SoloKept
<1> QED BY <1>1, <1>2, InvInit, SoloInit, PTL DEF Spec, OwnersDecide

-----------------------------------------------------------------------------
(* The journal of decisions *)

Within(e, list) == \E i \in 1..Len(list) : list[i] = e
Owed(e) == \E r \in Requests : Within(e, req[r].entries)

\* What every store records is journaled or owed to the journal, and as long as no
\* two requests overlapped the journal is a part of what is stored.
Recorded ==
  faults = 0 =>
    \A s \in Stores : \A k \in 1..Len(s.project.history) :
      Within(s.project.history[k], journal) \/ Owed(s.project.history[k])
Covered ==
  Undisturbed =>
    /\ \A e : Within(e, journal) => Within(e, blob.project.history)
    /\ \A e : Owed(e) => Within(e, blob.project.history)
Matched ==
  Undisturbed /\ faults = 0 =>
    /\ \A r \in Requests :
         req[r].at = "saved" => journal \o req[r].entries = blob.project.history
    /\ (\A r \in Requests : req[r].at # "saved") => journal = blob.project.history

Mirror == Recorded /\ Covered /\ Matched

\* A step that leaves the stored project, the journal and what is owed to it alone.
LEMMA MirrorSame ==
  ASSUME Mirror, Stores' \subseteq Stores, blob' = blob, journal' = journal,
         faults' = faults,
         \A r \in Requests : req'[r].entries = req[r].entries,
         \A r \in Requests : req'[r].at = "saved" <=> req[r].at = "saved",
         \A r \in Requests : req'[r].alone => req[r].alone
  PROVE  Mirror'
<1>1. Undisturbed' => Undisturbed BY DEF Undisturbed
<1>2. \A e : Owed(e)' <=> Owed(e) BY DEF Owed
<1>3. Recorded' BY <1>2 DEF Mirror, Recorded
<1>4. Covered' BY <1>1, <1>2 DEF Mirror, Covered
<1>5. Matched' BY <1>1 DEF Mirror, Matched
<1> QED BY <1>3, <1>4, <1>5 DEF Mirror

\* A step that loses what was owed counts as a fault.
LEMMA MirrorFault ==
  ASSUME Mirror, blob' = blob, journal' = journal, faults' # 0,
         \A r \in Requests : req'[r].entries \in {req[r].entries, << >>},
         Undisturbed' => Undisturbed
  PROVE  Mirror'
<1>1. Recorded' /\ Matched' BY DEF Recorded, Matched
<1>2. \A e : ~Within(e, << >>) BY DEF Within
<1>3. \A e : Owed(e)' => Owed(e) BY <1>2 DEF Owed
<1>4. Covered' BY <1>3 DEF Mirror, Covered
<1> QED BY <1>1, <1>4 DEF Mirror

LEMMA MirrorEnds ==
  ASSUME Inv, Solo, Mirror, NEW r \in Requests, Ends(r)
  PROVE  Mirror'
<1>1. /\ Stores' \subseteq Stores /\ blob' = blob /\ journal' = journal
  BY EndsKeeps, EndsStep DEF Inv, StoresStay
<1>2. PICK how \in Stages :
        /\ HasEnded(r, how)
        /\ \/ /\ req[r].at = "loaded" /\ faults' = faults
              /\ how \in {"refused", "agent_failed", "done"}
           \/ /\ req[r].at = "saved" /\ how = "done" /\ req[r].entries = << >>
              /\ faults' = faults
           \/ how = "append_failed" /\ faults' = faults + 1
  BY EndsStep DEF Inv
<1>3. \A s \in Requests : req'[s].alone = req[s].alone
  BY <1>2 DEF HasEnded, OthersWait
<1>4. CASE req[r].at = "loaded"
           /\ faults' = faults /\ how \in {"refused", "agent_failed", "done"}
  <2>1. req[r].entries = << >> BY <1>4 DEF Inv, Shaped
  <2>2. \A s \in Requests : req'[s].entries = req[s].entries
    BY <1>2, <2>1 DEF HasEnded, OthersWait
  <2>3. \A s \in Requests : req'[s].at = "saved" <=> req[s].at = "saved"
    BY <1>2, <1>4 DEF HasEnded, OthersWait
  <2> QED BY <1>1, <1>3, <1>4, <2>2, <2>3, MirrorSame
<1>5. CASE req[r].at = "saved" /\ how = "done" /\ req[r].entries = << >> /\ faults' = faults
  <2>1. \A s \in Requests : req'[s].entries = req[s].entries
    BY <1>2, <1>5 DEF HasEnded, OthersWait
  <2>2. Undisturbed' => Undisturbed BY <1>3 DEF Undisturbed
  <2>3. \A e : Owed(e)' <=> Owed(e) BY <2>1 DEF Owed
  <2>4. Recorded' BY <1>1, <1>5, <2>3 DEF Mirror, Recorded
  <2>5. Covered' BY <1>1, <2>2, <2>3 DEF Mirror, Covered
  <2>6. Matched'
    <3>1. ASSUME Undisturbed', faults' = 0 PROVE journal = blob.project.history
      <4>1. journal \o req[r].entries = blob.project.history
        BY <1>5, <2>2, <3>1 DEF Mirror, Matched
      <4>2. journal \in Seq(Entry) BY DEF Inv, Types
      <4> QED BY <1>5, <4>1, <4>2, ConcatEmptySeq
    <3>2. \A s \in Requests : req'[s].at = "saved" => req[s].at = "saved"
      BY <1>2, <1>5 DEF HasEnded, OthersWait
    <3> QED BY <1>1, <1>5, <2>1, <2>2, <3>1, <3>2 DEF Mirror, Matched
  <2> QED BY <2>4, <2>5, <2>6 DEF Mirror
<1>6. CASE how = "append_failed" /\ faults' = faults + 1
  <2>1. faults' # 0 BY <1>6 DEF Inv, Types
  <2>2. \A s \in Requests : req'[s].entries \in {req[s].entries, << >>}
    BY <1>2 DEF HasEnded, OthersWait
  <2>3. Undisturbed' => Undisturbed BY <1>3 DEF Undisturbed
  <2> QED BY <1>1, <2>1, <2>2, <2>3, MirrorFault
<1> QED BY <1>2, <1>4, <1>5, <1>6

LEMMA MirrorSaves ==
  ASSUME Inv, Solo, Mirror, NEW r \in Requests, Saves(r)
  PROVE  Mirror'
<1>1. PICK t : Wrote(r, t) BY SavesWrote
<1> DEFINE s == req[r].snap
           new == req'[r].entries
           h == s.project.history
           g == t.project.history
<1>2. Stores' \subseteq Stores \union {t} BY <1>1, WroteKeeps
<1>3. s \in Stores /\ SoundStore(s) BY <1>1, HeldStore DEF Wrote
<1>4. /\ h \in Seq(Entry) /\ g \in Seq(Entry) /\ Extends(g, h)
  BY <1>1, <1>3 DEF Wrote, Moves, SoundStore, Sound, Good, ProjectState, StoreGrows, Grows
<1>5. /\ req[r].at = "loaded" /\ req[r].entries = << >> /\ OthersWait(r) /\ blob' = t
      /\ journal' = journal /\ faults' = faults /\ req'[r].at = "saved"
      /\ new = NewEntries(s.project, t.project) /\ req'[r].alone = req[r].alone
  BY <1>1 DEF Wrote, Inv, Shaped
<1>6. new \in Seq(Entry) /\ g = h \o new
  <2>1. /\ NewEntries(s.project, t.project) \in Seq(Entry)
        /\ t.project.history = s.project.history \o NewEntries(s.project, t.project)
    BY <1>4, NewEntriesAre
  <2> QED BY <1>5, <2>1
<1> HIDE DEF h, g, s, new
<1>7. /\ Len(h) \in Nat /\ Len(new) \in Nat /\ Len(g) = Len(h) + Len(new)
      /\ \A k \in 1..(Len(h) + Len(new)) :
           g[k] = IF k <= Len(h) THEN h[k] ELSE new[k - Len(h)]
  BY <1>4, <1>6, ConcatProperties
<1>8. ASSUME NEW k \in 1..Len(g)
      PROVE  \/ k \in 1..Len(h) /\ g[k] = h[k]
             \/ k - Len(h) \in 1..Len(new) /\ g[k] = new[k - Len(h)]
  BY <1>7
<1>9. ASSUME NEW i \in 1..Len(new)
      PROVE  Len(h) + i \in 1..Len(g) /\ g[Len(h) + i] = new[i]
  <2>1. Len(h) + i \in 1..(Len(h) + Len(new)) /\ ~(Len(h) + i <= Len(h)) BY <1>7
  <2>2. (Len(h) + i) - Len(h) = i BY <1>7
  <2> QED BY <1>7, <2>1, <2>2
<1>10. Undisturbed' => Undisturbed BY <1>5 DEF Undisturbed, OthersWait
<1>11. ASSUME Undisturbed
       PROVE  /\ s = blob /\ \A q \in Requests : q # r => req[q].at # "saved"
              /\ \A q \in Requests : req[q].at # "saved"
              /\ \A q \in Requests : req[q].entries = << >>
  <2>1. req[r].alone BY <1>11 DEF Undisturbed
  <2>2. \A q \in Requests : req[q].at # "saved"
    BY <1>5, <2>1, OnlyOneHolds DEF Serving
  <2>3. s = blob BY <1>5, <2>1 DEF Solo, s
  <2> QED BY <2>2, <2>3 DEF Inv, Shaped
<1>12. \A e : Owed(e)' <=> Owed(e) \/ Within(e, new)
  <2>1. \A e : ~Within(e, req[r].entries) BY <1>5 DEF Within
  <2>2. \A q \in Requests : q # r => req'[q].entries = req[q].entries
    BY <1>5 DEF OthersWait
  <2> QED BY <2>1, <2>2 DEF Owed, new
<1>13. Recorded'
  <2> SUFFICES ASSUME faults = 0, NEW u \in Stores', NEW k \in 1..Len(u.project.history)
               PROVE  Within(u.project.history[k], journal) \/ Owed(u.project.history[k])'
    BY <1>5 DEF Recorded
  <2>1. CASE u \in Stores BY <1>12, <2>1 DEF Mirror, Recorded
  <2>2. CASE u = t
    <3>1. u.project.history = g BY <2>2 DEF g
    <3>2. CASE k \in 1..Len(h) /\ g[k] = h[k]
      <4>1. Within(h[k], journal) \/ Owed(h[k]) BY <1>3, <3>2 DEF Mirror, Recorded, h
      <4> QED BY <1>12, <3>1, <3>2, <4>1
    <3>3. CASE k - Len(h) \in 1..Len(new) /\ g[k] = new[k - Len(h)]
      <4>1. Within(g[k], new) BY <3>3 DEF Within
      <4> QED BY <1>12, <3>1, <4>1
    <3> QED BY <1>8, <3>1, <3>2, <3>3
  <2> QED BY <1>2, <2>1, <2>2
<1>14. Covered'
  <2> SUFFICES ASSUME Undisturbed
               PROVE  \A e : Within(e, journal) \/ Owed(e)' => Within(e, g)
    BY <1>5, <1>10 DEF Covered, g
  <2>1. \A e : Within(e, h) => Within(e, g) BY <1>4 DEF Within, Extends
  <2>2. \A e : Within(e, new) => Within(e, g) BY <1>9 DEF Within
  <2>3. \A e : Within(e, journal) \/ Owed(e) => Within(e, h)
    BY <1>11 DEF Mirror, Covered, h
  <2> QED BY <1>12, <2>1, <2>2, <2>3
<1>15. Matched'
  <2> SUFFICES ASSUME Undisturbed, faults = 0
               PROVE  \A q \in Requests : req'[q].at = "saved" =>
                        journal \o req'[q].entries = t.project.history
    BY <1>5, <1>10 DEF Matched
  <2>1. journal = h BY <1>11 DEF Mirror, Matched, h
  <2>2. \A q \in Requests : req'[q].at = "saved" => q = r
    BY <1>5, <1>11 DEF OthersWait
  <2> QED BY <1>6, <2>1, <2>2 DEF g, new
<1> QED BY <1>13, <1>14, <1>15 DEF Mirror

LEMMA MirrorAppends ==
  ASSUME Inv, Solo, Mirror, NEW r \in Requests, AppendDecisionHistory(r)
  PROVE  Mirror'
<1> DEFINE owed == req[r].entries
           rest == Tail(owed)
           first == Head(owed)
<1>1. /\ req[r].at = "saved" /\ owed # << >> /\ OthersWait(r)
      /\ blob' = blob /\ faults' = faults /\ journal' = Append(journal, first)
      /\ req'[r].entries = rest /\ req'[r].at = "saved" /\ req'[r].alone = req[r].alone
  BY AppendDecisionHistoryStep DEF Inv
<1>2. Stores' \subseteq Stores BY AppendDecisionHistoryKeeps
<1>3. owed \in Seq(Entry) /\ journal \in Seq(Entry) BY DEF Inv, Types, RequestState
<1> HIDE DEF owed, rest, first
<1>4. /\ first \in Entry /\ rest \in Seq(Entry) /\ Len(rest) = Len(owed) - 1
      /\ first = owed[1] /\ \A i \in 1..Len(rest) : rest[i] = owed[i + 1]
  BY <1>1, <1>3, HeadTailProperties DEF first, rest
<1>5. /\ Len(owed) \in Nat /\ Len(owed) > 0 /\ 1 \in 1..Len(owed)
  BY <1>1, <1>3
<1>6. \A e : Within(e, owed) <=> e = first \/ Within(e, rest)
  <2>1. ASSUME NEW i \in 1..Len(owed)
        PROVE  i = 1 \/ (i - 1 \in 1..Len(rest) /\ rest[i - 1] = owed[i])
    BY <1>4, <1>5
  <2>2. ASSUME NEW i \in 1..Len(rest)
        PROVE  i + 1 \in 1..Len(owed) /\ rest[i] = owed[i + 1]
    BY <1>4, <1>5
  <2> QED BY <1>4, <1>5, <2>1, <2>2 DEF Within
<1>7. \A e : Within(e, journal') <=> e = first \/ Within(e, journal)
  <2>1. /\ Len(journal') = Len(journal) + 1 /\ Len(journal) \in Nat
        /\ journal'[Len(journal) + 1] = first
        /\ \A i \in 1..Len(journal) : journal'[i] = journal[i]
    BY <1>1, <1>3, <1>4
  <2>2. /\ \A i \in 1..Len(journal') : i \in 1..Len(journal) \/ i = Len(journal) + 1
        /\ \A i \in 1..Len(journal) : i \in 1..Len(journal')
        /\ Len(journal) + 1 \in 1..Len(journal')
    BY <2>1
  <2> QED BY <2>1, <2>2 DEF Within
<1>8. \A e : Owed(e)' \/ e = first <=> Owed(e)
  <2>1. \A q \in Requests : q # r => req'[q].entries = req[q].entries
    BY <1>1 DEF OthersWait
  <2>2. \A e : Owed(e)' => Owed(e) BY <1>1, <1>6, <2>1 DEF Owed, owed
  <2>3. Owed(first) BY <1>6 DEF Owed, owed
  <2>4. \A e : Owed(e) => Owed(e)' \/ e = first BY <1>1, <1>6, <2>1 DEF Owed, owed
  <2> QED BY <2>2, <2>3, <2>4
<1>9. Undisturbed' => Undisturbed BY <1>1 DEF Undisturbed, OthersWait
<1>10. Recorded' BY <1>1, <1>2, <1>7, <1>8 DEF Mirror, Recorded
<1>11. Covered' BY <1>1, <1>7, <1>8, <1>9 DEF Mirror, Covered
<1>12. Matched'
  <2> SUFFICES ASSUME Undisturbed, faults = 0
               PROVE  \A q \in Requests : req'[q].at = "saved" =>
                        journal' \o req'[q].entries = blob.project.history
    BY <1>1, <1>9 DEF Matched
  <2>1. req[r].alone BY DEF Undisturbed
  <2>2. \A q \in Requests : q # r => req[q].at # "saved"
    BY <1>1, <2>1, OnlyOneHolds DEF Serving
  <2>3. journal' \o rest = journal \o owed
    <3>1. <<first>> \in Seq(Entry) BY <1>4
    <3>2. owed = <<first>> \o rest
      <4>1. /\ <<first>> \o rest \in Seq(Entry)
            /\ Len(<<first>> \o rest) = Len(<<first>>) + Len(rest)
            /\ \A i \in 1..(Len(<<first>>) + Len(rest)) : (<<first>> \o rest)[i] =
                 IF i <= Len(<<first>>) THEN <<first>>[i] ELSE rest[i - Len(<<first>>)]
        BY <1>4, <3>1, ConcatProperties
      <4>2. Len(<<first>>) = 1 /\ <<first>>[1] = first OBVIOUS
      <4> DEFINE joined == <<first>> \o rest
      <4> HIDE DEF joined
      <4>3. /\ joined \in Seq(Entry) /\ Len(joined) = Len(owed)
            /\ \A i \in 1..Len(owed) : joined[i] = IF i <= 1 THEN first ELSE rest[i - 1]
        <5>1. Len(rest) \in Nat BY <1>4
        <5>2. 1 + Len(rest) = Len(owed) BY <1>4, <1>5
        <5>3. \A i \in 1..(1 + Len(rest)) : i <= 1 => <<first>>[i] = first BY <4>2, <5>1
        <5> QED BY <4>1, <4>2, <5>2, <5>3 DEF joined
      <4>4. ASSUME NEW i \in 1..Len(owed) PROVE owed[i] = joined[i]
        <5>1. CASE i = 1 BY <1>4, <4>3, <5>1
        <5>2. CASE i # 1
          <6>1. i - 1 \in 1..Len(rest) /\ (i - 1) + 1 = i /\ ~(i <= 1) BY <1>4, <1>5, <5>2
          <6> QED BY <1>4, <4>3, <6>1
        <5> QED BY <5>1, <5>2
      <4>5. owed = joined BY <1>3, <4>3, <4>4, SeqEqual
      <4> QED BY <4>5 DEF joined
    <3>3. journal' = journal \o <<first>> BY <1>1, <1>3, <1>4
    <3> QED BY <1>3, <1>4, <3>1, <3>2, <3>3, ConcatAssociative
  <2>4. journal \o owed = blob.project.history BY <1>1 DEF Mirror, Matched, owed
  <2> QED BY <1>1, <2>2, <2>3, <2>4 DEF OthersWait
<1> QED BY <1>10, <1>11, <1>12 DEF Mirror

LEMMA MirrorKept ==
  ASSUME Inv, Solo, Mirror, [Next]_vars
  PROVE  Mirror'
<1>1. ASSUME NEW r \in Requests, Authorize(r) PROVE Mirror'
  <2>1. /\ req[r].at = "waiting" /\ StoresStay /\ faults' = faults
        /\ \A s \in Requests : s # r =>
             /\ req'[s].at = req[s].at /\ req'[s].entries = req[s].entries
             /\ req'[s].alone = (req[s].alone /\ s \notin InFlight)
    BY <1>1, AuthorizeStep DEF Inv
  <2>2. req'[r].at = "authorized" /\ req'[r].entries = << >>
    BY <1>1, AuthorizeStep DEF Inv, Idle
  <2>3. req[r].entries = << >> /\ req[r].alone BY <2>1 DEF Inv, Shaped
  <2>4. Stores' \subseteq Stores BY <1>1, AuthorizeKeeps
  <2>5. ASSUME NEW s \in Requests
        PROVE  /\ req'[s].entries = req[s].entries
               /\ req'[s].at = "saved" <=> req[s].at = "saved"
               /\ req'[s].alone => req[s].alone
    <3>1. CASE s = r BY <2>1, <2>2, <2>3, <3>1
    <3>2. CASE s # r BY <2>1, <3>2
    <3> QED BY <3>1, <3>2
  <2> QED BY <2>1, <2>4, <2>5, MirrorSame DEF StoresStay
<1>2. ASSUME NEW r \in Requests, Deny(r) PROVE Mirror'
  <2>1. /\ StoresStay /\ faults' = faults /\ OthersWait(r) /\ req[r].at = "waiting"
        /\ req'[r].at = "denied" /\ req'[r].entries = req[r].entries
        /\ req'[r].alone = req[r].alone
    BY <1>2, DenyStep DEF Inv, Shaped
  <2>2. Stores' \subseteq Stores BY <1>2, DenyKeeps
  <2> QED BY <2>1, <2>2, MirrorSame DEF StoresStay, OthersWait
<1>3. ASSUME NEW r \in Requests, Load(r) PROVE Mirror'
  <2>1. /\ StoresStay /\ faults' = faults /\ OthersWait(r) /\ req[r].at = "authorized"
        /\ req'[r].at = "loaded" /\ req'[r].entries = req[r].entries
        /\ req'[r].alone = req[r].alone
    BY <1>3, LoadStep DEF Inv
  <2>2. Stores' \subseteq Stores BY <1>3, LoadKeeps
  <2> QED BY <2>1, <2>2, MirrorSame DEF StoresStay, OthersWait
<1>4. ASSUME NEW r \in Requests, AppendAuditLog(r) PROVE Mirror'
  <2>1. /\ blob' = blob /\ journal' = journal /\ faults' = faults /\ OthersWait(r)
        /\ req[r].at = "saved" /\ req'[r].at = "saved"
        /\ req'[r].entries = req[r].entries /\ req'[r].alone = req[r].alone
    BY <1>4, AppendAuditLogStep DEF Inv
  <2>2. Stores' \subseteq Stores BY <1>4, AppendAuditLogKeeps
  <2> QED BY <2>1, <2>2, MirrorSame DEF OthersWait
<1>5. CASE ServerStops
  <2>1. /\ StoresStay /\ faults' = faults + 1
        /\ \A r \in Requests : req'[r].alone = req[r].alone
        /\ \A r \in Requests : IF r \in InFlight THEN req'[r].entries = << >>
                               ELSE req'[r] = req[r]
    BY <1>5, ServerStopsStep DEF Inv
  <2>2. faults' # 0 BY <2>1 DEF Inv, Types
  <2>3. \A r \in Requests : req'[r].entries \in {req[r].entries, << >>} BY <2>1
  <2>4. Undisturbed' => Undisturbed BY <2>1 DEF Undisturbed
  <2> QED BY <2>1, <2>2, <2>3, <2>4, MirrorFault DEF StoresStay
<1>6. CASE UNCHANGED vars BY <1>6, MirrorSame DEF vars, Stores, Held
<1> QED BY <1>1, <1>2, <1>3, <1>4, <1>5, <1>6, NextCases, MirrorSaves, MirrorEnds,
       MirrorAppends

LEMMA MirrorInit ==
  ASSUME Init
  PROVE  Mirror
<1>1. /\ journal = blob.project.history
      /\ \A r \in Requests : req[r].at = "waiting" /\ req[r].entries = << >>
  BY DEF Init, Idle
<1>2. Stores = {blob} BY <1>1 DEF Stores, Held
<1>3. \A e : ~Owed(e) BY <1>1 DEF Owed, Within
<1>4. Recorded BY <1>1, <1>2 DEF Recorded, Within
<1>5. Covered BY <1>1, <1>3 DEF Covered
<1>6. Matched BY <1>1 DEF Matched
<1> QED BY <1>4, <1>5, <1>6 DEF Mirror

\* Every decision stored is in the journal or owed to it until an append is refused or
\* the server stops; the journal has no other entries, and in the same order, as long
\* as no two requests have overlapped.
THEOREM JournalAlwaysMirrors == Spec => []JournalMirrorsHistory
<1>1. ASSUME Inv, Mirror PROVE JournalMirrorsHistory
  <2>1. ASSUME faults = 0, NEW k \in 1..Len(blob.project.history)
        PROVE  \/ \E i \in 1..Len(journal) : journal[i] = blob.project.history[k]
               \/ \E r \in Requests : \E i \in 1..Len(req[r].entries) :
                    req[r].entries[i] = blob.project.history[k]
    <3>1. blob \in Stores BY DEF Stores
    <3> QED BY <1>1, <2>1, <3>1 DEF Mirror, Recorded, Within, Owed
  <2>2. ASSUME Undisturbed PROVE NoEntryRemoved
    <3>1. \A i \in 1..Len(journal) : Within(journal[i], journal) BY DEF Within
    <3>2. \A i \in 1..Len(journal) : Within(journal[i], blob.project.history)
      BY <1>1, <2>2, <3>1 DEF Mirror, Covered
    <3> QED BY <3>2 DEF Within, NoEntryRemoved
  <2>3. ASSUME Undisturbed, Calm, faults = 0 PROVE journal = blob.project.history
    BY <1>1, <2>3 DEF Mirror, Matched, Calm, InFlight
  <2> QED BY <2>1, <2>2, <2>3 DEF JournalMirrorsHistory
<1>2. Inv /\ Solo /\ Mirror /\ [Next]_vars => Inv' /\ Solo' /\ Mirror'
  BY InvKept, SoloKept, MirrorKept
<1> QED BY <1>1, <1>2, InvInit, SoloInit, MirrorInit, PTL DEF Spec
=============================================================================
