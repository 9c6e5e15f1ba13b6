------------------------ MODULE TeamMembershipProofs ------------------------
(***************************************************************************)
(* Theorems about TeamMembership, for any accounts, invitations and number *)
(* of requests in progress.                                                *)
(***************************************************************************)
EXTENDS TeamMembership, FiniteSetTheorems, TLAPS

-----------------------------------------------------------------------------
(* Type correctness.                                                       *)

LEMMA IdleOK == ReqOK(IdleReq) /\ IdleReq.invite = None
  BY TeamAssumption
  DEF TeamAssumption, ReqOK, IdleReq, ReqType, Labels, Decisions, Answers, Operations, Roles

\* The changes of a request and of an invitation, each seen as a whole.
LEMMA ReqBecomesOne ==
    ASSUME req \in [Requests -> ReqType], NEW q \in Requests, NEW x, ReqBecomes(q, x)
    PROVE  /\ req'[q] = x
           /\ \A p \in Requests \ {q} : req'[p] = req[p]
           /\ x \in ReqType => req' \in [Requests -> ReqType]
  BY DEF ReqBecomes

LEMMA InviteSetOne ==
    ASSUME invites \in [Invites -> InviteRow \cup {None}], NEW i \in Invites, NEW row \in InviteRow,
           invites' = InviteSet(i, row)
    PROVE  /\ invites' \in [Invites -> InviteRow \cup {None}]
           /\ invites'[i] = row
           /\ \A j \in Invites \ {i} : invites'[j] = invites[j]
  BY DEF InviteSet

LEMMA RowNotNone == None \notin InviteRow
  BY TeamAssumption DEF TeamAssumption

\* One request moves to x, and no invitation row disappears.
LEMMA StepTyped ==
    ASSUME TypeOK, NEW q \in Requests, NEW x, ReqBecomes(q, x), ReqOK(x),
           members' \in [Users -> Roles \cup {None}],
           invites' \in [Invites -> InviteRow \cup {None}],
           grants' \in [Invites -> Nat], raced' \in BOOLEAN, crossed' \subseteq Invites,
           \A i \in Invites : invites[i] # None => invites'[i] # None,
           x.invite \in Invites => invites'[x.invite] # None
    PROVE  TypeOK'
<1>1. req'[q] = x /\ req' \in [Requests -> ReqType] /\ \A p \in Requests \ {q} : req'[p] = req[p]
  BY ReqBecomesOne DEF TypeOK, ReqOK
<1>2. ASSUME NEW p \in Requests
      PROVE  ReqOK(req'[p]) /\ (req'[p].invite \in Invites => invites'[req'[p].invite] # None)
  <2>1. CASE p = q
    <3>1. req'[p] = x
      BY <1>1, <2>1
    <3> QED BY <3>1
  <2>2. CASE p # q
    <3>1. req'[p] = req[p]
      BY <1>1, <2>2
    <3>2. ReqOK(req[p]) /\ (req[p].invite \in Invites => invites[req[p].invite] # None)
      BY DEF TypeOK
    <3> QED BY <3>1, <3>2
  <2> QED BY <2>1, <2>2
<1>3. \A p \in Requests : ReqOK(req[p])'
  BY <1>2 DEF ReqOK
<1> QED BY <1>1, <1>2, <1>3 DEF TypeOK

LEMMA EndTyped ==
    ASSUME TypeOK, NEW q \in Requests, Ends(q),
           members' \in [Users -> Roles \cup {None}],
           invites' \in [Invites -> InviteRow \cup {None}],
           grants' \in [Invites -> Nat], raced' \in BOOLEAN, crossed' \subseteq Invites,
           \A i \in Invites : invites[i] # None => invites'[i] # None
    PROVE  TypeOK'
<1>1. None \notin Invites
  BY TeamAssumption DEF TeamAssumption
<1> QED BY <1>1, IdleOK, StepTyped DEF Ends

\* The same, when the request outdates what others have read.
LEMMA EndOvertakingTyped ==
    ASSUME TypeOK, NEW q \in Requests, NEW others, EndsOvertaking(q, others),
           members' \in [Users -> Roles \cup {None}],
           invites' \in [Invites -> InviteRow \cup {None}],
           grants' \in [Invites -> Nat], raced' \in BOOLEAN, crossed' \subseteq Invites,
           \A i \in Invites : invites[i] # None => invites'[i] # None
    PROVE  TypeOK'
<1>0. None \notin Invites
  BY TeamAssumption DEF TeamAssumption
<1>1. ASSUME NEW p \in Requests
      PROVE  ReqOK(req'[p]) /\ (req'[p].invite \in Invites => invites'[req'[p].invite] # None)
  <2>1. ReqOK(req[p]) /\ (req[p].invite \in Invites => invites'[req[p].invite] # None)
    BY DEF TypeOK
  <2>2. CASE req'[p] = IdleReq
    BY <1>0, <2>2, IdleOK
  <2>3. CASE req'[p] = [req[p] EXCEPT !.overtaken = TRUE]
    <3> DEFINE x == [req[p] EXCEPT !.overtaken = TRUE]
    <3>1. ReqOK(x) /\ x.invite = req[p].invite
      BY <2>1 DEF ReqOK, ReqType
    <3> HIDE DEF x
    <3> QED BY <2>1, <2>3, <3>1 DEF x
  <2>4. CASE req'[p] = req[p]
    BY <2>1, <2>4
  <2> QED BY <2>2, <2>3, <2>4 DEF EndsOvertaking
<1>2. req' \in [Requests -> ReqType] /\ \A p \in Requests : ReqOK(req[p])'
  <2>1. req' = [p \in Requests |-> req'[p]]
    BY DEF EndsOvertaking
  <2>2. \A p \in Requests : req'[p] \in ReqType
    BY <1>1 DEF ReqOK
  <2>3. req' \in [Requests -> ReqType]
    BY <2>1, <2>2
  <2> QED BY <1>1, <2>3 DEF ReqOK
<1> QED BY <1>1, <1>2 DEF TypeOK

LEMMA GotoTyped ==
    ASSUME TypeOK, NEW q \in Requests, NEW label, Goto(q, label),
           ReqOK([req[q] EXCEPT !.pc = label]),
           UNCHANGED team
    PROVE  TypeOK'
<1> DEFINE x == [req[q] EXCEPT !.pc = label]
<1>1. x.invite = req[q].invite
  BY DEF TypeOK, ReqType
<1>2. x.invite \in Invites => invites'[x.invite] # None
  BY <1>1 DEF TypeOK, team
<1>3. ReqBecomes(q, x)
  BY DEF Goto
<1> HIDE DEF x
<1> QED BY <1>2, <1>3, StepTyped DEF TypeOK, x, team

\* An invitation that exists takes another row.
LEMMA RowTyped ==
    ASSUME TypeOK, NEW i \in Invites, NEW row \in InviteRow, invites' = InviteSet(i, row)
    PROVE  /\ invites' \in [Invites -> InviteRow \cup {None}]
           /\ \A j \in Invites : invites[j] # None => invites'[j] # None
           /\ invites'[i] # None
<1>1. /\ invites' \in [Invites -> InviteRow \cup {None}]
      /\ invites'[i] = row
      /\ \A j \in Invites \ {i} : invites'[j] = invites[j]
  BY InviteSetOne DEF TypeOK
<1>2. row # None
  BY RowNotNone
<1>3. invites'[i] # None
  BY <1>1, <1>2
<1> QED BY <1>1, <1>3

LEMMA BeginTyped ==
    ASSUME TypeOK, NEW q \in Requests, NEW op \in Operations \ {"accept"}, NEW label,
           NEW caller \in Users, NEW state, Begin(q, op, label, caller, state),
           state.invite \in Invites => invites[state.invite] # None,
           state \in ReqType,
           ReqOK([state EXCEPT !.pc = label, !.op = op])
    PROVE  TypeOK'
<1> DEFINE x == [state EXCEPT !.pc = label, !.op = op]
<1>1. x.invite = state.invite
  BY DEF ReqType
<1>2. ReqBecomes(q, x)
  BY DEF Begin
<1>3. UNCHANGED team
  BY DEF Begin
<1> HIDE DEF x
<1> QED BY <1>1, <1>2, <1>3, StepTyped DEF TypeOK, x, team

LEMMA ManageTyped ==
    ASSUME TypeOK, NEW q \in Requests, NEW caller \in Users, Manage(q, caller)
    PROVE  TypeOK'
<1> USE TeamAssumption DEF TeamAssumption, IdleReq, ReqType, Labels, Roles, Decisions, Answers, Operations
<1>1. ASSUME NEW u \in Users, NEW role \in Roles, BeginSend(q, caller, u, role) PROVE TypeOK'
  BY <1>1, BeginTyped DEF BeginSend, ReqOK
<1>2. ASSUME NEW u \in Users, NEW role \in Roles, BeginRole(q, caller, u, role) PROVE TypeOK'
  BY <1>2, BeginTyped DEF BeginRole, ReqOK
<1>3. ASSUME NEW u \in Users, BeginRemove(q, caller, u) PROVE TypeOK'
  BY <1>3, BeginTyped DEF BeginRemove, ReqOK
<1>4. ASSUME NEW u \in Users, BeginRemoveByCount(q, caller, u) PROVE TypeOK'
  BY <1>4, BeginTyped DEF BeginRemoveByCount, ReqOK
<1>5. ASSUME NEW i \in Invites, BeginResend(q, caller, i) PROVE TypeOK'
  BY <1>5, BeginTyped DEF BeginResend, ReqOK
<1>6. ASSUME NEW i \in Invites, BeginCancel(q, caller, i) PROVE TypeOK'
  BY <1>6, BeginTyped DEF BeginCancel, ReqOK
<1> QED BY <1>1, <1>2, <1>3, <1>4, <1>5, <1>6 DEF Manage

LEMMA AcceptTyped ==
    ASSUME TypeOK, NEW q \in Requests, NEW u \in Users, NEW i \in Invites, BeginAccept(q, u, i)
    PROVE  TypeOK'
<1> DEFINE x == [IdleReq EXCEPT !.pc = "join", !.op = "accept", !.target = u,
                                !.role = invites[i].role, !.invite = i]
<1>1. ReqBecomes(q, x) /\ UNCHANGED team /\ invites[i] \in InviteRow
  BY DEF BeginAccept, TypeOK
<1>2. ReqOK(x)
  BY <1>1, TeamAssumption
  DEF TeamAssumption, ReqOK, IdleReq, ReqType, Labels, Roles, Decisions, Answers, Operations, InviteRow
<1>3. x.invite = i
  BY DEF IdleReq
<1>4. invites'[i] # None
  BY <1>1, RowNotNone DEF team
<1> HIDE DEF x
<1> QED BY <1>1, <1>2, <1>3, <1>4, StepTyped DEF TypeOK, team

LEMMA HandleTyped ==
    ASSUME TypeOK, NEW q \in Requests, Handle(q)
    PROVE  TypeOK'
<1>0. /\ ReqOK(req[q]) /\ req[q] \in ReqType
      /\ req[q].invite \in Invites => invites[req[q].invite] \in InviteRow
      /\ members \in [Users -> Roles \cup {None}]
      /\ invites \in [Invites -> InviteRow \cup {None}]
      /\ grants \in [Invites -> Nat] /\ raced \in BOOLEAN /\ crossed \subseteq Invites
  BY DEF TypeOK
<1>1. ASSUME UNCHANGED team, Ends(q) PROVE TypeOK'
  BY <1>0, <1>1, EndTyped DEF team
<1>2. CASE CheckMember(q)
  <2>1. ReqOK([req[q] EXCEPT !.pc = "duplicate"])
    BY <1>0, <1>2, TeamAssumption
    DEF TeamAssumption, CheckMember, ReqOK, ReqType, Labels, Decisions, Answers, Operations
  <2> QED BY <1>1, <1>2, <2>1, GotoTyped DEF CheckMember
<1>3. CASE CheckDuplicate(q)
  <2>1. ReqOK([req[q] EXCEPT !.pc = "insert"])
    BY <1>0, <1>3, TeamAssumption
    DEF TeamAssumption, CheckDuplicate, ReqOK, ReqType, Labels, Decisions, Answers, Operations
  <2> QED BY <1>1, <1>3, <2>1, GotoTyped DEF CheckDuplicate
<1>4. CASE InsertInvite(q)
  <2>1. NewInvite(q) \in InviteRow
    BY <1>0, <1>4 DEF InsertInvite, ReqOK, NewInvite, InviteRow
  <2>2. PICK i \in Invites : invites' = InviteSet(i, NewInvite(q))
    BY <1>4 DEF InsertInvite
  <2>3. /\ invites' \in [Invites -> InviteRow \cup {None}]
        /\ \A j \in Invites : invites[j] # None => invites'[j] # None
    BY <2>1, <2>2, RowTyped
  <2> QED BY <1>0, <1>4, <2>3, EndTyped DEF InsertInvite
<1>5. CASE ResendInvite(q)
  <2>0. req[q].invite \in Invites
    BY <1>0, <1>5 DEF ResendInvite, ReqOK, Answers
  <2>1. [invites[req[q].invite] EXCEPT !.expired = FALSE] \in InviteRow
    BY <1>0, <2>0 DEF InviteRow
  <2>2. /\ invites' \in [Invites -> InviteRow \cup {None}]
        /\ \A j \in Invites : invites[j] # None => invites'[j] # None
    BY <1>0, <1>5, <2>0, <2>1, RowTyped DEF ResendInvite
  <2> QED BY <1>0, <1>5, <2>2, EndTyped DEF ResendInvite
<1>6. CASE CancelInvite(q)
  <2>0. req[q].invite \in Invites
    BY <1>0, <1>6 DEF CancelInvite, ReqOK, Answers
  <2>1. [invites[req[q].invite] EXCEPT !.cancelled = TRUE] \in InviteRow
    BY <1>0, <2>0 DEF InviteRow
  <2>2. /\ invites' \in [Invites -> InviteRow \cup {None}]
        /\ \A j \in Invites : invites[j] # None => invites'[j] # None
    BY <1>0, <1>6, <2>0, <2>1, RowTyped DEF CancelInvite
  <2>3. CASE Cancellable(req[q].invite)
    BY <1>0, <1>6, <2>2, <2>3, EndOvertakingTyped DEF CancelInvite
  <2>4. CASE ~Cancellable(req[q].invite)
    BY <1>0, <1>6, <2>2, <2>4, EndTyped DEF CancelInvite
  <2> QED BY <2>3, <2>4
<1>7. ASSUME NEW label \in {"count", "write"}, req[q].pc \in {"read", "count"}
      PROVE  ReqOK([req[q] EXCEPT !.pc = label])
  BY <1>0, <1>7, TeamAssumption
  DEF TeamAssumption, ReqOK, ReqType, Labels, Decisions, Answers, Operations
<1>8. CASE ReadRole(q)
  BY <1>7, <1>8, GotoTyped DEF ReadRole
<1>9. CASE CountOwners(q)
  BY <1>1, <1>7, <1>9, GotoTyped DEF CountOwners
<1>10. CASE CountFirst(q)
  <2> DEFINE x == [req[q] EXCEPT !.pc = "readAfter", !.sole = ~OwnerToSpare]
  <2>1. ReqOK(x) /\ x.invite = req[q].invite
    BY <1>0, <1>10, TeamAssumption
    DEF TeamAssumption, CountFirst, ReqOK, ReqType, Labels, Decisions, Answers, Operations, OwnerToSpare
  <2>2. ReqBecomes(q, x) /\ UNCHANGED team
    BY <1>10 DEF CountFirst
  <2>3. x.invite \in Invites => invites'[x.invite] # None
    BY <2>1, <2>2 DEF TypeOK, team
  <2> HIDE DEF x
  <2> QED BY <1>0, <2>1, <2>2, <2>3, StepTyped DEF team
<1>11. CASE ReadAfter(q)
  <2> DEFINE x == [req[q] EXCEPT !.pc = "write", !.sole = FALSE]
  <2>1. ReqOK(x) /\ x.invite = req[q].invite
    BY <1>0, <1>11, TeamAssumption
    DEF TeamAssumption, ReadAfter, ReqOK, ReqType, Labels, Decisions, Answers, Operations
  <2>2. CASE ReqBecomes(q, x)
    <3>1. UNCHANGED team
      BY <1>11 DEF ReadAfter
    <3>2. x.invite \in Invites => invites'[x.invite] # None
      BY <2>1, <3>1 DEF TypeOK, team
    <3> HIDE DEF x
    <3> QED BY <1>0, <2>1, <2>2, <3>1, <3>2, StepTyped DEF team
  <2> QED BY <1>1, <1>11, <2>2 DEF ReadAfter
<1>12. CASE WriteMember(q)
  <2>1. members' \in [Users -> Roles \cup {None}]
    BY <1>0, <1>12 DEF WriteMember, ReqOK, Decisions
  <2>4. raced' \in BOOLEAN
    <3>1. req[q].overtaken \in BOOLEAN
      BY <1>0 DEF ReqType
    <3>2. raced' = (raced \/ req[q].overtaken)
      BY <1>12 DEF WriteMember
    <3> QED BY <1>0, <3>1, <3>2
  <2>5. UNCHANGED <<invites, grants, crossed>> /\ EndsOvertaking(q, Deciding(q))
    BY <1>12 DEF WriteMember
  <2> QED BY <1>0, <2>1, <2>4, <2>5, EndOvertakingTyped
<1>13. CASE Join(q)
  <2>0. req[q].invite \in Invites /\ req[q].role \in Roles
    BY <1>0, <1>13 DEF Join, ReqOK, Answers
  <2>1. [invites[req[q].invite] EXCEPT !.accepted = TRUE] \in InviteRow
    BY <1>0, <2>0 DEF InviteRow
  <2>2. /\ invites' \in [Invites -> InviteRow \cup {None}]
        /\ \A j \in Invites : invites[j] # None => invites'[j] # None
    BY <1>0, <1>13, <2>0, <2>1, RowTyped DEF Join
  <2>3. members' \in [Users -> Roles \cup {None}]
    BY <1>0, <1>13, <2>0 DEF Join, JoinedAs
  <2>4. grants' \in [Invites -> Nat]
    <3>1. grants[req[q].invite] \in Nat /\ grants[req[q].invite] + 1 \in Nat
      BY <1>0, <2>0
    <3>2. PICK n \in Nat : grants' = [grants EXCEPT ![req[q].invite] = n]
      BY <1>13, <3>1 DEF Join
    <3> QED BY <1>0, <3>2
  <2>5. raced' \in BOOLEAN /\ crossed' \subseteq Invites
    BY <1>0, <1>13, <2>0 DEF Join
  <2> QED BY <1>13, <2>2, <2>3, <2>4, <2>5, EndOvertakingTyped DEF Join
<1>14. CASE StopRequest(q)
  BY <1>1, <1>14 DEF StopRequest
<1> QED
  BY <1>2, <1>3, <1>4, <1>5, <1>6, <1>8, <1>9, <1>10, <1>11, <1>12, <1>13, <1>14 DEF Handle

LEMMA ExpireTyped ==
    ASSUME TypeOK, NEW i \in Invites, Expire(i)
    PROVE  TypeOK'
<1>1. [invites[i] EXCEPT !.expired = TRUE] \in InviteRow
  BY DEF TypeOK, Expire, Open, InviteRow
<1>2. /\ invites' \in [Invites -> InviteRow \cup {None}]
      /\ \A j \in Invites : invites[j] # None => invites'[j] # None
  BY <1>1, RowTyped DEF Expire, Open
<1> QED BY <1>2 DEF Expire, TypeOK

\* Rows and requests keep their types.
THEOREM TypeCorrect == Spec => []TypeOK
<1>1. Init => TypeOK
  <2> SUFFICES ASSUME Init PROVE TypeOK
    OBVIOUS
  <2>1. \A q \in Requests : req[q] = IdleReq
    BY DEF Init
  <2>2. req \in [Requests -> ReqType]
    BY IdleOK DEF Init, ReqOK
  <2>3. members \in [Users -> Roles \cup {None}]
    BY DEF Init, Roles
  <2>4. None \notin Invites
    BY TeamAssumption DEF TeamAssumption
  <2>5. \A q \in Requests : /\ ReqOK(req[q])
                            /\ req[q].invite \in Invites => invites[req[q].invite] # None
    BY <2>1, <2>4, IdleOK
  <2>6. /\ invites \in [Invites -> InviteRow \cup {None}]
        /\ grants \in [Invites -> Nat] /\ raced \in BOOLEAN /\ crossed \subseteq Invites
    BY DEF Init
  <2> QED BY <2>2, <2>3, <2>5, <2>6 DEF TypeOK
<1>2. TypeOK /\ [Next]_vars => TypeOK'
  <2> SUFFICES ASSUME TypeOK, [Next]_vars PROVE TypeOK'
    OBVIOUS
  <2>1. CASE Next
    BY <2>1, HandleTyped, ManageTyped, AcceptTyped, ExpireTyped DEF Next
  <2>2. CASE UNCHANGED vars
    BY <2>2 DEF vars, TypeOK
  <2> QED BY <2>1, <2>2
<1> QED BY <1>1, <1>2, PTL DEF Spec

-----------------------------------------------------------------------------
(* An owner remains, until a decision is written that was overtaken.  The  *)
(* owners only grow, except where a decision demotes or removes one.       *)

\* Owners that only grow spare whoever they spared, and whoever joins them.
LEMMA GrowthSpares ==
    ASSUME NEW t, NEW owners, NEW more, owners # {}, owners \subseteq more,
           t \in owners => owners \ {t} # {}
    PROVE  more \ {t} # {}
  OBVIOUS

\* No owner is lost, and every request was safe before as it is now.
LEMMA SafetyKept ==
    ASSUME TypeOK, DecisionInvariant, raced' = raced, Owners \subseteq Owners',
           members' \in [Users -> Roles \cup {None}],
           \A p \in Requests : SafeToDemote(req[p]) => SafeToDemote(req'[p]),
           \A p \in Requests : Committed(req'[p]) => req'[p].target \in Users
    PROVE  DecisionInvariant'
<1>1. CASE raced
  BY <1>1 DEF DecisionInvariant
<1>2. CASE ~raced
  <2>1. Owners # {} /\ \A p \in Requests : SafeToDemote(req'[p])
    BY <1>2 DEF DecisionInvariant, OwnerRemains
  <2>2. ASSUME NEW p \in Requests PROVE SafeToDemote(req[p])'
    <3>1. SafeToDemote(req'[p]) /\ (Committed(req'[p]) => req'[p].target \in Users)
      BY <2>1
    <3>2. ASSUME Committed(req'[p]), ~req'[p].overtaken
          PROVE  Owners' \ {req'[p].target} # {}
      <4>1. req'[p].target \in Owners => Owners \ {req'[p].target} # {}
        BY <3>1, <3>2 DEF SafeToDemote, Owners
      <4> QED BY <2>1, <4>1, GrowthSpares
    <3> QED BY <3>2 DEF SafeToDemote, Committed, Demotes
  <2>3. Owners' # {}
    BY <2>1
  <2> QED BY <2>2, <2>3 DEF DecisionInvariant, OwnerRemains
<1> QED BY <1>1, <1>2

LEMMA CommittedTarget ==
    ASSUME TypeOK, NEW p \in Requests, Committed(req[p])
    PROVE  req[p].target \in Users
  BY DEF TypeOK, ReqOK, Committed, Decisions

LEMMA IdleSafe ==
    SafeToDemote(IdleReq) /\ ~Committed(IdleReq) /\ IdleReq.op \notin Decisions /\ IdleReq \in ReqType
  BY TeamAssumption, IdleOK
  DEF TeamAssumption, SafeToDemote, Committed, IdleReq, Decisions, Operations, ReqOK

\* A request ends, whether or not it outdates what others have read.
LEMMA OvertakingMoves ==
    ASSUME TypeOK, DecisionInvariant, NEW q \in Requests, NEW others,
           EndsOvertaking(q, others), raced' = raced, Owners \subseteq Owners',
           members' \in [Users -> Roles \cup {None}]
    PROVE  DecisionInvariant'
<1>1. ASSUME NEW p \in Requests
      PROVE  /\ SafeToDemote(req[p]) => SafeToDemote(req'[p])
             /\ Committed(req'[p]) => req'[p].target \in Users
  <2>1. CASE req'[p] = IdleReq
    BY <2>1, IdleSafe
  <2>2. CASE req'[p] = req[p]
    BY <2>2, CommittedTarget
  <2>3. CASE req'[p] = [req[p] EXCEPT !.overtaken = TRUE]
    <3>1. /\ req'[p].overtaken /\ req'[p].target = req[p].target
          /\ req'[p].pc = req[p].pc /\ req'[p].op = req[p].op
          /\ req'[p].role = req[p].role /\ req'[p].sole = req[p].sole
      BY <2>3 DEF TypeOK, ReqType
    <3>2. Committed(req'[p]) => Committed(req[p])
      BY <3>1 DEF Committed, Demotes
    <3> QED BY <3>1, <3>2, CommittedTarget DEF SafeToDemote
  <2> QED BY <2>1, <2>2, <2>3 DEF EndsOvertaking
<1> QED BY <1>1, SafetyKept

\* A request moves to x, which is safe, and the members stay.
LEMMA StandMoves ==
    ASSUME TypeOK, DecisionInvariant, NEW q \in Requests, NEW x,
           ReqBecomes(q, x), x \in ReqType, UNCHANGED <<members, raced>>,
           Committed(x) => x.target \in Users,
           SafeToDemote(x)
    PROVE  DecisionInvariant'
<1>1. Owners \subseteq Owners' /\ members' \in [Users -> Roles \cup {None}]
  BY DEF Owners, TypeOK
<1>2. req'[q] = x /\ \A p \in Requests \ {q} : req'[p] = req[p]
  BY ReqBecomesOne DEF TypeOK
<1>3. ASSUME NEW p \in Requests
      PROVE  /\ SafeToDemote(req[p]) => SafeToDemote(req'[p])
             /\ Committed(req'[p]) => req'[p].target \in Users
  <2>1. CASE p = q
    <3>1. req'[p] = x
      BY <1>2, <2>1
    <3> QED BY <3>1
  <2>2. CASE p # q
    <3>1. req'[p] = req[p]
      BY <1>2, <2>2
    <3> QED BY <3>1, CommittedTarget
  <2> QED BY <2>1, <2>2
<1> QED BY <1>1, <1>3, SafetyKept

LEMMA EndMoves ==
    ASSUME TypeOK, DecisionInvariant, NEW q \in Requests, Ends(q), UNCHANGED <<members, raced>>
    PROVE  DecisionInvariant'
  BY IdleSafe, StandMoves DEF Ends

LEMMA GotoMoves ==
    ASSUME TypeOK, DecisionInvariant, NEW q \in Requests, NEW label \in Labels,
           Goto(q, label), UNCHANGED <<members, raced>>,
           label = "write" => req[q].target \in Users, label # "readAfter",
           SafeToDemote([req[q] EXCEPT !.pc = label])
    PROVE  DecisionInvariant'
<1> DEFINE x == [req[q] EXCEPT !.pc = label]
<1>1. x \in ReqType /\ x.target = req[q].target /\ x.pc = label
  BY DEF TypeOK, ReqType
<1>2. ReqBecomes(q, x)
  BY DEF Goto
<1>3. SafeToDemote(x)
  OBVIOUS
<1> HIDE DEF x
<1>4. Committed(x) => x.target \in Users
  BY <1>1 DEF Committed
<1> QED BY <1>1, <1>2, <1>3, <1>4, StandMoves

\* A request begins, and is not yet committed to demote anybody.
LEMMA BeginMoves ==
    ASSUME TypeOK, DecisionInvariant, NEW q \in Requests, NEW op \in Operations,
           NEW label \in Labels \ {"readAfter"}, NEW caller \in Users, NEW state \in ReqType,
           Begin(q, op, label, caller, state),
           label = "write" => op = "role" /\ state.role = "owner"
    PROVE  DecisionInvariant'
<1> DEFINE x == [state EXCEPT !.pc = label, !.op = op]
<1>1. x \in ReqType /\ x.pc = label /\ x.op = op /\ x.role = state.role
  BY DEF ReqType
<1>2. ReqBecomes(q, x) /\ UNCHANGED <<members, raced>>
  BY DEF Begin, team
<1> HIDE DEF x
<1>3. ~Committed(x)
  BY <1>1 DEF Committed, Demotes
<1>4. SafeToDemote(x)
  BY <1>3 DEF SafeToDemote
<1> QED BY <1>1, <1>2, <1>3, <1>4, StandMoves

LEMMA ManageMoves ==
    ASSUME TypeOK, DecisionInvariant, NEW q \in Requests, NEW caller \in Users,
           Manage(q, caller)
    PROVE  DecisionInvariant'
<1> USE TeamAssumption DEF TeamAssumption, IdleReq, ReqType, Labels, Roles, Decisions, Answers, Operations
<1>1. ASSUME NEW u \in Users, NEW role \in Roles, BeginSend(q, caller, u, role)
      PROVE  DecisionInvariant'
  BY <1>1, BeginMoves DEF BeginSend
<1>2. ASSUME NEW u \in Users, NEW role \in Roles, BeginRole(q, caller, u, role)
      PROVE  DecisionInvariant'
  BY <1>2, BeginMoves DEF BeginRole
<1>3. ASSUME NEW u \in Users, BeginRemove(q, caller, u) PROVE DecisionInvariant'
  BY <1>3, BeginMoves DEF BeginRemove
<1>4. ASSUME NEW u \in Users, BeginRemoveByCount(q, caller, u) PROVE DecisionInvariant'
  BY <1>4, BeginMoves DEF BeginRemoveByCount
<1>5. ASSUME NEW i \in Invites, BeginResend(q, caller, i) PROVE DecisionInvariant'
  BY <1>5, BeginMoves DEF BeginResend
<1>6. ASSUME NEW i \in Invites, BeginCancel(q, caller, i) PROVE DecisionInvariant'
  BY <1>6, BeginMoves DEF BeginCancel
<1> QED BY <1>1, <1>2, <1>3, <1>4, <1>5, <1>6 DEF Manage

LEMMA AcceptMoves ==
    ASSUME TypeOK, DecisionInvariant, NEW q \in Requests, NEW u \in Users,
           NEW i \in Invites, BeginAccept(q, u, i)
    PROVE  DecisionInvariant'
<1> DEFINE x == [IdleReq EXCEPT !.pc = "join", !.op = "accept", !.target = u,
                                !.role = invites[i].role, !.invite = i]
<1>1. ReqBecomes(q, x) /\ UNCHANGED <<members, raced>> /\ invites[i] \in InviteRow
  BY DEF BeginAccept, TypeOK, team
<1>2. x \in ReqType /\ x.pc = "join"
  BY <1>1 DEF IdleReq, ReqType, Labels, Roles, Decisions, Answers, Operations, InviteRow
<1> HIDE DEF x
<1>3. ~Committed(x)
  BY <1>2 DEF Committed
<1>4. SafeToDemote(x)
  BY <1>3 DEF SafeToDemote
<1> QED BY <1>1, <1>2, <1>3, <1>4, StandMoves

\* Whoever is removed from the owners, one is left when there is one to spare.
LEMMA Spare ==
    ASSUME OwnerToSpare, NEW u
    PROVE  Owners \ {u} # {}
<1>1. IsFiniteSet(Owners)
  BY TeamAssumption, FS_Subset DEF TeamAssumption, Owners
<1>2. SUFFICES ASSUME Owners \ {u} = {} PROVE FALSE
  OBVIOUS
<1>3. Owners \subseteq {u}
  BY <1>2
<1>4. IsFiniteSet({u}) /\ Cardinality({u}) = 1
  BY FS_Singleton
<1>5. Cardinality(Owners) <= 1
  BY <1>3, <1>4, FS_Subset
<1>6. Cardinality(Owners) \in Nat
  BY <1>1, FS_CardinalityType
<1> QED BY <1>5, <1>6 DEF OwnerToSpare

\* The row is written.  Either it takes an owner away, leaves another, and
\* overtakes every request that counts on the one it took; or no owner is lost.
LEMMA WriteMoves ==
    ASSUME TypeOK, DecisionInvariant, NEW q \in Requests, WriteMember(q)
    PROVE  DecisionInvariant'
<1> DEFINE t == req[q].target
<1>0. /\ ReqOK(req[q]) /\ req[q].op \in Decisions /\ t \in Users
      /\ req[q].op = "role" => req[q].role \in Roles
      /\ members \in [Users -> Roles \cup {None}]
  BY DEF TypeOK, WriteMember, ReqOK, Decisions
<1>1. /\ \A u \in Users \ {t} : members'[u] = members[u]
      /\ members' \in [Users -> Roles \cup {None}]
  BY <1>0 DEF WriteMember, Decisions
<1>2. CASE raced \/ req[q].overtaken
  BY <1>2 DEF WriteMember, DecisionInvariant
<1>3. CASE ~raced /\ ~req[q].overtaken /\ Demotes(req[q]) /\ members[t] = "owner"
  <2>1. Owners \ {t} # {}
    BY <1>3 DEF DecisionInvariant, SafeToDemote, Committed, WriteMember
  <2>2. Owners \ {t} \subseteq Owners'
    BY <1>1 DEF Owners
  <2>3. ASSUME NEW p \in Requests, Committed(req'[p]) PROVE req'[p].overtaken
    <3>1. CASE req'[p] = IdleReq
      BY <2>3, <3>1, IdleSafe
    <3>2. CASE req'[p] = [req[p] EXCEPT !.overtaken = TRUE]
      BY <3>2 DEF TypeOK, ReqType
    <3>3. CASE p # q /\ p \notin Deciding(q) /\ req'[p] = req[p]
      <4>1. req[p].pc \in {"write", "readAfter"} /\ Demotes(req[p])
        <5>1. ReqOK(req[p])
          BY DEF TypeOK
        <5> QED BY <2>3, <3>3, <5>1 DEF Committed, ReqOK, Demotes
      <4> QED BY <1>3, <3>3, <4>1 DEF Deciding
    <3> QED BY <3>1, <3>2, <3>3 DEF WriteMember, EndsOvertaking
  <2>4. ASSUME NEW p \in Requests PROVE SafeToDemote(req[p])'
    BY <2>3 DEF SafeToDemote, Committed, Demotes
  <2>5. Owners' # {}
    BY <2>1, <2>2
  <2> QED BY <2>4, <2>5 DEF DecisionInvariant, OwnerRemains
<1>4. CASE ~raced /\ ~req[q].overtaken /\ ~(Demotes(req[q]) /\ members[t] = "owner")
  <2>1. EndsOvertaking(q, Deciding(q))
    BY DEF WriteMember
  <2>2. Owners \subseteq Owners'
    <3>1. CASE members[t] = "owner"
      <4>1. req[q].op = "role" /\ req[q].role = "owner"
        BY <1>0, <1>4, <3>1 DEF Demotes, Decisions, Roles
      <4>2. "owner" # None
        BY TeamAssumption DEF TeamAssumption, Roles
      <4>3. members'[t] = "owner"
        BY <1>0, <3>1, <4>1, <4>2 DEF WriteMember
      <4> QED BY <1>1, <4>3 DEF Owners
    <3>2. CASE members[t] # "owner"
      BY <1>1, <3>2 DEF Owners
    <3> QED BY <3>1, <3>2
  <2>3. raced' = raced
    <3>1. raced' = (raced \/ req[q].overtaken) /\ raced \in BOOLEAN
      BY DEF WriteMember, TypeOK
    <3> QED BY <1>4, <3>1
  <2> QED BY <1>1, <2>1, <2>2, <2>3, OvertakingMoves
<1> QED BY <1>2, <1>3, <1>4

\* An acceptance joins somebody who was not a member, or changes nothing.
LEMMA JoinMoves ==
    ASSUME TypeOK, DecisionInvariant, NEW q \in Requests, Join(q)
    PROVE  DecisionInvariant'
<1> DEFINE t == req[q].target
<1>0. /\ t \in Users /\ req[q].role \in Roles /\ members \in [Users -> Roles \cup {None}]
      /\ None # "owner"
  BY TeamAssumption DEF TypeOK, Join, ReqOK, TeamAssumption, Roles
<1>1. /\ \A u \in Users \ {t} : members'[u] = members[u]
      /\ members[t] # None => members'[t] = members[t]
      /\ members' \in [Users -> Roles \cup {None}]
  BY <1>0 DEF Join, JoinedAs
<1>2. Owners \subseteq Owners'
  BY <1>0, <1>1 DEF Owners
<1>3. EndsOvertaking(q, Joining(q)) /\ raced' = raced
  BY DEF Join
<1> QED BY <1>1, <1>2, <1>3, OvertakingMoves

LEMMA HandleMoves ==
    ASSUME TypeOK, DecisionInvariant, NEW q \in Requests, Handle(q)
    PROVE  DecisionInvariant'
<1> USE DEF team
<1>0. ReqOK(req[q]) /\ req[q] \in ReqType
  BY DEF TypeOK
<1>1. ASSUME Ends(q), UNCHANGED <<members, raced>> PROVE DecisionInvariant'
  BY <1>1, EndMoves
<1>2. ASSUME NEW label \in {"duplicate", "insert", "count"}, Goto(q, label), UNCHANGED <<members, raced>>
      PROVE  DecisionInvariant'
  <2>1. SafeToDemote([req[q] EXCEPT !.pc = label])
    BY <1>0, <1>2 DEF SafeToDemote, Committed, ReqType
  <2> QED BY <1>2, <2>1, GotoMoves DEF Labels
<1>3. ASSUME req[q].op \in Decisions, Goto(q, "write"), UNCHANGED <<members, raced>>,
             members[req[q].target] # "owner" \/ Owners \ {req[q].target} # {}
      PROVE  DecisionInvariant'
  <2>1. SafeToDemote([req[q] EXCEPT !.pc = "write"])
    BY <1>0, <1>3 DEF SafeToDemote, ReqType
  <2>2. req[q].target \in Users
    BY <1>0, <1>3 DEF ReqOK
  <2> QED BY <1>3, <2>1, <2>2, GotoMoves DEF Labels
<1>4. CASE CheckMember(q)
  BY <1>1, <1>2, <1>4 DEF CheckMember
<1>5. CASE CheckDuplicate(q)
  BY <1>1, <1>2, <1>5 DEF CheckDuplicate
<1>6. CASE InsertInvite(q) \/ ResendInvite(q) \/ StopRequest(q)
  BY <1>1, <1>6 DEF InsertInvite, ResendInvite, StopRequest
<1>13. CASE CancelInvite(q)
  <2>1. raced' = raced /\ Owners' = Owners /\ members' \in [Users -> Roles \cup {None}]
    BY <1>13 DEF CancelInvite, Owners, TypeOK
  <2> QED BY <1>1, <1>13, <2>1, OvertakingMoves DEF CancelInvite
<1>7. CASE ReadRole(q)
  BY <1>0, <1>2, <1>3, <1>7 DEF ReadRole, ReqOK
<1>8. CASE CountOwners(q)
  BY <1>0, <1>1, <1>3, <1>8, Spare DEF CountOwners, ReqOK
<1>9. CASE CountFirst(q)
  <2> DEFINE x == [req[q] EXCEPT !.pc = "readAfter", !.sole = ~OwnerToSpare]
  <2>1. /\ x \in ReqType /\ x.target = req[q].target
        /\ x.pc = "readAfter" /\ x.sole = ~OwnerToSpare
    BY <1>0 DEF ReqType, Labels, OwnerToSpare
  <2>2. ReqBecomes(q, x) /\ UNCHANGED <<members, raced>> /\ req[q].target \in Users
    BY <1>0, <1>9 DEF CountFirst, ReqOK
  <2> HIDE DEF x
  <2>3. SafeToDemote(x)
    BY <2>1, Spare DEF SafeToDemote, Committed
  <2> QED BY <2>1, <2>2, <2>3, StandMoves
<1>10. CASE ReadAfter(q)
  <2> DEFINE x == [req[q] EXCEPT !.pc = "write", !.sole = FALSE]
  <2>1. CASE raced
    BY <1>10, <2>1 DEF ReadAfter, DecisionInvariant
  <2>2. CASE ~raced /\ Ends(q)
    BY <1>1, <1>10, <2>2 DEF ReadAfter
  <2>3. CASE ~raced /\ ReqBecomes(q, x) /\ ~(members[req[q].target] = "owner" /\ req[q].sole)
    <3>1. /\ x \in ReqType /\ x.pc = "write" /\ x.target = req[q].target
          /\ x.overtaken = req[q].overtaken
      BY <1>0 DEF ReqType, Labels
    <3>2. req[q].target \in Users /\ UNCHANGED <<members, raced>>
      BY <1>0, <1>10 DEF ReadAfter, ReqOK
    <3>3. SafeToDemote(req[q])
      BY <2>3 DEF DecisionInvariant
    <3>4. ReqBecomes(q, x)
      BY <2>3
    <3> HIDE DEF x
    <3>5. SafeToDemote(x)
      BY <1>10, <2>3, <3>1, <3>3 DEF ReadAfter, SafeToDemote, Committed
    <3> QED BY <3>1, <3>2, <3>4, <3>5, StandMoves
  <2> QED BY <1>10, <2>1, <2>2, <2>3 DEF ReadAfter
<1>11. CASE WriteMember(q)
  BY <1>11, WriteMoves
<1>12. CASE Join(q)
  BY <1>12, JoinMoves
<1> QED BY <1>4, <1>5, <1>6, <1>7, <1>8, <1>9, <1>10, <1>11, <1>12, <1>13 DEF Handle

\* The decision invariant of the proof.
THEOREM Decided == Spec => []DecisionInvariant
<1>1. Init => DecisionInvariant
  <2> SUFFICES ASSUME Init PROVE DecisionInvariant
    OBVIOUS
  <2>1. \A p \in Requests : req[p] = IdleReq
    BY DEF Init
  <2>2. \A p \in Requests : SafeToDemote(req[p])
    BY <2>1, IdleSafe
  <2>3. Founder \in Owners
    BY TeamAssumption DEF TeamAssumption, Init, Owners
  <2> QED BY <2>2, <2>3 DEF DecisionInvariant, OwnerRemains
<1>2. TypeOK /\ DecisionInvariant /\ [Next]_vars => DecisionInvariant'
  <2> SUFFICES ASSUME TypeOK, DecisionInvariant, [Next]_vars PROVE DecisionInvariant'
    OBVIOUS
  <2>1. CASE Next
    <3>1. ASSUME NEW i \in Invites, Expire(i) PROVE DecisionInvariant'
      BY <3>1
      DEF Expire, DecisionInvariant, OwnerRemains, SafeToDemote, Committed, Demotes, Owners
    <3> QED BY <2>1, <3>1, HandleMoves, ManageMoves, AcceptMoves DEF Next
  <2>2. CASE UNCHANGED vars
    BY <2>2
    DEF vars, DecisionInvariant, OwnerRemains, SafeToDemote, Committed, Demotes, Owners
  <2> QED BY <2>1, <2>2
<1> QED BY <1>1, <1>2, TypeCorrect, PTL DEF Spec

\* However many requests are in progress, and whatever invitations, acceptances,
\* role changes and removals they carry out, the workspace keeps an owner until a
\* decision is written that another one overtook between its check and its write.
THEOREM OwnerStays == Spec => []OwnerRemainsUnlessRaced
<1>1. DecisionInvariant => OwnerRemainsUnlessRaced
  BY DEF DecisionInvariant, OwnerRemainsUnlessRaced
<1> QED BY <1>1, Decided, PTL

-----------------------------------------------------------------------------
(* An invitation grants once.  An acceptance reads its invitation before   *)
(* the transaction that uses it; whatever spends the invitation in between *)
(* overtakes it.                                                           *)

\* No invitation is accepted, cancelled or forgotten by the step.
RowsStand ==
    \A i \in Invites : invites[i] # None => /\ invites'[i] # None
                                            /\ invites'[i].accepted = invites[i].accepted
                                            /\ invites'[i].cancelled = invites[i].cancelled

LEMMA GrantsMove ==
    ASSUME TypeOK, GrantInvariant, NEW q \in Requests, NEW x, ReqBecomes(q, x),
           RowsStand, UNCHANGED <<grants, crossed>>,
           x.pc = "join" => x.invite \in Invites /\ Open(x.invite)
    PROVE  GrantInvariant'
<1>1. req'[q] = x /\ \A p \in Requests \ {q} : req'[p] = req[p]
  BY ReqBecomesOne DEF TypeOK
<1>2. ASSUME NEW p \in Requests, req'[p].pc = "join", ~req'[p].overtaken PROVE Open(req[p].invite)'
  <2>1. req'[p].invite \in Invites /\ Open(req'[p].invite)
    <3>1. CASE p = q
      <4>1. req'[p] = x
        BY <1>1, <3>1
      <4> QED BY <1>2, <4>1 DEF Open, Spent
    <3>2. CASE p # q
      <4>1. req'[p] = req[p] /\ ReqOK(req[p])
        BY <1>1, <3>2 DEF TypeOK
      <4> QED BY <1>2, <4>1 DEF ReqOK, Answers, GrantInvariant
    <3> QED BY <3>1, <3>2
  <2> QED BY <2>1 DEF Open, Spent, RowsStand
<1>3. \A i \in Invites \ crossed' :
        grants'[i] <= 1 /\ (grants'[i] > 0 =>
                              /\ invites'[i] # None
                              /\ invites'[i].accepted /\ ~invites'[i].cancelled)
  BY DEF GrantInvariant, RowsStand
<1> QED BY <1>2, <1>3 DEF GrantInvariant

LEMMA EndGrants ==
    ASSUME TypeOK, GrantInvariant, NEW q \in Requests, Ends(q),
           RowsStand, UNCHANGED <<grants, crossed>>
    PROVE  GrantInvariant'
<1>1. IdleReq.pc # "join"
  BY DEF IdleReq
<1> QED BY <1>1, GrantsMove DEF Ends

LEMMA BeginGrants ==
    ASSUME TypeOK, GrantInvariant, NEW q \in Requests, NEW op \in Operations,
           NEW label \in Labels \ {"join"}, NEW caller \in Users, NEW state \in ReqType,
           Begin(q, op, label, caller, state)
    PROVE  GrantInvariant'
<1> DEFINE x == [state EXCEPT !.pc = label, !.op = op]
<1>1. x.pc = label
  BY DEF ReqType
<1>2. ReqBecomes(q, x) /\ RowsStand /\ UNCHANGED <<grants, crossed>>
  BY DEF Begin, RowsStand, team
<1> HIDE DEF x
<1> QED BY <1>1, <1>2, GrantsMove

LEMMA ManageGrants ==
    ASSUME TypeOK, GrantInvariant, NEW q \in Requests, NEW caller \in Users,
           Manage(q, caller)
    PROVE  GrantInvariant'
<1> USE TeamAssumption DEF TeamAssumption, IdleReq, ReqType, Labels, Roles, Decisions, Answers, Operations
<1>1. ASSUME NEW u \in Users, NEW role \in Roles, BeginSend(q, caller, u, role)
      PROVE  GrantInvariant'
  BY <1>1, BeginGrants DEF BeginSend
<1>2. ASSUME NEW u \in Users, NEW role \in Roles, BeginRole(q, caller, u, role)
      PROVE  GrantInvariant'
  BY <1>2, BeginGrants DEF BeginRole
<1>3. ASSUME NEW u \in Users, BeginRemove(q, caller, u) PROVE GrantInvariant'
  BY <1>3, BeginGrants DEF BeginRemove
<1>4. ASSUME NEW u \in Users, BeginRemoveByCount(q, caller, u) PROVE GrantInvariant'
  BY <1>4, BeginGrants DEF BeginRemoveByCount
<1>5. ASSUME NEW i \in Invites, BeginResend(q, caller, i) PROVE GrantInvariant'
  BY <1>5, BeginGrants DEF BeginResend
<1>6. ASSUME NEW i \in Invites, BeginCancel(q, caller, i) PROVE GrantInvariant'
  BY <1>6, BeginGrants DEF BeginCancel
<1> QED BY <1>1, <1>2, <1>3, <1>4, <1>5, <1>6 DEF Manage

\* The invitation of q is spent: whoever is still to join without having been
\* overtaken holds another one.
LEMMA OthersJoinElsewhere ==
    ASSUME TypeOK, GrantInvariant, NEW q \in Requests, EndsOvertaking(q, Joining(q)),
           NEW p \in Requests, req'[p].pc = "join", ~req'[p].overtaken
    PROVE  /\ req'[p] = req[p] /\ req[p].invite \in Invites
           /\ Open(req[p].invite) /\ req[p].invite # req[q].invite
<1>1. CASE req'[p] = IdleReq
  BY <1>1 DEF IdleReq
<1>2. CASE req'[p] = [req[p] EXCEPT !.overtaken = TRUE]
  BY <1>2 DEF TypeOK, ReqType
<1>3. CASE p # q /\ p \notin Joining(q) /\ req'[p] = req[p]
  <2>1. ReqOK(req[p])
    BY DEF TypeOK
  <2> QED BY <1>3, <2>1 DEF Joining, GrantInvariant, ReqOK, Answers
<1> QED BY <1>1, <1>2, <1>3 DEF EndsOvertaking

\* An open invitation that nobody crossed has made no membership.
LEMMA OpenUnused ==
    ASSUME TypeOK, GrantInvariant, NEW i \in Invites \ crossed, Open(i)
    PROVE  grants[i] = 0
  BY DEF TypeOK, GrantInvariant, Open, Spent

LEMMA CancelGrants ==
    ASSUME TypeOK, GrantInvariant, NEW q \in Requests, CancelInvite(q)
    PROVE  GrantInvariant'
<1> DEFINE i == req[q].invite
<1>1. i \in Invites /\ UNCHANGED <<grants, crossed>>
  BY DEF TypeOK, ReqOK, CancelInvite, Answers
<1>2. CASE Cancellable(i)
  <2>1. EndsOvertaking(q, Joining(q)) /\ \A j \in Invites \ {i} : invites'[j] = invites[j]
    BY <1>2 DEF CancelInvite, InviteSet, TypeOK
  <2>2. ASSUME NEW p \in Requests, req'[p].pc = "join", ~req'[p].overtaken
        PROVE  Open(req[p].invite)'
    <3>1. /\ req'[p] = req[p] /\ req[p].invite \in Invites
          /\ Open(req[p].invite) /\ req[p].invite # i
      BY <2>1, <2>2, OthersJoinElsewhere
    <3> QED BY <2>1, <3>1 DEF Open, Spent
  <2>3. i \in Invites \ crossed => grants[i] = 0
    BY <1>2, OpenUnused DEF Cancellable
  <2>4. \A j \in Invites \ crossed' :
          grants'[j] <= 1 /\ (grants'[j] > 0 =>
                                /\ invites'[j] # None
                                /\ invites'[j].accepted /\ ~invites'[j].cancelled)
    BY <1>1, <2>1, <2>3 DEF GrantInvariant
  <2> QED BY <2>2, <2>4 DEF GrantInvariant
<1>3. CASE ~Cancellable(i)
  <2>1. Ends(q) /\ RowsStand
    BY <1>3 DEF CancelInvite, RowsStand
  <2> QED BY <1>1, <2>1, EndGrants
<1> QED BY <1>2, <1>3

LEMMA JoinGrants ==
    ASSUME TypeOK, GrantInvariant, NEW q \in Requests, Join(q)
    PROVE  GrantInvariant'
<1> DEFINE i == req[q].invite
           row == [invites[i] EXCEPT !.accepted = TRUE]
<1>1. i \in Invites /\ EndsOvertaking(q, Joining(q)) /\ invites[i] \in InviteRow
  BY DEF TypeOK, ReqOK, Join, Answers
<1>2. row \in InviteRow /\ row.accepted /\ row.cancelled = invites[i].cancelled
  BY <1>1 DEF InviteRow
<1>3. invites'[i] = row /\ \A j \in Invites \ {i} : invites'[j] = invites[j]
  BY <1>1, <1>2, InviteSetOne DEF TypeOK, Join
<1>4. row # None
  BY <1>2, RowNotNone
<1>5. crossed \subseteq crossed' /\ (req[q].overtaken => i \in crossed')
  BY DEF Join
<1>6. ~req[q].overtaken => Open(i)
  BY DEF Join, GrantInvariant
<1>7. \A j \in Invites \ {i} : grants'[j] = grants[j]
  BY <1>1 DEF Join, TypeOK
<1>8. grants'[i] = grants[i] \/ grants'[i] = grants[i] + 1
  BY <1>1 DEF Join, TypeOK
<1> HIDE DEF row
<1>9. ASSUME NEW p \in Requests, req'[p].pc = "join", ~req'[p].overtaken
      PROVE  Open(req[p].invite)'
  <2>1. /\ req'[p] = req[p] /\ req[p].invite \in Invites
        /\ Open(req[p].invite) /\ req[p].invite # i
    BY <1>1, <1>9, OthersJoinElsewhere
  <2> QED BY <1>3, <2>1 DEF Open, Spent
<1>10. ASSUME NEW j \in Invites \ crossed'
       PROVE  grants'[j] <= 1 /\ (grants'[j] > 0 =>
                                    /\ invites'[j] # None
                                    /\ invites'[j].accepted /\ ~invites'[j].cancelled)
  <2>1. CASE j = i
    <3>1. Open(i) /\ i \in Invites \ crossed
      BY <1>1, <1>5, <1>6, <1>10, <2>1
    <3>2. grants[i] = 0 /\ ~invites[i].cancelled
      BY <3>1, OpenUnused DEF Open, Spent
    <3> QED BY <1>2, <1>3, <1>4, <1>8, <2>1, <3>2
  <2>2. CASE j # i
    BY <1>3, <1>5, <1>7, <2>2 DEF GrantInvariant
  <2> QED BY <2>1, <2>2
<1> QED BY <1>9, <1>10 DEF GrantInvariant

LEMMA HandleGrants ==
    ASSUME TypeOK, GrantInvariant, NEW q \in Requests, Handle(q)
    PROVE  GrantInvariant'
<1> USE DEF team
<1>0. ReqOK(req[q]) /\ req[q] \in ReqType
  BY DEF TypeOK
<1>1. ASSUME Ends(q), UNCHANGED <<invites, grants, crossed>> PROVE GrantInvariant'
  BY <1>1, EndGrants DEF RowsStand
<1>2. ASSUME NEW x, ReqBecomes(q, x), x.pc # "join", UNCHANGED <<invites, grants, crossed>>
      PROVE  GrantInvariant'
  BY <1>2, GrantsMove DEF RowsStand
<1>3. ASSUME NEW label \in {"duplicate", "insert", "count", "write"}, Goto(q, label),
             UNCHANGED <<invites, grants, crossed>>
      PROVE  GrantInvariant'
  <2> DEFINE x == [req[q] EXCEPT !.pc = label]
  <2>1. ReqBecomes(q, x) /\ x.pc # "join"
    BY <1>0, <1>3 DEF Goto, ReqType
  <2> HIDE DEF x
  <2> QED BY <1>2, <1>3, <2>1
<1>4. CASE CheckMember(q) \/ CheckDuplicate(q) \/ ReadRole(q) \/ CountOwners(q)
  BY <1>1, <1>3, <1>4 DEF CheckMember, CheckDuplicate, ReadRole, CountOwners
<1>5. CASE InsertInvite(q)
  <2>1. PICK i \in Invites : invites[i] = None /\ invites' = InviteSet(i, NewInvite(q))
    BY <1>5 DEF InsertInvite
  <2>2. RowsStand
    BY <2>1 DEF RowsStand, InviteSet, TypeOK
  <2> QED BY <1>5, <2>2, EndGrants DEF InsertInvite
<1>6. CASE ResendInvite(q)
  <2>1. req[q].invite \in Invites
    BY <1>0, <1>6 DEF ReqOK, ResendInvite
  <2>2. CASE Open(req[q].invite)
    <3> DEFINE i == req[q].invite
               row == [invites[i] EXCEPT !.expired = FALSE]
    <3>1. /\ row \in InviteRow
          /\ row.accepted = invites[i].accepted /\ row.cancelled = invites[i].cancelled
      BY <2>1, <2>2 DEF TypeOK, Open, InviteRow
    <3>2. invites'[i] = row /\ \A j \in Invites \ {i} : invites'[j] = invites[j]
      BY <1>6, <2>1, <2>2, <3>1, InviteSetOne DEF TypeOK, ResendInvite
    <3>3. row # None
      BY <3>1, RowNotNone
    <3> HIDE DEF row
    <3>4. RowsStand
      BY <3>1, <3>2, <3>3 DEF RowsStand
    <3> QED BY <1>6, <3>4, EndGrants DEF ResendInvite
  <2>3. CASE ~Open(req[q].invite)
    BY <1>1, <1>6, <2>3 DEF ResendInvite
  <2> QED BY <2>2, <2>3
<1>7. CASE CancelInvite(q)
  BY <1>7, CancelGrants
<1>8. CASE CountFirst(q)
  <2> DEFINE x == [req[q] EXCEPT !.pc = "readAfter", !.sole = ~OwnerToSpare]
  <2>1. ReqBecomes(q, x) /\ x.pc # "join"
    BY <1>0, <1>8 DEF CountFirst, ReqType
  <2> HIDE DEF x
  <2> QED BY <1>2, <1>8, <2>1 DEF CountFirst
<1>9. CASE ReadAfter(q)
  <2> DEFINE x == [req[q] EXCEPT !.pc = "write", !.sole = FALSE]
  <2>1. x.pc # "join" /\ (Ends(q) \/ ReqBecomes(q, x))
    BY <1>0, <1>9 DEF ReadAfter, ReqType
  <2> HIDE DEF x
  <2> QED BY <1>1, <1>2, <1>9, <2>1 DEF ReadAfter
<1>10. CASE WriteMember(q)
  <2>1. EndsOvertaking(q, Deciding(q)) /\ UNCHANGED <<invites, grants, crossed>>
    BY <1>10 DEF WriteMember
  <2>2. ASSUME NEW p \in Requests, req'[p].pc = "join", ~req'[p].overtaken
        PROVE  Open(req[p].invite)'
    <3>1. CASE req'[p] = IdleReq
      BY <2>2, <3>1 DEF IdleReq
    <3>2. CASE req'[p] = [req[p] EXCEPT !.overtaken = TRUE]
      BY <2>2, <3>2 DEF TypeOK, ReqType
    <3>3. CASE req'[p] = req[p]
      BY <2>1, <2>2, <3>3 DEF GrantInvariant, Open, Spent
    <3> QED BY <2>1, <3>1, <3>2, <3>3 DEF EndsOvertaking
  <2> QED BY <2>1, <2>2 DEF GrantInvariant
<1>11. CASE StopRequest(q)
  BY <1>1, <1>11 DEF StopRequest
<1>12. CASE Join(q)
  BY <1>12, JoinGrants
<1> QED BY <1>4, <1>5, <1>6, <1>7, <1>8, <1>9, <1>10, <1>11, <1>12 DEF Handle

LEMMA AcceptGrants ==
    ASSUME TypeOK, GrantInvariant, NEW q \in Requests, NEW u \in Users,
           NEW i \in Invites, BeginAccept(q, u, i)
    PROVE  GrantInvariant'
<1> DEFINE x == [IdleReq EXCEPT !.pc = "join", !.op = "accept", !.target = u,
                                !.role = invites[i].role, !.invite = i]
<1>1. ReqBecomes(q, x) /\ x.invite = i
  BY DEF BeginAccept, IdleReq
<1>2. Open(i) /\ RowsStand /\ UNCHANGED <<grants, crossed>>
  BY DEF BeginAccept, Acceptable, Open, RowsStand, team
<1> HIDE DEF x
<1> QED BY <1>1, <1>2, GrantsMove

LEMMA ExpireGrants ==
    ASSUME TypeOK, GrantInvariant, NEW i \in Invites, Expire(i)
    PROVE  GrantInvariant'
<1> DEFINE row == [invites[i] EXCEPT !.expired = TRUE]
<1>1. /\ row \in InviteRow
      /\ row.accepted = invites[i].accepted /\ row.cancelled = invites[i].cancelled
  BY DEF TypeOK, Expire, Open, InviteRow
<1>2. invites'[i] = row /\ \A j \in Invites \ {i} : invites'[j] = invites[j]
  BY <1>1, InviteSetOne DEF TypeOK, Expire
<1>3. row # None
  BY <1>1, RowNotNone
<1> HIDE DEF row
<1>4. RowsStand
  BY <1>1, <1>2, <1>3 DEF RowsStand
<1>5. UNCHANGED <<req, grants, crossed>>
  BY DEF Expire
<1>6. \A p \in Requests : req[p].pc = "join" => req[p].invite \in Invites
  BY DEF TypeOK, ReqOK, Answers
<1> QED BY <1>4, <1>5, <1>6 DEF GrantInvariant, RowsStand, Open, Spent

\* However many acceptances and cancellations are in progress, an invitation makes
\* at most one membership, and none once it is cancelled, unless it was accepted or
\* cancelled between the check of another acceptance and its transaction.
THEOREM InviteGrants == Spec => []InviteGrantsOnce
<1>1. Init => GrantInvariant
  <2> SUFFICES ASSUME Init PROVE GrantInvariant
    OBVIOUS
  <2>1. \A p \in Requests : req[p].pc # "join"
    BY DEF Init, IdleReq
  <2> QED BY <2>1 DEF Init, GrantInvariant
<1>2. TypeOK /\ GrantInvariant /\ [Next]_vars => GrantInvariant'
  <2> SUFFICES ASSUME TypeOK, GrantInvariant, [Next]_vars PROVE GrantInvariant'
    OBVIOUS
  <2>1. CASE Next
    BY <2>1, HandleGrants, ManageGrants, AcceptGrants, ExpireGrants DEF Next
  <2>2. CASE UNCHANGED vars
    BY <2>2 DEF vars, GrantInvariant, Open, Spent
  <2> QED BY <2>1, <2>2
<1>3. TypeOK /\ GrantInvariant => InviteGrantsOnce
  BY DEF TypeOK, GrantInvariant, InviteGrantsOnce
<1> QED BY <1>1, <1>2, <1>3, TypeCorrect, PTL DEF Spec

-----------------------------------------------------------------------------
(* An acceptance never changes a standing role.                            *)

\* A member's role changes only where a decision writes it, for any number of
\* concurrent requests.
THEOREM RolesKept == Spec => StandingRolesKept
<1> DEFINE Kept == \A u \in Users :
                     members[u] # None /\ members'[u] # members[u] =>
                        \E q \in Requests : req[q].pc = "write" /\ req[q].target = u /\ req'[q] = IdleReq
<1>1. TypeOK /\ [Next]_vars => [Kept]_vars
  <2> SUFFICES ASSUME TypeOK, Next, NEW u \in Users,
                      members[u] # None, members'[u] # members[u]
               PROVE  \E q \in Requests : req[q].pc = "write" /\ req[q].target = u /\ req'[q] = IdleReq
    OBVIOUS
  <2>1. PICK q \in Requests : WriteMember(q) \/ Join(q)
    BY DEF Next, Handle, Manage, Expire, BeginSend, BeginRole, BeginRemove, BeginRemoveByCount,
           BeginResend, BeginCancel, Begin, BeginAccept, CheckMember, CheckDuplicate, InsertInvite,
           ResendInvite, CancelInvite, ReadRole, CountOwners, CountFirst, ReadAfter, StopRequest, team
  <2>2. CASE WriteMember(q)
    <3>1. req[q].target = u
      BY <2>2 DEF TypeOK, WriteMember
    <3>2. req'[q] = IdleReq
      BY <2>2 DEF WriteMember, EndsOvertaking
    <3> QED BY <2>2, <3>1, <3>2 DEF WriteMember
  <2>3. CASE Join(q)
    BY <2>3 DEF TypeOK, Join, JoinedAs
  <2> QED BY <2>1, <2>2, <2>3
<1> QED BY <1>1, TypeCorrect, PTL DEF Spec, StandingRolesKept
=============================================================================
