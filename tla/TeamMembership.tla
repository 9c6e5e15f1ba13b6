--------------------------- MODULE TeamMembership ---------------------------
(***************************************************************************)
(* The team of one seller workspace: its members and its invitations       *)
(* (crates/api/src/workspace/invites.rs and routes.rs).                    *)
(*                                                                         *)
(* Every handler checks that its caller is an owner, reads what it needs   *)
(* and writes, in statements of their own; requests in progress interleave *)
(* between them.  Only accept_invite uses a transaction.  Emails are       *)
(* lower-cased on both sides, so an invitation is addressed to an account. *)
(***************************************************************************)
EXTENDS Integers, FiniteSets

CONSTANTS
    Users,       \* accounts
    Founder,     \* the account that created the workspace
    Invites,     \* bound: the rows of workspace_invites that can be made
    Requests,    \* requests in progress at once
    None         \* SQL NULL, "no row"

Roles == {"owner", "staff"}
Decisions == {"role", "remove"}
Answers == {"accept", "cancel"}
Operations == {"send", "resend"} \cup Decisions \cup Answers

InviteRow == [email : Users, role : Roles, expired : BOOLEAN, accepted : BOOLEAN,
              cancelled : BOOLEAN]

ASSUME TeamAssumption ==
    /\ Founder \in Users
    /\ None \notin Roles \cup Users \cup Invites \cup Operations \cup InviteRow
    /\ IsFiniteSet(Users)

VARIABLES
    members,  \* workspace_members: the role of each member
    invites,  \* rows of workspace_invites
    req,      \* the program state of each request
    grants,   \* history: memberships that each invitation has made
    raced,    \* history: an overtaken decision has been written
    crossed   \* history: invitations that an overtaken acceptance has used

vars == <<members, invites, req, grants, raced, crossed>>

IdleReq == [pc |-> "idle", op |-> None, target |-> None, role |-> None,
            invite |-> None, sole |-> FALSE,
            overtaken |-> FALSE] \* history: see EndsOvertaking

Owners == {u \in Users : members[u] = "owner"}
Spent(i) == invites[i].accepted \/ invites[i].cancelled
Open(i) == invites[i] # None /\ ~Spent(i)

Init ==
    /\ members = [u \in Users |-> IF u = Founder THEN "owner" ELSE None]
    /\ invites = [i \in Invites |-> None]
    /\ req = [q \in Requests |-> IdleReq]
    /\ grants = [i \in Invites |-> 0]
    /\ raced = FALSE
    /\ crossed = {}

ReqBecomes(q, state) == req' = [req EXCEPT ![q] = state]
Goto(q, label) == ReqBecomes(q, [req[q] EXCEPT !.pc = label])
Ends(q) == ReqBecomes(q, IdleReq)
\* The request ends with a write that outdates what the requests in others have
\* read and not acted on yet.
EndsOvertaking(q, others) ==
    req' = [p \in Requests |->
              CASE p = q -> IdleReq
                [] p # q /\ p \in others -> [req[p] EXCEPT !.overtaken = TRUE]
                [] OTHER -> req[p]]
InviteSet(i, row) == [invites EXCEPT ![i] = row]

team == <<members, invites, grants, raced, crossed>>

-----------------------------------------------------------------------------
(* require_owner, and AuthContext::require_owner for the second handler    *)
(* that removes members: the role is read from the table, not the token.   *)

IsOwner(u) == members[u] = "owner"

Begin(q, op, label, caller, state) ==
    /\ req[q].pc = "idle"
    /\ IsOwner(caller)
    /\ ReqBecomes(q, [state EXCEPT !.pc = label, !.op = op])
    /\ UNCHANGED team

-----------------------------------------------------------------------------
(* send_invite *)

BeginSend(q, caller, email, role) ==
    Begin(q, "send", "member", caller, [IdleReq EXCEPT !.target = email, !.role = role])

CheckMember(q) ==
    /\ req[q].pc = "member"
    /\ IF members[req[q].target] # None THEN Ends(q) ELSE Goto(q, "duplicate")
    /\ UNCHANGED team

CheckDuplicate(q) ==
    /\ req[q].pc = "duplicate"
    /\ IF \E i \in Invites : /\ Open(i) /\ invites[i].email = req[q].target
                             /\ ~invites[i].expired
       THEN Ends(q) ELSE Goto(q, "insert")
    /\ UNCHANGED team

NewInvite(q) == [email |-> req[q].target, role |-> req[q].role, expired |-> FALSE,
                 accepted |-> FALSE, cancelled |-> FALSE]

InsertInvite(q) ==
    /\ req[q].pc = "insert"
    /\ \E i \in Invites :
         /\ invites[i] = None
         /\ invites' = InviteSet(i, NewInvite(q))
    /\ Ends(q)
    /\ UNCHANGED <<members, grants, raced, crossed>>

-----------------------------------------------------------------------------
(* resend_invite and cancel_invite: one conditional UPDATE each.           *)

BeginResend(q, caller, i) ==
    /\ invites[i] # None
    /\ Begin(q, "resend", "resend", caller, [IdleReq EXCEPT !.invite = i])

ResendInvite(q) ==
    /\ req[q].pc = "resend"
    /\ invites' = IF Open(req[q].invite)
                  THEN InviteSet(req[q].invite, [invites[req[q].invite] EXCEPT !.expired = FALSE])
                  ELSE invites
    /\ Ends(q)
    /\ UNCHANGED <<members, grants, raced, crossed>>

BeginCancel(q, caller, i) ==
    /\ invites[i] # None
    /\ Begin(q, "cancel", "cancel", caller, [IdleReq EXCEPT !.invite = i])

Cancellable(i) == Open(i)

\* Acceptances that have checked the invitation of q.
Joining(q) == {p \in Requests : req[p].pc = "join" /\ req[p].invite = req[q].invite}

CancelInvite(q) ==
    /\ req[q].pc = "cancel"
    /\ IF Cancellable(req[q].invite)
       THEN /\ invites' = InviteSet(req[q].invite, [invites[req[q].invite] EXCEPT !.cancelled = TRUE])
            /\ EndsOvertaking(q, Joining(q))
       ELSE invites' = invites /\ Ends(q)
    /\ UNCHANGED <<members, grants, raced, crossed>>

(* expires_at passes; of an invitation already spent nobody reads it. *)
Expire(i) ==
    /\ Open(i)
    /\ ~invites[i].expired
    /\ invites' = InviteSet(i, [invites[i] EXCEPT !.expired = TRUE])
    /\ UNCHANGED <<members, req, grants, raced, crossed>>

-----------------------------------------------------------------------------
(* change_member_role, and remove_member of invites.rs: the role of the    *)
(* target is read, then the owners are counted, then the row is written.   *)

BeginRole(q, caller, target, role) ==
    Begin(q, "role", IF role = "staff" THEN "read" ELSE "write", caller,
          [IdleReq EXCEPT !.target = target, !.role = role])

BeginRemove(q, caller, target) ==
    Begin(q, "remove", "read", caller, [IdleReq EXCEPT !.target = target])

ReadRole(q) ==
    /\ req[q].pc = "read"
    /\ Goto(q, IF members[req[q].target] = "owner" THEN "count" ELSE "write")
    /\ UNCHANGED team

\* The workspace has an owner to spare.  The mutant is off by one.
OwnerToSpare_OffByOne == Cardinality(Owners) > 0
OwnerToSpare == Cardinality(Owners) > 1

CountOwners(q) ==
    /\ req[q].pc = "count"
    /\ IF OwnerToSpare THEN Goto(q, "write") ELSE Ends(q)
    /\ UNCHANGED team

(* remove_member of routes.rs counts first and reads the role after.       *)
BeginRemoveByCount(q, caller, target) ==
    Begin(q, "remove", "countFirst", caller, [IdleReq EXCEPT !.target = target])

CountFirst(q) ==
    /\ req[q].pc = "countFirst"
    /\ ReqBecomes(q, [req[q] EXCEPT !.pc = "readAfter", !.sole = ~OwnerToSpare])
    /\ UNCHANGED team

ReadAfter(q) ==
    /\ req[q].pc = "readAfter"
    /\ IF members[req[q].target] = "owner" /\ req[q].sole THEN Ends(q)
       ELSE ReqBecomes(q, [req[q] EXCEPT !.pc = "write", !.sole = FALSE])
    /\ UNCHANGED team

Demotes(x) == x.op = "remove" \/ x.role = "staff"

\* When q takes an owner away: the requests that have taken a count or a role
\* as the reason to demote or remove.
Deciding(q) ==
    {p \in Requests : /\ Demotes(req[q]) /\ members[req[q].target] = "owner"
                      /\ Demotes(req[p]) /\ req[p].pc \in {"readAfter", "write"}}

WriteMember(q) ==
    /\ req[q].pc = "write"
    /\ members' = [members EXCEPT ![req[q].target] =
                     IF req[q].op = "role" /\ @ # None THEN req[q].role ELSE None]
    /\ EndsOvertaking(q, Deciding(q))
    /\ raced' = (raced \/ req[q].overtaken)
    /\ UNCHANGED <<invites, grants, crossed>>

-----------------------------------------------------------------------------
(* accept_invite: the row is read and checked, then a transaction inserts  *)
(* the member, if there is none yet, and marks the invitation.             *)

\* The checks on the row that was read.  The mutant forgets accepted_at.
Acceptable_Again(i) == ~invites[i].cancelled /\ ~invites[i].expired
Acceptable(i) == ~Spent(i) /\ ~invites[i].expired

BeginAccept(q, u, i) ==
    /\ req[q].pc = "idle"
    /\ invites[i] # None /\ invites[i].email = u
    /\ Acceptable(i)
    /\ ReqBecomes(q, [IdleReq EXCEPT !.pc = "join", !.op = "accept", !.target = u,
                                     !.role = invites[i].role, !.invite = i])
    /\ UNCHANGED team

\* ON CONFLICT DO NOTHING.
JoinedAs(q) == IF members[req[q].target] = None THEN req[q].role ELSE members[req[q].target]

Join(q) ==
    /\ req[q].pc = "join"
    /\ members' = [members EXCEPT ![req[q].target] = JoinedAs(q)]
    /\ grants' = [grants EXCEPT ![req[q].invite] =
                    IF members[req[q].target] = None THEN @ + 1 ELSE @]
    /\ invites' = InviteSet(req[q].invite, [invites[req[q].invite] EXCEPT !.accepted = TRUE])
    /\ crossed' = IF req[q].overtaken THEN crossed \cup {req[q].invite} ELSE crossed
    /\ EndsOvertaking(q, Joining(q))
    /\ UNCHANGED raced

-----------------------------------------------------------------------------

(* A request ends between two statements: an error, a dropped connection.  *)
StopRequest(q) ==
    /\ req[q].pc # "idle"
    /\ Ends(q)
    /\ UNCHANGED team

Handle(q) ==
    \/ CheckMember(q) \/ CheckDuplicate(q) \/ InsertInvite(q)
    \/ ResendInvite(q) \/ CancelInvite(q)
    \/ ReadRole(q) \/ CountOwners(q) \/ CountFirst(q) \/ ReadAfter(q) \/ WriteMember(q)
    \/ Join(q) \/ StopRequest(q)

Manage(q, caller) ==
    \/ \E u \in Users, role \in Roles : BeginSend(q, caller, u, role) \/ BeginRole(q, caller, u, role)
    \/ \E u \in Users : BeginRemove(q, caller, u) \/ BeginRemoveByCount(q, caller, u)
    \/ \E i \in Invites : BeginResend(q, caller, i) \/ BeginCancel(q, caller, i)

Next ==
    \/ \E q \in Requests : \/ Handle(q)
                           \/ \E caller \in Users : Manage(q, caller)
                           \/ \E u \in Users, i \in Invites : BeginAccept(q, u, i)
    \/ \E i \in Invites : Expire(i)

Spec == Init /\ [][Next]_vars

-----------------------------------------------------------------------------
(* Properties.                                                             *)

Labels == {"idle", "member", "duplicate", "insert", "resend", "cancel", "read", "count",
           "countFirst", "readAfter", "write", "join"}

ReqType == [pc : Labels, op : Operations \cup {None},
            target : Users \cup {None}, role : Roles \cup {None},
            invite : Invites \cup {None}, sole : BOOLEAN, overtaken : BOOLEAN]

\* A request is at a statement of its handler and has what the statement needs.
ReqOK(x) ==
    /\ x \in ReqType
    /\ x.pc = "idle" <=> x.op = None
    /\ x.pc \in {"member", "duplicate", "insert"} => x.op = "send"
    /\ x.pc \in {"resend", "cancel"} => x.op = x.pc
    /\ x.pc = "join" => x.op = "accept"
    /\ x.pc \in {"read", "count", "countFirst", "readAfter", "write"} => x.op \in Decisions
    /\ x.pc \in {"countFirst", "readAfter"} => x.op = "remove"
    /\ x.op \in {"send", "accept"} \cup Decisions => x.target \in Users
    /\ x.op \in {"send", "accept", "role"} => x.role \in Roles
    /\ x.op \in {"resend"} \cup Answers => x.invite \in Invites

\* Rows and requests have their types, and a request that holds an invitation
\* holds one that exists.
TypeOK ==
    /\ members \in [Users -> Roles \cup {None}]
    /\ invites \in [Invites -> InviteRow \cup {None}]
    /\ grants \in [Invites -> Nat]
    /\ raced \in BOOLEAN
    /\ crossed \subseteq Invites
    /\ req \in [Requests -> ReqType]
    /\ \A q \in Requests : /\ ReqOK(req[q])
                           /\ req[q].invite \in Invites => invites[req[q].invite] # None

\* "The last-owner invariant" of the module's first lines: no sequence of
\* invitations, acceptances, role changes and removals leaves the workspace
\* without an owner.
OwnerRemains == Owners # {}

\* As far as the code keeps it: however requests interleave, and in whichever of
\* the two orders a removal reads the role and the count, an owner remains until a
\* decision is written although another one took an owner away between its check
\* and its write.
OwnerRemainsUnlessRaced == raced \/ OwnerRemains

\* What the proof of OwnerRemainsUnlessRaced rests on: a request that is about to
\* demote or remove an owner, and that was not overtaken, has seen that there is
\* another, or that its target was no owner when it looked.
Committed(x) ==
    \/ x.pc = "write" /\ Demotes(x)
    \/ x.pc = "readAfter" /\ ~x.sole

SafeToDemote(x) ==
    Committed(x) /\ ~x.overtaken /\ members[x.target] = "owner" => Owners \ {x.target} # {}

DecisionInvariant ==
    raced \/ (OwnerRemains /\ \A q \in Requests : SafeToDemote(req[q]))

\* An invitation makes at most one membership over its life, even if the member
\* is removed and its link is followed again, and none once it is cancelled,
\* unless it was accepted or cancelled between the check of another acceptance
\* and the transaction of that one.
InviteGrantsOnce ==
    \A i \in Invites \ crossed :
       /\ grants[i] <= 1
       /\ invites[i] # None /\ invites[i].cancelled => grants[i] = 0

\* What its proof rests on: an acceptance that was not overtaken holds an open
\* invitation, and an invitation that has made a membership is accepted.
GrantInvariant ==
  /\ \A q \in Requests : req[q].pc = "join" /\ ~req[q].overtaken => Open(req[q].invite)
  /\ \A i \in Invites \ crossed :
       /\ grants[i] <= 1
       /\ grants[i] > 0 => /\ invites[i] # None
                           /\ invites[i].accepted /\ ~invites[i].cancelled

\* Following an invitation never changes the role of somebody who is a member
\* by then: only a decision of an owner does.
StandingRolesKept ==
    [][\A u \in Users :
         members[u] # None /\ members'[u] # members[u] =>
            \E q \in Requests : req[q].pc = "write" /\ req[q].target = u /\ req'[q] = IdleReq]_vars
=============================================================================
