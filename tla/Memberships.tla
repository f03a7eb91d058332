---------------------------- MODULE Memberships ----------------------------
(***************************************************************************)
(* The members of an organisation, the roles a manager gives them and the  *)
(* requests they have in flight.  A request carries the capabilities its   *)
(* member had when it was authenticated: the handler looks at those, not   *)
(* at the rows, so a role taken away meanwhile still counts for it.        *)
(*                                                                         *)
(* Of the roles only the two that concern content are kept, both scoped to *)
(* the organisation: educator stands for every role that may write.  A     *)
(* member with neither has other roles.  Left out: who manages members,    *)
(* branches, the lock_version of a membership, the system administrator.   *)
(***************************************************************************)
EXTENDS Naturals, FiniteSets

CONSTANTS
    Members,        \* memberships
    Educators,      \* those that hold educator at the beginning
    Approvers,      \* those that hold content_approver at the beginning
    Newcomers,      \* those that are invited later
    Grants,         \* the sets of roles a manager gives
    InFlight,       \* bound on requests in flight at once
    MaxChanges      \* bound on what managers change later: members, roles, flags

ASSUME MembershipsAssumption ==
    /\ IsFiniteSet(Members)
    /\ {Educators, Approvers, Newcomers} \subseteq SUBSET Members
    /\ {InFlight, MaxChanges} \subseteq Nat

\* educator brings content:write, content_approver brings content:approve.
Roles == {"educator", "content_approver"}
AccountStatus == {"none", "invited", "active", "suspended"}

VARIABLES
    account,    \* member -> status of the membership and its user
    roles,      \* member -> role_assignments
    busy,       \* members with a request in flight
    caps,       \* member -> the roles in the context of that request
    changes     \* managers' changes so far

memberVars == <<account, roles, busy, caps, changes>>

MembersTypeOK ==
    /\ account \in [Members -> AccountStatus]
    /\ {roles, caps} \subseteq [Members -> SUBSET Roles]
    /\ busy \subseteq Members
    /\ changes \in 0..MaxChanges

MembersInit ==
    /\ account = [m \in Members |-> IF m \in Newcomers THEN "none" ELSE "active"]
    /\ roles = [m \in Members |->
           {r \in Roles: \/ r = "educator" /\ m \in Educators \ Newcomers
                         \/ r = "content_approver" /\ m \in Approvers \ Newcomers}]
    /\ busy = {}
    /\ caps = [m \in Members |-> {}]
    /\ changes = 0

Change == changes < MaxChanges /\ changes' = changes + 1

\* inviteUser: the membership and its roles.
InviteUser(m, granted) ==
    /\ account[m] = "none"
    /\ account' = [account EXCEPT ![m] = "invited"]
    /\ roles' = [roles EXCEPT ![m] = granted]
    /\ UNCHANGED <<busy, caps, changes>>

\* authenticate binds the first login with a verified address that was invited.
BindInvitation(m) ==
    /\ account[m] = "invited"
    /\ account' = [account EXCEPT ![m] = "active"]
    /\ UNCHANGED <<roles, busy, caps, changes>>

\* membershipContext finds the rows of active members only, and
\* normalizeContext makes the capabilities of the request out of them.
Active(m) == account[m] = "active"
ContextOf(m) == roles[m]

\* authenticate: the context of a request is read once.
Authenticate(m) ==
    /\ Active(m)
    /\ m \notin busy
    /\ Cardinality(busy) < InFlight
    /\ busy' = busy \cup {m}
    /\ caps' = [caps EXCEPT ![m] = ContextOf(m)]
    /\ UNCHANGED <<account, roles, changes>>

\* The request is answered; nothing of its context is kept.
Answered(m) ==
    /\ busy' = busy \ {m}
    /\ caps' = [caps EXCEPT ![m] = {}]
    /\ UNCHANGED <<account, roles, changes>>

\* assertManagedMembership: the member exists.
Manageable(m) == account[m] # "none"

\* updateUser suspends a member, or takes one back.
UpdateUser(m) ==
    /\ Manageable(m) /\ account[m] # "invited"
    /\ Change
    /\ account' = [account EXCEPT ![m] = IF @ = "active" THEN "suspended" ELSE "active"]
    /\ UNCHANGED <<roles, busy, caps>>

\* replaceRoles deletes the assignments and inserts others.
ReplaceRoles(m, granted) ==
    /\ Manageable(m)
    /\ granted # roles[m]
    /\ Change
    /\ roles' = [roles EXCEPT ![m] = granted]
    /\ UNCHANGED <<account, busy, caps>>

\* requireOrganizationCapability, on the context of the request.
Holds(m, role) == m \in busy /\ role \in caps[m]

MemberSteps ==
    \E m \in Members:
        \/ BindInvitation(m) \/ Authenticate(m) \/ UpdateUser(m)
        \/ \E granted \in Grants: InviteUser(m, granted) \/ ReplaceRoles(m, granted)
=============================================================================
