---------------------------- MODULE TeamInvites ----------------------------
(***************************************************************************)
(* The members of an organization: src/lib/team-invites.ts, the mail       *)
(* behind it (src/lib/team-invite-delivery.ts), and the routes             *)
(* src/app/api/team and src/app/api/team/accept.                           *)
(*                                                                         *)
(* There is one row for an address, reused by every invitation to it.  A   *)
(* request reads the clock first and runs one serializable transaction     *)
(* later: the transaction is a step, in which it compares rows with a time *)
(* that may have passed.  The mail is sent after the transaction, and when *)
(* sending fails a second transaction takes the invitation back.           *)
(***************************************************************************)
EXTENDS Naturals, FiniteSets

CONSTANTS
    Users,       \* people, and their addresses
    Owner,       \* the one who founded the organization
    Requests,    \* requests to the routes under way at a time
    Nobody,      \* the user of no request
    InviteTtl,   \* INVITE_TTL_MS, in units of the clock
    TimeBound,   \* bound: the end of the clock
    TokenBound   \* bound: tokens that are made

ASSUME UsersAssumption == Owner \in Users /\ Nobody \notin Users
ASSUME TimeAssumption  == InviteTtl \in Nat \ {0} /\ TimeBound \in Nat
ASSUME TokenAssumption == TokenBound \in Nat

VARIABLES
    clock,    \* of the web processes
    tokens,   \* how many tokens were made; a token is its number
    invite,   \* table "TeamMemberInvite", by address
    member,   \* table "Membership", by user
    ids,      \* how many memberships were made; an id is its number
    mailbox,  \* tokens that arrived at each address
    request,  \* where each request is
    closed,   \* history: tokens that are not to admit anybody any more
    joins,    \* history: admissions, by whom they were made
    granted   \* history: the roles each membership was given

inviteVars  == <<tokens, invite, mailbox>>
memberVars  == <<member, ids>>
historyVars == <<closed, joins, granted>>
teamVars    == <<clock, inviteVars, memberVars, request, historyVars>>

InviteRoles == {"ADMIN", "VIEWER"}
TeamRoles   == InviteRoles \cup {"OWNER"}
Operations  == {"idle", "create", "resend", "deliver", "undo", "revoke",
                "accept", "change", "remove", "update", "delete"}

NoInvite == [token |-> 0, role |-> "VIEWER", createdAt |-> 0, expiresAt |-> 0,
             accepted |-> FALSE]
NoMember == [id |-> 0, role |-> "VIEWER"]
Idle     == [op |-> "idle", user |-> Nobody, role |-> "VIEWER", now |-> 0,
             token |-> 0, id |-> 0, late |-> FALSE]

TeamInit ==
    /\ clock = 1
    /\ tokens = 0
    /\ invite = [u \in Users |-> NoInvite]
    /\ member = [u \in Users |-> IF u = Owner THEN [id |-> 1, role |-> "OWNER"]
                                              ELSE NoMember]
    /\ ids = 1
    /\ mailbox = [u \in Users |-> {}]
    /\ request = [q \in Requests |-> Idle]
    /\ closed = {}
    /\ joins = {}
    /\ granted = {<<1, "OWNER">>}

-----------------------------------------------------------------------------
(* A request begins: who asks is looked at once, here.                     *)

IsMember(u)  == member[u].id # 0
MayManage(u) == IsMember(u) /\ member[u].role \in {"OWNER", "ADMIN"}

Begin(q, op, user, role, token) ==
    /\ request[q].op = "idle"
    /\ request' = [request EXCEPT ![q] =
          [op |-> op, user |-> user, role |-> role, now |-> clock,
           token |-> token, id |-> 0, late |-> token \in closed]]
    /\ UNCHANGED <<clock, inviteVars, memberVars, historyVars>>

SomebodyElseManages(u) == \E actor \in Users \ {u} : MayManage(actor)
SomebodyManages        == \E actor \in Users : MayManage(actor)

AskToInvite(q, u, role) == SomebodyElseManages(u) /\ Begin(q, "create", u, role, 0)
AskToResend(q, u)       == SomebodyManages /\ Begin(q, "resend", u, "VIEWER", 0)
AskToRevoke(q, u)       == SomebodyManages /\ Begin(q, "revoke", u, "VIEWER", 0)
AskToChange(q, u, role) == SomebodyElseManages(u) /\ Begin(q, "change", u, role, 0)
AskToRemove(q, u)       == SomebodyElseManages(u) /\ Begin(q, "remove", u, "VIEWER", 0)

(* The invited person opens the link of a mail.                            *)
AskToAccept(q, u) ==
    \E token \in mailbox[u] : Begin(q, "accept", u, "VIEWER", token)

Ends(q) == request' = [request EXCEPT ![q] = Idle]

Proceeds(q, op, token, id) ==
    request' = [request EXCEPT ![q] =
        [op |-> op, user |-> request[q].user, role |-> request[q].role,
         now |-> request[q].now, token |-> token, id |-> id,
         late |-> request[q].late]]

-----------------------------------------------------------------------------
(* The transactions of team-invites.ts.                                    *)

Live(u, now) == /\ invite[u].token # 0
                /\ ~invite[u].accepted
                /\ invite[u].expiresAt > now

(* What the row's token was good for ends here.                            *)
Replaces(q, u, role) ==
    /\ tokens < TokenBound
    /\ tokens' = tokens + 1
    /\ invite' = [invite EXCEPT ![u] =
          [token |-> tokens + 1, role |-> role, createdAt |-> request[q].now,
           expiresAt |-> request[q].now + InviteTtl, accepted |-> FALSE]]
    /\ closed' = closed \cup ({invite[u].token} \ {0})
    /\ Proceeds(q, "deliver", tokens + 1, 0)
    /\ UNCHANGED <<clock, mailbox, memberVars, joins, granted>>

(* Refused: already a member, or an invitation is pending.                 *)
Refuses(q) == Ends(q) /\ UNCHANGED <<clock, inviteVars, memberVars, historyVars>>

(* Mutant of CreateTeamInvite: does not look at the memberships.           *)
CreateForAnybody(q) ==
    LET u == request[q].user IN
    /\ request[q].op = "create"
    /\ \/ Live(u, request[q].now) /\ Refuses(q)
       \/ ~Live(u, request[q].now) /\ Replaces(q, u, request[q].role)

CreateTeamInvite(q) ==
    LET u == request[q].user IN
    /\ request[q].op = "create"
    /\ \/ (IsMember(u) \/ Live(u, request[q].now)) /\ Refuses(q)
       \/ /\ ~IsMember(u) /\ ~Live(u, request[q].now)
          /\ Replaces(q, u, request[q].role)

(* Also for an invitation that was revoked or has expired.                 *)
Resendable(u) == invite[u].token # 0 /\ ~invite[u].accepted /\ ~IsMember(u)

ResendTeamInvite(q) ==
    LET u == request[q].user IN
    /\ request[q].op = "resend"
    /\ \/ ~Resendable(u) /\ Refuses(q)
       \/ Resendable(u) /\ Replaces(q, u, invite[u].role)

(* The mail service may have sent the mail and not say so in time.         *)
DeliverPersistedInvite(q) ==
    /\ request[q].op = "deliver"
    /\ \E sent, ok \in BOOLEAN :
          /\ ok => sent
          /\ mailbox' = IF sent THEN [mailbox EXCEPT ![request[q].user] =
                                         @ \cup {request[q].token}]
                                ELSE mailbox
          /\ IF ok THEN Ends(q) ELSE Proceeds(q, "undo", request[q].token, 0)
    /\ UNCHANGED <<clock, tokens, invite, memberVars, closed, joins, granted>>

WithEnd(row, expiresAt, accepted) ==
    [token |-> row.token, role |-> row.role, createdAt |-> row.createdAt,
     expiresAt |-> expiresAt, accepted |-> accepted]

ExpireAt(u, now) ==
    invite' = [invite EXCEPT ![u] = WithEnd(invite[u], now, invite[u].accepted)]

(* Mutant of InvalidateFailedDelivery: whatever the token.                 *)
InvalidateRow(q) ==
    LET u == request[q].user IN
    /\ request[q].op = "undo"
    /\ IF ~invite[u].accepted THEN ExpireAt(u, request[q].now) ELSE UNCHANGED invite
    /\ closed' = closed \cup {request[q].token}
    /\ Ends(q)
    /\ UNCHANGED <<clock, tokens, mailbox, memberVars, joins, granted>>

InvalidateFailedDelivery(q) ==
    LET u == request[q].user IN
    /\ request[q].op = "undo"
    /\ IF invite[u].token = request[q].token /\ ~invite[u].accepted
       THEN ExpireAt(u, request[q].now) ELSE UNCHANGED invite
    /\ closed' = closed \cup {request[q].token}
    /\ Ends(q)
    /\ UNCHANGED <<clock, tokens, mailbox, memberVars, joins, granted>>

RevokeTeamInvite(q) ==
    LET u == request[q].user IN
    /\ request[q].op = "revoke"
    /\ \/ ~Live(u, request[q].now) /\ Refuses(q)
       \/ /\ Live(u, request[q].now)
          /\ ExpireAt(u, request[q].now)
          /\ closed' = closed \cup {invite[u].token}
          /\ Ends(q)
          /\ UNCHANGED <<clock, tokens, mailbox, memberVars, joins, granted>>

(* Mutant of Acceptable: at the moment of its end it is still good.        *)
AcceptableAtTheEnd(u, token, now) ==
    /\ invite[u].token = token
    /\ ~invite[u].accepted
    /\ invite[u].expiresAt >= now

Acceptable(u, token, now) == invite[u].token = token /\ Live(u, now)

AcceptTeamInvite(q) ==
    LET u     == request[q].user
        token == request[q].token
    IN
    /\ request[q].op = "accept"
    /\ \/ ~Acceptable(u, token, request[q].now) /\ Refuses(q)
       \/ /\ Acceptable(u, token, request[q].now)
          /\ invite' = [invite EXCEPT ![u] = WithEnd(invite[u], invite[u].expiresAt, TRUE)]
          /\ IF IsMember(u) THEN UNCHANGED <<memberVars, granted>>
             ELSE /\ ids' = ids + 1
                  /\ member' = [member EXCEPT ![u] = [id   |-> ids + 1,
                                                      role |-> invite[u].role]]
                  /\ granted' = granted \cup {<<ids + 1, invite[u].role>>}
          /\ joins' = joins \cup {[token |-> token, id |-> member'[u].id, late |-> request[q].late]}
          /\ closed' = closed \cup {token}
          /\ Ends(q)
          /\ UNCHANGED <<clock, tokens, mailbox>>

-----------------------------------------------------------------------------
(* The routes that change and remove members: the membership is read, and  *)
(* written by its id in another call.                                      *)

NextOp(q) == IF request[q].op = "change" THEN "update" ELSE "delete"

(* Mutant of ReadTarget: an owner is not refused.                          *)
ReadAnyTarget(q) ==
    LET m == member[request[q].user] IN
    /\ request[q].op \in {"change", "remove"}
    /\ m.id # 0
    /\ Proceeds(q, NextOp(q), 0, m.id)
    /\ UNCHANGED <<clock, inviteVars, memberVars, historyVars>>

ReadTarget(q) ==
    LET m == member[request[q].user] IN
    /\ request[q].op \in {"change", "remove"}
    /\ \/ (m.id = 0 \/ m.role = "OWNER") /\ Refuses(q)
       \/ /\ m.id # 0 /\ m.role # "OWNER"
          /\ Proceeds(q, NextOp(q), 0, m.id)
          /\ granted' = IF request[q].op = "change"
                        THEN granted \cup {<<m.id, request[q].role>>} ELSE granted
          /\ UNCHANGED <<clock, inviteVars, memberVars, closed, joins>>

(* Mutant of TheSameMember: found by the user's id.                        *)
TheSameUser(q) == IsMember(request[q].user)

(* A membership that is gone makes the statement fail.                     *)
TheSameMember(q) == member[request[q].user].id = request[q].id

UpdateRole(q) ==
    LET u == request[q].user IN
    /\ request[q].op = "update"
    /\ member' = IF TheSameMember(q)
                 THEN [member EXCEPT ![u] = [id   |-> member[u].id,
                                             role |-> request[q].role]]
                 ELSE member
    /\ Ends(q)
    /\ UNCHANGED <<clock, inviteVars, ids, historyVars>>

RemoveMember(q) ==
    LET u == request[q].user IN
    /\ request[q].op = "delete"
    /\ member' = IF TheSameMember(q) THEN [member EXCEPT ![u] = NoMember] ELSE member
    /\ Ends(q)
    /\ UNCHANGED <<clock, inviteVars, ids, historyVars>>

(* A call fails for good, or the process ends: between two transactions    *)
(* too, which leaves an invitation whose mail nobody sent or took back.    *)
RequestDies(q) ==
    /\ request[q].op # "idle"
    /\ Refuses(q)

Tick ==
    /\ clock < TimeBound
    /\ clock' = clock + 1
    /\ UNCHANGED <<inviteVars, memberVars, request, historyVars>>

RequestStep(q) ==
    \/ \E u \in Users :
          \/ \E role \in InviteRoles : AskToInvite(q, u, role) \/ AskToChange(q, u, role)
          \/ AskToResend(q, u) \/ AskToRevoke(q, u)
          \/ AskToRemove(q, u) \/ AskToAccept(q, u)
    \/ CreateTeamInvite(q) \/ ResendTeamInvite(q)
    \/ DeliverPersistedInvite(q) \/ InvalidateFailedDelivery(q)
    \/ RevokeTeamInvite(q) \/ AcceptTeamInvite(q)
    \/ ReadTarget(q) \/ UpdateRole(q) \/ RemoveMember(q)
    \/ RequestDies(q)

TeamNext == Tick \/ \E q \in Requests : RequestStep(q)

TeamSpec == TeamInit /\ [][TeamNext]_teamVars

-----------------------------------------------------------------------------
(* Properties.                                                             *)

(* Type invariant.  Whatever two administrators do to each other, the      *)
(* founder stays a member and its owner, and is the only one.              *)
TeamTypeOK ==
    /\ clock \in Nat
    /\ tokens \in Nat
    /\ invite \in [Users -> [token : Nat, role : InviteRoles, createdAt : Nat,
                             expiresAt : Nat, accepted : BOOLEAN]]
    /\ member \in [Users -> [id : Nat, role : TeamRoles]]
    /\ \A u \in Users : u = Owner <=> member[u].role = "OWNER"
    /\ IsMember(Owner)
    /\ ids \in Nat
    /\ mailbox \in [Users -> SUBSET Nat]
    /\ request \in [Requests -> [op : Operations, user : Users \cup {Nobody},
                                 role : InviteRoles, now : Nat, token : Nat,
                                 id : Nat, late : BOOLEAN]]
    /\ closed \subseteq Nat
    /\ joins \subseteq [token : Nat, id : Nat, late : BOOLEAN]
    /\ granted \subseteq Nat \X TeamRoles

(* Whoever is a member has no invitation left that could be accepted or    *)
(* sent again: invitations, acceptances and removals keep the two tables   *)
(* in step.                                                                *)
MembersHaveNoOpenInvite ==
    \A u \in Users \ {Owner} : IsMember(u) => invite[u].accepted

(* A token admits once, and never again: not one that was replaced,        *)
(* revoked or taken back because its mail failed, unless the acceptance    *)
(* was already under way at that moment.                                   *)
ClosedStaysClosed ==
    /\ \A j \in joins : ~j.late
    /\ \A i, j \in joins : i.token = j.token => i = j

(* An invitation is good for its whole time unless it was revoked or       *)
(* accepted, or its own mail failed: the mail of another one, failing      *)
(* late, does not end it.                                                  *)
OpenStaysValid ==
    \A u \in Users :
       invite[u].token \notin closed \cup {0} =>
          invite[u].expiresAt = invite[u].createdAt + InviteTtl

(* A membership has a role that was given to it: a change that was decided *)
(* for a member who is removed and invited again meanwhile never reaches   *)
(* the new membership.                                                     *)
RolesGranted ==
    \A u \in Users : IsMember(u) => <<member[u].id, member[u].role>> \in granted
-----------------------------------------------------------------------------
(* The refinement: who belongs to the organization and by which offer.     *)

Rank == [u \in Users |-> IF IsMember(u) THEN member[u].role ELSE "NONE"]

DecidedRoles == [u \in Users |->
    IF IsMember(u) THEN {role \in TeamRoles : <<member[u].id, role>> \in granted} ELSE {}]

NewestOffer == [u \in Users |->
    [number |-> invite[u].token, role |-> invite[u].role, used |-> invite[u].accepted]]

InTime(q) == request[q].op = "accept" /\ ~request[q].late
Accepting == {request[q].token : q \in {p \in Requests : InTime(p)}}
Spent     == {j.token : j \in joins}

Access == INSTANCE TeamAccess WITH
    rank <- Rank, decided <- DecidedRoles, offer <- NewestOffer, made <- tokens,
    over <- closed, spent <- Spent, accepting <- Accepting

(* Requests, mails and their clocks, in whatever order their transactions  *)
(* come, implement the abstract organization: nobody gets in but by an     *)
(* offer that stood when it was taken up, and each membership starts anew. *)
ImplementsTeamAccess == Access!AccessSpec
=============================================================================
