------------------------- MODULE TeamInvitesProofs -------------------------
(***************************************************************************)
(* What TeamInvites keeps, for any people, requests, times and bounds.     *)
(*                                                                         *)
(* The invariant is TeamInv.  The tables alone do not say why a late       *)
(* acceptance or a late failure of the mail does no harm: that depends on  *)
(* what the request in between remembers, which is Knows.                  *)
(***************************************************************************)
EXTENDS TeamInvites, TLAPS

(* Tokens are new when they are made, and stay with the address they were  *)
(* made for: in its row and in its mailbox.                                *)
TokensNew ==
    /\ \A u \in Users : invite[u].token <= tokens
    /\ \A u \in Users : \A t \in mailbox[u] : t <= tokens
    /\ \A t \in closed : t <= tokens
    /\ \A j \in joins : j.token <= tokens

TokensOwned ==
    /\ \A u, v \in Users : u # v => (invite[u].token = 0 \/ invite[v].token # invite[u].token)
    /\ \A u, v \in Users : u # v => invite[v].token \notin mailbox[u]

(* A closed token that is still in its row is of no use to a request that  *)
(* begins now.                                                             *)
ClosedUseless ==
    /\ \A u \in Users : invite[u].createdAt <= clock
    /\ \A u \in Users : invite[u].token \in closed =>
          invite[u].accepted \/ invite[u].expiresAt <= clock
    /\ \A j \in joins : \A u \in Users : invite[u].token = j.token => invite[u].accepted

RequestRecords == [op : Operations, user : Users \cup {Nobody}, role : InviteRoles,
                   now : Nat, token : Nat, id : Nat, late : BOOLEAN]

(* What can be relied on in a request: its token is its user's, what it    *)
(* read from the clock is not in the future, the row of its token was made *)
(* before, and if the token was closed before it began, it is of no use.   *)
Knows(r) ==
    /\ r \in RequestRecords
    /\ r.op # "idle" => r.user \in Users
    /\ r.op \in {"update", "delete"} => r.user # Owner
    /\ r.op = "update" => <<r.id, r.role>> \in granted
    /\ r.token <= tokens
    /\ r.now <= clock
    /\ r.op \in {"deliver", "undo", "accept"} =>
          \A v \in Users : v # r.user => invite[v].token # r.token
    /\ (r.op \in {"deliver", "undo"} /\ invite[r.user].token = r.token)
          => invite[r.user].createdAt = r.now
    /\ (r.op = "accept" /\ invite[r.user].token = r.token)
          => invite[r.user].createdAt <= r.now
    /\ (r.op = "accept" /\ r.late /\ invite[r.user].token = r.token)
          => \/ invite[r.user].accepted
             \/ invite[r.user].expiresAt <= r.now

RequestsKnow == \A q \in Requests : Knows(request[q])

TeamInv ==
    /\ TeamTypeOK
    /\ MembersHaveNoOpenInvite
    /\ OpenStaysValid
    /\ RolesGranted
    /\ TokensNew
    /\ TokensOwned
    /\ ClosedUseless
    /\ ClosedStaysClosed
    /\ RequestsKnow

-----------------------------------------------------------------------------
LEMMA InitInv == TeamInit => TeamInv
  <1> SUFFICES ASSUME TeamInit PROVE TeamInv
    OBVIOUS
  <1> USE UsersAssumption, TimeAssumption DEF TeamInit, NoInvite, NoMember, Idle
  <1>1. TeamTypeOK
    BY DEF TeamTypeOK, IsMember, InviteRoles, TeamRoles, Operations
  <1>2. MembersHaveNoOpenInvite /\ OpenStaysValid /\ RolesGranted
    BY DEF MembersHaveNoOpenInvite, OpenStaysValid, RolesGranted, IsMember
  <1>3. TokensNew /\ TokensOwned
    BY DEF TokensNew, TokensOwned
  <1>4. ClosedUseless /\ ClosedStaysClosed
    BY DEF ClosedUseless, ClosedStaysClosed
  <1>5. RequestsKnow
    BY DEF RequestsKnow, Knows, RequestRecords, Operations, InviteRoles
  <1>6. QED
    BY <1>1, <1>2, <1>3, <1>4, <1>5 DEF TeamInv

(* The numbers and rows the other proofs calculate with.                   *)
LEMMA RowTypes ==
    ASSUME TeamInv, NEW u \in Users
    PROVE  /\ tokens \in Nat /\ clock \in Nat /\ ids \in Nat
           /\ invite[u].token \in Nat /\ invite[u].createdAt \in Nat
           /\ invite[u].expiresAt \in Nat /\ invite[u].accepted \in BOOLEAN
           /\ invite[u].role \in InviteRoles
           /\ member[u].id \in Nat /\ member[u].role \in TeamRoles
           /\ mailbox[u] \subseteq Nat
  BY DEF TeamInv, TeamTypeOK

LEMMA IdleKnown == TeamTypeOK => Knows(Idle)
  BY DEF TeamTypeOK, Knows, Idle, RequestRecords, Operations, InviteRoles

(* A step of one request: it ends or goes on with what it knows then, and  *)
(* what the others know stays true.                                        *)
KnowledgeKept == \A s \in RequestRecords : Knows(s) => Knows(s)'

BecomesRequest(q, r) == request' = [request EXCEPT ![q] = r] /\ Knows(r)'

LEMMA RequestsStep ==
    ASSUME TeamInv, NEW q \in Requests, NEW r, BecomesRequest(q, r), KnowledgeKept
    PROVE  RequestsKnow' /\ request' \in [Requests -> RequestRecords]
  <1>1. request \in [Requests -> RequestRecords]
    BY DEF TeamInv, TeamTypeOK, RequestRecords
  <1>2. r \in RequestRecords
    BY DEF BecomesRequest, Knows
  <1>3. request'[q] = r /\ \A p \in Requests : p # q => request'[p] = request[p]
    BY <1>1 DEF BecomesRequest
  <1>4. ASSUME NEW p \in Requests PROVE Knows(request[p])'
    <2>1. CASE p = q
      <3>1. Knows(r)'
        BY DEF BecomesRequest
      <3>2. QED
        BY <3>1, <2>1, <1>3 DEF Knows
    <2>2. CASE p # q
      <3>1. Knows(request[p]) /\ request[p] \in RequestRecords
        BY <1>1 DEF TeamInv, RequestsKnow
      <3>2. PICK s \in RequestRecords : s = request[p]
        BY <3>1
      <3>3. Knows(s)'
        BY <3>1, <3>2 DEF KnowledgeKept
      <3>4. request'[p] = s
        BY <2>2, <1>3, <3>2
      <3>5. QED
        BY <3>3, <3>4 DEF Knows
    <2>3. QED
      BY <2>1, <2>2
  <1>5. QED
    BY <1>1, <1>2, <1>4 DEF RequestsKnow, BecomesRequest

(* Nothing but a request changes, and the roles given grow.                *)
LEMMA MoveStep ==
    ASSUME TeamInv, NEW q \in Requests, NEW r, BecomesRequest(q, r),
           UNCHANGED <<clock, tokens, invite, mailbox, member, ids, closed, joins>>,
           granted \subseteq granted', granted' \subseteq Nat \X TeamRoles
    PROVE  TeamInv'
  <1>1. KnowledgeKept
    BY DEF KnowledgeKept, Knows
  <1>2. RequestsKnow' /\ request' \in [Requests -> RequestRecords]
    BY <1>1, RequestsStep
  <1>3. TeamTypeOK'
    BY <1>2 DEF TeamInv, TeamTypeOK, RequestRecords, IsMember
  <1>4. /\ MembersHaveNoOpenInvite' /\ OpenStaysValid' /\ ClosedStaysClosed'
        /\ RolesGranted'
    BY DEF TeamInv, MembersHaveNoOpenInvite, OpenStaysValid, ClosedStaysClosed,
           RolesGranted, IsMember
  <1>5. TokensNew' /\ TokensOwned' /\ ClosedUseless'
    BY DEF TeamInv, TokensNew, TokensOwned, ClosedUseless
  <1>6. QED
    BY <1>2, <1>3, <1>4, <1>5 DEF TeamInv

LEMMA RefuseStep ==
    ASSUME TeamInv, NEW q \in Requests, Refuses(q)
    PROVE  TeamInv'
  <1>1. /\ Ends(q)
        /\ UNCHANGED <<clock, tokens, invite, mailbox, member, ids, closed, joins, granted>>
    BY DEF Refuses, inviteVars, memberVars, historyVars
  <1>2. Knows(Idle)
    BY IdleKnown DEF TeamInv
  <1>3. BecomesRequest(q, Idle)
    BY <1>1, <1>2 DEF BecomesRequest, Ends, Knows, Idle
  <1>4. granted \subseteq Nat \X TeamRoles
    BY DEF TeamInv, TeamTypeOK
  <1>5. QED
    BY <1>1, <1>3, <1>4, MoveStep

-----------------------------------------------------------------------------
(* A request begins.                                                       *)
LEMMA BeginStep ==
    ASSUME TeamInv, NEW q \in Requests, NEW op \in Operations, NEW u \in Users,
           NEW role \in InviteRoles, NEW token, Begin(q, op, u, role, token),
           op \in {"create", "resend", "revoke", "change", "remove", "accept"},
           token = 0 \/ token \in mailbox[u],
           op = "accept" => token \in mailbox[u]
    PROVE  TeamInv'
  <1> DEFINE r == [op |-> op, user |-> u, role |-> role, now |-> clock,
                   token |-> token, id |-> 0, late |-> token \in closed]
  <1>1. token \in Nat /\ token <= tokens /\ clock \in Nat
    BY RowTypes DEF TeamInv, TokensNew
  <1>2. r \in RequestRecords
    BY <1>1 DEF RequestRecords
  <1>3. ASSUME op = "accept", NEW v \in Users, v # u PROVE invite[v].token # token
    BY <1>3 DEF TeamInv, TokensOwned
  <1>4. invite[u].createdAt <= clock
    BY DEF TeamInv, ClosedUseless
  <1>5. token \in closed /\ invite[u].token = token
           => invite[u].accepted \/ invite[u].expiresAt <= clock
    BY DEF TeamInv, ClosedUseless
  <1>6. Knows(r)
    <2>1. /\ r.op = op /\ r.user = u /\ r.now = clock /\ r.token = token
          /\ r.late <=> token \in closed
          /\ r.op \notin {"update", "delete", "deliver", "undo"}
      OBVIOUS
    <2> HIDE DEF r
    <2>2. /\ r.token <= tokens /\ r.now <= clock
          /\ r.op = "accept" => \A v \in Users : v # r.user => invite[v].token # r.token
      BY <2>1, <1>1, <1>3
    <2>3. QED
      BY <2>1, <2>2, <1>2, <1>4, <1>5 DEF Knows
  <1>7. /\ request' = [request EXCEPT ![q] = r]
        /\ UNCHANGED <<clock, tokens, invite, mailbox, member, ids, closed, joins, granted>>
    BY DEF Begin, inviteVars, memberVars, historyVars
  <1>8. PICK s : s = r
    OBVIOUS
  <1>9. Knows(s)'
    <2>1. Knows(s)
      BY <1>6, <1>8
    <2>2. QED
      BY <2>1, <1>7 DEF Knows
  <1>10. BecomesRequest(q, s)
    BY <1>7, <1>8, <1>9 DEF BecomesRequest
  <1>11. granted \subseteq Nat \X TeamRoles
    BY DEF TeamInv, TeamTypeOK
  <1>12. QED
    BY <1>7, <1>10, <1>11, MoveStep

LEMMA RequestKnown ==
    ASSUME TeamInv, NEW q \in Requests
    PROVE  Knows(request[q])
  BY DEF TeamInv, RequestsKnow

(* The request as it goes on with another operation, token and target.     *)
GoesOn(q, op, token, id) ==
    [op |-> op, user |-> request[q].user, role |-> request[q].role,
     now |-> request[q].now, token |-> token, id |-> id, late |-> request[q].late]

(* The target of a change or a removal is looked at.                       *)
LEMMA ReadTargetStep ==
    ASSUME TeamInv, NEW q \in Requests, ReadTarget(q)
    PROVE  TeamInv'
  <1> DEFINE m == member[request[q].user]
  <1>1. CASE Refuses(q)
    BY <1>1, RefuseStep
  <1>2. CASE ~Refuses(q)
    <2>1. /\ request[q].op \in {"change", "remove"}
          /\ m.role # "OWNER"
          /\ Proceeds(q, NextOp(q), 0, m.id)
          /\ granted' = IF request[q].op = "change"
                        THEN granted \cup {<<m.id, request[q].role>>} ELSE granted
          /\ UNCHANGED <<clock, tokens, invite, mailbox, member, ids, closed, joins>>
      BY <1>2 DEF ReadTarget, inviteVars, memberVars
    <2>2. Knows(request[q]) /\ request[q].user \in Users
      BY <2>1, RequestKnown DEF Knows
    <2>3. m.id \in Nat /\ request[q].user # Owner /\ tokens \in Nat
      BY <2>1, <2>2 DEF TeamInv, TeamTypeOK
    <2>4. NextOp(q) \in {"update", "delete"} /\ (NextOp(q) = "update" => request[q].op = "change")
      BY <2>1 DEF NextOp
    <2>5. PICK r : r = GoesOn(q, NextOp(q), 0, m.id)
      OBVIOUS
    <2>6. /\ r.op = NextOp(q) /\ r.user = request[q].user /\ r.role = request[q].role
          /\ r.now = request[q].now /\ r.token = 0 /\ r.id = m.id
      BY <2>5 DEF GoesOn
    <2>7. r \in RequestRecords
      BY <2>2, <2>3, <2>4, <2>5 DEF Knows, RequestRecords, Operations, GoesOn
    <2>8. r.op = "update" => <<r.id, r.role>> \in granted'
      BY <2>1, <2>4, <2>6
    <2>9. Knows(r)'
      BY <2>1, <2>2, <2>3, <2>4, <2>6, <2>7, <2>8 DEF Knows
    <2>10. BecomesRequest(q, r)
      BY <2>1, <2>5, <2>9 DEF BecomesRequest, Proceeds, GoesOn
    <2>11. request[q].role \in TeamRoles /\ granted \subseteq Nat \X TeamRoles
      BY <2>2 DEF Knows, RequestRecords, TeamRoles, TeamInv, TeamTypeOK
    <2>12. granted \subseteq granted' /\ granted' \subseteq Nat \X TeamRoles
      BY <2>1, <2>3, <2>11
    <2>13. QED
      BY <2>1, <2>10, <2>12, MoveStep
  <1>3. QED
    BY <1>1, <1>2

(* Time passes: what was good may be over, never the other way round.      *)
LEMMA TickStep == ASSUME TeamInv, Tick PROVE TeamInv'
  <1>1. /\ clock \in Nat /\ clock' = clock + 1
        /\ UNCHANGED <<tokens, invite, mailbox, member, ids, request, closed, joins, granted>>
    BY DEF Tick, TeamInv, TeamTypeOK, inviteVars, memberVars, historyVars
  <1>2. TeamTypeOK'
    BY <1>1 DEF TeamInv, TeamTypeOK, IsMember
  <1>3. /\ MembersHaveNoOpenInvite' /\ OpenStaysValid' /\ ClosedStaysClosed'
        /\ RolesGranted' /\ TokensNew' /\ TokensOwned'
    BY <1>1 DEF TeamInv, MembersHaveNoOpenInvite, OpenStaysValid, ClosedStaysClosed,
                RolesGranted, IsMember, TokensNew, TokensOwned
  <1>4. ClosedUseless'
    BY <1>1, RowTypes DEF TeamInv, ClosedUseless
  <1>5. ASSUME NEW q \in Requests PROVE Knows(request[q])'
    <2>1. Knows(request[q])
      BY RequestKnown
    <2>2. request[q].now \in Nat
      BY <2>1 DEF Knows, RequestRecords
    <2>3. QED
      BY <2>1, <2>2, <1>1 DEF Knows
  <1>6. RequestsKnow'
    BY <1>1, <1>5 DEF RequestsKnow
  <1>7. QED
    BY <1>2, <1>3, <1>4, <1>6 DEF TeamInv

-----------------------------------------------------------------------------
(* Steps that change a table.                                              *)

(* The memberships: the row of somebody who is not the owner is rewritten  *)
(* with a role that was given to it, or deleted.                           *)
LEMMA MemberStep ==
    ASSUME TeamInv, NEW q \in Requests, UpdateRole(q) \/ RemoveMember(q)
    PROVE  TeamInv'
  <1> DEFINE u == request[q].user
  <1>1. /\ Ends(q)
        /\ request[q].op \in {"update", "delete"}
        /\ UNCHANGED <<clock, tokens, invite, mailbox, ids, closed, joins, granted>>
    BY DEF UpdateRole, RemoveMember, inviteVars, historyVars
  <1>2. Knows(request[q]) /\ u \in Users /\ u # Owner
    BY <1>1, RequestKnown DEF Knows
  <1>3. PICK m : /\ member' = [member EXCEPT ![u] = m]
                 /\ m \in [id : Nat, role : TeamRoles] /\ m.role # "OWNER"
                 /\ m.id # 0 => IsMember(u) /\ <<m.id, m.role>> \in granted
    <2>1. CASE UNCHANGED member
      <3>1. member \in [Users -> [id : Nat, role : TeamRoles]] /\ member[u].role # "OWNER"
        BY <1>2 DEF TeamInv, TeamTypeOK
      <3>2. member[u].id # 0 => <<member[u].id, member[u].role>> \in granted
        BY <1>2 DEF TeamInv, RolesGranted, IsMember
      <3>3. QED
        BY <2>1, <3>1, <3>2, <1>2 DEF IsMember
    <2>2. CASE UpdateRole(q) /\ ~UNCHANGED member
      <3>1. /\ TheSameMember(q) /\ request[q].op = "update"
            /\ member' = [member EXCEPT ![u] = [id |-> member[u].id, role |-> request[q].role]]
        BY <2>2 DEF UpdateRole
      <3>2. <<member[u].id, request[q].role>> \in granted
        BY <3>1, <1>2 DEF Knows, TheSameMember
      <3>3. member[u].id \in Nat /\ request[q].role \in InviteRoles
        BY <1>2 DEF TeamInv, TeamTypeOK, Knows, RequestRecords
      <3>4. PICK m : m = [id |-> member[u].id, role |-> request[q].role]
        OBVIOUS
      <3>5. m.id = member[u].id /\ m.role = request[q].role
        BY <3>4
      <3>6. m \in [id : Nat, role : TeamRoles] /\ m.role # "OWNER"
        BY <3>3, <3>4 DEF InviteRoles, TeamRoles
      <3>7. QED
        BY <3>1, <3>2, <3>4, <3>5, <3>6 DEF IsMember
    <2>3. CASE RemoveMember(q) /\ ~UNCHANGED member
      <3>1. member' = [member EXCEPT ![u] = NoMember]
        BY <2>3 DEF RemoveMember
      <3>2. NoMember \in [id : Nat, role : TeamRoles] /\ NoMember.id = 0 /\ NoMember.role # "OWNER"
        BY DEF NoMember, TeamRoles, InviteRoles
      <3>3. QED
        BY <3>1, <3>2
    <2>4. QED
      BY <2>1, <2>2, <2>3
  <1>4. /\ member' \in [Users -> [id : Nat, role : TeamRoles]]
        /\ member'[u] = m
        /\ \A v \in Users : v # u => member'[v] = member[v]
    BY <1>2, <1>3 DEF TeamInv, TeamTypeOK
  <1>5. KnowledgeKept
    BY <1>1 DEF KnowledgeKept, Knows
  <1>6. BecomesRequest(q, Idle)
    BY <1>1, IdleKnown DEF BecomesRequest, Ends, Knows, Idle, TeamInv
  <1>7. RequestsKnow' /\ request' \in [Requests -> RequestRecords]
    BY <1>5, <1>6, RequestsStep
  <1>8. TeamTypeOK'
    BY <1>1, <1>2, <1>3, <1>4, <1>7, UsersAssumption
       DEF TeamInv, TeamTypeOK, RequestRecords, IsMember
  <1>9. MembersHaveNoOpenInvite' /\ RolesGranted'
    BY <1>1, <1>2, <1>3, <1>4
       DEF TeamInv, TeamTypeOK, MembersHaveNoOpenInvite, RolesGranted, IsMember
  <1>10. /\ OpenStaysValid' /\ ClosedStaysClosed'
         /\ TokensNew' /\ TokensOwned' /\ ClosedUseless'
    BY <1>1 DEF TeamInv, OpenStaysValid, ClosedStaysClosed, TokensNew, TokensOwned,
                ClosedUseless
  <1>11. QED
    BY <1>7, <1>8, <1>9, <1>10 DEF TeamInv

(* An invitation, new or sent anew: its token is new to everybody.         *)
LEMMA ReplaceStep ==
    ASSUME TeamInv, NEW q \in Requests, NEW u \in Users, NEW role \in InviteRoles,
           request[q].op # "idle", request[q].user = u, ~IsMember(u),
           Replaces(q, u, role)
    PROVE  TeamInv'
  <1>1. PICK row : row = [token |-> tokens + 1, role |-> role, createdAt |-> request[q].now,
                          expiresAt |-> request[q].now + InviteTtl, accepted |-> FALSE]
    OBVIOUS
  <1>2. /\ tokens' = tokens + 1
        /\ invite' = [invite EXCEPT ![u] = row]
        /\ closed' = closed \cup ({invite[u].token} \ {0})
        /\ Proceeds(q, "deliver", tokens + 1, 0)
        /\ UNCHANGED <<clock, mailbox, member, ids, joins, granted>>
    BY <1>1 DEF Replaces, memberVars
  <1>3. /\ row.token = tokens + 1 /\ row.role = role /\ row.createdAt = request[q].now
        /\ row.expiresAt = request[q].now + InviteTtl /\ row.accepted = FALSE
    BY <1>1
  <1>4. Knows(request[q])
    BY RequestKnown
  <1>5. /\ request[q].now \in Nat /\ request[q].now <= clock
        /\ tokens \in Nat /\ clock \in Nat /\ InviteTtl \in Nat
    BY <1>4, RowTypes, TimeAssumption DEF Knows, RequestRecords
  <1>6. row \in [token : Nat, role : InviteRoles, createdAt : Nat, expiresAt : Nat,
                 accepted : BOOLEAN]
    BY <1>1, <1>5
  <1>7. /\ invite' \in [Users -> [token : Nat, role : InviteRoles, createdAt : Nat,
                                  expiresAt : Nat, accepted : BOOLEAN]]
        /\ invite'[u] = row
        /\ \A v \in Users : v # u => invite'[v] = invite[v]
    BY <1>2, <1>6 DEF TeamInv, TeamTypeOK
  <1>8. \A v \in Users : invite[v].token \in Nat /\ invite[v].token <= tokens
    BY RowTypes DEF TeamInv, TokensNew
  <1>9. closed' \subseteq Nat /\ \A t \in closed' : t <= tokens
    BY <1>2, <1>8 DEF TeamInv, TeamTypeOK, TokensNew
  <1>10. KnowledgeKept
    <2> SUFFICES ASSUME NEW s \in RequestRecords, Knows(s) PROVE Knows(s)'
      BY DEF KnowledgeKept
    <2>1. s.token \in Nat /\ s.token <= tokens
      BY DEF Knows, RequestRecords
    <2>2. \A v \in Users : invite'[v].token = s.token => v # u /\ invite'[v] = invite[v]
      BY <2>1, <1>3, <1>5, <1>7
    <2>3. s.op # "idle" => s.user \in Users
      BY DEF Knows
    <2>4. s.token <= tokens'
      BY <2>1, <1>2, <1>5
    <2>5. s.op \in {"deliver", "undo", "accept"} =>
             \A v \in Users : v # s.user => invite'[v].token # s.token
      BY <2>2 DEF Knows
    <2>6. QED
      BY <2>2, <2>3, <2>4, <2>5, <1>2 DEF Knows
  <1>11. PICK r : r = GoesOn(q, "deliver", tokens + 1, 0)
    OBVIOUS
  <1>12. /\ r.op = "deliver" /\ r.user = u /\ r.now = request[q].now /\ r.token = tokens + 1
    BY <1>11 DEF GoesOn
  <1>13. r \in RequestRecords
    BY <1>4, <1>5, <1>11 DEF GoesOn, Knows, RequestRecords, Operations
  <1>14. \A v \in Users : v # u => invite'[v].token # tokens + 1
    BY <1>5, <1>7, <1>8
  <1>15. Knows(r)'
    BY <1>2, <1>3, <1>5, <1>7, <1>12, <1>13, <1>14 DEF Knows
  <1>16. BecomesRequest(q, r)
    BY <1>2, <1>11, <1>15 DEF BecomesRequest, Proceeds, GoesOn
  <1>17. RequestsKnow' /\ request' \in [Requests -> RequestRecords]
    BY <1>10, <1>16, RequestsStep
  <1>18. TeamTypeOK'
    BY <1>2, <1>5, <1>7, <1>9, <1>17 DEF TeamInv, TeamTypeOK, RequestRecords, IsMember
  <1>19. MembersHaveNoOpenInvite' /\ RolesGranted'
    BY <1>2, <1>7 DEF TeamInv, MembersHaveNoOpenInvite, RolesGranted, IsMember
  <1>20. OpenStaysValid'
    BY <1>2, <1>3, <1>7 DEF TeamInv, OpenStaysValid
  <1>21. ClosedStaysClosed'
    BY <1>2 DEF TeamInv, ClosedStaysClosed
  <1>22. TokensNew'
    <2>1. \A v \in Users : invite'[v].token <= tokens + 1
      BY <1>3, <1>5, <1>7, <1>8
    <2>2. \A v \in Users : \A t \in mailbox[v] : t \in Nat /\ t <= tokens
      BY RowTypes DEF TeamInv, TokensNew
    <2>3. \A j \in joins : j.token \in Nat /\ j.token <= tokens
      BY DEF TeamInv, TokensNew, TeamTypeOK
    <2>4. QED
      BY <1>2, <1>5, <1>9, <2>1, <2>2, <2>3 DEF TokensNew
  <1>23. TokensOwned'
    <2>1. \A v \in Users : v # u => row.token # invite[v].token
      BY <1>3, <1>5, <1>8
    <2>2. \A v \in Users : row.token \notin mailbox[v]
      BY <1>3, <1>5, RowTypes DEF TeamInv, TokensNew
    <2>3. QED
      BY <1>2, <1>7, <2>1, <2>2 DEF TeamInv, TokensOwned
  <1>24. ClosedUseless'
    <2>1. row.token \notin closed'
      BY <1>3, <1>5, <1>9
    <2>2. \A j \in joins : j.token # row.token
      BY <1>3, <1>5 DEF TeamInv, TokensNew, TeamTypeOK
    <2>3. \A v \in Users : v # u => invite[v].token # invite[u].token \/ invite[v].token = 0
      BY DEF TeamInv, TokensOwned
    <2>4. \A v \in Users : invite'[v].token \in closed' => v # u /\ invite[v].token \in closed
      BY <1>2, <1>7, <2>1, <2>3
    <2>5. \A v \in Users : invite'[v].createdAt <= clock'
      BY <1>2, <1>3, <1>5, <1>7 DEF TeamInv, ClosedUseless
    <2>6. QED
      BY <1>2, <1>7, <2>2, <2>4, <2>5 DEF TeamInv, ClosedUseless
  <1>25. QED
    BY <1>17, <1>18, <1>19, <1>20, <1>21, <1>22, <1>23, <1>24 DEF TeamInv

(* The mail is sent, or not: the token arrives where it belongs.           *)
LEMMA DeliverStep ==
    ASSUME TeamInv, NEW q \in Requests, DeliverPersistedInvite(q)
    PROVE  TeamInv'
  <1> DEFINE u == request[q].user
             t == request[q].token
  <1>1. /\ request[q].op = "deliver"
        /\ UNCHANGED <<clock, tokens, invite, member, ids, closed, joins, granted>>
        /\ Ends(q) \/ Proceeds(q, "undo", t, 0)
        /\ mailbox' = mailbox \/ mailbox' = [mailbox EXCEPT ![u] = @ \cup {t}]
    BY DEF DeliverPersistedInvite, memberVars
  <1>2. /\ Knows(request[q]) /\ u \in Users /\ t \in Nat /\ t <= tokens
        /\ \A v \in Users : v # u => invite[v].token # t
    BY <1>1, RequestKnown DEF Knows, RequestRecords
  <1>3. /\ mailbox' \in [Users -> SUBSET Nat]
        /\ mailbox'[u] \subseteq mailbox[u] \cup {t}
        /\ \A v \in Users : v # u => mailbox'[v] = mailbox[v]
    <2>1. mailbox \in [Users -> SUBSET Nat] /\ (mailbox[u] \cup {t}) \in SUBSET Nat
      BY <1>2 DEF TeamInv, TeamTypeOK
    <2>2. QED
      BY <1>1, <1>2, <2>1
  <1>4. KnowledgeKept
    BY <1>1 DEF KnowledgeKept, Knows
  <1>5. PICK r : BecomesRequest(q, r)
    <2>1. CASE Ends(q)
      <3>1. BecomesRequest(q, Idle)
        BY <2>1, <1>1, IdleKnown DEF BecomesRequest, Ends, Knows, Idle, TeamInv
      <3>2. QED
        BY <3>1
    <2>2. CASE Proceeds(q, "undo", t, 0)
      <3>1. PICK r : r = GoesOn(q, "undo", t, 0)
        OBVIOUS
      <3>2. r.op = "undo" /\ r.user = u /\ r.now = request[q].now /\ r.token = t
        BY <3>1 DEF GoesOn
      <3>3. r \in RequestRecords
        BY <1>2, <3>1 DEF GoesOn, Knows, RequestRecords, Operations
      <3>4. Knows(r)'
        BY <1>1, <1>2, <3>2, <3>3 DEF Knows
      <3>5. QED
        BY <2>2, <3>1, <3>4 DEF BecomesRequest, Proceeds, GoesOn
    <2>3. QED
      BY <1>1, <2>1, <2>2
  <1>6. RequestsKnow' /\ request' \in [Requests -> RequestRecords]
    BY <1>4, <1>5, RequestsStep
  <1>7. TeamTypeOK'
    BY <1>1, <1>3, <1>6 DEF TeamInv, TeamTypeOK, RequestRecords, IsMember
  <1>8. TokensNew' /\ TokensOwned'
    BY <1>1, <1>2, <1>3 DEF TeamInv, TokensNew, TokensOwned
  <1>9. /\ MembersHaveNoOpenInvite' /\ OpenStaysValid' /\ ClosedStaysClosed'
        /\ RolesGranted' /\ ClosedUseless'
    BY <1>1 DEF TeamInv, MembersHaveNoOpenInvite, OpenStaysValid, ClosedStaysClosed,
                RolesGranted, IsMember, ClosedUseless
  <1>10. QED
    BY <1>6, <1>7, <1>8, <1>9 DEF TeamInv

(* A token is closed: nobody but its address has it in a row, the row is   *)
(* over or accepted when it is still there, and ends no later than before  *)
(* for everybody who read the clock since it was made.                     *)
Closes(u, row, token) ==
    /\ invite' = [invite EXCEPT ![u] = row]
    /\ row \in [token : Nat, role : InviteRoles, createdAt : Nat, expiresAt : Nat,
                accepted : BOOLEAN]
    /\ row.token = invite[u].token /\ row.createdAt = invite[u].createdAt
    /\ invite[u].accepted => row.accepted
    /\ closed' = closed \cup {token}
    /\ token \in Nat /\ token <= tokens
    /\ \A v \in Users : v # u => invite[v].token # token
    /\ row.token = token => row.accepted \/ row.expiresAt <= clock
    /\ row.token # token => row.expiresAt = invite[u].expiresAt
    /\ row.expiresAt <= invite[u].expiresAt \/ row.expiresAt <= row.createdAt
    /\ UNCHANGED <<clock, tokens, mailbox>>
    /\ granted \subseteq granted'

LEMMA CloseStep ==
    ASSUME TeamInv, NEW u \in Users, NEW row, NEW token, Closes(u, row, token)
    PROVE  /\ invite' \in [Users -> [token : Nat, role : InviteRoles, createdAt : Nat,
                                     expiresAt : Nat, accepted : BOOLEAN]]
           /\ invite'[u] = row
           /\ \A v \in Users : v # u => invite'[v] = invite[v]
           /\ closed' \subseteq Nat
           /\ \A t \in closed' : t <= tokens'
           /\ \A v \in Users : /\ invite'[v].token = invite[v].token
                               /\ invite[v].accepted => invite'[v].accepted
                               /\ invite'[v].createdAt <= clock'
                               /\ invite'[v].token \in closed' =>
                                     invite'[v].accepted \/ invite'[v].expiresAt <= clock'
           /\ TokensOwned' /\ OpenStaysValid' /\ KnowledgeKept
  <1>1. /\ invite' \in [Users -> [token : Nat, role : InviteRoles, createdAt : Nat,
                                  expiresAt : Nat, accepted : BOOLEAN]]
        /\ invite'[u] = row
        /\ \A v \in Users : v # u => invite'[v] = invite[v]
    BY DEF Closes, TeamInv, TeamTypeOK
  <1>2. closed' \subseteq Nat /\ \A t \in closed' : t <= tokens'
    BY DEF Closes, TeamInv, TeamTypeOK, TokensNew
  <1>3. \A v \in Users : /\ invite'[v].token = invite[v].token
                         /\ invite'[v].createdAt = invite[v].createdAt
                         /\ invite[v].accepted => invite'[v].accepted
    BY <1>1 DEF Closes
  <1>4. ASSUME NEW v \in Users, invite'[v].token \in closed'
        PROVE  invite'[v].accepted \/ invite'[v].expiresAt <= clock'
    BY <1>1, <1>4 DEF Closes, TeamInv, ClosedUseless
  <1>5. \A v \in Users : invite'[v].createdAt <= clock'
    BY <1>3 DEF Closes, TeamInv, ClosedUseless
  <1>6. TokensOwned'
    BY <1>3 DEF Closes, TeamInv, TokensOwned
  <1>7. OpenStaysValid'
    BY <1>1, <1>3 DEF Closes, TeamInv, OpenStaysValid
  <1>8. KnowledgeKept
    <2> SUFFICES ASSUME NEW s \in RequestRecords, Knows(s) PROVE Knows(s)'
      BY DEF KnowledgeKept
    <2>1. s.op # "idle" => s.user \in Users
      BY DEF Knows
    <2>2. s.now \in Nat
      BY DEF RequestRecords
    <2>3. (s.op = "accept" /\ s.late /\ invite'[s.user].token = s.token)
             => invite'[s.user].accepted \/ invite'[s.user].expiresAt <= s.now
      <3> SUFFICES ASSUME s.op = "accept", s.late, invite'[s.user].token = s.token
                   PROVE  invite'[s.user].accepted \/ invite'[s.user].expiresAt <= s.now
        OBVIOUS
      <3>1. PICK v \in Users : v = s.user
        BY <2>1
      <3>2. /\ invite[v].createdAt <= s.now
            /\ invite[v].accepted \/ invite[v].expiresAt <= s.now
        BY <3>1, <1>3 DEF Knows
      <3>3. /\ invite[v].createdAt \in Nat /\ invite[v].expiresAt \in Nat
            /\ invite'[v].expiresAt \in Nat
        BY <1>1, RowTypes
      <3>4. invite'[v].expiresAt <= invite[v].expiresAt \/ invite'[v].expiresAt <= invite[v].createdAt
        BY <1>1, <3>3 DEF Closes
      <3>5. QED
        BY <3>1, <3>2, <3>3, <3>4, <2>2, <1>3
    <2>4. UNCHANGED <<clock, tokens>> /\ granted \subseteq granted'
      BY DEF Closes
    <2>5. QED
      BY <1>3, <2>1, <2>3, <2>4 DEF Knows
  <1>9. QED
    BY <1>1, <1>2, <1>3, <1>4, <1>5, <1>6, <1>7, <1>8

(* The mail failed and the invitation is taken back, or it is revoked.     *)
LEMMA EndInviteStep ==
    ASSUME TeamInv, NEW q \in Requests,
           InvalidateFailedDelivery(q) \/ (RevokeTeamInvite(q) /\ ~Refuses(q))
    PROVE  TeamInv'
  <1> DEFINE u == request[q].user
  <1>1. /\ Ends(q) /\ request[q].op \in {"undo", "revoke"}
        /\ UNCHANGED <<clock, tokens, mailbox, member, ids, joins, granted>>
    BY DEF InvalidateFailedDelivery, RevokeTeamInvite, memberVars
  <1>2. /\ Knows(request[q]) /\ u \in Users /\ request[q].token \in Nat
        /\ request[q].now \in Nat /\ request[q].now <= clock
    BY <1>1, RequestKnown DEF Knows, RequestRecords
  <1>3. PICK row, token : Closes(u, row, token) /\ row.accepted = invite[u].accepted
    <2>1. PICK over : over = WithEnd(invite[u], request[q].now, invite[u].accepted)
      OBVIOUS
    <2>2. /\ over.token = invite[u].token /\ over.createdAt = invite[u].createdAt
          /\ over.expiresAt = request[q].now /\ over.accepted = invite[u].accepted
      BY <2>1 DEF WithEnd
    <2>3. over \in [token : Nat, role : InviteRoles, createdAt : Nat, expiresAt : Nat,
                    accepted : BOOLEAN]
      BY <1>2, <2>1, RowTypes DEF WithEnd
    <2>4. invite[u].token \in Nat /\ invite[u].token <= tokens
      BY <1>2, RowTypes DEF TeamInv, TokensNew
    <2>5. CASE InvalidateFailedDelivery(q)
      <3>1. /\ closed' = closed \cup {request[q].token} /\ request[q].op = "undo"
            /\ request[q].token <= tokens
            /\ \A v \in Users : v # u => invite[v].token # request[q].token
            /\ invite[u].token = request[q].token => invite[u].createdAt = request[q].now
        BY <1>2, <2>5 DEF InvalidateFailedDelivery, Knows
      <3>2. CASE invite[u].token = request[q].token /\ ~invite[u].accepted
        <4>1. invite' = [invite EXCEPT ![u] = over]
          BY <2>1, <2>5, <3>2 DEF InvalidateFailedDelivery, ExpireAt
        <4>2. Closes(u, over, request[q].token)
          BY <1>1, <1>2, <2>2, <2>3, <3>1, <3>2, <4>1 DEF Closes
        <4>3. QED
          BY <2>2, <4>2
      <3>3. CASE ~(invite[u].token = request[q].token /\ ~invite[u].accepted)
        <4>1. invite' = [invite EXCEPT ![u] = invite[u]]
          BY <1>2, <2>5, <3>3 DEF InvalidateFailedDelivery, TeamInv, TeamTypeOK
        <4>2. invite[u] \in [token : Nat, role : InviteRoles, createdAt : Nat,
                             expiresAt : Nat, accepted : BOOLEAN]
          BY <1>2 DEF TeamInv, TeamTypeOK
        <4>3. Closes(u, invite[u], request[q].token)
          BY <1>1, <1>2, <3>1, <3>3, <4>1, <4>2 DEF Closes
        <4>4. QED
          BY <4>3
      <3>4. QED
        BY <3>2, <3>3
    <2>6. CASE RevokeTeamInvite(q) /\ ~Refuses(q)
      <3>1. /\ Live(u, request[q].now) /\ ExpireAt(u, request[q].now)
            /\ closed' = closed \cup {invite[u].token}
        BY <2>6 DEF RevokeTeamInvite
      <3>2. /\ invite' = [invite EXCEPT ![u] = over]
            /\ invite[u].token # 0 /\ invite[u].expiresAt > request[q].now
        BY <2>1, <3>1 DEF ExpireAt, Live
      <3>3. \A v \in Users : v # u => invite[v].token # invite[u].token
        BY <1>2, <3>2 DEF TeamInv, TokensOwned
      <3>4. invite[u].expiresAt \in Nat
        BY <1>2, RowTypes
      <3>5. Closes(u, over, invite[u].token)
        BY <1>1, <1>2, <2>2, <2>3, <2>4, <3>1, <3>2, <3>3, <3>4 DEF Closes
      <3>6. QED
        BY <2>2, <3>5
    <2>7. QED
      BY <2>5, <2>6
  <1>4. /\ KnowledgeKept /\ OpenStaysValid' /\ TokensOwned'
        /\ closed' \subseteq Nat /\ \A t \in closed' : t <= tokens'
        /\ invite' \in [Users -> [token : Nat, role : InviteRoles, createdAt : Nat,
                                  expiresAt : Nat, accepted : BOOLEAN]]
        /\ \A v \in Users : /\ invite'[v].token = invite[v].token
                            /\ invite[v].accepted => invite'[v].accepted
                            /\ invite'[v].createdAt <= clock'
                            /\ invite'[v].token \in closed' =>
                                  invite'[v].accepted \/ invite'[v].expiresAt <= clock'
    BY <1>2, <1>3, CloseStep
  <1>5. BecomesRequest(q, Idle)
    <2>1. Knows(Idle) /\ granted \subseteq granted'
      BY <1>1, IdleKnown DEF TeamInv
    <2>2. QED
      BY <2>1, <1>1 DEF BecomesRequest, Ends, Knows, Idle
  <1>6. RequestsKnow' /\ request' \in [Requests -> RequestRecords]
    BY <1>4, <1>5, RequestsStep
  <1>7. TeamTypeOK'
    BY <1>1, <1>4, <1>6 DEF TeamInv, TeamTypeOK, RequestRecords, IsMember
  <1>8. MembersHaveNoOpenInvite' /\ RolesGranted' /\ ClosedStaysClosed'
    BY <1>1, <1>4 DEF TeamInv, MembersHaveNoOpenInvite, RolesGranted, ClosedStaysClosed,
                      IsMember
  <1>9. TokensNew'
    BY <1>1, <1>4 DEF TeamInv, TokensNew
  <1>10. ClosedUseless'
    BY <1>1, <1>4 DEF TeamInv, ClosedUseless
  <1>11. QED
    BY <1>4, <1>6, <1>7, <1>8, <1>9, <1>10 DEF TeamInv

(* An invitation is accepted: its token was never closed before, for the   *)
(* acceptance knew when it began.                                          *)
LEMMA AcceptStep ==
    ASSUME TeamInv, NEW q \in Requests, AcceptTeamInvite(q), ~Refuses(q)
    PROVE  TeamInv'
  <1> DEFINE u     == request[q].user
             token == request[q].token
  <1>1. /\ request[q].op = "accept" /\ Ends(q)
        /\ Acceptable(u, token, request[q].now)
        /\ invite' = [invite EXCEPT ![u] = WithEnd(invite[u], invite[u].expiresAt, TRUE)]
        /\ joins' = joins \cup {[token |-> token, id |-> member'[u].id,
                                 late |-> request[q].late]}
        /\ closed' = closed \cup {token}
        /\ UNCHANGED <<clock, tokens, mailbox>>
    BY DEF AcceptTeamInvite
  <1>2. /\ Knows(request[q]) /\ u \in Users /\ token \in Nat /\ token <= tokens
        /\ request[q].now \in Nat /\ request[q].late \in BOOLEAN
        /\ \A v \in Users : v # u => invite[v].token # token
    BY <1>1, RequestKnown DEF Knows, RequestRecords
  <1>3. /\ invite[u].token = token /\ invite[u].token # 0 /\ ~invite[u].accepted
        /\ invite[u].expiresAt > request[q].now /\ invite[u].expiresAt \in Nat
    BY <1>1, <1>2, RowTypes DEF Acceptable, Live
  <1>4. ~request[q].late
    BY <1>1, <1>2, <1>3 DEF Knows
  <1>5. /\ member' \in [Users -> [id : Nat, role : TeamRoles]]
        /\ \A v \in Users : v # u => member'[v] = member[v]
        /\ member'[u].role = "OWNER" <=> member[u].role = "OWNER"
        /\ ids' \in Nat /\ granted \subseteq granted' /\ granted' \subseteq Nat \X TeamRoles
        /\ IsMember(u) => member'[u] = member[u]
        /\ member'[u].id # 0 => <<member'[u].id, member'[u].role>> \in granted'
    <2>1. /\ member \in [Users -> [id : Nat, role : TeamRoles]] /\ ids \in Nat
          /\ granted \subseteq Nat \X TeamRoles /\ invite[u].role \in InviteRoles
      BY <1>2, RowTypes DEF TeamInv, TeamTypeOK
    <2>2. CASE IsMember(u)
      <3>1. UNCHANGED <<member, ids, granted>>
        BY <1>3, <2>2 DEF AcceptTeamInvite, memberVars
      <3>2. <<member[u].id, member[u].role>> \in granted
        BY <1>2, <2>2 DEF TeamInv, RolesGranted
      <3>3. QED
        BY <2>1, <2>2, <3>1, <3>2
    <2>3. CASE ~IsMember(u)
      <3>1. PICK m : m = [id |-> ids + 1, role |-> invite[u].role]
        OBVIOUS
      <3>2. /\ ids' = ids + 1 /\ member' = [member EXCEPT ![u] = m]
            /\ granted' = granted \cup {<<m.id, m.role>>}
        BY <2>3, <3>1 DEF AcceptTeamInvite
      <3>3. /\ m \in [id : Nat, role : TeamRoles] /\ m.role # "OWNER"
            /\ m.id \in Nat /\ m.role \in TeamRoles
        BY <2>1, <3>1 DEF InviteRoles, TeamRoles
      <3>4. member[u].role # "OWNER"
        BY <1>2, <2>3 DEF TeamInv, TeamTypeOK
      <3>5. member'[u] = m /\ \A v \in Users : v # u => member'[v] = member[v]
        BY <1>2, <2>1, <3>2
      <3>6. granted \subseteq granted' /\ granted' \subseteq Nat \X TeamRoles
        BY <2>1, <3>2, <3>3
      <3>7. QED
        BY <1>2, <2>1, <2>3, <3>2, <3>3, <3>4, <3>5, <3>6
    <2>4. QED
      BY <2>2, <2>3
  <1>6. PICK row : row = WithEnd(invite[u], invite[u].expiresAt, TRUE)
    OBVIOUS
  <1>7. /\ row.token = invite[u].token /\ row.createdAt = invite[u].createdAt
        /\ row.expiresAt = invite[u].expiresAt /\ row.accepted = TRUE
    BY <1>6 DEF WithEnd
  <1>8. row \in [token : Nat, role : InviteRoles, createdAt : Nat, expiresAt : Nat,
                 accepted : BOOLEAN]
    BY <1>2, <1>6, RowTypes DEF WithEnd
  <1>9. Closes(u, row, token)
    <2>1. invite' = [invite EXCEPT ![u] = row]
      BY <1>1, <1>6
    <2>2. row.expiresAt <= invite[u].expiresAt
      BY <1>3, <1>7
    <2>3. granted \subseteq granted' /\ invite[u].token = token
      BY <1>3, <1>5
    <2>4. QED
      BY <1>1, <1>2, <1>7, <1>8, <2>1, <2>2, <2>3 DEF Closes
  <1>10. /\ KnowledgeKept /\ OpenStaysValid' /\ TokensOwned'
         /\ closed' \subseteq Nat /\ \A t \in closed' : t <= tokens'
         /\ invite' \in [Users -> [token : Nat, role : InviteRoles, createdAt : Nat,
                                   expiresAt : Nat, accepted : BOOLEAN]]
         /\ invite'[u] = row
         /\ \A v \in Users : /\ invite'[v].token = invite[v].token
                             /\ invite[v].accepted => invite'[v].accepted
                             /\ invite'[v].createdAt <= clock'
                             /\ invite'[v].token \in closed' =>
                                   invite'[v].accepted \/ invite'[v].expiresAt <= clock'
    BY <1>2, <1>9, CloseStep
  <1>11. BecomesRequest(q, Idle)
    <2>1. Knows(Idle)
      BY IdleKnown DEF TeamInv
    <2>2. QED
      BY <2>1, <1>1, <1>5 DEF BecomesRequest, Ends, Knows, Idle
  <1>12. RequestsKnow' /\ request' \in [Requests -> RequestRecords]
    BY <1>10, <1>11, RequestsStep
  <1>13. PICK join : /\ join = [token |-> token, id |-> member'[u].id,
                                late |-> request[q].late]
                     /\ joins' = joins \cup {join}
    BY <1>1
  <1>14. /\ join \in [token : Nat, id : Nat, late : BOOLEAN]
         /\ join.token = token /\ ~join.late
    BY <1>2, <1>4, <1>5, <1>13
  <1>15. TeamTypeOK'
    <2>1. \A v \in Users : v = Owner <=> member'[v].role = "OWNER"
      BY <1>5 DEF TeamInv, TeamTypeOK
    <2>2. member'[Owner].id # 0
      BY <1>5, UsersAssumption DEF TeamInv, TeamTypeOK, IsMember
    <2>3. joins' \subseteq [token : Nat, id : Nat, late : BOOLEAN]
      BY <1>13, <1>14 DEF TeamInv, TeamTypeOK
    <2>4. QED
      BY <1>1, <1>5, <1>10, <1>12, <2>1, <2>2, <2>3
         DEF TeamInv, TeamTypeOK, RequestRecords, IsMember
  <1>16. MembersHaveNoOpenInvite' /\ RolesGranted'
    BY <1>5, <1>7, <1>10 DEF TeamInv, MembersHaveNoOpenInvite, RolesGranted, IsMember
  <1>17. ClosedStaysClosed'
    <2>1. \A j \in joins : j.token # token
      BY <1>2, <1>3 DEF TeamInv, ClosedUseless
    <2>2. QED
      BY <1>13, <1>14, <2>1 DEF TeamInv, ClosedStaysClosed
  <1>18. TokensNew'
    BY <1>1, <1>2, <1>10, <1>13, <1>14 DEF TeamInv, TokensNew
  <1>19. ClosedUseless'
    BY <1>2, <1>7, <1>10, <1>13, <1>14 DEF TeamInv, ClosedUseless
  <1>20. QED
    BY <1>10, <1>12, <1>15, <1>16, <1>17, <1>18, <1>19 DEF TeamInv

-----------------------------------------------------------------------------
LEMMA NextInv == TeamInv /\ [TeamNext]_teamVars => TeamInv'
  <1> SUFFICES ASSUME TeamInv, [TeamNext]_teamVars PROVE TeamInv'
    OBVIOUS
  <1>1. CASE UNCHANGED teamVars
    <2>1. /\ UNCHANGED <<clock, tokens, invite, mailbox, member, ids>>
          /\ UNCHANGED <<request, closed, joins, granted>>
      BY <1>1 DEF teamVars, inviteVars, memberVars, historyVars
    <2>2. TeamTypeOK' /\ RolesGranted' /\ MembersHaveNoOpenInvite' /\ OpenStaysValid'
      BY <2>1 DEF TeamInv, TeamTypeOK, RolesGranted, MembersHaveNoOpenInvite,
                  OpenStaysValid, IsMember
    <2>3. TokensNew' /\ TokensOwned' /\ ClosedUseless' /\ ClosedStaysClosed'
      BY <2>1 DEF TeamInv, TokensNew, TokensOwned, ClosedUseless, ClosedStaysClosed
    <2>4. RequestsKnow'
      BY <2>1 DEF TeamInv, RequestsKnow, Knows
    <2>5. QED
      BY <2>2, <2>3, <2>4 DEF TeamInv
  <1>2. CASE Tick
    BY <1>2, TickStep
  <1>3. ASSUME NEW q \in Requests, RequestStep(q) PROVE TeamInv'
    <2>1. ASSUME NEW u \in Users, NEW role \in InviteRoles,
                 AskToInvite(q, u, role) \/ AskToChange(q, u, role)
          PROVE  TeamInv'
      <3>1. CASE AskToInvite(q, u, role)
        BY <3>1, BeginStep DEF AskToInvite, Operations
      <3>2. CASE AskToChange(q, u, role)
        BY <3>2, BeginStep DEF AskToChange, Operations
      <3>3. QED
        BY <2>1, <3>1, <3>2
    <2>2. ASSUME NEW u \in Users, AskToResend(q, u) \/ AskToRevoke(q, u) \/ AskToRemove(q, u)
          PROVE  TeamInv'
      <3> "VIEWER" \in InviteRoles
        BY DEF InviteRoles
      <3>1. CASE AskToResend(q, u)
        BY <3>1, BeginStep DEF AskToResend, Operations
      <3>2. CASE AskToRevoke(q, u)
        BY <3>2, BeginStep DEF AskToRevoke, Operations
      <3>3. CASE AskToRemove(q, u)
        BY <3>3, BeginStep DEF AskToRemove, Operations
      <3>4. QED
        BY <2>2, <3>1, <3>2, <3>3
    <2>3. ASSUME NEW u \in Users, AskToAccept(q, u) PROVE TeamInv'
      <3> "VIEWER" \in InviteRoles /\ "accept" \in Operations
        BY DEF InviteRoles, Operations
      <3>1. PICK token \in mailbox[u] : Begin(q, "accept", u, "VIEWER", token)
        BY <2>3 DEF AskToAccept
      <3>2. QED
        BY <3>1, BeginStep
    <2>4. ASSUME CreateTeamInvite(q) \/ ResendTeamInvite(q) PROVE TeamInv'
      <3> DEFINE u == request[q].user
      <3>1. request[q].op # "idle" /\ Knows(request[q]) /\ u \in Users
        BY <2>4, RequestKnown DEF CreateTeamInvite, ResendTeamInvite, Knows
      <3>2. request[q].role \in InviteRoles /\ invite[u].role \in InviteRoles
        BY <3>1, RowTypes DEF Knows, RequestRecords
      <3>3. \/ Refuses(q)
            \/ ~IsMember(u) /\ Replaces(q, u, request[q].role)
            \/ ~IsMember(u) /\ Replaces(q, u, invite[u].role)
        BY <2>4 DEF CreateTeamInvite, ResendTeamInvite, Resendable
      <3>4. QED
        BY <3>1, <3>2, <3>3, RefuseStep, ReplaceStep
    <2>5. ASSUME InvalidateFailedDelivery(q) \/ RevokeTeamInvite(q) PROVE TeamInv'
      BY <2>5, RefuseStep, EndInviteStep
    <2>6. ASSUME AcceptTeamInvite(q) \/ RequestDies(q) PROVE TeamInv'
      BY <2>6, RefuseStep, AcceptStep DEF RequestDies
    <2>7. QED
      BY <1>3, <2>1, <2>2, <2>3, <2>4, <2>5, <2>6, DeliverStep, ReadTargetStep, MemberStep
         DEF RequestStep
  <1>4. QED
    BY <1>1, <1>2, <1>3 DEF TeamNext

LEMMA TeamInvariant == TeamSpec => []TeamInv
  BY InitInv, NextInv, PTL DEF TeamSpec

(* Invitations, acceptances, changes and removals keep their tables well   *)
(* formed, and the founder the only owner, for any number of people and    *)
(* requests.                                                               *)
THEOREM TeamTypesKept == TeamSpec => []TeamTypeOK
  <1>1. TeamInv => TeamTypeOK
    BY DEF TeamInv
  <1>2. QED
    BY <1>1, TeamInvariant, PTL

(* Whoever is a member has no invitation that could be accepted again.     *)
THEOREM MembersNotInvited == TeamSpec => []MembersHaveNoOpenInvite
  <1>1. TeamInv => MembersHaveNoOpenInvite
    BY DEF TeamInv
  <1>2. QED
    BY <1>1, TeamInvariant, PTL

(* A token that was used, replaced, revoked or taken back admits nobody    *)
(* who begins to accept it afterwards, and no token admits twice.          *)
THEOREM TokensAdmitOnce == TeamSpec => []ClosedStaysClosed
  <1>1. TeamInv => ClosedStaysClosed
    BY DEF TeamInv
  <1>2. QED
    BY <1>1, TeamInvariant, PTL

(* The failing mail of one invitation never shortens another one.          *)
THEOREM InvitationsLast == TeamSpec => []OpenStaysValid
  <1>1. TeamInv => OpenStaysValid
    BY DEF TeamInv
  <1>2. QED
    BY <1>1, TeamInvariant, PTL

(* A membership only ever has roles that were given to it.                 *)
THEOREM RolesAreGranted == TeamSpec => []RolesGranted
  <1>1. TeamInv => RolesGranted
    BY DEF TeamInv
  <1>2. QED
    BY <1>1, TeamInvariant, PTL
-----------------------------------------------------------------------------
(* The refinement of TeamAccess.  That a membership starts anew rests on   *)
(* its id being new to everything that was ever decided.                   *)
IdsNew ==
    /\ \A g \in granted : g[1] \in 1 .. ids
    /\ \A u \in Users : member[u].id <= ids
    /\ \A u, v \in Users : u # v /\ IsMember(u) => member[v].id # member[u].id

LEMMA InitIds == TeamInit => IdsNew
  BY UsersAssumption DEF TeamInit, IdsNew, IsMember, NoMember

(* How one step writes the table of members: not at all, by a decision, by *)
(* a role that was decided, by a removal, or by an admission.              *)
MembersRest == UNCHANGED <<member, ids, granted>>

RoleDecided(u, role) ==
    /\ IsMember(u) /\ member[u].role # "OWNER"
    /\ granted' = granted \cup {<<member[u].id, role>>}
    /\ UNCHANGED <<member, ids>>

RoleChanges(u, role) ==
    /\ IsMember(u) /\ member[u].role # "OWNER"
    /\ <<member[u].id, role>> \in granted
    /\ member' = [member EXCEPT ![u] = [id |-> member[u].id, role |-> role]]
    /\ UNCHANGED <<ids, granted>>

MemberLeaves(u) ==
    /\ member[u].role # "OWNER"
    /\ member' = [member EXCEPT ![u] = NoMember]
    /\ UNCHANGED <<ids, granted>>

MemberJoins(u, role) ==
    /\ ~IsMember(u)
    /\ ids' = ids + 1
    /\ member' = [member EXCEPT ![u] = [id |-> ids + 1, role |-> role]]
    /\ granted' = granted \cup {<<ids + 1, role>>}

MembersStep ==
    \/ MembersRest
    \/ \E u \in Users :
          \/ MemberLeaves(u)
          \/ \E role \in InviteRoles :
                RoleDecided(u, role) \/ RoleChanges(u, role) \/ MemberJoins(u, role)

LEMMA IdsStep == TeamInv /\ IdsNew /\ MembersStep => IdsNew'
  <1> SUFFICES ASSUME TeamInv, IdsNew, MembersStep PROVE IdsNew'
    OBVIOUS
  <1>1. /\ ids \in Nat
        /\ member \in [Users -> [id : Nat, role : TeamRoles]]
        /\ \A u \in Users : member[u].id \in Nat /\ member[u].id <= ids
        /\ \A g \in granted : g[1] \in 1 .. ids
        /\ \A u, v \in Users : u # v /\ member[u].id # 0 => member[v].id # member[u].id
    BY DEF TeamInv, TeamTypeOK, IdsNew, IsMember
  <1>2. CASE MembersRest
    BY <1>2 DEF MembersRest, IdsNew, IsMember
  <1>3. ASSUME NEW u \in Users, MemberLeaves(u) PROVE IdsNew'
    <2>1. NoMember.id = 0
      BY DEF NoMember
    <2>2. member'[u] = NoMember /\ \A v \in Users : v # u => member'[v] = member[v]
      BY <1>1, <1>3 DEF MemberLeaves
    <2>3. ids' = ids /\ granted' = granted
      BY <1>3 DEF MemberLeaves
    <2>4. \A v \in Users : member'[v].id \in Nat /\ member'[v].id <= ids
      BY <1>1, <2>1, <2>2
    <2>5. \A v, w \in Users : v # w /\ member'[v].id # 0 => member'[w].id # member'[v].id
      BY <1>1, <2>1, <2>2
    <2>6. QED
      BY <1>1, <2>3, <2>4, <2>5 DEF IdsNew, IsMember
  <1>4. ASSUME NEW u \in Users, NEW role \in InviteRoles, RoleDecided(u, role) PROVE IdsNew'
    <2>1. member[u].id \in 1 .. ids
      BY <1>1, <1>4 DEF RoleDecided, IsMember
    <2>2. QED
      BY <1>1, <1>4, <2>1 DEF RoleDecided, IdsNew, IsMember
  <1>5. ASSUME NEW u \in Users, NEW role \in InviteRoles, RoleChanges(u, role) PROVE IdsNew'
    <2>1. \A v \in Users : member'[v].id = member[v].id
      BY <1>1, <1>5 DEF RoleChanges
    <2>2. QED
      BY <1>1, <1>5, <2>1 DEF RoleChanges, IdsNew, IsMember
  <1>6. ASSUME NEW u \in Users, NEW role \in InviteRoles, MemberJoins(u, role) PROVE IdsNew'
    <2>1. member'[u].id = ids + 1 /\ \A v \in Users : v # u => member'[v] = member[v]
      BY <1>1, <1>6 DEF MemberJoins
    <2>2. ids' = ids + 1 /\ granted' = granted \cup {<<ids + 1, role>>}
      BY <1>6 DEF MemberJoins
    <2>3. \A g \in granted' : g[1] \in 1 .. ids'
      BY <1>1, <2>2
    <2>4. \A v \in Users : member'[v].id <= ids'
      BY <1>1, <2>1, <2>2
    <2>5. \A v, w \in Users : v # w /\ member'[v].id # 0 => member'[w].id # member'[v].id
      BY <1>1, <2>1
    <2>6. QED
      BY <2>3, <2>4, <2>5 DEF IdsNew, IsMember
  <1>7. QED
    BY <1>2, <1>3, <1>4, <1>5, <1>6 DEF MembersStep

(* What the mapped variables are, user by user.                            *)
LEMMA MappedMembers ==
    ASSUME NEW u \in Users
    PROVE  /\ Rank[u] = IF IsMember(u) THEN member[u].role ELSE "NONE"
           /\ DecidedRoles[u] = IF IsMember(u)
                 THEN {role \in TeamRoles : <<member[u].id, role>> \in granted} ELSE {}
  BY DEF Rank, DecidedRoles

LEMMA MembersRefine ==
    ASSUME TeamInv, IdsNew
    PROVE  /\ MembersRest => UNCHANGED <<Rank, DecidedRoles>>
           /\ \A u \in Users, role \in InviteRoles :
                 /\ RoleDecided(u, role) =>
                       /\ Rank[u] \in InviteRoles /\ Rank' = Rank
                       /\ DecidedRoles' = [DecidedRoles EXCEPT ![u] = @ \cup {role}]
                 /\ RoleChanges(u, role) =>
                       /\ Rank[u] \in InviteRoles /\ role \in DecidedRoles[u]
                       /\ Rank' = [Rank EXCEPT ![u] = role]
                       /\ DecidedRoles' = DecidedRoles
                 /\ MemberJoins(u, role) =>
                       /\ Rank[u] = "NONE"
                       /\ Rank' = [Rank EXCEPT ![u] = role]
                       /\ DecidedRoles' = [DecidedRoles EXCEPT ![u] = {role}]
           /\ \A u \in Users : MemberLeaves(u) =>
                 \/ UNCHANGED <<Rank, DecidedRoles>>
                 \/ /\ Rank[u] \in InviteRoles
                    /\ Rank' = [Rank EXCEPT ![u] = "NONE"]
                    /\ DecidedRoles' = [DecidedRoles EXCEPT ![u] = {}]
  <1>1. /\ ids \in Nat
        /\ member \in [Users -> [id : Nat, role : TeamRoles]]
        /\ \A u \in Users : /\ member[u].id \in Nat /\ member[u].id <= ids
                            /\ member[u].role \in TeamRoles
        /\ \A g \in granted : g[1] \in 1 .. ids
        /\ \A u, v \in Users : u # v /\ member[u].id # 0 => member[v].id # member[u].id
    BY DEF TeamInv, TeamTypeOK, IdsNew, IsMember
  <1>2. \A m : m \in TeamRoles /\ m # "OWNER" => m \in InviteRoles
    BY DEF TeamRoles
  <1>3. InviteRoles \subseteq TeamRoles
    BY DEF TeamRoles
  <1>4. /\ Rank \in [Users -> TeamRoles \cup {"NONE"}]
        /\ DecidedRoles \in [Users -> SUBSET TeamRoles]
    BY <1>1 DEF Rank, DecidedRoles
  <1>5. MembersRest => UNCHANGED <<Rank, DecidedRoles>>
    BY DEF MembersRest, Rank, DecidedRoles, IsMember
  <1>6. ASSUME NEW u \in Users, NEW role \in InviteRoles, RoleDecided(u, role)
        PROVE  /\ Rank[u] \in InviteRoles /\ Rank' = Rank
               /\ DecidedRoles' = [DecidedRoles EXCEPT ![u] = @ \cup {role}]
    <2>1. Rank[u] \in InviteRoles /\ Rank' = Rank
      BY <1>1, <1>2, <1>6 DEF RoleDecided, Rank, IsMember
    <2>2. ASSUME NEW v \in Users
          PROVE  DecidedRoles'[v] = IF v = u THEN DecidedRoles[u] \cup {role} ELSE DecidedRoles[v]
      <3>1. granted' = granted \cup {<<member[u].id, role>>} /\ member' = member
        BY <1>6 DEF RoleDecided
      <3>2. DecidedRoles'[v] = IF member[v].id # 0
                THEN {r \in TeamRoles : <<member[v].id, r>> \in granted'} ELSE {}
        BY <3>1 DEF DecidedRoles, IsMember
      <3>3. DecidedRoles[v] = IF member[v].id # 0
                THEN {r \in TeamRoles : <<member[v].id, r>> \in granted} ELSE {}
        BY DEF DecidedRoles, IsMember
      <3>4. CASE v = u
        BY <1>3, <1>6, <3>1, <3>2, <3>3, <3>4 DEF RoleDecided, IsMember
      <3>5. CASE v # u
        <4>1. member[v].id # member[u].id
          BY <1>1, <1>6, <3>5 DEF RoleDecided, IsMember
        <4>2. QED
          BY <3>1, <3>2, <3>3, <3>5, <4>1
      <3>6. QED
        BY <3>4, <3>5
    <2>3. DecidedRoles' = [v \in Users |-> DecidedRoles'[v]]
      BY DEF DecidedRoles
    <2>4. QED
      BY <1>4, <2>1, <2>2, <2>3
  <1>7. ASSUME NEW u \in Users, NEW role \in InviteRoles, RoleChanges(u, role)
        PROVE  /\ Rank[u] \in InviteRoles /\ role \in DecidedRoles[u]
               /\ Rank' = [Rank EXCEPT ![u] = role]
               /\ DecidedRoles' = DecidedRoles
    <2>1. /\ member'[u].id = member[u].id /\ member'[u].role = role
          /\ \A v \in Users : v # u => member'[v] = member[v]
          /\ granted' = granted /\ member[u].id # 0
      BY <1>1, <1>7 DEF RoleChanges, IsMember
    <2>2. Rank[u] \in InviteRoles /\ role \in DecidedRoles[u]
      BY <1>1, <1>2, <1>3, <1>7 DEF RoleChanges, Rank, DecidedRoles, IsMember
    <2>3. Rank' = [Rank EXCEPT ![u] = role]
      BY <2>1 DEF Rank, IsMember
    <2>4. \A v \in Users : member'[v].id = member[v].id
      BY <2>1
    <2>5. DecidedRoles' = DecidedRoles
      BY <2>1, <2>4 DEF DecidedRoles, IsMember
    <2>6. QED
      BY <2>2, <2>3, <2>5
  <1>8. ASSUME NEW u \in Users, NEW role \in InviteRoles, MemberJoins(u, role)
        PROVE  /\ Rank[u] = "NONE"
               /\ Rank' = [Rank EXCEPT ![u] = role]
               /\ DecidedRoles' = [DecidedRoles EXCEPT ![u] = {role}]
    <2>1. /\ member'[u].id = ids + 1 /\ member'[u].role = role
          /\ \A v \in Users : v # u => member'[v] = member[v]
          /\ granted' = granted \cup {<<ids + 1, role>>}
      BY <1>1, <1>8 DEF MemberJoins
    <2>2. Rank[u] = "NONE"
      BY <1>8 DEF MemberJoins, Rank
    <2>3. Rank' = [Rank EXCEPT ![u] = role]
      <3>1. member'[u].id # 0
        BY <1>1, <2>1
      <3>2. QED
        BY <2>1, <3>1 DEF Rank, IsMember
    <2>4. ASSUME NEW v \in Users
          PROVE  DecidedRoles'[v] = IF v = u THEN {role} ELSE DecidedRoles[v]
      <3>1. DecidedRoles'[v] = IF member'[v].id # 0
                THEN {r \in TeamRoles : <<member'[v].id, r>> \in granted'} ELSE {}
        BY DEF DecidedRoles, IsMember
      <3>2. DecidedRoles[v] = IF member[v].id # 0
                THEN {r \in TeamRoles : <<member[v].id, r>> \in granted} ELSE {}
        BY DEF DecidedRoles, IsMember
      <3>3. \A r : <<ids + 1, r>> \notin granted
        <4>1. \A r : <<ids + 1, r>>[1] \notin 1 .. ids
          BY <1>1
        <4>2. QED
          BY <1>1, <4>1
      <3>4. CASE v = u
        <4>1. member'[v].id # 0
          BY <1>1, <2>1, <3>4
        <4>2. \A r \in TeamRoles : <<ids + 1, r>> \in granted' <=> r = role
          BY <2>1, <3>3
        <4>3. QED
          BY <1>3, <2>1, <3>1, <3>4, <4>1, <4>2
      <3>5. CASE v # u
        <4>1. member'[v] = member[v] /\ member[v].id # ids + 1
          BY <1>1, <2>1, <3>5
        <4>2. \A r : <<member[v].id, r>> \in granted' <=> <<member[v].id, r>> \in granted
          BY <2>1, <4>1
        <4>3. QED
          BY <3>1, <3>2, <3>5, <4>1, <4>2
      <3>6. QED
        BY <3>4, <3>5
    <2>5. DecidedRoles' = [v \in Users |-> DecidedRoles'[v]]
      BY DEF DecidedRoles
    <2>6. QED
      BY <1>4, <2>2, <2>3, <2>4, <2>5
  <1>9. ASSUME NEW u \in Users, MemberLeaves(u)
        PROVE  \/ UNCHANGED <<Rank, DecidedRoles>>
               \/ /\ Rank[u] \in InviteRoles
                  /\ Rank' = [Rank EXCEPT ![u] = "NONE"]
                  /\ DecidedRoles' = [DecidedRoles EXCEPT ![u] = {}]
    <2>1. /\ member'[u].id = 0
          /\ \A v \in Users : v # u => member'[v] = member[v]
          /\ granted' = granted
      BY <1>1, <1>9 DEF MemberLeaves, NoMember
    <2>2. Rank' = [Rank EXCEPT ![u] = "NONE"]
      BY <2>1 DEF Rank, IsMember
    <2>3. DecidedRoles' = [DecidedRoles EXCEPT ![u] = {}]
      BY <2>1 DEF DecidedRoles, IsMember
    <2>4. CASE IsMember(u)
      <3>1. Rank[u] \in InviteRoles
        BY <1>1, <1>2, <1>9, <2>4 DEF MemberLeaves, Rank
      <3>2. QED
        BY <2>2, <2>3, <3>1
    <2>5. CASE ~IsMember(u)
      <3>1. Rank[u] = "NONE" /\ DecidedRoles[u] = {}
        BY <2>5, MappedMembers
      <3>2. QED
        BY <1>4, <2>2, <2>3, <3>1
    <2>6. QED
      BY <2>4, <2>5
  <1>10. QED
    BY <1>5, <1>6, <1>7, <1>8, <1>9
-----------------------------------------------------------------------------
(* Tokens under way are tokens that were made; the founder never gets one. *)
TokensReal ==
    /\ invite[Owner].token = 0
    /\ \A u \in Users : 0 \notin mailbox[u]
    /\ \A q \in Requests : request[q].op \in {"deliver", "undo"} => request[q].token # 0

(* The requests that are taking up an offer, when one of them moves.       *)
LEMMA AcceptingStep ==
    ASSUME TeamInv, NEW q \in Requests, NEW r, request' = [request EXCEPT ![q] = r]
    PROVE  /\ r.op # "accept" \/ r.late => Accepting' \subseteq Accepting
           /\ ~InTime(q) /\ (r.op # "accept" \/ r.late) => Accepting' = Accepting
           /\ ~InTime(q) /\ r.op = "accept" /\ ~r.late => Accepting' = Accepting \cup {r.token}
  <1>1. /\ request'[q] = r
        /\ \A p \in Requests : p # q => request'[p] = request[p]
    BY DEF TeamInv, TeamTypeOK
  <1>2. InTime(q)' <=> r.op = "accept" /\ ~r.late
    BY <1>1 DEF InTime
  <1>3. \A p \in Requests : p # q => (InTime(p)' <=> InTime(p))
    BY <1>1 DEF InTime
  <1>4. QED
    BY <1>1, <1>2, <1>3 DEF Accepting

Refines == [Access!AccessNext]_Access!accessVars

(* Only the requests change.                                               *)
LEMMA LettingGoRefines ==
    ASSUME TeamInv, NEW q \in Requests, NEW r, request' = [request EXCEPT ![q] = r],
           r.op # "accept" \/ r.late,
           UNCHANGED <<tokens, invite, closed, joins>>, MembersRest, IdsNew
    PROVE  Refines
  <1>1. Accepting' \subseteq Accepting
    BY AcceptingStep
  <1>2. UNCHANGED <<Rank, DecidedRoles, NewestOffer, Spent>>
    BY MembersRefine DEF NewestOffer, Spent
  <1>3. Access!LetsGo
    BY <1>1, <1>2 DEF Access!LetsGo
  <1>4. QED
    BY <1>3 DEF Refines, Access!AccessNext

LEMMA RefusalRefines ==
    ASSUME TeamInv, IdsNew, NEW q \in Requests, Refuses(q)
    PROVE  Refines /\ MembersRest
  <1>1. /\ request' = [request EXCEPT ![q] = Idle]
        /\ UNCHANGED <<tokens, invite, closed, joins>> /\ MembersRest
    BY DEF Refuses, Ends, inviteVars, memberVars, historyVars, MembersRest
  <1>2. Idle.op # "accept"
    BY DEF Idle
  <1>3. QED
    BY <1>1, <1>2, LettingGoRefines

LEMMA BeginRefines ==
    ASSUME TeamInv, IdsNew, TokensReal, NEW q \in Requests, NEW op \in Operations,
           NEW u \in Users, NEW role \in InviteRoles, NEW token,
           Begin(q, op, u, role, token), op = "accept" => token \in mailbox[u]
    PROVE  Refines /\ MembersRest
  <1>1. PICK r : r = [op |-> op, user |-> u, role |-> role, now |-> clock,
                      token |-> token, id |-> 0, late |-> token \in closed]
    OBVIOUS
  <1>2. r.op = op /\ r.token = token /\ (r.late <=> token \in closed)
    BY <1>1
  <1>3. /\ request' = [request EXCEPT ![q] = r] /\ request[q].op = "idle"
        /\ UNCHANGED <<tokens, invite, closed, joins>> /\ MembersRest
    BY <1>1 DEF Begin, inviteVars, memberVars, historyVars, MembersRest
  <1>4. CASE op # "accept" \/ token \in closed
    BY <1>2, <1>3, <1>4, LettingGoRefines
  <1>5. CASE op = "accept" /\ token \notin closed
    <2>1. Accepting' = Accepting \cup {token}
      <3>1. ~InTime(q) /\ r.op = "accept" /\ ~r.late /\ r.token = token
        BY <1>2, <1>3, <1>5 DEF InTime
      <3>2. QED
        BY <1>3, <3>1, AcceptingStep
    <2>2. token \in (1 .. tokens) \ closed
      <3>1. token \in Nat /\ token <= tokens /\ tokens \in Nat /\ token # 0
        BY <1>5, RowTypes DEF TeamInv, TokensNew, TokensReal
      <3>2. QED
        BY <1>5, <3>1
    <2>3. UNCHANGED <<Rank, DecidedRoles, NewestOffer, Spent>>
      BY <1>3, MembersRefine DEF NewestOffer, Spent
    <2>4. Access!TakesUp(token)
      BY <1>3, <2>1, <2>2, <2>3 DEF Access!TakesUp
    <2>5. QED
      BY <1>3, <2>2, <2>4 DEF Refines, Access!AccessNext
  <1>6. QED
    BY <1>3, <1>4, <1>5

LEMMA OfferRefines ==
    ASSUME TeamInv, IdsNew, NEW q \in Requests, NEW u \in Users, NEW role \in InviteRoles,
           request[q].op \in {"create", "resend"}, ~IsMember(u), Replaces(q, u, role)
    PROVE  Refines /\ MembersRest
  <1>1. PICK row : row = [token |-> tokens + 1, role |-> role, createdAt |-> request[q].now,
                          expiresAt |-> request[q].now + InviteTtl, accepted |-> FALSE]
    OBVIOUS
  <1>2. row.token = tokens + 1 /\ row.role = role /\ row.accepted = FALSE
    BY <1>1
  <1>3. /\ tokens' = tokens + 1
        /\ invite' = [invite EXCEPT ![u] = row]
        /\ closed' = closed \cup ({invite[u].token} \ {0})
        /\ Proceeds(q, "deliver", tokens + 1, 0)
        /\ UNCHANGED <<joins>> /\ MembersRest
    BY <1>1 DEF Replaces, memberVars, MembersRest
  <1>4. PICK r : r = GoesOn(q, "deliver", tokens + 1, 0)
    OBVIOUS
  <1>5. r.op = "deliver" /\ request' = [request EXCEPT ![q] = r]
    BY <1>3, <1>4 DEF GoesOn, Proceeds
  <1>6. Accepting' = Accepting
    BY <1>5, AcceptingStep DEF InTime
  <1>7. invite'[u] = row /\ \A v \in Users : v # u => invite'[v] = invite[v]
    BY <1>3 DEF TeamInv, TeamTypeOK
  <1>8. NewestOffer' = [NewestOffer EXCEPT ![u] =
                           [number |-> tokens + 1, role |-> role, used |-> FALSE]]
    BY <1>2, <1>7 DEF NewestOffer
  <1>9. Rank[u] = "NONE" /\ UNCHANGED <<Rank, DecidedRoles, Spent>>
    BY <1>3, MembersRefine, MappedMembers DEF Spent
  <1>10. NewestOffer[u].number = invite[u].token
    BY DEF NewestOffer
  <1>11. Access!Offers(u, role)
    BY <1>3, <1>6, <1>8, <1>9, <1>10 DEF Access!Offers
  <1>12. QED
    BY <1>3, <1>11 DEF Refines, Access!AccessNext

LEMMA DeliveryRefines ==
    ASSUME TeamInv, IdsNew, NEW q \in Requests, DeliverPersistedInvite(q)
    PROVE  Refines /\ MembersRest
  <1>1. /\ UNCHANGED <<tokens, invite, closed, joins>> /\ MembersRest
        /\ Ends(q) \/ Proceeds(q, "undo", request[q].token, 0)
    BY DEF DeliverPersistedInvite, memberVars, MembersRest
  <1>2. PICK r : request' = [request EXCEPT ![q] = r] /\ r.op # "accept"
    <2>1. CASE Ends(q)
      <3>1. Idle.op # "accept"
        BY DEF Idle
      <3>2. QED
        BY <2>1, <3>1 DEF Ends
    <2>2. CASE Proceeds(q, "undo", request[q].token, 0)
      <3>1. PICK r : r = GoesOn(q, "undo", request[q].token, 0)
        OBVIOUS
      <3>2. r.op = "undo"
        BY <3>1 DEF GoesOn
      <3>3. QED
        BY <2>2, <3>1, <3>2 DEF Proceeds, GoesOn
    <2>3. QED
      BY <1>1, <2>1, <2>2
  <1>3. QED
    BY <1>1, <1>2, LettingGoRefines

(* A token is taken back; its row may get another end, which an abstract   *)
(* offer does not have.                                                    *)
LEMMA WithdrawalRefines ==
    ASSUME TeamInv, IdsNew, TokensReal, NEW q \in Requests,
           InvalidateFailedDelivery(q) \/ (RevokeTeamInvite(q) /\ ~Refuses(q))
    PROVE  Refines /\ MembersRest
  <1> DEFINE u == request[q].user
  <1>1. /\ Ends(q) /\ request[q].op \in {"undo", "revoke"}
        /\ UNCHANGED <<tokens, joins>> /\ MembersRest
    BY DEF InvalidateFailedDelivery, RevokeTeamInvite, memberVars, MembersRest
  <1>2. /\ Knows(request[q]) /\ u \in Users /\ request[q].token \in Nat
        /\ request[q].token <= tokens /\ tokens \in Nat
    BY <1>1, RequestKnown, RowTypes DEF Knows, RequestRecords
  <1>3. \E n \in 1 .. tokens : closed' = closed \cup {n}
    <2>1. CASE InvalidateFailedDelivery(q)
      <3>1. request[q].token # 0 /\ closed' = closed \cup {request[q].token}
        BY <2>1 DEF InvalidateFailedDelivery, TokensReal
      <3>2. QED
        BY <1>2, <3>1
    <2>2. CASE RevokeTeamInvite(q) /\ ~Refuses(q)
      <3>1. invite[u].token # 0 /\ closed' = closed \cup {invite[u].token}
        BY <2>2 DEF RevokeTeamInvite, Live
      <3>2. invite[u].token \in Nat /\ invite[u].token <= tokens
        BY <1>2, RowTypes DEF TeamInv, TokensNew
      <3>3. QED
        BY <1>2, <3>1, <3>2
    <2>3. QED
      BY <2>1, <2>2
  <1>4. NewestOffer' = NewestOffer
    <2>1. PICK over : over = WithEnd(invite[u], request[q].now, invite[u].accepted)
      OBVIOUS
    <2>2. /\ over.token = invite[u].token /\ over.role = invite[u].role
          /\ over.accepted = invite[u].accepted
      BY <2>1 DEF WithEnd
    <2>3. invite' = invite \/ invite' = [invite EXCEPT ![u] = over]
      BY <2>1 DEF InvalidateFailedDelivery, RevokeTeamInvite, ExpireAt
    <2>4. \A v \in Users : /\ invite'[v].token = invite[v].token
                           /\ invite'[v].role = invite[v].role
                           /\ invite'[v].accepted = invite[v].accepted
      BY <2>2, <2>3 DEF TeamInv, TeamTypeOK
    <2>5. QED
      BY <2>4 DEF NewestOffer
  <1>5. Accepting' = Accepting
    <2>1. Idle.op # "accept"
      BY DEF Idle
    <2>2. QED
      BY <1>1, <2>1, AcceptingStep DEF Ends, InTime
  <1>6. UNCHANGED <<Rank, DecidedRoles, Spent>>
    BY <1>1, MembersRefine DEF Spent
  <1>7. PICK n \in 1 .. tokens : Access!Withdraws(n)
    BY <1>1, <1>3, <1>4, <1>5, <1>6 DEF Access!Withdraws
  <1>8. QED
    BY <1>1, <1>7 DEF Refines, Access!AccessNext

LEMMA AdmissionRefines ==
    ASSUME TeamInv, IdsNew, TokensReal, NEW q \in Requests, AcceptTeamInvite(q), ~Refuses(q)
    PROVE  Refines /\ MembersStep
  <1> DEFINE u     == request[q].user
             token == request[q].token
             role  == invite[u].role
  <1>1. /\ request[q].op = "accept" /\ Ends(q)
        /\ Acceptable(u, token, request[q].now)
        /\ invite' = [invite EXCEPT ![u] = WithEnd(invite[u], invite[u].expiresAt, TRUE)]
        /\ joins' = joins \cup {[token |-> token, id |-> member'[u].id,
                                 late |-> request[q].late]}
        /\ closed' = closed \cup {token}
        /\ UNCHANGED <<clock, tokens, mailbox>>
    BY DEF AcceptTeamInvite
  <1>2. /\ Knows(request[q]) /\ u \in Users /\ request[q].now \in Nat
        /\ invite[u].expiresAt \in Nat /\ role \in InviteRoles
    BY <1>1, RequestKnown, RowTypes DEF Knows, RequestRecords
  <1>3. /\ invite[u].token = token /\ invite[u].token # 0 /\ ~invite[u].accepted
        /\ invite[u].expiresAt > request[q].now
    BY <1>1 DEF Acceptable, Live
  <1>4. ~request[q].late
    BY <1>1, <1>2, <1>3 DEF Knows
  <1>5. PICK row : row = WithEnd(invite[u], invite[u].expiresAt, TRUE)
    OBVIOUS
  <1>6. /\ row.token = token /\ row.role = role /\ row.accepted = TRUE
        /\ invite'[u] = row /\ \A v \in Users : v # u => invite'[v] = invite[v]
    BY <1>1, <1>2, <1>3, <1>5 DEF WithEnd, TeamInv, TeamTypeOK
  <1>7. NewestOffer[u].number = token /\ NewestOffer[u].role = role
    BY <1>2, <1>3 DEF NewestOffer
  <1>8. NewestOffer' = [NewestOffer EXCEPT ![u] =
                           [number |-> token, role |-> role, used |-> TRUE]]
    BY <1>6 DEF NewestOffer
  <1>9. token \in Accepting /\ Accepting' \subseteq Accepting
    <2>1. Idle.op # "accept"
      BY DEF Idle
    <2>2. QED
      BY <1>1, <1>4, <2>1, AcceptingStep DEF Ends, Accepting, InTime
  <1>10. token \notin Spent
    BY <1>2, <1>3 DEF TeamInv, ClosedUseless, Spent
  <1>11. Spent' = Spent \cup {token}
    <2>1. PICK join : /\ join = [token |-> token, id |-> member'[u].id,
                                 late |-> request[q].late]
                      /\ joins' = joins \cup {join}
      BY <1>1
    <2>2. join.token = token
      BY <2>1
    <2>3. QED
      BY <2>1, <2>2 DEF Spent
  <1>12. MemberJoins(u, role)
    <2>1. u # Owner
      BY <1>3 DEF TokensReal
    <2>2. ~IsMember(u)
      BY <1>2, <1>3, <2>1 DEF TeamInv, MembersHaveNoOpenInvite
    <2>3. QED
      BY <2>2 DEF AcceptTeamInvite, MemberJoins
  <1>13. /\ Rank[u] = "NONE"
         /\ Rank' = [Rank EXCEPT ![u] = role]
         /\ DecidedRoles' = [DecidedRoles EXCEPT ![u] = {role}]
    BY <1>2, <1>12, MembersRefine
  <1>14. Access!Admits(u)
    BY <1>1, <1>7, <1>8, <1>9, <1>10, <1>11, <1>13 DEF Access!Admits
  <1>15. QED
    BY <1>2, <1>12, <1>14 DEF Refines, Access!AccessNext, MembersStep
LEMMA RolesRefine ==
    ASSUME TeamInv, IdsNew, NEW q \in Requests,
           (ReadTarget(q) /\ ~Refuses(q)) \/ UpdateRole(q) \/ RemoveMember(q)
    PROVE  Refines /\ MembersStep
  <1> DEFINE u == request[q].user
  <1>1. /\ request[q].op \notin {"accept", "idle"}
        /\ UNCHANGED <<tokens, invite, closed, joins>>
    BY DEF ReadTarget, UpdateRole, RemoveMember, inviteVars, memberVars, historyVars
  <1>2. Knows(request[q]) /\ u \in Users /\ request[q].role \in InviteRoles
    BY <1>1, RequestKnown DEF Knows, RequestRecords
  <1>3. UNCHANGED <<NewestOffer, Spent>>
    BY <1>1 DEF NewestOffer, Spent
  <1>4. Accepting' = Accepting
    <2>1. PICK r : request' = [request EXCEPT ![q] = r] /\ r.op # "accept"
      <3>1. CASE Ends(q)
        <4>1. Idle.op # "accept"
          BY DEF Idle
        <4>2. QED
          BY <3>1, <4>1 DEF Ends
      <3>2. CASE Proceeds(q, NextOp(q), 0, member[u].id)
        <4>1. PICK r : r = GoesOn(q, NextOp(q), 0, member[u].id)
          OBVIOUS
        <4>2. r.op # "accept"
          BY <4>1 DEF GoesOn, NextOp
        <4>3. QED
          BY <3>2, <4>1, <4>2 DEF Proceeds, GoesOn
      <3>3. QED
        BY <3>1, <3>2 DEF ReadTarget, UpdateRole, RemoveMember
    <2>2. QED
      BY <1>1, <2>1, AcceptingStep DEF InTime
  <1>5. CASE MembersRest
    <2>1. UNCHANGED <<Rank, DecidedRoles>>
      BY <1>5, MembersRefine
    <2>2. QED
      BY <1>1, <1>3, <1>4, <1>5, <2>1 DEF Refines, Access!accessVars, MembersStep
  <1>6. CASE ReadTarget(q) /\ ~Refuses(q) /\ ~MembersRest
    <2>1. RoleDecided(u, request[q].role)
      BY <1>6 DEF ReadTarget, MembersRest, RoleDecided, memberVars, IsMember
    <2>2. Access!Decides(u, request[q].role)
      BY <1>1, <1>2, <1>3, <1>4, <2>1, MembersRefine DEF Access!Decides
    <2>3. QED
      BY <1>2, <2>1, <2>2 DEF Refines, Access!AccessNext, MembersStep
  <1>7. CASE UpdateRole(q) /\ ~MembersRest
    <2>1. /\ request[q].op = "update" /\ TheSameMember(q)
          /\ member' = [member EXCEPT ![u] = [id |-> member[u].id, role |-> request[q].role]]
          /\ UNCHANGED <<ids, granted>>
      BY <1>7 DEF UpdateRole, MembersRest, historyVars
    <2>2. <<member[u].id, request[q].role>> \in granted /\ u # Owner
      BY <1>2, <2>1 DEF Knows, TheSameMember
    <2>3. member[u].id # 0
      <3>1. <<member[u].id, request[q].role>>[1] \in 1 .. ids
        BY <2>2 DEF IdsNew
      <3>2. QED
        BY <3>1
    <2>4. RoleChanges(u, request[q].role)
      BY <1>2, <2>1, <2>2, <2>3 DEF RoleChanges, IsMember, TeamInv, TeamTypeOK
    <2>5. Access!Becomes(u, request[q].role)
      BY <1>1, <1>2, <1>3, <1>4, <2>4, MembersRefine DEF Access!Becomes
    <2>6. QED
      BY <1>2, <2>4, <2>5 DEF Refines, Access!AccessNext, MembersStep
  <1>8. CASE RemoveMember(q) /\ ~MembersRest
    <2>1. /\ request[q].op = "delete"
          /\ member' = [member EXCEPT ![u] = NoMember]
          /\ UNCHANGED <<ids, granted>>
      BY <1>8 DEF RemoveMember, MembersRest, historyVars
    <2>2. u # Owner
      BY <1>2, <2>1 DEF Knows
    <2>3. MemberLeaves(u)
      BY <1>2, <2>1, <2>2 DEF MemberLeaves, TeamInv, TeamTypeOK
    <2>4. CASE UNCHANGED <<Rank, DecidedRoles>>
      BY <1>1, <1>2, <1>3, <1>4, <2>3, <2>4
         DEF Refines, Access!accessVars, MembersStep
    <2>5. CASE ~UNCHANGED <<Rank, DecidedRoles>>
      <3>1. Access!Dismisses(u)
        BY <1>1, <1>2, <1>3, <1>4, <2>3, <2>5, MembersRefine DEF Access!Dismisses
      <3>2. QED
        BY <1>2, <2>3, <3>1 DEF Refines, Access!AccessNext, MembersStep
    <2>6. QED
      BY <2>4, <2>5
  <1>9. QED
    BY <1>5, <1>6, <1>7, <1>8

-----------------------------------------------------------------------------
LEMMA InitTokens == TeamInit => TokensReal
  BY UsersAssumption DEF TeamInit, TokensReal, NoInvite, Idle

LEMMA NextTokens == TeamInv /\ TokensReal /\ [TeamNext]_teamVars => TokensReal'
  <1> SUFFICES ASSUME TeamInv, TokensReal, [TeamNext]_teamVars PROVE TokensReal'
    OBVIOUS
  <1>i. /\ request \in [Requests -> RequestRecords] /\ tokens \in Nat
        /\ mailbox \in [Users -> SUBSET Nat] /\ invite \in [Users -> [token : Nat,
              role : InviteRoles, createdAt : Nat, expiresAt : Nat, accepted : BOOLEAN]]
        /\ Owner \in Users /\ IsMember(Owner)
    BY UsersAssumption DEF TeamInv, TeamTypeOK, RequestRecords
  <1>e. Idle.op = "idle"
    BY DEF Idle
  <1>1. CASE UNCHANGED <<mailbox, request, invite>>
    BY <1>1 DEF TokensReal
  <1>2. ASSUME NEW q \in Requests, RequestStep(q), ~UNCHANGED <<mailbox, request, invite>>
        PROVE  TokensReal'
    <2>1. ASSUME UNCHANGED <<mailbox, invite>>, NEW r, request' = [request EXCEPT ![q] = r],
                 r.op \notin {"deliver", "undo"}
          PROVE  TokensReal'
      <3>1. request'[q] = r /\ \A p \in Requests : p # q => request'[p] = request[p]
        BY <1>i, <2>1
      <3>2. QED
        BY <2>1, <3>1 DEF TokensReal
    <2>2. ASSUME NEW u \in Users, NEW role \in InviteRoles, NEW op, NEW token,
                 Begin(q, op, u, role, token), op \notin {"deliver", "undo"}
          PROVE  TokensReal'
      <3>1. PICK r : r = [op |-> op, user |-> u, role |-> role, now |-> clock,
                          token |-> token, id |-> 0, late |-> token \in closed]
        OBVIOUS
      <3>2. r.op = op
        BY <3>1
      <3>3. QED
        BY <2>1, <2>2, <3>1, <3>2 DEF Begin, inviteVars
    <2>3. ASSUME UNCHANGED mailbox, Ends(q),
                 \A u \in Users : invite'[u].token = invite[u].token
          PROVE  TokensReal'
      <3>1. request'[q] = Idle /\ \A p \in Requests : p # q => request'[p] = request[p]
        BY <1>i, <2>3 DEF Ends
      <3>2. QED
        BY <1>i, <1>e, <2>3, <3>1 DEF TokensReal
    <2>4. ASSUME CreateTeamInvite(q) \/ ResendTeamInvite(q) PROVE TokensReal'
      <3> DEFINE u == request[q].user
      <3>0. request[q].op # "idle" /\ Knows(request[q]) /\ u \in Users
        BY <2>4, RequestKnown DEF CreateTeamInvite, ResendTeamInvite, Knows
      <3>1. CASE Refuses(q)
        BY <2>3, <3>1 DEF Refuses, inviteVars
      <3>2. ASSUME NEW role, ~IsMember(u), Replaces(q, u, role) PROVE TokensReal'
        <4>1. PICK r : r = GoesOn(q, "deliver", tokens + 1, 0)
          OBVIOUS
        <4>2. r.token = tokens + 1 /\ request' = [request EXCEPT ![q] = r] /\ mailbox' = mailbox
          BY <3>2, <4>1 DEF GoesOn, Proceeds, Replaces
        <4>3. request'[q] = r /\ \A p \in Requests : p # q => request'[p] = request[p]
          BY <1>i, <4>2
        <4>4. u # Owner /\ invite'[Owner] = invite[Owner]
          BY <1>i, <3>0, <3>2 DEF Replaces
        <4>5. QED
          BY <1>i, <4>2, <4>3, <4>4 DEF TokensReal
      <3>3. QED
        BY <2>4, <3>1, <3>2 DEF CreateTeamInvite, ResendTeamInvite, Resendable
    <2>5. ASSUME DeliverPersistedInvite(q) PROVE TokensReal'
      <3> DEFINE u == request[q].user
                 t == request[q].token
      <3>0. request[q].op = "deliver" /\ Knows(request[q]) /\ u \in Users /\ t # 0
        BY <2>5, RequestKnown DEF DeliverPersistedInvite, Knows, TokensReal
      <3>1. invite' = invite
        BY <2>5 DEF DeliverPersistedInvite
      <3>2. \A v \in Users : 0 \notin mailbox'[v]
        <4>1. mailbox' = mailbox \/ mailbox' = [mailbox EXCEPT ![u] = @ \cup {t}]
          BY <2>5 DEF DeliverPersistedInvite
        <4>2. QED
          BY <1>i, <3>0, <4>1 DEF TokensReal
      <3>3. \A p \in Requests : request'[p].op \in {"deliver", "undo"} => request'[p].token # 0
        <4>1. CASE Ends(q)
          <5>1. request'[q] = Idle /\ \A p \in Requests : p # q => request'[p] = request[p]
            BY <1>i, <4>1 DEF Ends
          <5>2. QED
            BY <1>e, <5>1 DEF TokensReal
        <4>2. CASE Proceeds(q, "undo", t, 0)
          <5>1. PICK r : r = GoesOn(q, "undo", t, 0)
            OBVIOUS
          <5>2. r.token = t /\ request' = [request EXCEPT ![q] = r]
            BY <4>2, <5>1 DEF GoesOn, Proceeds
          <5>3. request'[q] = r /\ \A p \in Requests : p # q => request'[p] = request[p]
            BY <1>i, <5>2
          <5>4. QED
            BY <3>0, <5>2, <5>3 DEF TokensReal
        <4>3. QED
          BY <2>5, <4>1, <4>2 DEF DeliverPersistedInvite
      <3>4. QED
        BY <3>1, <3>2, <3>3 DEF TokensReal
    <2>6. ASSUME InvalidateFailedDelivery(q) \/ RevokeTeamInvite(q) \/ AcceptTeamInvite(q)
          PROVE  TokensReal'
      <3>1. CASE Refuses(q)
        BY <2>3, <3>1 DEF Refuses, inviteVars
      <3>2. CASE ~Refuses(q)
        <4> DEFINE u == request[q].user
        <4>1. /\ mailbox' = mailbox /\ Ends(q)
              /\ \/ invite' = invite
                 \/ \E end, used : invite' = [invite EXCEPT ![u] = WithEnd(invite[u], end, used)]
          BY <2>6, <3>2 DEF InvalidateFailedDelivery, RevokeTeamInvite, AcceptTeamInvite, ExpireAt
        <4>2. ASSUME NEW end, NEW used,
                     invite' = [invite EXCEPT ![u] = WithEnd(invite[u], end, used)]
              PROVE  \A v \in Users : invite'[v].token = invite[v].token
          <5>1. PICK row : row = WithEnd(invite[u], end, used)
            OBVIOUS
          <5>2. row.token = invite[u].token
            BY <5>1 DEF WithEnd
          <5>3. QED
            BY <1>i, <4>2, <5>1, <5>2
        <4>3. QED
          BY <2>3, <4>1, <4>2
      <3>3. QED
        BY <3>1, <3>2
    <2>7. ASSUME ReadTarget(q) \/ UpdateRole(q) \/ RemoveMember(q) \/ RequestDies(q)
          PROVE  TokensReal'
      <3>1. CASE Ends(q) /\ UNCHANGED <<mailbox, invite>>
        BY <2>3, <3>1
      <3>2. CASE ReadTarget(q) /\ ~Refuses(q)
        <4> DEFINE id == member[request[q].user].id
        <4>1. Proceeds(q, NextOp(q), 0, id) /\ UNCHANGED <<mailbox, invite>>
          BY <3>2 DEF ReadTarget, inviteVars
        <4>2. PICK r : r = GoesOn(q, NextOp(q), 0, id)
          OBVIOUS
        <4>3. r.op \notin {"deliver", "undo"}
          BY <4>2 DEF GoesOn, NextOp
        <4>4. QED
          BY <2>1, <4>1, <4>2, <4>3 DEF Proceeds, GoesOn
      <3>3. QED
        BY <2>7, <3>1, <3>2 DEF Refuses, RequestDies, UpdateRole, RemoveMember, inviteVars
    <2>8. "VIEWER" \in InviteRoles
      BY DEF InviteRoles
    <2>9. ASSUME NEW u \in Users,
                 \/ \E role \in InviteRoles : AskToInvite(q, u, role) \/ AskToChange(q, u, role)
                 \/ AskToResend(q, u) \/ AskToRevoke(q, u)
                 \/ AskToRemove(q, u) \/ AskToAccept(q, u)
          PROVE  TokensReal'
      BY <2>2, <2>8, <2>9
         DEF AskToInvite, AskToChange, AskToResend, AskToRevoke, AskToRemove, AskToAccept
    <2>10. QED
      BY <1>2, <2>4, <2>5, <2>6, <2>7, <2>9 DEF RequestStep
  <1>3. QED
    BY <1>1, <1>2 DEF TeamNext, Tick, teamVars, inviteVars

-----------------------------------------------------------------------------
LEMMA StepRefines ==
    ASSUME TeamInv, IdsNew, TokensReal, [TeamNext]_teamVars
    PROVE  Refines /\ MembersStep
  <1>1. CASE UNCHANGED <<tokens, invite, member, ids, request, closed, joins, granted>>
    <2>1. MembersRest /\ UNCHANGED <<NewestOffer, Spent, Accepting>>
      BY <1>1 DEF MembersRest, NewestOffer, Spent, Accepting, InTime
    <2>2. UNCHANGED <<Rank, DecidedRoles>>
      BY <2>1, MembersRefine
    <2>3. QED
      BY <1>1, <2>1, <2>2 DEF Refines, Access!accessVars, MembersStep
  <1>2. ASSUME NEW q \in Requests, RequestStep(q) PROVE Refines /\ MembersStep
    <2>1. MembersRest => MembersStep
      BY DEF MembersStep
    <2>2. "VIEWER" \in InviteRoles
      BY DEF InviteRoles
    <2>3. ASSUME NEW u \in Users, NEW role \in InviteRoles,
                 AskToInvite(q, u, role) \/ AskToChange(q, u, role)
          PROVE  Refines /\ MembersRest
      BY <2>3, BeginRefines DEF AskToInvite, AskToChange, Operations
    <2>4. ASSUME NEW u \in Users, AskToResend(q, u) \/ AskToRevoke(q, u) \/ AskToRemove(q, u)
          PROVE  Refines /\ MembersRest
      BY <2>2, <2>4, BeginRefines DEF AskToResend, AskToRevoke, AskToRemove, Operations
    <2>5. ASSUME NEW u \in Users, AskToAccept(q, u) PROVE Refines /\ MembersRest
      <3>1. PICK token \in mailbox[u] : Begin(q, "accept", u, "VIEWER", token)
        BY <2>5 DEF AskToAccept
      <3>2. "accept" \in Operations
        BY DEF Operations
      <3>3. QED
        BY <2>2, <3>1, <3>2, BeginRefines
    <2>6. ASSUME CreateTeamInvite(q) \/ ResendTeamInvite(q) PROVE Refines /\ MembersRest
      <3> DEFINE u == request[q].user
      <3>1. request[q].op \in {"create", "resend"} /\ Knows(request[q]) /\ u \in Users
        BY <2>6, RequestKnown DEF CreateTeamInvite, ResendTeamInvite, Knows
      <3>2. request[q].role \in InviteRoles /\ invite[u].role \in InviteRoles
        BY <3>1, RowTypes DEF Knows, RequestRecords
      <3>3. \/ Refuses(q)
            \/ ~IsMember(u) /\ Replaces(q, u, request[q].role)
            \/ ~IsMember(u) /\ Replaces(q, u, invite[u].role)
        BY <2>6 DEF CreateTeamInvite, ResendTeamInvite, Resendable
      <3>4. QED
        BY <3>1, <3>2, <3>3, RefusalRefines, OfferRefines
    <2>7. ASSUME Refuses(q) \/ RequestDies(q) PROVE Refines /\ MembersRest
      BY <2>7, RefusalRefines DEF RequestDies
    <2>8. ASSUME InvalidateFailedDelivery(q) \/ RevokeTeamInvite(q) PROVE Refines /\ MembersRest
      BY <2>7, <2>8, WithdrawalRefines
    <2>9. ASSUME AcceptTeamInvite(q) PROVE Refines /\ MembersStep
      BY <2>1, <2>7, <2>9, AdmissionRefines
    <2>10. ASSUME ReadTarget(q) \/ UpdateRole(q) \/ RemoveMember(q) PROVE Refines /\ MembersStep
      BY <2>1, <2>7, <2>10, RolesRefine
    <2>11. QED
      BY <1>2, <2>1, <2>3, <2>4, <2>5, <2>6, <2>7, <2>8, <2>9, <2>10, DeliveryRefines
         DEF RequestStep
  <1>3. QED
    BY <1>1, <1>2 DEF TeamNext, Tick, teamVars, inviteVars, memberVars, historyVars

LEMMA InitRefines == TeamInit => Access!AccessInit
  <1> SUFFICES ASSUME TeamInit PROVE Access!AccessInit
    OBVIOUS
  <1>1. Rank = [u \in Users |-> IF u = Owner THEN "OWNER" ELSE "NONE"]
    BY DEF TeamInit, Rank, IsMember, NoMember
  <1>2. DecidedRoles = [u \in Users |-> IF u = Owner THEN {"OWNER"} ELSE {}]
    BY DEF TeamInit, DecidedRoles, IsMember, NoMember, TeamRoles
  <1>3. NewestOffer = [u \in Users |-> [number |-> 0, role |-> "VIEWER", used |-> FALSE]]
    BY DEF TeamInit, NewestOffer, NoInvite
  <1>4. Spent = {} /\ Accepting = {}
    BY DEF TeamInit, Spent, Accepting, InTime, Idle
  <1>5. QED
    BY <1>1, <1>2, <1>3, <1>4 DEF TeamInit, Access!AccessInit

(* The routes of a team, with their clocks, mails and transactions,        *)
(* implement the abstract organization, step by step: people get in by an  *)
(* offer that stood when they took it up, each offer admits once, and a    *)
(* membership only has roles that were decided for it.                     *)
THEOREM AccessImplemented == TeamSpec => ImplementsTeamAccess
  <1>1. TeamInv /\ IdsNew /\ TokensReal /\ [TeamNext]_teamVars => IdsNew'
    BY StepRefines, IdsStep
  <1>2. TeamInv /\ IdsNew /\ TokensReal /\ [TeamNext]_teamVars
           => [Access!AccessNext]_Access!accessVars
    BY StepRefines DEF Refines
  <1>3. TeamSpec => [](TeamInv /\ IdsNew /\ TokensReal)
    BY <1>1, InitIds, InitTokens, NextTokens, TeamInvariant, InitInv, NextInv, PTL DEF TeamSpec
  <1>4. QED
    BY <1>2, <1>3, InitRefines, PTL DEF TeamSpec, ImplementsTeamAccess, Access!AccessSpec
=============================================================================
