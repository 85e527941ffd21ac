----------------------------- MODULE TeamAccess -----------------------------
(***************************************************************************)
(* What an organization promises about who belongs to it, without          *)
(* requests, clocks, mail and rows: people belong to it by their founding  *)
(* or by an offer they took up while it stood, each offer admits once, and *)
(* a member has a role that was decided for this membership, never one     *)
(* from an earlier one.  An offer that is over may still be taken up by    *)
(* whoever began to do so before, unless another one has replaced it.      *)
(***************************************************************************)
EXTENDS Naturals

CONSTANTS Users, Owner, InviteRoles

VARIABLES
    rank,       \* the role of each user, "NONE" without one
    decided,    \* the roles decided for this membership of a user
    offer,      \* the newest offer to each user
    made,       \* how many offers were made
    over,       \* offers that are used, replaced or withdrawn
    spent,      \* offers that have admitted somebody
    accepting   \* offers somebody began to take up while they stood

accessVars == <<rank, decided, offer, made, over, spent, accepting>>

AccessInit ==
    /\ rank = [u \in Users |-> IF u = Owner THEN "OWNER" ELSE "NONE"]
    /\ decided = [u \in Users |-> IF u = Owner THEN {"OWNER"} ELSE {}]
    /\ offer = [u \in Users |-> [number |-> 0, role |-> "VIEWER", used |-> FALSE]]
    /\ made = 0
    /\ over = {} /\ spent = {} /\ accepting = {}

(* Only to somebody who does not belong, and in place of an earlier one.   *)
Offers(u, role) ==
    /\ rank[u] = "NONE"
    /\ made' = made + 1
    /\ offer' = [offer EXCEPT ![u] = [number |-> made + 1, role |-> role, used |-> FALSE]]
    /\ over' = over \cup ({offer[u].number} \ {0})
    /\ UNCHANGED <<rank, decided, spent, accepting>>

Withdraws(n) ==
    /\ n \in 1 .. made
    /\ over' = over \cup {n}
    /\ UNCHANGED <<rank, decided, offer, made, spent, accepting>>

TakesUp(n) ==
    /\ n \in (1 .. made) \ over
    /\ accepting' = accepting \cup {n}
    /\ UNCHANGED <<rank, decided, offer, made, over, spent>>

LetsGo ==
    /\ accepting' \subseteq accepting
    /\ UNCHANGED <<rank, decided, offer, made, over, spent>>

Admits(u) ==
    LET n == offer[u].number IN
    /\ rank[u] = "NONE"
    /\ n \in accepting \ spent
    /\ rank' = [rank EXCEPT ![u] = offer[u].role]
    /\ decided' = [decided EXCEPT ![u] = {offer[u].role}]
    /\ offer' = [offer EXCEPT ![u] = [number |-> n, role |-> offer[u].role, used |-> TRUE]]
    /\ over' = over \cup {n}
    /\ spent' = spent \cup {n}
    /\ accepting' \subseteq accepting
    /\ UNCHANGED made

Decides(u, role) ==
    /\ rank[u] \in InviteRoles
    /\ decided' = [decided EXCEPT ![u] = @ \cup {role}]
    /\ UNCHANGED <<rank, offer, made, over, spent, accepting>>

Becomes(u, role) ==
    /\ rank[u] \in InviteRoles
    /\ role \in decided[u]
    /\ rank' = [rank EXCEPT ![u] = role]
    /\ UNCHANGED <<decided, offer, made, over, spent, accepting>>

Dismisses(u) ==
    /\ rank[u] \in InviteRoles
    /\ rank' = [rank EXCEPT ![u] = "NONE"]
    /\ decided' = [decided EXCEPT ![u] = {}]
    /\ UNCHANGED <<offer, made, over, spent, accepting>>

AccessNext ==
    \/ \E u \in Users :
          \/ \E role \in InviteRoles : Offers(u, role) \/ Decides(u, role) \/ Becomes(u, role)
          \/ Admits(u) \/ Dismisses(u)
    \/ \E n \in 1 .. made : Withdraws(n) \/ TakesUp(n)
    \/ LetsGo

AccessSpec == AccessInit /\ [][AccessNext]_accessVars
=============================================================================
