CONSTANTS
    Users = {owner, guest}
    Owner = owner
    Requests = {q1, q2}
    Nobody = Nobody
    InviteTtl = 2
    TimeBound = 3
    TokenBound = 3
SYMMETRY Symmetric
SPECIFICATION TeamSpec
INVARIANTS
    MembersHaveNoOpenInvite
    ClosedStaysClosed
    OpenStaysValid
    RolesGranted
PROPERTY
    ImplementsTeamAccess
