CONSTANTS
    t1 = t1
    t2 = t2
    w1 = w1
    w2 = w2
    NULL = NULL
    Tenants = {t1, t2}
    Workers = {w1, w2}
    TenantOf <- MCTenantOf
    Invites = {i1, i2}
    Codes = {k1, k2}
    Devices = {d1, d2}
    StaffCalls = {a1, a2}
    Claims = {c1, c2}
    Reinvites <- MCReinvites
    Patches <- MCPatches
    Operated = {t1}
    InviteTTL = 1
    MaxTime = 1

SPECIFICATION Spec
SYMMETRY Symmetric
INVARIANTS TypeOK InviteEndsOneWay ListedCodeIsClaimable
PROPERTIES ReinviteReplacesCodes
