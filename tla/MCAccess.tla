------------------------------- MODULE MCAccess -------------------------------
\* Two tenants of one worker each, and codes that soon collide.
EXTENDS Access, TLC

CONSTANTS t1, t2, w1, w2

MCTenantOf == w1 :> t1 @@ w2 :> t2

MCReinvites == [tenant: {t1}, worker: {w1}, revoke: {TRUE}]

MCPatches == [tenant: {t1}, worker: {w1}, active: BOOLEAN]

Symmetric ==
    Permutations(Codes) \cup Permutations(Devices) \cup Permutations(Invites)
        \cup Permutations(StaffCalls) \cup Permutations(Claims)

==============================================================================
