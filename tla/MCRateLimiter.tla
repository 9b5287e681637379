---------------------------- MODULE MCRateLimiter ----------------------------
\* One address shared by two workers, one of whom also signs in from it.
EXTENDS RateLimiter, TLC

CONSTANTS ip, w1, w2

MCRequests ==
    {[class |-> "auth", ip |-> ip, principal |-> NULL],
     [class |-> "ipCeiling", ip |-> ip, principal |-> w1],
     [class |-> "ipCeiling", ip |-> ip, principal |-> w2]}

Workers == Permutations(Principals)

MCPerMin == [c \in Classes |->
    CASE c = "auth" -> 1 [] c = "healthz" -> 1 [] c = "ipCeiling" -> 3 [] c = "principal" -> 2]

==============================================================================
