---------------------------- MODULE IdealLimiter ----------------------------
(***************************************************************************)
(* What the rate limiter promises: a token bucket of its own for every     *)
(* client there could ever be, refilled as time passes and never forgotten *)
(* while the process lives.  A request either takes a token, or is refused *)
(* because its bucket holds none, or passes uncounted; and it may pass     *)
(* uncounted only where a full bucket would have admitted it anyway, so    *)
(* nobody escapes a limit that already bites.                              *)
(***************************************************************************)
EXTENDS Naturals

CONSTANTS
    Keys,       \* the clients, each under the class that limits it
    Burst,      \* what a key's bucket holds
    Refill,     \* what it gains in an instant
    Cost,       \* what a request takes
    NULL

VARIABLES
    tokens,     \* what every key's bucket holds now
    answer      \* the last decision

Answers == [key: Keys, as: {"admitted", "refused", "open"}] \cup {NULL}

UpTo(bound, x) == IF x < bound THEN x ELSE bound

Full == [k \in Keys |-> Burst[k]]

Init == tokens = Full /\ answer = NULL

Admit(k) ==
    /\ tokens[k] >= Cost
    /\ tokens' = [tokens EXCEPT ![k] = @ - Cost]
    /\ answer' = [key |-> k, as |-> "admitted"]

Refuse(k) ==
    /\ tokens[k] < Cost
    /\ answer' = [key |-> k, as |-> "refused"]
    /\ UNCHANGED tokens

PassUncounted(k) ==
    /\ tokens[k] = Burst[k]
    /\ answer' = [key |-> k, as |-> "open"]
    /\ UNCHANGED tokens

Elapse ==
    /\ tokens' = [k \in Keys |-> UpTo(Burst[k], tokens[k] + Refill[k])]
    /\ UNCHANGED answer

\* The process restarts: nothing is persisted.
Forget == tokens' = Full /\ UNCHANGED answer

Next ==
    \/ \E k \in Keys : Admit(k) \/ Refuse(k) \/ PassUncounted(k)
    \/ Elapse
    \/ Forget

Spec == Init /\ [][Next]_<<tokens, answer>>

=============================================================================
