--------------------------- MODULE MCRefreshTokens ---------------------------
(***************************************************************************)
(* A small instance of RefreshTokens: tokens, users and calls are each     *)
(* interchangeable.                                                        *)
(***************************************************************************)
EXTENDS RefreshTokens, TLC

MCSymmetry == Permutations(Users) \cup Permutations(Tokens) \cup Permutations(Calls)

==============================================================================
