--------------------------- MODULE MCPhotoPipeline ---------------------------
(***************************************************************************)
(* Small instances of PhotoPipeline.  The subjects s1 and s2 are photos of *)
(* two executions; p1 is asked for under both of them, which is what a     *)
(* colliding client-generated id looks like to the server.                 *)
(***************************************************************************)
EXTENDS PhotoPipeline, TLC

CONSTANTS p1, p2, s1, s2, e1, e2

\* s1 alone, or both subjects.
MCExecutionOf == [s \in Subjects |-> IF s = s1 THEN e1 ELSE e2]

MCPresignRequests == {<<p1, s1>>, <<p1, s2>>, <<p2, s1>>} \cap (Photos \X Subjects)

CallSymmetry == Permutations(Calls)

==============================================================================
