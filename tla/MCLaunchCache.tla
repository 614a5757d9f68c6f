--------------------------- MODULE MCLaunchCache ---------------------------
(* Two threads' own streams; a call that is never split and two that need  *)
(* workspaces of different sizes; two slots and two pinned buffers, so     *)
(* that slots are reused while their kernels are queued, lists and         *)
(* workspaces grow and the pool runs out within three calls.               *)
EXTENDS LaunchCache, TLC

CONSTANTS s1, s2, small, mid, large

MCStreams == {s1, s2}
MCProblems == {small, mid, large}
MCListSize == [p \in MCProblems |-> IF p = large THEN 2 ELSE 1]
MCWsSize == [p \in MCProblems |-> CASE p = small -> 0 [] p = mid -> 1 [] p = large -> 2]

(* The streams are interchangeable.                                        *)
Symmetry == Permutations(MCStreams)
=============================================================================
