--------------------------- MODULE MCVarlenPlans ---------------------------
(* Instances of VarlenPlans: objects planned, captured, closed and made    *)
(* again on two devices.                                                   *)
EXTENDS VarlenPlans, TLC

CONSTANTS t1, d1, d2, p1, p2

OneThread == {t1}
OneDevice == {d1}
TwoDevices == {d1, d2}
OneObject == {p1}
TwoObjects == {p1, p2}

Symmetry == Permutations(TwoDevices) \cup Permutations(TwoObjects)

(* While there is one handle its lists grow, and graphs and their kernels  *)
(* come, to the bounds; once there are more, the closing is explored over  *)
(* small lists and a graph of one kernel.                                  *)
Small ==
  /\ \A h \in 1 .. Len(handles) : handles[h].host.bytes <= 1 /\ handles[h].dev.bytes <= 1
  /\ Len(graphs) <= 1 /\ \A g \in 1 .. Len(graphs) : Len(graphs[g].ops) <= 1
Focus == Len(handles) <= 1 \/ Small
=============================================================================
