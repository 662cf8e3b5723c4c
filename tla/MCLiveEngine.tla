---------------------------- MODULE MCLiveEngine ----------------------------
(* Instances of LiveEngine for TLC. *)
EXTENDS LiveEngine, TLC

CONSTANTS k1, k2, v1, v2, i1, i2, c1, c2

OneKey == [v \in {v1, v2} |-> k1]
TwoKeys == (v1 :> k1) @@ (v2 :> k2)
OneViewer == v1 :> k1
PassSymmetry == Permutations(Viewer) \cup Permutations(Instance) \cup Permutations(Cleaner)
TheOther == [x \in {k1, k2, v1, v2} |-> CASE x = k1 -> k2 [] x = k2 -> k1
                                            [] x = v1 -> v2 [] x = v2 -> v1]
PairSymmetry == {f @@ g : f \in {TheOther, [x \in {k1, k2, v1, v2} |-> x]},
                          g \in Permutations(Instance)}
=============================================================================
