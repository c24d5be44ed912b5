----------------------------- MODULE MCSessions -----------------------------
(***************************************************************************)
(* Sessions for TLC.                                                       *)
(***************************************************************************)
EXTENDS Sessions, TLC

(* The two devices run the same code and nothing in Sessions tells them    *)
(* apart, so they may be exchanged.                                        *)
Symmetry == Permutations({Alice, Bob})
=============================================================================
