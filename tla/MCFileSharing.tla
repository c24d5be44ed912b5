--------------------------- MODULE MCFileSharing ---------------------------
(***************************************************************************)
(* FileSharing for TLC: Alice has device A, and Bob has B, or B and C.     *)
(***************************************************************************)
EXTENDS FileSharing, TLC

CONSTANTS Alice, Bob, A, B, C

UserOfTwo == A :> Alice @@ B :> Bob
UserOfThree == A :> Alice @@ B :> Bob @@ C :> Bob

(* Nothing tells the two devices of Bob apart.                             *)
Symmetry == Permutations({B, C})
=============================================================================
