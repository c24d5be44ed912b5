------------------------------ MODULE MCVault ------------------------------
(***************************************************************************)
(* Vault for TLC.                                                          *)
(***************************************************************************)
EXTENDS Vault, TLC

(* Vault tells neither users nor passphrases apart.                        *)
Symmetry == Permutations(Users) \cup Permutations(Passphrases)

(* Which ratchets are loaded decides nothing in Vault, and no property of   *)
(* the run that takes this view reads it.                                  *)
WithoutRatchets ==
  <<files, open, kek, session, inside, job, server, told, drawn, mishaps>>
=============================================================================
