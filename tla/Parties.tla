------------------------------ MODULE Parties ------------------------------
(***************************************************************************)
(* The two devices of a session, the key pairs they hold and the types of  *)
(* the values they exchange.                                               *)
(***************************************************************************)
EXTENDS Ratchet, Sequences

CONSTANTS Alice, Bob     \* the two devices

ASSUME TwoDevices == Alice # Bob

Devices == {Alice, Bob}
Peer(p) == IF p = Alice THEN Bob ELSE Alice

(* Every key pair has one owner, which numbers its pairs.                  *)
PublicKeys == [owner : Devices, nth : Nat]
PublicKey(p, n) == [owner |-> p, nth |-> n]
Signed(p) == PublicKey(p, 0)       \* the signed prekey

MessageKeys == [secret : SUBSET PublicKeys, label : Labels, step : Nat]
Chains == [index : Nat, key : MessageKeys]
(* The type of a ratchet whose skipped_keys hold the indices in `held'.    *)
Ratchets(held) ==
  [ due : BOOLEAN, local : PublicKeys, remote : PublicKeys,
    send : Chains, recv : Chains, skipped : [held -> MessageKeys] ]
IsRatchet(r) == r \in Ratchets(DOMAIN r.skipped) /\ DOMAIN r.skipped \subseteq Nat

Headers == [dh : PublicKeys, index : Nat, prev : Nat]
Messages == [header : Headers, key : MessageKeys]
=============================================================================
