------------------------------ MODULE Ratchet ------------------------------
(***************************************************************************)
(* The per-device ratchet of src/src/key_exchange/NewRatchet.cpp as pure   *)
(* operators on a ratchet record.                                          *)
(*                                                                         *)
(* Cryptography is symbolic.  A Diffie-Hellman output is the unordered     *)
(* pair of the two public keys, because the code computes the same output  *)
(* from either private key.  A chain key is the DH output and the KDF      *)
(* label it was derived under, with the number of KDF steps taken since.   *)
(* A message key is named by the chain key it is derived from: the two     *)
(* are different subkeys of it, so message keys are equal exactly when     *)
(* those chain keys are.  root_key is left out: every derivation starts    *)
(* from a DH output, and root_key is written but never read.               *)
(*                                                                         *)
(* A ratchet has the fields of NewRatchet the code reads:                  *)
(*   due      due_to_send_new_dh                                           *)
(*   local    local_dh_public (its private half is held with it)           *)
(*   remote   remote_dh_public                                             *)
(*   send     send_chain    [index, key]                                   *)
(*   recv     receive_chain [index, key]                                   *)
(*   skipped  skipped_keys, a function from indices to message keys        *)
(* The index of a chain and the step of its key are separate: the code     *)
(* moves one without the other in advance_receive.                         *)
(***************************************************************************)
EXTENDS Integers

Labels == {"DRXsend1", "DRXrecv1", "DHRatchet"}

(* dh(): X25519 of a private key and the other side's public key. *)
Dh(a, b) == {a, b}

ChainKey(secret, label) == [secret |-> secret, label |-> label, step |-> 0]

(* n applications of progress_receive_ratchet or progress_sending_ratchet. *)
KeyAfter(key, n) == [key EXCEPT !.step = @ + n]

NewChain(key) == [index |-> 0, key |-> key]

(* What advance_receive gives when it throws instead of returning a key. *)
NoKey == [secret |-> {}, label |-> "none", step |-> 0]

NoSkipped == [i \in {} |-> NoKey]

-----------------------------------------------------------------------------
(* Construction: set_up_initial_state_* and set_up_initial_chain_keys.     *)

(* Mutant: the responder does not swap its chains. *)
InitialRatchetNoSwap(local, remote, reversed) ==
  [ due     |-> FALSE,
    local   |-> local,
    remote  |-> remote,
    send    |-> NewChain(ChainKey(Dh(local, remote), "DRXsend1")),
    recv    |-> NewChain(ChainKey(Dh(local, remote), "DRXrecv1")),
    skipped |-> NoSkipped ]

(* Both chains come from the one DH output; the responder swaps them. *)
InitialRatchet(local, remote, reversed) ==
  LET sendLabel == IF reversed THEN "DRXrecv1" ELSE "DRXsend1"
      recvLabel == IF reversed THEN "DRXsend1" ELSE "DRXrecv1"
  IN  [ due     |-> FALSE,
        local   |-> local,
        remote  |-> remote,
        send    |-> NewChain(ChainKey(Dh(local, remote), sendLabel)),
        recv    |-> NewChain(ChainKey(Dh(local, remote), recvLabel)),
        skipped |-> NoSkipped ]

InitiatorRatchet(ephemeral, theirSigned) ==
  InitialRatchet(ephemeral, theirSigned, FALSE)

RecipientRatchet(signed, theirEphemeral) ==
  InitialRatchet(signed, theirEphemeral, TRUE)

-----------------------------------------------------------------------------
(* dh_ratchet_step.                                                        *)

DhChain(a, b) == NewChain(ChainKey(Dh(a, b), "DHRatchet"))

(* dh_ratchet_step(false): restart the send chain. *)
SendDhStep(r) == [r EXCEPT !.send = DhChain(r.local, r.remote)]

(* Mutant: no new key pair is generated. *)
ReceiveDhStepKeepsLocal(r, fresh) ==
  [r EXCEPT !.recv = DhChain(r.local, r.remote),
            !.send = DhChain(r.local, r.remote)]

(* Mutant: the receive chain is restarted without resetting its index. *)
ReceiveDhStepKeepsIndex(r, fresh) ==
  [r EXCEPT !.recv  = [DhChain(r.local, r.remote) EXCEPT !.index = r.recv.index],
            !.local = fresh,
            !.send  = DhChain(fresh, r.remote)]

(* dh_ratchet_step(true): restart the receive chain from the key pair held *)
(* so far, then generate the pair `fresh' and restart the send chain.      *)
ReceiveDhStep(r, fresh) ==
  [r EXCEPT !.recv  = DhChain(r.local, r.remote),
            !.local = fresh,
            !.send  = DhChain(fresh, r.remote)]

-----------------------------------------------------------------------------
(* Sending: advance_send and progress_sending_ratchet.                     *)

Header(r) ==
  [dh |-> r.local, index |-> r.send.index, prev |-> r.recv.index]

(* Mutant: the index moves on and the chain key does not. *)
ProgressSendingKeepsChainKey(r) ==
  [ key     |-> r.send.key,
    header  |-> Header(r),
    ratchet |-> [r EXCEPT !.send.index = @ + 1] ]

ProgressSending(r) ==
  [ key     |-> r.send.key,
    header  |-> Header(r),
    ratchet |-> [r EXCEPT !.send = [index |-> @.index + 1,
                                    key   |-> KeyAfter(@.key, 1)]] ]

AdvanceSend(r) ==
  ProgressSending(IF r.due THEN [SendDhStep(r) EXCEPT !.due = FALSE] ELSE r)

-----------------------------------------------------------------------------
(* Receiving: advance_receive.                                             *)

NewDh(r, h) == h.dh # r.remote

(* Mutant: the loop starts one index too early. *)
StoreSkippedTooEarly(r, first, last) ==
  [i \in DOMAIN r.skipped \cup (first - 1 .. last - 1) |->
     IF i \in first - 1 .. last - 1 THEN KeyAfter(r.recv.key, i - first)
                                    ELSE r.skipped[i]]

(* Mutant: a key that is stored under the index already is not replaced. *)
StoreSkippedKeepsOld(r, first, last) ==
  [i \in DOMAIN r.skipped \cup (first .. last - 1) |->
     IF i \in DOMAIN r.skipped THEN r.skipped[i] ELSE KeyAfter(r.recv.key, i - first)]

(* Keys first .. last - 1 of the receive chain are kept.  The chain key    *)
(* stands at its current step when the loop starts, whatever `first' is.   *)
StoreSkipped(r, first, last) ==
  [i \in DOMAIN r.skipped \cup (first .. last - 1) |->
     IF i \in first .. last - 1 THEN KeyAfter(r.recv.key, i - first)
                                ELSE r.skipped[i]]

(* A header with a new DH key: store the rest of the old chain, adopt the  *)
(* key, restart both chains.                                               *)
AdoptDh(r, h, fresh) ==
  LET kept == [r EXCEPT !.skipped = StoreSkipped(r, h.prev, r.recv.index),
                        !.remote  = h.dh]
  IN  [ReceiveDhStep(kept, fresh) EXCEPT !.due = TRUE]

(* Mutant: a key taken from the backlog stays in it. *)
FromBacklogNoErase(r, index) ==
  IF index \in DOMAIN r.skipped
  THEN [ratchet |-> r, key |-> r.skipped[index]]
  ELSE [ratchet |-> r, key |-> NoKey]

(* The index was passed before: its key is in skipped_keys, or it throws. *)
FromBacklog(r, index) ==
  IF index \in DOMAIN r.skipped
  THEN [ratchet |-> [r EXCEPT !.skipped = [i \in DOMAIN @ \ {index} |-> @[i]]],
        key     |-> r.skipped[index]]
  ELSE [ratchet |-> r, key |-> NoKey]

(* Mutant: the keys passed over are not stored. *)
FromChainForgetsSkipped(r, index) ==
  LET key == KeyAfter(r.recv.key, index - r.recv.index)
  IN  [ratchet |-> [r EXCEPT !.recv = [index |-> index + 1, key |-> KeyAfter(key, 1)]],
       key     |-> key]

(* The index is ahead: store the keys in between, advance past it. *)
FromChain(r, index) ==
  LET key == KeyAfter(r.recv.key, index - r.recv.index)
  IN  [ratchet |-> [r EXCEPT !.recv    = [index |-> index + 1, key |-> KeyAfter(key, 1)],
                             !.skipped = StoreSkipped(r, r.recv.index, index)],
       key     |-> key]

AdvanceReceive(r, h, fresh) ==
  LET t == IF NewDh(r, h) THEN AdoptDh(r, h, fresh) ELSE r
  IN  IF h.index < t.recv.index THEN FromBacklog(t, h.index) ELSE FromChain(t, h.index)
=============================================================================
