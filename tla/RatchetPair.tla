---------------------------- MODULE RatchetPair ----------------------------
(***************************************************************************)
(* Two devices holding the two ends of one session, over a transport that  *)
(* may reorder, lose and duplicate.  A message is never removed from       *)
(* `sent': any message may be handed to its receiver at any time and any   *)
(* number of times, or never.                                              *)
(*                                                                         *)
(* The two ends are set up in one of the two ways the code allows:         *)
(*   Init         Alice posted the handshake and Bob answered it           *)
(*                (SendingKeyBundle on one side, ReceivingKeyBundle on the *)
(*                other)                                                   *)
(*   CrossedInit  both sent before either fetched the other's handshake,   *)
(*                so both hold an initiator ratchet for the other device   *)
(*                and create_ratchets_if_needed drops both handshakes      *)
(***************************************************************************)
EXTENDS Parties

CONSTANTS
  MaxSends,       \* bound: messages each device sends
  MaxKeys         \* bound: key pairs each device ever holds

(* A device starts with two key pairs. *)
ASSUME Bounds == MaxSends \in Nat /\ MaxKeys \in Nat /\ MaxKeys >= 2

Ephemeral(p) == PublicKey(p, 1)    \* the ephemeral key of p's X3DH

VARIABLES
  ratchet,   \* ratchet[p]: the ratchet p holds for the other device
  made,      \* made[p]: how many key pairs p has made
  sent,      \* sent[p]: sequence of [header, key], key being the one p encrypted under
  got,       \* got[p]: set of [n, key], the key p obtained for the n-th message to it
  returned   \* returned[p]: how many times advance_receive has returned a key to p

vars == <<ratchet, made, sent, got, returned>>

Start(ofAlice, ofBob) ==
  /\ ratchet = [p \in Devices |-> IF p = Alice THEN ofAlice ELSE ofBob]
  /\ made = [p \in Devices |-> 2]
  /\ sent = [p \in Devices |-> << >>]
  /\ got = [p \in Devices |-> {}]
  /\ returned = [p \in Devices |-> 0]

Init ==
  Start(InitiatorRatchet(Ephemeral(Alice), Signed(Bob)),
        RecipientRatchet(Signed(Bob), Ephemeral(Alice)))

CrossedInit ==
  Start(InitiatorRatchet(Ephemeral(Alice), Signed(Bob)),
        InitiatorRatchet(Ephemeral(Bob), Signed(Alice)))

(* get_keys_for_identity on one device: take a key and a header, send.     *)
Send(p) ==
  LET r == AdvanceSend(ratchet[p])
  IN  /\ Len(sent[p]) < MaxSends
      /\ ratchet' = [ratchet EXCEPT ![p] = r.ratchet]
      /\ sent' = [sent EXCEPT ![p] = Append(@, [header |-> r.header, key |-> r.key])]
      /\ UNCHANGED <<made, got, returned>>

(* get_key_for_device: the n-th message of the other device arrives.       *)
Receive(p, n) ==
  LET h == sent[Peer(p)][n].header
      r == AdvanceReceive(ratchet[p], h, PublicKey(p, made[p]))
  IN  /\ NewDh(ratchet[p], h) => made[p] < MaxKeys
      /\ ratchet' = [ratchet EXCEPT ![p] = r.ratchet]
      /\ made' = [made EXCEPT ![p] = IF NewDh(ratchet[p], h) THEN @ + 1 ELSE @]
      /\ got' = [got EXCEPT ![p] = IF r.key = NoKey THEN @ ELSE @ \cup {[n |-> n, key |-> r.key]}]
      /\ returned' = [returned EXCEPT ![p] = IF r.key = NoKey THEN @ ELSE @ + 1]
      /\ UNCHANGED sent

Next ==
  \E p \in Devices :
     \/ Send(p)
     \/ \E n \in DOMAIN sent[Peer(p)] : Receive(p, n)

Spec == Init /\ [][Next]_vars
CrossedSpec == CrossedInit /\ [][Next]_vars

(* The messages p has a key for, and the keys. *)
GotNumbers(p) == {g.n : g \in got[p]}
GotKeys(p) == {g.key : g \in got[p]}

-----------------------------------------------------------------------------
(* Type invariant: the ratchets of NewRatchet.h:43-60, the headers of      *)
(* MessageStructs.h:14-18.                                                 *)
TypeOK ==
  /\ ratchet = [p \in Devices |-> ratchet[p]]
  /\ \A p \in Devices :
       /\ ratchet[p] \in Ratchets(DOMAIN ratchet[p].skipped)
       /\ DOMAIN ratchet[p].skipped \subseteq Nat
  /\ made \in [Devices -> Nat]
  /\ sent \in [Devices -> Seq(Messages)]
  /\ got \in [Devices -> SUBSET [n : Nat, key : MessageKeys]]
  /\ returned \in [Devices -> Nat]

(* Whatever the order, the losses and the duplicates, a key advance_receive *)
(* returns for a message is the key advance_send gave its sender.           *)
KeyAgreement ==
  \A p \in Devices : \A g \in got[p] :
     /\ g.n \in DOMAIN sent[Peer(p)]
     /\ g.key = sent[Peer(p)][g.n].key

(* No two messages, of one device or of both, are encrypted under one key. *)
NoKeyReuse ==
  \A p, q \in Devices : \A m \in DOMAIN sent[p], n \in DOMAIN sent[q] :
     sent[p][m].key = sent[q][n].key => p = q /\ m = n

(* skipped_keys holds exactly the keys of the messages that were passed    *)
(* over and not yet received: none is lost, and none is kept once used     *)
(* (the forward secrecy the erase in advance_receive is there for).        *)
SkippedExact ==
  \A p \in Devices :
     LET passed == {n \in DOMAIN sent[Peer(p)] :
                       /\ sent[Peer(p)][n].header.index < ratchet[p].recv.index
                       /\ n \notin GotNumbers(p)}
     IN  /\ DOMAIN ratchet[p].skipped = {sent[Peer(p)][n].header.index : n \in passed}
         /\ \A n \in passed :
              ratchet[p].skipped[sent[Peer(p)][n].header.index] = sent[Peer(p)][n].key

(* Whatever happened before, a message that has not been received would,   *)
(* if it arrived now, give the sender's key; one that has been received    *)
(* would be refused.                                                       *)
Deliverable ==
  \A p \in Devices : \A n \in DOMAIN sent[Peer(p)] :
     AdvanceReceive(ratchet[p], sent[Peer(p)][n].header, PublicKey(p, made[p])).key =
       IF n \in GotNumbers(p) THEN NoKey ELSE sent[Peer(p)][n].key

(* Forward secrecy of the receiving side: a key p has obtained is not      *)
(* in p's backlog and cannot be derived again from p's receive chain.      *)
ForwardSecrecy ==
  \A p \in Devices : \A g \in got[p] :
     /\ \A i \in DOMAIN ratchet[p].skipped : ratchet[p].skipped[i] # g.key
     /\ ratchet[p].recv.key.secret = g.key.secret /\ ratchet[p].recv.key.label = g.key.label
          => ratchet[p].recv.key.step > g.key.step

(* A session whose first keys disagree is repaired by a reply: a device    *)
(* that has adopted the other's current DH key sends its next message      *)
(* under a key the other will derive.                                      *)
HealsOnReply ==
  \A p \in Devices :
     LET q == Peer(p)
         r == AdvanceSend(ratchet[p])
     IN  ratchet[p].due /\ ratchet[p].remote = ratchet[q].local =>
           AdvanceReceive(ratchet[q], r.header, PublicKey(q, made[q])).key = r.key

(* Across DH steps, a message on the chain p receives on now would, if it  *)
(* arrived now, give the sender's key, unless p has had that: neither the   *)
(* keys that earlier chains left in skipped_keys under the same indices    *)
(* nor a chain that stands at another index than its key are in the way.   *)
CurrentChainServed ==
  \A p \in Devices : \A n \in DOMAIN sent[Peer(p)] :
     LET m == sent[Peer(p)][n]
         chain == ratchet[p].recv.key
     IN  m.key.secret = chain.secret /\ m.key.label = chain.label /\ m.key \notin GotKeys(p)
           => AdvanceReceive(ratchet[p], m.header, PublicKey(p, made[p])).key = m.key

-----------------------------------------------------------------------------
(* Why the session set up by Init keeps these properties: the first DH     *)
(* output serves for ever, each side's chains stand where the counters say *)
(* they do, and the backlog is the part of the passed indices not yet got. *)

Local(p) == IF p = Alice THEN Ephemeral(Alice) ELSE Signed(Bob)
Seed(p) == ChainKey(Dh(Local(Alice), Local(Bob)),
                    IF p = Alice THEN "DRXsend1" ELSE "DRXrecv1")
(* The key of p's message with index i. *)
NthKey(p, i) == KeyAfter(Seed(p), i)

SameDh(p) ==
  /\ ratchet[p].due = FALSE
  /\ ratchet[p].local = Local(p)
  /\ ratchet[p].remote = Local(Peer(p))

SendChainInStep(p) ==
  /\ ratchet[p].send = [index |-> Len(sent[p]), key |-> NthKey(p, Len(sent[p]))]
  /\ \A n \in DOMAIN sent[p] :
       /\ sent[p][n].header.dh = Local(p)
       /\ sent[p][n].header.index = n - 1
       /\ sent[p][n].key = NthKey(p, n - 1)

ReceiveChainInStep(p) ==
  /\ ratchet[p].recv.index <= Len(sent[Peer(p)])
  /\ ratchet[p].recv.key = NthKey(Peer(p), ratchet[p].recv.index)

BacklogInStep(p) ==
  /\ DOMAIN ratchet[p].skipped \subseteq 0 .. ratchet[p].recv.index - 1
  /\ \A i \in DOMAIN ratchet[p].skipped : ratchet[p].skipped[i] = NthKey(Peer(p), i)
  /\ \A g \in got[p] : g.n - 1 \in 0 .. ratchet[p].recv.index - 1 /\ g.key = NthKey(Peer(p), g.n - 1)
  /\ \A i \in 0 .. ratchet[p].recv.index - 1 :
       i \in DOMAIN ratchet[p].skipped <=> i + 1 \notin GotNumbers(p)

SessionInv ==
  \A p \in Devices :
     SameDh(p) /\ SendChainInStep(p) /\ ReceiveChainInStep(p) /\ BacklogInStep(p)

-----------------------------------------------------------------------------
(* The session implements the abstract channel KeyChannel.                 *)

(* The keys a session can use within the bounds of the instance: every DH  *)
(* output is of one key of each device.                                    *)
UsableKeys ==
  [ secret : {Dh(PublicKey(Alice, i), PublicKey(Bob, j)) : i, j \in 0 .. MaxKeys - 1},
    label  : Labels,
    step   : 0 .. MaxSends ]

Channel == INSTANCE KeyChannel WITH
  Keys <- UsableKeys,
  used <- [p \in Devices |-> [n \in DOMAIN sent[p] |-> sent[p][n].key]],
  obtained <- got,
  recovered <- returned

(* The session implements KeyChannel: fresh keys on every send, each        *)
(* message's key returned by advance_receive at most once however often    *)
(* the message arrives, and it is the sender's.                            *)
ImplementsKeyChannel == Channel!Spec
=============================================================================
