------------------------- MODULE RatchetPairProofs -------------------------
(***************************************************************************)
(* What a session promises, for any two devices and any number of          *)
(* messages.                                                               *)
(*   - Set up by one handshake (Spec).  The argument is SessionInv: no     *)
(*     header ever brings a new DH key, so each side's chains stand        *)
(*     exactly where the message counters say and the backlog is the part  *)
(*     of the passed indices that has not been received.                   *)
(*   - However it was set up (Spec or CrossedSpec).  The argument is       *)
(*     AnySessionInv: headers do bring new DH keys, and every chain that   *)
(*     is started then is one nobody has used.                             *)
(***************************************************************************)
EXTENDS RatchetPair, RatchetProofs

-----------------------------------------------------------------------------
(* Devices and keys.                                                       *)

(* The other device is a device, and its other device is the first. *)
LEMMA PeerFacts ==
  ASSUME NEW p \in Devices
  PROVE  /\ Peer(p) \in Devices
         /\ Peer(p) # p
         /\ Peer(Peer(p)) = p
         /\ \A q \in Devices : q = p \/ q = Peer(p)
BY TwoDevices DEF Devices, Peer

(* The DH keys the session starts from. *)
LEMMA LocalType ==
  ASSUME NEW p \in Devices
  PROVE  Local(p) \in PublicKeys
BY DEF Local, Ephemeral, Signed, PublicKey, PublicKeys, Devices

(* The parts of the key of the i-th message. *)
LEMMA NthKeyParts ==
  ASSUME NEW p \in Devices, NEW i \in Nat
  PROVE  NthKey(p, i) = [ secret |-> {Local(Alice), Local(Bob)},
                          label  |-> IF p = Alice THEN "DRXsend1" ELSE "DRXrecv1",
                          step   |-> i ]
BY DEF NthKey, KeyAfter, Seed, ChainKey, Dh

(* It is a message key, and never what a refused message gives. *)
LEMMA NthKeyType ==
  ASSUME NEW p \in Devices, NEW i \in Nat
  PROVE  NthKey(p, i) \in MessageKeys /\ NthKey(p, i) # NoKey
<1>1. Local(Alice) \in PublicKeys /\ Local(Bob) \in PublicKeys
  BY LocalType DEF Devices
<1>2. QED
  BY <1>1, NthKeyParts DEF MessageKeys, Labels, NoKey

(* Progressing the chain j times from its i-th key gives the (i+j)-th. *)
LEMMA NthKeyProgress ==
  ASSUME NEW p \in Devices, NEW i \in Nat, NEW j \in Int, i + j >= 0
  PROVE  KeyAfter(NthKey(p, i), j) = NthKey(p, i + j)
<1>1. i + j \in Nat
  OBVIOUS
<1>2. QED
  BY <1>1, NthKeyParts DEF KeyAfter

LEMMA NthKeyAhead ==
  ASSUME NEW p \in Devices, NEW i \in Nat, NEW j \in Nat, NEW k, k = NthKey(p, i)
  PROVE  KeyAfter(k, j - i) = NthKey(p, j)
<1>1. j - i \in Int /\ i + (j - i) >= 0 /\ i + (j - i) = j
  OBVIOUS
<1> DEFINE d == j - i
<1>2. d \in Int /\ i + d >= 0 /\ i + d = j
  BY <1>1
<1> HIDE DEF d
<1>3. KeyAfter(NthKey(p, i), d) = NthKey(p, j)
  BY <1>2, NthKeyProgress
<1>4. QED
  BY <1>3 DEF d

(* The keys of different messages differ, in both directions. *)
LEMMA NthKeyInjective ==
  ASSUME NEW p \in Devices, NEW q \in Devices, NEW i \in Nat, NEW j \in Nat,
         NthKey(p, i) = NthKey(q, j)
  PROVE  p = q /\ i = j
<1>1. NthKey(p, i).step = i /\ NthKey(q, j).step = j
  BY NthKeyParts
<1>2. NthKey(p, i).label = (IF p = Alice THEN "DRXsend1" ELSE "DRXrecv1")
  BY NthKeyParts
<1>3. NthKey(q, j).label = (IF q = Alice THEN "DRXsend1" ELSE "DRXrecv1")
  BY NthKeyParts
<1>4. QED
  BY <1>1, <1>2, <1>3 DEF Devices

-----------------------------------------------------------------------------
(* What the ratchet operators do to a ratchet with no new DH key in sight. *)

(* advance_send: the key the send chain stands at, and one step on. *)
LEMMA SendResult ==
  ASSUME NEW D, NEW r \in Ratchets(D), r.due = FALSE
  PROVE  /\ AdvanceSend(r).key = r.send.key
         /\ AdvanceSend(r).header = [dh |-> r.local, index |-> r.send.index, prev |-> r.recv.index]
         /\ AdvanceSend(r).ratchet =
              [r EXCEPT !.send = [index |-> r.send.index + 1, key |-> KeyAfter(r.send.key, 1)]]
BY DEF AdvanceSend, ProgressSending, Header, Ratchets, Chains

(* advance_receive of an index passed before whose key is in the backlog. *)
LEMMA BacklogResult ==
  ASSUME NEW r, NEW h, NEW fresh, ~NewDh(r, h), h.index < r.recv.index,
         h.index \in DOMAIN r.skipped
  PROVE  AdvanceReceive(r, h, fresh) =
           [ratchet |-> [r EXCEPT !.skipped = [i \in DOMAIN r.skipped \ {h.index} |-> r.skipped[i]]],
            key     |-> r.skipped[h.index]]
BY DEF AdvanceReceive, FromBacklog

(* advance_receive of an index passed before whose key is gone. *)
LEMMA RefusedResult ==
  ASSUME NEW r, NEW h, NEW fresh, ~NewDh(r, h), h.index < r.recv.index,
         h.index \notin DOMAIN r.skipped
  PROVE  AdvanceReceive(r, h, fresh) = [ratchet |-> r, key |-> NoKey]
BY DEF AdvanceReceive, FromBacklog

(* advance_receive of an index not reached before. *)
LEMMA ChainResult ==
  ASSUME NEW r, NEW h, NEW fresh, ~NewDh(r, h), ~(h.index < r.recv.index)
  PROVE  AdvanceReceive(r, h, fresh) =
           [ratchet |->
              [r EXCEPT !.recv = [index |-> h.index + 1,
                                  key   |-> KeyAfter(KeyAfter(r.recv.key, h.index - r.recv.index), 1)],
                        !.skipped = StoreSkipped(r, r.recv.index, h.index)],
            key |-> KeyAfter(r.recv.key, h.index - r.recv.index)]
BY DEF AdvanceReceive, FromChain

-----------------------------------------------------------------------------
(* The invariant is established.                                           *)

LEMMA InitSession == Init => TypeOK /\ SessionInv
<1> SUFFICES ASSUME Init PROVE TypeOK /\ SessionInv
  OBVIOUS
<1> DEFINE r(p) == [ due |-> FALSE, local |-> Local(p), remote |-> Local(Peer(p)),
                     send |-> NewChain(Seed(p)), recv |-> NewChain(Seed(Peer(p))),
                     skipped |-> NoSkipped ]
<1>1. /\ ratchet = [p \in Devices |-> r(p)]
      /\ made = [p \in Devices |-> 2]
      /\ sent = [p \in Devices |-> << >>]
      /\ got = [p \in Devices |-> {}]
      /\ returned = [p \in Devices |-> 0]
  <2>1. InitiatorRatchet(Ephemeral(Alice), Signed(Bob)) = r(Alice)
    BY TwoDevices DEF InitiatorRatchet, InitialRatchet, Local, Peer, Seed, ChainKey, NewChain, Dh
  <2>2. RecipientRatchet(Signed(Bob), Ephemeral(Alice)) = r(Bob)
    BY TwoDevices DEF RecipientRatchet, InitialRatchet, Local, Peer, Seed, ChainKey, NewChain, Dh
  <2>3. QED
    BY <2>1, <2>2, TwoDevices DEF Init, Start, Devices
<1>2. ASSUME NEW p \in Devices
      PROVE  Seed(p) = NthKey(p, 0) /\ NthKey(p, 0) \in MessageKeys
  BY NthKeyType, NthKeyParts DEF Seed, ChainKey, Dh
<1>3. ASSUME NEW p \in Devices
      PROVE  r(p) \in Ratchets({}) /\ DOMAIN r(p).skipped = {}
  BY <1>2, LocalType, PeerFacts DEF Ratchets, Chains, NewChain, NoSkipped
<1>4. TypeOK
  <2>1. \A p \in Devices : /\ ratchet[p] \in Ratchets(DOMAIN ratchet[p].skipped)
                            /\ DOMAIN ratchet[p].skipped \subseteq Nat
    BY <1>1, <1>3
  <2>2. << >> \in Seq(Messages)
    OBVIOUS
  <2>3. QED
    BY <1>1, <2>1, <2>2 DEF TypeOK
<1>5. SessionInv
  <2> SUFFICES ASSUME NEW p \in Devices
               PROVE  SameDh(p) /\ SendChainInStep(p) /\ ReceiveChainInStep(p) /\ BacklogInStep(p)
    BY DEF SessionInv
  <2>1. ratchet[p] = r(p) /\ sent[p] = << >> /\ sent[Peer(p)] = << >> /\ got[p] = {}
    BY <1>1, PeerFacts
  <2>2. SameDh(p)
    BY <2>1 DEF SameDh
  <2>3. SendChainInStep(p)
    BY <2>1, <1>2 DEF SendChainInStep, NewChain
  <2>4. ReceiveChainInStep(p)
    BY <2>1, <1>2, PeerFacts DEF ReceiveChainInStep, NewChain
  <2>5. BacklogInStep(p)
    BY <2>1, <1>3 DEF BacklogInStep, NewChain
  <2>6. QED
    BY <2>2, <2>3, <2>4, <2>5
<1>6. QED
  BY <1>4, <1>5

-----------------------------------------------------------------------------
(* Sending keeps it.                                                       *)

LEMMA SendSession ==
  ASSUME TypeOK, SessionInv, NEW p \in Devices, Send(p)
  PROVE  TypeOK' /\ SessionInv'
<1> DEFINE r == ratchet[p]
           len == Len(sent[p])
           key == NthKey(p, len)
           message == [header |-> [dh |-> r.local, index |-> len, prev |-> r.recv.index],
                       key    |-> key]
<1>1. /\ r \in Ratchets(DOMAIN r.skipped)
      /\ len \in Nat
      /\ sent[p] \in Seq(Messages)
  BY DEF TypeOK
<1>2. r.due = FALSE /\ r.local = Local(p) /\ r.send = [index |-> len, key |-> key]
  BY DEF SessionInv, SameDh, SendChainInStep
<1>3. KeyAfter(key, 1) = NthKey(p, len + 1)
  BY <1>1, NthKeyProgress
<1>4. /\ ratchet' = [ratchet EXCEPT ![p] = [r EXCEPT !.send = [index |-> len + 1, key |-> NthKey(p, len + 1)]]]
      /\ sent' = [sent EXCEPT ![p] = Append(sent[p], message)]
      /\ made' = made /\ got' = got /\ returned' = returned
  <2>1. /\ AdvanceSend(r).key = key
        /\ AdvanceSend(r).header = message.header
        /\ AdvanceSend(r).ratchet = [r EXCEPT !.send = [index |-> len + 1, key |-> NthKey(p, len + 1)]]
    <3>1. /\ AdvanceSend(r).key = r.send.key
          /\ AdvanceSend(r).header = [dh |-> r.local, index |-> r.send.index, prev |-> r.recv.index]
          /\ AdvanceSend(r).ratchet =
               [r EXCEPT !.send = [index |-> r.send.index + 1, key |-> KeyAfter(r.send.key, 1)]]
      BY <1>1, <1>2, SendResult
    <3>2. r.send.index = len /\ r.send.key = key
      BY <1>2
    <3>3. QED
      BY <3>1, <3>2, <1>3
  <2>2. [header |-> AdvanceSend(r).header, key |-> AdvanceSend(r).key] = message
    BY <2>1
  <2>3. /\ ratchet' = [ratchet EXCEPT ![p] = AdvanceSend(r).ratchet]
        /\ sent' = [sent EXCEPT ![p] = Append(sent[p], [header |-> AdvanceSend(r).header, key |-> AdvanceSend(r).key])]
        /\ made' = made /\ got' = got /\ returned' = returned
    BY DEF Send
  <2>4. QED
    BY <2>1, <2>2, <2>3
<1>5. message \in Messages
  BY <1>1, <1>2, NthKeyType, LocalType DEF Messages, Headers, Ratchets, Chains
<1>6. [index |-> len + 1, key |-> NthKey(p, len + 1)] \in Chains
  BY <1>1, NthKeyType DEF Chains
<1>7. /\ ratchet'[p] = [r EXCEPT !.send = [index |-> len + 1, key |-> NthKey(p, len + 1)]]
      /\ sent'[p] = Append(sent[p], message)
      /\ \A q \in Devices \ {p} : ratchet'[q] = ratchet[q] /\ sent'[q] = sent[q]
  BY <1>4 DEF TypeOK
<1>8. /\ ratchet'[p] \in Ratchets(DOMAIN r.skipped)
      /\ ratchet'[p].due = r.due /\ ratchet'[p].local = r.local
      /\ ratchet'[p].remote = r.remote /\ ratchet'[p].recv = r.recv
      /\ ratchet'[p].skipped = r.skipped
      /\ ratchet'[p].send = [index |-> len + 1, key |-> NthKey(p, len + 1)]
  BY <1>1, <1>6, <1>7 DEF Ratchets
<1>9. TypeOK'
  <2>1. DOMAIN ratchet' = Devices
    BY <1>4 DEF TypeOK
  <2>2. \A q \in Devices : /\ ratchet'[q] \in Ratchets(DOMAIN ratchet'[q].skipped)
                            /\ DOMAIN ratchet'[q].skipped \subseteq Nat
    BY <1>7, <1>8 DEF TypeOK
  <2>3. sent' \in [Devices -> Seq(Messages)]
    BY <1>4, <1>5 DEF TypeOK
  <2>4. QED
    BY <2>1, <2>2, <2>3, <1>4 DEF TypeOK
<1>10. ASSUME NEW q \in Devices
       PROVE  SameDh(q)' /\ ReceiveChainInStep(q)' /\ BacklogInStep(q)'
  <2>1. /\ ratchet'[q].due = ratchet[q].due /\ ratchet'[q].local = ratchet[q].local
        /\ ratchet'[q].remote = ratchet[q].remote /\ ratchet'[q].recv = ratchet[q].recv
        /\ ratchet'[q].skipped = ratchet[q].skipped /\ got'[q] = got[q]
    BY <1>4, <1>7, <1>8
  <2>2. SameDh(q)'
    BY <2>1 DEF SessionInv, SameDh
  <2>3. ReceiveChainInStep(q)'
    <3>1. Len(sent'[Peer(q)]) >= Len(sent[Peer(q)]) /\ Len(sent[Peer(q)]) \in Nat
      <4>1. CASE Peer(q) = p
        BY <4>1, <1>1, <1>5, <1>7
      <4>2. CASE Peer(q) # p
        BY <4>2, <1>7, PeerFacts DEF TypeOK
      <4>3. QED
        BY <4>1, <4>2
    <3>2. ratchet[q].recv.index \in Nat /\ Len(sent'[Peer(q)]) \in Nat
      <4>1. ratchet[q].recv.index \in Nat
        BY DEF TypeOK, Ratchets, Chains
      <4>2. sent' \in [Devices -> Seq(Messages)]
        BY <1>9 DEF TypeOK
      <4>3. QED
        BY <4>1, <4>2, PeerFacts
    <3>3. QED
      BY <2>1, <3>1, <3>2 DEF SessionInv, ReceiveChainInStep
  <2>4. BacklogInStep(q)'
    BY <2>1 DEF SessionInv, BacklogInStep, GotNumbers
  <2>5. QED
    BY <2>2, <2>3, <2>4
<1>11. ASSUME NEW q \in Devices
       PROVE  SendChainInStep(q)'
  <2>1. CASE q # p
    <3>1. ratchet'[q] = ratchet[q] /\ sent'[q] = sent[q]
      BY <2>1, <1>7
    <3>2. QED
      BY <3>1 DEF SessionInv, SendChainInStep
  <2>2. CASE q = p
    <3>1. Len(sent'[p]) = len + 1
      BY <1>1, <1>5, <1>7
    <3>2. ASSUME NEW n \in DOMAIN sent'[p]
          PROVE  /\ sent'[p][n].header.dh = Local(p)
                 /\ sent'[p][n].header.index = n - 1
                 /\ sent'[p][n].key = NthKey(p, n - 1)
      <4>1. n \in 1 .. len + 1
        BY <3>1, <1>1, <1>5, <1>7
      <4>2. CASE n = len + 1
        <5>1. sent'[p][n] = message /\ n - 1 = len
          BY <4>2, <1>1, <1>7
        <5>2. QED
          BY <5>1, <1>2
      <4>3. CASE n # len + 1
        <5>1. n \in DOMAIN sent[p] /\ sent'[p][n] = sent[p][n]
          BY <4>1, <4>3, <1>1, <1>7
        <5>2. QED
          BY <5>1 DEF SessionInv, SendChainInStep
      <4>4. QED
        BY <4>2, <4>3
    <3>3. QED
      BY <2>2, <3>1, <3>2, <1>8 DEF SendChainInStep
  <2>3. QED
    BY <2>1, <2>2
<1>12. QED
  BY <1>9, <1>10, <1>11 DEF SessionInv

-----------------------------------------------------------------------------
(* Receiving keeps it: in the backlog, refused, or ahead of the chain.     *)

(* How many keys a device has had returned is a count. *)
LEMMA CountType ==
  ASSUME TypeOK, NEW p \in Devices, NEW n \in DOMAIN sent[Peer(p)], Receive(p, n)
  PROVE  returned' \in [Devices -> Nat]
<1> DEFINE k == AdvanceReceive(ratchet[p], sent[Peer(p)][n].header, PublicKey(p, made[p])).key
<1>1. returned' = [returned EXCEPT ![p] = IF k = NoKey THEN @ ELSE @ + 1]
  BY DEF Receive
<1>2. returned \in [Devices -> Nat]
  BY DEF TypeOK
<1> HIDE DEF k
<1> QED  BY <1>1, <1>2

(* What the three cases share: only p's receive side changes. *)
LEMMA ReceiveFrame ==
  ASSUME TypeOK, SessionInv, NEW p \in Devices,
         NEW D \in SUBSET Nat, NEW r \in Ratchets(D),
         NEW gained \in SUBSET [n : Nat, key : MessageKeys],
         ratchet' = [ratchet EXCEPT ![p] = r],
         got' = [got EXCEPT ![p] = gained],
         sent' = sent, made' = made, returned' \in [Devices -> Nat],
         r.due = ratchet[p].due, r.local = ratchet[p].local,
         r.remote = ratchet[p].remote, r.send = ratchet[p].send,
         ReceiveChainInStep(p)', BacklogInStep(p)'
  PROVE  TypeOK' /\ SessionInv'
<1>1. /\ ratchet'[p] = r
      /\ \A q \in Devices \ {p} : ratchet'[q] = ratchet[q] /\ got'[q] = got[q]
  BY DEF TypeOK
<1>2. DOMAIN r.skipped = D
  BY DEF Ratchets
<1>3. TypeOK'
  <2>1. \A q \in Devices : /\ ratchet'[q] \in Ratchets(DOMAIN ratchet'[q].skipped)
                            /\ DOMAIN ratchet'[q].skipped \subseteq Nat
    BY <1>1, <1>2 DEF TypeOK
  <2>2. got' \in [Devices -> SUBSET [n : Nat, key : MessageKeys]]
    BY DEF TypeOK
  <2>3. QED
    BY <2>1, <2>2 DEF TypeOK
<1>4. ASSUME NEW q \in Devices
      PROVE  /\ SameDh(q)' /\ SendChainInStep(q)'
             /\ ReceiveChainInStep(q)' /\ BacklogInStep(q)'
  <2>1. /\ ratchet'[q].due = ratchet[q].due /\ ratchet'[q].local = ratchet[q].local
        /\ ratchet'[q].remote = ratchet[q].remote /\ ratchet'[q].send = ratchet[q].send
    BY <1>1
  <2>2. SameDh(q)'
    BY <2>1 DEF SessionInv, SameDh
  <2>3. SendChainInStep(q)'
    BY <2>1 DEF SessionInv, SendChainInStep
  <2>4. CASE q # p
    <3>1. ratchet'[q] = ratchet[q] /\ got'[q] = got[q]
      BY <2>4, <1>1
    <3>2. ReceiveChainInStep(q)' /\ BacklogInStep(q)'
      BY <3>1 DEF SessionInv, ReceiveChainInStep, BacklogInStep, GotNumbers
    <3>3. QED
      BY <2>2, <2>3, <3>2
  <2>5. QED
    BY <2>2, <2>3, <2>4
<1>5. QED
  BY <1>3, <1>4 DEF SessionInv

(* The header of the n-th message, read against the receiver's ratchet. *)
LEMMA HeaderInStep ==
  ASSUME TypeOK, SessionInv, NEW p \in Devices, NEW n \in DOMAIN sent[Peer(p)]
  PROVE  LET h == sent[Peer(p)][n].header
         IN  /\ n \in Nat \ {0} /\ n - 1 \in Nat /\ n <= Len(sent[Peer(p)])
             /\ h.index = n - 1 /\ ~NewDh(ratchet[p], h)
             /\ sent[Peer(p)][n].key = NthKey(Peer(p), n - 1)
             /\ ratchet[p] \in Ratchets(DOMAIN ratchet[p].skipped)
             /\ DOMAIN ratchet[p].skipped \subseteq Nat
             /\ ratchet[p].recv.index \in Nat
             /\ ratchet[p].recv.key = NthKey(Peer(p), ratchet[p].recv.index)
             /\ ratchet[p].recv.index <= Len(sent[Peer(p)])
<1>1. Peer(p) \in Devices
  BY PeerFacts
<1>2. sent[Peer(p)] \in Seq(Messages)
  BY <1>1 DEF TypeOK
<1>3. n \in 1 .. Len(sent[Peer(p)]) /\ Len(sent[Peer(p)]) \in Nat
  BY <1>2
<1>4. /\ sent[Peer(p)][n].header.dh = Local(Peer(p))
      /\ sent[Peer(p)][n].header.index = n - 1
      /\ sent[Peer(p)][n].key = NthKey(Peer(p), n - 1)
  BY <1>1 DEF SessionInv, SendChainInStep
<1>5. ratchet[p].remote = Local(Peer(p))
  BY DEF SessionInv, SameDh
<1>6. /\ ratchet[p] \in Ratchets(DOMAIN ratchet[p].skipped)
      /\ DOMAIN ratchet[p].skipped \subseteq Nat
  BY DEF TypeOK
<1>7. ratchet[p].recv.index \in Nat
  BY <1>6 DEF Ratchets, Chains
<1>8. /\ ratchet[p].recv.key = NthKey(Peer(p), ratchet[p].recv.index)
      /\ ratchet[p].recv.index <= Len(sent[Peer(p)])
  BY DEF SessionInv, ReceiveChainInStep
<1>9. QED
  BY <1>3, <1>4, <1>5, <1>6, <1>7, <1>8 DEF NewDh

(* Obtaining the key of message n0 adds n0 to the messages obtained. *)
LEMMA GotNumbersGrow ==
  ASSUME NEW p \in Devices, NEW n0, NEW k,
         got'[p] = got[p] \cup {[n |-> n0, key |-> k]}
  PROVE  GotNumbers(p)' = GotNumbers(p) \cup {n0}
<1> DEFINE new == [n |-> n0, key |-> k]
<1>1. ASSUME NEW m \in GotNumbers(p)'
      PROVE  m \in GotNumbers(p) \cup {n0}
  <2>1. PICK g \in got'[p] : m = g.n
    BY <1>1 DEF GotNumbers
  <2>2. CASE g \in got[p]
    BY <2>1, <2>2 DEF GotNumbers
  <2>3. CASE g = new
    BY <2>1, <2>3
  <2>4. QED
    BY <2>2, <2>3
<1>2. ASSUME NEW m \in GotNumbers(p) \cup {n0}
      PROVE  m \in GotNumbers(p)'
  <2>1. CASE m \in GotNumbers(p)
    <3>1. PICK g \in got[p] : m = g.n
      BY <2>1 DEF GotNumbers
    <3>2. g \in got'[p]
      OBVIOUS
    <3>3. QED
      BY <3>1, <3>2 DEF GotNumbers
  <2>2. CASE m = n0
    <3>1. new \in got'[p] /\ new.n = n0
      OBVIOUS
    <3>2. QED
      BY <2>2, <3>1 DEF GotNumbers
  <2>3. QED
    BY <2>1, <2>2
<1>3. QED
  BY <1>1, <1>2

(* The key is in the backlog: it is handed out and erased. *)
LEMMA ReceiveBacklog ==
  ASSUME TypeOK, SessionInv, NEW p \in Devices, NEW n \in DOMAIN sent[Peer(p)],
         Receive(p, n), n - 1 \in DOMAIN ratchet[p].skipped
  PROVE  TypeOK' /\ SessionInv'
<1> DEFINE q == Peer(p)
           h == sent[q][n].header
           i == n - 1
           r == ratchet[p]
           D == DOMAIN r.skipped \ {i}
           left == [j \in D |-> r.skipped[j]]
           rNew == [r EXCEPT !.skipped = left]
           gained == got[p] \cup {[n |-> n, key |-> NthKey(q, i)]}
<1>1. /\ q \in Devices /\ n \in Nat /\ i \in Nat /\ h.index = i /\ ~NewDh(r, h)
      /\ r \in Ratchets(DOMAIN r.skipped) /\ DOMAIN r.skipped \subseteq Nat
      /\ r.recv.index \in Nat
  BY HeaderInStep, PeerFacts
<1>2. /\ \A j \in DOMAIN r.skipped : j \in 0 .. r.recv.index - 1 /\ r.skipped[j] = NthKey(q, j)
      /\ \A g \in got[p] : g.n - 1 \in 0 .. r.recv.index - 1 /\ g.key = NthKey(q, g.n - 1)
      /\ \A j \in 0 .. r.recv.index - 1 : j \in DOMAIN r.skipped <=> j + 1 \notin GotNumbers(p)
  BY DEF SessionInv, BacklogInStep
<1>3. i < r.recv.index /\ r.skipped[i] = NthKey(q, i)
  BY <1>1, <1>2
<1>4. AdvanceReceive(r, h, PublicKey(p, made[p])) = [ratchet |-> rNew, key |-> NthKey(q, i)]
  BY <1>1, <1>3, BacklogResult
<1>5. NthKey(q, i) \in MessageKeys /\ NthKey(q, i) # NoKey
  BY <1>1, NthKeyType
<1>6. /\ ratchet' = [ratchet EXCEPT ![p] = rNew]
      /\ got' = [got EXCEPT ![p] = gained]
      /\ sent' = sent
      /\ made' = [made EXCEPT ![p] = made[p]]
  BY <1>1, <1>4, <1>5 DEF Receive
<1>7. made' = made
  BY <1>6 DEF TypeOK
<1>8. left \in [D -> MessageKeys]
  BY <1>1 DEF Ratchets
<1>9. /\ rNew \in Ratchets(D) /\ D \in SUBSET Nat
      /\ rNew.due = r.due /\ rNew.local = r.local /\ rNew.remote = r.remote
      /\ rNew.send = r.send /\ rNew.recv = r.recv /\ rNew.skipped = left
  BY <1>1, <1>8 DEF Ratchets
<1>10. gained \in SUBSET [n : Nat, key : MessageKeys]
  BY <1>1, <1>5 DEF TypeOK
<1>11. /\ ratchet'[p] = rNew /\ got'[p] = gained /\ sent'[q] = sent[q]
  BY <1>6 DEF TypeOK
<1>12. ReceiveChainInStep(p)'
  BY <1>9, <1>11 DEF SessionInv, ReceiveChainInStep
<1>13. BacklogInStep(p)'
  <2>1. D \subseteq 0 .. r.recv.index - 1 /\ \A j \in D : left[j] = NthKey(q, j)
    BY <1>2
  <2>2. \A g \in gained : g.n - 1 \in 0 .. r.recv.index - 1 /\ g.key = NthKey(q, g.n - 1)
    BY <1>1, <1>2, <1>3
  <2>3. GotNumbers(p)' = GotNumbers(p) \cup {n}
    BY <1>11, GotNumbersGrow
  <2>4. ASSUME NEW j \in 0 .. r.recv.index - 1
        PROVE  j \in D <=> j + 1 \notin GotNumbers(p) \cup {n}
    BY <1>1, <1>2
  <2>5. /\ ratchet'[p].skipped = left /\ DOMAIN left = D
        /\ ratchet'[p].recv.index = r.recv.index /\ got'[p] = gained
    BY <1>9, <1>11
  <2>6. QED
    BY <2>1, <2>2, <2>3, <2>4, <2>5 DEF BacklogInStep
<1>14. QED
  BY <1>6, <1>7, <1>9, <1>10, <1>12, <1>13, CountType, ReceiveFrame

(* The index was passed and its key is gone: nothing changes. *)
LEMMA ReceiveRefused ==
  ASSUME TypeOK, SessionInv, NEW p \in Devices, NEW n \in DOMAIN sent[Peer(p)],
         Receive(p, n), n - 1 < ratchet[p].recv.index,
         n - 1 \notin DOMAIN ratchet[p].skipped
  PROVE  UNCHANGED vars
<1> DEFINE h == sent[Peer(p)][n].header
<1>1. h.index = n - 1 /\ ~NewDh(ratchet[p], h)
  BY HeaderInStep
<1>2. AdvanceReceive(ratchet[p], h, PublicKey(p, made[p])) = [ratchet |-> ratchet[p], key |-> NoKey]
  BY <1>1, RefusedResult
<1>3. /\ ratchet' = [ratchet EXCEPT ![p] = ratchet[p]]
      /\ got' = [got EXCEPT ![p] = got[p]]
      /\ made' = [made EXCEPT ![p] = made[p]]
      /\ returned' = [returned EXCEPT ![p] = returned[p]]
      /\ sent' = sent
  BY <1>1, <1>2 DEF Receive
<1>4. made' = made /\ got' = got /\ returned' = returned
  BY <1>3 DEF TypeOK
<1>5. ratchet' = ratchet
  BY <1>3 DEF TypeOK
<1>6. QED
  BY <1>3, <1>4, <1>5 DEF vars

(* The index is ahead: the keys passed over go to the backlog. *)
LEMMA ReceiveAhead ==
  ASSUME TypeOK, SessionInv, NEW p \in Devices, NEW n \in DOMAIN sent[Peer(p)],
         Receive(p, n), ~(n - 1 < ratchet[p].recv.index)
  PROVE  TypeOK' /\ SessionInv'
<1> DEFINE q == Peer(p)
           h == sent[q][n].header
           i == n - 1
           r == ratchet[p]
           first == r.recv.index
           D == DOMAIN r.skipped \cup (first .. i - 1)
           kept == [j \in D |-> IF j \in first .. i - 1 THEN KeyAfter(r.recv.key, j - first)
                                                        ELSE r.skipped[j]]
           recv == [index |-> n, key |-> NthKey(q, n)]
           rNew == [r EXCEPT !.recv = recv, !.skipped = kept]
           gained == got[p] \cup {[n |-> n, key |-> NthKey(q, i)]}
<1>1. /\ q \in Devices /\ n \in Nat /\ i \in Nat /\ h.index = i /\ ~NewDh(r, h)
      /\ r \in Ratchets(DOMAIN r.skipped) /\ DOMAIN r.skipped \subseteq Nat
      /\ first \in Nat /\ r.recv.key = NthKey(q, first) /\ n <= Len(sent[q])
  BY HeaderInStep, PeerFacts
<1>2. /\ \A j \in DOMAIN r.skipped : j \in 0 .. first - 1 /\ r.skipped[j] = NthKey(q, j)
      /\ \A g \in got[p] : g.n - 1 \in 0 .. first - 1 /\ g.key = NthKey(q, g.n - 1)
      /\ \A j \in 0 .. first - 1 : j \in DOMAIN r.skipped <=> j + 1 \notin GotNumbers(p)
  BY DEF SessionInv, BacklogInStep
<1>3. first <= i
  BY <1>1
<1>4. KeyAfter(r.recv.key, i - first) = NthKey(q, i)
  BY <1>1, NthKeyAhead, Zenon
<1>5. KeyAfter(NthKey(q, i), 1) = NthKey(q, n)
  BY <1>1, NthKeyProgress
<1>6. /\ NthKey(q, i) \in MessageKeys /\ NthKey(q, i) # NoKey
      /\ NthKey(q, n) \in MessageKeys
  BY <1>1, NthKeyType
<1>7. AdvanceReceive(r, h, PublicKey(p, made[p])) = [ratchet |-> rNew, key |-> NthKey(q, i)]
  <2>1. AdvanceReceive(r, h, PublicKey(p, made[p])) =
          [ratchet |->
             [r EXCEPT !.recv = [index |-> h.index + 1,
                                 key   |-> KeyAfter(KeyAfter(r.recv.key, h.index - r.recv.index), 1)],
                       !.skipped = StoreSkipped(r, r.recv.index, h.index)],
           key |-> KeyAfter(r.recv.key, h.index - r.recv.index)]
    BY <1>1, ChainResult
  <2>2. StoreSkipped(r, r.recv.index, h.index) = kept
    BY <1>1 DEF StoreSkipped
  <2>3. h.index + 1 = n
    BY <1>1
  <2>4. QED
    BY <1>1, <1>4, <1>5, <2>1, <2>2, <2>3
<1>8. /\ ratchet' = [ratchet EXCEPT ![p] = rNew]
      /\ got' = [got EXCEPT ![p] = gained]
      /\ sent' = sent
      /\ made' = [made EXCEPT ![p] = made[p]]
  BY <1>1, <1>6, <1>7 DEF Receive
<1>9. made' = made
  BY <1>8 DEF TypeOK
<1>10. ASSUME NEW j \in D
       PROVE  j \in 0 .. n - 1 /\ j # i /\ kept[j] = NthKey(q, j)
  <2>1. CASE j \in first .. i - 1
    <3>1. KeyAfter(r.recv.key, j - first) = NthKey(q, j)
      <4>1. j \in Nat
        BY <2>1, <1>1
      <4>2. QED
        BY <1>1, <4>1, NthKeyAhead, Zenon
    <3>2. QED
      BY <2>1, <3>1, <1>1
  <2>2. CASE j \notin first .. i - 1
    <3>1. j \in DOMAIN r.skipped /\ kept[j] = r.skipped[j]
      BY <2>2
    <3>2. QED
      BY <3>1, <1>1, <1>2, <1>3
  <2>3. QED
    BY <2>1, <2>2
<1>11. kept \in [D -> MessageKeys] /\ D \in SUBSET Nat
  <2>1. \A j \in D : j \in Nat /\ NthKey(q, j) \in MessageKeys
    BY <1>10, <1>1, NthKeyType
  <2>2. QED
    BY <1>10, <2>1
<1>12. recv \in Chains
  BY <1>1, <1>6 DEF Chains
<1>13. /\ rNew \in Ratchets(D)
       /\ rNew.due = r.due /\ rNew.local = r.local /\ rNew.remote = r.remote
       /\ rNew.send = r.send /\ rNew.recv = recv /\ rNew.skipped = kept
  <2> HIDE DEF kept, recv, D
  <2>1. QED
    BY <1>1, <1>11, <1>12 DEF Ratchets
<1>14. gained \in SUBSET [n : Nat, key : MessageKeys]
  BY <1>1, <1>6 DEF TypeOK
<1>15. /\ ratchet'[p] = rNew /\ got'[p] = gained /\ sent'[q] = sent[q]
  BY <1>8 DEF TypeOK
<1>16. ReceiveChainInStep(p)'
  BY <1>1, <1>13, <1>15 DEF ReceiveChainInStep
<1>17. BacklogInStep(p)'
  <2>1. \A g \in gained : g.n - 1 \in 0 .. n - 1 /\ g.key = NthKey(q, g.n - 1)
    BY <1>1, <1>2, <1>3
  <2>2. GotNumbers(p)' = GotNumbers(p) \cup {n}
    BY <1>15, GotNumbersGrow
  <2>3. ASSUME NEW j \in 0 .. n - 1
        PROVE  j \in D <=> j + 1 \notin GotNumbers(p) \cup {n}
    <3>1. CASE j < first
      BY <3>1, <1>1, <1>2, <1>3
    <3>2. CASE first <= j /\ j < i
      <4>1. j + 1 \notin GotNumbers(p)
        BY <3>2, <1>1, <1>2 DEF GotNumbers
      <4>2. QED
        BY <3>2, <4>1, <1>1
    <3>3. CASE j = i
      <4>1. i \notin D
        BY <1>10
      <4>2. j + 1 = n
        BY <3>3, <1>1
      <4>3. QED
        BY <3>3, <4>1, <4>2
    <3>4. QED
      BY <3>1, <3>2, <3>3, <1>1
  <2>4. /\ ratchet'[p].skipped = kept /\ DOMAIN kept = D
        /\ ratchet'[p].recv.index = n /\ got'[p] = gained
    BY <1>13, <1>15
  <2>5. D \subseteq 0 .. n - 1 /\ \A j \in D : kept[j] = NthKey(q, j)
    BY <1>10
  <2> HIDE DEF kept, D, gained
  <2>6. QED
    BY <2>1, <2>2, <2>3, <2>4, <2>5 DEF BacklogInStep
<1>18. QED
  BY <1>8, <1>9, <1>11, <1>13, <1>14, <1>16, <1>17, CountType, ReceiveFrame

-----------------------------------------------------------------------------
(* The theorems.                                                           *)

LEMMA NextSession == TypeOK /\ SessionInv /\ [Next]_vars => TypeOK' /\ SessionInv'
<1> SUFFICES ASSUME TypeOK, SessionInv, [Next]_vars
             PROVE  TypeOK' /\ SessionInv'
  OBVIOUS
<1>1. ASSUME UNCHANGED vars
      PROVE  TypeOK' /\ SessionInv'
  BY <1>1 DEF vars, TypeOK, SessionInv, SameDh, SendChainInStep, ReceiveChainInStep,
              BacklogInStep, GotNumbers
<1>2. ASSUME NEW p \in Devices, Send(p)
      PROVE  TypeOK' /\ SessionInv'
  BY <1>2, SendSession
<1>3. ASSUME NEW p \in Devices, NEW n \in DOMAIN sent[Peer(p)], Receive(p, n)
      PROVE  TypeOK' /\ SessionInv'
  <2>1. CASE n - 1 \in DOMAIN ratchet[p].skipped
    BY <1>3, <2>1, ReceiveBacklog
  <2>2. CASE n - 1 \notin DOMAIN ratchet[p].skipped /\ n - 1 < ratchet[p].recv.index
    BY <1>1, <1>3, <2>2, ReceiveRefused
  <2>3. CASE ~(n - 1 < ratchet[p].recv.index)
    BY <1>3, <2>3, ReceiveAhead
  <2>4. QED
    BY <2>1, <2>2, <2>3
<1>4. QED
  BY <1>1, <1>2, <1>3 DEF Next

(* The state of a session is always of the declared types, and the session *)
(* is always in step with its message counters.                            *)
THEOREM SessionStaysInStep == Spec => [](TypeOK /\ SessionInv)
<1>1. Init => TypeOK /\ SessionInv
  BY InitSession
<1>2. TypeOK /\ SessionInv /\ [Next]_vars => (TypeOK /\ SessionInv)'
  BY NextSession
<1>3. QED
  BY <1>1, <1>2, PTL DEF Spec

(* The ratchet, the headers and the keys obtained keep their types. *)
THEOREM TypeCorrect == Spec => []TypeOK
BY SessionStaysInStep, PTL

(* Every key advance_receive returns is the key its sender used, whatever  *)
(* the order, the losses and the duplicates.                               *)
THEOREM KeysAgree == Spec => []KeyAgreement
<1>1. TypeOK /\ SessionInv => KeyAgreement
  <2> SUFFICES ASSUME TypeOK, SessionInv, NEW p \in Devices, NEW g \in got[p]
               PROVE  g.n \in DOMAIN sent[Peer(p)] /\ g.key = sent[Peer(p)][g.n].key
    BY DEF KeyAgreement
  <2>1. /\ Peer(p) \in Devices /\ sent[Peer(p)] \in Seq(Messages)
        /\ ratchet[p].recv.index \in Nat /\ g.n \in Nat
    BY PeerFacts DEF TypeOK, Ratchets, Chains
  <2>2. /\ g.n - 1 \in 0 .. ratchet[p].recv.index - 1
        /\ ratchet[p].recv.index <= Len(sent[Peer(p)])
        /\ g.key = NthKey(Peer(p), g.n - 1)
    BY DEF SessionInv, BacklogInStep, ReceiveChainInStep
  <2>3. g.n \in DOMAIN sent[Peer(p)]
    BY <2>1, <2>2
  <2>4. QED
    BY <2>1, <2>2, <2>3 DEF SessionInv, SendChainInStep
<1>2. QED
  BY <1>1, SessionStaysInStep, PTL

(* No two messages of the session share a key. *)
THEOREM KeysAreFresh == Spec => []NoKeyReuse
<1>1. TypeOK /\ SessionInv => NoKeyReuse
  <2> SUFFICES ASSUME TypeOK, SessionInv, NEW p \in Devices, NEW q \in Devices,
                      NEW m \in DOMAIN sent[p], NEW n \in DOMAIN sent[q],
                      sent[p][m].key = sent[q][n].key
               PROVE  p = q /\ m = n
    BY DEF NoKeyReuse
  <2>1. m - 1 \in Nat /\ n - 1 \in Nat /\ m \in Nat /\ n \in Nat
    BY DEF TypeOK
  <2>2. sent[p][m].key = NthKey(p, m - 1) /\ sent[q][n].key = NthKey(q, n - 1)
    BY DEF SessionInv, SendChainInStep
  <2>3. NthKey(p, m - 1) = NthKey(q, n - 1)
    BY <2>2
  <2>4. p = q /\ m - 1 = n - 1
    BY <2>1, <2>3, NthKeyInjective
  <2>5. QED
    BY <2>1, <2>4
<1>2. QED
  BY <1>1, SessionStaysInStep, PTL

-----------------------------------------------------------------------------
(* Where the backlog and the counters of a session stand for one message.  *)

LEMMA MessageInStep ==
  ASSUME TypeOK, SessionInv, NEW p \in Devices, NEW n \in DOMAIN sent[Peer(p)]
  PROVE  /\ n - 1 \in Nat /\ n = (n - 1) + 1
         /\ sent[Peer(p)][n].header.index = n - 1
         /\ sent[Peer(p)][n].header.dh = ratchet[p].remote
         /\ sent[Peer(p)][n].key = NthKey(Peer(p), n - 1)
         /\ ratchet[p].recv.index \in Nat
         /\ ratchet[p].recv.key = NthKey(Peer(p), ratchet[p].recv.index)
         /\ n \in GotNumbers(p) => n - 1 < ratchet[p].recv.index
         /\ n - 1 < ratchet[p].recv.index =>
              (n - 1 \in DOMAIN ratchet[p].skipped <=> n \notin GotNumbers(p))
         /\ n - 1 \in DOMAIN ratchet[p].skipped => ratchet[p].skipped[n - 1] = NthKey(Peer(p), n - 1)
<1>1. /\ Peer(p) \in Devices /\ Peer(Peer(p)) = p /\ sent[Peer(p)] \in Seq(Messages)
      /\ ratchet[p].recv.index \in Nat
  BY PeerFacts DEF TypeOK, Ratchets, Chains
<1>2. n \in Nat /\ n - 1 \in Nat /\ n = (n - 1) + 1
  BY <1>1
<1>3. /\ sent[Peer(p)][n].header.index = n - 1
      /\ sent[Peer(p)][n].header.dh = ratchet[p].remote
      /\ sent[Peer(p)][n].key = NthKey(Peer(p), n - 1)
  BY <1>1 DEF SessionInv, SendChainInStep, SameDh
<1>4. ratchet[p].recv.key = NthKey(Peer(p), ratchet[p].recv.index)
  BY DEF SessionInv, ReceiveChainInStep
<1>5. ASSUME n \in GotNumbers(p) PROVE n - 1 < ratchet[p].recv.index
  <2>1. PICK g \in got[p] : g.n = n
    BY <1>5 DEF GotNumbers
  <2>2. g.n - 1 \in 0 .. ratchet[p].recv.index - 1
    BY DEF SessionInv, BacklogInStep
  <2>3. QED
    BY <1>1, <1>2, <2>1, <2>2
<1>6. ASSUME n - 1 < ratchet[p].recv.index
      PROVE  n - 1 \in DOMAIN ratchet[p].skipped <=> n \notin GotNumbers(p)
  <2>1. n - 1 \in 0 .. ratchet[p].recv.index - 1
    BY <1>1, <1>2, <1>6
  <2>2. n - 1 \in DOMAIN ratchet[p].skipped <=> (n - 1) + 1 \notin GotNumbers(p)
    BY <2>1 DEF SessionInv, BacklogInStep
  <2>3. QED
    BY <1>2, <2>2
<1>7. n - 1 \in DOMAIN ratchet[p].skipped => ratchet[p].skipped[n - 1] = NthKey(Peer(p), n - 1)
  BY DEF SessionInv, BacklogInStep
<1>8. QED
  BY <1>1, <1>2, <1>3, <1>4, <1>5, <1>6, <1>7

(* skipped_keys holds the keys of the messages passed over and not yet     *)
(* received, and nothing else.                                             *)
THEOREM BacklogIsExact == Spec => []SkippedExact
<1>1. TypeOK /\ SessionInv => SkippedExact
  <2> SUFFICES ASSUME TypeOK, SessionInv, NEW p \in Devices
      PROVE LET passed == {n \in DOMAIN sent[Peer(p)] :
                             /\ sent[Peer(p)][n].header.index < ratchet[p].recv.index
                             /\ n \notin GotNumbers(p)}
            IN  /\ DOMAIN ratchet[p].skipped = {sent[Peer(p)][n].header.index : n \in passed}
                /\ \A n \in passed :
                     ratchet[p].skipped[sent[Peer(p)][n].header.index] = sent[Peer(p)][n].key
    BY DEF SkippedExact
  <2> DEFINE passed == {n \in DOMAIN sent[Peer(p)] :
                          /\ sent[Peer(p)][n].header.index < ratchet[p].recv.index
                          /\ n \notin GotNumbers(p)}
  <2>1. \A n \in passed : /\ sent[Peer(p)][n].header.index = n - 1
                          /\ n - 1 \in DOMAIN ratchet[p].skipped
                          /\ ratchet[p].skipped[n - 1] = sent[Peer(p)][n].key
    BY MessageInStep
  <2>2. ASSUME NEW i \in DOMAIN ratchet[p].skipped
        PROVE  i + 1 \in passed /\ sent[Peer(p)][i + 1].header.index = i
    <3>1. /\ Peer(p) \in Devices /\ sent[Peer(p)] \in Seq(Messages)
          /\ ratchet[p].recv.index \in Nat /\ ratchet[p].recv.index <= Len(sent[Peer(p)])
      BY PeerFacts DEF TypeOK, Ratchets, Chains, SessionInv, ReceiveChainInStep
    <3>2. i \in 0 .. ratchet[p].recv.index - 1
      BY DEF SessionInv, BacklogInStep
    <3>3. i + 1 \in DOMAIN sent[Peer(p)] /\ (i + 1) - 1 = i
      BY <3>1, <3>2
    <3>4. sent[Peer(p)][i + 1].header.index = i
      BY <3>3, MessageInStep
    <3>5. i + 1 \notin GotNumbers(p)
      BY <3>2 DEF SessionInv, BacklogInStep
    <3>6. i < ratchet[p].recv.index
      BY <3>1, <3>2
    <3>7. QED
      BY <3>3, <3>4, <3>5, <3>6
  <2> HIDE DEF passed
  <2>3. DOMAIN ratchet[p].skipped = {sent[Peer(p)][n].header.index : n \in passed}
    BY <2>1, <2>2
  <2>4. \A n \in passed :
           ratchet[p].skipped[sent[Peer(p)][n].header.index] = sent[Peer(p)][n].key
    BY <2>1
  <2>5. QED
    BY <2>3, <2>4 DEF passed
<1>2. QED
  BY <1>1, SessionStaysInStep, PTL

(* The keys advance_receive returns, without what it does to the ratchet. *)
LEMMA BacklogGives ==
  ASSUME NEW r, NEW h, NEW fresh, ~NewDh(r, h), h.index < r.recv.index,
         h.index \in DOMAIN r.skipped
  PROVE  AdvanceReceive(r, h, fresh).key = r.skipped[h.index]
BY DEF AdvanceReceive, FromBacklog

LEMMA ChainGives ==
  ASSUME NEW r, NEW h, NEW fresh, ~NewDh(r, h), ~(h.index < r.recv.index)
  PROVE  AdvanceReceive(r, h, fresh).key = KeyAfter(r.recv.key, h.index - r.recv.index)
BY DEF AdvanceReceive, FromChain

(* The key any message would be given if it arrived now. *)
LEMMA ServedInStep == TypeOK /\ SessionInv => Deliverable
<1> SUFFICES ASSUME TypeOK, SessionInv, NEW p \in Devices, NEW n \in DOMAIN sent[Peer(p)]
             PROVE  AdvanceReceive(ratchet[p], sent[Peer(p)][n].header,
                                   PublicKey(p, made[p])).key =
                      IF n \in GotNumbers(p) THEN NoKey ELSE sent[Peer(p)][n].key
  BY DEF Deliverable
<1> DEFINE h == sent[Peer(p)][n].header
           r == ratchet[p]
<1>1. ~NewDh(r, h) /\ h.index = n - 1
  BY MessageInStep DEF NewDh
<1>2. CASE n - 1 \in DOMAIN r.skipped
  <2>1. n \notin GotNumbers(p) /\ n - 1 < r.recv.index
    <3>1. n - 1 \in 0 .. r.recv.index - 1 /\ n - 1 \in Nat /\ r.recv.index \in Nat
      BY <1>2, MessageInStep DEF SessionInv, BacklogInStep
    <3>2. n - 1 < r.recv.index
      BY <3>1
    <3>3. QED
      BY <1>2, <3>2, MessageInStep
  <2>2. AdvanceReceive(r, h, PublicKey(p, made[p])).key = r.skipped[h.index]
    BY <1>1, <1>2, <2>1, BacklogGives
  <2>3. QED
    BY <1>1, <1>2, <2>1, <2>2, MessageInStep
<1>3. CASE n - 1 \notin DOMAIN r.skipped /\ n - 1 < r.recv.index
  <2>1. n \in GotNumbers(p)
    BY <1>3, MessageInStep
  <2>2. AdvanceReceive(r, h, PublicKey(p, made[p])).key = NoKey
    BY <1>1, <1>3, RefusedResult
  <2>3. QED
    BY <2>1, <2>2
<1>4. CASE ~(n - 1 < r.recv.index)
  <2>1. n \notin GotNumbers(p)
    BY <1>4, MessageInStep
  <2>2. AdvanceReceive(r, h, PublicKey(p, made[p])).key
          = KeyAfter(r.recv.key, h.index - r.recv.index)
    BY <1>1, <1>4, ChainGives
  <2>3. /\ Peer(p) \in Devices /\ r.recv.index \in Nat /\ n - 1 \in Nat
        /\ r.recv.key = NthKey(Peer(p), r.recv.index)
    BY PeerFacts, MessageInStep
  <2>4. KeyAfter(r.recv.key, (n - 1) - r.recv.index) = NthKey(Peer(p), n - 1)
    BY <2>3, NthKeyAhead, Zenon
  <2>5. QED
    BY <1>1, <2>1, <2>2, <2>4, MessageInStep
<1>5. QED
  BY <1>2, <1>3, <1>4

(* At every moment, any message not yet received would be given its        *)
(* sender's key if it arrived now, and any other would be refused.         *)
THEOREM AnyOrderIsServed == Spec => []Deliverable
BY ServedInStep, SessionStaysInStep, PTL

-----------------------------------------------------------------------------
(* The session implements KeyChannel.                                      *)

Used == [p \in Devices |-> [n \in DOMAIN sent[p] |-> sent[p][n].key]]

(* Sending is Use, under the next key of the chain, which nobody has used. *)
LEMMA SendUses ==
  ASSUME TypeOK, SessionInv, NEW p \in Devices, Send(p)
  PROVE  Channel!Use(p)
<1> DEFINE r == AdvanceSend(ratchet[p])
           m == [header |-> r.header, key |-> r.key]
           N == Len(sent[p])
<1>1. sent[p] \in Seq(Messages) /\ N \in Nat /\ N < MaxSends /\ DOMAIN sent = Devices
  BY DEF TypeOK, Send
<1>2. sent' = [sent EXCEPT ![p] = Append(@, m)] /\ UNCHANGED <<got, returned>>
  BY DEF Send
<1>3. r.key = NthKey(p, N)
  <2>1. ratchet[p] \in Ratchets(DOMAIN ratchet[p].skipped) /\ ratchet[p].due = FALSE
    BY DEF TypeOK, SessionInv, SameDh
  <2>2. r.key = ratchet[p].send.key
    BY <2>1, SendResult
  <2>3. ratchet[p].send = [index |-> N, key |-> NthKey(p, N)]
    BY DEF SessionInv, SendChainInStep
  <2>4. QED
    BY <2>2, <2>3
<1>4. r.key \in UsableKeys
  <2> DEFINE Secrets == {Dh(PublicKey(Alice, i), PublicKey(Bob, j)) : i, j \in 0 .. MaxKeys - 1}
             label == IF p = Alice THEN "DRXsend1" ELSE "DRXrecv1"
  <2>1. Dh(Local(Alice), Local(Bob)) \in Secrets
    <3>1. Local(Alice) = PublicKey(Alice, 1) /\ Local(Bob) = PublicKey(Bob, 0)
      BY TwoDevices DEF Local, Ephemeral, Signed
    <3>2. 0 \in 0 .. MaxKeys - 1 /\ 1 \in 0 .. MaxKeys - 1
      BY Bounds
    <3>3. QED
      BY <3>1, <3>2
  <2>2. N \in 0 .. MaxSends
    BY <1>1, Bounds
  <2>3. NthKey(p, N) = [secret |-> Dh(Local(Alice), Local(Bob)), label |-> label, step |-> N]
    BY <1>1, NthKeyParts DEF Dh
  <2>4. label \in Labels
    BY DEF Labels
  <2> HIDE DEF Secrets, label, r
  <2>5. NthKey(p, N) \in [secret : Secrets, label : Labels, step : 0 .. MaxSends]
    BY <2>1, <2>2, <2>3, <2>4
  <2>6. QED
    BY <1>3, <2>5 DEF UsableKeys, Secrets
<1>5. ASSUME NEW q \in Devices, NEW n \in DOMAIN sent[q] PROVE sent[q][n].key # r.key
  <2>1. n \in 1 .. Len(sent[q]) /\ n - 1 \in Nat
    BY DEF TypeOK
  <2>2. sent[q][n].key = NthKey(q, n - 1)
    BY DEF SessionInv, SendChainInStep
  <2>3. q = p => n - 1 # N
    BY <1>1, <2>1
  <2>4. QED
    BY <1>1, <1>3, <2>1, <2>2, <2>3, NthKeyInjective
<1> HIDE DEF r
<1>6. r.key \notin Channel!UsedKeys(Alice) \cup Channel!UsedKeys(Bob)
  BY <1>5 DEF Channel!UsedKeys, Devices
<1>7. Used' = [Used EXCEPT ![p] = Append(@, r.key)]
  <2>1. ASSUME NEW q \in Devices
        PROVE  Used'[q] = [Used EXCEPT ![p] = Append(@, r.key)][q]
    <3>1. CASE q # p
      BY <1>1, <1>2, <3>1 DEF Used
    <3>2. CASE q = p
      <4>1. sent'[p] = Append(sent[p], m)
        BY <1>1, <1>2
      <4>2. DOMAIN sent[p] = 1 .. N /\ DOMAIN sent'[p] = 1 .. N + 1
        BY <1>1, <4>1
      <4>3. \A n \in 1 .. N + 1 : sent'[p][n] = IF n = N + 1 THEN m ELSE sent[p][n]
        BY <1>1, <4>1
      <4>4. Used[p] = [n \in 1 .. N |-> sent[p][n].key]
        BY <4>2 DEF Used
      <4>5. \A n \in 1 .. N : sent[p][n].key \in MessageKeys
        <5>1. \A n \in 1 .. N : sent[p][n] \in Messages
          BY <1>1, <4>2
        <5>2. QED
          BY <5>1 DEF Messages
      <4>6. r.key \in MessageKeys
        BY <1>1, <1>3, NthKeyType
      <4>7. Used[p] \in Seq(MessageKeys) /\ Len(Used[p]) = N
        BY <1>1, <4>4, <4>5
      <4>8. Append(Used[p], r.key) = [n \in 1 .. N + 1 |-> IF n = N + 1 THEN r.key ELSE Used[p][n]]
        BY <1>1, <4>6, <4>7
      <4>9. Used'[p] = [n \in 1 .. N + 1 |-> sent'[p][n].key]
        BY <4>2 DEF Used
      <4>10. \A n \in 1 .. N + 1 :
               sent'[p][n].key = IF n = N + 1 THEN r.key ELSE Used[p][n]
        BY <1>1, <4>3, <4>4
      <4>11. Used'[p] = Append(Used[p], r.key)
        BY <4>8, <4>9, <4>10
      <4>12. QED
        BY <3>2, <4>11 DEF Used
    <3>3. QED
      BY <3>1, <3>2
  <2>2. QED
    BY <2>1 DEF Used
<1>8. QED
  BY <1>2, <1>4, <1>6, <1>7 DEF Channel!Use, Used

(* Receiving is Obtain when it gives a key, and changes nothing otherwise. *)
LEMMA ReceiveObtains ==
  ASSUME TypeOK, SessionInv, NEW p \in Devices, NEW n \in DOMAIN sent[Peer(p)], Receive(p, n)
  PROVE  Channel!Obtain(p) \/ UNCHANGED Channel!channelVars
<1> DEFINE k == AdvanceReceive(ratchet[p], sent[Peer(p)][n].header, PublicKey(p, made[p])).key
<1>1. /\ UNCHANGED sent
      /\ got' = [got EXCEPT ![p] = IF k = NoKey THEN @ ELSE @ \cup {[n |-> n, key |-> k]}]
      /\ returned' = [returned EXCEPT ![p] = IF k = NoKey THEN @ ELSE @ + 1]
  BY DEF Receive
<1>2. k = IF n \in GotNumbers(p) THEN NoKey ELSE sent[Peer(p)][n].key
  BY ServedInStep DEF Deliverable
<1> HIDE DEF k
<1>3. DOMAIN got = Devices /\ Peer(p) \in Devices
  BY PeerFacts DEF TypeOK
<1>4. CASE n \in GotNumbers(p)
  <2>1. got' = got /\ returned' = returned
    BY <1>1, <1>2, <1>3, <1>4 DEF TypeOK
  <2>2. QED
    BY <1>1, <2>1 DEF Channel!channelVars
<1>5. CASE n \notin GotNumbers(p)
  <2>1. k = sent[Peer(p)][n].key /\ k # NoKey
    BY <1>2, <1>3, <1>5, MessageInStep, NthKeyType
  <2>2. \A g \in got[p] : g.n # n
    BY <1>5 DEF GotNumbers
  <2>3. Channel!Other(p) = Peer(p)
    BY DEF Channel!Other, Peer
  <2>4. n \in DOMAIN Used[Peer(p)] /\ Used[Peer(p)][n] = k
    BY <1>3, <2>1 DEF Used
  <2>5. /\ got' = [got EXCEPT ![p] = @ \cup {[n |-> n, key |-> Used[Peer(p)][n]]}]
        /\ returned' = [returned EXCEPT ![p] = @ + 1]
    BY <1>1, <2>1, <2>4
  <2>6. UNCHANGED Used
    BY <1>1 DEF Used
  <2>7. QED
    BY <2>2, <2>3, <2>4, <2>5, <2>6 DEF Channel!Obtain, Used
<1>6. QED
  BY <1>4, <1>5

(* A session implements KeyChannel: every message goes out under a key     *)
(* nobody has used, and advance_receive returns its key at most once,      *)
(* however often the message arrives, and it is the sender's.              *)
THEOREM SessionImplementsChannel == Spec => ImplementsKeyChannel
<1>1. Init => Channel!Init
  BY DEF Init, Start, Channel!Init, Channel!Ends, Devices
<1>2. TypeOK /\ SessionInv /\ [Next]_vars => [Channel!Next]_(Channel!channelVars)
  <2> SUFFICES ASSUME TypeOK, SessionInv, [Next]_vars
               PROVE  Channel!Next \/ UNCHANGED Channel!channelVars
    OBVIOUS
  <2>1. Channel!Ends = Devices
    BY DEF Channel!Ends, Devices
  <2>2. CASE UNCHANGED vars
    BY <2>2 DEF vars, Channel!channelVars
  <2>3. ASSUME NEW p \in Devices, Send(p) PROVE Channel!Next
    BY <2>1, <2>3, SendUses DEF Channel!Next
  <2>4. ASSUME NEW p \in Devices, NEW n \in DOMAIN sent[Peer(p)], Receive(p, n)
        PROVE  Channel!Next \/ UNCHANGED Channel!channelVars
    BY <2>1, <2>4, ReceiveObtains DEF Channel!Next
  <2>5. QED
    BY <2>2, <2>3, <2>4 DEF Next
<1>3. QED
  BY <1>1, <1>2, SessionStaysInStep, PTL DEF Spec, Channel!Spec, ImplementsKeyChannel

-----------------------------------------------------------------------------
(* The session whatever handshakes made it, crossed ones included: headers *)
(* bring new DH keys, and chains end and start.  A chain is new when it is *)
(* started, because one of the two keys of its DH output was made for it,  *)
(* or serves for a receiving chain for the first time.                     *)

(* The key k lies on the chain that starts at c. *)
Derivable(k, c) == SameChain(k, c) /\ k.step >= c.step

(* The sending half of p's ratchet r. *)
SendSide(m, p, r) ==
  /\ r.local.owner = p /\ Exists(m, r.local)
  /\ r.remote.owner = Peer(p) /\ Exists(m, r.remote)
  /\ r.send.key.secret = {r.local, r.remote}
  /\ r.due => r.send.key = DhChain(r.local, r.remote).key

SentKeys(p) == {sent[p][n].key : n \in DOMAIN sent[p]}
SendKeys(p) == {ratchet[p].send.key} \cup SentKeys(p)

(* What p has sent lies behind its chain, each message under its own key.  *)
SentBehind(p) ==
  /\ \A n \in DOMAIN sent[p] :
       /\ sent[p][n].header.dh.owner = p /\ Exists(made, sent[p][n].header.dh)
       /\ AllExist(made, sent[p][n].key.secret)
       /\ ~Derivable(sent[p][n].key, ratchet[p].send.key)
  /\ \A m, n \in DOMAIN sent[p] : sent[p][m].key = sent[p][n].key => m = n

(* No chain is sent on from both ends. *)
Apart(p) == \A k \in SendKeys(p), l \in SendKeys(Peer(p)) : ~SameChain(k, l)

(* A device that is due to send its new key has not shown it. *)
DueIsNew(p) ==
  ratchet[p].due =>
    /\ ratchet[Peer(p)].remote # ratchet[p].local
    /\ \A n \in DOMAIN sent[p] : sent[p][n].header.dh # ratchet[p].local

AnySessionInv ==
  \A p \in Devices :
    /\ SendSide(made, p, ratchet[p]) /\ ReceiveSide(made, ratchet[p], GotKeys(p))
    /\ SentBehind(p) /\ Apart(p) /\ DueIsNew(p)

(* More key pairs do no harm. *)
LEMMA MoreKeys ==
  ASSUME NEW m, NEW n, Grown(m, n)
  PROVE  /\ \A p, r : IsRatchet(r) /\ SendSide(m, p, r) => SendSide(n, p, r)
         /\ \A k \in MessageKeys : AllExist(m, k.secret) => AllExist(n, k.secret)
         /\ \A r : \A G \in SUBSET MessageKeys :
              IsRatchet(r) /\ ReceiveSide(m, r, G) => ReceiveSide(n, r, G)
<1>1. ASSUME NEW p, NEW r, IsRatchet(r), SendSide(m, p, r) PROVE SendSide(n, p, r)
  <2>1. r.local \in PublicKeys /\ r.remote \in PublicKeys
    BY <1>1, RatchetFields
  <2> QED  BY <1>1, <2>1 DEF SendSide, Grown
<1> QED  BY <1>1, ReceiveMore

-----------------------------------------------------------------------------
(* One end of a session as it is set up. *)
LEMMA NewEnd ==
  ASSUME NEW m, NEW p, NEW l \in PublicKeys, NEW x \in PublicKeys, NEW reversed \in BOOLEAN,
         l.owner = p, Exists(m, l), x.owner = Peer(p), Exists(m, x),
         NEW r, r = InitialRatchet(l, x, reversed)
  PROVE  /\ IsRatchet(r) /\ ~r.due /\ SendSide(m, p, r) /\ ReceiveSide(m, r, {})
         /\ r.send.key = [secret |-> {l, x}, label |-> IF reversed THEN "DRXrecv1" ELSE "DRXsend1",
                          step |-> 0]
<1>1. /\ IsRatchet(r) /\ ~r.due /\ r.local = l /\ r.remote = x
      /\ r.send.key = [secret |-> {l, x}, label |-> IF reversed THEN "DRXrecv1" ELSE "DRXsend1",
                       step |-> 0]
  BY InitialType
<1>2. /\ r.skipped = NoSkipped
      /\ r.recv.key = [secret |-> {l, x}, label |-> IF reversed THEN "DRXsend1" ELSE "DRXrecv1",
                       step |-> 0]
  BY DEF InitialRatchet, NewChain, ChainKey, Dh
<1>3. Stored(r) = {} /\ DOMAIN r.skipped = {}
  BY <1>2 DEF Stored, NoSkipped
<1>4. SendSide(m, p, r)
  BY <1>1 DEF SendSide
<1>5. ReceiveSide(m, r, {})
  <2>1. AllExist(m, r.recv.key.secret) /\ r.recv.key.label # "DHRatchet"
    BY <1>2 DEF AllExist
  <2> QED  BY <1>3, <2>1 DEF ReceiveSide
<1> QED  BY <1>1, <1>4, <1>5

LEMMA FirstKeys ==
  ASSUME NEW p \in Devices, NEW m, m[p] = 2
  PROVE  /\ Ephemeral(p) \in PublicKeys /\ Ephemeral(p).owner = p /\ Exists(m, Ephemeral(p))
         /\ Signed(p) \in PublicKeys /\ Signed(p).owner = p /\ Exists(m, Signed(p))
         /\ Ephemeral(p) # Signed(p)
BY DEF Ephemeral, Signed, PublicKey, PublicKeys, Exists

LEMMA AnySessionInit == Init \/ CrossedInit => TypeOK /\ AnySessionInv
<1> SUFFICES ASSUME Init \/ CrossedInit PROVE TypeOK /\ AnySessionInv
  OBVIOUS
<1>1. /\ made = [p \in Devices |-> 2] /\ sent = [p \in Devices |-> << >>]
      /\ got = [p \in Devices |-> {}] /\ ratchet = [p \in Devices |-> ratchet[p]]
      /\ returned = [p \in Devices |-> 0]
  BY DEF Init, CrossedInit, Start
<1>2. /\ Alice \in Devices /\ Bob \in Devices /\ Alice # Bob /\ Peer(Alice) = Bob /\ Peer(Bob) = Alice
      /\ \A p \in Devices : p = Alice \/ p = Bob
  BY TwoDevices DEF Devices, Peer
<1>3. made[Alice] = 2 /\ made[Bob] = 2
  BY <1>1, <1>2
<1>4. /\ ratchet[Alice] = InitialRatchet(Ephemeral(Alice), Signed(Bob), FALSE)
      /\ \/ ratchet[Bob] = InitialRatchet(Signed(Bob), Ephemeral(Alice), TRUE)
         \/ ratchet[Bob] = InitialRatchet(Ephemeral(Bob), Signed(Alice), FALSE)
  BY <1>2 DEF Init, CrossedInit, Start, InitiatorRatchet, RecipientRatchet
<1>5. /\ Ephemeral(Alice) \in PublicKeys /\ Ephemeral(Alice).owner = Alice /\ Exists(made, Ephemeral(Alice))
      /\ Signed(Alice) \in PublicKeys /\ Signed(Alice).owner = Alice /\ Exists(made, Signed(Alice))
      /\ Ephemeral(Bob) \in PublicKeys /\ Ephemeral(Bob).owner = Bob /\ Exists(made, Ephemeral(Bob))
      /\ Signed(Bob) \in PublicKeys /\ Signed(Bob).owner = Bob /\ Exists(made, Signed(Bob))
      /\ Ephemeral(Alice) # Signed(Alice)
  BY <1>2, <1>3, FirstKeys
<1>6. /\ IsRatchet(ratchet[Alice]) /\ ~ratchet[Alice].due
      /\ SendSide(made, Alice, ratchet[Alice]) /\ ReceiveSide(made, ratchet[Alice], {})
      /\ ratchet[Alice].send.key = [secret |-> {Ephemeral(Alice), Signed(Bob)},
                                    label |-> "DRXsend1", step |-> 0]
  <2> DEFINE b == FALSE
  <2>1. b \in BOOLEAN
    OBVIOUS
  <2>2. ratchet[Alice] = InitialRatchet(Ephemeral(Alice), Signed(Bob), b)
    BY <1>4
  <2>3. (IF b THEN "DRXrecv1" ELSE "DRXsend1") = "DRXsend1"
    OBVIOUS
  <2> HIDE DEF b
  <2>4. /\ IsRatchet(ratchet[Alice]) /\ ~ratchet[Alice].due
        /\ SendSide(made, Alice, ratchet[Alice]) /\ ReceiveSide(made, ratchet[Alice], {})
        /\ ratchet[Alice].send.key = [secret |-> {Ephemeral(Alice), Signed(Bob)},
                                      label |-> IF b THEN "DRXrecv1" ELSE "DRXsend1", step |-> 0]
    BY <1>2, <1>5, <2>1, <2>2, NewEnd
  <2> QED  BY <2>3, <2>4
<1>7. /\ IsRatchet(ratchet[Bob]) /\ ~ratchet[Bob].due
      /\ SendSide(made, Bob, ratchet[Bob]) /\ ReceiveSide(made, ratchet[Bob], {})
      /\ ~SameChain(ratchet[Alice].send.key, ratchet[Bob].send.key)
  <2>1. CASE ratchet[Bob] = InitialRatchet(Signed(Bob), Ephemeral(Alice), TRUE)
    <3> DEFINE b == TRUE
    <3>1. b \in BOOLEAN
      OBVIOUS
    <3>2. ratchet[Bob] = InitialRatchet(Signed(Bob), Ephemeral(Alice), b)
      BY <2>1
    <3>3. (IF b THEN "DRXrecv1" ELSE "DRXsend1") = "DRXrecv1"
      OBVIOUS
    <3> HIDE DEF b
    <3>4. /\ IsRatchet(ratchet[Bob]) /\ ~ratchet[Bob].due
          /\ SendSide(made, Bob, ratchet[Bob]) /\ ReceiveSide(made, ratchet[Bob], {})
          /\ ratchet[Bob].send.key = [secret |-> {Signed(Bob), Ephemeral(Alice)},
                                      label |-> IF b THEN "DRXrecv1" ELSE "DRXsend1", step |-> 0]
      BY <1>2, <1>5, <3>1, <3>2, NewEnd
    <3> QED  BY <1>6, <3>3, <3>4 DEF SameChain
  <2>2. CASE ratchet[Bob] = InitialRatchet(Ephemeral(Bob), Signed(Alice), FALSE)
    <3> DEFINE b == FALSE
    <3>1. b \in BOOLEAN
      OBVIOUS
    <3>2. ratchet[Bob] = InitialRatchet(Ephemeral(Bob), Signed(Alice), b)
      BY <2>2
    <3> HIDE DEF b
    <3>3. /\ IsRatchet(ratchet[Bob]) /\ ~ratchet[Bob].due
          /\ SendSide(made, Bob, ratchet[Bob]) /\ ReceiveSide(made, ratchet[Bob], {})
          /\ ratchet[Bob].send.key = [secret |-> {Ephemeral(Bob), Signed(Alice)},
                                      label |-> IF b THEN "DRXrecv1" ELSE "DRXsend1", step |-> 0]
      BY <1>2, <1>5, <3>1, <3>2, NewEnd
    <3>4. Ephemeral(Alice) # Ephemeral(Bob)
      BY <1>2, <1>5
    <3>5. Ephemeral(Alice) \notin ratchet[Bob].send.key.secret
      BY <1>5, <3>3, <3>4
    <3> QED  BY <1>6, <3>3, <3>5 DEF SameChain
  <2> QED  BY <1>4, <2>1, <2>2
<1>8. TypeOK
  BY <1>1, <1>2, <1>6, <1>7 DEF TypeOK, IsRatchet
<1>9. ASSUME NEW p \in Devices
      PROVE  /\ SendSide(made, p, ratchet[p]) /\ ReceiveSide(made, ratchet[p], GotKeys(p))
             /\ SentBehind(p) /\ Apart(p) /\ DueIsNew(p)
  <2>1. GotKeys(p) = {} /\ SendKeys(p) = {ratchet[p].send.key} /\ DOMAIN sent[p] = {}
        /\ SendKeys(Peer(p)) = {ratchet[Peer(p)].send.key}
    BY <1>1, <1>2 DEF GotKeys, SendKeys, SentKeys
  <2>2. Apart(p)
    BY <1>2, <1>7, <2>1 DEF Apart, SameChain
  <2>3. SentBehind(p) /\ DueIsNew(p)
    BY <1>2, <1>6, <1>7, <2>1 DEF SentBehind, DueIsNew
  <2> QED  BY <1>2, <1>6, <1>7, <2>1, <2>2, <2>3
<1> QED  BY <1>8, <1>9 DEF AnySessionInv

-----------------------------------------------------------------------------
(* Types, the step of one device given. *)
LEMMA RatchetTypes ==
  ASSUME TypeOK, NEW p \in Devices
  PROVE  /\ IsRatchet(ratchet[p]) /\ made[p] \in Nat /\ sent[p] \in Seq(Messages)
         /\ GotKeys(p) \in SUBSET MessageKeys
         /\ \A n \in DOMAIN sent[p] : /\ n \in Nat /\ sent[p][n].header \in Headers
                                      /\ sent[p][n].key \in MessageKeys
<1>1. /\ IsRatchet(ratchet[p]) /\ made[p] \in Nat /\ sent[p] \in Seq(Messages)
      /\ got[p] \in SUBSET [n : Nat, key : MessageKeys]
  BY DEF TypeOK, IsRatchet
<1>2. \A n \in DOMAIN sent[p] : n \in Nat /\ sent[p][n] \in Messages
  BY <1>1
<1> QED  BY <1>1, <1>2 DEF GotKeys, Messages

(* The keys devices have sent under, or would next, are made of key pairs  *)
(* that exist.                                                             *)
LEMMA SendKeysAreOld ==
  ASSUME TypeOK, AnySessionInv, NEW p \in Devices, NEW x, ~Exists(made, x)
  PROVE  \A k \in SendKeys(p) : x \notin k.secret
<1>1. SendSide(made, p, ratchet[p]) /\ SentBehind(p)
  BY DEF AnySessionInv
<1>2. x \notin ratchet[p].send.key.secret
  BY <1>1 DEF SendSide
<1>3. \A n \in DOMAIN sent[p] : x \notin sent[p][n].key.secret
  BY <1>1 DEF SentBehind, AllExist
<1> QED  BY <1>2, <1>3 DEF SendKeys, SentKeys

LEMMA OtherEnd ==
  ASSUME TypeOK, AnySessionInv, NEW q \in Devices, Grown(made, made'),
         ratchet'[q] = ratchet[q], sent'[q] = sent[q], got'[q] = got[q]
  PROVE  /\ SendSide(made', q, ratchet'[q]) /\ ReceiveSide(made', ratchet'[q], GotKeys(q)')
         /\ SentBehind(q)' /\ SendKeys(q)' = SendKeys(q)
<1>1. /\ IsRatchet(ratchet[q]) /\ GotKeys(q) \in SUBSET MessageKeys
      /\ \A n \in DOMAIN sent[q] : sent[q][n].header \in Headers /\ sent[q][n].key \in MessageKeys
  BY RatchetTypes
<1>2. /\ SendSide(made, q, ratchet[q]) /\ ReceiveSide(made, ratchet[q], GotKeys(q)) /\ SentBehind(q)
  BY DEF AnySessionInv
<1>3. GotKeys(q)' = GotKeys(q) /\ SendKeys(q)' = SendKeys(q)
  BY DEF GotKeys, SendKeys, SentKeys
<1>4. SendSide(made', q, ratchet[q]) /\ ReceiveSide(made', ratchet[q], GotKeys(q))
  BY <1>1, <1>2, MoreKeys
<1>5. SentBehind(q)'
  <2>1. ASSUME NEW n \in DOMAIN sent[q]
        PROVE  Exists(made', sent[q][n].header.dh) /\ AllExist(made', sent[q][n].key.secret)
    <3>1. sent[q][n].header.dh \in PublicKeys
      BY <1>1 DEF Headers
    <3> QED  BY <1>1, <1>2, <3>1, MoreKeys DEF SentBehind, Grown
  <2> QED  BY <1>2, <2>1 DEF SentBehind
<1> QED  BY <1>3, <1>4, <1>5

(* The next key of a chain. *)
LEMMA StepOn ==
  ASSUME NEW k \in MessageKeys, NEW l, l = [k EXCEPT !.step = @ + 1]
  PROVE  /\ l.secret = k.secret /\ l.label = k.label /\ ~Derivable(k, l)
         /\ \A x \in MessageKeys : ~Derivable(x, k) => ~Derivable(x, l) /\ x # k
<1>1. k = [secret |-> k.secret, label |-> k.label, step |-> k.step] /\ k.step \in Nat
  BY DEF MessageKeys
<1>2. l.secret = k.secret /\ l.label = k.label /\ l.step = k.step + 1
  BY <1>1
<1>3. \A x \in MessageKeys : x.step \in Nat
  BY DEF MessageKeys
<1> QED  BY <1>1, <1>2, <1>3 DEF Derivable, SameChain

(* advance_send moves the sending half on by one key, and stops announcing *)
(* a new DH key; the receiving half stays.                                 *)
LEMMA SendMoves ==
  ASSUME NEW m, NEW p, NEW r, IsRatchet(r), SendSide(m, p, r), NEW a, a = AdvanceSend(r)
  PROVE  /\ IsRatchet(a.ratchet)
         /\ a.header \in Headers
         /\ a.header.dh = r.local
         /\ a.key = r.send.key
         /\ ~a.ratchet.due
         /\ a.ratchet.local = r.local
         /\ a.ratchet.remote = r.remote
         /\ a.ratchet.recv = r.recv
         /\ a.ratchet.skipped = r.skipped
         /\ a.ratchet.send.key = [r.send.key EXCEPT !.step = @ + 1]
<1>1. a.key = (IF r.due THEN DhChain(r.local, r.remote) ELSE r.send).key
  BY SendSplit
<1>2. a.key = r.send.key
  <2>1. CASE r.due
    BY <1>1, <2>1 DEF SendSide
  <2>2. CASE ~r.due
    BY <1>1, <2>2
  <2> QED  BY <2>1, <2>2
<1>3. IsRatchet(a.ratchet) /\ a.header \in Headers /\ a.header.dh = r.local
  BY SendSplit
<1>4. a.ratchet.due = FALSE
  BY SendSplit
<1>5. a.ratchet.local = r.local /\ a.ratchet.remote = r.remote
  BY SendSplit
<1>6. a.ratchet.send.key = [a.key EXCEPT !.step = @ + 1]
  BY SendSplit
<1>7. a.ratchet.recv = r.recv /\ a.ratchet.skipped = r.skipped
  <2> DEFINE s == IF r.due THEN DhChain(r.local, r.remote) ELSE r.send
             v == [index |-> s.index + 1, key |-> KeyAfter(s.key, 1)]
  <2>1. a.ratchet = [due |-> FALSE, local |-> r.local, remote |-> r.remote, send |-> v,
                     recv |-> r.recv, skipped |-> r.skipped]
    BY SendForm
  <2> HIDE DEF v
  <2> QED  BY <2>1
<1> QED  BY <1>2, <1>3, <1>4, <1>5, <1>6, <1>7

LEMMA SendKeepsAny ==
  ASSUME TypeOK, AnySessionInv, NEW p \in Devices, Send(p)
  PROVE  TypeOK' /\ AnySessionInv'
<1> DEFINE q == Peer(p)
           r == ratchet[p]
           a == AdvanceSend(ratchet[p])
           k == ratchet[p].send.key
           l == a.ratchet.send.key
           msg == [header |-> a.header, key |-> a.key]
           n == Len(sent[p])
<1>1. /\ q \in Devices /\ q # p /\ Peer(q) = p /\ \A d \in Devices : d = p \/ d = q
  BY PeerFacts
<1>q. q = Peer(p)
  OBVIOUS
<1> HIDE DEF q
<1>2. /\ ratchet' = [ratchet EXCEPT ![p] = a.ratchet]
      /\ sent' = [sent EXCEPT ![p] = Append(@, msg)]
      /\ made' = made /\ got' = got /\ returned' = returned
  BY DEF Send
<1>3. /\ IsRatchet(r) /\ sent[p] \in Seq(Messages)
      /\ SendSide(made, p, r) /\ ReceiveSide(made, r, GotKeys(p))
      /\ SentBehind(p) /\ Apart(p) /\ Apart(q) /\ DueIsNew(p) /\ DueIsNew(q)
  BY <1>1, RatchetTypes DEF AnySessionInv
<1>4. k \in MessageKeys /\ r.local \in PublicKeys /\ r.remote \in PublicKeys
  BY <1>3, RatchetFields DEF Chains
<1>5. /\ IsRatchet(a.ratchet)
      /\ a.header \in Headers
      /\ a.header.dh = r.local
      /\ a.key = k
      /\ ~a.ratchet.due
      /\ a.ratchet.local = r.local
      /\ a.ratchet.remote = r.remote
      /\ a.ratchet.recv = r.recv
      /\ a.ratchet.skipped = r.skipped
      /\ l = [k EXCEPT !.step = @ + 1]
  <2> DEFINE m == made
             x == ratchet[p]
  <2>1. SendSide(m, p, x) /\ IsRatchet(x) /\ a = AdvanceSend(x)
    BY <1>3
  <2> HIDE DEF a, m, x
  <2>2. /\ IsRatchet(a.ratchet)
        /\ a.header \in Headers
        /\ a.header.dh = x.local
        /\ a.key = x.send.key
        /\ ~a.ratchet.due
        /\ a.ratchet.local = x.local
        /\ a.ratchet.remote = x.remote
        /\ a.ratchet.recv = x.recv
        /\ a.ratchet.skipped = x.skipped
        /\ a.ratchet.send.key = [x.send.key EXCEPT !.step = @ + 1]
    BY <2>1, SendMoves
  <2> QED  BY <2>2 DEF x
<1> HIDE DEF a
<1>6. msg \in Messages /\ msg.key = k /\ msg.header.dh = r.local
  BY <1>4, <1>5 DEF Messages
<1> HIDE DEF msg
<1>7. /\ l.secret = k.secret /\ l.label = k.label /\ ~Derivable(k, l)
      /\ \A x \in MessageKeys : ~Derivable(x, k) => ~Derivable(x, l) /\ x # k
  BY <1>4, <1>5, StepOn
<1> HIDE DEF l, k, r
<1>8. n \in Nat /\ DOMAIN sent[p] = 1 .. n
  BY <1>3
<1>9. /\ sent' \in [Devices -> Seq(Messages)] /\ sent'[q] = sent[q] /\ sent'[p] = Append(sent[p], msg)
  <2>1. sent \in [Devices -> Seq(Messages)]
    BY DEF TypeOK
  <2>2. Append(sent[p], msg) \in Seq(Messages)
    BY <1>3, <1>6
  <2> QED  BY <1>1, <1>2, <2>1, <2>2
<1>10. /\ DOMAIN sent'[p] = 1 .. n + 1 /\ sent'[p][n + 1] = msg
       /\ \A i \in 1 .. n : sent'[p][i] = sent[p][i]
  BY <1>3, <1>6, <1>8, <1>9
<1> HIDE DEF n
<1>11. /\ ratchet' = [d \in Devices |-> ratchet'[d]]
       /\ ratchet'[p] = a.ratchet /\ ratchet'[q] = ratchet[q]
  BY <1>1, <1>2 DEF TypeOK
<1>12. TypeOK'
  <2>1. IsRatchet(ratchet'[p]) /\ IsRatchet(ratchet'[q])
    BY <1>1, <1>5, <1>11, RatchetTypes
  <2> QED  BY <1>1, <1>2, <1>9, <1>11, <2>1 DEF TypeOK, IsRatchet
<1>13. /\ SendSide(made', q, ratchet'[q]) /\ ReceiveSide(made', ratchet'[q], GotKeys(q)')
       /\ SentBehind(q)' /\ SendKeys(q)' = SendKeys(q)
  <2>1. Grown(made, made')
    BY <1>2 DEF Grown
  <2> QED  BY <1>1, <1>2, <1>9, <1>11, <2>1, OtherEnd
<1>14. SendSide(made', p, ratchet'[p])
  BY <1>2, <1>3, <1>5, <1>7, <1>11 DEF SendSide, r, k, l
<1>15. ReceiveSide(made', ratchet'[p], GotKeys(p)')
  <2>1. GotKeys(p)' = GotKeys(p) /\ Stored(ratchet'[p]) = Stored(r)
    BY <1>2, <1>5, <1>11 DEF GotKeys, Stored
  <2> QED  BY <1>2, <1>3, <1>5, <1>11, <2>1 DEF ReceiveSide
<1>16. SentBehind(p)'
  <2>1. \A i \in 1 .. n : sent[p][i].key \in MessageKeys
    BY <1>8, RatchetTypes
  <2>2. ASSUME NEW i \in DOMAIN sent'[p]
        PROVE  /\ sent'[p][i].header.dh.owner = p /\ Exists(made', sent'[p][i].header.dh)
               /\ AllExist(made', sent'[p][i].key.secret)
               /\ ~Derivable(sent'[p][i].key, ratchet'[p].send.key)
    <3>1. CASE i \in 1 .. n
      BY <1>2, <1>3, <1>7, <1>8, <1>10, <1>11, <2>1, <3>1 DEF SentBehind, l, k
    <3>2. CASE i = n + 1
      <4>1. sent'[p][i] = msg
        BY <1>10, <3>2
      <4>2. msg.header.dh.owner = p /\ Exists(made', msg.header.dh) /\ AllExist(made', k.secret)
        BY <1>2, <1>3, <1>6 DEF SendSide, AllExist, r, k
      <4> QED  BY <1>6, <1>7, <1>11, <4>1, <4>2 DEF l
    <3> QED  BY <1>8, <1>10, <3>1, <3>2
  <2>3. \A i \in 1 .. n : sent[p][i].key # k
    BY <1>3, <1>7, <1>8, <2>1 DEF SentBehind, r, k
  <2>4. ASSUME NEW i \in DOMAIN sent'[p], NEW j \in DOMAIN sent'[p], sent'[p][i].key = sent'[p][j].key
        PROVE  i = j
    <3>1. \A x \in DOMAIN sent'[p] : x \in 1 .. n \/ x = n + 1
      BY <1>8, <1>10
    <3>2. CASE i \in 1 .. n /\ j \in 1 .. n
      BY <1>3, <1>8, <1>10, <2>4, <3>2 DEF SentBehind
    <3>3. CASE i = n + 1 /\ j = n + 1
      BY <3>3
    <3>4. CASE i \in 1 .. n /\ j = n + 1
      BY <1>6, <1>10, <2>3, <2>4, <3>4
    <3>5. CASE i = n + 1 /\ j \in 1 .. n
      BY <1>6, <1>10, <2>3, <2>4, <3>5
    <3> QED  BY <3>1, <3>2, <3>3, <3>4, <3>5
  <2> QED  BY <2>2, <2>4 DEF SentBehind
<1>17. k \in SendKeys(p) /\ SendKeys(p)' \subseteq SendKeys(p) \cup {l}
  <2>1. k \in SendKeys(p)
    BY DEF SendKeys, k
  <2>2. ASSUME NEW i \in DOMAIN sent'[p] PROVE sent'[p][i].key \in SendKeys(p)
    <3>1. CASE i \in 1 .. n
      BY <1>8, <1>10, <3>1 DEF SendKeys, SentKeys
    <3>2. CASE i = n + 1
      BY <1>6, <1>10, <2>1, <3>2
    <3> QED  BY <1>8, <1>10, <3>1, <3>2
  <2> QED  BY <1>11, <2>1, <2>2 DEF SendKeys, SentKeys, l
<1>18. Apart(p)' /\ Apart(q)'
  <2>1. ASSUME NEW x \in SendKeys(p)', NEW y \in SendKeys(q)' PROVE ~SameChain(x, y) /\ ~SameChain(y, x)
    <3>1. y \in SendKeys(q)
      BY <1>13, <2>1
    <3>2. PICK z \in SendKeys(p) : z.secret = x.secret /\ z.label = x.label
      BY <1>7, <1>17, <2>1
    <3> QED  BY <1>3, <1>q, <3>1, <3>2 DEF Apart, SameChain
  <2> QED  BY <1>1, <1>q, <2>1 DEF Apart
<1>19. DueIsNew(p)' /\ DueIsNew(q)'
  <2>1. DueIsNew(p)'
    BY <1>5, <1>11 DEF DueIsNew
  <2>2. DueIsNew(q)'
    BY <1>1, <1>3, <1>5, <1>9, <1>11 DEF DueIsNew, r
  <2> QED  BY <2>1, <2>2
<1> QED  BY <1>1, <1>12, <1>13, <1>14, <1>15, <1>16, <1>18, <1>19 DEF AnySessionInv

(* What a header does to the receiving half, a new DH key in it or not.    *)
LEMMA ReceiveMoves ==
  ASSUME NEW m, NEW n, NEW r, IsRatchet(r), NEW h \in Headers, NEW fresh \in PublicKeys,
         NEW G \in SUBSET MessageKeys, ReceiveSide(m, r, G), Grown(m, n),
         Exists(m, r.local), Exists(m, h.dh), ~Exists(m, fresh),
         NEW a, a = AdvanceReceive(r, h, fresh)
  PROVE  ReceiveSide(n, a.ratchet, IF a.key = NoKey THEN G ELSE G \cup {a.key})
<1> DEFINE t == IF NewDh(r, h) THEN AdoptDh(r, h, fresh) ELSE r
<1>1. /\ IsRatchet(t) /\ h.index \in Nat
      /\ \/ a = FromBacklog(t, h.index)
         \/ h.index >= t.recv.index /\ a = FromChain(t, h.index)
  BY ReceiveForm
<1>2. ReceiveSide(n, t, G)
  <2>1. CASE NewDh(r, h)
    <3>1. t = AdoptDh(r, h, fresh)
      BY <2>1
    <3> HIDE DEF t
    <3> QED  BY <3>1, AdoptKeeps
  <2>2. CASE ~NewDh(r, h)
    BY <2>2, MoreKeys
  <2> QED  BY <2>1, <2>2
<1> HIDE DEF t
<1> QED  BY <1>1, <1>2, BacklogKeeps, ChainKeeps

LEMMA ReceiveKeepsAny ==
  ASSUME TypeOK, AnySessionInv, NEW p \in Devices, NEW n \in DOMAIN sent[Peer(p)], Receive(p, n)
  PROVE  TypeOK' /\ AnySessionInv'
<1> DEFINE q == Peer(p)
           r == ratchet[p]
           h == sent[q][n].header
           fresh == PublicKey(p, made[p])
           a == AdvanceReceive(r, h, fresh)
           new == NewDh(r, h)
<1>1. /\ q \in Devices /\ q # p /\ Peer(q) = p /\ \A d \in Devices : d = p \/ d = q
  BY PeerFacts
<1>q. q = Peer(p)
  OBVIOUS
<1> HIDE DEF q
<1>2. /\ ratchet' = [ratchet EXCEPT ![p] = a.ratchet]
      /\ made' = [made EXCEPT ![p] = IF new THEN @ + 1 ELSE @]
      /\ got' = [got EXCEPT ![p] = IF a.key = NoKey THEN @ ELSE @ \cup {[n |-> n, key |-> a.key]}]
      /\ sent' = sent
  BY <1>q DEF Receive
<1>3. /\ IsRatchet(r) /\ n \in Nat /\ h \in Headers /\ made[p] \in Nat /\ made[q] \in Nat
      /\ GotKeys(p) \in SUBSET MessageKeys
  BY <1>1, <1>q, RatchetTypes
<1>4. /\ SendSide(made, p, r) /\ ReceiveSide(made, r, GotKeys(p))
      /\ SentBehind(p) /\ SentBehind(q) /\ Apart(p) /\ Apart(q) /\ DueIsNew(p) /\ DueIsNew(q)
      /\ SendSide(made, q, ratchet[q])
  BY <1>1 DEF AnySessionInv
<1>5. /\ fresh \in PublicKeys /\ fresh.owner = p /\ fresh.nth = made[p] /\ ~Exists(made, fresh)
  <2>1. fresh = [owner |-> p, nth |-> made[p]]
    BY DEF PublicKey
  <2> HIDE DEF fresh
  <2> QED  BY <1>3, <2>1 DEF PublicKeys, Exists
<1>6. /\ h.dh \in PublicKeys /\ h.dh.owner = q /\ Exists(made, h.dh)
      /\ r.local \in PublicKeys /\ r.remote \in PublicKeys
      /\ Exists(made, r.local) /\ Exists(made, r.remote)
  BY <1>3, <1>4, <1>q, RatchetFields DEF Headers, SentBehind, SendSide
<1>7. IsRatchet(a.ratchet) /\ a.key \in MessageKeys \cup {NoKey}
  <2>1. a = AdvanceReceive(r, h, fresh)
    OBVIOUS
  <2> HIDE DEF a, r, h, fresh
  <2> QED  BY <1>3, <1>5, <2>1, ReceiveTypes
<1>8. /\ made' \in [Devices -> Nat] /\ made'[q] = made[q]
      /\ new => made'[p] = made[p] + 1
      /\ ~new => made'[p] = made[p]
  <2> DEFINE b == new
  <2>1. made \in [Devices -> Nat] /\ made' = [made EXCEPT ![p] = IF b THEN made[p] + 1 ELSE made[p]]
    BY <1>2 DEF TypeOK
  <2> HIDE DEF b
  <2>2. made[p] \in Nat
    BY <1>3
  <2>3. /\ made' \in [Devices -> Nat] /\ made'[q] = made[q]
        /\ made'[p] = IF b THEN made[p] + 1 ELSE made[p]
    BY <1>1, <2>1, <2>2
  <2>4. b => made'[p] = made[p] + 1
    BY <2>3
  <2>5. ~b => made'[p] = made[p]
    BY <2>3
  <2> QED  BY <2>3, <2>4, <2>5 DEF b
<1>9. Grown(made, made')
  BY <1>1, <1>3, <1>8 DEF Grown, Exists, PublicKeys
<1>10. /\ ratchet' = [d \in Devices |-> ratchet'[d]]
       /\ ratchet'[p] = a.ratchet /\ ratchet'[q] = ratchet[q]
  BY <1>1, <1>2 DEF TypeOK
<1>11. /\ got'[q] = got[q]
       /\ got'[p] = IF a.key = NoKey THEN got[p] ELSE got[p] \cup {[n |-> n, key |-> a.key]}
  BY <1>1, <1>2 DEF TypeOK
<1>12. TypeOK'
  <2>1. IsRatchet(ratchet'[p]) /\ IsRatchet(ratchet'[q])
    BY <1>1, <1>7, <1>10, RatchetTypes
  <2>2. got' \in [Devices -> SUBSET [n : Nat, key : MessageKeys]]
    <3>1. got \in [Devices -> SUBSET [n : Nat, key : MessageKeys]]
      BY DEF TypeOK
    <3>2. a.key # NoKey => [n |-> n, key |-> a.key] \in [n : Nat, key : MessageKeys]
      BY <1>3, <1>7
    <3> HIDE DEF a
    <3> QED  BY <1>2, <3>1, <3>2
  <2> QED  BY <1>1, <1>2, <1>8, <1>10, <2>1, <2>2, CountType DEF TypeOK, IsRatchet
<1>13. /\ SendSide(made', q, ratchet'[q]) /\ ReceiveSide(made', ratchet'[q], GotKeys(q)')
       /\ SentBehind(q)' /\ SendKeys(q)' = SendKeys(q)
  BY <1>1, <1>2, <1>9, <1>10, <1>11, OtherEnd
<1>14. ReceiveSide(made', ratchet'[p], GotKeys(p)')
  <2>1. GotKeys(p)' = IF a.key = NoKey THEN GotKeys(p) ELSE GotKeys(p) \cup {a.key}
    <3> DEFINE g == [n |-> n, key |-> a.key]
    <3> HIDE DEF a
    <3>1. g.key = a.key
      OBVIOUS
    <3> HIDE DEF g
    <3>2. got'[p] = IF a.key = NoKey THEN got[p] ELSE got[p] \cup {g}
      BY <1>11 DEF g
    <3> QED  BY <3>1, <3>2 DEF GotKeys
  <2>2. ReceiveSide(made', a.ratchet, IF a.key = NoKey THEN GotKeys(p) ELSE GotKeys(p) \cup {a.key})
    <3> DEFINE m1 == made
               m2 == made'
    <3>1. a = AdvanceReceive(r, h, fresh) /\ ReceiveSide(m1, r, GotKeys(p)) /\ Grown(m1, m2)
          /\ Exists(m1, r.local) /\ Exists(m1, h.dh) /\ ~Exists(m1, fresh)
      BY <1>4, <1>5, <1>6, <1>9
    <3> DEFINE G == GotKeys(p)
    <3>2. G \in SUBSET MessageKeys /\ IsRatchet(r) /\ h \in Headers /\ fresh \in PublicKeys
      BY <1>3, <1>5
    <3>3. ReceiveSide(m1, r, G)
      BY <3>1
    <3> HIDE DEF a, r, h, fresh, m1, m2, G
    <3>4. ReceiveSide(m2, a.ratchet, IF a.key = NoKey THEN G ELSE G \cup {a.key})
      BY <3>1, <3>2, <3>3, ReceiveMoves
    <3> QED  BY <3>4 DEF m2, G
  <2> HIDE DEF a
  <2> QED  BY <1>10, <2>1, <2>2
<1> HIDE DEF a, fresh
<1>15. CASE ~new
  <2>1. /\ a.ratchet.due = r.due
        /\ a.ratchet.local = r.local
        /\ a.ratchet.remote = r.remote
        /\ a.ratchet.send = r.send
    <3> DEFINE t == a.ratchet
    <3>1. t = AdvanceReceive(r, h, fresh).ratchet
      BY DEF a
    <3>2. t.due = r.due /\ t.local = r.local /\ t.remote = r.remote /\ t.send = r.send
      <4> HIDE DEF t, r, h
      <4> QED  BY <1>3, <1>5, <1>15, <3>1, ReceiveSame DEF r, h
    <3> QED  BY <3>2
  <2>2. SendSide(made, p, a.ratchet)
    BY <1>4, <2>1 DEF SendSide
  <2>3. SendSide(made', p, ratchet'[p])
    BY <1>7, <1>9, <1>10, <2>2, MoreKeys
  <2>4. SentBehind(p)'
    <3>1. ASSUME NEW i \in DOMAIN sent[p]
          PROVE  Exists(made', sent[p][i].header.dh) /\ AllExist(made', sent[p][i].key.secret)
      <4>1. sent[p][i].header \in Headers /\ sent[p][i].key \in MessageKeys
        BY RatchetTypes
      <4>2. sent[p][i].header.dh \in PublicKeys
        BY <4>1 DEF Headers
      <4> QED  BY <1>4, <1>9, <4>1, <4>2, MoreKeys DEF SentBehind, Grown
    <3> QED  BY <1>2, <1>4, <1>10, <2>1, <3>1 DEF SentBehind
  <2>5. SendKeys(p)' = SendKeys(p)
    BY <1>2, <1>10, <2>1 DEF SendKeys, SentKeys
  <2>6. Apart(p)' /\ Apart(q)'
    BY <1>1, <1>4, <1>q, <1>13, <2>5 DEF Apart
  <2>7. DueIsNew(p)' /\ DueIsNew(q)'
    BY <1>1, <1>2, <1>4, <1>q, <1>10, <2>1 DEF DueIsNew
  <2> QED  BY <1>1, <1>12, <1>13, <1>14, <2>3, <2>4, <2>6, <2>7 DEF AnySessionInv
<1>16. CASE new
  <2> DEFINE k == a.ratchet.send.key
  <2>1. /\ a.ratchet.local = fresh
        /\ a.ratchet.remote = h.dh
        /\ a.ratchet.send = DhChain(fresh, h.dh)
    <3> DEFINE t == a.ratchet
    <3>1. t = AdvanceReceive(r, h, fresh).ratchet
      BY DEF a
    <3>2. t.local = fresh /\ t.remote = h.dh /\ t.send = DhChain(fresh, h.dh)
      <4> HIDE DEF t, r, h
      <4> QED  BY <1>3, <1>5, <1>16, <3>1, ReceiveNew DEF r, h
    <3> QED  BY <3>2
  <2>2. k = [secret |-> {fresh, h.dh}, label |-> "DHRatchet", step |-> 0]
    <3> HIDE DEF h
    <3> QED  BY <1>5, <1>6, <2>1, DhChainType DEF h
  <2>3. k = DhChain(fresh, h.dh).key
    BY <2>1
  <2> HIDE DEF k
  <2>4. k.secret = {fresh, h.dh}
    BY <2>2
  <2>5. Exists(made', fresh) /\ Exists(made', h.dh)
    BY <1>3, <1>5, <1>6, <1>8, <1>9, <1>16 DEF Grown, Exists
  <2>6. SendSide(made', p, ratchet'[p])
    BY <1>5, <1>6, <1>10, <1>q, <2>1, <2>3, <2>4, <2>5 DEF SendSide, k
  <2>7. \A x \in SendKeys(p) : fresh \notin x.secret
    BY <1>5, SendKeysAreOld
  <2>8. \A x \in SendKeys(q) : fresh \notin x.secret
    BY <1>1, <1>5, SendKeysAreOld
  <2>9. SentBehind(p)'
    <3>1. ASSUME NEW i \in DOMAIN sent[p]
          PROVE  Exists(made', sent[p][i].header.dh) /\ AllExist(made', sent[p][i].key.secret)
                 /\ ~Derivable(sent[p][i].key, k)
      <4>1. sent[p][i].header \in Headers /\ sent[p][i].key \in MessageKeys
        BY RatchetTypes
      <4>2. sent[p][i].header.dh \in PublicKeys
        BY <4>1 DEF Headers
      <4>3. sent[p][i].key \in SendKeys(p)
        BY DEF SendKeys, SentKeys
      <4>4. ~Derivable(sent[p][i].key, k)
        BY <2>4, <2>7, <4>3 DEF Derivable, SameChain
      <4> QED  BY <1>4, <1>9, <4>1, <4>2, <4>4, MoreKeys DEF SentBehind, Grown
    <3> QED  BY <1>2, <1>4, <1>10, <3>1 DEF SentBehind, k
  <2>10. SendKeys(p)' \subseteq SendKeys(p) \cup {k}
    BY <1>2, <1>10 DEF SendKeys, SentKeys, k
  <2>11. Apart(p)' /\ Apart(q)'
    <3>1. ASSUME NEW x \in SendKeys(p)', NEW y \in SendKeys(q)' PROVE ~SameChain(x, y) /\ ~SameChain(y, x)
      <4>1. y \in SendKeys(q)
        BY <1>13
      <4>2. CASE x \in SendKeys(p)
        BY <1>4, <1>q, <4>1, <4>2 DEF Apart, SameChain
      <4>3. CASE x = k
        BY <2>4, <2>8, <4>1, <4>3 DEF SameChain
      <4> QED  BY <2>10, <4>2, <4>3
    <3> QED  BY <1>1, <1>q, <3>1 DEF Apart
  <2>12. DueIsNew(p)'
    <3>1. ratchet[q].remote # fresh
      BY <1>4, <1>5 DEF SendSide
    <3>2. \A i \in DOMAIN sent[p] : sent[p][i].header.dh # fresh
      BY <1>4, <1>5 DEF SentBehind
    <3> QED  BY <1>2, <1>q, <1>10, <2>1, <3>1, <3>2 DEF DueIsNew
  <2>13. DueIsNew(q)'
    BY <1>1, <1>2, <1>4, <1>q, <1>10, <2>1 DEF DueIsNew
  <2> QED  BY <1>1, <1>12, <1>13, <1>14, <2>6, <2>9, <2>11, <2>12, <2>13 DEF AnySessionInv
<1> QED  BY <1>15, <1>16

(* Every step keeps the session, whatever handshakes made it.              *)
LEMMA AnySessionNext == TypeOK /\ AnySessionInv /\ [Next]_vars => TypeOK' /\ AnySessionInv'
<1> SUFFICES ASSUME TypeOK, AnySessionInv, [Next]_vars PROVE TypeOK' /\ AnySessionInv'
  OBVIOUS
<1>1. CASE UNCHANGED vars
  <2>1. /\ ratchet' = ratchet /\ made' = made /\ sent' = sent /\ got' = got
        /\ returned' = returned
    BY <1>1 DEF vars
  <2>2. TypeOK'
    BY <2>1 DEF TypeOK
  <2>3. ASSUME NEW p \in Devices
        PROVE  /\ GotKeys(p)' = GotKeys(p) /\ SentBehind(p)' = SentBehind(p)
               /\ Apart(p)' = Apart(p) /\ DueIsNew(p)' = DueIsNew(p)
    BY <2>1 DEF SentBehind, Apart, DueIsNew, GotKeys, SendKeys, SentKeys
  <2> QED  BY <2>1, <2>2, <2>3 DEF AnySessionInv
<1>2. ASSUME NEW p \in Devices, Send(p) PROVE TypeOK' /\ AnySessionInv'
  BY <1>2, SendKeepsAny
<1>3. ASSUME NEW p \in Devices, NEW n \in DOMAIN sent[Peer(p)], Receive(p, n)
      PROVE  TypeOK' /\ AnySessionInv'
  BY <1>3, ReceiveKeepsAny
<1> QED  BY <1>1, <1>2, <1>3 DEF Next

(* A session keeps its chains apart whichever handshakes made it, the      *)
(* crossed ones that create_ratchets_if_needed drops included: the         *)
(* inductive invariant for headers that do bring new DH keys.              *)
THEOREM AnySessionKept == Spec \/ CrossedSpec => [](TypeOK /\ AnySessionInv)
<1>1. Spec => [](TypeOK /\ AnySessionInv)
  BY AnySessionInit, AnySessionNext, PTL DEF Spec
<1>2. CrossedSpec => [](TypeOK /\ AnySessionInv)
  BY AnySessionInit, AnySessionNext, PTL DEF CrossedSpec
<1> QED  BY <1>1, <1>2

(* However a session was made, a key that has been obtained is gone: it is *)
(* not in skipped_keys and the receive chain cannot derive it again, also  *)
(* across the DH steps of advance_receive.                                 *)
THEOREM ForwardSecrecyAny == Spec \/ CrossedSpec => []ForwardSecrecy
<1>1. TypeOK /\ AnySessionInv => ForwardSecrecy
  <2> SUFFICES ASSUME TypeOK, AnySessionInv, NEW p \in Devices, NEW g \in got[p]
               PROVE  /\ \A i \in DOMAIN ratchet[p].skipped : ratchet[p].skipped[i] # g.key
                      /\ ratchet[p].recv.key.secret = g.key.secret
                         /\ ratchet[p].recv.key.label = g.key.label
                           => ratchet[p].recv.key.step > g.key.step
    BY DEF ForwardSecrecy
  <2>1. ReceiveSide(made, ratchet[p], GotKeys(p)) /\ g.key \in GotKeys(p)
    BY DEF AnySessionInv, GotKeys
  <2>2. \A i \in DOMAIN ratchet[p].skipped : ratchet[p].skipped[i] # g.key
    BY <2>1 DEF ReceiveSide, Stored
  <2>3. g.key.step \in Nat /\ ratchet[p].recv.key.step \in Nat
    BY <2>1, RatchetTypes, RatchetFields DEF MessageKeys, Chains
  <2>4. SameChain(g.key, ratchet[p].recv.key) => g.key.step < ratchet[p].recv.key.step
    BY <2>1 DEF ReceiveSide
  <2> QED  BY <2>2, <2>3, <2>4 DEF SameChain
<1> QED  BY <1>1, AnySessionKept, PTL

(* However a session was made, no two of its messages go out under one     *)
(* key, whatever DH keys their headers bring to advance_receive.           *)
THEOREM KeysAreFreshAny == Spec \/ CrossedSpec => []NoKeyReuse
<1>1. TypeOK /\ AnySessionInv => NoKeyReuse
  <2> SUFFICES ASSUME TypeOK, AnySessionInv, NEW p \in Devices, NEW q \in Devices,
                      NEW m \in DOMAIN sent[p], NEW n \in DOMAIN sent[q],
                      sent[p][m].key = sent[q][n].key
               PROVE  p = q /\ m = n
    BY DEF NoKeyReuse
  <2>1. CASE q = p
    BY <2>1 DEF AnySessionInv, SentBehind
  <2>2. CASE q = Peer(p)
    <3>1. sent[p][m].key \in SendKeys(p) /\ sent[q][n].key \in SendKeys(Peer(p))
      BY <2>2 DEF SendKeys, SentKeys
    <3> QED  BY <3>1 DEF AnySessionInv, Apart, SameChain
  <2> QED  BY <2>1, <2>2, PeerFacts
<1> QED  BY <1>1, AnySessionKept, PTL

(* However a session was made, a device that has adopted the other's       *)
(* current DH key and is due to show its own sends next under the key the  *)
(* other will derive: the two dh_ratchet_steps use one DH output.          *)
THEOREM RepliesHeal == Spec \/ CrossedSpec => []HealsOnReply
<1>1. TypeOK /\ AnySessionInv => HealsOnReply
  <2> SUFFICES ASSUME TypeOK, AnySessionInv, NEW p \in Devices,
                      ratchet[p].due, ratchet[p].remote = ratchet[Peer(p)].local
               PROVE  AdvanceReceive(ratchet[Peer(p)], AdvanceSend(ratchet[p]).header,
                                     PublicKey(Peer(p), made[Peer(p)])).key =
                        AdvanceSend(ratchet[p]).key
    BY DEF HealsOnReply
  <2> DEFINE q == Peer(p)
             r == ratchet[p]
             s == ratchet[q]
             h == AdvanceSend(r).header
             fresh == PublicKey(q, made[q])
             t == AdoptDh(s, h, fresh)
             c == DhChain(r.local, r.remote)
  <2>1. q \in Devices /\ IsRatchet(r) /\ IsRatchet(s) /\ fresh \in PublicKeys
    BY PeerFacts, RatchetTypes DEF PublicKey, PublicKeys
  <2>2. r.local \in PublicKeys /\ r.remote \in PublicKeys
    BY <2>1, RatchetFields
  <2>3. /\ c \in Chains /\ AdvanceSend(r).key = c.key
        /\ h = [dh |-> r.local, index |-> c.index, prev |-> r.recv.index]
    BY <2>1, SendForm
  <2>4. h \in Headers /\ h.dh = r.local /\ h.index = 0
    <3>1. h \in Headers
      <4> HIDE DEF r
      <4> QED  BY <2>1, SendSplit
    <3>2. c.index = 0
      BY DEF DhChain, NewChain
    <3> HIDE DEF h, c
    <3> QED  BY <2>3, <3>1, <3>2
  <2>5. NewDh(s, h)
    BY <2>4 DEF AnySessionInv, DueIsNew, NewDh
  <2>6. IsRatchet(t) /\ t.recv = c
    <3>1. IsRatchet(t) /\ t = [due |-> TRUE, local |-> fresh, remote |-> h.dh,
                               send |-> DhChain(fresh, h.dh), recv |-> DhChain(s.local, h.dh),
                               skipped |-> StoreSkipped(s, h.prev, s.recv.index)]
      <4> HIDE DEF s, h, fresh
      <4> QED  BY <2>1, <2>4, AdoptForm
    <3>2. t.recv = DhChain(s.local, h.dh)
      BY <3>1
    <3>3. {s.local, h.dh} = {r.local, r.remote}
      BY <2>4
    <3> QED  BY <3>1, <3>2, <3>3 DEF DhChain, Dh
  <2>7. AdvanceReceive(s, h, fresh) = FromChain(t, h.index)
    <3>1. AdvanceReceive(s, h, fresh) = IF h.index < t.recv.index THEN FromBacklog(t, h.index)
                                                                  ELSE FromChain(t, h.index)
      BY <2>5 DEF AdvanceReceive
    <3> HIDE DEF t, h
    <3> QED  BY <2>4, <2>6, <3>1 DEF DhChain, NewChain
  <2>8. FromChain(t, h.index).key = KeyAfter(c.key, 0)
    <3>1. t.recv.index = 0 /\ h.index - t.recv.index = 0
      BY <2>4, <2>6 DEF DhChain, NewChain
    <3> HIDE DEF t, h, c
    <3> QED  BY <2>6, <3>1 DEF FromChain
  <2>9. KeyAfter(c.key, 0) = c.key
    <3>1. c.key \in MessageKeys
      BY <2>3 DEF Chains
    <3> DEFINE k == c.key
    <3> HIDE DEF k, c
    <3>2. KeyAfter(k, 0) = [secret |-> k.secret, label |-> k.label, step |-> k.step + 0]
      BY <3>1, KeyAfterType DEF k
    <3>3. k = [secret |-> k.secret, label |-> k.label, step |-> k.step] /\ k.step \in Nat
      BY <3>1 DEF MessageKeys, k
    <3> QED  BY <3>2, <3>3 DEF k
  <2> QED  BY <2>3, <2>7, <2>8, <2>9
<1> QED  BY <1>1, AnySessionKept, PTL
=============================================================================
