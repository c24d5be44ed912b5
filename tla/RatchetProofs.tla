---------------------------- MODULE RatchetProofs ----------------------------
(***************************************************************************)
(* What advance_send and advance_receive do to a ratchet, new DH keys in   *)
(* the headers included: facts about the operators of Ratchet, for the     *)
(* proofs about the modules that are built from them.                      *)
(***************************************************************************)
EXTENDS Parties, TLAPS

(* The fields of a ratchet. *)
LEMMA RatchetFields ==
  ASSUME NEW r, IsRatchet(r)
  PROVE  /\ DOMAIN r = {"due", "local", "remote", "send", "recv", "skipped"}
         /\ r = [ due |-> r.due, local |-> r.local, remote |-> r.remote,
                  send |-> r.send, recv |-> r.recv, skipped |-> r.skipped ]
         /\ r.due \in BOOLEAN /\ r.local \in PublicKeys /\ r.remote \in PublicKeys
         /\ r.send \in Chains /\ r.recv \in Chains
         /\ r.skipped \in [DOMAIN r.skipped -> MessageKeys] /\ DOMAIN r.skipped \subseteq Nat
BY DEF IsRatchet, Ratchets

LEMMA RatchetFromFields ==
  ASSUME NEW due \in BOOLEAN, NEW local \in PublicKeys, NEW remote \in PublicKeys,
         NEW send \in Chains, NEW recv \in Chains,
         NEW D \in SUBSET Nat, NEW skipped \in [D -> MessageKeys]
  PROVE  IsRatchet([ due |-> due, local |-> local, remote |-> remote,
                     send |-> send, recv |-> recv, skipped |-> skipped ])
BY DEF IsRatchet, Ratchets

(* Its fields after some have been changed. *)
LEMMA DueChanged ==
  ASSUME NEW r, IsRatchet(r), NEW x
  PROVE  [r EXCEPT !.due = x] =
           [ due |-> x, local |-> r.local, remote |-> r.remote,
             send |-> r.send, recv |-> r.recv, skipped |-> r.skipped ]
<1>1. r = [ due |-> r.due, local |-> r.local, remote |-> r.remote,
            send |-> r.send, recv |-> r.recv, skipped |-> r.skipped ]
  BY RatchetFields
<1>2. [r EXCEPT !.due = x] =
        [ due |-> x, local |-> r.local, remote |-> r.remote,
          send |-> r.send, recv |-> r.recv, skipped |-> r.skipped ]
  BY <1>1
<1> QED  BY <1>2

LEMMA SendChanged ==
  ASSUME NEW r, IsRatchet(r), NEW x
  PROVE  [r EXCEPT !.send = x] =
           [ due |-> r.due, local |-> r.local, remote |-> r.remote,
             send |-> x, recv |-> r.recv, skipped |-> r.skipped ]
<1>1. r = [ due |-> r.due, local |-> r.local, remote |-> r.remote,
            send |-> r.send, recv |-> r.recv, skipped |-> r.skipped ]
  BY RatchetFields
<1>2. [r EXCEPT !.send = x] =
        [ due |-> r.due, local |-> r.local, remote |-> r.remote,
          send |-> x, recv |-> r.recv, skipped |-> r.skipped ]
  BY <1>1
<1> QED  BY <1>2

LEMMA RemoteChanged ==
  ASSUME NEW r, IsRatchet(r), NEW x, NEW y
  PROVE  [r EXCEPT !.skipped = x, !.remote = y] =
           [ due |-> r.due, local |-> r.local, remote |-> y,
             send |-> r.send, recv |-> r.recv, skipped |-> x ]
<1>1. r = [ due |-> r.due, local |-> r.local, remote |-> r.remote,
            send |-> r.send, recv |-> r.recv, skipped |-> r.skipped ]
  BY RatchetFields
<1> DEFINE s1 == [r EXCEPT !.skipped = x]
<1>2. s1 = [ due |-> r.due, local |-> r.local, remote |-> r.remote,
             send |-> r.send, recv |-> r.recv, skipped |-> x ]
  BY <1>1
<1> HIDE DEF s1
<1>3. [s1 EXCEPT !.remote = y] =
        [ due |-> r.due, local |-> r.local, remote |-> y,
          send |-> r.send, recv |-> r.recv, skipped |-> x ]
  BY <1>2
<1> QED  BY <1>3 DEF s1

LEMMA RecvChanged ==
  ASSUME NEW r, IsRatchet(r), NEW x, NEW y
  PROVE  [r EXCEPT !.recv = x, !.skipped = y] =
           [ due |-> r.due, local |-> r.local, remote |-> r.remote,
             send |-> r.send, recv |-> x, skipped |-> y ]
<1>1. r = [ due |-> r.due, local |-> r.local, remote |-> r.remote,
            send |-> r.send, recv |-> r.recv, skipped |-> r.skipped ]
  BY RatchetFields
<1> DEFINE s1 == [r EXCEPT !.recv = x]
<1>2. s1 = [ due |-> r.due, local |-> r.local, remote |-> r.remote,
             send |-> r.send, recv |-> x, skipped |-> r.skipped ]
  BY <1>1
<1> HIDE DEF s1
<1>3. [s1 EXCEPT !.skipped = y] =
        [ due |-> r.due, local |-> r.local, remote |-> r.remote,
          send |-> r.send, recv |-> x, skipped |-> y ]
  BY <1>2
<1> QED  BY <1>3 DEF s1

(* Progressing a chain key forward gives a message key. *)
LEMMA KeyAfterType ==
  ASSUME NEW k \in MessageKeys, NEW n \in Int, n >= 0
  PROVE  /\ KeyAfter(k, n) \in MessageKeys
         /\ KeyAfter(k, n) = [secret |-> k.secret, label |-> k.label, step |-> k.step + n]
<1>1. k = [secret |-> k.secret, label |-> k.label, step |-> k.step] /\ k.step \in Nat
      /\ k.secret \in SUBSET PublicKeys /\ k.label \in Labels
  BY DEF MessageKeys
<1>2. k.step + n \in Nat
  BY <1>1
<1>3. KeyAfter(k, n) = [secret |-> k.secret, label |-> k.label, step |-> k.step + n]
  BY <1>1 DEF KeyAfter
<1> QED  BY <1>1, <1>2, <1>3 DEF MessageKeys

(* A chain that is started from a DH output. *)
LEMMA NewChainType ==
  ASSUME NEW a \in PublicKeys, NEW b \in PublicKeys, NEW label \in Labels
  PROVE  /\ NewChain(ChainKey(Dh(a, b), label)) \in Chains
         /\ NewChain(ChainKey(Dh(a, b), label)).key = [secret |-> {a, b}, label |-> label, step |-> 0]
BY DEF NewChain, ChainKey, Dh, Chains, MessageKeys

LEMMA DhChainType ==
  ASSUME NEW a \in PublicKeys, NEW b \in PublicKeys
  PROVE  /\ DhChain(a, b) \in Chains
         /\ DhChain(a, b).key = [secret |-> {a, b}, label |-> "DHRatchet", step |-> 0]
BY NewChainType DEF DhChain, Labels

(* A ratchet that is set up from a pair of keys. *)
LEMMA InitialType ==
  ASSUME NEW local \in PublicKeys, NEW remote \in PublicKeys, NEW reversed \in BOOLEAN,
         NEW r, r = InitialRatchet(local, remote, reversed)
  PROVE  /\ IsRatchet(r)
         /\ ~r.due
         /\ r.local = local
         /\ r.remote = remote
         /\ r.send.key = [secret |-> {local, remote},
                          label |-> IF reversed THEN "DRXrecv1" ELSE "DRXsend1", step |-> 0]
<1> DEFINE s == NewChain(ChainKey(Dh(local, remote), IF reversed THEN "DRXrecv1" ELSE "DRXsend1"))
           v == NewChain(ChainKey(Dh(local, remote), IF reversed THEN "DRXsend1" ELSE "DRXrecv1"))
<1>1. s \in Chains /\ s.key = [secret |-> {local, remote},
                               label |-> IF reversed THEN "DRXrecv1" ELSE "DRXsend1", step |-> 0]
  BY NewChainType DEF Labels
<1>2. v \in Chains
  BY NewChainType DEF Labels
<1>3. NoSkipped \in [{} -> MessageKeys] /\ {} \in SUBSET Nat
  BY DEF NoSkipped
<1> HIDE DEF s, v
<1>4. IsRatchet([ due |-> FALSE, local |-> local, remote |-> remote,
                  send |-> s, recv |-> v, skipped |-> NoSkipped ])
  BY <1>1, <1>2, <1>3, RatchetFromFields, Zenon
<1> QED  BY <1>1, <1>4 DEF InitialRatchet, s, v

-----------------------------------------------------------------------------
(* advance_send takes the key the send chain stands at, or the first one of *)
(* a new chain if a DH step is due, and moves the chain one step on.        *)
LEMMA SendForm ==
  ASSUME NEW r, IsRatchet(r), NEW s, s = (IF r.due THEN DhChain(r.local, r.remote) ELSE r.send)
  PROVE  /\ s \in Chains
         /\ AdvanceSend(r).ratchet =
              [due |-> FALSE, local |-> r.local, remote |-> r.remote,
               send |-> [index |-> s.index + 1, key |-> KeyAfter(s.key, 1)],
               recv |-> r.recv, skipped |-> r.skipped]
         /\ AdvanceSend(r).key = s.key
         /\ AdvanceSend(r).header = [dh |-> r.local, index |-> s.index, prev |-> r.recv.index]
<1>1. s \in Chains
  BY RatchetFields, DhChainType
<1> DEFINE u == [due |-> FALSE, local |-> r.local, remote |-> r.remote, send |-> s,
                 recv |-> r.recv, skipped |-> r.skipped]
<1>2. (IF r.due THEN [SendDhStep(r) EXCEPT !.due = FALSE] ELSE r) = u
  <2>1. CASE r.due
    <3> DEFINE w == SendDhStep(r)
    <3>1. s = DhChain(r.local, r.remote)
      BY <2>1
    <3>2. w = [due |-> r.due, local |-> r.local, remote |-> r.remote, send |-> s,
               recv |-> r.recv, skipped |-> r.skipped]
      BY <3>1, SendChanged DEF SendDhStep
    <3>3. IsRatchet(w)
      BY <1>1, <3>2, RatchetFields, RatchetFromFields
    <3> HIDE DEF w
    <3>4. [w EXCEPT !.due = FALSE] =
            [due |-> FALSE, local |-> w.local, remote |-> w.remote, send |-> w.send,
             recv |-> w.recv, skipped |-> w.skipped]
      BY <3>3, DueChanged
    <3>5. /\ w.local = r.local /\ w.remote = r.remote /\ w.send = s
          /\ w.recv = r.recv /\ w.skipped = r.skipped
      BY <3>2
    <3>6. [w EXCEPT !.due = FALSE] = u
      BY <3>4, <3>5
    <3> QED  BY <2>1, <3>6 DEF w
  <2>2. CASE ~r.due
    <3>1. r.due = FALSE /\ s = r.send
      BY <2>2, RatchetFields
    <3> QED  BY <2>2, <3>1, RatchetFields
  <2> QED  BY <2>1, <2>2
<1>3. AdvanceSend(r) = ProgressSending(u)
  BY <1>2 DEF AdvanceSend
<1>4. IsRatchet(u)
  BY <1>1, RatchetFields, RatchetFromFields
<1>5. u.due = FALSE /\ u.local = r.local /\ u.remote = r.remote /\ u.send = s
      /\ u.recv = r.recv /\ u.skipped = r.skipped
  OBVIOUS
<1> HIDE DEF u
<1>6. ProgressSending(u).key = s.key
      /\ ProgressSending(u).header = [dh |-> r.local, index |-> s.index, prev |-> r.recv.index]
  BY <1>5 DEF ProgressSending, Header
<1>7. ProgressSending(u).ratchet =
        [due |-> u.due, local |-> u.local, remote |-> u.remote,
         send |-> [index |-> u.send.index + 1, key |-> KeyAfter(u.send.key, 1)],
         recv |-> u.recv, skipped |-> u.skipped]
  BY <1>4, RatchetFields DEF ProgressSending
<1> QED  BY <1>1, <1>3, <1>5, <1>6, <1>7

(* The same, field by field. *)
LEMMA SendSplit ==
  ASSUME NEW r, IsRatchet(r), NEW a, a = AdvanceSend(r)
  PROVE  /\ IsRatchet(a.ratchet)
         /\ a.header \in Headers
         /\ a.key \in MessageKeys
         /\ a.key = (IF r.due THEN DhChain(r.local, r.remote) ELSE r.send).key
         /\ a.header.dh = r.local
         /\ a.ratchet.due = FALSE
         /\ a.ratchet.local = r.local
         /\ a.ratchet.remote = r.remote
         /\ a.ratchet.send.key = [a.key EXCEPT !.step = @ + 1]
<1> DEFINE s == (IF r.due THEN DhChain(r.local, r.remote) ELSE r.send)
           s1 == [index |-> s.index + 1, key |-> KeyAfter(s.key, 1)]
<1>1. /\ s \in Chains
      /\ a.ratchet = [due |-> FALSE, local |-> r.local, remote |-> r.remote, send |-> s1,
                      recv |-> r.recv, skipped |-> r.skipped]
      /\ a.key = s.key
      /\ a.header = [dh |-> r.local, index |-> s.index, prev |-> r.recv.index]
  BY SendForm
<1>2. s.index \in Nat /\ s.key \in MessageKeys
  BY <1>1 DEF Chains
<1>3. a.key = (IF r.due THEN DhChain(r.local, r.remote) ELSE r.send).key
  BY <1>1
<1> HIDE DEF s
<1>4. s1 \in Chains /\ s1.key = [s.key EXCEPT !.step = @ + 1]
  <2>1. KeyAfter(s.key, 1) \in MessageKeys
    BY <1>2, KeyAfterType
  <2> QED  BY <1>2, <2>1 DEF Chains, KeyAfter
<1> HIDE DEF s1
<1>5. r.local \in PublicKeys /\ r.remote \in PublicKeys /\ r.recv \in Chains
      /\ r.skipped \in [DOMAIN r.skipped -> MessageKeys] /\ DOMAIN r.skipped \in SUBSET Nat
  BY RatchetFields
<1>6. IsRatchet(a.ratchet)
  <2>1. FALSE \in BOOLEAN
    OBVIOUS
  <2>2. IsRatchet([due |-> FALSE, local |-> r.local, remote |-> r.remote, send |-> s1,
                   recv |-> r.recv, skipped |-> r.skipped])
    BY <1>4, <1>5, <2>1, RatchetFromFields, Zenon
  <2> QED  BY <1>1, <2>2
<1>7. a.header \in Headers
  BY <1>1, <1>2, <1>5 DEF Headers, Chains
<1>8. a.header.dh = r.local /\ a.ratchet.due = FALSE /\ a.ratchet.local = r.local
      /\ a.ratchet.remote = r.remote /\ a.ratchet.send = s1
  BY <1>1
<1> QED  BY <1>1, <1>2, <1>3, <1>4, <1>6, <1>7, <1>8

-----------------------------------------------------------------------------
(* The keys that are stored for messages that were passed over.            *)
LEMMA StoreSkippedType ==
  ASSUME NEW r, IsRatchet(r), NEW first \in Nat, NEW last \in Nat
  PROVE  /\ DOMAIN StoreSkipped(r, first, last) \in SUBSET Nat
         /\ StoreSkipped(r, first, last) \in [DOMAIN StoreSkipped(r, first, last) -> MessageKeys]
<1> DEFINE D == DOMAIN r.skipped \cup (first .. last - 1)
<1>1. D \in SUBSET Nat
  BY RatchetFields
<1>2. r.recv.key \in MessageKeys
  BY RatchetFields DEF Chains
<1>3. ASSUME NEW i \in first .. last - 1 PROVE KeyAfter(r.recv.key, i - first) \in MessageKeys
  <2>1. i - first \in Int /\ i - first >= 0
    OBVIOUS
  <2> DEFINE n == i - first
  <2> HIDE DEF n
  <2>2. KeyAfter(r.recv.key, n) \in MessageKeys
    BY <1>2, <2>1, KeyAfterType DEF n
  <2> QED  BY <2>2 DEF n
<1>4. ASSUME NEW i \in D, i \notin first .. last - 1 PROVE r.skipped[i] \in MessageKeys
  BY <1>4, RatchetFields
<1> QED  BY <1>1, <1>3, <1>4 DEF StoreSkipped

(* dh_ratchet_step(true), field by field. *)
LEMMA DhStepFields ==
  ASSUME NEW r, IsRatchet(r), NEW fresh
  PROVE  ReceiveDhStep(r, fresh) =
           [due |-> r.due, local |-> fresh, remote |-> r.remote,
            send |-> DhChain(fresh, r.remote), recv |-> DhChain(r.local, r.remote),
            skipped |-> r.skipped]
<1> DEFINE x == DhChain(r.local, r.remote)
           z == DhChain(fresh, r.remote)
<1>1. ReceiveDhStep(r, fresh) = [r EXCEPT !.recv = x, !.local = fresh, !.send = z]
  BY DEF ReceiveDhStep
<1> HIDE DEF x, z
<1>2. r = [ due |-> r.due, local |-> r.local, remote |-> r.remote,
            send |-> r.send, recv |-> r.recv, skipped |-> r.skipped ]
  BY RatchetFields
<1> DEFINE s1 == [r EXCEPT !.recv = x]
<1>3. s1 = [ due |-> r.due, local |-> r.local, remote |-> r.remote,
             send |-> r.send, recv |-> x, skipped |-> r.skipped ]
  BY <1>2
<1> HIDE DEF s1
<1> DEFINE s2 == [s1 EXCEPT !.local = fresh]
<1>4. s2 = [ due |-> r.due, local |-> fresh, remote |-> r.remote,
             send |-> r.send, recv |-> x, skipped |-> r.skipped ]
  BY <1>3
<1> HIDE DEF s2
<1>5. [s2 EXCEPT !.send = z] =
        [ due |-> r.due, local |-> fresh, remote |-> r.remote,
          send |-> z, recv |-> x, skipped |-> r.skipped ]
  BY <1>4
<1> QED  BY <1>5, <1>1 DEF s1, s2, x, z

(* A header with a new DH key. *)
LEMMA AdoptForm ==
  ASSUME NEW r, IsRatchet(r), NEW h \in Headers, NEW fresh \in PublicKeys
  PROVE  /\ IsRatchet(AdoptDh(r, h, fresh))
         /\ AdoptDh(r, h, fresh) =
              [due |-> TRUE, local |-> fresh, remote |-> h.dh, send |-> DhChain(fresh, h.dh),
               recv |-> DhChain(r.local, h.dh), skipped |-> StoreSkipped(r, h.prev, r.recv.index)]
<1> DEFINE S == StoreSkipped(r, h.prev, r.recv.index)
<1>1. h.dh \in PublicKeys /\ h.prev \in Nat /\ r.recv.index \in Nat /\ r.local \in PublicKeys
  BY RatchetFields DEF Headers, Chains
<1>2. DOMAIN S \in SUBSET Nat /\ S \in [DOMAIN S -> MessageKeys]
  BY <1>1, StoreSkippedType
<1>3. DhChain(fresh, h.dh) \in Chains /\ DhChain(r.local, h.dh) \in Chains
  BY <1>1, DhChainType
<1>4. AdoptDh(r, h, fresh) =
        [due |-> TRUE, local |-> fresh, remote |-> h.dh, send |-> DhChain(fresh, h.dh),
         recv |-> DhChain(r.local, h.dh), skipped |-> S]
  <2> DEFINE kept == [r EXCEPT !.skipped = S, !.remote = h.dh]
             w == ReceiveDhStep(kept, fresh)
  <2>1. kept = [due |-> r.due, local |-> r.local, remote |-> h.dh,
                send |-> r.send, recv |-> r.recv, skipped |-> S]
    BY RemoteChanged
  <2>2. IsRatchet(kept)
    <3>1. r.due \in BOOLEAN /\ r.send \in Chains /\ r.recv \in Chains
      BY RatchetFields
    <3> HIDE DEF S, kept
    <3>2. IsRatchet([due |-> r.due, local |-> r.local, remote |-> h.dh,
                     send |-> r.send, recv |-> r.recv, skipped |-> S])
      BY <1>1, <1>2, <3>1, RatchetFromFields, Zenon
    <3> QED  BY <2>1, <3>2
  <2>3. AdoptDh(r, h, fresh) = [w EXCEPT !.due = TRUE]
    BY DEF AdoptDh
  <2> HIDE DEF kept
  <2>4. w = [due |-> kept.due, local |-> fresh, remote |-> kept.remote,
             send |-> DhChain(fresh, kept.remote), recv |-> DhChain(kept.local, kept.remote),
             skipped |-> kept.skipped]
    BY <2>2, DhStepFields DEF w
  <2>5. w = [due |-> r.due, local |-> fresh, remote |-> h.dh,
             send |-> DhChain(fresh, h.dh), recv |-> DhChain(r.local, h.dh), skipped |-> S]
    BY <2>1, <2>4
  <2>6. IsRatchet(w)
    BY <1>1, <1>2, <1>3, <2>5, RatchetFields, RatchetFromFields
  <2> HIDE DEF w
  <2> QED  BY <2>3, <2>5, <2>6, DueChanged
<1> HIDE DEF S
<1>5. IsRatchet([due |-> TRUE, local |-> fresh, remote |-> h.dh, send |-> DhChain(fresh, h.dh),
                 recv |-> DhChain(r.local, h.dh), skipped |-> S])
  BY <1>1, <1>2, <1>3, RatchetFromFields
<1> QED  BY <1>4, <1>5 DEF S

(* The same, field by field. *)
LEMMA AdoptFacts ==
  ASSUME NEW r, IsRatchet(r), NEW h \in Headers, NEW fresh \in PublicKeys,
         NEW t, t = AdoptDh(r, h, fresh)
  PROVE  /\ IsRatchet(t)
         /\ t.local = fresh
         /\ t.remote = h.dh
         /\ t.send = DhChain(fresh, h.dh)
BY AdoptForm

(* A key from the backlog or from the chain: the sending half stays. *)
LEMMA BacklogForm ==
  ASSUME NEW r, IsRatchet(r), NEW index \in Nat
  PROVE  /\ IsRatchet(FromBacklog(r, index).ratchet)
         /\ index \notin DOMAIN r.skipped => FromBacklog(r, index) = [ratchet |-> r, key |-> NoKey]
         /\ index \in DOMAIN r.skipped =>
              FromBacklog(r, index) =
                [ratchet |-> [due |-> r.due, local |-> r.local, remote |-> r.remote, send |-> r.send,
                              recv |-> r.recv,
                              skipped |-> [i \in DOMAIN r.skipped \ {index} |-> r.skipped[i]]],
                 key |-> r.skipped[index]]
<1> DEFINE S == [i \in DOMAIN r.skipped \ {index} |-> r.skipped[i]]
<1>1. CASE index \in DOMAIN r.skipped
  <2>1. FromBacklog(r, index) =
          [ratchet |-> [due |-> r.due, local |-> r.local, remote |-> r.remote, send |-> r.send,
                        recv |-> r.recv, skipped |-> S],
           key |-> r.skipped[index]]
    BY <1>1, RatchetFields DEF FromBacklog
  <2>2. DOMAIN r.skipped \ {index} \in SUBSET Nat
        /\ S \in [DOMAIN r.skipped \ {index} -> MessageKeys]
    BY <1>1, RatchetFields
  <2> HIDE DEF S
  <2>3. IsRatchet([due |-> r.due, local |-> r.local, remote |-> r.remote, send |-> r.send,
                   recv |-> r.recv, skipped |-> S])
    BY <2>2, RatchetFields, RatchetFromFields
  <2> QED  BY <1>1, <2>1, <2>3 DEF S
<1>2. CASE index \notin DOMAIN r.skipped
  BY <1>2 DEF FromBacklog
<1> QED  BY <1>1, <1>2

LEMMA ChainForm ==
  ASSUME NEW r, IsRatchet(r), NEW index \in Nat, index >= r.recv.index,
         NEW k, k = KeyAfter(r.recv.key, index - r.recv.index)
  PROVE  /\ IsRatchet(FromChain(r, index).ratchet) /\ k \in MessageKeys
         /\ FromChain(r, index) =
              [ratchet |-> [due |-> r.due, local |-> r.local, remote |-> r.remote, send |-> r.send,
                            recv |-> [index |-> index + 1, key |-> KeyAfter(k, 1)],
                            skipped |-> StoreSkipped(r, r.recv.index, index)],
               key |-> k]
<1> DEFINE S == StoreSkipped(r, r.recv.index, index)
           n == index - r.recv.index
           v == [index |-> index + 1, key |-> KeyAfter(k, 1)]
<1>1. r.recv.index \in Nat /\ r.recv.key \in MessageKeys
  BY RatchetFields DEF Chains
<1>2. n \in Int /\ n >= 0 /\ k = KeyAfter(r.recv.key, n)
  BY <1>1
<1> HIDE DEF n
<1>3. k \in MessageKeys
  BY <1>1, <1>2, KeyAfterType
<1>4. v \in Chains
  <2>1. KeyAfter(k, 1) \in MessageKeys
    BY <1>3, KeyAfterType
  <2> QED  BY <2>1 DEF Chains
<1>5. DOMAIN S \in SUBSET Nat /\ S \in [DOMAIN S -> MessageKeys]
  BY <1>1, StoreSkippedType
<1>6. FromChain(r, index) =
        [ratchet |-> [due |-> r.due, local |-> r.local, remote |-> r.remote, send |-> r.send,
                      recv |-> v, skipped |-> S],
         key |-> k]
  <2>1. FromChain(r, index) =
          [ratchet |-> [r EXCEPT !.recv = v, !.skipped = S], key |-> k]
    BY DEF FromChain
  <2> HIDE DEF v, S
  <2>2. [r EXCEPT !.recv = v, !.skipped = S] =
          [due |-> r.due, local |-> r.local, remote |-> r.remote, send |-> r.send,
           recv |-> v, skipped |-> S]
    BY RecvChanged
  <2> QED  BY <2>1, <2>2
<1> HIDE DEF S, v
<1>7. IsRatchet([due |-> r.due, local |-> r.local, remote |-> r.remote, send |-> r.send,
                 recv |-> v, skipped |-> S])
  BY <1>4, <1>5, RatchetFields, RatchetFromFields
<1> QED  BY <1>3, <1>6, <1>7 DEF S, v

(* They leave the sending half. *)
LEMMA BacklogFacts ==
  ASSUME NEW r, IsRatchet(r), NEW index \in Nat, NEW a, a = FromBacklog(r, index)
  PROVE  /\ IsRatchet(a.ratchet)
         /\ a.key \in MessageKeys \cup {NoKey}
         /\ a.ratchet.due = r.due
         /\ a.ratchet.local = r.local
         /\ a.ratchet.remote = r.remote
         /\ a.ratchet.send = r.send
<1>1. CASE index \in DOMAIN r.skipped
  <2>1. r.skipped[index] \in MessageKeys
    BY <1>1, RatchetFields
  <2> DEFINE S == [i \in DOMAIN r.skipped \ {index} |-> r.skipped[i]]
  <2>2. a = [ratchet |-> [due |-> r.due, local |-> r.local, remote |-> r.remote,
                          send |-> r.send, recv |-> r.recv, skipped |-> S],
             key |-> r.skipped[index]]
    BY <1>1, BacklogForm
  <2>3. IsRatchet(a.ratchet)
    BY BacklogForm
  <2> HIDE DEF S
  <2> QED  BY <2>1, <2>2, <2>3
<1>2. CASE index \notin DOMAIN r.skipped
  <2>1. a = [ratchet |-> r, key |-> NoKey]
    BY <1>2, BacklogForm
  <2> QED  BY <2>1
<1> QED  BY <1>1, <1>2

LEMMA ChainFacts ==
  ASSUME NEW r, IsRatchet(r), NEW index \in Nat, index >= r.recv.index,
         NEW a, a = FromChain(r, index)
  PROVE  /\ IsRatchet(a.ratchet)
         /\ a.key \in MessageKeys
         /\ a.ratchet.due = r.due
         /\ a.ratchet.local = r.local
         /\ a.ratchet.remote = r.remote
         /\ a.ratchet.send = r.send
BY ChainForm

(* advance_receive takes the new DH key if the header has one, and then a  *)
(* key from the backlog or from the chain.                                 *)
LEMMA ReceiveForm ==
  ASSUME NEW r, IsRatchet(r), NEW h \in Headers, NEW fresh \in PublicKeys,
         NEW t, t = (IF NewDh(r, h) THEN AdoptDh(r, h, fresh) ELSE r)
  PROVE  /\ IsRatchet(t) /\ h.index \in Nat
         /\ \/ AdvanceReceive(r, h, fresh) = FromBacklog(t, h.index)
            \/ h.index >= t.recv.index /\ AdvanceReceive(r, h, fresh) = FromChain(t, h.index)
<1>1. IsRatchet(t)
  BY AdoptForm
<1>2. h.index \in Nat /\ t.recv.index \in Nat
  BY <1>1, RatchetFields DEF Headers, Chains
<1> QED  BY <1>1, <1>2 DEF AdvanceReceive

LEMMA ReceiveTypes ==
  ASSUME NEW r, IsRatchet(r), NEW h \in Headers, NEW fresh \in PublicKeys,
         NEW a, a = AdvanceReceive(r, h, fresh)
  PROVE  IsRatchet(a.ratchet) /\ a.key \in MessageKeys \cup {NoKey}
<1> DEFINE t == IF NewDh(r, h) THEN AdoptDh(r, h, fresh) ELSE r
<1>1. /\ IsRatchet(t) /\ h.index \in Nat
      /\ \/ a = FromBacklog(t, h.index)
         \/ h.index >= t.recv.index /\ a = FromChain(t, h.index)
  BY ReceiveForm
<1> HIDE DEF t
<1> QED  BY <1>1, BacklogFacts, ChainFacts

(* The sending half is left as it is, unless the header has a new DH key:  *)
(* then it stands at the start of the chain of the fresh key pair and the  *)
(* new key.                                                                *)
LEMMA ReceiveSame ==
  ASSUME NEW r, IsRatchet(r), NEW h \in Headers, NEW fresh \in PublicKeys, ~NewDh(r, h),
         NEW t, t = AdvanceReceive(r, h, fresh).ratchet
  PROVE  /\ t.due = r.due
         /\ t.local = r.local
         /\ t.remote = r.remote
         /\ t.send = r.send
<1>1. /\ h.index \in Nat
      /\ \/ AdvanceReceive(r, h, fresh) = FromBacklog(r, h.index)
         \/ h.index >= r.recv.index /\ AdvanceReceive(r, h, fresh) = FromChain(r, h.index)
  BY ReceiveForm
<1>2. CASE AdvanceReceive(r, h, fresh) = FromBacklog(r, h.index)
  BY <1>1, <1>2, BacklogFacts
<1>3. CASE h.index >= r.recv.index /\ AdvanceReceive(r, h, fresh) = FromChain(r, h.index)
  BY <1>1, <1>3, ChainFacts
<1> QED  BY <1>1, <1>2, <1>3

LEMMA ReceiveNew ==
  ASSUME NEW r, IsRatchet(r), NEW h \in Headers, NEW fresh \in PublicKeys, NewDh(r, h),
         NEW t, t = AdvanceReceive(r, h, fresh).ratchet
  PROVE  /\ t.local = fresh
         /\ t.remote = h.dh
         /\ t.send = DhChain(fresh, h.dh)
<1> DEFINE w == AdoptDh(r, h, fresh)
<1>1. /\ h.index \in Nat
      /\ \/ AdvanceReceive(r, h, fresh) = FromBacklog(w, h.index)
         \/ h.index >= w.recv.index /\ AdvanceReceive(r, h, fresh) = FromChain(w, h.index)
  BY ReceiveForm
<1>2. IsRatchet(w) /\ w.local = fresh /\ w.remote = h.dh /\ w.send = DhChain(fresh, h.dh)
  BY AdoptFacts
<1> HIDE DEF w
<1>4. CASE AdvanceReceive(r, h, fresh) = FromBacklog(w, h.index)
  BY <1>1, <1>2, <1>4, BacklogFacts
<1>5. CASE h.index >= w.recv.index /\ AdvanceReceive(r, h, fresh) = FromChain(w, h.index)
  BY <1>1, <1>2, <1>5, ChainFacts
<1> QED  BY <1>1, <1>4, <1>5

-----------------------------------------------------------------------------
(* The receiving half of a ratchet, and the keys that were obtained with   *)
(* it.  m says how many key pairs each device has made.                    *)

(* Key x is one of the first m[x.owner] of its owner.                      *)
Exists(m, x) == x.nth < m[x.owner]
AllExist(m, xs) == \A x \in xs : Exists(m, x)

SameChain(k, l) == k.secret = l.secret /\ k.label = l.label
Stored(r) == {r.skipped[i] : i \in DOMAIN r.skipped}

(* The receiving half, G being the keys that were obtained: these are gone *)
(* from the backlog and behind the chain, and so is what the backlog has.  *)
(* The local key has not been used for a chain of the DH ratchet.          *)
ReceiveSide(m, r, G) ==
  /\ \A k \in G \cup Stored(r) \cup {r.recv.key} :
       AllExist(m, k.secret) /\ (k.label = "DHRatchet" => r.local \notin k.secret)
  /\ \A k \in G \cup Stored(r) : SameChain(k, r.recv.key) => k.step < r.recv.key.step
  /\ G \cap Stored(r) = {}
  /\ \A i, j \in DOMAIN r.skipped : r.skipped[i] = r.skipped[j] => i = j

(* Which keys the two loops of advance_receive store. *)
LEMMA StoredKeys ==
  ASSUME NEW r, IsRatchet(r), NEW first \in Nat, NEW last \in Nat,
         NEW S, S = StoreSkipped(r, first, last), NEW i \in DOMAIN S
  PROVE  \/ i \in DOMAIN r.skipped /\ S[i] = r.skipped[i]
         \/ /\ i \in first .. last - 1
            /\ S[i].secret = r.recv.key.secret /\ S[i].label = r.recv.key.label
            /\ S[i].step = r.recv.key.step + (i - first)
<1>1. S = [j \in DOMAIN r.skipped \cup (first .. last - 1) |->
             IF j \in first .. last - 1 THEN KeyAfter(r.recv.key, j - first) ELSE r.skipped[j]]
  BY DEF StoreSkipped
<1>2. i \in DOMAIN r.skipped \cup (first .. last - 1)
  BY <1>1
<1>3. CASE i \in first .. last - 1
  <2>1. S[i] = KeyAfter(r.recv.key, i - first)
    BY <1>1, <1>2, <1>3
  <2>2. r.recv.key \in MessageKeys /\ i - first \in Int /\ i - first >= 0
    BY <1>3, RatchetFields DEF Chains
  <2> DEFINE n == i - first
  <2> HIDE DEF n
  <2>3. KeyAfter(r.recv.key, n) = [secret |-> r.recv.key.secret, label |-> r.recv.key.label,
                                   step |-> r.recv.key.step + n]
    BY <2>2, KeyAfterType DEF n
  <2> QED  BY <1>3, <2>1, <2>3 DEF n
<1>4. CASE i \notin first .. last - 1
  BY <1>1, <1>2, <1>4
<1> QED  BY <1>3, <1>4

(* Storing keys ahead of the chain keeps the backlog apart from what was   *)
(* obtained, and its keys from one another.                                *)
LEMMA StoredFine ==
  ASSUME NEW m, NEW r, IsRatchet(r), NEW G \in SUBSET MessageKeys, ReceiveSide(m, r, G),
         NEW first \in Nat, NEW last \in Nat, NEW S, S = StoreSkipped(r, first, last)
  PROVE  \A i \in DOMAIN S :
              /\ AllExist(m, S[i].secret) /\ (S[i].label = "DHRatchet" => r.local \notin S[i].secret)
              /\ S[i] \notin G
              /\ SameChain(S[i], r.recv.key) =>
                   S[i].step < r.recv.key.step \/ S[i].step < r.recv.key.step + (last - first)
<1>1. r.recv.key.step \in Nat
  BY RatchetFields DEF Chains, MessageKeys
<1>2. \A i \in DOMAIN r.skipped : r.skipped[i] \in Stored(r) /\ r.skipped[i].step \in Nat
  BY RatchetFields DEF Stored, MessageKeys
<1>3. ASSUME NEW i \in DOMAIN S
      PROVE  /\ AllExist(m, S[i].secret) /\ (S[i].label = "DHRatchet" => r.local \notin S[i].secret)
             /\ S[i] \notin G
             /\ SameChain(S[i], r.recv.key) =>
                  S[i].step < r.recv.key.step \/ S[i].step < r.recv.key.step + (last - first)
  <2>1. CASE i \in DOMAIN r.skipped /\ S[i] = r.skipped[i]
    BY <1>2, <2>1 DEF ReceiveSide
  <2>2. CASE /\ i \in first .. last - 1
             /\ S[i].secret = r.recv.key.secret /\ S[i].label = r.recv.key.label
             /\ S[i].step = r.recv.key.step + (i - first)
    <3>1. AllExist(m, S[i].secret) /\ (S[i].label = "DHRatchet" => r.local \notin S[i].secret)
      BY <2>2 DEF ReceiveSide, AllExist
    <3>2. S[i].step >= r.recv.key.step /\ S[i].step < r.recv.key.step + (last - first)
      BY <1>1, <2>2
    <3>3. S[i] \notin G
      <4>1. SameChain(S[i], r.recv.key)
        BY <2>2 DEF SameChain
      <4>2. \A k \in G : SameChain(k, r.recv.key) => k.step < r.recv.key.step
        BY DEF ReceiveSide
      <4>3. ASSUME S[i] \in G PROVE FALSE
        <5>1. S[i].step < r.recv.key.step
          BY <4>1, <4>2, <4>3
        <5>2. S[i].step \in Nat
          BY <1>1, <2>2
        <5> QED  BY <1>1, <3>2, <5>1, <5>2
      <4> QED  BY <4>3
    <3> QED  BY <3>1, <3>2, <3>3
  <2> QED  BY <2>1, <2>2, StoredKeys
<1> QED  BY <1>3

LEMMA StoredOnce ==
  ASSUME NEW m, NEW r, IsRatchet(r), NEW G \in SUBSET MessageKeys, ReceiveSide(m, r, G),
         NEW first \in Nat, NEW last \in Nat, NEW S, S = StoreSkipped(r, first, last),
         NEW i \in DOMAIN S, NEW j \in DOMAIN S, S[i] = S[j]
  PROVE  i = j
<1>1. r.recv.key.step \in Nat
  BY RatchetFields DEF Chains, MessageKeys
<1>2. \A x \in DOMAIN r.skipped : r.skipped[x] \in Stored(r) /\ r.skipped[x].step \in Nat
  BY RatchetFields DEF Stored, MessageKeys
<1> DEFINE Old(n) == n \in DOMAIN r.skipped /\ S[n] = r.skipped[n]
           New(n) == /\ n \in first .. last - 1
                     /\ S[n].secret = r.recv.key.secret /\ S[n].label = r.recv.key.label
                     /\ S[n].step = r.recv.key.step + (n - first)
<1>3. (Old(i) \/ New(i)) /\ (Old(j) \/ New(j))
  <2>1. Old(i) \/ New(i)
    BY StoredKeys
  <2>2. Old(j) \/ New(j)
    BY StoredKeys
  <2> QED  BY <2>1, <2>2
<1>4. ASSUME NEW x \in DOMAIN S, NEW y \in DOMAIN S, Old(x), New(y) PROVE S[x] # S[y]
  <2>1. SameChain(S[y], r.recv.key) /\ S[y].step >= r.recv.key.step /\ S[y].step \in Nat
    BY <1>1, <1>4 DEF SameChain
  <2>2. S[x] \in Stored(r)
    BY <1>2, <1>4
  <2>3. SameChain(S[x], r.recv.key) => S[x].step < r.recv.key.step
    BY <2>2 DEF ReceiveSide
  <2>4. ASSUME S[x] = S[y] PROVE FALSE
    BY <1>1, <2>1, <2>3, <2>4
  <2> QED  BY <2>4
<1>5. CASE Old(i) /\ Old(j)
  BY <1>5 DEF ReceiveSide
<1>6. CASE New(i) /\ New(j)
  <2>1. r.recv.key.step + (i - first) = r.recv.key.step + (j - first)
    BY <1>6
  <2>2. i \in Int /\ j \in Int
    BY <1>6
  <2> QED  BY <1>1, <2>1, <2>2
<1> QED  BY <1>3, <1>4, <1>5, <1>6

Grown(m, n) == \A x \in PublicKeys : Exists(m, x) => Exists(n, x)

(* More key pairs do no harm. *)
LEMMA ReceiveMore ==
  ASSUME NEW m, NEW n, Grown(m, n)
  PROVE  /\ \A k \in MessageKeys : AllExist(m, k.secret) => AllExist(n, k.secret)
         /\ \A r : \A G \in SUBSET MessageKeys :
              IsRatchet(r) /\ ReceiveSide(m, r, G) => ReceiveSide(n, r, G)
<1>1. \A k \in MessageKeys : AllExist(m, k.secret) => AllExist(n, k.secret)
  BY DEF Grown, AllExist, MessageKeys
<1>2. ASSUME NEW r, NEW G \in SUBSET MessageKeys, IsRatchet(r), ReceiveSide(m, r, G)
      PROVE  ReceiveSide(n, r, G)
  <2>1. r.recv.key \in MessageKeys /\ Stored(r) \in SUBSET MessageKeys
    BY <1>2, RatchetFields DEF Chains, Stored
  <2> QED  BY <1>1, <1>2, <2>1 DEF ReceiveSide
<1> QED  BY <1>1, <1>2

(* A header with a new DH key: the receiving chain that is started is new. *)
LEMMA AdoptKeeps ==
  ASSUME NEW m, NEW n, NEW r, IsRatchet(r), NEW h \in Headers, NEW fresh \in PublicKeys,
         NEW G \in SUBSET MessageKeys, ReceiveSide(m, r, G), Grown(m, n),
         Exists(m, r.local), Exists(m, h.dh), ~Exists(m, fresh),
         NEW t, t = AdoptDh(r, h, fresh)
  PROVE  ReceiveSide(n, t, G)
<1> DEFINE S == StoreSkipped(r, h.prev, r.recv.index)
<1>1. /\ t.local = fresh
      /\ t.recv = DhChain(r.local, h.dh)
      /\ t.skipped = S
  <2>1. t = [due |-> TRUE, local |-> fresh, remote |-> h.dh, send |-> DhChain(fresh, h.dh),
             recv |-> DhChain(r.local, h.dh), skipped |-> S]
    BY AdoptForm
  <2> HIDE DEF S
  <2> QED  BY <2>1
<1>2. h.dh \in PublicKeys /\ h.prev \in Nat /\ r.recv.index \in Nat /\ r.local \in PublicKeys
      /\ r.recv.key \in MessageKeys
  BY RatchetFields DEF Headers, Chains
<1>3. t.recv.key = [secret |-> {r.local, h.dh}, label |-> "DHRatchet", step |-> 0]
  BY <1>1, <1>2, DhChainType
<1>4. /\ \A i \in DOMAIN S :
           /\ AllExist(m, S[i].secret) /\ (S[i].label = "DHRatchet" => r.local \notin S[i].secret)
           /\ S[i] \notin G
      /\ \A i, j \in DOMAIN S : S[i] = S[j] => i = j
  <2>1. S = StoreSkipped(r, h.prev, r.recv.index)
    OBVIOUS
  <2> HIDE DEF S
  <2>2. ASSUME NEW i \in DOMAIN S, NEW j \in DOMAIN S, S[i] = S[j] PROVE i = j
    BY <1>2, <2>1, <2>2, StoredOnce
  <2> QED  BY <1>2, <2>1, <2>2, StoredFine
<1>5. S \in [DOMAIN S -> MessageKeys]
  BY <1>2, StoreSkippedType
<1> HIDE DEF S
<1>6. ASSUME NEW k \in MessageKeys, AllExist(m, k.secret)
      PROVE  AllExist(n, k.secret) /\ fresh \notin k.secret
  BY <1>6, ReceiveMore DEF AllExist
<1>7. Stored(t) = {S[i] : i \in DOMAIN S}
  BY <1>1 DEF Stored
<1>8. ASSUME NEW k \in G \cup Stored(t)
      PROVE  /\ k \in MessageKeys /\ AllExist(m, k.secret) /\ ~SameChain(k, t.recv.key)
  <2>1. AllExist(m, k.secret) /\ (k.label = "DHRatchet" => r.local \notin k.secret)
    BY <1>4, <1>7 DEF ReceiveSide
  <2>2. ~SameChain(k, t.recv.key)
    BY <1>3, <2>1 DEF SameChain
  <2> QED  BY <1>5, <1>7, <2>1, <2>2
<1>9. AllExist(n, t.recv.key.secret) /\ fresh \notin t.recv.key.secret
  BY <1>2, <1>3 DEF AllExist, Grown
<1>10. G \cap Stored(t) = {}
  BY <1>4, <1>7
<1>11. \A k \in G \cup Stored(t) \cup {t.recv.key} :
         AllExist(n, k.secret) /\ (k.label = "DHRatchet" => t.local \notin k.secret)
  BY <1>1, <1>6, <1>8, <1>9
<1>12. \A i, j \in DOMAIN t.skipped : t.skipped[i] = t.skipped[j] => i = j
  BY <1>1, <1>4
<1> QED  BY <1>8, <1>10, <1>11, <1>12 DEF ReceiveSide

(* A key from the backlog: it is obtained, and erased. *)
LEMMA BacklogKeeps ==
  ASSUME NEW m, NEW r, IsRatchet(r), NEW G \in SUBSET MessageKeys, ReceiveSide(m, r, G),
         NEW index \in Nat, NEW a, a = FromBacklog(r, index)
  PROVE  ReceiveSide(m, a.ratchet, IF a.key = NoKey THEN G ELSE G \cup {a.key})
<1>1. CASE index \in DOMAIN r.skipped
  <2> DEFINE D == DOMAIN r.skipped \ {index}
             k == r.skipped[index]
             t == a.ratchet
  <2>1. /\ t.local = r.local
        /\ t.recv = r.recv
        /\ t.skipped = [i \in D |-> r.skipped[i]]
        /\ a.key = k
    <3>1. a = [ratchet |-> [due |-> r.due, local |-> r.local, remote |-> r.remote,
                            send |-> r.send, recv |-> r.recv,
                            skipped |-> [i \in D |-> r.skipped[i]]],
               key |-> k]
      BY <1>1, BacklogForm
    <3> QED  BY <3>1
  <2>2. /\ DOMAIN t.skipped = D /\ \A i \in D : t.skipped[i] = r.skipped[i]
    BY <2>1
  <2>3. k \in Stored(r) /\ Stored(t) = Stored(r) \ {k}
    <3>1. k \in Stored(r)
      BY <1>1 DEF Stored
    <3>2. \A i \in D : r.skipped[i] \in Stored(r) /\ r.skipped[i] # k
      BY <1>1 DEF Stored, ReceiveSide
    <3>3. \A x \in Stored(r) : x # k => \E i \in D : x = r.skipped[i]
      BY DEF Stored
    <3> HIDE DEF k, D, t
    <3> QED  BY <2>2, <3>1, <3>2, <3>3 DEF Stored
  <2> HIDE DEF k, t, D
  <2>4. /\ \A x \in (G \cup {k}) \cup Stored(t) \cup {t.recv.key} :
             x \in G \cup Stored(r) \cup {r.recv.key}
        /\ \A x \in (G \cup {k}) \cup Stored(t) : x \in G \cup Stored(r)
        /\ (G \cup {k}) \cap Stored(t) = {}
    BY <2>1, <2>3 DEF ReceiveSide
  <2>5. \A i, j \in DOMAIN t.skipped : t.skipped[i] = t.skipped[j] => i = j
    BY <2>2 DEF ReceiveSide, D
  <2>6. ReceiveSide(m, t, G \cup {k}) /\ ReceiveSide(m, t, G)
    BY <2>1, <2>4, <2>5 DEF ReceiveSide
  <2> QED  BY <2>1, <2>6 DEF t
<1>2. CASE index \notin DOMAIN r.skipped
  BY <1>2, BacklogForm
<1> QED  BY <1>1, <1>2

(* A key from the chain, which moves past it. *)
LEMMA ChainKeeps ==
  ASSUME NEW m, NEW r, IsRatchet(r), NEW G \in SUBSET MessageKeys, ReceiveSide(m, r, G),
         NEW index \in Nat, index >= r.recv.index, NEW a, a = FromChain(r, index)
  PROVE  ReceiveSide(m, a.ratchet, IF a.key = NoKey THEN G ELSE G \cup {a.key})
<1> DEFINE c == r.recv.key
           d == index - r.recv.index
           k == KeyAfter(c, d)
           S == StoreSkipped(r, r.recv.index, index)
           t == a.ratchet
           l == KeyAfter(k, 1)
<1>1. r.recv.index \in Nat /\ c \in MessageKeys
  BY RatchetFields DEF Chains
<1>2. d \in Nat
  BY <1>1
<1>3. a = [ratchet |-> [due |-> r.due, local |-> r.local, remote |-> r.remote, send |-> r.send,
                        recv |-> [index |-> index + 1, key |-> l], skipped |-> S],
           key |-> k]
  BY ChainForm
<1>4. /\ \A i \in DOMAIN S :
           /\ AllExist(m, S[i].secret) /\ (S[i].label = "DHRatchet" => r.local \notin S[i].secret)
           /\ S[i] \notin G
           /\ SameChain(S[i], c) => S[i].step < c.step \/ S[i].step < c.step + d
      /\ \A i, j \in DOMAIN S : S[i] = S[j] => i = j
  <2>1. S = StoreSkipped(r, r.recv.index, index)
    OBVIOUS
  <2> HIDE DEF S
  <2>2. ASSUME NEW i \in DOMAIN S, NEW j \in DOMAIN S, S[i] = S[j] PROVE i = j
    BY <1>1, <2>1, <2>2, StoredOnce
  <2> QED  BY <1>1, <2>1, <2>2, StoredFine
<1>5. \A i \in DOMAIN S : S[i].step \in Nat
  <2>1. S \in [DOMAIN S -> MessageKeys]
    BY <1>1, StoreSkippedType
  <2> QED  BY <2>1 DEF MessageKeys
<1> HIDE DEF S, d
<1>6. c.step \in Nat /\ k.secret = c.secret /\ k.label = c.label /\ k.step = c.step + d
  <2>1. c.step \in Nat
    BY <1>1 DEF MessageKeys
  <2> HIDE DEF c
  <2>2. k = [secret |-> c.secret, label |-> c.label, step |-> c.step + d]
    BY <1>1, <1>2, KeyAfterType
  <2> HIDE DEF k
  <2> QED  BY <2>1, <2>2
<1>7. k \in MessageKeys
  <2> HIDE DEF c
  <2> QED  BY <1>1, <1>2, KeyAfterType
<1> HIDE DEF k
<1>8. l.secret = c.secret /\ l.label = c.label /\ l.step = c.step + d + 1
  <2>1. l = [secret |-> k.secret, label |-> k.label, step |-> k.step + 1]
    BY <1>7, KeyAfterType
  <2> QED  BY <1>6, <2>1
<1> HIDE DEF l
<1>9. /\ t.local = r.local
      /\ t.recv.key = l
      /\ t.skipped = S
      /\ a.key = k
  BY <1>3
<1> HIDE DEF t
<1>10. Stored(t) = {S[i] : i \in DOMAIN S}
  BY <1>9 DEF Stored
<1>11. \A x : SameChain(x, l) <=> SameChain(x, c)
  BY <1>8 DEF SameChain
<1>12. \A x \in G : x.step \in Nat
  BY DEF MessageKeys
<1> HIDE DEF c
<1>13. ASSUME NEW x \in (G \cup {k}) \cup Stored(t) \cup {l}
       PROVE  AllExist(m, x.secret) /\ (x.label = "DHRatchet" => r.local \notin x.secret)
  <2>1. AllExist(m, c.secret) /\ (c.label = "DHRatchet" => r.local \notin c.secret)
    BY DEF ReceiveSide, c
  <2>2. CASE x \in G
    BY <2>2 DEF ReceiveSide
  <2>3. CASE x \in Stored(t)
    BY <1>4, <1>10, <2>3
  <2>4. CASE x = k \/ x = l
    BY <1>6, <1>8, <2>1, <2>4
  <2> QED  BY <2>2, <2>3, <2>4
<1>14. ASSUME NEW x \in (G \cup {k}) \cup Stored(t), SameChain(x, l)
       PROVE  x.step < l.step
  <2>1. SameChain(x, c)
    BY <1>11, <1>14
  <2>2. CASE x \in G
    <3>1. x.step < c.step
      BY <2>1, <2>2 DEF ReceiveSide, c
    <3> QED  BY <1>2, <1>6, <1>8, <1>12, <2>2, <3>1
  <2>3. CASE x \in Stored(t)
    <3>1. x.step \in Nat /\ (x.step < c.step \/ x.step < c.step + d)
      BY <1>4, <1>5, <1>10, <2>1, <2>3
    <3> QED  BY <1>2, <1>6, <1>8, <3>1
  <2>4. CASE x = k
    BY <1>2, <1>6, <1>8, <2>4
  <2> QED  BY <2>2, <2>3, <2>4
<1>15. (G \cup {k}) \cap Stored(t) = {}
  <2>1. G \cap Stored(t) = {}
    BY <1>4, <1>10
  <2>2. ASSUME NEW i \in DOMAIN S, S[i] = k PROVE FALSE
    <3>1. SameChain(S[i], c)
      BY <1>6, <2>2 DEF SameChain
    <3>2. S[i].step < c.step \/ S[i].step < c.step + d
      BY <1>4, <3>1
    <3> QED  BY <1>2, <1>6, <2>2, <3>2
  <2> QED  BY <1>10, <2>1, <2>2
<1>16. \A i, j \in DOMAIN t.skipped : t.skipped[i] = t.skipped[j] => i = j
  BY <1>4, <1>9
<1>17. ReceiveSide(m, t, G \cup {k}) /\ ReceiveSide(m, t, G)
  BY <1>9, <1>13, <1>14, <1>15, <1>16 DEF ReceiveSide
<1> QED  BY <1>9, <1>17 DEF t
=============
