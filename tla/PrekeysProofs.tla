--------------------------- MODULE PrekeysProofs ---------------------------
(***************************************************************************)
(* The safety of Prekeys for every set of peers, batch size and age limit. *)
(*                                                                         *)
(* SavedBeforeAdvertised and SecretsAgree are not inductive: what a peer   *)
(* was given has to be followed from the pool through its bundle and its   *)
(* handshake into the backlog.  The four parts below say what holds on     *)
(* that way.                                                               *)
(***************************************************************************)
EXTENDS Prekeys, TLAPS

Handed == waiting \cup backlog

(* A login that is about to post has gone through the insertions.          *)
SavedBeforePost == step = "post" => NewKeys(logins) \subseteq onetime \cup unsaved

(* A bundle is held by a peer that has no session, and its signed prekey   *)
(* is one the database has had.                                            *)
BundleFirst ==
  \A p \in Peers : bundle[p] # Nothing => theirs[p] = Nothing /\ bundle[p].signed <= signed

(* A handshake is only ever posted for a session the peer has, and offers  *)
(* the one-time key the peer's secret is made with.                        *)
HandshakesMatch ==
  \A h \in Handed :
     /\ theirs[h.from] # Nothing
     /\ theirs[h.from].secret = X3dhInitiator(h.from, theirs[h.from].signed, h.onetime)

(* The owner never has a session its peer has not. *)
PeerFirst == \A p \in Peers : ours[p] # Nothing => theirs[p] # Nothing

IInv ==
  /\ TypeOK /\ SavedBeforeAdvertised /\ SecretsAgree
  /\ SavedBeforePost /\ BundleFirst /\ HandshakesMatch /\ PeerFirst

-----------------------------------------------------------------------------
(* X3DH.                                                                   *)

(* The two ends compute one secret from one set of keys: each DH output is *)
(* made from the same two keys, whoever makes it.                          *)
LEMMA X3dhAgrees ==
  ASSUME NEW p, NEW n, NEW k
  PROVE  X3dhInitiator(p, n, k) = X3dhResponder(p, n, k)
<1>1. \A a, b : Dh(a, b) = Dh(b, a)
  BY DEF Dh
<1>2. QED
  BY <1>1 DEF X3dhInitiator, X3dhResponder

LEMMA KeyTypes ==
  ASSUME NEW p \in Peers, NEW n \in Nat, NEW k \in OneTimeKeys
  PROVE  {DeviceKey(p), DeviceKey(Owner), EphemeralKey(p), SignedKey(n), OneTimeKey(k)} \subseteq Keys
BY DEF Keys, DeviceKey, EphemeralKey, SignedKey, OneTimeKey

LEMMA X3dhType ==
  ASSUME NEW p \in Peers, NEW n \in Nat, NEW k \in OneTimeKeys
  PROVE  X3dhInitiator(p, n, k) \in [1 .. 4 -> SUBSET Keys]
<1>1. /\ Dh(DeviceKey(p), SignedKey(n)) \in SUBSET Keys
      /\ Dh(EphemeralKey(p), DeviceKey(Owner)) \in SUBSET Keys
      /\ Dh(EphemeralKey(p), SignedKey(n)) \in SUBSET Keys
      /\ Dh(EphemeralKey(p), OneTimeKey(k)) \in SUBSET Keys
  BY KeyTypes DEF Dh
<1>2. \A a, b, c, d \in SUBSET Keys : <<a, b, c, d>> \in [1 .. 4 -> SUBSET Keys]
  OBVIOUS
<1>3. QED
  BY <1>1, <1>2, Zenon DEF X3dhInitiator

(* What a peer makes of a bundle is a session, and its parts are these.    *)
LEMMA InitiatedFacts ==
  ASSUME NEW p \in Peers, NEW b \in Bundles
  PROVE  /\ Initiated(p, b) \in Agreements /\ Initiated(p, b) # Nothing
         /\ Initiated(p, b).signed = b.signed
         /\ Initiated(p, b).secret = X3dhInitiator(p, b.signed, b.onetime)
<1>1. b.signed \in Nat /\ b.onetime \in OneTimeKeys
  BY DEF Bundles
<1>2. X3dhInitiator(p, b.signed, b.onetime) \in [1 .. 4 -> SUBSET Keys]
  BY <1>1, X3dhType
<1>3. QED
  BY <1>1, <1>2, NothingAssumption DEF Initiated, Agreements

(* So is what the owner makes of a handshake. *)
LEMMA RespondedFacts ==
  ASSUME NEW h \in Handshakes, signed \in Nat
  PROVE  /\ Responded(h) \in Agreements
         /\ Responded(h).signed = signed
         /\ Responded(h).secret = X3dhInitiator(h.from, signed, h.onetime)
<1>1. h.from \in Peers /\ h.onetime \in OneTimeKeys
  BY DEF Handshakes
<1>2. X3dhResponder(h.from, signed, h.onetime) = X3dhInitiator(h.from, signed, h.onetime)
  BY X3dhAgrees
<1>3. X3dhInitiator(h.from, signed, h.onetime) \in [1 .. 4 -> SUBSET Keys]
  BY <1>1, X3dhType
<1>4. QED
  BY <1>2, <1>3 DEF Responded, Agreements

LEMMA NewKeysType ==
  ASSUME NEW n \in Nat
  PROVE  NewKeys(n) \subseteq OneTimeKeys
BY DEF NewKeys, OneTimeKeys

-----------------------------------------------------------------------------
(* The steps.                                                              *)

LEMMA InitIInv == Init => IInv
<1> SUFFICES ASSUME Init PROVE IInv
  OBVIOUS
<1> USE DEF Init
<1>1. \A p \in Peers : bundle[p] = Nothing /\ theirs[p] = Nothing /\ ours[p] = Nothing
  OBVIOUS
<1>2. 0 \in 0 .. MaxAge + 1
  BY SizesAssumption
<1>3. TypeOK
  BY <1>2 DEF TypeOK, Steps
<1>4. SavedBeforeAdvertised
  BY <1>1 DEF SavedBeforeAdvertised
<1>5. SecretsAgree /\ BundleFirst /\ PeerFirst
  BY <1>1 DEF SecretsAgree, BundleFirst, PeerFirst
<1>6. SavedBeforePost /\ HandshakesMatch
  BY DEF SavedBeforePost, HandshakesMatch, Handed
<1>7. QED
  BY <1>3, <1>4, <1>5, <1>6 DEF IInv

(* Steps that move the login on, or end it, and leave the keys alone.      *)
LEMMA LoginMoves ==
  ASSUME IInv,
         UNCHANGED <<database, server, ends>>,
         step' \in Steps, fresh' \in BOOLEAN, logins' \in Nat, mishaps' \in Nat,
         step' # "post",
         \/ UNCHANGED backlog /\ (backlog # {} => step' = "in")
         \/ backlog' = {}
  PROVE  IInv'
<1> USE DEF IInv, database, server, ends
<1>1. TypeOK'
  BY DEF TypeOK
<1>2. SavedBeforeAdvertised'
  BY DEF SavedBeforeAdvertised
<1>3. SecretsAgree'
  BY DEF SecretsAgree
<1>4. HandshakesMatch'
  BY DEF HandshakesMatch, Handed
<1>5. SavedBeforePost' /\ BundleFirst' /\ PeerFirst'
  BY DEF SavedBeforePost, BundleFirst, PeerFirst
<1>6. QED
  BY <1>1, <1>2, <1>3, <1>4, <1>5

(* The signed prekey is replaced by a later one, or a day goes by.         *)
LEMMA SignedMoves ==
  ASSUME IInv,
         UNCHANGED <<onetime, unsaved, logins, server, ends, backlog, mishaps>>,
         signed' \in Nat, signed' >= signed, age' \in 0 .. MaxAge + 1,
         step' \in Steps, fresh' \in BOOLEAN,
         step' # "post", backlog # {} => step' = "in"
  PROVE  IInv'
<1> USE DEF IInv, server, ends
<1>1. TypeOK'
  BY DEF TypeOK
<1>2. SavedBeforeAdvertised'
  <2>1. \A p \in Peers : theirs[p] # Nothing => theirs[p].signed \in Nat
    BY DEF TypeOK, Agreements
  <2>2. QED
    BY <2>1 DEF TypeOK, SavedBeforeAdvertised
<1>3. SecretsAgree'
  BY DEF SecretsAgree
<1>4. HandshakesMatch' /\ SavedBeforePost' /\ PeerFirst'
  BY DEF HandshakesMatch, Handed, SavedBeforePost, PeerFirst
<1>5. BundleFirst'
  <2>1. \A p \in Peers : bundle[p] # Nothing => bundle[p].signed \in Nat
    BY DEF TypeOK, Bundles
  <2>2. QED
    BY <2>1 DEF BundleFirst, TypeOK
<1>6. QED
  BY <1>1, <1>2, <1>3, <1>4, <1>5

LEMMA SaveStep == IInv /\ SaveOneTimeKeys => IInv'
<1> SUFFICES ASSUME IInv, SaveOneTimeKeys PROVE IInv'
  OBVIOUS
<1> USE DEF IInv, server, ends
<1>1. PICK lost \in SUBSET NewKeys(logins) :
        /\ IF lost = {} THEN UNCHANGED mishaps ELSE Mishap
        /\ onetime' = onetime \cup (NewKeys(logins) \ lost)
        /\ unsaved' = unsaved \cup lost
  BY DEF SaveOneTimeKeys
<1>2. /\ step = "save" /\ step' = "post"
      /\ UNCHANGED <<signed, age, fresh, logins, advertised, pool, waiting, bundle, theirs, ours, backlog>>
  BY DEF SaveOneTimeKeys
<1>3. NewKeys(logins) \subseteq OneTimeKeys
  BY NewKeysType DEF TypeOK
<1>4. TypeOK'
  <2>1. mishaps' \in Nat
    BY <1>1 DEF Mishap, TypeOK
  <2>2. onetime' \subseteq OneTimeKeys /\ unsaved' \subseteq OneTimeKeys
    BY <1>1, <1>3 DEF TypeOK
  <2>3. backlog = {}
    BY <1>2 DEF TypeOK
  <2>4. QED
    BY <1>2, <2>1, <2>2, <2>3 DEF TypeOK, Steps
<1>5. onetime \cup unsaved \subseteq onetime' \cup unsaved'
  BY <1>1
<1>6. SavedBeforeAdvertised'
  BY <1>2, <1>5 DEF SavedBeforeAdvertised
<1>7. SavedBeforePost'
  BY <1>1, <1>2 DEF SavedBeforePost, NewKeys
<1>8. SecretsAgree' /\ BundleFirst' /\ HandshakesMatch' /\ PeerFirst'
  BY <1>2 DEF SecretsAgree, BundleFirst, HandshakesMatch, Handed, PeerFirst
<1>9. QED
  BY <1>4, <1>6, <1>7, <1>8

(* The request, whether it succeeds or fails. *)
LEMMA PostStep ==
  ASSUME IInv, step = "post",
         ServerTakes \/ UNCHANGED <<advertised, pool>>,
         step' \in {"in", "out"}, mishaps' \in Nat,
         UNCHANGED <<database, fresh, logins, waiting, ends, backlog>>
  PROVE  IInv'
<1> USE DEF IInv, database, ends
<1>1. /\ advertised' = signed \/ advertised' = advertised
      /\ pool' = pool \/ pool' = pool \cup NewKeys(logins)
  BY DEF ServerTakes
<1>2. NewKeys(logins) \subseteq OneTimeKeys
  BY NewKeysType DEF TypeOK
<1>3. backlog = {}
  BY DEF TypeOK
<1>4. TypeOK'
  BY <1>1, <1>2, <1>3 DEF TypeOK, Steps
<1>5. NewKeys(logins) \subseteq onetime \cup unsaved
  BY DEF SavedBeforePost
<1>6. SavedBeforeAdvertised'
  BY <1>1, <1>5 DEF SavedBeforeAdvertised, TypeOK
<1>7. SecretsAgree' /\ SavedBeforePost' /\ BundleFirst' /\ HandshakesMatch' /\ PeerFirst'
  BY DEF SecretsAgree, SavedBeforePost, BundleFirst, HandshakesMatch, Handed, PeerFirst
<1>8. QED
  BY <1>4, <1>6, <1>7

(* A bundle is taken out of what is advertised. *)
LEMMA FetchBundleStep ==
  ASSUME NEW p \in Peers, IInv, FetchBundle(p)
  PROVE  IInv'
<1> USE DEF IInv, database, login
<1>1. PICK k \in pool : /\ bundle' = [bundle EXCEPT ![p] = [signed |-> advertised, onetime |-> k]]
                        /\ pool' = pool \ {k}
  BY DEF FetchBundle
<1>2. /\ theirs[p] = Nothing /\ bundle[p] = Nothing
      /\ UNCHANGED <<signed, age, onetime, unsaved, step, fresh, logins, advertised, waiting, theirs, ours, backlog, mishaps>>
  BY DEF FetchBundle
<1> DEFINE b == [signed |-> advertised, onetime |-> k]
<1>3. b \in Bundles /\ b.signed = advertised /\ b.onetime = k
  BY DEF TypeOK, Bundles
<1>4. bundle'[p] = b /\ \A q \in Peers \ {p} : bundle'[q] = bundle[q]
  BY <1>1 DEF TypeOK
<1>5. bundle' \in [Peers -> Bundles \cup {Nothing}]
  BY <1>1, <1>3 DEF TypeOK
<1> HIDE DEF b
<1>6. TypeOK'
  BY <1>1, <1>2, <1>5 DEF TypeOK
<1>7. SavedBeforeAdvertised'
  <2>1. b.onetime \in onetime \cup unsaved
    BY <1>3, <1>1 DEF SavedBeforeAdvertised
  <2>2. \A q \in Peers : bundle'[q] # Nothing => bundle'[q].onetime \in onetime \cup unsaved
    BY <2>1, <1>4 DEF SavedBeforeAdvertised
  <2>3. QED
    BY <1>1, <1>2, <2>2 DEF SavedBeforeAdvertised
<1>8. BundleFirst'
  <2>1. b.signed <= signed
    BY <1>3 DEF SavedBeforeAdvertised
  <2>2. QED
    BY <2>1, <1>2, <1>4 DEF BundleFirst
<1>9. SecretsAgree' /\ SavedBeforePost' /\ HandshakesMatch' /\ PeerFirst'
  BY <1>2 DEF SecretsAgree, SavedBeforePost, HandshakesMatch, Handed, PeerFirst
<1>10. QED
  BY <1>6, <1>7, <1>8, <1>9

(* The peer had neither a session nor a handshake under way, so the one it *)
(* posts now is its only one.                                              *)
LEMMA EstablishStep ==
  ASSUME NEW p \in Peers, IInv, Establish(p)
  PROVE  IInv'
<1> USE DEF IInv, database, login
<1> DEFINE b == bundle[p]
           s == Initiated(p, b)
           h == [from |-> p, onetime |-> b.onetime]
<1>1. /\ b # Nothing
      /\ theirs' = [theirs EXCEPT ![p] = s]
      /\ bundle' = [bundle EXCEPT ![p] = Nothing]
      /\ waiting' \in {waiting, waiting \cup {h}}
      /\ mishaps' \in {mishaps, mishaps + 1}
      /\ UNCHANGED <<signed, age, onetime, unsaved, step, fresh, logins, advertised, pool, ours, backlog>>
  BY DEF Establish, Mishap
<1>2. b \in Bundles
  BY <1>1 DEF TypeOK
<1>3. theirs[p] = Nothing /\ b.signed <= signed
  BY <1>1 DEF BundleFirst
<1>4. ours[p] = Nothing
  BY <1>3 DEF PeerFirst
<1>5. \A g \in Handed : g.from # p
  BY <1>3 DEF HandshakesMatch
<1>6. /\ s \in Agreements /\ s # Nothing /\ s.signed = b.signed
      /\ s.secret = X3dhInitiator(p, b.signed, b.onetime)
  BY <1>2, InitiatedFacts
<1>7. h \in Handshakes /\ h.from = p /\ h.onetime = b.onetime
  BY <1>2 DEF Handshakes, Bundles
<1>8. b.onetime \in onetime \cup unsaved
  BY <1>1 DEF SavedBeforeAdvertised
<1> HIDE DEF b, s, h
<1>9. theirs'[p] = s /\ \A q \in Peers \ {p} : theirs'[q] = theirs[q]
  BY <1>1 DEF TypeOK
<1>10. bundle'[p] = Nothing /\ \A q \in Peers \ {p} : bundle'[q] = bundle[q]
  BY <1>1 DEF TypeOK
<1>11. Handed' \subseteq Handed \cup {h}
  BY <1>1 DEF Handed
<1>12. TypeOK'
  <2>1. theirs' \in [Peers -> Agreements \cup {Nothing}]
    BY <1>1, <1>6 DEF TypeOK
  <2>2. bundle' \in [Peers -> Bundles \cup {Nothing}]
    BY <1>1 DEF TypeOK
  <2>3. waiting' \subseteq Handshakes
    BY <1>1, <1>7 DEF TypeOK
  <2>4. mishaps' \in Nat
    BY <1>1 DEF TypeOK
  <2>5. QED
    BY <1>1, <2>1, <2>2, <2>3, <2>4 DEF TypeOK
<1>13. SavedBeforeAdvertised'
  <2>1. \A q \in Peers : theirs'[q] # Nothing => theirs'[q].signed <= signed
    BY <1>3, <1>6, <1>9 DEF SavedBeforeAdvertised
  <2>2. \A q \in Peers : bundle'[q] # Nothing => bundle'[q].onetime \in onetime \cup unsaved
    BY <1>10 DEF SavedBeforeAdvertised
  <2>3. \A g \in Handed' : g.onetime \in onetime \cup unsaved
    BY <1>7, <1>8, <1>11 DEF SavedBeforeAdvertised, Handed
  <2>4. QED
    BY <1>1, <2>1, <2>2, <2>3 DEF SavedBeforeAdvertised, Handed
<1>14. SecretsAgree'
  BY <1>1, <1>4, <1>9 DEF SecretsAgree
<1>15. BundleFirst'
  BY <1>1, <1>9, <1>10 DEF BundleFirst
<1>16. HandshakesMatch'
  <2>1. \A g \in Handed : g.from \in Peers \ {p}
    BY <1>5 DEF TypeOK, Handed, Handshakes
  <2>2. \A g \in Handed : theirs'[g.from] = theirs[g.from]
    BY <2>1, <1>9
  <2>3. ASSUME NEW g \in Handed
        PROVE  /\ theirs'[g.from] # Nothing
               /\ theirs'[g.from].secret = X3dhInitiator(g.from, theirs'[g.from].signed, g.onetime)
    BY <2>2 DEF HandshakesMatch
  <2>4. /\ theirs'[h.from] # Nothing
        /\ theirs'[h.from].secret = X3dhInitiator(h.from, theirs'[h.from].signed, h.onetime)
    BY <1>6, <1>7, <1>9
  <2>5. QED
    BY <2>3, <2>4, <1>11 DEF HandshakesMatch
<1>17. SavedBeforePost' /\ PeerFirst'
  BY <1>1, <1>6, <1>9 DEF SavedBeforePost, PeerFirst
<1>18. QED
  BY <1>12, <1>13, <1>14, <1>15, <1>16, <1>17

LEMMA LoseBundleStep ==
  ASSUME NEW p \in Peers, IInv, LoseBundle(p)
  PROVE  IInv'
<1> USE DEF IInv, database, login, server
<1>1. /\ bundle' = [bundle EXCEPT ![p] = Nothing] /\ mishaps' = mishaps + 1
      /\ UNCHANGED <<database, login, server, theirs, ours, backlog>>
  BY DEF LoseBundle, Mishap
<1>2. bundle'[p] = Nothing /\ \A q \in Peers \ {p} : bundle'[q] = bundle[q]
  BY <1>1 DEF TypeOK
<1>3. TypeOK'
  <2>1. bundle' \in [Peers -> Bundles \cup {Nothing}] /\ mishaps' \in Nat
    BY <1>1 DEF TypeOK
  <2>2. QED
    BY <1>1, <2>1 DEF TypeOK
<1>4. SavedBeforeAdvertised' /\ BundleFirst'
  BY <1>1, <1>2 DEF SavedBeforeAdvertised, BundleFirst
<1>5. SecretsAgree' /\ SavedBeforePost' /\ HandshakesMatch' /\ PeerFirst'
  BY <1>1 DEF SecretsAgree, SavedBeforePost, HandshakesMatch, Handed, PeerFirst
<1>6. QED
  BY <1>3, <1>4, <1>5

LEMMA FetchHandshakesStep == IInv /\ FetchHandshakes => IInv'
<1> SUFFICES ASSUME IInv, FetchHandshakes PROVE IInv'
  OBVIOUS
<1> USE DEF IInv, database, login, ends
<1>1. /\ step = "in" /\ waiting' = {} /\ backlog' \in {waiting, backlog}
      /\ mishaps' \in {mishaps, mishaps + 1}
      /\ UNCHANGED <<database, login, advertised, pool, ends>>
  BY DEF FetchHandshakes, Mishap
<1>2. Handed' \subseteq Handed
  BY <1>1 DEF Handed
<1>3. TypeOK'
  BY <1>1 DEF TypeOK
<1>4. SavedBeforeAdvertised'
  BY <1>1, <1>2 DEF SavedBeforeAdvertised, Handed
<1>5. HandshakesMatch'
  BY <1>1, <1>2 DEF HandshakesMatch
<1>6. SecretsAgree' /\ SavedBeforePost' /\ BundleFirst' /\ PeerFirst'
  BY <1>1 DEF SecretsAgree, SavedBeforePost, BundleFirst, PeerFirst
<1>7. QED
  BY <1>3, <1>4, <1>5, <1>6

(* The owner's signed prekey is at least the peer's, and if it is the same *)
(* one, the handshake carries the rest of what the peer's secret is made of. *)
LEMMA AnswerStep ==
  ASSUME NEW h \in backlog, IInv, Answer(h)
  PROVE  IInv'
<1> USE DEF IInv, database, login, server
<1> DEFINE r == Responded(h)
           p == h.from
<1>1. /\ ours' = [ours EXCEPT ![p] = r]
      /\ backlog' \subseteq backlog
      /\ UNCHANGED <<database, login, server, bundle, theirs, mishaps>>
  BY DEF Answer, AfterAnswer
<1>2. h \in Handshakes /\ p \in Peers /\ signed \in Nat
  BY DEF TypeOK, Handshakes
<1>3. r \in Agreements /\ r.signed = signed /\ r.secret = X3dhInitiator(p, signed, h.onetime)
  BY <1>2, RespondedFacts
<1>4. /\ theirs[p] # Nothing
      /\ theirs[p].secret = X3dhInitiator(p, theirs[p].signed, h.onetime)
  BY DEF HandshakesMatch, Handed
<1>5. theirs[p].signed <= signed
  BY <1>2, <1>4 DEF SavedBeforeAdvertised
<1> HIDE DEF r, p
<1>6. ours'[p] = r /\ \A q \in Peers \ {p} : ours'[q] = ours[q]
  BY <1>1, <1>2 DEF TypeOK
<1>7. Handed' \subseteq Handed
  BY <1>1 DEF Handed
<1>8. TypeOK'
  <2>1. ours' \in [Peers -> Agreements \cup {Nothing}]
    BY <1>1, <1>3 DEF TypeOK
  <2>2. QED
    BY <1>1, <2>1 DEF TypeOK
<1>9. SavedBeforeAdvertised'
  BY <1>1, <1>7 DEF SavedBeforeAdvertised, Handed
<1>10. SecretsAgree'
  <2>1. /\ theirs'[p].signed <= ours'[p].signed
        /\ theirs'[p].signed = ours'[p].signed => theirs'[p].secret = ours'[p].secret
    BY <1>1, <1>3, <1>4, <1>5, <1>6
  <2>2. QED
    BY <1>1, <1>6, <2>1 DEF SecretsAgree
<1>11. HandshakesMatch'
  BY <1>1, <1>7 DEF HandshakesMatch
<1>12. PeerFirst'
  BY <1>1, <1>4, <1>6 DEF PeerFirst
<1>13. SavedBeforePost' /\ BundleFirst'
  BY <1>1 DEF SavedBeforePost, BundleFirst
<1>14. QED
  BY <1>8, <1>9, <1>10, <1>11, <1>12, <1>13

-----------------------------------------------------------------------------
LEMMA NextIInv == IInv /\ [Next]_vars => IInv'
<1> SUFFICES ASSUME IInv, [Next]_vars PROVE IInv'
  OBVIOUS
<1>0. /\ step \in Steps /\ fresh \in BOOLEAN /\ logins \in Nat /\ mishaps \in Nat
      /\ signed \in Nat /\ age \in 0 .. MaxAge + 1 /\ MaxAge \in Nat
      /\ backlog # {} => step = "in"
  BY SizesAssumption DEF IInv, TypeOK
<1>1. CASE Login
  BY <1>0, <1>1, LoginMoves DEF Login, Steps
<1>2. CASE Rotate
  BY <1>0, <1>2, SignedMoves DEF Rotate, AfterDate, Steps
<1>3. CASE KeepSigned
  <2>1. step' = "save" /\ fresh' = FALSE /\ step = "date"
        /\ UNCHANGED <<database, logins, server, ends, backlog, mishaps>>
    BY <1>3 DEF KeepSigned, AfterDate
  <2>2. QED
    BY <1>0, <2>1, LoginMoves DEF Steps
<1>4. CASE SaveOneTimeKeys
  BY <1>4, SaveStep
<1>5. CASE Post
  BY <1>0, <1>5, PostStep DEF Post
<1>6. CASE FetchHandshakes
  BY <1>6, FetchHandshakesStep
<1>7. CASE \E h \in backlog : Answer(h)
  BY <1>7, AnswerStep
<1>8. CASE \E h \in backlog : AnswerWithoutKey(h)
  BY <1>0, <1>8, LoginMoves DEF AnswerWithoutKey, Steps
<1>9. CASE RotateFails
  BY <1>0, <1>9, LoginMoves DEF RotateFails, Mishap, Steps
<1>10. CASE PostFails
  BY <1>0, <1>10, PostStep DEF PostFails, Mishap
<1>11. CASE Logout
  BY <1>0, <1>11, LoginMoves DEF Logout, Steps
<1>12. CASE Crash
  BY <1>0, <1>12, LoginMoves DEF Crash, Mishap, Steps
<1>13. CASE NextDay
  BY <1>0, <1>13, SignedMoves DEF NextDay, login, Steps
<1>14. CASE \E p \in Peers : FetchBundle(p)
  BY <1>14, FetchBundleStep
<1>15. CASE \E p \in Peers : Establish(p)
  BY <1>15, EstablishStep
<1>16. CASE \E p \in Peers : LoseBundle(p)
  BY <1>16, LoseBundleStep
<1>17. CASE UNCHANGED vars
  BY <1>17 DEF vars, database, login, server, ends, IInv, TypeOK, SavedBeforeAdvertised, SecretsAgree,
     SavedBeforePost, BundleFirst, HandshakesMatch, PeerFirst, Handed
<1>18. QED
  BY <1>1, <1>2, <1>3, <1>4, <1>5, <1>6, <1>7, <1>8, <1>9, <1>10, <1>11, <1>12, <1>13, <1>14,
     <1>15, <1>16, <1>17 DEF Next, Work

THEOREM Invariant == Spec => []IInv
BY InitIInv, NextIInv, PTL DEF Spec

(* Type correctness. *)
THEOREM TypeCorrect == Spec => []TypeOK
<1>1. IInv => TypeOK
  BY DEF IInv
<1>2. QED
  BY <1>1, Invariant, PTL

(* Whatever fails or crashes, and for any peers, batch size and age limit, *)
(* the server only advertises what login_user has saved.                   *)
THEOREM NothingUnsavedAdvertised == Spec => []SavedBeforeAdvertised
<1>1. IInv => SavedBeforeAdvertised
  BY DEF IInv
<1>2. QED
  BY <1>1, Invariant, PTL

(* A session both ends have made of one signed prekey has one secret.      *)
THEOREM SharedSecret == Spec => []SecretsAgree
<1>1. IInv => SecretsAgree
  BY DEF IInv
<1>2. QED
  BY <1>1, Invariant, PTL

-----------------------------------------------------------------------------
(* The age limit.                                                          *)

(* No day goes by between the look at the date and the post.               *)
KeptIsYoung == step \in {"save", "post"} /\ ~fresh => signed # 0 /\ age <= MaxAge

LEMMA KeptIsYoungInv == Spec => []KeptIsYoung
<1>1. Init => KeptIsYoung
  BY DEF Init, KeptIsYoung
<1>2. TypeOK /\ KeptIsYoung /\ [Next]_vars => KeptIsYoung'
  <2> SUFFICES ASSUME TypeOK, KeptIsYoung, [Next]_vars PROVE KeptIsYoung'
    OBVIOUS
  <2> USE DEF KeptIsYoung, database, login
  <2>1. CASE Login \/ Logout \/ Crash \/ NextDay \/ RotateFails \/ PostFails
    BY <2>1 DEF Login, Logout, Crash, NextDay, RotateFails, PostFails
  <2>2. CASE Rotate
    BY <2>2 DEF Rotate
  <2>3. CASE KeepSigned
    <3>1. signed # 0 /\ ~(age > MaxAge) /\ UNCHANGED <<signed, age>>
      BY <2>3 DEF KeepSigned, Due
    <3>2. age \in Nat /\ MaxAge \in Nat
      BY SizesAssumption DEF TypeOK
    <3>3. QED
      BY <3>1, <3>2
  <2>4. CASE SaveOneTimeKeys \/ Post \/ FetchHandshakes
    BY <2>4 DEF SaveOneTimeKeys, Post, FetchHandshakes
  <2>5. CASE \E h \in backlog : Answer(h) \/ AnswerWithoutKey(h)
    BY <2>5 DEF Answer, AnswerWithoutKey
  <2>6. CASE \E p \in Peers : FetchBundle(p) \/ Establish(p) \/ LoseBundle(p)
    BY <2>6 DEF FetchBundle, Establish, LoseBundle
  <2>7. CASE UNCHANGED vars
    BY <2>7 DEF vars
  <2>8. QED
    BY <2>1, <2>2, <2>3, <2>4, <2>5, <2>6, <2>7 DEF Next, Work
<1>3. QED
  BY <1>1, <1>2, TypeCorrect, PTL DEF Spec

(* A login that succeeds leaves the server without the newest signed       *)
(* prekey only while that prekey is at most MaxAge days old.               *)
THEOREM Repaired == Spec => RepairedAfterMaxAge
<1>1. KeptIsYoung /\ [Next]_vars =>
        [step = "post" /\ step' = "in" => advertised' = signed \/ (~fresh /\ age <= MaxAge)]_vars
  <2> SUFFICES ASSUME KeptIsYoung, Next, step = "post", step' = "in"
               PROVE  advertised' = signed \/ (~fresh /\ age <= MaxAge)
    OBVIOUS
  <2> USE DEF database, login
  <2>1. CASE Post
    BY <2>1 DEF Post, ServerTakes, KeptIsYoung
  <2>2. CASE Login \/ Logout \/ Crash \/ NextDay \/ RotateFails \/ PostFails
    BY <2>2 DEF Login, Logout, Crash, NextDay, RotateFails, PostFails
  <2>3. CASE Rotate \/ KeepSigned \/ SaveOneTimeKeys \/ FetchHandshakes
    BY <2>3 DEF Rotate, KeepSigned, SaveOneTimeKeys, FetchHandshakes
  <2>4. CASE \E h \in backlog : Answer(h) \/ AnswerWithoutKey(h)
    BY <2>4 DEF Answer, AnswerWithoutKey
  <2>5. CASE \E p \in Peers : FetchBundle(p) \/ Establish(p) \/ LoseBundle(p)
    BY <2>5 DEF FetchBundle, Establish, LoseBundle
  <2>6. QED
    BY <2>1, <2>2, <2>3, <2>4, <2>5 DEF Next, Work
<1>2. QED
  BY <1>1, KeptIsYoungInv, PTL DEF Spec, RepairedAfterMaxAge
=============================================================================
