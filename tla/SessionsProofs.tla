---------------------------- MODULE SessionsProofs ----------------------------
(***************************************************************************)
(* Whatever crashes, fails or gets lost, a device never posts two messages *)
(* under one key, and no two devices do, for any number of messages and    *)
(* mishaps.                                                                *)
(*                                                                         *)
(* Keys are named by the chain they lie on and the step on it.  A chain is *)
(* new when it is started: the secret of it contains a key pair that was   *)
(* made for it, or, at the device that answers, a handshake that was not   *)
(* answered before.  On one chain the keys that were posted lie behind the *)
(* ratchet in memory and behind the one in the database: a message is      *)
(* posted after its ratchet was saved, so it does not matter which of the  *)
(* two a failure or a restart goes on with.                                *)
(*                                                                         *)
(* Two more results are about delivery.  If nothing failed, a message only *)
(* waits for a device that has a session or a handshake to make one from.  *)
(* While one side alone ever made a session, the other can read whatever   *)
(* is on its way to it, whatever was lost and whoever crashed.             *)
(*                                                                         *)
(* The last is about what stays behind: the key of a message that was kept *)
(* cannot be had from the ratchet in the database any more.                *)
(***************************************************************************)
EXTENDS Sessions, RatchetProofs, SequenceTheorems

(* What may be left of a handler.                                          *)
Posts == { << "post handshake", "advance" >>, << "post handshake", "code" >> }
AfterSave == Posts \cup { << "post" >>, << "bundles", "code" >>, << "messages" >>, << "open" >> }
Saving(rests) == rests \cup {<< "key" >> \o r : r \in rests} \cup {Save \o r : r \in rests}
(* Nothing is to be saved first, nothing to be posted or opened.           *)
Calm ==
  { << >>, << "bundles", "advance" >>, << "advance" >>, << "handshakes", "bundles", "code" >>,
    << "bundles", "code" >>, << "code" >>, << "handshakes", "messages" >>, << "messages" >>,
    << "next message" >> }
Places == Saving(AfterSave) \cup Calm

(* A handshake is to be posted, a message is to be posted, messages are    *)
(* being gone through.                                                     *)
Posting(p) == todo[p] \in Saving(Posts)
Sending(p) == todo[p] \in Saving({<< "post" >>})
Opening(p) == todo[p] \in Saving({<< "open" >>})

Types ==
  /\ mem = [p \in Devices |-> mem[p]]
  /\ row = [p \in Devices |-> [ratchet |-> row[p].ratchet, keyed |-> row[p].keyed]]
  /\ \A p \in Devices :
       /\ Known(p) => IsRatchet(mem[p])
       /\ row[p].ratchet # NoRatchet => IsRatchet(row[p].ratchet)
       /\ row[p].keyed \in BOOLEAN /\ (row[p].keyed => row[p].ratchet # NoRatchet)
  /\ made \in [Devices -> Nat]
  /\ todo \in [Devices -> Places]
  /\ draft \in [Devices -> Seq(Messages)]
  /\ batch \in [Devices -> Seq(Nat)] /\ mailbox \in [Devices -> Seq(Nat)]
  /\ key \in [Devices -> MessageKeys \cup {NoKey}]
  /\ handshakes \in [Devices -> Seq(PublicKeys)]
  /\ posted \in [Devices -> SUBSET Nat] /\ got \in [Devices -> SUBSET Nat]
  /\ mishaps \in 0 .. MaxMishaps

(* The messages a device is to handle have been prepared, and a batch is   *)
(* there only while it is gone through.                                    *)
Prepared(p) ==
  /\ Range(batch[p]) \cup Range(mailbox[p]) \cup got[p] \subseteq DOMAIN draft[Peer(p)]
  /\ posted[p] \subseteq DOMAIN draft[p]
  /\ batch[p] # << >> => Opening(p) \/ todo[p] = << "next message" >>
  /\ Opening(p) => batch[p] # << >>

(* A key of p from the chain a responder sends on is not of a chain the    *)
(* other device responds on.                                               *)
OwnChain(p, k) == k.label = "DRXrecv1" => Signed(Peer(p)) \notin k.secret

FineRatchet(m, p, r) ==
  /\ r.local.owner = p /\ Exists(m, r.local)
  /\ r.remote.owner = Peer(p) /\ Exists(m, r.remote)
  /\ r.send.key.secret = {r.local, r.remote}
  /\ r.due => r.send.key = DhChain(r.local, r.remote).key
  /\ OwnChain(p, r.send.key)

FineMessage(m, p, msg) ==
  /\ msg.header.dh.owner = p /\ Exists(m, msg.header.dh)
  /\ \A x \in msg.key.secret : Exists(m, x)
  /\ OwnChain(p, msg.key)

Fine(p) ==
  /\ Known(p) => FineRatchet(made, p, mem[p])
  /\ row[p].ratchet # NoRatchet => FineRatchet(made, p, row[p].ratchet)
  /\ \A n \in DOMAIN draft[p] : FineMessage(made, p, draft[p][n])

(* The keys p has sent under, or may send under next. *)
SendKeys(p) ==
  {mem[d].send.key : d \in {d \in {p} : Known(d)}}
    \cup {row[d].ratchet.send.key : d \in {d \in {p} : row[d].ratchet # NoRatchet}}
    \cup {draft[p][n].key : n \in DOMAIN draft[p]}

(* No chain is sent on from both ends. *)
Apart(p) == \A k \in SendKeys(p), l \in SendKeys(Peer(p)) : ~SameChain(k, l)

(* The handshakes p may still answer. *)
Unanswered(p) ==
  Range(handshakes[p]) \cup {mem[q].local : q \in {q \in {Peer(p)} : Posting(q)}}

(* None of them has been answered before, and the one that is to be posted *)
(* has not been posted.                                                    *)
FreshHandshakes(p) ==
  /\ \A e \in Unanswered(p) :
       /\ e.owner = Peer(p) /\ e.nth >= 1 /\ Exists(made, e)
       /\ \A k \in SendKeys(p) : k.label = "DRXrecv1" => e \notin k.secret
  /\ Posting(p) => Known(p) /\ mem[p].local \notin Range(handshakes[Peer(p)])

(* A message that was posted lies behind the ratchets of its device.       *)
Behind(p) ==
  \A n \in posted[p] :
    /\ Known(p) => ~Derivable(draft[p][n].key, mem[p].send.key)
    /\ row[p].keyed => ~Derivable(draft[p][n].key, row[p].ratchet.send.key)

(* So does the one that is to be posted, at the latest when it is.         *)
NextBehind(p) ==
  Sending(p) =>
    /\ Known(p) /\ draft[p] # << >> /\ Len(draft[p]) \notin posted[p]
    /\ ~Derivable(draft[p][Len(draft[p])].key, mem[p].send.key)
    /\ \A n \in posted[p] : draft[p][n].key # draft[p][Len(draft[p])].key

Saved(p) ==
  /\ AtStep(p, "row") => Known(p)
  /\ AtStep(p, "key") => Known(p) /\ row[p].ratchet = mem[p]
  /\ AtStep(p, "post") => row[p].ratchet = mem[p] /\ row[p].keyed

Distinct(p) ==
  \A m, n \in posted[p] : draft[p][m].key = draft[p][n].key => m = n

Safe(p) ==
  /\ Prepared(p) /\ Fine(p) /\ FreshHandshakes(p) /\ Behind(p) /\ NextBehind(p)
  /\ Saved(p) /\ Distinct(p) /\ Apart(p)

Inv == Types /\ \A p \in Devices : made[p] >= 1 /\ Safe(p)

-----------------------------------------------------------------------------
LEMMA PeerFacts ==
  ASSUME NEW p \in Devices
  PROVE  /\ Peer(p) \in Devices /\ Peer(p) # p /\ Peer(Peer(p)) = p
         /\ \A d \in Devices : d = p \/ d = Peer(p)
BY TwoDevices DEF Peer, Devices

(* How the steps of a save come before a rest.                             *)
LEMMA RestsAreSeqs == \A r \in AfterSave : r \in Seq(Steps)
<1>1. /\ << "post handshake", "advance" >> \in Seq(Steps)
      /\ << "post handshake", "code" >> \in Seq(Steps)
      /\ << "post" >> \in Seq(Steps) /\ << "bundles", "code" >> \in Seq(Steps)
      /\ << "messages" >> \in Seq(Steps) /\ << "open" >> \in Seq(Steps)
  BY DEF Steps
<1> QED  BY <1>1 DEF AfterSave, Posts

LEMMA SaveShape ==
  ASSUME NEW r \in Seq(Steps)
  PROVE  /\ Save \o r # << >> /\ Head(Save \o r) = "row"
         /\ << >> \o Tail(Save \o r) = << "key" >> \o r
         /\ << "key" >> \o r # << >> /\ Head(<< "key" >> \o r) = "key"
         /\ << >> \o Tail(<< "key" >> \o r) = r
         /\ Tail(<< "key" >> \o r) = r /\ Tail(Save \o r) = << "key" >> \o r
BY DEF Save

LEMMA RestHeads ==
  ASSUME NEW r \in AfterSave
  PROVE  r # << >> /\ Head(r) # "row" /\ Head(r) # "key"
<1>1. /\ Head(<< "post handshake", "advance" >>) = "post handshake"
      /\ Head(<< "post handshake", "code" >>) = "post handshake"
      /\ Head(<< "bundles", "code" >>) = "bundles"
      /\ Head(<< "post" >>) = "post" /\ Head(<< "messages" >>) = "messages"
      /\ Head(<< "open" >>) = "open"
  OBVIOUS
<1>2. Head(r) \in {"post handshake", "bundles", "post", "messages", "open"}
  BY <1>1, Zenon DEF AfterSave, Posts
<1>3. r # << >>
  <2>1. /\ << "post handshake", "advance" >> # << >> /\ << "post handshake", "code" >> # << >>
        /\ << "bundles", "code" >> # << >> /\ << "post" >> # << >>
        /\ << "messages" >> # << >> /\ << "open" >> # << >>
    OBVIOUS
  <2> QED  BY <2>1, Zenon DEF AfterSave, Posts
<1> QED  BY <1>2, <1>3

(* A rest is told by the place before it.                                  *)
LEMMA SavingUnique ==
  ASSUME NEW rests \in SUBSET AfterSave, NEW r \in AfterSave
  PROVE  /\ r \in Saving(rests) <=> r \in rests
         /\ << "key" >> \o r \in Saving(rests) <=> r \in rests
         /\ Save \o r \in Saving(rests) <=> r \in rests
<1>1. ASSUME NEW x \in AfterSave
      PROVE  /\ x # << "key" >> \o r /\ x # Save \o r
             /\ r # << "key" >> \o x /\ r # Save \o x
             /\ << "key" >> \o r = << "key" >> \o x => r = x
             /\ Save \o r = Save \o x => r = x
             /\ << "key" >> \o r # Save \o x /\ Save \o r # << "key" >> \o x
  <2>1. x \in Seq(Steps) /\ r \in Seq(Steps)
    BY RestsAreSeqs
  <2>2. /\ Head(Save \o r) = "row" /\ Head(Save \o x) = "row"
        /\ Head(<< "key" >> \o r) = "key" /\ Head(<< "key" >> \o x) = "key"
        /\ Tail(<< "key" >> \o r) = r /\ Tail(<< "key" >> \o x) = x
        /\ Tail(Save \o r) = << "key" >> \o r /\ Tail(Save \o x) = << "key" >> \o x
    BY <2>1, SaveShape
  <2>3. Head(r) # "row" /\ Head(r) # "key" /\ Head(x) # "row" /\ Head(x) # "key"
    BY RestHeads
  <2> QED  BY <2>2, <2>3, Zenon
<1>2. r \in Saving(rests) => r \in rests
  BY <1>1 DEF Saving
<1>3. << "key" >> \o r \in Saving(rests) => r \in rests
  BY <1>1 DEF Saving
<1>4. Save \o r \in Saving(rests) => r \in rests
  BY <1>1 DEF Saving
<1> QED  BY <1>2, <1>3, <1>4 DEF Saving

LEMMA CalmAreSeqs == \A t \in Calm : t \in Seq(Steps)
<1>1. /\ << >> \in Seq(Steps) /\ << "bundles", "advance" >> \in Seq(Steps)
      /\ << "advance" >> \in Seq(Steps) /\ << "handshakes", "bundles", "code" >> \in Seq(Steps)
      /\ << "bundles", "code" >> \in Seq(Steps) /\ << "code" >> \in Seq(Steps)
      /\ << "handshakes", "messages" >> \in Seq(Steps) /\ << "messages" >> \in Seq(Steps)
      /\ << "next message" >> \in Seq(Steps)
  BY DEF Steps
<1> QED  BY <1>1, Zenon DEF Calm

(* The head of every place that is calm.                                   *)
LEMMA CalmHeads ==
  ASSUME NEW s \in Calm, s # << >>
  PROVE  Head(s) \in {"bundles", "advance", "handshakes", "code", "messages", "next message"}
<1>1. /\ Head(<< "bundles", "advance" >>) = "bundles" /\ Head(<< "advance" >>) = "advance"
      /\ Head(<< "handshakes", "bundles", "code" >>) = "handshakes"
      /\ Head(<< "bundles", "code" >>) = "bundles" /\ Head(<< "code" >>) = "code"
      /\ Head(<< "handshakes", "messages" >>) = "handshakes"
      /\ Head(<< "messages" >>) = "messages" /\ Head(<< "next message" >>) = "next message"
  OBVIOUS
<1> QED  BY <1>1, Zenon DEF Calm

LEMMA CalmFacts ==
  ASSUME NEW s \in Calm
  PROVE  /\ s \in Places
         /\ s \notin Saving(Posts) /\ s \notin Saving({<< "post" >>})
         /\ s \notin Saving({<< "open" >>})
         /\ s = << >> \/ Head(s) \notin {"row", "key", "post"}
<1>1. ASSUME NEW r \in AfterSave
      PROVE  /\ s # << "key" >> \o r /\ s # Save \o r
             /\ Head(r) \in {"post handshake", "post", "open"} => s # r
             /\ r # << >>
  <2>1. /\ Save \o r # << >> /\ Head(Save \o r) = "row"
        /\ << "key" >> \o r # << >> /\ Head(<< "key" >> \o r) = "key"
    BY RestsAreSeqs, SaveShape
  <2>2. r # << >>
    BY RestHeads
  <2> QED  BY <2>1, <2>2, CalmHeads
<1>2. ASSUME NEW rests \in SUBSET AfterSave, \A r \in rests : Head(r) \in {"post handshake", "post", "open"}
      PROVE  s \notin Saving(rests)
  BY <1>1, <1>2 DEF Saving
<1>3. /\ Head(<< "post handshake", "advance" >>) = "post handshake"
      /\ Head(<< "post handshake", "code" >>) = "post handshake"
      /\ Head(<< "post" >>) = "post" /\ Head(<< "open" >>) = "open"
  OBVIOUS
<1>4. s \notin Saving(Posts)
  <2>1. Posts \in SUBSET AfterSave /\ \A r \in Posts : Head(r) \in {"post handshake", "post", "open"}
    BY <1>3, Zenon DEF Posts, AfterSave
  <2> QED  BY <1>2, <2>1
<1>5. s \notin Saving({<< "post" >>})
  <2>1. {<< "post" >>} \in SUBSET AfterSave
    BY DEF AfterSave
  <2>2. \A r \in {<< "post" >>} : Head(r) \in {"post handshake", "post", "open"}
    BY <1>3, Zenon
  <2> QED  BY <1>2, <2>1, <2>2
<1>6. s \notin Saving({<< "open" >>})
  <2>1. {<< "open" >>} \in SUBSET AfterSave
    BY DEF AfterSave
  <2>2. \A r \in {<< "open" >>} : Head(r) \in {"post handshake", "post", "open"}
    BY <1>3, Zenon
  <2> QED  BY <1>2, <2>1, <2>2
<1> QED  BY <1>4, <1>5, <1>6, CalmHeads DEF Places

(* What a handler that is at a step has left.                              *)
LEMMA SaveLeft ==
  ASSUME NEW s \in Places, s # << >>
  PROVE  /\ Head(s) = "row" => \E r \in AfterSave : s = Save \o r
         /\ Head(s) = "key" => \E r \in AfterSave : s = << "key" >> \o r
         /\ Head(s) \notin {"row", "key"} => s \in AfterSave \cup Calm
<1>1. CASE s \in AfterSave \cup Calm
  BY <1>1, RestHeads, CalmHeads
<1>2. \A r \in AfterSave : Head(<< "key" >> \o r) = "key" /\ Head(Save \o r) = "row"
  BY RestsAreSeqs, SaveShape
<1>3. CASE \E r \in AfterSave : s = << "key" >> \o r
  BY <1>2, <1>3
<1>4. CASE \E r \in AfterSave : s = Save \o r
  BY <1>2, <1>4
<1> QED  BY <1>1, <1>3, <1>4 DEF Places, Saving

LEMMA OtherLeft ==
  ASSUME NEW s \in AfterSave \cup Calm, s # << >>
  PROVE  /\ Head(s) = "bundles" => s \in {<< "bundles", "advance" >>, << "bundles", "code" >>}
         /\ Head(s) = "advance" => s = << "advance" >>
         /\ Head(s) = "handshakes" =>
              s \in {<< "handshakes", "bundles", "code" >>, << "handshakes", "messages" >>}
         /\ Head(s) = "code" => s = << "code" >>
         /\ Head(s) = "messages" => s = << "messages" >>
         /\ Head(s) = "next message" => s = << "next message" >>
         /\ Head(s) = "post" => s = << "post" >>
         /\ Head(s) = "open" => s = << "open" >>
         /\ Head(s) = "post handshake" => s \in Posts
<1>1. /\ Head(<< "bundles", "advance" >>) = "bundles" /\ Head(<< "advance" >>) = "advance"
      /\ Head(<< "handshakes", "bundles", "code" >>) = "handshakes"
      /\ Head(<< "bundles", "code" >>) = "bundles" /\ Head(<< "code" >>) = "code"
      /\ Head(<< "handshakes", "messages" >>) = "handshakes"
      /\ Head(<< "messages" >>) = "messages" /\ Head(<< "next message" >>) = "next message"
      /\ Head(<< "post handshake", "advance" >>) = "post handshake"
      /\ Head(<< "post handshake", "code" >>) = "post handshake"
      /\ Head(<< "post" >>) = "post" /\ Head(<< "open" >>) = "open"
  OBVIOUS
<1>2. s \in Posts \/ s \in {<< "bundles", "advance" >>, << "bundles", "code" >>} \/ s = << "advance" >>
      \/ s \in {<< "handshakes", "bundles", "code" >>, << "handshakes", "messages" >>}
      \/ s = << "code" >> \/ s = << "messages" >> \/ s = << "next message" >>
      \/ s = << "post" >> \/ s = << "open" >>
  BY Zenon DEF AfterSave, Calm
<1>3. s \in Posts => Head(s) = "post handshake"
  BY <1>1, Zenon DEF Posts
<1>4. s \in {<< "bundles", "advance" >>, << "bundles", "code" >>} => Head(s) = "bundles"
  BY <1>1, Zenon
<1>5. s \in {<< "handshakes", "bundles", "code" >>, << "handshakes", "messages" >>}
        => Head(s) = "handshakes"
  BY <1>1, Zenon
<1>6. /\ s = << "advance" >> => Head(s) = "advance"
      /\ s = << "code" >> => Head(s) = "code"
      /\ s = << "messages" >> => Head(s) = "messages"
      /\ s = << "next message" >> => Head(s) = "next message"
      /\ s = << "post" >> => Head(s) = "post"
      /\ s = << "open" >> => Head(s) = "open"
  BY <1>1, Zenon
<1> QED  BY <1>2, <1>3, <1>4, <1>5, <1>6

LEMMA Tails ==
  /\ \A a : Tail(<< a >>) = << >>
  /\ \A a, b : Tail(<< a, b >>) = << b >>
  /\ \A a, b, c : Tail(<< a, b, c >>) = << b, c >>
<1>1. ASSUME NEW a PROVE Tail(<< a >>) = << >>
  OBVIOUS
<1>2. ASSUME NEW a, NEW b PROVE Tail(<< a, b >>) = << b >>
  OBVIOUS
<1>3. ASSUME NEW a, NEW b, NEW c PROVE Tail(<< a, b, c >>) = << b, c >>
  OBVIOUS
<1> QED  BY <1>1, <1>2, <1>3

LEMMA OneHead == \A a : Head(<< a >>) = a
<1>1. ASSUME NEW a PROVE Head(<< a >>) = a
  OBVIOUS
<1> QED  BY <1>1

LEMMA PairConcat ==
  ASSUME NEW S, NEW a \in S, NEW b \in S
  PROVE  << a >> \o << b >> = << a, b >>
<1> DEFINE s == << a >> \o << b >>
           t == << a, b >>
<1>1. s \in Seq(S) /\ t \in Seq(S)
  OBVIOUS
<1>2. Len(s) = 2 /\ Len(t) = 2
  OBVIOUS
<1>3. s[1] = a /\ s[2] = b
  OBVIOUS
<1>4. t[1] = a /\ t[2] = b
  OBVIOUS
<1> HIDE DEF s, t
<1>5. \A i \in 1 .. Len(s) : s[i] = t[i]
  BY <1>2, <1>3, <1>4
<1>6. s = t
  BY <1>1, <1>2, <1>5, SeqEqual
<1> QED  BY <1>6 DEF s, t

LEMMA Concats ==
  /\ \A s \in Seq(Steps) : << >> \o s = s /\ s \o << >> = s
  /\ \A a, b \in Steps : (Save \o << a >>) \o << b >> = Save \o << a, b >>
<1>0. Save \in Seq(Steps)
  BY DEF Save, Steps
<1>1. ASSUME NEW s \in Seq(Steps) PROVE << >> \o s = s /\ s \o << >> = s
  BY ConcatEmptySeq
<1>2. ASSUME NEW a \in Steps, NEW b \in Steps
      PROVE  (Save \o << a >>) \o << b >> = Save \o << a, b >>
  <2>1. << a >> \in Seq(Steps) /\ << b >> \in Seq(Steps)
    OBVIOUS
  <2>2. (Save \o << a >>) \o << b >> = Save \o (<< a >> \o << b >>)
    BY <1>0, <2>1, ConcatAssociative
  <2>3. << a >> \o << b >> = << a, b >>
    BY PairConcat
  <2> QED  BY <2>2, <2>3
<1> QED  BY <1>1, <1>2, Zenon

(* After one of the steps that a handler goes on from without a save.      *)
LEMMA OnFromCalm ==
  ASSUME NEW s \in Places, s # << >>,
         Head(s) \in {"bundles", "advance", "handshakes", "code", "next message", "post", "post handshake"}
  PROVE  << >> \o Tail(s) \in Calm
<1>1. /\ Tail(<< "bundles", "advance" >>) = << "advance" >>
      /\ Tail(<< "handshakes", "bundles", "code" >>) = << "bundles", "code" >>
      /\ Tail(<< "bundles", "code" >>) = << "code" >>
      /\ Tail(<< "handshakes", "messages" >>) = << "messages" >>
      /\ Tail(<< "post handshake", "advance" >>) = << "advance" >>
      /\ Tail(<< "post handshake", "code" >>) = << "code" >>
  BY Tails, Zenon
<1>5. /\ Tail(<< "advance" >>) = << >> /\ Tail(<< "code" >>) = << >>
      /\ Tail(<< "next message" >>) = << >> /\ Tail(<< "post" >>) = << >>
  BY Tails, Zenon
<1>6. \A t \in Calm : << >> \o t = t
  <2>1. \A t \in Calm : t \in Seq(Steps)
    BY CalmAreSeqs
  <2> QED  BY <2>1, Concats
<1>2. s \in AfterSave \cup Calm
  BY SaveLeft
<1>3. s \in Posts \/ s \in {<< "bundles", "advance" >>, << "bundles", "code" >>} \/ s = << "advance" >>
      \/ s \in {<< "handshakes", "bundles", "code" >>, << "handshakes", "messages" >>}
      \/ s = << "code" >> \/ s = << "next message" >> \/ s = << "post" >>
  BY <1>2, OtherLeft
<1>4. << >> \in Calm /\ << "advance" >> \in Calm /\ << "bundles", "code" >> \in Calm
      /\ << "code" >> \in Calm /\ << "messages" >> \in Calm
  BY Zenon DEF Calm
<1>7. Tail(s) \in {<< "advance" >>, << "bundles", "code" >>, << "code" >>, << "messages" >>, << >>}
  BY <1>1, <1>3, <1>5, Zenon DEF Posts
<1> QED  BY <1>4, <1>6, <1>7, Zenon

(* The saves that are put before what a handler has left.                  *)
LEMMA OnFromSave ==
  ASSUME NEW s \in Places, s # << >>
  PROVE  /\ Head(s) = "bundles" => \E r \in Posts : AfterCreate \o Tail(s) = Save \o r
         /\ Head(s) = "advance" => AfterAdvance \o Tail(s) = Save \o << "post" >>
         /\ Head(s) = "handshakes" =>
              \E r \in {<< "bundles", "code" >>, << "messages" >>} : Save \o Tail(s) = Save \o r
         /\ Head(s) = "next message" => AfterTake \o Tail(s) = Save \o << "open" >>
         /\ Head(s) = "messages" => << "next message" >> \o Tail(s) = << "next message" >>
         /\ Head(s) = "open" => AfterOpen \o Tail(s) = << "next message" >>
<1>1. /\ Tail(<< "bundles", "advance" >>) = << "advance" >>
      /\ Tail(<< "bundles", "code" >>) = << "code" >>
      /\ Tail(<< "handshakes", "bundles", "code" >>) = << "bundles", "code" >>
      /\ Tail(<< "handshakes", "messages" >>) = << "messages" >>
  BY Tails, Zenon
<1>9. /\ Tail(<< "advance" >>) = << >> /\ Tail(<< "next message" >>) = << >>
      /\ Tail(<< "messages" >>) = << >> /\ Tail(<< "open" >>) = << >>
  BY Tails, Zenon
<1>10. /\ AfterCreate \o << "advance" >> = Save \o << "post handshake", "advance" >>
       /\ AfterCreate \o << "code" >> = Save \o << "post handshake", "code" >>
  BY Concats DEF AfterCreate, Steps
<1>11. /\ AfterAdvance \o << >> = Save \o << "post" >>
       /\ AfterTake \o << >> = Save \o << "open" >>
       /\ << "next message" >> \o << >> = << "next message" >>
       /\ AfterOpen \o << >> = << "next message" >>
  <2>1. /\ Save \o << "post" >> \in Seq(Steps) /\ Save \o << "open" >> \in Seq(Steps)
        /\ << "next message" >> \in Seq(Steps)
    BY DEF Save, Steps
  <2> QED  BY <2>1, Concats, Zenon DEF AfterAdvance, AfterTake, AfterOpen
<1>2. s \in AfterSave \cup Calm \/ Head(s) \in {"row", "key"}
  BY SaveLeft
<1>3. CASE Head(s) = "bundles"
  <2>1. s \in {<< "bundles", "advance" >>, << "bundles", "code" >>}
    BY <1>2, <1>3, OtherLeft
  <2> QED  BY <1>1, <1>3, <1>10, <2>1, Zenon DEF Posts
<1>4. CASE Head(s) = "advance"
  BY <1>2, <1>4, <1>9, <1>11, OtherLeft
<1>5. CASE Head(s) = "handshakes"
  <2>1. s \in {<< "handshakes", "bundles", "code" >>, << "handshakes", "messages" >>}
    BY <1>2, <1>5, OtherLeft
  <2> QED  BY <1>1, <1>5, <2>1, Zenon
<1>6. CASE Head(s) = "next message"
  BY <1>2, <1>6, <1>9, <1>11, OtherLeft
<1>7. CASE Head(s) = "messages"
  BY <1>2, <1>7, <1>9, <1>11, OtherLeft
<1>8. CASE Head(s) = "open"
  BY <1>2, <1>8, <1>9, <1>11, OtherLeft
<1> QED  BY <1>3, <1>4, <1>5, <1>6, <1>7, <1>8

-----------------------------------------------------------------------------
LEMMA RangeTail ==
  ASSUME NEW S, NEW s \in Seq(S), s # << >>
  PROVE  Head(s) \in Range(s) /\ Range(Tail(s)) \subseteq Range(s) /\ Tail(s) \in Seq(S)
<1>1. Len(s) \in Nat /\ Len(s) > 0 /\ DOMAIN s = 1 .. Len(s) /\ Head(s) = s[1]
  OBVIOUS
<1>2. /\ Tail(s) \in Seq(S) /\ Len(Tail(s)) = Len(s) - 1
      /\ \A i \in 1 .. Len(Tail(s)) : Tail(s)[i] = s[i + 1]
  BY HeadTailProperties
<1>3. DOMAIN Tail(s) = 1 .. Len(s) - 1
  BY <1>2
<1>4. ASSUME NEW i \in DOMAIN Tail(s) PROVE Tail(s)[i] \in Range(s)
  BY <1>1, <1>2, <1>3 DEF Range
<1>5. Range(Tail(s)) \subseteq Range(s)
  BY <1>4 DEF Range
<1> QED  BY <1>1, <1>2, <1>5 DEF Range

LEMMA RangeAppend ==
  ASSUME NEW S, NEW s \in Seq(S), NEW x \in S
  PROVE  /\ Append(s, x) \in Seq(S) /\ Range(Append(s, x)) = Range(s) \cup {x}
         /\ Len(Append(s, x)) = Len(s) + 1 /\ Append(s, x)[Len(s) + 1] = x
         /\ DOMAIN Append(s, x) = DOMAIN s \cup {Len(s) + 1} /\ Len(s) + 1 \notin DOMAIN s
         /\ \A i \in DOMAIN s : Append(s, x)[i] = s[i]
<1>1. Len(s) \in Nat /\ DOMAIN s = 1 .. Len(s)
  OBVIOUS
<1>2. /\ Append(s, x) \in Seq(S) /\ Len(Append(s, x)) = Len(s) + 1
      /\ \A i \in 1 .. Len(s) : Append(s, x)[i] = s[i]
      /\ Append(s, x)[Len(s) + 1] = x
  BY AppendProperties
<1>3. DOMAIN Append(s, x) = 1 .. Len(s) + 1
  BY <1>2
<1>4. DOMAIN Append(s, x) = DOMAIN s \cup {Len(s) + 1} /\ Len(s) + 1 \notin DOMAIN s
  BY <1>1, <1>3
<1> HIDE DEF Range
<1>5. \A i \in DOMAIN s : Append(s, x)[i] = s[i]
  BY <1>1, <1>2
<1>6. Range(Append(s, x)) = Range(s) \cup {x}
  BY <1>2, <1>4, <1>5 DEF Range
<1> QED  BY <1>2, <1>4, <1>5, <1>6

LEMMA RangeEmpty == Range(<< >>) = {}
BY DEF Range

-----------------------------------------------------------------------------
(* What the invariant says, put as the three properties.                   *)
LEMMA PlacesAreSeqs == Places \subseteq Seq(Steps)
<1>1. \A r \in AfterSave : r \in Seq(Steps)
  BY RestsAreSeqs
<1>2. \A r \in AfterSave : << "key" >> \o r \in Seq(Steps) /\ Save \o r \in Seq(Steps)
  <2>1. << "key" >> \in Seq(Steps)
    BY DEF Steps
  <2>2. Save \in Seq(Steps)
    BY DEF Save, Steps
  <2> QED  BY <1>1, <2>1, <2>2, ConcatProperties
<1> QED  BY <1>1, <1>2, CalmAreSeqs DEF Places, Saving

LEMMA InvTypeOK == Inv => TypeOK
<1> SUFFICES ASSUME Inv PROVE TypeOK
  OBVIOUS
<1>1. ASSUME NEW p \in Devices
      PROVE  /\ Known(p) => IsRatchet(mem[p])
             /\ row[p].ratchet # NoRatchet => IsRatchet(row[p].ratchet)
             /\ row[p].keyed \in BOOLEAN /\ (row[p].keyed => row[p].ratchet # NoRatchet)
             /\ Range(batch[p]) \cup Range(mailbox[p]) \cup got[p] \subseteq DOMAIN draft[Peer(p)]
             /\ posted[p] \subseteq DOMAIN draft[p]
  BY DEF Inv, Types, Safe, Prepared
<1>2. ASSUME NEW p \in Devices PROVE Idle(p) => batch[p] = << >>
  <2>1. << >> \notin Saving({<< "open" >>}) /\ << >> # << "next message" >>
    <3>1. << >> \in Calm
      BY DEF Calm
    <3> QED  BY <3>1, CalmFacts
  <2> QED  BY <2>1 DEF Inv, Safe, Prepared, Opening, Idle
<1>3. todo \in [Devices -> Seq(Steps)]
  BY PlacesAreSeqs DEF Inv, Types
<1> QED  BY <1>1, <1>2, <1>3 DEF Inv, Types, TypeOK

(* A key two devices sent under would lie on a chain of both.              *)
LEMMA InvNoKeyReuse == Inv => NoKeyReuse
<1> SUFFICES ASSUME Inv, NEW p \in Devices, NEW q \in Devices, NEW m \in posted[p], NEW n \in posted[q],
                    draft[p][m].key = draft[q][n].key
             PROVE  p = q /\ m = n
  BY DEF NoKeyReuse
<1>1. Prepared(p) /\ Prepared(q) /\ Apart(p) /\ Distinct(p)
  BY DEF Inv, Safe
<1>2. draft[p][m].key \in SendKeys(p) /\ draft[q][n].key \in SendKeys(q)
  BY <1>1 DEF Prepared, SendKeys
<1>3. q = p
  BY <1>1, <1>2, PeerFacts DEF Apart, SameChain
<1> QED  BY <1>1, <1>3 DEF Distinct

LEMMA InvRestartSafe == Inv => RestartSafe
<1> SUFFICES ASSUME Inv, NEW p \in Devices, row[p].keyed, NEW q \in Devices, NEW n \in posted[q]
             PROVE  ~Derivable(draft[q][n].key, row[p].ratchet.send.key)
  BY DEF RestartSafe
<1>1. Prepared(q) /\ Behind(p) /\ Apart(p) /\ row[p].ratchet # NoRatchet
  BY DEF Inv, Safe, Types
<1>2. draft[q][n].key \in SendKeys(q) /\ row[p].ratchet.send.key \in SendKeys(p)
  BY <1>1 DEF Prepared, SendKeys
<1>3. CASE q = p
  BY <1>1, <1>3 DEF Behind
<1>4. CASE q = Peer(p)
  BY <1>1, <1>2, <1>4 DEF Apart, SameChain, Derivable
<1> QED  BY <1>3, <1>4, PeerFacts

LEMMA InitInv == Init => Inv
<1> SUFFICES ASSUME Init PROVE Inv
  OBVIOUS
<1>1. << >> \in Calm /\ << >> \in Seq(Nat) /\ << >> \in Seq(Messages) /\ << >> \in Seq(PublicKeys)
  BY DEF Calm
<1>2. << >> \in Places /\ << >> \notin Saving(Posts) /\ << >> \notin Saving({<< "post" >>})
      /\ << >> \notin Saving({<< "open" >>})
  BY <1>1, CalmFacts
<1>3. Types
  <2>1. /\ mem = [p \in Devices |-> mem[p]]
        /\ row = [p \in Devices |-> [ratchet |-> row[p].ratchet, keyed |-> row[p].keyed]]
    BY DEF Init
  <2>2. \A p \in Devices : ~Known(p) /\ row[p].ratchet = NoRatchet /\ row[p].keyed = FALSE
    BY DEF Init, Known
  <2>3. /\ made \in [Devices -> Nat] /\ todo \in [Devices -> Places]
        /\ draft \in [Devices -> Seq(Messages)] /\ key \in [Devices -> MessageKeys \cup {NoKey}]
        /\ posted \in [Devices -> SUBSET Nat] /\ got \in [Devices -> SUBSET Nat]
    BY <1>1, <1>2 DEF Init
  <2>4. /\ batch \in [Devices -> Seq(Nat)] /\ mailbox \in [Devices -> Seq(Nat)]
        /\ handshakes \in [Devices -> Seq(PublicKeys)] /\ mishaps \in 0 .. MaxMishaps
    BY <1>1, Bounds DEF Init
  <2> QED  BY <2>1, <2>2, <2>3, <2>4, Zenon DEF Types
<1>4. ASSUME NEW p \in Devices PROVE made[p] >= 1 /\ Safe(p)
  <2>1. /\ ~Known(p) /\ row[p].ratchet = NoRatchet /\ ~row[p].keyed /\ draft[p] = << >>
        /\ ~Posting(p) /\ ~Sending(p) /\ ~Opening(p) /\ Idle(p) /\ batch[p] = << >>
        /\ mailbox[p] = << >> /\ got[p] = {} /\ posted[p] = {} /\ handshakes[p] = << >> /\ made[p] = 1
    BY <1>2 DEF Init, Known, Posting, Sending, Opening, Idle
  <2>2. ~Posting(Peer(p)) /\ handshakes[Peer(p)] = << >>
    BY <1>2, PeerFacts DEF Init, Posting
  <2>3. SendKeys(p) = {} /\ Unanswered(p) = {}
    BY <2>1, <2>2, RangeEmpty DEF SendKeys, Unanswered
  <2>4. Prepared(p)
    BY <2>1, RangeEmpty DEF Prepared
  <2>5. Fine(p)
    BY <2>1 DEF Fine
  <2> QED  BY <2>1, <2>3, <2>4, <2>5
           DEF Safe, FreshHandshakes, Behind, NextBehind, Saved, AtStep, Distinct, Apart
<1> QED  BY <1>3, <1>4 DEF Inv

-----------------------------------------------------------------------------
(* A step after which p is at a calm place: it has lost messages or        *)
(* handshakes, or its ratchet to a restart, but sent and made nothing.     *)
Reloads(p) == \E r \in {mem[p], Loaded(p)} : mem' = [mem EXCEPT ![p] = r]
Moves(p) ==
  \E s \in Calm, b \in Seq(Nat) :
    /\ todo' = [todo EXCEPT ![p] = s] /\ batch' = [batch EXCEPT ![p] = b]
    /\ Range(b) \subseteq Range(batch[p]) \cup Range(mailbox[p])
    /\ b # << >> => s = << "next message" >>
Loses(p) ==
  /\ \E b \in {mailbox[p], << >>} : mailbox' = [mailbox EXCEPT ![p] = b]
  /\ \E b \in {handshakes[p], << >>} : handshakes' = [handshakes EXCEPT ![p] = b]
Keeps(p) == \E g \in SUBSET (got[p] \cup Range(batch[p])) : got' = [got EXCEPT ![p] = g]
Light(p) ==
  /\ Reloads(p) /\ Moves(p) /\ Loses(p) /\ Keeps(p)
  /\ mishaps' \in 0 .. MaxMishaps
  /\ UNCHANGED <<row, made, draft, key, posted>>

LEMMA LightTypes ==
  ASSUME Inv, NEW p \in Devices, Light(p)
  PROVE  Types'
<1>1. Types /\ Prepared(p)
  BY DEF Inv, Safe
<1>2. PICK r \in {mem[p], Loaded(p)} : mem' = [mem EXCEPT ![p] = r]
  BY DEF Light, Reloads, Moves, Loses, Keeps
<1>3. /\ mem' = [d \in Devices |-> mem'[d]]
      /\ mem'[p] = r /\ \A d \in Devices : d # p => mem'[d] = mem[d]
  BY <1>1, <1>2 DEF Types
<1>4. r # NoRatchet => IsRatchet(r)
  BY <1>1, <1>2 DEF Types, Known, Loaded
<1>5. \A d \in Devices : Known(d)' => IsRatchet(mem'[d])
  BY <1>1, <1>3, <1>4 DEF Types, Known
<1>6. todo' \in [Devices -> Places] /\ batch' \in [Devices -> Seq(Nat)]
  <2>1. PICK s \in Calm, b \in Seq(Nat) :
          todo' = [todo EXCEPT ![p] = s] /\ batch' = [batch EXCEPT ![p] = b]
    BY DEF Light, Reloads, Moves, Loses, Keeps
  <2>2. s \in Places
    BY DEF Places
  <2>3. todo \in [Devices -> Places] /\ batch \in [Devices -> Seq(Nat)]
    BY <1>1 DEF Types
  <2> QED  BY <2>1, <2>2, <2>3
<1>7. mailbox' \in [Devices -> Seq(Nat)] /\ handshakes' \in [Devices -> Seq(PublicKeys)]
  <2>1. mailbox \in [Devices -> Seq(Nat)] /\ handshakes \in [Devices -> Seq(PublicKeys)]
    BY <1>1 DEF Types
  <2>2. << >> \in Seq(Nat) /\ << >> \in Seq(PublicKeys)
    OBVIOUS
  <2>3. mailbox' \in [Devices -> Seq(Nat)]
    <3>1. PICK b \in {mailbox[p], << >>} : mailbox' = [mailbox EXCEPT ![p] = b]
      BY DEF Light, Reloads, Moves, Loses, Keeps
    <3> QED  BY <2>1, <2>2, <3>1
  <2>4. handshakes' \in [Devices -> Seq(PublicKeys)]
    <3>1. PICK b \in {handshakes[p], << >>} : handshakes' = [handshakes EXCEPT ![p] = b]
      BY DEF Light, Reloads, Moves, Loses, Keeps
    <3> QED  BY <2>1, <2>2, <3>1
  <2> QED  BY <2>3, <2>4
<1>8. got' \in [Devices -> SUBSET Nat]
  <2>1. got \in [Devices -> SUBSET Nat] /\ batch[p] \in Seq(Nat)
    BY <1>1 DEF Types
  <2>2. got[p] \cup Range(batch[p]) \subseteq Nat
    BY <2>1 DEF Range
  <2> QED  BY <2>1, <2>2 DEF Light, Reloads, Moves, Loses, Keeps
<1>9. UNCHANGED <<row, made, draft, key, posted>> /\ mishaps' \in 0 .. MaxMishaps
  BY DEF Light, Reloads, Moves, Loses, Keeps
<1> QED  BY <1>1, <1>3, <1>5, <1>6, <1>7, <1>8, <1>9 DEF Types

(* What a light step leaves of the device that takes it, and of the other. *)
LEMMA LightFacts ==
  ASSUME Inv, NEW p \in Devices, Light(p)
  PROVE  /\ Known(p)' => \/ Known(p) /\ mem'[p] = mem[p]
                         \/ mem'[p] = row[p].ratchet /\ row[p].keyed /\ row[p].ratchet # NoRatchet
         /\ todo'[p] \in Calm
         /\ batch'[p] # << >> => todo'[p] = << "next message" >>
         /\ Range(batch'[p]) \cup Range(mailbox'[p]) \cup got'[p] \subseteq
              Range(batch[p]) \cup Range(mailbox[p]) \cup got[p]
         /\ Range(handshakes'[p]) \subseteq Range(handshakes[p])
         /\ UNCHANGED <<row, made, draft, posted>>
         /\ \A d \in Devices \ {p} :
              /\ mem'[d] = mem[d] /\ todo'[d] = todo[d] /\ batch'[d] = batch[d]
              /\ mailbox'[d] = mailbox[d] /\ handshakes'[d] = handshakes[d] /\ got'[d] = got[d]
<1>1. Types
  BY DEF Inv
<1>t. /\ DOMAIN mem = Devices /\ todo \in [Devices -> Places] /\ batch \in [Devices -> Seq(Nat)]
      /\ mailbox \in [Devices -> Seq(Nat)] /\ handshakes \in [Devices -> Seq(PublicKeys)]
      /\ got \in [Devices -> SUBSET Nat]
  BY <1>1 DEF Types
<1>2. ASSUME NEW d \in Devices \ {p}
      PROVE  /\ mem'[d] = mem[d] /\ todo'[d] = todo[d] /\ batch'[d] = batch[d]
             /\ mailbox'[d] = mailbox[d] /\ handshakes'[d] = handshakes[d] /\ got'[d] = got[d]
  <2>1. mem'[d] = mem[d] /\ todo'[d] = todo[d] /\ batch'[d] = batch[d]
    BY <1>t DEF Light, Reloads, Moves, Loses, Keeps
  <2>2. mailbox'[d] = mailbox[d] /\ handshakes'[d] = handshakes[d] /\ got'[d] = got[d]
    BY <1>t DEF Light, Reloads, Moves, Loses, Keeps
  <2> QED  BY <2>1, <2>2
<1>3. mem'[p] \in {mem[p], Loaded(p)}
  BY <1>t DEF Light, Reloads, Moves, Loses, Keeps
<1>4. Known(p)' => \/ Known(p) /\ mem'[p] = mem[p]
                   \/ mem'[p] = row[p].ratchet /\ row[p].keyed /\ row[p].ratchet # NoRatchet
  <2> SUFFICES ASSUME mem'[p] # NoRatchet
               PROVE  \/ Known(p) /\ mem'[p] = mem[p]
                      \/ mem'[p] = row[p].ratchet /\ row[p].keyed /\ row[p].ratchet # NoRatchet
    BY DEF Known
  <2>1. CASE mem'[p] = mem[p]
    BY <2>1 DEF Known
  <2>2. CASE mem'[p] = Loaded(p)
    BY <2>2 DEF Loaded
  <2> QED  BY <1>3, <2>1, <2>2
<1>5. /\ todo'[p] \in Calm
      /\ batch'[p] # << >> => todo'[p] = << "next message" >>
      /\ Range(batch'[p]) \subseteq Range(batch[p]) \cup Range(mailbox[p])
  BY <1>t DEF Light, Reloads, Moves, Loses, Keeps
<1>6. mailbox'[p] \in {mailbox[p], << >>} /\ handshakes'[p] \in {handshakes[p], << >>}
      /\ got'[p] \subseteq got[p] \cup Range(batch[p])
  BY <1>t DEF Light, Reloads, Moves, Loses, Keeps
<1>7. Range(mailbox'[p]) \subseteq Range(mailbox[p]) /\ Range(handshakes'[p]) \subseteq Range(handshakes[p])
  BY <1>6, RangeEmpty
<1>8. Range(batch'[p]) \cup Range(mailbox'[p]) \cup got'[p] \subseteq
        Range(batch[p]) \cup Range(mailbox[p]) \cup got[p]
  BY <1>5, <1>6, <1>7, Zenon
<1>9. UNCHANGED <<row, made, draft, posted>>
  BY DEF Light, Reloads, Moves, Loses, Keeps
<1> QED  BY <1>2, <1>4, <1>5, <1>7, <1>8, <1>9

LEMMA LightInv ==
  ASSUME Inv, NEW p \in Devices, Light(p)
  PROVE  Inv'
<1> DEFINE q == Peer(p)
<1>1. /\ q \in Devices /\ q # p /\ Peer(q) = p /\ \A d \in Devices : d = p \/ d = q
  BY PeerFacts
<1> HIDE DEF q
<1>2. /\ Known(p)' => \/ Known(p) /\ mem'[p] = mem[p]
                      \/ mem'[p] = row[p].ratchet /\ row[p].keyed /\ row[p].ratchet # NoRatchet
      /\ todo'[p] \in Calm
      /\ batch'[p] # << >> => todo'[p] = << "next message" >>
      /\ Range(batch'[p]) \cup Range(mailbox'[p]) \cup got'[p] \subseteq
           Range(batch[p]) \cup Range(mailbox[p]) \cup got[p]
      /\ Range(handshakes'[p]) \subseteq Range(handshakes[p])
      /\ UNCHANGED <<row, made, draft, posted>>
      /\ mem'[q] = mem[q] /\ todo'[q] = todo[q] /\ batch'[q] = batch[q]
      /\ mailbox'[q] = mailbox[q] /\ handshakes'[q] = handshakes[q] /\ got'[q] = got[q]
  <2>1. q \in Devices \ {p}
    BY <1>1
  <2> QED  BY <2>1, LightFacts, Zenon
<1>3. Safe(p) /\ Safe(q) /\ made[p] >= 1 /\ made[q] >= 1 /\ Types
  BY <1>1 DEF Inv
<1>4. ~Posting(p)' /\ ~Sending(p)' /\ ~Opening(p)'
      /\ ~AtStep(p, "row")' /\ ~AtStep(p, "key")' /\ ~AtStep(p, "post")'
  BY <1>2, CalmFacts DEF Posting, Sending, Opening, AtStep, Idle
<1>5. SendKeys(p)' \subseteq SendKeys(p) /\ SendKeys(q)' = SendKeys(q)
  <2>1. ASSUME NEW k \in SendKeys(p)' PROVE k \in SendKeys(p)
    <3>1. CASE k \in {draft'[p][n].key : n \in DOMAIN draft'[p]}
      BY <1>2, <3>1 DEF SendKeys
    <3>2. CASE Known(p)' /\ k = mem'[p].send.key
      BY <1>2, <3>2 DEF SendKeys
    <3>3. CASE row'[p].ratchet # NoRatchet /\ k = row'[p].ratchet.send.key
      BY <1>2, <3>3 DEF SendKeys
    <3> QED  BY <2>1, <3>1, <3>2, <3>3 DEF SendKeys
  <2>2. SendKeys(q)' = SendKeys(q)
    <3>1. Known(q)' <=> Known(q)
      BY <1>2 DEF Known
    <3>2. {mem'[d].send.key : d \in {d \in {q} : Known(d)'}} = {mem[d].send.key : d \in {d \in {q} : Known(d)}}
      BY <1>2, <3>1
    <3>3. {row'[d].ratchet.send.key : d \in {d \in {q} : row'[d].ratchet # NoRatchet}}
            = {row[d].ratchet.send.key : d \in {d \in {q} : row[d].ratchet # NoRatchet}}
      BY <1>2
    <3> QED  BY <1>2, <3>2, <3>3 DEF SendKeys
  <2> QED  BY <2>1, <2>2
<1>6. Safe(p)'
  <2>1. Prepared(p)'
    BY <1>2, <1>3, <1>4 DEF Safe, Prepared
  <2>2. Fine(p)'
    BY <1>2, <1>3 DEF Safe, Fine
  <2>3. FreshHandshakes(p)'
    <3>1. Unanswered(p)' \subseteq Unanswered(p)
      BY <1>2 DEF Unanswered, Posting, q
    <3> QED  BY <3>1, <1>2, <1>3, <1>4, <1>5 DEF Safe, FreshHandshakes
  <2>4. Behind(p)'
    BY <1>2, <1>3 DEF Safe, Behind
  <2>5. NextBehind(p)' /\ Saved(p)'
    BY <1>4 DEF NextBehind, Saved
  <2>6. Distinct(p)'
    BY <1>2, <1>3 DEF Safe, Distinct
  <2>7. Apart(p)'
    BY <1>3, <1>5 DEF Safe, Apart, q
  <2> QED  BY <2>1, <2>2, <2>3, <2>4, <2>5, <2>6, <2>7 DEF Safe
<1>7. Safe(q)'
  <2>1. Prepared(q)'
    BY <1>2, <1>3 DEF Safe, Prepared, Opening
  <2>2. Fine(q)'
    BY <1>2, <1>3 DEF Safe, Fine, Known
  <2>3. FreshHandshakes(q)'
    <3>1. Unanswered(q)' \subseteq Unanswered(q)
      BY <1>1, <1>2, <1>4 DEF Unanswered
    <3>2. Posting(q)' => Known(q)' /\ mem'[q].local \notin Range(handshakes'[p])
      BY <1>1, <1>2, <1>3 DEF Safe, FreshHandshakes, Posting, Known
    <3> QED  BY <3>1, <3>2, <1>1, <1>2, <1>3, <1>5 DEF Safe, FreshHandshakes
  <2>4. Behind(q)'
    BY <1>2, <1>3 DEF Safe, Behind, Known
  <2>5. NextBehind(q)' /\ Saved(q)'
    BY <1>2, <1>3 DEF Safe, NextBehind, Saved, Sending, AtStep, Idle, Known
  <2>6. Distinct(q)'
    BY <1>2, <1>3 DEF Safe, Distinct
  <2>7. Apart(q)'
    BY <1>1, <1>3, <1>5 DEF Safe, Apart
  <2> QED  BY <2>1, <2>2, <2>3, <2>4, <2>5, <2>6, <2>7 DEF Safe
<1> QED  BY <1>1, <1>2, <1>3, <1>6, <1>7, LightTypes DEF Inv

-----------------------------------------------------------------------------
(* Steps that are light.                                                   *)
LEMMA Still ==
  ASSUME Inv, NEW p \in Devices
  PROVE  /\ UNCHANGED mem => Reloads(p)
         /\ UNCHANGED <<mailbox, handshakes>> => Loses(p)
         /\ UNCHANGED got => Keeps(p)
         /\ Mishap => mishaps' \in 0 .. MaxMishaps
         /\ UNCHANGED mishaps => mishaps' \in 0 .. MaxMishaps
<1>1. Types
  BY DEF Inv
<1>2. mem = [mem EXCEPT ![p] = mem[p]]
  BY <1>1 DEF Types
<1>3. mailbox = [mailbox EXCEPT ![p] = mailbox[p]] /\ handshakes = [handshakes EXCEPT ![p] = handshakes[p]]
  BY <1>1 DEF Types
<1>4. got = [got EXCEPT ![p] = got[p]]
  BY <1>1 DEF Types
<1>5. mishaps \in 0 .. MaxMishaps
  BY <1>1 DEF Types
<1>6. UNCHANGED mem => Reloads(p)
  BY <1>2 DEF Reloads
<1>7. UNCHANGED <<mailbox, handshakes>> => Loses(p)
  BY <1>3 DEF Loses
<1>8. UNCHANGED got => Keeps(p)
  BY <1>4 DEF Keeps
<1>9. Mishap => mishaps' \in 0 .. MaxMishaps
  BY <1>5, Bounds DEF Mishap
<1> QED  BY <1>5, <1>6, <1>7, <1>8, <1>9

LEMMA ThrowMoves ==
  ASSUME NEW p \in Devices, Throw(p, mem[p])
  PROVE  Reloads(p) /\ Moves(p)
<1>1. << >> \in Calm /\ << >> \in Seq(Nat) /\ Range(<< >>) = {}
  BY RangeEmpty DEF Calm
<1>2. Moves(p)
  BY <1>1 DEF Throw, Moves
<1>3. Reloads(p)
  BY DEF Throw, Reloads
<1> QED  BY <1>2, <1>3

(* Outside update_messages there is no batch.                              *)
LEMMA GoOnMoves ==
  ASSUME Inv, NEW p \in Devices, GoOn(p, << >>), UNCHANGED batch,
         ~Idle(p), Head(todo[p]) \in {"bundles", "advance", "handshakes", "code", "post", "post handshake"}
  PROVE  Moves(p)
<1>1. Types /\ Prepared(p)
  BY DEF Inv, Safe
<1>2. todo[p] \in Places /\ todo[p] # << >> /\ batch[p] \in Seq(Nat)
      /\ batch = [batch EXCEPT ![p] = batch[p]]
  BY <1>1 DEF Types, Idle
<1>3. << >> \o Tail(todo[p]) \in Calm
  BY <1>2, OnFromCalm
<1>4. batch[p] = << >>
  <2>1. Head(<< "next message" >>) = "next message" /\ Head(<< "open" >>) = "open"
    BY OneHead, Zenon
  <2>4. << "open" >> \in AfterSave
    BY DEF AfterSave
  <2>2. Head(<< "key" >> \o << "open" >>) = "key" /\ Head(Save \o << "open" >>) = "row"
    BY <2>4, RestsAreSeqs, SaveShape
  <2>3. ~Opening(p)
    BY <2>1, <2>2 DEF Opening, Saving
  <2> QED  BY <1>1, <2>1, <2>3 DEF Prepared
<1>5. todo' = [todo EXCEPT ![p] = << >> \o Tail(todo[p])]
  BY <1>1 DEF GoOn, Types
<1> QED  BY <1>2, <1>3, <1>4, <1>5 DEF Moves

LEMMA IdleBatch ==
  ASSUME Inv, NEW p \in Devices, Idle(p)
  PROVE  batch[p] = << >>
BY InvTypeOK DEF TypeOK

LEMMA StartsAreLight ==
  ASSUME Inv, NEW p \in Devices, StartSend(p) \/ Refresh(p)
  PROVE  Light(p)
<1>1. Types
  BY DEF Inv
<1>2. batch[p] = << >> /\ batch = [batch EXCEPT ![p] = << >>] /\ << >> \in Seq(Nat)
  <2>1. batch[p] = << >>
    BY IdleBatch DEF StartSend, Refresh
  <2> QED  BY <1>1, <2>1 DEF Types
<1>3. SendFile \in Calm /\ SendToKnown \in Calm /\ ShowAuthCode \in Calm /\ RefreshFileList \in Calm
  BY Zenon DEF SendFile, SendToKnown, ShowAuthCode, RefreshFileList, Calm
<1>4. \E s \in Calm : todo' = [todo EXCEPT ![p] = s]
  BY <1>3 DEF StartSend, Refresh
<1>5. UNCHANGED <<mem, row, made, draft, batch, key, handshakes, mailbox, posted, got, mishaps>>
  BY DEF StartSend, Refresh, server
<1>6. Moves(p)
  BY <1>2, <1>4, <1>5, RangeEmpty DEF Moves
<1> QED  BY <1>5, <1>6, Still DEF Light

LEMMA BundlesAreLight ==
  ASSUME Inv, NEW p \in Devices,
         BundlesFail(p) \/ BundlesEmpty(p) \/ BundleUnusable(p) \/ ShowCode(p) \/ NothingToSend(p)
  PROVE  Light(p)
<1>1. /\ UNCHANGED <<row, made, draft, key, handshakes, mailbox, posted, got>>
      /\ Mishap \/ UNCHANGED mishaps
  BY DEF BundlesFail, BundlesEmpty, BundleUnusable, ShowCode, NothingToSend, server
<1>2. \/ /\ ~Idle(p) /\ Head(todo[p]) \in {"bundles", "code", "advance"}
         /\ GoOn(p, << >>) /\ UNCHANGED <<mem, batch>>
      \/ Throw(p, mem[p])
  BY DEF BundlesFail, BundlesEmpty, BundleUnusable, ShowCode, NothingToSend, AtStep
<1>3. Reloads(p) /\ Moves(p)
  BY <1>2, GoOnMoves, ThrowMoves, Still
<1> QED  BY <1>1, <1>3, Still DEF Light

LEMMA ThrowsAreLight ==
  ASSUME Inv, NEW p \in Devices, SaveFails(p) \/ UnknownSender(p) \/ CannotOpen(p)
  PROVE  Light(p)
<1>1. /\ UNCHANGED <<row, made, draft, key, handshakes, mailbox, posted, got>>
      /\ Mishap \/ UNCHANGED mishaps
      /\ Throw(p, mem[p])
  BY DEF SaveFails, UnknownSender, CannotOpen, server
<1>2. Reloads(p) /\ Moves(p)
  BY <1>1, ThrowMoves
<1> QED  BY <1>1, <1>2, Still DEF Light

LEMMA CrashIsLight ==
  ASSUME Inv, NEW p \in Devices, Crash(p)
  PROVE  Light(p)
<1>1. /\ UNCHANGED <<row, made, draft, key, handshakes, mailbox, posted, got>> /\ Mishap
  BY DEF Crash, server
<1>2. Reloads(p)
  BY DEF Crash, Reloads
<1>3. << >> \in Calm /\ << >> \in Seq(Nat) /\ Range(<< >>) = {}
  BY RangeEmpty DEF Calm
<1>4. Moves(p)
  BY <1>3 DEF Crash, Moves
<1> QED  BY <1>1, <1>2, <1>4, Still DEF Light

LEMMA BacklogsAreLight ==
  ASSUME Inv, NEW p \in Devices, NoHandshakes(p) \/ IgnoreHandshakes(p)
  PROVE  Light(p)
<1>1. Types
  BY DEF Inv
<1>2. /\ UNCHANGED <<mem, row, made, draft, batch, key, mailbox, posted, got>>
      /\ Mishap \/ UNCHANGED mishaps
      /\ ~Idle(p) /\ Head(todo[p]) = "handshakes" /\ GoOn(p, << >>)
      /\ UNCHANGED handshakes \/ handshakes' = [handshakes EXCEPT ![p] = << >>]
  BY DEF NoHandshakes, IgnoreHandshakes, AtStep
<1>3. Moves(p)
  BY <1>2, GoOnMoves
<1>4. mailbox = [mailbox EXCEPT ![p] = mailbox[p]]
  BY <1>1 DEF Types
<1>5. Loses(p)
  BY <1>2, <1>4, Still DEF Loses
<1> QED  BY <1>2, <1>3, <1>5, Still DEF Light

LEMMA FetchIsLight ==
  ASSUME Inv, NEW p \in Devices, FetchMessages(p)
  PROVE  Light(p)
<1>1. Types
  BY DEF Inv
<1>2. /\ UNCHANGED <<mem, row, made, draft, key, handshakes, posted, got>>
      /\ Mishap \/ UNCHANGED mishaps
      /\ ~Idle(p) /\ Head(todo[p]) = "messages"
  BY DEF FetchMessages, AtStep
<1>3. /\ UNCHANGED mailbox \/ mailbox' = [mailbox EXCEPT ![p] = << >>]
      /\ UNCHANGED batch \/ batch' = [batch EXCEPT ![p] = mailbox[p]]
      /\ GoOn(p, << "next message" >>)
  BY DEF FetchMessages
<1>4. todo[p] \in Places /\ todo[p] # << >> /\ batch[p] \in Seq(Nat) /\ mailbox[p] \in Seq(Nat)
      /\ batch = [batch EXCEPT ![p] = batch[p]]
  BY <1>1, <1>2 DEF Types, Idle
<1>5. << "next message" >> \o Tail(todo[p]) = << "next message" >>
  BY <1>2, <1>4, OnFromSave
<1>6. todo' = [todo EXCEPT ![p] = << "next message" >>] /\ << "next message" >> \in Calm
  BY <1>1, <1>3, <1>5 DEF GoOn, Types, Calm
<1>7. Moves(p)
  BY <1>3, <1>4, <1>6 DEF Moves
<1>8. mailbox = [mailbox EXCEPT ![p] = mailbox[p]] /\ handshakes = [handshakes EXCEPT ![p] = handshakes[p]]
  BY <1>1 DEF Types
<1>9. Loses(p)
  BY <1>2, <1>3, <1>8 DEF Loses
<1> QED  BY <1>2, <1>7, <1>9, Still DEF Light

LEMMA GoingThroughIsLight ==
  ASSUME Inv, NEW p \in Devices, NoMoreMessages(p) \/ OpenMessage(p)
  PROVE  Light(p)
<1>1. Types /\ Prepared(p)
  BY DEF Inv, Safe
<1>2. todo[p] \in Places /\ batch[p] \in Seq(Nat) /\ batch = [batch EXCEPT ![p] = batch[p]]
  BY <1>1 DEF Types
<1>3. UNCHANGED <<mem, row, made, draft, key, handshakes, mailbox, posted, mishaps>>
  BY DEF NoMoreMessages, OpenMessage, server
<1>4. CASE NoMoreMessages(p)
  <2>1. /\ UNCHANGED <<batch, got>> /\ todo[p] # << >> /\ Head(todo[p]) = "next message"
        /\ batch[p] = << >> /\ GoOn(p, << >>)
    BY <1>4 DEF NoMoreMessages, AtStep, Idle
  <2>2. << >> \o Tail(todo[p]) \in Calm
    BY <1>2, <2>1, OnFromCalm
  <2>3. todo' = [todo EXCEPT ![p] = << >> \o Tail(todo[p])]
    BY <1>1, <2>1 DEF GoOn, Types
  <2>4. Moves(p)
    BY <1>2, <2>1, <2>2, <2>3 DEF Moves
  <2> QED  BY <1>3, <2>1, <2>4, Still DEF Light
<1>5. CASE OpenMessage(p)
  <2>1. /\ todo[p] # << >> /\ Head(todo[p]) = "open" /\ GoOn(p, AfterOpen)
        /\ got' = [got EXCEPT ![p] = @ \cup {Head(batch[p])}]
        /\ batch' = [batch EXCEPT ![p] = Tail(@)]
    BY <1>5 DEF OpenMessage, AtStep, Idle
  <2>2. todo[p] \in Saving({<< "open" >>})
    <3>1. todo[p] = << "open" >>
      BY <1>2, <2>1, SaveLeft, OtherLeft
    <3> QED  BY <3>1 DEF Saving
  <2>3. batch[p] # << >>
    BY <1>1, <2>2 DEF Prepared, Opening
  <2>4. Head(batch[p]) \in Range(batch[p]) /\ Range(Tail(batch[p])) \subseteq Range(batch[p])
        /\ Tail(batch[p]) \in Seq(Nat)
    BY <1>2, <2>3, RangeTail
  <2>5. AfterOpen \o Tail(todo[p]) = << "next message" >>
    BY <1>2, <2>1, OnFromSave
  <2>6. todo' = [todo EXCEPT ![p] = << "next message" >>] /\ << "next message" >> \in Calm
    BY <1>1, <2>1, <2>5 DEF GoOn, Types, Calm
  <2>7. batch' = [batch EXCEPT ![p] = Tail(batch[p])]
        /\ got' = [got EXCEPT ![p] = got[p] \cup {Head(batch[p])}]
    BY <1>1, <2>1 DEF Types
  <2>8. Moves(p)
    BY <2>4, <2>6, <2>7 DEF Moves
  <2>9. Keeps(p)
    BY <2>4, <2>7 DEF Keeps
  <2> QED  BY <1>3, <2>8, <2>9, Still DEF Light
<1> QED  BY <1>4, <1>5

-----------------------------------------------------------------------------
(* Key pairs that exist go on existing.                                    *)
More(m, n) == \A d \in Devices : m[d] \in Nat /\ n[d] \in Nat /\ n[d] >= m[d]

LEMMA FineMore ==
  ASSUME NEW m, NEW n, More(m, n), NEW p \in Devices
  PROVE  /\ \A x \in PublicKeys : Exists(m, x) => Exists(n, x)
         /\ \A r : IsRatchet(r) /\ FineRatchet(m, p, r) => FineRatchet(n, p, r)
         /\ \A msg \in Messages : FineMessage(m, p, msg) => FineMessage(n, p, msg)
<1>1. ASSUME NEW x \in PublicKeys, Exists(m, x) PROVE Exists(n, x)
  BY <1>1 DEF More, Exists, PublicKeys
<1>2. ASSUME NEW r, IsRatchet(r), FineRatchet(m, p, r) PROVE FineRatchet(n, p, r)
  <2>1. r.local \in PublicKeys /\ r.remote \in PublicKeys
    BY <1>2, RatchetFields
  <2> QED  BY <1>1, <1>2, <2>1 DEF FineRatchet
<1>3. ASSUME NEW msg \in Messages, FineMessage(m, p, msg) PROVE FineMessage(n, p, msg)
  <2>1. msg.header.dh \in PublicKeys /\ msg.key.secret \in SUBSET PublicKeys
    BY DEF Messages, Headers, MessageKeys
  <2> QED  BY <1>1, <1>3, <2>1 DEF FineMessage
<1> QED  BY <1>1, <1>2, <1>3

(* The keys a device sends under are made of keys that exist.              *)
LEMMA SendKeysExist ==
  ASSUME Inv, NEW p \in Devices, NEW k \in SendKeys(p)
  PROVE  k \in MessageKeys /\ (\A x \in k.secret : Exists(made, x)) /\ OwnChain(p, k)
<1>1. Types /\ Fine(p)
  BY DEF Inv, Safe
<1>2. CASE Known(p) /\ k = mem[p].send.key
  <2>1. IsRatchet(mem[p]) /\ FineRatchet(made, p, mem[p])
    BY <1>1, <1>2 DEF Types, Fine
  <2> QED  BY <1>2, <2>1, RatchetFields DEF FineRatchet, Chains
<1>3. CASE row[p].ratchet # NoRatchet /\ k = row[p].ratchet.send.key
  <2>1. IsRatchet(row[p].ratchet) /\ FineRatchet(made, p, row[p].ratchet)
    BY <1>1, <1>3 DEF Types, Fine
  <2> QED  BY <1>3, <2>1, RatchetFields DEF FineRatchet, Chains
<1>4. CASE \E n \in DOMAIN draft[p] : k = draft[p][n].key
  <2>1. PICK n \in DOMAIN draft[p] : k = draft[p][n].key
    BY <1>4
  <2>2. draft[p][n] \in Messages /\ FineMessage(made, p, draft[p][n])
    BY <1>1, <2>1 DEF Types, Fine
  <2> QED  BY <2>1, <2>2 DEF FineMessage, Messages
<1> QED  BY <1>2, <1>3, <1>4 DEF SendKeys

(* A step of the other device leaves most of what q relies on.             *)
Untouched(q) ==
  /\ mem'[q] = mem[q] /\ row'[q] = row[q] /\ todo'[q] = todo[q] /\ draft'[q] = draft[q]
  /\ batch'[q] = batch[q] /\ posted'[q] = posted[q] /\ got'[q] = got[q]

LEMMA OtherKept ==
  ASSUME Inv, NEW q \in Devices, Untouched(q), More(made, made')
  PROVE  /\ Fine(q)' /\ Behind(q)' /\ NextBehind(q)' /\ Saved(q)' /\ Distinct(q)'
         /\ SendKeys(q)' = SendKeys(q)
<1>1. Types /\ Safe(q)
  BY DEF Inv
<1>2. Known(q)' <=> Known(q)
  BY DEF Untouched, Known
<1>3. Fine(q)'
  <2>1. Known(q)' => FineRatchet(made', q, mem'[q])
    <3>1. Known(q) => IsRatchet(mem[q]) /\ FineRatchet(made, q, mem[q])
      BY <1>1 DEF Types, Safe, Fine
    <3> QED  BY <1>2, <3>1, FineMore DEF Untouched
  <2>2. row'[q].ratchet # NoRatchet => FineRatchet(made', q, row'[q].ratchet)
    <3>1. row[q].ratchet # NoRatchet =>
            IsRatchet(row[q].ratchet) /\ FineRatchet(made, q, row[q].ratchet)
      BY <1>1 DEF Types, Safe, Fine
    <3> QED  BY <3>1, FineMore DEF Untouched
  <2>3. \A n \in DOMAIN draft'[q] : FineMessage(made', q, draft'[q][n])
    <3>1. \A n \in DOMAIN draft[q] : draft[q][n] \in Messages /\ FineMessage(made, q, draft[q][n])
      BY <1>1 DEF Types, Safe, Fine
    <3> QED  BY <3>1, FineMore DEF Untouched
  <2> QED  BY <2>1, <2>2, <2>3 DEF Fine
<1>4. Behind(q)'
  BY <1>1, <1>2 DEF Safe, Behind, Untouched
<1>5. NextBehind(q)'
  BY <1>1, <1>2 DEF Safe, NextBehind, Sending, Untouched
<1>6. Saved(q)'
  BY <1>1, <1>2 DEF Safe, Saved, AtStep, Idle, Untouched
<1>7. Distinct(q)'
  BY <1>1 DEF Safe, Distinct, Untouched
<1>8. SendKeys(q)' = SendKeys(q)
  <2>1. {mem'[d].send.key : d \in {d \in {q} : Known(d)'}} = {mem[d].send.key : d \in {d \in {q} : Known(d)}}
    BY <1>2 DEF Untouched
  <2>2. {row'[d].ratchet.send.key : d \in {d \in {q} : row'[d].ratchet # NoRatchet}}
          = {row[d].ratchet.send.key : d \in {d \in {q} : row[d].ratchet # NoRatchet}}
    BY DEF Untouched
  <2> QED  BY <2>1, <2>2 DEF SendKeys, Untouched
<1> QED  BY <1>3, <1>4, <1>5, <1>6, <1>7, <1>8

-----------------------------------------------------------------------------
(* A save.                                                                 *)
LEMMA SaveMoves ==
  ASSUME Inv, NEW p \in Devices, AtStep(p, "row") \/ AtStep(p, "key"), GoOn(p, << >>)
  PROVE  /\ todo' \in [Devices -> Places] /\ \A d \in Devices \ {p} : todo'[d] = todo[d]
         /\ AtStep(p, "row") => ~AtStep(p, "row")' /\ AtStep(p, "key")' /\ ~AtStep(p, "post")'
         /\ AtStep(p, "key") => ~AtStep(p, "row")' /\ ~AtStep(p, "key")'
         /\ todo[p] # << "next message" >>
         /\ Posting(p)' = Posting(p) /\ Sending(p)' = Sending(p) /\ Opening(p)' = Opening(p)
<1>1. /\ todo \in [Devices -> Places] /\ todo[p] \in Places /\ todo[p] # << >>
      /\ Head(todo[p]) \in {"row", "key"}
      /\ todo' = [todo EXCEPT ![p] = << >> \o Tail(todo[p])]
  BY DEF Inv, Types, AtStep, Idle, GoOn
<1>2. todo[p] # << "next message" >>
  <2>1. Head(<< "next message" >>) = "next message"
    BY OneHead
  <2> QED  BY <1>1, <2>1
<1>3. {<< "post" >>} \in SUBSET AfterSave /\ {<< "open" >>} \in SUBSET AfterSave /\ Posts \in SUBSET AfterSave
  BY DEF AfterSave
<1>4. PICK r \in AfterSave : todo[p] = << "key" >> \o r \/ todo[p] = Save \o r
  BY <1>1, SaveLeft
<1>5. /\ r \in Places /\ << "key" >> \o r \in Places /\ r # << >> /\ Head(r) # "row" /\ Head(r) # "key"
      /\ Save \o r # << >> /\ Head(Save \o r) = "row"
      /\ << >> \o Tail(Save \o r) = << "key" >> \o r
      /\ << "key" >> \o r # << >> /\ Head(<< "key" >> \o r) = "key"
      /\ << >> \o Tail(<< "key" >> \o r) = r
  BY RestsAreSeqs, SaveShape, RestHeads DEF Places, Saving
<1>6. ASSUME NEW rests \in SUBSET AfterSave
      PROVE  << >> \o Tail(todo[p]) \in Saving(rests) <=> todo[p] \in Saving(rests)
  <2>0. /\ r \in Saving(rests) <=> r \in rests
        /\ << "key" >> \o r \in Saving(rests) <=> r \in rests
        /\ Save \o r \in Saving(rests) <=> r \in rests
    BY SavingUnique
  <2>1. CASE todo[p] = << "key" >> \o r
    <3>1. << >> \o Tail(todo[p]) = r
      BY <1>5, <2>1
    <3> QED  BY <2>0, <2>1, <3>1, Zenon
  <2>2. CASE todo[p] = Save \o r
    <3>1. << >> \o Tail(todo[p]) = << "key" >> \o r
      BY <1>5, <2>2
    <3> QED  BY <2>0, <2>2, <3>1, Zenon
  <2> QED  BY <1>4, <2>1, <2>2
<1>7. << >> \o Tail(todo[p]) \in Places
  BY <1>4, <1>5
<1>8. todo' \in [Devices -> Places] /\ todo'[p] = << >> \o Tail(todo[p])
      /\ \A d \in Devices \ {p} : todo'[d] = todo[d]
  BY <1>1, <1>7
<1>9. Posting(p)' = Posting(p) /\ Sending(p)' = Sending(p) /\ Opening(p)' = Opening(p)
  BY <1>3, <1>6, <1>8 DEF Posting, Sending, Opening
<1>10. AtStep(p, "row") => ~AtStep(p, "row")' /\ AtStep(p, "key")' /\ ~AtStep(p, "post")'
  <2> SUFFICES ASSUME AtStep(p, "row")
               PROVE  ~AtStep(p, "row")' /\ AtStep(p, "key")' /\ ~AtStep(p, "post")'
    OBVIOUS
  <2>1. todo[p] = Save \o r
    BY <1>4, <1>5 DEF AtStep
  <2>2. todo'[p] = << "key" >> \o r
    BY <1>5, <1>8, <2>1
  <2> QED  BY <1>5, <2>2 DEF AtStep, Idle
<1>11. AtStep(p, "key") => ~AtStep(p, "row")' /\ ~AtStep(p, "key")'
  <2> SUFFICES ASSUME AtStep(p, "key")
               PROVE  ~AtStep(p, "row")' /\ ~AtStep(p, "key")'
    OBVIOUS
  <2>1. todo[p] = << "key" >> \o r
    BY <1>4, <1>5 DEF AtStep
  <2>2. todo'[p] = r
    BY <1>5, <1>8, <2>1
  <2> QED  BY <1>5, <2>2 DEF AtStep, Idle
<1> QED  BY <1>2, <1>8, <1>9, <1>10, <1>11

LEMMA KeyedChanged ==
  ASSUME NEW x, NEW a, NEW b, NEW y, x = [ratchet |-> a, keyed |-> b]
  PROVE  [x EXCEPT !.keyed = y] = [ratchet |-> a, keyed |-> y]
OBVIOUS

LEMMA SaveInv ==
  ASSUME Inv, NEW p \in Devices, SaveRow(p) \/ SaveKey(p)
  PROVE  Inv'
<1> DEFINE q == Peer(p)
<1>1. /\ q \in Devices /\ q # p /\ Peer(q) = p /\ \A d \in Devices : d = p \/ d = q
  BY PeerFacts
<1>q. q = Peer(p)
  OBVIOUS
<1> HIDE DEF q
<1>2. /\ UNCHANGED <<mem, made, draft, batch, key, handshakes, mailbox, posted, got, mishaps>>
      /\ AtStep(p, "row") \/ AtStep(p, "key")
      /\ GoOn(p, << >>)
  BY DEF SaveRow, SaveKey, server
<1>3. Types /\ Safe(p) /\ Safe(q) /\ made[p] >= 1 /\ made[q] >= 1
  BY <1>1 DEF Inv
<1>4. /\ todo' \in [Devices -> Places] /\ todo'[q] = todo[q]
      /\ AtStep(p, "row") => ~AtStep(p, "row")' /\ AtStep(p, "key")' /\ ~AtStep(p, "post")'
      /\ AtStep(p, "key") => ~AtStep(p, "row")' /\ ~AtStep(p, "key")'
      /\ todo[p] # << "next message" >>
      /\ Posting(p)' = Posting(p) /\ Sending(p)' = Sending(p) /\ Opening(p)' = Opening(p)
  BY <1>1, <1>2, SaveMoves
<1>5. Known(p) /\ IsRatchet(mem[p]) /\ FineRatchet(made, p, mem[p])
  BY <1>2, <1>3 DEF Safe, Saved, Types, Fine
<1>6. /\ row' = [d \in Devices |-> [ratchet |-> row'[d].ratchet, keyed |-> row'[d].keyed]]
      /\ row'[q] = row[q] /\ row'[p].ratchet = mem[p] /\ row'[p].keyed \in BOOLEAN
      /\ row'[p].keyed => AtStep(p, "key")
  <2>1. row = [d \in Devices |-> [ratchet |-> row[d].ratchet, keyed |-> row[d].keyed]]
    BY <1>3 DEF Types
  <2>2. CASE SaveRow(p)
    <3>1. row' = [row EXCEPT ![p] = [ratchet |-> mem[p], keyed |-> FALSE]]
      BY <2>2 DEF SaveRow
    <3> QED  BY <1>1, <2>1, <3>1
  <2>3. CASE SaveKey(p)
    <3>1. row' = [row EXCEPT ![p].keyed = TRUE] /\ AtStep(p, "key") /\ row[p].ratchet = mem[p]
      BY <1>3, <2>3 DEF SaveKey, Safe, Saved
    <3>2. row[p] = [ratchet |-> mem[p], keyed |-> row[p].keyed] /\ DOMAIN row = Devices
      BY <2>1, <3>1
    <3>3. [row[p] EXCEPT !.keyed = TRUE] = [ratchet |-> mem[p], keyed |-> TRUE]
      <4> DEFINE y == TRUE
      <4> HIDE DEF y
      <4>1. [row[p] EXCEPT !.keyed = y] = [ratchet |-> mem[p], keyed |-> y]
        BY <3>2, KeyedChanged
      <4> QED  BY <4>1 DEF y
    <3>4. row' = [row EXCEPT ![p] = [ratchet |-> mem[p], keyed |-> TRUE]]
      BY <3>1, <3>3
    <3> QED  BY <1>1, <2>1, <3>1, <3>4
  <2> QED  BY <2>2, <2>3
<1>7. Known(p)' /\ (Known(q)' <=> Known(q))
  BY <1>2, <1>5 DEF Known
<1>8. Types'
  <2>1. ASSUME NEW d \in Devices
        PROVE  /\ Known(d)' => IsRatchet(mem'[d])
               /\ row'[d].ratchet # NoRatchet => IsRatchet(row'[d].ratchet)
               /\ row'[d].keyed \in BOOLEAN /\ (row'[d].keyed => row'[d].ratchet # NoRatchet)
    <3>1. CASE d = p
      BY <1>2, <1>5, <1>6, <3>1 DEF Known
    <3>2. CASE d = q
      BY <1>1, <1>2, <1>3, <1>6, <1>7, <3>2 DEF Types
    <3> QED  BY <1>1, <3>1, <3>2
  <2> QED  BY <1>2, <1>3, <1>4, <1>6, <2>1 DEF Types
<1>9. \A d \in Devices : made[d] \in Nat
  BY <1>3 DEF Types
<1>10. More(made, made') /\ Untouched(q)
  <2>1. \A d \in Devices : made'[d] = made[d]
    BY <1>2
  <2>2. More(made, made')
    BY <1>9, <2>1 DEF More
  <2> QED  BY <1>2, <1>4, <1>6, <2>2 DEF Untouched
<1>11. Fine(q)' /\ Behind(q)' /\ NextBehind(q)' /\ Saved(q)' /\ Distinct(q)' /\ SendKeys(q)' = SendKeys(q)
  BY <1>1, <1>10, OtherKept
<1>12. SendKeys(p)' \subseteq SendKeys(p)
  BY <1>2, <1>5, <1>6 DEF SendKeys, Known
<1>13. Posting(q)' = Posting(q) /\ Opening(q)' = Opening(q)
  BY <1>4 DEF Posting, Opening
<1>14. Unanswered(p)' = Unanswered(p) /\ Unanswered(q)' = Unanswered(q)
  BY <1>1, <1>2, <1>4, <1>13, <1>q DEF Unanswered
<1>15. Safe(p)'
  <2>1. Prepared(p)'
    BY <1>2, <1>3, <1>4 DEF Safe, Prepared
  <2>2. Fine(p)'
    BY <1>2, <1>3, <1>5, <1>6 DEF Safe, Fine
  <2>3. FreshHandshakes(p)'
    BY <1>2, <1>3, <1>4, <1>7, <1>12, <1>14 DEF Safe, FreshHandshakes
  <2>4. Behind(p)'
    BY <1>2, <1>3, <1>5, <1>6 DEF Safe, Behind
  <2>5. NextBehind(p)'
    BY <1>2, <1>3, <1>4, <1>7 DEF Safe, NextBehind
  <2>6. Saved(p)'
    <3>1. CASE AtStep(p, "row")
      BY <1>2, <1>4, <1>6, <1>7, <3>1 DEF Saved
    <3>2. CASE AtStep(p, "key")
      <4>1. row'[p].keyed
        <5>1. SaveKey(p)
          BY <3>2 DEF SaveRow, AtStep
        <5>2. row[p] = [ratchet |-> row[p].ratchet, keyed |-> row[p].keyed] /\ DOMAIN row = Devices
          BY <1>3 DEF Types
        <5> QED  BY <5>1, <5>2 DEF SaveKey
      <4> QED  BY <1>2, <1>4, <1>6, <3>2, <4>1 DEF Saved
    <3> QED  BY <1>2, <3>1, <3>2
  <2>7. Distinct(p)'
    BY <1>2, <1>3 DEF Safe, Distinct
  <2>8. Apart(p)'
    BY <1>3, <1>11, <1>12, <1>q DEF Safe, Apart
  <2> QED  BY <2>1, <2>2, <2>3, <2>4, <2>5, <2>6, <2>7, <2>8 DEF Safe
<1>16. Safe(q)'
  <2>1. Prepared(q)'
    BY <1>2, <1>3, <1>4, <1>13 DEF Safe, Prepared
  <2>2. FreshHandshakes(q)'
    BY <1>1, <1>2, <1>3, <1>7, <1>11, <1>13, <1>14 DEF Safe, FreshHandshakes
  <2>3. Apart(q)'
    BY <1>1, <1>3, <1>11, <1>12 DEF Safe, Apart
  <2> QED  BY <1>11, <2>1, <2>2, <2>3 DEF Safe
<1> QED  BY <1>1, <1>2, <1>3, <1>8, <1>15, <1>16 DEF Inv

-----------------------------------------------------------------------------
(* A message is posted: what was to be posted was behind the ratchet in    *)
(* memory, and the saved one is the same.                                  *)
Posted(p) ==
  /\ AtStep(p, "post") /\ ServerTakes(p)
  /\ todo' = [todo EXCEPT ![p] = << >>]
  /\ mishaps' \in 0 .. MaxMishaps
  /\ UNCHANGED <<mem, row, made, draft, batch, key, handshakes, got>>

LEMMA AtPost ==
  ASSUME Inv, NEW p \in Devices, AtStep(p, "post")
  PROVE  /\ todo[p] = << "post" >> /\ Sending(p) /\ ~Opening(p) /\ batch[p] = << >>
         /\ Known(p) /\ row[p].ratchet = mem[p] /\ Loaded(p) = mem[p]
<1>1. Types /\ Safe(p) /\ todo[p] \in Places /\ todo[p] # << >> /\ Head(todo[p]) = "post"
  BY DEF Inv, Types, AtStep, Idle
<1>2. todo[p] = << "post" >>
  BY <1>1, SaveLeft, OtherLeft
<1>3. << "post" >> \in AfterSave /\ << "open" >> \in AfterSave /\ << "post" >> # << "next message" >>
      /\ << "post" >> # << "open" >>
  <2>1. << "post" >> \in AfterSave /\ << "open" >> \in AfterSave
    BY DEF AfterSave
  <2>2. Head(<< "post" >>) = "post" /\ Head(<< "open" >>) = "open"
        /\ Head(<< "next message" >>) = "next message"
    BY OneHead, Zenon
  <2> QED  BY <2>1, <2>2
<1>4. Sending(p) /\ ~Opening(p)
  <2>1. {<< "open" >>} \in SUBSET AfterSave
    BY <1>3
  <2>2. << "post" >> \in Saving({<< "open" >>}) <=> << "post" >> \in {<< "open" >>}
    BY <1>3, <2>1, SavingUnique
  <2> QED  BY <1>2, <1>3, <2>2 DEF Sending, Opening, Saving
<1>5. batch[p] = << >>
  BY <1>1, <1>2, <1>3, <1>4 DEF Safe, Prepared
<1>6. row[p].ratchet = mem[p] /\ row[p].keyed
  BY <1>1 DEF Safe, Saved
<1>7. Known(p)
  BY <1>1, <1>4 DEF Safe, NextBehind
<1> QED  BY <1>2, <1>4, <1>5, <1>6, <1>7 DEF Loaded

LEMMA PostsArePosted ==
  ASSUME Inv, NEW p \in Devices, Post(p) \/ PostFails(p)
  PROVE  Posted(p) \/ Light(p)
<1>1. Types
  BY DEF Inv
<1>2. /\ AtStep(p, "post") /\ UNCHANGED <<row, made, draft, key, handshakes, got>>
      /\ Mishap \/ UNCHANGED mishaps
  BY DEF Post, PostFails
<1>3. todo[p] = << "post" >> /\ batch[p] = << >> /\ Loaded(p) = mem[p]
  BY <1>2, AtPost
<1>4. mishaps' \in 0 .. MaxMishaps
  BY <1>2, Still
<1>5. CASE Post(p)
  <2>1. << >> \o Tail(<< "post" >>) = << >>
    <3>1. Tail(<< "post" >>) = << >> /\ << >> \in Seq(Steps)
      BY Tails
    <3> QED  BY <3>1, Concats
  <2>2. todo' = [todo EXCEPT ![p] = << >>]
    BY <1>1, <1>3, <1>5, <2>1 DEF Post, GoOn, Types
  <2> QED  BY <1>2, <1>4, <1>5, <2>2 DEF Post, Posted
<1>6. CASE PostFails(p)
  <2>1. Throw(p, mem[p]) /\ (ServerTakes(p) \/ UNCHANGED <<mailbox, posted>>)
    BY <1>6 DEF PostFails
  <2>2. mem = [mem EXCEPT ![p] = mem[p]] /\ batch = [batch EXCEPT ![p] = << >>]
    BY <1>1, <1>3 DEF Types
  <2>3. UNCHANGED <<mem, batch>> /\ todo' = [todo EXCEPT ![p] = << >>]
    BY <1>3, <2>1, <2>2 DEF Throw
  <2>4. CASE ServerTakes(p)
    BY <1>2, <1>4, <2>3, <2>4 DEF Posted
  <2>5. CASE UNCHANGED <<mailbox, posted>>
    <3>1. Reloads(p) /\ Moves(p)
      BY <2>1, ThrowMoves
    <3> QED  BY <1>2, <1>4, <2>5, <3>1, Still DEF Light
  <2> QED  BY <2>1, <2>4, <2>5
<1> QED  BY <1>5, <1>6

LEMMA PostedInv ==
  ASSUME Inv, NEW p \in Devices, Posted(p)
  PROVE  Inv'
<1> DEFINE q == Peer(p)
           n == Len(draft[p])
<1>1. /\ q \in Devices /\ q # p /\ Peer(q) = p /\ \A d \in Devices : d = p \/ d = q
  BY PeerFacts
<1>q. q = Peer(p)
  OBVIOUS
<1> HIDE DEF q
<1>2. Types /\ Safe(p) /\ Safe(q) /\ made[p] >= 1 /\ made[q] >= 1
  BY <1>1 DEF Inv
<1>3. /\ Sending(p) /\ ~Opening(p) /\ batch[p] = << >> /\ Known(p) /\ row[p].ratchet = mem[p]
  BY AtPost DEF Posted
<1>4. /\ UNCHANGED <<mem, row, made, draft, batch, key, handshakes, got>>
      /\ mishaps' \in 0 .. MaxMishaps
      /\ mailbox' = [mailbox EXCEPT ![q] = Append(@, n)]
      /\ posted' = [posted EXCEPT ![p] = @ \cup {n}]
      /\ todo' = [todo EXCEPT ![p] = << >>]
  BY <1>q DEF Posted, ServerTakes
<1>5. draft[p] \in Seq(Messages) /\ draft[p] # << >> /\ n \in Nat /\ n \in DOMAIN draft[p]
  BY <1>2, <1>3 DEF Types, Safe, NextBehind
<1> HIDE DEF n
<1>6. mailbox[q] \in Seq(Nat) /\ posted[p] \in SUBSET Nat
  BY <1>1, <1>2 DEF Types
<1>7. /\ mailbox' \in [Devices -> Seq(Nat)] /\ mailbox'[p] = mailbox[p]
      /\ Range(mailbox'[q]) = Range(mailbox[q]) \cup {n}
  <2>1. Append(mailbox[q], n) \in Seq(Nat)
        /\ Range(Append(mailbox[q], n)) = Range(mailbox[q]) \cup {n}
    BY <1>5, <1>6, RangeAppend
  <2>2. mailbox \in [Devices -> Seq(Nat)]
    BY <1>2 DEF Types
  <2> HIDE DEF Types
  <2>3. mailbox' \in [Devices -> Seq(Nat)] /\ mailbox'[p] = mailbox[p]
        /\ mailbox'[q] = Append(mailbox[q], n)
    BY <1>1, <1>4, <2>1, <2>2
  <2> QED  BY <2>1, <2>3
<1>8. /\ posted' \in [Devices -> SUBSET Nat] /\ posted'[q] = posted[q]
      /\ posted'[p] = posted[p] \cup {n}
  <2>1. posted \in [Devices -> SUBSET Nat]
    BY <1>2 DEF Types
  <2> QED  BY <1>1, <1>4, <1>5, <2>1
<1>9. << >> \in Calm
  BY DEF Calm
<1>10. /\ todo' \in [Devices -> Places] /\ todo'[q] = todo[q] /\ todo'[p] = << >>
  <2>1. todo \in [Devices -> Places] /\ << >> \in Places
    BY <1>2, <1>9 DEF Types, Places
  <2> QED  BY <1>1, <1>4, <2>1
<1>11. ~Posting(p)' /\ ~Sending(p)' /\ ~Opening(p)' /\ Idle(p)'
  BY <1>9, <1>10, CalmFacts DEF Posting, Sending, Opening, Idle
<1>12. Types'
  <2>1. ASSUME NEW d \in Devices
        PROVE  /\ Known(d)' => IsRatchet(mem'[d])
               /\ row'[d].ratchet # NoRatchet => IsRatchet(row'[d].ratchet)
               /\ row'[d].keyed \in BOOLEAN /\ (row'[d].keyed => row'[d].ratchet # NoRatchet)
    BY <1>2, <1>4 DEF Types, Known
  <2> QED  BY <1>2, <1>4, <1>7, <1>8, <1>10, <2>1 DEF Types
<1>13. \A d \in Devices : made[d] \in Nat /\ made'[d] = made[d]
  BY <1>2, <1>4 DEF Types
<1>14. More(made, made') /\ Untouched(q)
  BY <1>1, <1>4, <1>8, <1>10, <1>13 DEF More, Untouched
<1>15. Fine(q)' /\ Behind(q)' /\ NextBehind(q)' /\ Saved(q)' /\ Distinct(q)' /\ SendKeys(q)' = SendKeys(q)
  BY <1>1, <1>14, OtherKept
<1>16. SendKeys(p)' = SendKeys(p)
  BY <1>4 DEF SendKeys, Known
<1>17. Posting(q)' = Posting(q) /\ Opening(q)' = Opening(q)
  BY <1>10 DEF Posting, Opening
<1>18. Unanswered(p)' = Unanswered(p) /\ Unanswered(q)' \subseteq Unanswered(q)
  BY <1>1, <1>4, <1>11, <1>17, <1>q DEF Unanswered
<1>19. Safe(p)'
  <2>1. Prepared(p)'
    BY <1>2, <1>3, <1>4, <1>5, <1>7, <1>8, <1>11 DEF Safe, Prepared
  <2>2. Fine(p)'
    BY <1>2, <1>4 DEF Safe, Fine, Known
  <2>3. FreshHandshakes(p)'
    BY <1>2, <1>4, <1>11, <1>16, <1>18 DEF Safe, FreshHandshakes
  <2>4. Behind(p)'
    BY <1>2, <1>3, <1>4, <1>8 DEF Safe, Behind, NextBehind, Known, n
  <2>5. NextBehind(p)' /\ Saved(p)'
    BY <1>11 DEF NextBehind, Saved, AtStep
  <2>6. Distinct(p)'
    BY <1>2, <1>3, <1>4, <1>8 DEF Safe, Distinct, NextBehind, n
  <2>7. Apart(p)'
    BY <1>2, <1>15, <1>16, <1>q DEF Safe, Apart
  <2> QED  BY <2>1, <2>2, <2>3, <2>4, <2>5, <2>6, <2>7 DEF Safe
<1>20. Safe(q)'
  <2>1. Prepared(q)'
    BY <1>1, <1>2, <1>4, <1>5, <1>7, <1>8, <1>10, <1>17 DEF Safe, Prepared
  <2>2. FreshHandshakes(q)'
    BY <1>1, <1>2, <1>4, <1>15, <1>17, <1>18 DEF Safe, FreshHandshakes, Known
  <2>3. Apart(q)'
    BY <1>1, <1>2, <1>15, <1>16 DEF Safe, Apart
  <2> QED  BY <1>15, <2>1, <2>2, <2>3 DEF Safe
<1> QED  BY <1>1, <1>2, <1>4, <1>12, <1>19, <1>20 DEF Inv

-----------------------------------------------------------------------------
(* The handshake that is to be posted is posted: still unanswered.         *)
LEMMA PostHandshakeInv ==
  ASSUME Inv, NEW p \in Devices, PostHandshake(p)
  PROVE  Inv'
<1> DEFINE q == Peer(p)
<1>1. /\ q \in Devices /\ q # p /\ Peer(q) = p /\ \A d \in Devices : d = p \/ d = q
  BY PeerFacts
<1>q. q = Peer(p)
  OBVIOUS
<1> HIDE DEF q
<1>2. Types /\ Safe(p) /\ Safe(q) /\ made[p] >= 1 /\ made[q] >= 1
  BY <1>1 DEF Inv
<1>3. /\ ~Idle(p) /\ todo[p] # << >> /\ Head(todo[p]) = "post handshake" /\ GoOn(p, << >>)
      /\ UNCHANGED <<mem, row, made, draft, batch, key, mailbox, posted, got>>
      /\ \/ handshakes' = [handshakes EXCEPT ![q] = Append(@, mem[p].local)] /\ UNCHANGED mishaps
         \/ Mishap /\ UNCHANGED handshakes
  BY <1>q DEF PostHandshake, AtStep, Idle
<1>4. Moves(p)
  BY <1>3, GoOnMoves
<1>5. CASE Mishap /\ UNCHANGED handshakes
  <2>1. Light(p)
    BY <1>3, <1>4, <1>5, Still DEF Light
  <2> QED  BY <2>1, LightInv
<1>6. CASE handshakes' = [handshakes EXCEPT ![q] = Append(@, mem[p].local)] /\ UNCHANGED mishaps
  <2>1. todo[p] \in Places /\ todo \in [Devices -> Places]
    BY <1>2 DEF Types
  <2>2. << >> \o Tail(todo[p]) \in Calm
    BY <1>3, <2>1, OnFromCalm
  <2>3. /\ todo' \in [Devices -> Places] /\ todo'[q] = todo[q] /\ todo'[p] \in Calm
    <3>1. << >> \o Tail(todo[p]) \in Places
      BY <2>2 DEF Places
    <3> QED  BY <1>1, <1>3, <2>1, <2>2, <3>1 DEF GoOn
  <2>4. ~Posting(p)' /\ ~Sending(p)' /\ ~Opening(p)'
        /\ ~AtStep(p, "row")' /\ ~AtStep(p, "key")' /\ ~AtStep(p, "post")'
    BY <2>3, CalmFacts DEF Posting, Sending, Opening, AtStep, Idle
  <2>5. Posting(p)
    <3>1. todo[p] \in Posts
      BY <1>3, <2>1, SaveLeft, OtherLeft
    <3> QED  BY <3>1 DEF Posting, Saving
  <2>6. Known(p) /\ mem[p].local \in PublicKeys
    <3>1. Known(p)
      BY <1>2, <2>5 DEF Safe, FreshHandshakes
    <3> QED  BY <1>2, <3>1, RatchetFields DEF Types
  <2>7. /\ handshakes' \in [Devices -> Seq(PublicKeys)] /\ handshakes'[p] = handshakes[p]
        /\ Range(handshakes'[q]) = Range(handshakes[q]) \cup {mem[p].local}
    <3>1. handshakes \in [Devices -> Seq(PublicKeys)]
      BY <1>2 DEF Types
    <3>2. handshakes[q] \in Seq(PublicKeys)
      BY <1>1, <3>1
    <3>3. Append(handshakes[q], mem[p].local) \in Seq(PublicKeys)
          /\ Range(Append(handshakes[q], mem[p].local)) = Range(handshakes[q]) \cup {mem[p].local}
      BY <2>6, <3>2, RangeAppend
    <3>4. handshakes' \in [Devices -> Seq(PublicKeys)] /\ handshakes'[p] = handshakes[p]
          /\ handshakes'[q] = Append(handshakes[q], mem[p].local)
      BY <1>1, <1>6, <3>1, <3>3
    <3> QED  BY <3>3, <3>4
  <2>8. Types'
    <3>1. ASSUME NEW d \in Devices
          PROVE  /\ Known(d)' => IsRatchet(mem'[d])
                 /\ row'[d].ratchet # NoRatchet => IsRatchet(row'[d].ratchet)
                 /\ row'[d].keyed \in BOOLEAN /\ (row'[d].keyed => row'[d].ratchet # NoRatchet)
      BY <1>2, <1>3 DEF Types, Known
    <3> QED  BY <1>2, <1>3, <1>6, <2>3, <2>7, <3>1 DEF Types
  <2>9. \A d \in Devices : made[d] \in Nat /\ made'[d] = made[d]
    BY <1>2, <1>3 DEF Types
  <2>10. More(made, made') /\ Untouched(q)
    <3>1. More(made, made')
      BY <2>9 DEF More
    <3> QED  BY <1>1, <1>3, <2>3, <3>1 DEF Untouched
  <2>11. /\ Fine(q)' /\ Behind(q)' /\ NextBehind(q)' /\ Saved(q)' /\ Distinct(q)'
         /\ SendKeys(q)' = SendKeys(q)
    BY <1>1, <2>10, OtherKept
  <2>12. SendKeys(p)' = SendKeys(p)
    BY <1>3 DEF SendKeys, Known
  <2>13. Posting(q)' = Posting(q) /\ Opening(q)' = Opening(q)
    BY <2>3 DEF Posting, Opening
  <2>14. Unanswered(p)' = Unanswered(p)
    BY <1>3, <2>7, <2>13, <1>q DEF Unanswered
  <2>15. Unanswered(q)' \subseteq Unanswered(q)
    BY <1>1, <1>3, <2>4, <2>5, <2>7 DEF Unanswered
  <2>16. batch[p] = << >>
    <3>1. ~Opening(p) /\ todo[p] # << "next message" >>
      <4>1. Head(<< "next message" >>) = "next message" /\ Head(<< "open" >>) = "open"
        BY OneHead, Zenon
      <4>2. << "open" >> \in AfterSave
        BY DEF AfterSave
      <4>3. Head(<< "key" >> \o << "open" >>) = "key" /\ Head(Save \o << "open" >>) = "row"
        BY <4>2, RestsAreSeqs, SaveShape
      <4> QED  BY <1>3, <4>1, <4>3 DEF Opening, Saving
    <3> QED  BY <1>2, <3>1 DEF Safe, Prepared
  <2>17. Safe(p)'
    <3>1. Prepared(p)'
      BY <1>2, <1>3, <2>4, <2>16 DEF Safe, Prepared
    <3>2. Fine(p)'
      BY <1>2, <1>3 DEF Safe, Fine, Known
    <3>3. FreshHandshakes(p)'
      BY <1>2, <1>3, <2>4, <2>12, <2>14 DEF Safe, FreshHandshakes
    <3>4. Behind(p)'
      BY <1>2, <1>3 DEF Safe, Behind, Known
    <3>5. NextBehind(p)' /\ Saved(p)'
      BY <2>4 DEF NextBehind, Saved
    <3>6. Distinct(p)'
      BY <1>2, <1>3 DEF Safe, Distinct
    <3>7. Apart(p)'
      BY <1>2, <2>11, <2>12, <1>q DEF Safe, Apart
    <3> QED  BY <3>1, <3>2, <3>3, <3>4, <3>5, <3>6, <3>7 DEF Safe
  <2>18. Safe(q)'
    <3>1. Prepared(q)'
      BY <1>1, <1>2, <1>3, <2>3, <2>13 DEF Safe, Prepared
    <3>2. FreshHandshakes(q)'
      BY <1>1, <1>2, <1>3, <2>7, <2>11, <2>13, <2>15 DEF Safe, FreshHandshakes, Known
    <3>3. Apart(q)'
      BY <1>1, <1>2, <2>11, <2>12 DEF Safe, Apart
    <3> QED  BY <2>11, <3>1, <3>2, <3>3 DEF Safe
  <2> QED  BY <1>1, <1>2, <1>3, <2>8, <2>17, <2>18 DEF Inv
<1> QED  BY <1>3, <1>5, <1>6

-----------------------------------------------------------------------------
(* The ratchet of p is replaced by r, from whose sending half nothing was  *)
(* sent: the chain is the one p was on, or one that nobody was on.         *)
Unsent(p, r) ==
  /\ IsRatchet(r) /\ FineRatchet(made', p, r)
  /\ \A n \in posted[p] : ~Derivable(draft[p][n].key, r.send.key)
  /\ \A l \in SendKeys(Peer(p)) : ~SameChain(r.send.key, l)
  /\ \A e \in Range(handshakes'[p]) \cup {mem[d].local : d \in {d \in {Peer(p)} : Posting(d)}} :
       r.send.key.label = "DRXrecv1" => e \notin r.send.key.secret

(* Its handshake may be posted.                                            *)
Announceable(p, r) ==
  /\ r # NoRatchet /\ r.local \notin Range(handshakes[Peer(p)])
  /\ r.local.owner = p /\ r.local.nth >= 1 /\ Exists(made', r.local)
  /\ \A k \in SendKeys(Peer(p)) : k.label = "DRXrecv1" => r.local \notin k.secret

Replaced(p, r, s, b) ==
  /\ mem' = [mem EXCEPT ![p] = r] /\ todo' = [todo EXCEPT ![p] = s] /\ batch' = [batch EXCEPT ![p] = b]
  /\ r = NoRatchet \/ Unsent(p, r)
  /\ s \in Places /\ s \notin Saving({<< "post" >>})
  /\ s # << >> => Head(s) # "key" /\ Head(s) # "post"
  /\ s # << >> /\ Head(s) = "row" => r # NoRatchet
  /\ s \in Saving(Posts) => Announceable(p, r)
  /\ b \in Seq(Nat) /\ Range(b) \subseteq Range(batch[p])
  /\ b # << >> => s \in Saving({<< "open" >>}) \/ s = << "next message" >>
  /\ s \in Saving({<< "open" >>}) => b # << >>
  /\ made' \in [Devices -> Nat] /\ made'[p] >= made[p] /\ made'[Peer(p)] = made[Peer(p)]
  /\ \E x \in {handshakes[p], << >>} : handshakes' = [handshakes EXCEPT ![p] = x]
  /\ key' \in [Devices -> MessageKeys \cup {NoKey}] /\ mishaps' \in 0 .. MaxMishaps
  /\ UNCHANGED <<row, draft, mailbox, posted, got>>

LEMMA ReplacedTypes ==
  ASSUME Inv, NEW p \in Devices, NEW r, NEW s, NEW b, Replaced(p, r, s, b)
  PROVE  /\ Types'
         /\ mem'[p] = r /\ todo'[p] = s /\ batch'[p] = b
         /\ Range(handshakes'[p]) \subseteq Range(handshakes[p])
         /\ \A d \in Devices \ {p} : /\ mem'[d] = mem[d] /\ todo'[d] = todo[d] /\ batch'[d] = batch[d]
                                     /\ handshakes'[d] = handshakes[d]
<1>1. /\ mem = [d \in Devices |-> mem[d]] /\ todo \in [Devices -> Places] /\ batch \in [Devices -> Seq(Nat)]
      /\ handshakes \in [Devices -> Seq(PublicKeys)]
  BY DEF Inv, Types
<1>2. /\ mem' = [mem EXCEPT ![p] = r] /\ todo' = [todo EXCEPT ![p] = s] /\ batch' = [batch EXCEPT ![p] = b]
      /\ s \in Places /\ b \in Seq(Nat)
  BY DEF Replaced
<1>3. /\ mem' = [d \in Devices |-> mem'[d]] /\ mem'[p] = r
      /\ \A d \in Devices \ {p} : mem'[d] = mem[d]
  BY <1>1, <1>2
<1>4. /\ todo' \in [Devices -> Places] /\ todo'[p] = s
      /\ \A d \in Devices \ {p} : todo'[d] = todo[d]
  BY <1>1, <1>2
<1>5. /\ batch' \in [Devices -> Seq(Nat)] /\ batch'[p] = b
      /\ \A d \in Devices \ {p} : batch'[d] = batch[d]
  BY <1>1, <1>2
<1>6. /\ handshakes' \in [Devices -> Seq(PublicKeys)]
      /\ Range(handshakes'[p]) \subseteq Range(handshakes[p])
      /\ \A d \in Devices \ {p} : handshakes'[d] = handshakes[d]
  <2>1. PICK x \in {handshakes[p], << >>} : handshakes' = [handshakes EXCEPT ![p] = x]
    BY DEF Replaced
  <2>2. x \in Seq(PublicKeys)
    <3>1. handshakes[p] \in Seq(PublicKeys) /\ << >> \in Seq(PublicKeys)
      BY <1>1
    <3> QED  BY <2>1, <3>1
  <2>3. Range(x) \subseteq Range(handshakes[p])
    BY <2>1, RangeEmpty
  <2> QED  BY <1>1, <2>1, <2>2, <2>3
<1>7. r # NoRatchet => IsRatchet(r)
  BY DEF Replaced, Unsent
<1>8. ASSUME NEW d \in Devices
      PROVE  /\ Known(d)' => IsRatchet(mem'[d])
             /\ row'[d].ratchet # NoRatchet => IsRatchet(row'[d].ratchet)
             /\ row'[d].keyed \in BOOLEAN /\ (row'[d].keyed => row'[d].ratchet # NoRatchet)
  <2>1. Types /\ UNCHANGED row
    BY DEF Inv, Replaced
  <2>2. Known(d)' => IsRatchet(mem'[d])
    BY <1>3, <1>7, <2>1 DEF Types, Known
  <2> QED  BY <2>1, <2>2 DEF Types
<1>9. /\ made' \in [Devices -> Nat] /\ key' \in [Devices -> MessageKeys \cup {NoKey}]
      /\ mishaps' \in 0 .. MaxMishaps /\ UNCHANGED <<row, draft, mailbox, posted, got>>
  BY DEF Replaced
<1>10. /\ row = [d \in Devices |-> [ratchet |-> row[d].ratchet, keyed |-> row[d].keyed]]
       /\ draft \in [Devices -> Seq(Messages)] /\ mailbox \in [Devices -> Seq(Nat)]
       /\ posted \in [Devices -> SUBSET Nat] /\ got \in [Devices -> SUBSET Nat]
  BY DEF Inv, Types
<1>11. Types'
  BY <1>3, <1>4, <1>5, <1>6, <1>8, <1>9, <1>10 DEF Types
<1> QED  BY <1>3, <1>4, <1>5, <1>6, <1>11

LEMMA ReplacedInv ==
  ASSUME Inv, NEW p \in Devices, NEW r, NEW s, NEW b, Replaced(p, r, s, b)
  PROVE  Inv'
<1> DEFINE q == Peer(p)
<1>1. /\ q \in Devices /\ q # p /\ Peer(q) = p /\ \A d \in Devices : d = p \/ d = q
  BY PeerFacts
<1>q. q = Peer(p)
  OBVIOUS
<1> HIDE DEF q
<1>2. Types /\ Safe(p) /\ Safe(q) /\ made[p] >= 1 /\ made[q] >= 1
  BY <1>1 DEF Inv
<1>3. /\ Types'
      /\ mem'[p] = r /\ todo'[p] = s /\ batch'[p] = b
      /\ Range(handshakes'[p]) \subseteq Range(handshakes[p])
      /\ mem'[q] = mem[q] /\ todo'[q] = todo[q] /\ batch'[q] = batch[q] /\ handshakes'[q] = handshakes[q]
  <2>1. q \in Devices \ {p}
    BY <1>1
  <2>2. Types' /\ mem'[p] = r /\ todo'[p] = s /\ batch'[p] = b
        /\ Range(handshakes'[p]) \subseteq Range(handshakes[p])
    BY ReplacedTypes
  <2>3. \A d \in Devices \ {p} : /\ mem'[d] = mem[d] /\ todo'[d] = todo[d] /\ batch'[d] = batch[d]
                                /\ handshakes'[d] = handshakes[d]
    BY ReplacedTypes
  <2> QED  BY <2>1, <2>2, <2>3
<1>4. UNCHANGED <<row, draft, mailbox, posted, got>>
  BY DEF Replaced
<1>5. /\ \A d \in Devices : made[d] \in Nat /\ made'[d] \in Nat /\ made'[d] >= made[d]
      /\ made'[p] >= 1 /\ made'[q] >= 1
  <2>1. made \in [Devices -> Nat] /\ made' \in [Devices -> Nat]
    BY <1>2 DEF Types, Replaced
  <2>2. made'[p] >= made[p] /\ made'[q] = made[q]
    BY <1>q DEF Replaced
  <2> QED  BY <1>1, <1>2, <2>1, <2>2
<1>6. More(made, made') /\ Untouched(q)
  BY <1>3, <1>4, <1>5 DEF More, Untouched
<1>7. Fine(q)' /\ Behind(q)' /\ NextBehind(q)' /\ Saved(q)' /\ Distinct(q)' /\ SendKeys(q)' = SendKeys(q)
  BY <1>1, <1>6, OtherKept
<1>8. r # NoRatchet => Unsent(p, r)
  BY DEF Replaced
<1>9. SendKeys(p)' \subseteq SendKeys(p) \cup {k \in {r.send.key} : r # NoRatchet}
  <2> SUFFICES ASSUME NEW k \in SendKeys(p)'
               PROVE  k \in SendKeys(p) \/ (r # NoRatchet /\ k = r.send.key)
    OBVIOUS
  <2>1. CASE k \in {draft'[p][n].key : n \in DOMAIN draft'[p]}
    BY <1>4, <2>1 DEF SendKeys
  <2>2. CASE Known(p)' /\ k = mem'[p].send.key
    BY <1>3, <2>2 DEF Known
  <2>3. CASE row'[p].ratchet # NoRatchet /\ k = row'[p].ratchet.send.key
    BY <1>4, <2>3 DEF SendKeys
  <2> QED  BY <2>1, <2>2, <2>3 DEF SendKeys
<1>10. ~Sending(p)' /\ ~AtStep(p, "key")' /\ ~AtStep(p, "post")' /\ (AtStep(p, "row")' => Known(p)')
  BY <1>3 DEF Replaced, Sending, AtStep, Idle, Known
<1>11. (Known(q)' <=> Known(q)) /\ Posting(q)' = Posting(q) /\ Opening(q)' = Opening(q)
  BY <1>3 DEF Known, Posting, Opening
<1>12. \A k \in SendKeys(p)', l \in SendKeys(q) : ~SameChain(k, l)
  <2>1. \A k \in SendKeys(p), l \in SendKeys(q) : ~SameChain(k, l)
    BY <1>2, <1>q DEF Safe, Apart
  <2>2. r # NoRatchet => \A l \in SendKeys(q) : ~SameChain(r.send.key, l)
    BY <1>8, <1>q DEF Unsent
  <2> QED  BY <1>9, <2>1, <2>2
<1>13. Safe(p)'
  <2>1. Prepared(p)'
    <3>1. Range(batch'[p]) \cup Range(mailbox'[p]) \cup got'[p] \subseteq DOMAIN draft'[q]
      BY <1>2, <1>3, <1>4, <1>q DEF Safe, Prepared, Replaced
    <3>2. posted'[p] \subseteq DOMAIN draft'[p]
      BY <1>2, <1>4 DEF Safe, Prepared
    <3>3. /\ batch'[p] # << >> => Opening(p)' \/ todo'[p] = << "next message" >>
          /\ Opening(p)' => batch'[p] # << >>
      BY <1>3 DEF Replaced, Opening
    <3> QED  BY <3>1, <3>2, <3>3, <1>q DEF Prepared
  <2>2. Fine(p)'
    <3>1. Known(p)' => FineRatchet(made', p, mem'[p])
      BY <1>3, <1>8 DEF Known, Unsent
    <3>2. row'[p].ratchet # NoRatchet => FineRatchet(made', p, row'[p].ratchet)
      <4>1. row[p].ratchet # NoRatchet =>
              IsRatchet(row[p].ratchet) /\ FineRatchet(made, p, row[p].ratchet)
        BY <1>2 DEF Types, Safe, Fine
      <4> QED  BY <1>4, <1>6, <4>1, FineMore
    <3>3. \A n \in DOMAIN draft'[p] : FineMessage(made', p, draft'[p][n])
      <4>1. \A n \in DOMAIN draft[p] : draft[p][n] \in Messages /\ FineMessage(made, p, draft[p][n])
        BY <1>2 DEF Types, Safe, Fine
      <4> QED  BY <1>4, <1>6, <4>1, FineMore
    <3> QED  BY <3>1, <3>2, <3>3 DEF Fine
  <2>3. FreshHandshakes(p)'
    <3>1. ASSUME NEW e \in Unanswered(p)'
          PROVE  /\ e.owner = q /\ e.nth >= 1 /\ Exists(made', e)
                 /\ \A k \in SendKeys(p)' : k.label = "DRXrecv1" => e \notin k.secret
      <4>1. e \in Range(handshakes'[p]) \cup {mem[d].local : d \in {d \in {q} : Posting(d)}}
        BY <1>3, <1>11, <1>q, <3>1 DEF Unanswered
      <4>2. e \in Unanswered(p)
        BY <1>3, <4>1, <1>q DEF Unanswered
      <4>3. /\ e.owner = q /\ e.nth >= 1 /\ Exists(made, e)
            /\ \A k \in SendKeys(p) : k.label = "DRXrecv1" => e \notin k.secret
        BY <1>2, <4>2, <1>q DEF Safe, FreshHandshakes
      <4>4. e \in PublicKeys
        <5>1. CASE e \in Range(handshakes'[p])
          BY <1>3, <5>1 DEF Types, Range
        <5>2. CASE Posting(q) /\ e = mem[q].local
          <6>1. Known(q) /\ IsRatchet(mem[q])
            BY <1>1, <1>2, <5>2 DEF Safe, FreshHandshakes, Types
          <6> QED  BY <5>2, <6>1, RatchetFields
        <5> QED  BY <4>1, <5>1, <5>2
      <4>5. Exists(made', e)
        BY <1>6, <4>3, <4>4, FineMore
      <4>6. r # NoRatchet => (r.send.key.label = "DRXrecv1" => e \notin r.send.key.secret)
        BY <1>8, <4>1, <1>q DEF Unsent
      <4> QED  BY <1>9, <4>3, <4>5, <4>6
    <3>2. Posting(p)' => Known(p)' /\ mem'[p].local \notin Range(handshakes'[q])
      BY <1>3, <1>q DEF Replaced, Announceable, Posting, Known
    <3> QED  BY <3>1, <3>2, <1>q DEF FreshHandshakes
  <2>4. Behind(p)'
    <3>1. ASSUME NEW n \in posted'[p] PROVE Known(p)' => ~Derivable(draft'[p][n].key, mem'[p].send.key)
      BY <1>3, <1>4, <1>8 DEF Known, Unsent
    <3>2. ASSUME NEW n \in posted'[p]
          PROVE  row'[p].keyed => ~Derivable(draft'[p][n].key, row'[p].ratchet.send.key)
      BY <1>2, <1>4 DEF Safe, Behind
    <3> QED  BY <3>1, <3>2 DEF Behind
  <2>5. NextBehind(p)' /\ Saved(p)'
    BY <1>10 DEF NextBehind, Saved
  <2>6. Distinct(p)'
    BY <1>2, <1>4 DEF Safe, Distinct
  <2>7. Apart(p)'
    BY <1>7, <1>12, <1>q DEF Apart
  <2> QED  BY <2>1, <2>2, <2>3, <2>4, <2>5, <2>6, <2>7 DEF Safe
<1>14. Safe(q)'
  <2>1. Prepared(q)'
    BY <1>1, <1>2, <1>3, <1>4, <1>11 DEF Safe, Prepared
  <2>2. FreshHandshakes(q)'
    <3>1. ASSUME NEW e \in Unanswered(q)'
          PROVE  /\ e.owner = p /\ e.nth >= 1 /\ Exists(made', e)
                 /\ \A k \in SendKeys(q)' : k.label = "DRXrecv1" => e \notin k.secret
      <4>1. CASE e \in Range(handshakes'[q])
        <5>1. e \in Unanswered(q)
          BY <1>3, <4>1 DEF Unanswered
        <5>2. /\ e.owner = p /\ e.nth >= 1 /\ Exists(made, e)
              /\ \A k \in SendKeys(q) : k.label = "DRXrecv1" => e \notin k.secret
          BY <1>1, <1>2, <5>1 DEF Safe, FreshHandshakes
        <5>3. e \in PublicKeys
          BY <1>1, <1>3, <4>1 DEF Types, Range
        <5> QED  BY <1>6, <1>7, <5>2, <5>3, FineMore
      <4>2. CASE Posting(p)' /\ e = mem'[p].local
        <5>1. Announceable(p, r) /\ e = r.local
          BY <1>3, <4>2 DEF Replaced, Posting
        <5> QED  BY <1>7, <5>1, <1>q DEF Announceable
      <4> QED  BY <1>1, <3>1, <4>1, <4>2 DEF Unanswered
    <3>2. Posting(q)' => Known(q)' /\ mem'[q].local \notin Range(handshakes'[p])
      BY <1>1, <1>2, <1>3, <1>11 DEF Safe, FreshHandshakes
    <3> QED  BY <1>1, <3>1, <3>2 DEF FreshHandshakes
  <2>3. Apart(q)'
    BY <1>1, <1>7, <1>12 DEF Apart, SameChain
  <2> QED  BY <1>7, <2>1, <2>2, <2>3 DEF Safe
<1> QED  BY <1>1, <1>3, <1>5, <1>13, <1>14 DEF Inv

-----------------------------------------------------------------------------
(* Where a handler that is about to save will stand.                       *)
LEMMA SavePlace ==
  ASSUME NEW r \in AfterSave
  PROVE  /\ Save \o r \in Places /\ Save \o r # << >> /\ Head(Save \o r) = "row"
         /\ Save \o r \in Saving(Posts) <=> r \in Posts
         /\ Save \o r \in Saving({<< "post" >>}) <=> r = << "post" >>
         /\ Save \o r \in Saving({<< "open" >>}) <=> r = << "open" >>
         /\ Save \o r # << "next message" >>
<1>1. Save \o r # << >> /\ Head(Save \o r) = "row"
  BY RestsAreSeqs, SaveShape
<1>2. Save \o r \in Places
  BY DEF Places, Saving
<1>3. {<< "post" >>} \in SUBSET AfterSave /\ {<< "open" >>} \in SUBSET AfterSave /\ Posts \in SUBSET AfterSave
  BY DEF AfterSave
<1>4. /\ Save \o r \in Saving(Posts) <=> r \in Posts
      /\ Save \o r \in Saving({<< "post" >>}) <=> r \in {<< "post" >>}
      /\ Save \o r \in Saving({<< "open" >>}) <=> r \in {<< "open" >>}
  BY <1>3, SavingUnique
<1>5. Save \o r # << "next message" >>
  <2>1. Head(<< "next message" >>) = "next message"
    BY OneHead
  <2> QED  BY <1>1, <2>1
<1> QED  BY <1>1, <1>2, <1>4, <1>5

LEMMA RestsApart ==
  /\ \A r \in Posts : r # << "post" >> /\ r # << "open" >>
  /\ << "post" >> \notin Posts /\ << "open" >> \notin Posts /\ << "post" >> # << "open" >>
  /\ \A r \in {<< "bundles", "code" >>, << "messages" >>} :
       r \in AfterSave /\ r \notin Posts /\ r # << "post" >> /\ r # << "open" >>
<1>1. /\ Head(<< "post handshake", "advance" >>) = "post handshake"
      /\ Head(<< "post handshake", "code" >>) = "post handshake"
      /\ Head(<< "bundles", "code" >>) = "bundles"
  OBVIOUS
<1>2. /\ Head(<< "post" >>) = "post" /\ Head(<< "open" >>) = "open" /\ Head(<< "messages" >>) = "messages"
  BY OneHead, Zenon
<1>3. \A r \in Posts : Head(r) = "post handshake"
  BY <1>1, Zenon DEF Posts
<1>4. \A r \in Posts : r # << "post" >> /\ r # << "open" >>
  BY <1>2, <1>3
<1>5. << "post" >> # << "open" >>
  BY <1>2
<1>6. \A r \in {<< "bundles", "code" >>, << "messages" >>} : Head(r) \in {"bundles", "messages"}
  BY <1>1, <1>2, Zenon
<1>7. \A r \in {<< "bundles", "code" >>, << "messages" >>} :
        r \notin Posts /\ r # << "post" >> /\ r # << "open" >>
  BY <1>2, <1>3, <1>6
<1>8. \A r \in {<< "bundles", "code" >>, << "messages" >>} : r \in AfterSave
  BY Zenon DEF AfterSave
<1> QED  BY <1>4, <1>5, <1>7, <1>8

(* Outside update_messages there is no batch.                              *)
LEMMA NoBatch ==
  ASSUME Inv, NEW p \in Devices, ~Idle(p),
         Head(todo[p]) \in {"bundles", "advance", "handshakes", "code", "post", "post handshake"}
  PROVE  batch[p] = << >>
<1>1. Prepared(p)
  BY DEF Inv, Safe
<1>2. Head(<< "next message" >>) = "next message" /\ Head(<< "open" >>) = "open"
  BY OneHead, Zenon
<1>3. << "open" >> \in AfterSave
  BY DEF AfterSave
<1>4. Head(<< "key" >> \o << "open" >>) = "key" /\ Head(Save \o << "open" >>) = "row"
  BY <1>3, RestsAreSeqs, SaveShape
<1>5. ~Opening(p)
  BY <1>2, <1>4 DEF Opening, Saving
<1> QED  BY <1>1, <1>2, <1>5 DEF Prepared

LEMMA IsSome ==
  ASSUME NEW r, IsRatchet(r)
  PROVE  r # NoRatchet
<1>1. DOMAIN r = {"due", "local", "remote", "send", "recv", "skipped"}
  BY RatchetFields
<1> QED  BY <1>1 DEF NoRatchet

LEMMA PublicKeyFacts ==
  ASSUME NEW p \in Devices, NEW n \in Nat
  PROVE  /\ PublicKey(p, n) \in PublicKeys /\ PublicKey(p, n).owner = p /\ PublicKey(p, n).nth = n
         /\ Signed(p) \in PublicKeys /\ Signed(p).owner = p /\ Signed(p).nth = 0
BY DEF PublicKey, PublicKeys, Signed

(* X3DH with a fresh ephemeral key: the chain is new.                      *)
LEMMA CreateInv ==
  ASSUME Inv, NEW p \in Devices, CreateInitiator(p)
  PROVE  Inv'
<1> DEFINE q == Peer(p)
           fresh == PublicKey(p, made[p])
           r == InitiatorRatchet(fresh, Signed(q))
<1>1. /\ q \in Devices /\ q # p /\ Peer(q) = p /\ \A d \in Devices : d = p \/ d = q
  BY PeerFacts
<1>q. q = Peer(p)
  OBVIOUS
<1> HIDE DEF q
<1>2. /\ Types /\ Safe(p) /\ Safe(q) /\ made[p] >= 1 /\ made[q] >= 1
      /\ made[p] \in Nat /\ made[q] \in Nat /\ made \in [Devices -> Nat]
  BY <1>1 DEF Inv, Types
<1>3. /\ ~Idle(p) /\ todo[p] # << >> /\ Head(todo[p]) = "bundles"
      /\ mem' = [mem EXCEPT ![p] = r] /\ made' = [made EXCEPT ![p] = @ + 1]
      /\ GoOn(p, AfterCreate)
      /\ UNCHANGED <<row, draft, batch, key, handshakes, mailbox, posted, got, mishaps>>
  BY <1>q DEF CreateInitiator, AtStep, Idle, server
<1>4. /\ fresh \in PublicKeys /\ fresh.owner = p /\ fresh.nth = made[p] /\ ~Exists(made, fresh)
      /\ Signed(q) \in PublicKeys /\ Signed(q).owner = q /\ Signed(q).nth = 0
  <2>1. /\ fresh \in PublicKeys /\ fresh.owner = p /\ fresh.nth = made[p]
        /\ Signed(q) \in PublicKeys /\ Signed(q).owner = q /\ Signed(q).nth = 0
    BY <1>1, <1>2, PublicKeyFacts
  <2> QED  BY <1>2, <2>1 DEF Exists
<1> HIDE DEF fresh
<1>5. /\ IsRatchet(r) /\ ~r.due /\ r.local = fresh /\ r.remote = Signed(q)
      /\ r.send.key = [secret |-> {fresh, Signed(q)}, label |-> "DRXsend1", step |-> 0]
  <2> DEFINE b == FALSE
  <2>1. b \in BOOLEAN /\ (IF b THEN "DRXrecv1" ELSE "DRXsend1") = "DRXsend1"
    OBVIOUS
  <2> DEFINE x == Signed(q)
  <2>0. fresh \in PublicKeys /\ x \in PublicKeys
    BY <1>4
  <2>2. r = InitialRatchet(fresh, x, b)
    BY DEF InitiatorRatchet
  <2> HIDE DEF r, b, x
  <2>3. /\ IsRatchet(r)
        /\ ~r.due
        /\ r.local = fresh
        /\ r.remote = x
        /\ r.send.key = [secret |-> {fresh, x},
                         label |-> IF b THEN "DRXrecv1" ELSE "DRXsend1", step |-> 0]
    BY <2>0, <2>1, <2>2, InitialType
  <2> QED  BY <2>1, <2>3 DEF x
<1> HIDE DEF r
<1>6. /\ made' \in [Devices -> Nat] /\ made'[p] = made[p] + 1 /\ made'[q] = made[q]
      /\ Exists(made', fresh) /\ Exists(made', Signed(q))
  <2>1. made' \in [Devices -> Nat] /\ made'[p] = made[p] + 1 /\ made'[q] = made[q]
    BY <1>1, <1>2, <1>3
  <2> QED  BY <1>2, <1>4, <2>1 DEF Exists
<1>7. PICK s \in Posts : todo' = [todo EXCEPT ![p] = Save \o s]
  <2>1. todo[p] \in Places
    BY <1>2 DEF Types
  <2>2. PICK s \in Posts : AfterCreate \o Tail(todo[p]) = Save \o s
    BY <1>3, <2>1, OnFromSave
  <2> QED  BY <1>2, <1>3, <2>2 DEF GoOn, Types
<1>8. \A d \in Devices : \A k \in SendKeys(d) : fresh \notin k.secret
  BY <1>4, SendKeysExist
<1>9. r # NoRatchet
  BY <1>5, IsSome
<1>10. Unsent(p, r)
  <2>1. FineRatchet(made', p, r)
    BY <1>4, <1>5, <1>6, <1>q DEF FineRatchet, OwnChain
  <2>2. ASSUME NEW n \in posted[p] PROVE ~Derivable(draft[p][n].key, r.send.key)
    <3>1. draft[p][n].key \in SendKeys(p)
      BY <1>2 DEF Safe, Prepared, SendKeys
    <3> QED  BY <1>5, <1>8, <3>1 DEF Derivable
  <2>3. ASSUME NEW l \in SendKeys(q) PROVE ~SameChain(r.send.key, l)
    BY <1>1, <1>5, <1>8 DEF SameChain
  <2>4. r.send.key.label # "DRXrecv1"
    BY <1>5
  <2> QED  BY <1>5, <2>1, <2>2, <2>3, <2>4, <1>q DEF Unsent
<1>11. Announceable(p, r)
  <2>1. fresh \notin Range(handshakes[q])
    <3>1. \A e \in Range(handshakes[q]) : Exists(made, e)
      BY <1>2 DEF Safe, FreshHandshakes, Unanswered
    <3> QED  BY <1>4, <3>1
  <2> QED  BY <1>1, <1>2, <1>4, <1>5, <1>6, <1>8, <1>9, <2>1, <1>q DEF Announceable
<1>12. Replaced(p, r, Save \o s, << >>)
  <2>1. s \in AfterSave
    BY DEF AfterSave
  <2>2. /\ Save \o s \in Places /\ Save \o s # << >> /\ Head(Save \o s) = "row"
        /\ Save \o s \notin Saving({<< "post" >>}) /\ Save \o s \notin Saving({<< "open" >>})
    BY <2>1, SavePlace, RestsApart
  <2>3. batch[p] = << >>
    BY <1>3, NoBatch
  <2>4. /\ batch = [batch EXCEPT ![p] = << >>] /\ handshakes = [handshakes EXCEPT ![p] = handshakes[p]]
        /\ key \in [Devices -> MessageKeys \cup {NoKey}] /\ mishaps \in 0 .. MaxMishaps
    BY <1>2, <2>3 DEF Types
  <2>5. << >> \in Seq(Nat) /\ Range(<< >>) \subseteq Range(batch[p])
    BY RangeEmpty
  <2>6. made' \in [Devices -> Nat] /\ made'[p] >= made[p] /\ made'[Peer(p)] = made[Peer(p)]
    BY <1>2, <1>6, <1>q
  <2> QED  BY <1>3, <1>7, <1>9, <1>10, <1>11, <2>2, <2>4, <2>5, <2>6 DEF Replaced
<1> QED  BY <1>12, ReplacedInv

(* X3DH with a handshake that was not answered before: the chain is new at *)
(* this device, and the other device never sends on it.                    *)
LEMMA AnswerInv ==
  ASSUME Inv, NEW p \in Devices, AnswerHandshake(p)
  PROVE  Inv'
<1> DEFINE q == Peer(p)
           e == Head(handshakes[p])
           r == RecipientRatchet(Signed(p), e)
<1>1. /\ q \in Devices /\ q # p /\ Peer(q) = p /\ \A d \in Devices : d = p \/ d = q
  BY PeerFacts
<1>q. q = Peer(p)
  OBVIOUS
<1> HIDE DEF q
<1>2. /\ Types /\ Safe(p) /\ Safe(q) /\ made[p] >= 1 /\ made[q] >= 1
      /\ made[p] \in Nat /\ made[q] \in Nat /\ made \in [Devices -> Nat]
  BY <1>1 DEF Inv, Types
<1>3. /\ ~Idle(p) /\ todo[p] # << >> /\ Head(todo[p]) = "handshakes" /\ ~Known(p)
      /\ handshakes[p] # << >>
      /\ mem' = [mem EXCEPT ![p] = r] /\ handshakes' = [handshakes EXCEPT ![p] = << >>]
      /\ GoOn(p, Save)
      /\ UNCHANGED <<row, made, draft, batch, key, mailbox, posted, got, mishaps>>
  BY DEF AnswerHandshake, AtStep, Idle
<1>4. /\ e \in PublicKeys /\ e \in Range(handshakes[p]) /\ e.owner = q /\ e.nth >= 1 /\ Exists(made, e)
      /\ \A k \in SendKeys(p) : k.label = "DRXrecv1" => e \notin k.secret
  <2>1. handshakes[p] \in Seq(PublicKeys)
    BY <1>2 DEF Types
  <2>2. e \in Range(handshakes[p]) /\ e \in PublicKeys
    BY <1>3, <2>1, RangeTail
  <2> HIDE DEF e
  <2>3. e \in Unanswered(p)
    BY <2>2 DEF Unanswered
  <2> QED  BY <1>2, <2>2, <2>3, <1>q DEF Safe, FreshHandshakes
<1>5. /\ Signed(p) \in PublicKeys /\ Signed(p).owner = p /\ Signed(p).nth = 0 /\ Exists(made, Signed(p))
      /\ Signed(q).owner = q /\ Signed(q).nth = 0
  <2>1. /\ Signed(p) \in PublicKeys /\ Signed(p).owner = p /\ Signed(p).nth = 0
        /\ Signed(q).owner = q /\ Signed(q).nth = 0
    BY <1>1, PublicKeyFacts
  <2> QED  BY <1>2, <2>1 DEF Exists
<1> HIDE DEF e
<1>6. /\ IsRatchet(r) /\ ~r.due /\ r.local = Signed(p) /\ r.remote = e
      /\ r.send.key = [secret |-> {Signed(p), e}, label |-> "DRXrecv1", step |-> 0]
  <2> DEFINE b == TRUE
  <2>1. b \in BOOLEAN /\ (IF b THEN "DRXrecv1" ELSE "DRXsend1") = "DRXrecv1"
    OBVIOUS
  <2> DEFINE x == Signed(p)
  <2>0. e \in PublicKeys /\ x \in PublicKeys
    BY <1>4, <1>5
  <2>2. r = InitialRatchet(x, e, b)
    BY DEF RecipientRatchet
  <2> HIDE DEF r, b, x
  <2>3. /\ IsRatchet(r)
        /\ ~r.due
        /\ r.local = x
        /\ r.remote = e
        /\ r.send.key = [secret |-> {x, e},
                         label |-> IF b THEN "DRXrecv1" ELSE "DRXsend1", step |-> 0]
    BY <2>0, <2>1, <2>2, InitialType
  <2> QED  BY <2>1, <2>3 DEF x
<1> HIDE DEF r
<1>7. PICK s \in {<< "bundles", "code" >>, << "messages" >>} : todo' = [todo EXCEPT ![p] = Save \o s]
  <2>1. todo[p] \in Places
    BY <1>2 DEF Types
  <2>2. PICK s \in {<< "bundles", "code" >>, << "messages" >>} : Save \o Tail(todo[p]) = Save \o s
    BY <1>3, <2>1, OnFromSave
  <2> QED  BY <1>2, <1>3, <2>2 DEF GoOn, Types
<1>8. r # NoRatchet
  BY <1>6, IsSome
<1>9. handshakes'[p] = << >>
  BY <1>2, <1>3 DEF Types
<1>10. Unsent(p, r)
  <2>1. FineRatchet(made', p, r)
    <3>1. Signed(q) # Signed(p) /\ Signed(q) # e
      BY <1>1, <1>4, <1>5
    <3>2. OwnChain(p, r.send.key)
      BY <1>6, <3>1, <1>q DEF OwnChain
    <3>3. Exists(made', Signed(p)) /\ Exists(made', e)
      BY <1>3, <1>4, <1>5
    <3> QED  BY <1>4, <1>5, <1>6, <3>2, <3>3, <1>q DEF FineRatchet
  <2>2. ASSUME NEW n \in posted[p] PROVE ~Derivable(draft[p][n].key, r.send.key)
    <3>1. draft[p][n].key \in SendKeys(p)
      BY <1>2 DEF Safe, Prepared, SendKeys
    <3> QED  BY <1>4, <1>6, <3>1 DEF Derivable
  <2>3. ASSUME NEW l \in SendKeys(q) PROVE ~SameChain(r.send.key, l)
    <3>1. OwnChain(q, l)
      BY <1>1, SendKeysExist
    <3> QED  BY <1>1, <1>6, <3>1 DEF SameChain, OwnChain
  <2>4. ASSUME Posting(q) PROVE mem[q].local \notin {Signed(p), e}
    <3>1. mem[q].local \notin Range(handshakes[p]) /\ mem[q].local.owner = q
      BY <1>1, <1>2, <2>4 DEF Safe, FreshHandshakes, Fine, FineRatchet
    <3> QED  BY <1>1, <1>4, <1>5, <3>1
  <2>5. ASSUME NEW x \in Range(handshakes'[p]) \cup {mem[d].local : d \in {d \in {Peer(p)} : Posting(d)}}
        PROVE  x \notin r.send.key.secret
    BY <1>6, <1>9, <2>4, <1>q, RangeEmpty
  <2> QED  BY <1>6, <2>1, <2>2, <2>3, <2>5, <1>q DEF Unsent
<1>11. Replaced(p, r, Save \o s, << >>)
  <2>1. s \in AfterSave /\ s \notin Posts /\ s # << "post" >> /\ s # << "open" >>
    BY RestsApart
  <2>2. /\ Save \o s \in Places /\ Save \o s # << >> /\ Head(Save \o s) = "row"
        /\ Save \o s \notin Saving({<< "post" >>}) /\ Save \o s \notin Saving({<< "open" >>})
        /\ Save \o s \notin Saving(Posts)
    BY <2>1, SavePlace
  <2>3. batch[p] = << >>
    BY <1>3, NoBatch
  <2>4. /\ batch = [batch EXCEPT ![p] = << >>]
        /\ key \in [Devices -> MessageKeys \cup {NoKey}] /\ mishaps \in 0 .. MaxMishaps
    BY <1>2, <2>3 DEF Types
  <2>5. << >> \in Seq(Nat) /\ Range(<< >>) \subseteq Range(batch[p])
    BY RangeEmpty
  <2>6. made' \in [Devices -> Nat] /\ made'[p] >= made[p] /\ made'[Peer(p)] = made[Peer(p)]
    BY <1>2, <1>3
  <2> QED  BY <1>3, <1>7, <1>8, <1>10, <2>2, <2>4, <2>5, <2>6 DEF Replaced
<1> QED  BY <1>11, ReplacedInv

(* advance_receive leaves the sending half as it is, or starts a chain of  *)
(* a fresh key pair.  The ratchet it leaves stays in memory, or the saved  *)
(* one is loaded, if it throws.                                            *)
LEMMA TakeFacts ==
  ASSUME Inv, NEW p \in Devices, Known(p), batch[p] # << >>,
         made' = [made EXCEPT ![p] = IF NewDh(mem[p], Current(p).header) THEN @ + 1 ELSE @],
         UNCHANGED handshakes
  PROVE  LET a == AdvanceReceive(mem[p], Current(p).header, PublicKey(p, made[p]))
         IN  /\ a.key \in MessageKeys \cup {NoKey} /\ Unsent(p, a.ratchet)
             /\ made' \in [Devices -> Nat] /\ made'[p] >= made[p] /\ made'[Peer(p)] = made[Peer(p)]
             /\ Loaded(p) = NoRatchet \/ Unsent(p, Loaded(p))
<1> DEFINE q == Peer(p)
           h == Current(p).header
           fresh == PublicKey(p, made[p])
           a == AdvanceReceive(mem[p], h, fresh)
<1>1. /\ q \in Devices /\ q # p /\ Peer(q) = p /\ \A d \in Devices : d = p \/ d = q
  BY PeerFacts
<1>q. q = Peer(p)
  OBVIOUS
<1> HIDE DEF q
<1>2. /\ Types /\ Safe(p) /\ Safe(q) /\ made[p] >= 1 /\ made[q] >= 1
      /\ made[p] \in Nat /\ made[q] \in Nat /\ made \in [Devices -> Nat]
  BY <1>1 DEF Inv, Types
<1>3. IsRatchet(mem[p]) /\ FineRatchet(made, p, mem[p])
  BY <1>2 DEF Types, Safe, Fine
<1>4. h \in Headers /\ h.dh.owner = q /\ h.dh \in PublicKeys /\ Exists(made, h.dh)
  <2>1. batch[p] \in Seq(Nat)
    BY <1>2 DEF Types
  <2>2. Head(batch[p]) \in Range(batch[p])
    BY <2>1, RangeTail
  <2>3. Head(batch[p]) \in DOMAIN draft[q]
    BY <1>2, <2>2, <1>q DEF Safe, Prepared
  <2>4. draft[q][Head(batch[p])] \in Messages /\ FineMessage(made, q, draft[q][Head(batch[p])])
    BY <1>1, <1>2, <2>3 DEF Types, Safe, Fine
  <2>5. h = draft[q][Head(batch[p])].header
    BY <1>q DEF Current
  <2> HIDE DEF h
  <2> QED  BY <2>4, <2>5 DEF FineMessage, Messages, Headers
<1> HIDE DEF h
<1>5. /\ fresh \in PublicKeys /\ fresh.owner = p /\ fresh.nth = made[p] /\ ~Exists(made, fresh)
  <2>1. fresh \in PublicKeys /\ fresh.owner = p /\ fresh.nth = made[p]
    BY <1>2, PublicKeyFacts
  <2> QED  BY <1>2, <2>1 DEF Exists
<1> HIDE DEF fresh
<1>6. /\ IsRatchet(a.ratchet) /\ a.key \in MessageKeys \cup {NoKey}
      /\ ~NewDh(mem[p], h) =>
           /\ a.ratchet.due = mem[p].due /\ a.ratchet.local = mem[p].local
           /\ a.ratchet.remote = mem[p].remote /\ a.ratchet.send = mem[p].send
      /\ NewDh(mem[p], h) =>
           /\ a.ratchet.local = fresh /\ a.ratchet.remote = h.dh
           /\ a.ratchet.send = DhChain(fresh, h.dh)
  <2> DEFINE m == mem[p]
  <2>1. IsRatchet(m)
    BY <1>3
  <2> HIDE DEF m
  <2>2. a = AdvanceReceive(m, h, fresh)
    BY DEF m
  <2> HIDE DEF a
  <2> DEFINE t == AdvanceReceive(m, h, fresh).ratchet
  <2>3. h \in Headers /\ fresh \in PublicKeys
    BY <1>4, <1>5
  <2>4. IsRatchet(t) /\ AdvanceReceive(m, h, fresh).key \in MessageKeys \cup {NoKey}
    BY <2>1, <2>3, ReceiveTypes
  <2>5. ASSUME ~NewDh(m, h) PROVE t.due = m.due /\ t.local = m.local /\ t.remote = m.remote /\ t.send = m.send
    BY <2>1, <2>3, <2>5, ReceiveSame
  <2>6. ASSUME NewDh(m, h) PROVE t.local = fresh /\ t.remote = h.dh /\ t.send = DhChain(fresh, h.dh)
    BY <2>1, <2>3, <2>6, ReceiveNew
  <2> QED  BY <2>2, <2>4, <2>5, <2>6 DEF m
<1> HIDE DEF a
<1>7. /\ made' \in [Devices -> Nat] /\ made'[p] = (IF NewDh(mem[p], h) THEN made[p] + 1 ELSE made[p])
      /\ made'[q] = made[q] /\ made'[p] >= made[p]
  BY <1>1, <1>2 DEF h
<1>8. More(made, made')
  <2>1. \A d \in Devices : made[d] \in Nat /\ made'[d] \in Nat
    BY <1>2, <1>7
  <2>2. \A d \in Devices : made'[d] >= made[d]
    BY <1>1, <1>2, <1>7
  <2> QED  BY <2>1, <2>2 DEF More
<1>9. \A n \in posted[p] : draft[p][n].key \in SendKeys(p)
  BY <1>2 DEF Safe, Prepared, SendKeys
<1>10. \A e \in Range(handshakes'[p]) \cup {mem[d].local : d \in {d \in {q} : Posting(d)}} :
         e \in Unanswered(p)
  BY <1>q DEF Unanswered
<1>11. ASSUME NEW k \in SendKeys(p)
       PROVE  /\ \A l \in SendKeys(q) : ~SameChain(k, l)
              /\ \A e \in Unanswered(p) : k.label = "DRXrecv1" => e \notin k.secret
  BY <1>2, <1>q DEF Safe, Apart, FreshHandshakes
<1>12. ASSUME ~NewDh(mem[p], h) PROVE Unsent(p, a.ratchet)
  <2>1. a.ratchet.send = mem[p].send /\ FineRatchet(made, p, a.ratchet)
    BY <1>3, <1>6, <1>12 DEF FineRatchet
  <2>2. FineRatchet(made', p, a.ratchet)
    BY <1>6, <1>8, <2>1, FineMore
  <2>3. a.ratchet.send.key \in SendKeys(p)
    BY <2>1 DEF SendKeys
  <2>4. \A n \in posted[p] : ~Derivable(draft[p][n].key, a.ratchet.send.key)
    BY <1>2, <2>1 DEF Safe, Behind
  <2> QED  BY <1>6, <1>10, <1>11, <2>2, <2>3, <2>4, <1>q DEF Unsent
<1>13. ASSUME NewDh(mem[p], h) PROVE Unsent(p, a.ratchet)
  <2>1. /\ a.ratchet.send.key = [secret |-> {fresh, h.dh}, label |-> "DHRatchet", step |-> 0]
        /\ a.ratchet.send.key = DhChain(fresh, h.dh).key
    BY <1>4, <1>5, <1>6, <1>13, DhChainType
  <2>2. Exists(made', fresh) /\ Exists(made', h.dh)
    <3>1. Exists(made', h.dh)
      BY <1>4, <1>8, FineMore
    <3> QED  BY <1>2, <1>5, <1>7, <1>13, <3>1 DEF Exists
  <2>3. FineRatchet(made', p, a.ratchet)
    BY <1>4, <1>5, <1>6, <1>13, <2>1, <2>2, <1>q DEF FineRatchet, OwnChain
  <2>4. \A d \in Devices : \A k \in SendKeys(d) : fresh \notin k.secret
    BY <1>5, SendKeysExist
  <2>5. \A n \in posted[p] : ~Derivable(draft[p][n].key, a.ratchet.send.key)
    BY <1>9, <2>1, <2>4 DEF Derivable
  <2>6. \A l \in SendKeys(q) : ~SameChain(a.ratchet.send.key, l)
    BY <1>1, <2>1, <2>4 DEF SameChain
  <2>7. a.ratchet.send.key.label # "DRXrecv1"
    BY <2>1
  <2> QED  BY <1>6, <2>3, <2>5, <2>6, <2>7, <1>q DEF Unsent
<1>14. ASSUME Loaded(p) # NoRatchet PROVE Unsent(p, Loaded(p))
  <2>1. Loaded(p) = row[p].ratchet /\ row[p].keyed /\ row[p].ratchet # NoRatchet
    BY <1>14 DEF Loaded
  <2>2. IsRatchet(row[p].ratchet) /\ FineRatchet(made, p, row[p].ratchet)
    BY <1>2, <2>1 DEF Types, Safe, Fine
  <2>3. FineRatchet(made', p, row[p].ratchet)
    BY <1>8, <2>2, FineMore
  <2>4. row[p].ratchet.send.key \in SendKeys(p)
    BY <2>1 DEF SendKeys
  <2>5. \A n \in posted[p] : ~Derivable(draft[p][n].key, row[p].ratchet.send.key)
    BY <1>2, <2>1 DEF Safe, Behind
  <2> QED  BY <1>10, <1>11, <2>1, <2>2, <2>3, <2>4, <2>5, <1>q DEF Unsent
<1> QED  BY <1>6, <1>7, <1>12, <1>13, <1>14, <1>q DEF a, h, fresh

LEMMA TakeKeyInv ==
  ASSUME Inv, NEW p \in Devices, TakeKey(p)
  PROVE  Inv'
<1> DEFINE h == Current(p).header
           a == AdvanceReceive(mem[p], h, PublicKey(p, made[p]))
<1>1. /\ ~Idle(p) /\ todo[p] # << >> /\ Head(todo[p]) = "next message" /\ batch[p] # << >> /\ Known(p)
      /\ made' = [made EXCEPT ![p] = IF NewDh(mem[p], h) THEN @ + 1 ELSE @]
      /\ UNCHANGED <<row, draft, handshakes, mailbox, posted, got, mishaps>>
  BY DEF TakeKey, AtStep, Idle, server
<1>2. \/ /\ mem' = [mem EXCEPT ![p] = a.ratchet] /\ key' = [key EXCEPT ![p] = a.key]
         /\ GoOn(p, AfterTake) /\ UNCHANGED batch
      \/ Throw(p, a.ratchet) /\ UNCHANGED key
  BY DEF TakeKey
<1>3. /\ a.key \in MessageKeys \cup {NoKey} /\ Unsent(p, a.ratchet)
      /\ made' \in [Devices -> Nat] /\ made'[p] >= made[p] /\ made'[Peer(p)] = made[Peer(p)]
      /\ Loaded(p) = NoRatchet \/ Unsent(p, Loaded(p))
  BY <1>1, TakeFacts
<1>4. Types /\ Safe(p)
  BY DEF Inv
<1> HIDE DEF a, h
<1>5. a.ratchet # NoRatchet
  BY <1>3, IsSome DEF Unsent
<1>6. /\ handshakes = [handshakes EXCEPT ![p] = handshakes[p]] /\ mishaps \in 0 .. MaxMishaps
      /\ key \in [Devices -> MessageKeys \cup {NoKey}]
      /\ batch = [batch EXCEPT ![p] = batch[p]] /\ batch[p] \in Seq(Nat) /\ << >> \in Seq(Nat)
  BY <1>4 DEF Types
<1>7. CASE /\ mem' = [mem EXCEPT ![p] = a.ratchet] /\ key' = [key EXCEPT ![p] = a.key]
           /\ GoOn(p, AfterTake) /\ UNCHANGED batch
  <2>1. << "open" >> \in AfterSave
    BY DEF AfterSave
  <2>2. /\ Save \o << "open" >> \in Places /\ Save \o << "open" >> # << >>
        /\ Head(Save \o << "open" >>) = "row"
        /\ Save \o << "open" >> \notin Saving({<< "post" >>})
        /\ Save \o << "open" >> \in Saving({<< "open" >>})
        /\ Save \o << "open" >> \notin Saving(Posts)
    BY <2>1, SavePlace, RestsApart
  <2>3. todo' = [todo EXCEPT ![p] = Save \o << "open" >>]
    <3>1. todo[p] \in Places /\ todo \in [Devices -> Places]
      BY <1>4 DEF Types
    <3>2. AfterTake \o Tail(todo[p]) = Save \o << "open" >>
      BY <1>1, <3>1, OnFromSave
    <3> QED  BY <1>7, <3>1, <3>2 DEF GoOn
  <2>4. key' \in [Devices -> MessageKeys \cup {NoKey}]
    BY <1>3, <1>6, <1>7
  <2>5. Replaced(p, a.ratchet, Save \o << "open" >>, batch[p])
    BY <1>1, <1>3, <1>5, <1>6, <1>7, <2>2, <2>3, <2>4 DEF Replaced
  <2> QED  BY <2>5, ReplacedInv
<1>8. CASE Throw(p, a.ratchet) /\ UNCHANGED key
  <2>1. /\ todo' = [todo EXCEPT ![p] = << >>] /\ batch' = [batch EXCEPT ![p] = << >>]
        /\ mem' = [mem EXCEPT ![p] = a.ratchet] \/ mem' = [mem EXCEPT ![p] = Loaded(p)]
    BY <1>8 DEF Throw
  <2>2. << >> \in Calm
    BY DEF Calm
  <2>3. /\ << >> \in Places /\ << >> \notin Saving({<< "post" >>}) /\ << >> \notin Saving(Posts)
        /\ << >> \notin Saving({<< "open" >>})
    BY <2>2, CalmFacts
  <2>4. Range(<< >>) \subseteq Range(batch[p])
    BY RangeEmpty
  <2>5. ASSUME NEW r, r = NoRatchet \/ Unsent(p, r), mem' = [mem EXCEPT ![p] = r]
        PROVE  Replaced(p, r, << >>, << >>)
    BY <1>1, <1>3, <1>6, <1>8, <2>1, <2>3, <2>4, <2>5 DEF Replaced
  <2>6. Replaced(p, a.ratchet, << >>, << >>) \/ Replaced(p, Loaded(p), << >>, << >>)
    BY <1>3, <2>1, <2>5
  <2> QED  BY <2>6, ReplacedInv
<1> QED  BY <1>2, <1>7, <1>8

(* A step of a chain: the key before it is not on the chain any more. *)
LEMMA StepOn ==
  ASSUME NEW k \in MessageKeys, NEW l, l = [k EXCEPT !.step = @ + 1]
  PROVE  /\ l.secret = k.secret /\ l.label = k.label /\ ~Derivable(k, l)
         /\ \A x \in MessageKeys : ~Derivable(x, k) => ~Derivable(x, l) /\ x # k
<1>1. k = [secret |-> k.secret, label |-> k.label, step |-> k.step] /\ k.step \in Nat
  BY DEF MessageKeys
<1>2. l.secret = k.secret /\ l.label = k.label /\ l.step = k.step + 1
  BY <1>1
<1>3. \A x \in MessageKeys : x.step \in Nat
  BY DEF MessageKeys
<1> QED  BY <1>1, <1>2, <1>3 DEF Derivable

(* A message is prepared under the key the chain stands at, and the chain  *)
(* moves on.                                                               *)
LEMMA AdvanceInv ==
  ASSUME Inv, NEW p \in Devices, Advance(p)
  PROVE  Inv'
<1> DEFINE q == Peer(p)
           a == AdvanceSend(mem[p])
           k == mem[p].send.key
           n == Len(draft[p])
           msg == [header |-> a.header, key |-> a.key]
<1>1. /\ q \in Devices /\ q # p /\ Peer(q) = p /\ \A d \in Devices : d = p \/ d = q
  BY PeerFacts
<1>q. q = Peer(p)
  OBVIOUS
<1> HIDE DEF q
<1>2. Types /\ Safe(p) /\ Safe(q) /\ made[p] >= 1 /\ made[q] >= 1
  BY <1>1 DEF Inv
<1>3. /\ ~Idle(p) /\ todo[p] # << >> /\ Head(todo[p]) = "advance" /\ Known(p)
      /\ mem' = [mem EXCEPT ![p] = a.ratchet]
      /\ draft' = [draft EXCEPT ![p] = Append(@, msg)]
      /\ GoOn(p, AfterAdvance)
      /\ UNCHANGED <<row, made, batch, key, handshakes, mailbox, posted, got, mishaps>>
  BY DEF Advance, AtStep, Idle, server
<1>4. IsRatchet(mem[p]) /\ FineRatchet(made, p, mem[p])
  BY <1>2, <1>3 DEF Types, Safe, Fine
<1>5. k \in MessageKeys /\ mem[p].local \in PublicKeys /\ mem[p].remote \in PublicKeys
  BY <1>4, RatchetFields DEF Chains
<1>6. /\ IsRatchet(a.ratchet)
      /\ a.header \in Headers
      /\ a.header.dh = mem[p].local
      /\ a.key = k
      /\ a.ratchet.due = FALSE
      /\ a.ratchet.local = mem[p].local
      /\ a.ratchet.remote = mem[p].remote
      /\ a.ratchet.send.key = [k EXCEPT !.step = @ + 1]
  <2>1. a.key = (IF mem[p].due THEN DhChain(mem[p].local, mem[p].remote) ELSE mem[p].send).key
    BY <1>4, SendSplit
  <2>2. a.key = k
    <3>1. CASE mem[p].due
      BY <1>4, <2>1, <3>1 DEF FineRatchet
    <3>2. CASE ~mem[p].due
      BY <2>1, <3>2
    <3> QED  BY <3>1, <3>2
  <2> DEFINE m == mem[p]
  <2>3. IsRatchet(m) /\ a = AdvanceSend(m)
    BY <1>4
  <2> HIDE DEF a, m
  <2>4. IsRatchet(a.ratchet) /\ a.header \in Headers /\ a.header.dh = m.local
    BY <2>3, SendSplit
  <2>5. a.ratchet.due = FALSE
    BY <2>3, SendSplit
  <2>6. a.ratchet.local = m.local /\ a.ratchet.remote = m.remote
    BY <2>3, SendSplit
  <2>7. a.ratchet.send.key = [a.key EXCEPT !.step = @ + 1]
    BY <2>3, SendSplit
  <2> QED  BY <2>2, <2>4, <2>5, <2>6, <2>7 DEF m
<1> HIDE DEF a
<1>7. msg \in Messages /\ msg.key = k /\ msg.header.dh = mem[p].local
  BY <1>5, <1>6 DEF Messages
<1> HIDE DEF msg
<1> DEFINE l == a.ratchet.send.key
<1>8. /\ l.secret = k.secret /\ l.label = k.label /\ ~Derivable(k, l)
      /\ \A x \in MessageKeys : ~Derivable(x, k) => ~Derivable(x, l) /\ x # k
  BY <1>5, <1>6, StepOn
<1> HIDE DEF l
<1>9. draft[p] \in Seq(Messages) /\ n \in Nat /\ DOMAIN draft[p] = 1 .. n
  BY <1>2 DEF Types
<1>10. /\ draft' \in [Devices -> Seq(Messages)] /\ draft'[q] = draft[q]
       /\ draft'[p] = Append(draft[p], msg)
  <2>1. draft \in [Devices -> Seq(Messages)]
    BY <1>2 DEF Types
  <2>2. Append(draft[p], msg) \in Seq(Messages)
    BY <1>7, <1>9
  <2> QED  BY <1>1, <1>3, <2>1, <2>2
<1>11. /\ Len(draft'[p]) = n + 1 /\ DOMAIN draft'[p] = 1 .. n + 1 /\ draft'[p] # << >>
       /\ draft'[p][n + 1] = msg /\ \A i \in 1 .. n : draft'[p][i] = draft[p][i]
  BY <1>7, <1>9, <1>10
<1>12. posted[p] \subseteq 1 .. n /\ \A i \in posted[p] : draft[p][i].key \in MessageKeys
  <2>1. posted[p] \subseteq 1 .. n
    BY <1>2, <1>9 DEF Safe, Prepared
  <2>2. \A i \in 1 .. n : draft[p][i] \in Messages
    BY <1>9
  <2> QED  BY <2>1, <2>2 DEF Messages
<1> HIDE DEF n
<1>13. /\ mem' = [d \in Devices |-> mem'[d]] /\ mem'[p] = a.ratchet /\ mem'[q] = mem[q]
  BY <1>1, <1>2, <1>3 DEF Types
<1>14. Known(p)' /\ (Known(q)' <=> Known(q))
  BY <1>6, <1>13, IsSome DEF Known
<1>15. /\ todo' \in [Devices -> Places] /\ todo'[q] = todo[q]
       /\ ~Posting(p)' /\ ~Opening(p)' /\ ~AtStep(p, "key")' /\ ~AtStep(p, "post")'
  <2>1. todo[p] \in Places /\ todo \in [Devices -> Places] /\ << "post" >> \in AfterSave
    BY <1>2 DEF Types, AfterSave
  <2>2. /\ Save \o << "post" >> \in Places /\ Head(Save \o << "post" >>) = "row"
        /\ Save \o << "post" >> \notin Saving({<< "open" >>})
        /\ Save \o << "post" >> \notin Saving(Posts)
    BY <2>1, SavePlace, RestsApart
  <2>3. AfterAdvance \o Tail(todo[p]) = Save \o << "post" >>
    BY <1>3, <2>1, OnFromSave
  <2>4. todo' = [todo EXCEPT ![p] = Save \o << "post" >>]
    BY <1>3, <2>1, <2>3 DEF GoOn
  <2>5. todo' \in [Devices -> Places] /\ todo'[q] = todo[q] /\ todo'[p] = Save \o << "post" >>
    BY <1>1, <2>1, <2>2, <2>4
  <2> QED  BY <2>2, <2>5 DEF Posting, Opening, AtStep
<1>16. batch[p] = << >>
  BY <1>3, NoBatch
<1>17. Types'
  <2>1. ASSUME NEW d \in Devices
        PROVE  /\ Known(d)' => IsRatchet(mem'[d])
               /\ row'[d].ratchet # NoRatchet => IsRatchet(row'[d].ratchet)
               /\ row'[d].keyed \in BOOLEAN /\ (row'[d].keyed => row'[d].ratchet # NoRatchet)
    <3>1. Known(d)' => IsRatchet(mem'[d])
      BY <1>1, <1>2, <1>6, <1>13, <1>14 DEF Types
    <3> QED  BY <1>2, <1>3, <3>1 DEF Types
  <2> QED  BY <1>2, <1>3, <1>10, <1>13, <1>15, <2>1 DEF Types
<1>18. \A d \in Devices : made[d] \in Nat /\ made'[d] = made[d]
  BY <1>2, <1>3 DEF Types
<1>19. More(made, made') /\ Untouched(q)
  <2>1. More(made, made')
    BY <1>18 DEF More
  <2> QED  BY <1>1, <1>3, <1>10, <1>13, <1>15, <2>1 DEF Untouched
<1>20. Fine(q)' /\ Behind(q)' /\ NextBehind(q)' /\ Saved(q)' /\ Distinct(q)' /\ SendKeys(q)' = SendKeys(q)
  BY <1>1, <1>19, OtherKept
<1>21. k \in SendKeys(p) /\ SendKeys(p)' \subseteq SendKeys(p) \cup {l}
  <2>1. k \in SendKeys(p)
    BY <1>3 DEF SendKeys
  <2>2. ASSUME NEW i \in DOMAIN draft'[p] PROVE draft'[p][i].key \in SendKeys(p)
    <3>1. CASE i \in 1 .. n
      BY <1>9, <1>11, <3>1 DEF SendKeys, n
    <3>2. CASE i = n + 1
      BY <1>7, <1>11, <2>1, <3>2
    <3>3. n \in Nat
      BY <1>9
    <3> QED  BY <1>11, <3>1, <3>2, <3>3
  <2>3. mem'[p].send.key = l
    BY <1>13 DEF l
  <2>4. \A d \in {d \in {p} : row'[d].ratchet # NoRatchet} : row'[d].ratchet.send.key \in SendKeys(p)
    BY <1>3 DEF SendKeys
  <2> QED  BY <2>1, <2>2, <2>3, <2>4 DEF SendKeys
<1>22. Posting(q)' = Posting(q) /\ Opening(q)' = Opening(q)
  BY <1>15 DEF Posting, Opening
<1>23. Unanswered(p)' = Unanswered(p) /\ Unanswered(q)' \subseteq Unanswered(q)
  BY <1>1, <1>3, <1>13, <1>15, <1>22, <1>q DEF Unanswered
<1>24. Apart(p)'
  <2>1. \A x \in SendKeys(p), y \in SendKeys(q) : ~SameChain(x, y)
    BY <1>2, <1>q DEF Safe, Apart
  <2>2. \A y \in SendKeys(q) : ~SameChain(l, y)
    BY <1>8, <1>21, <2>1 DEF SameChain
  <2> QED  BY <1>20, <1>21, <2>1, <2>2, <1>q DEF Apart
<1>25. Safe(p)'
  <2>1. Prepared(p)'
    <3>1. Range(batch'[p]) \cup Range(mailbox'[p]) \cup got'[p] \subseteq DOMAIN draft'[Peer(p)]
      BY <1>2, <1>3, <1>10, <1>q DEF Safe, Prepared
    <3>2. posted'[p] \subseteq DOMAIN draft'[p]
      <4>1. 1 .. n \subseteq 1 .. n + 1
        BY <1>9
      <4> QED  BY <1>3, <1>11, <1>12, <4>1
    <3>3. batch'[p] = << >>
      BY <1>3, <1>16
    <3> QED  BY <1>15, <3>1, <3>2, <3>3 DEF Prepared
  <2>2. Fine(p)'
    <3>1. FineRatchet(made, p, a.ratchet)
      BY <1>4, <1>6, <1>8 DEF FineRatchet, OwnChain, l
    <3>2. FineMessage(made, p, msg)
      BY <1>4, <1>7 DEF FineRatchet, FineMessage
    <3>3. ASSUME NEW i \in DOMAIN draft'[p] PROVE FineMessage(made, p, draft'[p][i])
      <4>1. CASE i \in 1 .. n
        BY <1>2, <1>9, <1>11, <4>1 DEF Safe, Fine, n
      <4>2. CASE i = n + 1
        BY <1>11, <3>2, <4>2
      <4>3. n \in Nat
        BY <1>9
      <4> QED  BY <1>11, <4>1, <4>2, <4>3
    <3>4. made' = made /\ row' = row
      BY <1>3
    <3> QED  BY <1>2, <1>13, <3>1, <3>3, <3>4 DEF Safe, Fine
  <2>3. FreshHandshakes(p)'
    <3>1. \A e \in Unanswered(p) :
            /\ e.owner = Peer(p) /\ e.nth >= 1 /\ Exists(made, e)
            /\ \A x \in SendKeys(p) : x.label = "DRXrecv1" => e \notin x.secret
      BY <1>2 DEF Safe, FreshHandshakes
    <3>2. \A e \in Unanswered(p) : l.label = "DRXrecv1" => e \notin l.secret
      BY <1>8, <1>21, <3>1
    <3>3. made' = made
      BY <1>3
    <3> QED  BY <1>15, <1>21, <1>23, <3>1, <3>2, <3>3 DEF FreshHandshakes
  <2>4. ASSUME NEW i \in posted[p]
        PROVE  /\ draft'[p][i].key = draft[p][i].key /\ ~Derivable(draft'[p][i].key, l)
               /\ draft'[p][i].key # k
    <3>1. ~Derivable(draft[p][i].key, k) /\ draft[p][i].key \in MessageKeys
      BY <1>2, <1>3, <1>12 DEF Safe, Behind
    <3>2. draft'[p][i] = draft[p][i]
      BY <1>11, <1>12
    <3> QED  BY <1>8, <3>1, <3>2
  <2>5. Behind(p)'
    BY <1>2, <1>3, <1>13, <2>4 DEF Safe, Behind, l
  <2>6. NextBehind(p)'
    <3>1. n + 1 \notin posted[p]
      BY <1>9, <1>12
    <3>2. draft'[p][n + 1].key = k
      BY <1>7, <1>11
    <3> QED  BY <1>3, <1>8, <1>11, <1>13, <1>14, <2>4, <3>1, <3>2 DEF NextBehind, l
  <2>7. Saved(p)'
    BY <1>14, <1>15 DEF Saved
  <2>8. Distinct(p)'
    <3>1. \A i, j \in posted[p] : draft[p][i].key = draft[p][j].key => i = j
      BY <1>2 DEF Safe, Distinct
    <3>2. posted'[p] = posted[p]
      BY <1>3
    <3> QED  BY <2>4, <3>1, <3>2 DEF Distinct
  <2> QED  BY <1>24, <2>1, <2>2, <2>3, <2>5, <2>6, <2>7, <2>8 DEF Safe
<1>26. Safe(q)'
  <2>1. Prepared(q)'
    <3>1. 1 .. n \subseteq 1 .. n + 1
      BY <1>9
    <3> QED  BY <1>1, <1>2, <1>3, <1>9, <1>10, <1>11, <1>15, <1>22, <3>1 DEF Safe, Prepared, n
  <2>2. FreshHandshakes(q)'
    <3>1. mem'[q] = mem[q] /\ (Known(q)' <=> Known(q)) /\ made' = made /\ handshakes' = handshakes
      BY <1>3, <1>13, <1>14
    <3> QED  BY <1>2, <1>20, <1>22, <1>23, <3>1 DEF Safe, FreshHandshakes
  <2>3. Apart(q)'
    BY <1>1, <1>24, <1>q DEF Apart, SameChain
  <2> QED  BY <1>20, <2>1, <2>2, <2>3 DEF Safe
<1> QED  BY <1>1, <1>2, <1>3, <1>17, <1>25, <1>26 DEF Inv

-----------------------------------------------------------------------------
LEMMA StepInv ==
  ASSUME Inv, NEW p \in Devices, StartSend(p) \/ Refresh(p) \/ Step(p) \/ Crash(p)
  PROVE  Inv'
<1>1. CASE StartSend(p) \/ Refresh(p)
  BY <1>1, StartsAreLight, LightInv
<1>2. CASE BundlesFail(p) \/ BundlesEmpty(p) \/ BundleUnusable(p) \/ ShowCode(p) \/ NothingToSend(p)
  BY <1>2, BundlesAreLight, LightInv
<1>3. CASE CreateInitiator(p)
  BY <1>3, CreateInv
<1>4. CASE PostHandshake(p)
  BY <1>4, PostHandshakeInv
<1>5. CASE SaveRow(p) \/ SaveKey(p)
  BY <1>5, SaveInv
<1>6. CASE SaveFails(p) \/ UnknownSender(p) \/ CannotOpen(p)
  BY <1>6, ThrowsAreLight, LightInv
<1>7. CASE Advance(p)
  BY <1>7, AdvanceInv
<1>8. CASE Post(p) \/ PostFails(p)
  BY <1>8, PostsArePosted, PostedInv, LightInv
<1>9. CASE NoHandshakes(p) \/ IgnoreHandshakes(p)
  BY <1>9, BacklogsAreLight, LightInv
<1>10. CASE AnswerHandshake(p)
  BY <1>10, AnswerInv
<1>11. CASE FetchMessages(p)
  BY <1>11, FetchIsLight, LightInv
<1>12. CASE NoMoreMessages(p) \/ OpenMessage(p)
  BY <1>12, GoingThroughIsLight, LightInv
<1>13. CASE TakeKey(p)
  BY <1>13, TakeKeyInv
<1>14. CASE Crash(p)
  BY <1>14, CrashIsLight, LightInv
<1> QED  BY <1>1, <1>2, <1>3, <1>4, <1>5, <1>6, <1>7, <1>8, <1>9, <1>10, <1>11, <1>12, <1>13, <1>14
         DEF Step

LEMMA StutterInv ==
  ASSUME Inv, UNCHANGED vars
  PROVE  Inv'
<1>1. /\ UNCHANGED <<mem, row, made, todo, draft, batch, key>>
      /\ UNCHANGED <<handshakes, mailbox, posted, got, mishaps>>
  BY DEF vars, local, server
<1>2. Types'
  BY <1>1 DEF Inv, Types, Known
<1>3. ASSUME NEW p \in Devices PROVE made'[p] >= 1 /\ Safe(p)'
  <2>1. Safe(p) /\ made[p] >= 1
    BY DEF Inv
  <2>2. SendKeys(p)' = SendKeys(p) /\ SendKeys(Peer(p))' = SendKeys(Peer(p))
        /\ Unanswered(p)' = Unanswered(p)
    BY <1>1 DEF SendKeys, Unanswered, Posting, Known
  <2>3. Prepared(p)' /\ Fine(p)' /\ FreshHandshakes(p)' /\ Apart(p)'
    BY <1>1, <2>1, <2>2 DEF Safe, Prepared, Fine, FreshHandshakes, Apart, Opening, Posting, Known
  <2>4. Behind(p)' /\ NextBehind(p)' /\ Saved(p)' /\ Distinct(p)'
    BY <1>1, <2>1 DEF Safe, Behind, NextBehind, Saved, Distinct, Sending, Known, AtStep, Idle
  <2> QED  BY <1>1, <2>1, <2>3, <2>4 DEF Safe
<1> QED  BY <1>2, <1>3 DEF Inv

(* The strengthened invariant is inductive: every step of either device,   *)
(* every failure and every crash keeps it.                                 *)
THEOREM Inductive == Spec => []Inv
<1>1. Inv /\ [Next]_vars => Inv'
  BY StepInv, StutterInv DEF Next
<1> QED  BY InitInv, <1>1, PTL DEF Spec

(* Every value has its type; a batch is there only while a handler runs.   *)
THEOREM TypesAlways == Spec => []TypeOK
BY Inductive, InvTypeOK, PTL

(* No two messages the server has had are encrypted under one key: a save  *)
(* comes before every post, and every session is a chain of its own.       *)
THEOREM KeysOnce == Spec => []NoKeyReuse
BY Inductive, InvNoKeyReuse, PTL

(* The ratchet a restart loads is ahead of every message the server has    *)
(* had: the ratchets row, then its key row, then the post.                 *)
THEOREM RestartsSafe == Spec => []RestartSafe
BY Inductive, InvRestartSafe, PTL

-----------------------------------------------------------------------------
(* While nothing fails.  A session is saved as soon as it is made, so what *)
(* is in memory and what is in the database are there together; and a      *)
(* device that goes on to a message has made its session known: its        *)
(* handshake is at the server, or the other device has a session already.  *)
Saves(p) == AtStep(p, "row") \/ AtStep(p, "key")
Met(p) == Known(p) \/ handshakes[p] # << >>
Waited(p) == mailbox[p] # << >> \/ batch[p] # << >>

Clean(p) ==
  /\ row[p].keyed => Known(p)
  /\ Known(p) /\ ~Saves(p) => row[p].keyed
  /\ handshakes[p] # << >> => Known(Peer(p))
  /\ Known(Peer(p)) /\ ~Posting(Peer(p)) => Met(p)
  /\ Waited(p) => Met(p)

CleanInv == mishaps = 0 => \A p \in Devices : Clean(p)

(* What a step of p, with nothing failing, does to the two devices.        *)
Goes(p) ==
  /\ Known(p) => Known(p)'
  /\ row'[p].keyed => Known(p)'
  /\ Known(p)' /\ ~Saves(p)' => row'[p].keyed
  /\ handshakes'[p] # << >> => handshakes[p] # << >>
  /\ handshakes[p] # << >> => handshakes'[p] # << >> \/ Known(p)'
  /\ Waited(p)' => Waited(p) \/ Known(p)'

Reaches(p, q) ==
  /\ Known(q)' = Known(q) /\ row'[q] = row[q] /\ Saves(q)' = Saves(q) /\ Posting(q)' = Posting(q)
  /\ batch'[q] = batch[q]
  /\ handshakes'[q] # << >> => handshakes[q] # << >> \/ Known(p)'
  /\ handshakes[q] # << >> => handshakes'[q] # << >>
  /\ Known(p)' /\ ~Posting(p)' => \/ Known(p) /\ ~Posting(p)
                                  \/ handshakes'[q] # << >> \/ Known(q)
  /\ mailbox'[q] # << >> => mailbox[q] # << >> \/ (Known(p) /\ ~Posting(p))

LEMMA GoesClean ==
  ASSUME NEW p \in Devices, Goes(p), Reaches(p, Peer(p)), \A d \in Devices : Clean(d)
  PROVE  \A d \in Devices : Clean(d)'
<1> DEFINE q == Peer(p)
<1>1. /\ q \in Devices /\ q # p /\ Peer(q) = p /\ \A d \in Devices : d = p \/ d = q
  BY PeerFacts
<1>q. q = Peer(p)
  OBVIOUS
<1>2. Reaches(p, q) /\ Clean(p) /\ Clean(q)
  BY <1>1
<1> HIDE DEF q
<1>3. Clean(p)'
  <2>1. Met(p) => Met(p)'
    BY DEF Goes, Met
  <2>2. Known(q)' /\ ~Posting(q)' => Met(p)'
    BY <1>2, <1>q, <2>1 DEF Clean, Reaches
  <2>3. handshakes'[p] # << >> => Known(q)'
    BY <1>2, <1>q DEF Clean, Reaches, Goes
  <2>4. Waited(p)' => Met(p)'
    BY <1>2, <2>1 DEF Clean, Goes, Met
  <2> QED  BY <1>q, <2>2, <2>3, <2>4 DEF Clean, Goes
<1>4. Clean(q)'
  <2>1. Met(q) => Met(q)'
    BY <1>2 DEF Reaches, Met
  <2>2. Known(p) /\ ~Posting(p) => Met(q)
    BY <1>1, <1>2 DEF Clean
  <2>3. Known(p)' /\ ~Posting(p)' => Met(q)'
    BY <1>2, <2>1, <2>2 DEF Reaches, Met
  <2>4. handshakes'[q] # << >> => Known(p)'
    BY <1>1, <1>2 DEF Clean, Reaches, Goes
  <2>5. Waited(q)' => Met(q)'
    BY <1>2, <2>1, <2>2 DEF Clean, Reaches, Waited
  <2> QED  BY <1>1, <1>2, <2>3, <2>4, <2>5 DEF Clean, Reaches
<1> QED  BY <1>1, <1>3, <1>4

LEMMA PostsHeads == \A r \in Posts : r \in AfterSave /\ Head(r) = "post handshake"
<1>1. /\ Head(<< "post handshake", "advance" >>) = "post handshake"
      /\ Head(<< "post handshake", "code" >>) = "post handshake"
  OBVIOUS
<1> QED  BY <1>1, Zenon DEF Posts, AfterSave

(* At these steps nothing is to be saved and no handshake to be posted.    *)
LEMMA OffSave ==
  ASSUME NEW p \in Devices,
         Idle(p) \/ Head(todo[p]) \notin {"row", "key", "post handshake"}
  PROVE  ~Saves(p) /\ ~Posting(p)
<1>1. ~Saves(p)
  BY DEF Saves, AtStep
<1>2. ASSUME NEW r \in Posts
      PROVE  /\ r # << >> /\ << "key" >> \o r # << >> /\ Save \o r # << >>
             /\ Head(r) = "post handshake" /\ Head(<< "key" >> \o r) = "key" /\ Head(Save \o r) = "row"
  <2>1. r \in AfterSave /\ Head(r) = "post handshake"
    BY PostsHeads
  <2> QED  BY <2>1, RestsAreSeqs, SaveShape, RestHeads
<1>3. ~Posting(p)
  BY <1>2 DEF Posting, Saving, Idle
<1> QED  BY <1>1, <1>3

LEMMA CalmOff ==
  ASSUME NEW p \in Devices, todo'[p] \in Calm
  PROVE  ~Saves(p)' /\ ~Posting(p)'
BY CalmFacts DEF Saves, AtStep, Idle, Posting

(* A step of p leaves the other device alone, but for what it posts.       *)
LEMMA Apartness ==
  ASSUME NEW p \in Devices, NEW q \in Devices \ {p},
         mem'[q] = mem[q], todo'[q] = todo[q], row'[q] = row[q]
  PROVE  /\ Known(q)' = Known(q) /\ Saves(q)' = Saves(q) /\ Posting(q)' = Posting(q)
BY DEF Known, Saves, AtStep, Idle, Posting

LEMMA NotEmpty ==
  ASSUME NEW S, NEW s \in Seq(S), s # << >>
  PROVE  Range(s) # {}
BY RangeTail

LEMMA LightGoes ==
  ASSUME Inv, NEW p \in Devices, Light(p), Clean(p), ~Saves(p), ~Posting(p),
         Known(p) \/ UNCHANGED handshakes
  PROVE  Goes(p) /\ Reaches(p, Peer(p))
<1> DEFINE q == Peer(p)
<1>1. /\ q \in Devices \ {p} /\ Peer(q) = p /\ \A d \in Devices : d = p \/ d = q
  BY PeerFacts
<1>q. q = Peer(p)
  OBVIOUS
<1> HIDE DEF q
<1>2. Types
  BY DEF Inv
<1>3. /\ Known(p)' => Known(p) \/ row[p].keyed
      /\ todo'[p] \in Calm /\ row' = row
      /\ \A d \in Devices \ {p} :
           /\ mem'[d] = mem[d] /\ todo'[d] = todo[d] /\ batch'[d] = batch[d]
           /\ mailbox'[d] = mailbox[d] /\ handshakes'[d] = handshakes[d]
  BY LightFacts
<1>4. ~Saves(p)' /\ ~Posting(p)'
  BY <1>3, CalmOff
<1>5. Known(p)' = Known(p)
  <2>1. Known(p)' => Known(p)
    BY <1>3 DEF Clean
  <2>2. ASSUME Known(p) PROVE Known(p)'
    <3>1. row[p].keyed /\ row[p].ratchet # NoRatchet
      BY <1>2, <2>2 DEF Clean, Types
    <3>2. Loaded(p) # NoRatchet /\ mem[p] # NoRatchet
      BY <2>2, <3>1 DEF Loaded, Known
    <3>3. DOMAIN mem = Devices
      BY <1>2 DEF Types
    <3>4. mem'[p] \in {mem[p], Loaded(p)}
      BY <3>3 DEF Light, Reloads
    <3> QED  BY <3>2, <3>4 DEF Known
  <2> QED  BY <2>1, <2>2 DEF Known
<1>6. /\ mailbox'[p] \in {mailbox[p], << >>} /\ handshakes'[p] \in {handshakes[p], << >>}
  <2>1. DOMAIN mailbox = Devices /\ DOMAIN handshakes = Devices
    BY <1>2 DEF Types
  <2> QED  BY <2>1 DEF Light, Loses
<1>7. batch'[p] \in Seq(Nat) /\ Range(batch'[p]) \subseteq Range(batch[p]) \cup Range(mailbox[p])
  <2>1. DOMAIN batch = Devices
    BY <1>2 DEF Types
  <2> QED  BY <2>1 DEF Light, Moves
<1>8. Waited(p)' => Waited(p)
  <2>1. ASSUME batch'[p] # << >> PROVE batch[p] # << >> \/ mailbox[p] # << >>
    BY <1>7, <2>1, NotEmpty, RangeEmpty
  <2> QED  BY <1>6, <2>1 DEF Waited
<1>9. Goes(p)
  <2>1. handshakes[p] # << >> => handshakes'[p] # << >> \/ Known(p)'
    BY <1>5
  <2> QED  BY <1>3, <1>5, <1>6, <1>8, <2>1 DEF Goes, Clean
<1>10. Reaches(p, q)
  <2>1. Known(q)' = Known(q) /\ Saves(q)' = Saves(q) /\ Posting(q)' = Posting(q)
    BY <1>1, <1>3, Apartness
  <2> QED  BY <1>1, <1>3, <1>5, <2>1 DEF Reaches
<1> QED  BY <1>9, <1>10, <1>q

(* With nothing failing, a light step drops a handshake only if its sender *)
(* is known.                                                               *)
LEMMA StartsClean ==
  ASSUME Inv, NEW p \in Devices, Clean(p), mishaps' = 0,
         \/ StartSend(p) \/ Refresh(p) \/ BundlesFail(p) \/ BundlesEmpty(p) \/ BundleUnusable(p)
         \/ ShowCode(p) \/ NothingToSend(p) \/ SaveFails(p) \/ UnknownSender(p) \/ CannotOpen(p)
         \/ NoHandshakes(p) \/ IgnoreHandshakes(p) \/ FetchMessages(p)
         \/ NoMoreMessages(p) \/ OpenMessage(p) \/ Crash(p)
  PROVE  Goes(p) /\ Reaches(p, Peer(p))
<1>1. Light(p)
  BY StartsAreLight, BundlesAreLight, ThrowsAreLight, BacklogsAreLight, FetchIsLight,
     GoingThroughIsLight, CrashIsLight
<1>2. ~Mishap
  BY DEF Inv, Types, Mishap
<1>3. Idle(p) \/ Head(todo[p]) \notin {"row", "key", "post handshake"}
  BY <1>2 DEF StartSend, Refresh, BundlesFail, BundlesEmpty, BundleUnusable, ShowCode, NothingToSend,
       SaveFails, UnknownSender, CannotOpen, NoHandshakes, IgnoreHandshakes, FetchMessages,
       NoMoreMessages, OpenMessage, Crash, AtStep
<1>4. Known(p) \/ UNCHANGED handshakes
  BY <1>2 DEF StartSend, Refresh, BundlesFail, BundlesEmpty, BundleUnusable, ShowCode, NothingToSend,
       SaveFails, UnknownSender, CannotOpen, NoHandshakes, IgnoreHandshakes, FetchMessages,
       NoMoreMessages, OpenMessage, Crash, server
<1> QED  BY <1>1, <1>3, <1>4, OffSave, LightGoes

(* A session is made: its save comes next, and before the message its      *)
(* handshake is posted.                                                    *)
LEMMA CreateGoes ==
  ASSUME Inv, NEW p \in Devices, Clean(p), CreateInitiator(p)
  PROVE  Goes(p) /\ Reaches(p, Peer(p))
<1> DEFINE q == Peer(p)
           r == InitiatorRatchet(PublicKey(p, made[p]), Signed(q))
<1>1. /\ q \in Devices \ {p} /\ Peer(q) = p /\ q \in Devices /\ q # p
  BY PeerFacts
<1>q. q = Peer(p)
  OBVIOUS
<1> HIDE DEF q
<1>2. /\ ~Idle(p) /\ todo[p] # << >> /\ Head(todo[p]) = "bundles" /\ ~Known(p)
      /\ mem' = [mem EXCEPT ![p] = r] /\ GoOn(p, AfterCreate)
      /\ UNCHANGED <<row, batch, handshakes, mailbox>>
  BY <1>q DEF CreateInitiator, AtStep, Idle, server
<1>3. Types /\ made[p] \in Nat /\ todo[p] \in Places
  BY DEF Inv, Types
<1>4. r # NoRatchet
  <2>1. PublicKey(p, made[p]) \in PublicKeys /\ Signed(q) \in PublicKeys
    BY <1>1, <1>3, PublicKeyFacts
  <2> DEFINE x == PublicKey(p, made[p])
             y == Signed(q)
             b == FALSE
  <2>2. b \in BOOLEAN /\ x \in PublicKeys /\ y \in PublicKeys /\ r = InitialRatchet(x, y, b)
    BY <2>1 DEF InitiatorRatchet
  <2> HIDE DEF x, y, b, r
  <2> QED  BY <2>2, InitialType, IsSome
<1> HIDE DEF r
<1>5. mem'[p] = r /\ mem'[q] = mem[q] /\ Known(p)'
  BY <1>1, <1>2, <1>3, <1>4 DEF Types, Known
<1>6. PICK s \in Posts : todo' = [todo EXCEPT ![p] = Save \o s]
  <2>1. PICK s \in Posts : AfterCreate \o Tail(todo[p]) = Save \o s
    BY <1>2, <1>3, OnFromSave
  <2> QED  BY <1>2, <1>3, <2>1 DEF GoOn, Types
<1>7. todo'[p] = Save \o s /\ todo'[q] = todo[q] /\ s \in AfterSave
  BY <1>1, <1>3, <1>6, PostsHeads DEF Types
<1>8. Saves(p)' /\ Posting(p)'
  BY <1>7, SavePlace DEF Saves, AtStep, Idle, Posting
<1>9. ~Saves(p) /\ ~Posting(p)
  BY <1>2, OffSave
<1>10. Known(q)' = Known(q) /\ Saves(q)' = Saves(q) /\ Posting(q)' = Posting(q)
  BY <1>1, <1>2, <1>5, <1>7, Apartness
<1> QED  BY <1>2, <1>5, <1>8, <1>10, <1>q DEF Goes, Reaches, Clean, Waited

LEMMA AnswerGoes ==
  ASSUME Inv, NEW p \in Devices, Clean(p), AnswerHandshake(p)
  PROVE  Goes(p) /\ Reaches(p, Peer(p))
<1> DEFINE q == Peer(p)
           e == Head(handshakes[p])
           r == RecipientRatchet(Signed(p), e)
<1>1. /\ q \in Devices \ {p} /\ Peer(q) = p /\ q \in Devices /\ q # p
  BY PeerFacts
<1>q. q = Peer(p)
  OBVIOUS
<1> HIDE DEF q
<1>2. /\ ~Idle(p) /\ todo[p] # << >> /\ Head(todo[p]) = "handshakes" /\ ~Known(p)
      /\ handshakes[p] # << >>
      /\ mem' = [mem EXCEPT ![p] = r] /\ GoOn(p, Save)
      /\ handshakes' = [handshakes EXCEPT ![p] = << >>]
      /\ UNCHANGED <<row, batch, mailbox>>
  BY DEF AnswerHandshake, AtStep, Idle
<1>3. Types /\ todo[p] \in Places /\ handshakes[p] \in Seq(PublicKeys)
  BY DEF Inv, Types
<1>4. r # NoRatchet
  <2>1. e \in PublicKeys
    <3>1. Head(handshakes[p]) \in Range(handshakes[p])
      BY <1>2, <1>3, RangeTail
    <3> QED  BY <1>3, <3>1 DEF Range
  <2>2. Signed(p) \in PublicKeys
    BY DEF Signed, PublicKey, PublicKeys
  <2> DEFINE x == Signed(p)
             b == TRUE
  <2>3. b \in BOOLEAN /\ x \in PublicKeys /\ e \in PublicKeys /\ r = InitialRatchet(x, e, b)
    BY <2>1, <2>2 DEF RecipientRatchet
  <2> HIDE DEF x, e, b, r
  <2> QED  BY <2>3, InitialType, IsSome
<1> HIDE DEF r, e
<1>5. mem'[p] = r /\ mem'[q] = mem[q] /\ Known(p)' /\ handshakes'[p] = << >> /\ handshakes'[q] = handshakes[q]
  BY <1>1, <1>2, <1>3, <1>4 DEF Types, Known
<1>6. PICK s \in {<< "bundles", "code" >>, << "messages" >>} : todo' = [todo EXCEPT ![p] = Save \o s]
  <2>1. PICK s \in {<< "bundles", "code" >>, << "messages" >>} : Save \o Tail(todo[p]) = Save \o s
    BY <1>2, <1>3, OnFromSave
  <2> QED  BY <1>2, <1>3, <2>1 DEF GoOn, Types
<1>7. todo'[p] = Save \o s /\ todo'[q] = todo[q] /\ s \in AfterSave
  BY <1>1, <1>3, <1>6, RestsApart DEF Types
<1>8. Saves(p)'
  BY <1>7, SavePlace DEF Saves, AtStep, Idle
<1>9. Known(q)
  BY <1>2, <1>q DEF Clean
<1>10. Known(q)' = Known(q) /\ Saves(q)' = Saves(q) /\ Posting(q)' = Posting(q)
  BY <1>1, <1>2, <1>5, <1>7, Apartness
<1> QED  BY <1>2, <1>5, <1>8, <1>9, <1>10, <1>q DEF Goes, Reaches, Waited

LEMMA PostHandshakeGoes ==
  ASSUME Inv, NEW p \in Devices, Clean(p), PostHandshake(p), mishaps' = 0
  PROVE  Goes(p) /\ Reaches(p, Peer(p))
<1> DEFINE q == Peer(p)
<1>1. /\ q \in Devices \ {p} /\ Peer(q) = p /\ q \in Devices /\ q # p
  BY PeerFacts
<1>q. q = Peer(p)
  OBVIOUS
<1> HIDE DEF q
<1>2. Types /\ FreshHandshakes(p) /\ todo[p] \in Places
  BY DEF Inv, Safe, Types
<1>3. ~Mishap
  BY DEF Inv, Types, Mishap
<1>4. /\ ~Idle(p) /\ todo[p] # << >> /\ Head(todo[p]) = "post handshake" /\ GoOn(p, << >>)
      /\ handshakes' = [handshakes EXCEPT ![q] = Append(@, mem[p].local)]
      /\ UNCHANGED <<mem, row, batch, mailbox>>
  BY <1>3, <1>q DEF PostHandshake, AtStep, Idle
<1>5. Known(p)
  <2>1. todo[p] \in Posts
    BY <1>2, <1>4, SaveLeft, OtherLeft
  <2>2. Posting(p)
    BY <2>1 DEF Posting, Saving
  <2> QED  BY <1>2, <2>2 DEF FreshHandshakes
<1>6. ~Saves(p)
  BY <1>4 DEF Saves, AtStep
<1>7. todo'[p] \in Calm /\ todo'[q] = todo[q]
  <2>1. << >> \o Tail(todo[p]) \in Calm
    BY <1>2, <1>4, OnFromCalm
  <2> QED  BY <1>1, <1>2, <1>4, <2>1 DEF Types, GoOn
<1>8. ~Saves(p)'
  BY <1>7, CalmOff
<1>9. handshakes'[p] = handshakes[p] /\ handshakes'[q] # << >>
  <2>1. handshakes \in [Devices -> Seq(PublicKeys)] /\ handshakes[q] \in Seq(PublicKeys)
    BY <1>1, <1>2 DEF Types
  <2>2. handshakes'[p] = handshakes[p] /\ handshakes'[q] = Append(handshakes[q], mem[p].local)
    BY <1>1, <1>4, <2>1
  <2>3. mem[p].local \in PublicKeys
    BY <1>2, <1>5, RatchetFields DEF Types
  <2>4. Append(handshakes[q], mem[p].local) # << >>
    BY <2>1, <2>3
  <2> QED  BY <2>2, <2>4
<1>10. Known(q)' = Known(q) /\ Saves(q)' = Saves(q) /\ Posting(q)' = Posting(q)
  BY <1>1, <1>4, <1>7, Apartness
<1>11. Known(p)'
  BY <1>4, <1>5 DEF Known
<1> QED  BY <1>4, <1>5, <1>6, <1>9, <1>10, <1>11, <1>q DEF Goes, Reaches, Clean, Waited

LEMMA SaveGoes ==
  ASSUME Inv, NEW p \in Devices, Clean(p), SaveRow(p) \/ SaveKey(p)
  PROVE  Goes(p) /\ Reaches(p, Peer(p))
<1> DEFINE q == Peer(p)
<1>1. /\ q \in Devices \ {p} /\ Peer(q) = p /\ q \in Devices /\ q # p
  BY PeerFacts
<1>q. q = Peer(p)
  OBVIOUS
<1> HIDE DEF q
<1>2. Types /\ Saved(p)
  BY DEF Inv, Safe
<1>3. /\ UNCHANGED <<mem, batch, handshakes, mailbox>> /\ GoOn(p, << >>)
      /\ AtStep(p, "row") \/ AtStep(p, "key")
  BY DEF SaveRow, SaveKey, server
<1>4. Known(p) /\ Known(p)'
  BY <1>2, <1>3 DEF Saved, Known
<1>5. /\ todo'[q] = todo[q] /\ Posting(p)' = Posting(p)
      /\ AtStep(p, "row") => AtStep(p, "key")'
  BY <1>1, <1>3, SaveMoves
<1>6. row'[q] = row[q] /\ (~Saves(p)' => row'[p].keyed)
  <2>1. CASE SaveRow(p)
    BY <1>1, <1>2, <1>5, <2>1 DEF SaveRow, Types, Saves
  <2>2. CASE SaveKey(p)
    <3>1. row[p] = [ratchet |-> row[p].ratchet, keyed |-> row[p].keyed] /\ DOMAIN row = Devices
      BY <1>2 DEF Types
    <3> QED  BY <1>1, <2>2, <3>1 DEF SaveKey
  <2> QED  BY <2>1, <2>2
<1>7. Known(q)' = Known(q) /\ Saves(q)' = Saves(q) /\ Posting(q)' = Posting(q)
  BY <1>1, <1>3, <1>5, <1>6, Apartness
<1> QED  BY <1>3, <1>4, <1>5, <1>6, <1>7, <1>q DEF Goes, Reaches, Waited

LEMMA AdvanceGoes ==
  ASSUME Inv, NEW p \in Devices, Clean(p), Advance(p)
  PROVE  Goes(p) /\ Reaches(p, Peer(p))
<1> DEFINE q == Peer(p)
           r == AdvanceSend(mem[p]).ratchet
<1>1. /\ q \in Devices \ {p} /\ Peer(q) = p /\ q \in Devices /\ q # p
  BY PeerFacts
<1>q. q = Peer(p)
  OBVIOUS
<1> HIDE DEF q
<1>2. Types /\ todo[p] \in Places
  BY DEF Inv, Types
<1>3. /\ ~Idle(p) /\ todo[p] # << >> /\ Head(todo[p]) = "advance" /\ Known(p)
      /\ mem' = [mem EXCEPT ![p] = r] /\ GoOn(p, AfterAdvance)
      /\ UNCHANGED <<row, batch, handshakes, mailbox>>
  BY DEF Advance, AtStep, Idle, server
<1>4. r # NoRatchet
  <2> DEFINE m == mem[p]
             a == AdvanceSend(m)
  <2>1. IsRatchet(m) /\ a = AdvanceSend(m)
    BY <1>2, <1>3 DEF Types
  <2> HIDE DEF a, m
  <2>2. IsRatchet(a.ratchet)
    BY <2>1, SendSplit
  <2> QED  BY <2>2, IsSome DEF a, m
<1> HIDE DEF r
<1>5. mem'[p] = r /\ mem'[q] = mem[q] /\ Known(p)'
  BY <1>1, <1>2, <1>3, <1>4 DEF Types, Known
<1>6. todo' = [todo EXCEPT ![p] = Save \o << "post" >>]
  <2>1. AfterAdvance \o Tail(todo[p]) = Save \o << "post" >>
    BY <1>2, <1>3, OnFromSave
  <2> QED  BY <1>2, <1>3, <2>1 DEF GoOn, Types
<1>7. todo'[p] = Save \o << "post" >> /\ todo'[q] = todo[q] /\ << "post" >> \in AfterSave
  BY <1>1, <1>2, <1>6 DEF Types, AfterSave
<1>8. Saves(p)'
  BY <1>7, SavePlace DEF Saves, AtStep, Idle
<1>9. ~Posting(p)
  BY <1>3, OffSave
<1>10. Known(q)' = Known(q) /\ Saves(q)' = Saves(q) /\ Posting(q)' = Posting(q)
  BY <1>1, <1>3, <1>5, <1>7, Apartness
<1> QED  BY <1>3, <1>5, <1>8, <1>9, <1>10, <1>q DEF Goes, Reaches, Waited

LEMMA PostGoes ==
  ASSUME Inv, NEW p \in Devices, Clean(p), Post(p) \/ PostFails(p)
  PROVE  Goes(p) /\ Reaches(p, Peer(p))
<1> DEFINE q == Peer(p)
<1>1. /\ q \in Devices \ {p} /\ Peer(q) = p /\ q \in Devices /\ q # p
  BY PeerFacts
<1>q. q = Peer(p)
  OBVIOUS
<1> HIDE DEF q
<1>2. Types /\ AtStep(p, "post") /\ UNCHANGED handshakes
  BY DEF Inv, Post, PostFails
<1>3. ~Saves(p) /\ ~Posting(p)
  BY <1>2, OffSave DEF AtStep
<1>4. CASE Light(p)
  BY <1>2, <1>3, <1>4, LightGoes
<1>5. CASE Posted(p)
  <2>1. /\ UNCHANGED <<mem, row, batch, handshakes>> /\ ServerTakes(p)
        /\ todo' = [todo EXCEPT ![p] = << >>]
    BY <1>5 DEF Posted
  <2>2. Known(p)
    BY <1>2, AtPost
  <2>3. todo'[p] = << >> /\ todo'[q] = todo[q] /\ mailbox'[p] = mailbox[p]
    BY <1>1, <1>2, <1>q, <2>1 DEF Types, ServerTakes
  <2>4. ~Saves(p)' /\ ~Posting(p)'
    BY <2>3, CalmOff DEF Calm
  <2>5. Known(q)' = Known(q) /\ Saves(q)' = Saves(q) /\ Posting(q)' = Posting(q)
    BY <1>1, <2>1, <2>3, Apartness
  <2>6. Known(p)'
    BY <2>1, <2>2 DEF Known
  <2> QED  BY <1>3, <1>q, <2>1, <2>2, <2>3, <2>5, <2>6 DEF Goes, Reaches, Clean, Waited
<1> QED  BY <1>4, <1>5, PostsArePosted

LEMMA TakeGoes ==
  ASSUME Inv, NEW p \in Devices, Clean(p), TakeKey(p)
  PROVE  Goes(p) /\ Reaches(p, Peer(p))
<1> DEFINE q == Peer(p)
           h == Current(p).header
           a == AdvanceReceive(mem[p], h, PublicKey(p, made[p]))
<1>1. /\ q \in Devices \ {p} /\ Peer(q) = p /\ q \in Devices /\ q # p
  BY PeerFacts
<1>q. q = Peer(p)
  OBVIOUS
<1> HIDE DEF q
<1>2. Types /\ todo[p] \in Places
  BY DEF Inv, Types
<1>3. /\ ~Idle(p) /\ todo[p] # << >> /\ Head(todo[p]) = "next message" /\ batch[p] # << >> /\ Known(p)
      /\ made' = [made EXCEPT ![p] = IF NewDh(mem[p], h) THEN @ + 1 ELSE @]
      /\ UNCHANGED <<row, handshakes, mailbox>>
  BY DEF TakeKey, AtStep, Idle, server
<1>4. \/ /\ mem' = [mem EXCEPT ![p] = a.ratchet] /\ GoOn(p, AfterTake) /\ UNCHANGED batch
      \/ Throw(p, a.ratchet)
  BY DEF TakeKey
<1>5. a.ratchet # NoRatchet
  <2>1. Unsent(p, a.ratchet)
    BY <1>3, TakeFacts
  <2> QED  BY <2>1, IsSome DEF Unsent
<1> HIDE DEF a
<1>6. ~Saves(p) /\ ~Posting(p)
  BY <1>3, OffSave
<1>7. row[p].keyed /\ Loaded(p) # NoRatchet
  BY <1>2, <1>3, <1>6 DEF Clean, Types, Loaded
<1>8. Known(p)' /\ mem'[q] = mem[q] /\ todo'[q] = todo[q] /\ batch'[q] = batch[q]
  BY <1>1, <1>2, <1>4, <1>5, <1>7 DEF Types, Known, GoOn, Throw
<1>9. Known(q)' = Known(q) /\ Saves(q)' = Saves(q) /\ Posting(q)' = Posting(q)
  BY <1>1, <1>3, <1>8, Apartness
<1> QED  BY <1>3, <1>6, <1>7, <1>8, <1>9, <1>q DEF Goes, Reaches

LEMMA CleanStep ==
  ASSUME Inv, CleanInv, NEW p \in Devices, StartSend(p) \/ Refresh(p) \/ Step(p) \/ Crash(p)
  PROVE  CleanInv'
<1> SUFFICES ASSUME mishaps' = 0 PROVE \A d \in Devices : Clean(d)'
  BY DEF CleanInv
<1>1. \A d \in Devices : Clean(d)
  <2>1. CASE Step(p)
    <3>1. Mishap \/ mishaps' = mishaps
      BY <2>1 DEF Step, BundlesFail, BundlesEmpty, BundleUnusable, CreateInitiator, PostHandshake,
         ShowCode, SaveRow, SaveKey, SaveFails, NothingToSend, Advance, Post, PostFails, NoHandshakes,
         IgnoreHandshakes, AnswerHandshake, FetchMessages, NoMoreMessages, UnknownSender, TakeKey,
         OpenMessage, CannotOpen
    <3> QED  BY <3>1 DEF CleanInv, Inv, Types, Mishap
  <2>2. CASE StartSend(p) \/ Refresh(p) \/ Crash(p)
    BY <2>2 DEF CleanInv, Inv, Types, StartSend, Refresh, Crash, Mishap
  <2> QED  BY <2>1, <2>2
<1>2. Goes(p) /\ Reaches(p, Peer(p))
  <2>1. \/ StartSend(p) \/ Refresh(p) \/ BundlesFail(p) \/ BundlesEmpty(p) \/ BundleUnusable(p)
        \/ ShowCode(p) \/ NothingToSend(p) \/ SaveFails(p) \/ UnknownSender(p) \/ CannotOpen(p)
        \/ NoHandshakes(p) \/ IgnoreHandshakes(p) \/ FetchMessages(p)
        \/ NoMoreMessages(p) \/ OpenMessage(p) \/ Crash(p)
        \/ CreateInitiator(p) \/ PostHandshake(p) \/ SaveRow(p) \/ SaveKey(p) \/ Advance(p)
        \/ Post(p) \/ PostFails(p) \/ AnswerHandshake(p) \/ TakeKey(p)
    BY DEF Step
  <2> QED  BY <1>1, <2>1, StartsClean, CreateGoes, PostHandshakeGoes, SaveGoes, AdvanceGoes, PostGoes,
              AnswerGoes, TakeGoes
<1> QED  BY <1>1, <1>2, GoesClean

LEMMA CleanStutter ==
  ASSUME CleanInv, UNCHANGED vars
  PROVE  CleanInv'
<1>1. UNCHANGED <<mem, row, todo, batch, handshakes, mailbox, mishaps>>
  BY DEF vars, local, server
<1>2. ASSUME NEW p \in Devices PROVE Clean(p) => Clean(p)'
  BY <1>1 DEF Clean, Known, Saves, AtStep, Idle, Posting, Met, Waited
<1> QED  BY <1>1, <1>2 DEF CleanInv

LEMMA CleanInit == Init => CleanInv
<1> SUFFICES ASSUME Init, NEW p \in Devices PROVE Clean(p)
  BY DEF CleanInv
<1>1. Peer(p) \in Devices
  BY PeerFacts
<1> QED  BY <1>1 DEF Init, Clean, Known, Met, Waited

(* As long as nothing has failed, no message waits for a device that has   *)
(* neither a session with its sender nor a handshake to make one from.     *)
THEOREM HandshakesFirst == Spec => []HandshakeBeforeMessage
<1>1. Inv /\ CleanInv /\ [Next]_vars => CleanInv'
  BY CleanStep, CleanStutter DEF Next
<1>2. CleanInv => HandshakeBeforeMessage
  BY DEF CleanInv, Clean, HandshakeBeforeMessage, Met, Waited
<1> QED  BY Inductive, CleanInit, <1>1, <1>2, PTL DEF Spec

-----------------------------------------------------------------------------
(* One handshake.  While device i has made one key pair for it and the     *)
(* other none, every ratchet there is is an end of that one session, on    *)
(* the two chains it started with.                                         *)
Own(i, p) == IF p = i THEN PublicKey(i, 1) ELSE Signed(p)
(* The key of step n on the chain p sends on.                              *)
Nth(i, p, n) ==
  [ secret |-> {Own(i, p), Own(i, Peer(p))},
    label |-> IF p = i THEN "DRXsend1" ELSE "DRXrecv1", step |-> n ]

EndOf(i, p, r) ==
  /\ ~r.due /\ r.local = Own(i, p) /\ r.remote = Own(i, Peer(p))
  /\ r.send.key = Nth(i, p, r.send.index)
  /\ r.recv.key = Nth(i, Peer(p), r.recv.index)
  /\ \A j \in DOMAIN r.skipped : r.skipped[j] = Nth(i, Peer(p), j)

MessageOf(i, p, m) == m.header.dh = Own(i, p) /\ m.key = Nth(i, p, m.header.index)

(* The ratchet r still has a key for index j, or will come to it.          *)
Awaits(r, j) == j >= r.recv.index \/ j \in DOMAIN r.skipped

LEMMA NthFacts ==
  ASSUME NEW i \in Devices, NEW p \in Devices, NEW n \in Nat
  PROVE  /\ Own(i, p) \in PublicKeys
         /\ Nth(i, p, n) \in MessageKeys /\ Nth(i, p, n).step = n /\ Nth(i, p, n) # NoKey
         /\ \A d \in Nat : KeyAfter(Nth(i, p, n), d) = Nth(i, p, n + d)
<1>1. \A x \in Devices : Own(i, x) \in PublicKeys
  BY DEF Own, PublicKey, Signed, PublicKeys
<1>2. Peer(p) \in Devices
  BY PeerFacts
<1> DEFINE s == {Own(i, p), Own(i, Peer(p))}
           l == IF p = i THEN "DRXsend1" ELSE "DRXrecv1"
<1>3. s \in SUBSET PublicKeys /\ l \in Labels /\ l # "none"
  BY <1>1, <1>2 DEF Labels
<1>4. \A m : Nth(i, p, m) = [secret |-> s, label |-> l, step |-> m]
  BY DEF Nth
<1> HIDE DEF s, l
<1>5. Nth(i, p, n) \in MessageKeys /\ Nth(i, p, n).step = n /\ Nth(i, p, n) # NoKey
  BY <1>3, <1>4 DEF MessageKeys, NoKey
<1>6. ASSUME NEW d \in Nat PROVE KeyAfter(Nth(i, p, n), d) = Nth(i, p, n + d)
  <2> DEFINE k == Nth(i, p, n)
  <2>1. k \in MessageKeys /\ k.secret = s /\ k.label = l /\ k.step = n
    BY <1>4, <1>5
  <2> HIDE DEF k
  <2>2. KeyAfter(k, d) = [secret |-> s, label |-> l, step |-> n + d]
    BY <2>1, KeyAfterType
  <2> QED  BY <1>4, <2>2 DEF k
<1> QED  BY <1>1, <1>5, <1>6

(* The two ends a handshake makes.                                         *)
LEMMA EndsStart ==
  ASSUME NEW i \in Devices
  PROVE  /\ EndOf(i, i, InitiatorRatchet(PublicKey(i, 1), Signed(Peer(i))))
         /\ EndOf(i, Peer(i), RecipientRatchet(Signed(Peer(i)), PublicKey(i, 1)))
         /\ \A j \in Nat : /\ Awaits(InitiatorRatchet(PublicKey(i, 1), Signed(Peer(i))), j)
                           /\ Awaits(RecipientRatchet(Signed(Peer(i)), PublicKey(i, 1)), j)
<1> DEFINE q == Peer(i)
           a == PublicKey(i, 1)
           b == Signed(q)
           r == InitiatorRatchet(a, b)
           s == RecipientRatchet(b, a)
<1>1. q \in Devices /\ q # i /\ Peer(q) = i
  BY PeerFacts
<1>2. Own(i, i) = a /\ Own(i, q) = b
  BY <1>1 DEF Own
<1>3. /\ Nth(i, i, 0) = [secret |-> {a, b}, label |-> "DRXsend1", step |-> 0]
      /\ Nth(i, q, 0) = [secret |-> {b, a}, label |-> "DRXrecv1", step |-> 0]
  BY <1>1, <1>2 DEF Nth
<1>q. q = Peer(i)
  OBVIOUS
<1> HIDE DEF q, a, b
<1>4. /\ r.due = FALSE /\ r.local = a /\ r.remote = b /\ r.send.index = 0 /\ r.recv.index = 0
      /\ r.send.key = [secret |-> {a, b}, label |-> "DRXsend1", step |-> 0]
      /\ r.recv.key = [secret |-> {a, b}, label |-> "DRXrecv1", step |-> 0]
      /\ DOMAIN r.skipped = {}
  BY DEF InitiatorRatchet, InitialRatchet, NewChain, ChainKey, Dh, NoSkipped
<1>5. /\ s.due = FALSE /\ s.local = b /\ s.remote = a /\ s.send.index = 0 /\ s.recv.index = 0
      /\ s.send.key = [secret |-> {b, a}, label |-> "DRXrecv1", step |-> 0]
      /\ s.recv.key = [secret |-> {b, a}, label |-> "DRXsend1", step |-> 0]
      /\ DOMAIN s.skipped = {}
  BY DEF RecipientRatchet, InitialRatchet, NewChain, ChainKey, Dh, NoSkipped
<1> HIDE DEF r, s
<1>6. {a, b} = {b, a}
  OBVIOUS
<1>7. EndOf(i, i, r)
  BY <1>2, <1>3, <1>4, <1>6, <1>q DEF EndOf
<1>8. EndOf(i, q, s)
  BY <1>1, <1>2, <1>3, <1>5, <1>6 DEF EndOf
<1>9. \A j \in Nat : Awaits(r, j) /\ Awaits(s, j)
  BY <1>4, <1>5 DEF Awaits
<1> QED  BY <1>7, <1>8, <1>9 DEF r, s, a, b, q

(* Sending moves the sending half along its chain.                         *)
LEMMA EndSends ==
  ASSUME NEW i \in Devices, NEW p \in Devices, NEW r, IsRatchet(r), EndOf(i, p, r),
         NEW a, a = AdvanceSend(r)
  PROVE  /\ EndOf(i, p, a.ratchet)
         /\ a.header.dh = Own(i, p) /\ a.key = Nth(i, p, a.header.index)
         /\ \A j : Awaits(a.ratchet, j) = Awaits(r, j)
<1>1. r.send \in Chains /\ r.send.index \in Nat /\ ~r.due /\ r.send.key = Nth(i, p, r.send.index)
  BY RatchetFields DEF EndOf, Chains
<1>2. /\ a.ratchet = [due |-> FALSE, local |-> r.local, remote |-> r.remote,
                      send |-> [index |-> r.send.index + 1, key |-> KeyAfter(r.send.key, 1)],
                      recv |-> r.recv, skipped |-> r.skipped]
      /\ a.key = r.send.key
      /\ a.header = [dh |-> r.local, index |-> r.send.index, prev |-> r.recv.index]
  <2> DEFINE s == r.send
  <2>1. s = (IF r.due THEN DhChain(r.local, r.remote) ELSE r.send)
    BY <1>1
  <2> HIDE DEF s
  <2>2. /\ AdvanceSend(r).ratchet =
              [due |-> FALSE, local |-> r.local, remote |-> r.remote,
               send |-> [index |-> s.index + 1, key |-> KeyAfter(s.key, 1)],
               recv |-> r.recv, skipped |-> r.skipped]
        /\ AdvanceSend(r).key = s.key
        /\ AdvanceSend(r).header = [dh |-> r.local, index |-> s.index, prev |-> r.recv.index]
    BY <2>1, SendForm
  <2> QED  BY <2>2 DEF s
<1>3. KeyAfter(r.send.key, 1) = Nth(i, p, r.send.index + 1)
  BY <1>1, NthFacts
<1> DEFINE k == KeyAfter(r.send.key, 1)
           t == a.ratchet
<1> HIDE DEF k
<1>4. /\ t.due = FALSE /\ t.local = r.local /\ t.remote = r.remote /\ t.send.index = r.send.index + 1
      /\ t.send.key = k /\ t.recv = r.recv /\ t.skipped = r.skipped
  BY <1>2 DEF k
<1>5. a.key = r.send.key /\ a.header.dh = r.local /\ a.header.index = r.send.index
  BY <1>2
<1> HIDE DEF t
<1>6. EndOf(i, p, t)
  BY <1>3, <1>4 DEF EndOf, k
<1>7. \A j : Awaits(t, j) = Awaits(r, j)
  BY <1>4 DEF Awaits
<1> QED  BY <1>1, <1>5, <1>6, <1>7 DEF EndOf, t

(* A message that is awaited gives its key, and no other key is lost.      *)
LEMMA EndTakes ==
  ASSUME NEW i \in Devices, NEW p \in Devices, NEW r, IsRatchet(r), EndOf(i, p, r),
         NEW h \in Headers, h.dh = Own(i, Peer(p)), Awaits(r, h.index),
         NEW fresh \in PublicKeys, NEW a, a = AdvanceReceive(r, h, fresh)
  PROVE  /\ ~NewDh(r, h) /\ a.key = Nth(i, Peer(p), h.index) /\ EndOf(i, p, a.ratchet)
         /\ \A j \in Nat : Awaits(r, j) => j = h.index \/ Awaits(a.ratchet, j)
<1> DEFINE q == Peer(p)
           j0 == h.index
           c == r.recv.index
<1>1. /\ q \in Devices /\ j0 \in Nat /\ c \in Nat /\ r.recv.key = Nth(i, q, c)
  BY PeerFacts, RatchetFields DEF Headers, EndOf, Chains
<1>2. ~NewDh(r, h)
  BY DEF NewDh, EndOf
<1>3. a = (IF j0 < c THEN FromBacklog(r, j0) ELSE FromChain(r, j0))
  BY <1>2 DEF AdvanceReceive
<1>4. CASE j0 < c
  <2>1. j0 \in DOMAIN r.skipped
    BY <1>1, <1>4 DEF Awaits
  <2> DEFINE t == a.ratchet
             S == [x \in DOMAIN r.skipped \ {j0} |-> r.skipped[x]]
  <2>2. a = [ratchet |-> [due |-> r.due, local |-> r.local, remote |-> r.remote, send |-> r.send,
                          recv |-> r.recv, skipped |-> S],
             key |-> r.skipped[j0]]
    BY <1>1, <1>3, <1>4, <2>1, BacklogForm
  <2>3. DOMAIN S = DOMAIN r.skipped \ {j0} /\ \A x \in DOMAIN S : S[x] = r.skipped[x]
    OBVIOUS
  <2> HIDE DEF S
  <2>4. /\ t.due = r.due /\ t.local = r.local /\ t.remote = r.remote /\ t.send = r.send
        /\ t.recv = r.recv /\ t.skipped = S /\ a.key = r.skipped[j0]
    BY <2>2
  <2> HIDE DEF t
  <2>5. EndOf(i, p, t)
    BY <2>3, <2>4 DEF EndOf
  <2>6. a.key = Nth(i, q, j0)
    BY <2>1, <2>4 DEF EndOf
  <2>7. \A j \in Nat : Awaits(r, j) => j = j0 \/ Awaits(t, j)
    BY <2>3, <2>4 DEF Awaits
  <2> QED  BY <1>2, <2>5, <2>6, <2>7 DEF t
<1>5. CASE ~(j0 < c)
  <2> DEFINE k == KeyAfter(r.recv.key, j0 - c)
             l == KeyAfter(k, 1)
             S == StoreSkipped(r, c, j0)
             t == a.ratchet
  <2>0. j0 >= c /\ j0 - c \in Nat /\ c + (j0 - c) = j0
    BY <1>1, <1>5
  <2>1. k = Nth(i, q, j0)
    <3> DEFINE d == j0 - c
    <3>1. d \in Nat /\ c + d = j0
      BY <2>0
    <3> HIDE DEF d
    <3>2. KeyAfter(Nth(i, q, c), d) = Nth(i, q, c + d)
      BY <1>1, <3>1, NthFacts
    <3> QED  BY <1>1, <3>1, <3>2 DEF d
  <2>2. l = Nth(i, q, j0 + 1)
    BY <1>1, <2>1, NthFacts
  <2>3. a = [ratchet |-> [due |-> r.due, local |-> r.local, remote |-> r.remote, send |-> r.send,
                          recv |-> [index |-> j0 + 1, key |-> l], skipped |-> S],
             key |-> k]
    <3>1. a = FromChain(r, j0)
      BY <1>3, <1>5
    <3> HIDE DEF k
    <3>2. k = KeyAfter(r.recv.key, j0 - r.recv.index)
      BY DEF k
    <3> QED  BY <1>1, <2>0, <3>1, <3>2, ChainForm
  <2>4. /\ DOMAIN S = DOMAIN r.skipped \cup (c .. j0 - 1)
        /\ \A x \in c .. j0 - 1 : S[x] = KeyAfter(r.recv.key, x - c)
        /\ \A x \in DOMAIN r.skipped \ (c .. j0 - 1) : S[x] = r.skipped[x]
    BY DEF StoreSkipped
  <2>5. \A x \in DOMAIN S : S[x] = Nth(i, q, x)
    <3>1. ASSUME NEW x \in c .. j0 - 1 PROVE S[x] = Nth(i, q, x)
      <4> DEFINE d == x - c
      <4>1. d \in Nat /\ c + d = x
        BY <1>1
      <4> HIDE DEF d
      <4>2. KeyAfter(Nth(i, q, c), d) = Nth(i, q, c + d)
        BY <1>1, <4>1, NthFacts
      <4> QED  BY <1>1, <2>4, <4>1, <4>2 DEF d
    <3>2. ASSUME NEW x \in DOMAIN r.skipped \ (c .. j0 - 1) PROVE S[x] = Nth(i, q, x)
      BY <2>4 DEF EndOf
    <3> QED  BY <2>4, <3>1, <3>2
  <2> HIDE DEF k, l, S
  <2>6. /\ t.due = r.due /\ t.local = r.local /\ t.remote = r.remote /\ t.send = r.send
        /\ t.recv.index = j0 + 1 /\ t.recv.key = l /\ t.skipped = S /\ a.key = k
    BY <2>3
  <2> HIDE DEF t
  <2>7. EndOf(i, p, t)
    BY <2>2, <2>5, <2>6 DEF EndOf
  <2>8. ASSUME NEW j \in Nat, Awaits(r, j) PROVE j = j0 \/ Awaits(t, j)
    <3>1. j \in DOMAIN r.skipped => j \in DOMAIN S
      BY <2>4
    <3>2. j >= c => j = j0 \/ j >= j0 + 1 \/ j \in c .. j0 - 1
      BY <1>1
    <3> QED  BY <2>4, <2>6, <2>8, <3>1, <3>2 DEF Awaits
  <2> QED  BY <1>2, <2>1, <2>6, <2>7, <2>8 DEF t
<1> QED  BY <1>4, <1>5
-----------------------------------------------------------------------------
(* The messages on their way, by where the handler stands.                 *)
Way(p) == Range(mailbox[p]) \cup Range(IF Opening(p) THEN Tail(batch[p]) ELSE batch[p])

LEMMA TupleRanges ==
  /\ \A a : Range(<< a >>) = {a}
  /\ \A a, b : Range(<< a, b >>) = {a, b}
<1>1. ASSUME NEW a PROVE Range(<< a >>) = {a}
  BY DEF Range
<1>2. ASSUME NEW a, NEW b PROVE Range(<< a, b >>) = {a, b}
  <2>1. DOMAIN << a, b >> = {1, 2}
    OBVIOUS
  <2>2. << a, b >>[1] = a /\ << a, b >>[2] = b
    OBVIOUS
  <2> QED  BY <2>1, <2>2 DEF Range
<1> QED  BY <1>1, <1>2, Zenon

LEMMA TripleRange ==
  ASSUME NEW a, NEW b, NEW c
  PROVE  Range(<< a, b, c >>) = {a, b, c}
<1>1. DOMAIN << a, b, c >> = {1, 2, 3}
  OBVIOUS
<1>2. << a, b, c >>[1] = a /\ << a, b, c >>[2] = b /\ << a, b, c >>[3] = c
  OBVIOUS
<1> QED  BY <1>1, <1>2 DEF Range

LEMMA SaveSeqs == << "key" >> \in Seq(Steps) /\ Save \in Seq(Steps)
<1>1. << "key" >> \in Seq(Steps)
  BY DEF Steps
<1>2. Save \in Seq(Steps)
  BY DEF Save, Steps
<1> QED  BY <1>1, <1>2

LEMMA RangeConcat ==
  ASSUME NEW S, NEW x \in Seq(S), NEW r \in Seq(S)
  PROVE  Range(x \o r) = Range(x) \cup Range(r)
<1> DEFINE y == x \o r
<1>1. /\ Len(x) \in Nat /\ Len(r) \in Nat /\ DOMAIN x = 1 .. Len(x) /\ DOMAIN r = 1 .. Len(r)
      /\ DOMAIN y = 1 .. Len(x) + Len(r)
  OBVIOUS
<1>2. /\ \A n \in 1 .. Len(x) : y[n] = x[n]
      /\ \A n \in 1 .. Len(r) : y[Len(x) + n] = r[n]
  OBVIOUS
<1> HIDE DEF y
<1>3. \A v \in Range(x) : v \in Range(y)
  <2> SUFFICES ASSUME NEW n \in 1 .. Len(x) PROVE x[n] \in Range(y)
    BY <1>1 DEF Range
  <2>1. n \in DOMAIN y
    BY <1>1
  <2> QED  BY <1>2, <2>1 DEF Range
<1>4. \A v \in Range(r) : v \in Range(y)
  <2> SUFFICES ASSUME NEW n \in 1 .. Len(r) PROVE r[n] \in Range(y)
    BY <1>1 DEF Range
  <2>1. Len(x) + n \in DOMAIN y
    BY <1>1
  <2> QED  BY <1>2, <2>1 DEF Range
<1>5. \A v \in Range(y) : v \in Range(x) \cup Range(r)
  <2> SUFFICES ASSUME NEW n \in DOMAIN y PROVE y[n] \in Range(x) \cup Range(r)
    BY DEF Range
  <2>1. CASE n \in 1 .. Len(x)
    <3>1. y[n] = x[n] /\ n \in DOMAIN x
      BY <1>1, <1>2, <2>1
    <3> QED  BY <3>1 DEF Range
  <2>2. CASE n \notin 1 .. Len(x)
    <3> DEFINE m == n - Len(x)
    <3>1. m \in 1 .. Len(r) /\ n = Len(x) + m
      BY <1>1, <2>2
    <3> HIDE DEF m
    <3>2. y[n] = r[m] /\ m \in DOMAIN r
      BY <1>1, <1>2, <3>1
    <3> QED  BY <3>2 DEF Range
  <2> QED  BY <2>1, <2>2
<1> QED  BY <1>3, <1>4, <1>5 DEF y

(* A handler is to open a message exactly where it says so.                *)
LEMMA OpenPlaces ==
  ASSUME NEW s \in Places
  PROVE  "open" \in Range(s) <=> s \in Saving({<< "open" >>})
<1>1. ASSUME NEW r \in Seq(Steps)
      PROVE  /\ "open" \in Range(<< "key" >> \o r) <=> "open" \in Range(r)
             /\ "open" \in Range(Save \o r) <=> "open" \in Range(r)
  <2>1. ASSUME NEW x \in Seq(Steps), "open" \notin Range(x)
        PROVE  "open" \in Range(x \o r) <=> "open" \in Range(r)
    <3>1. Range(x \o r) = Range(x) \cup Range(r)
      BY RangeConcat
    <3> QED  BY <2>1, <3>1
  <2>2. << "key" >> \in Seq(Steps) /\ Save \in Seq(Steps)
    BY SaveSeqs
  <2>3. "open" \notin Range(<< "key" >>) /\ "open" \notin Range(Save)
    BY TupleRanges DEF Save
  <2> QED  BY <2>1, <2>2, <2>3
<1>2. ASSUME NEW r \in AfterSave PROVE "open" \in Range(r) <=> r = << "open" >>
  <2>1. /\ Range(<< "post handshake", "advance" >>) = {"post handshake", "advance"}
        /\ Range(<< "post handshake", "code" >>) = {"post handshake", "code"}
        /\ Range(<< "post" >>) = {"post"} /\ Range(<< "bundles", "code" >>) = {"bundles", "code"}
        /\ Range(<< "messages" >>) = {"messages"} /\ Range(<< "open" >>) = {"open"}
    BY TupleRanges, Zenon
  <2>2. r = << "open" >> \/ Range(r) \in { {"post handshake", "advance"}, {"post handshake", "code"},
          {"post"}, {"bundles", "code"}, {"messages"} }
    BY <2>1, Zenon DEF AfterSave, Posts
  <2>3. "open" \in Range(<< "open" >>)
    BY <2>1
  <2> QED  BY <2>2, <2>3
<1>3. ASSUME NEW r \in Calm PROVE "open" \notin Range(r)
  <2>1. /\ Range(<< "bundles", "advance" >>) = {"bundles", "advance"}
        /\ Range(<< "bundles", "code" >>) = {"bundles", "code"}
        /\ Range(<< "handshakes", "messages" >>) = {"handshakes", "messages"}
    BY TupleRanges, Zenon
  <2>2. Range(<< "handshakes", "bundles", "code" >>) = {"handshakes", "bundles", "code"}
    BY TripleRange, Zenon
  <2>3. /\ Range(<< "advance" >>) = {"advance"} /\ Range(<< "code" >>) = {"code"}
        /\ Range(<< "messages" >>) = {"messages"} /\ Range(<< "next message" >>) = {"next message"}
    BY TupleRanges, Zenon
  <2> DEFINE A == {"bundles", "advance", "handshakes", "code", "messages", "next message"}
  <2>4. /\ {"bundles", "advance"} \subseteq A /\ {"bundles", "code"} \subseteq A
        /\ {"handshakes", "messages"} \subseteq A
        /\ {"handshakes", "bundles", "code"} \subseteq A /\ {"advance"} \subseteq A
        /\ {"code"} \subseteq A /\ {"messages"} \subseteq A /\ {"next message"} \subseteq A
    OBVIOUS
  <2>5. "open" \notin A
    OBVIOUS
  <2> HIDE DEF A
  <2>6. r = << >> \/ Range(r) \subseteq A
    BY <2>1, <2>2, <2>3, <2>4, Zenon DEF Calm
  <2>7. Range(r) \subseteq A
    BY <2>6, RangeEmpty
  <2> QED  BY <2>5, <2>7
<1>4. ASSUME NEW r \in AfterSave
      PROVE  /\ r \in Saving({<< "open" >>}) <=> r = << "open" >>
             /\ << "key" >> \o r \in Saving({<< "open" >>}) <=> r = << "open" >>
             /\ Save \o r \in Saving({<< "open" >>}) <=> r = << "open" >>
  <2>1. {<< "open" >>} \in SUBSET AfterSave
    BY DEF AfterSave
  <2> QED  BY <2>1, SavingUnique
<1>5. CASE s \in Calm
  BY <1>3, <1>5, CalmFacts
<1>6. CASE s \in Saving(AfterSave)
  <2>1. PICK r \in AfterSave : s = r \/ s = << "key" >> \o r \/ s = Save \o r
    BY <1>6 DEF Saving
  <2>2. r \in Seq(Steps)
    BY RestsAreSeqs
  <2>3. /\ "open" \in Range(<< "key" >> \o r) <=> "open" \in Range(r)
        /\ "open" \in Range(Save \o r) <=> "open" \in Range(r)
    BY <1>1, <2>2
  <2>4. "open" \in Range(r) <=> r = << "open" >>
    BY <1>2
  <2>5. /\ r \in Saving({<< "open" >>}) <=> r = << "open" >>
        /\ << "key" >> \o r \in Saving({<< "open" >>}) <=> r = << "open" >>
        /\ Save \o r \in Saving({<< "open" >>}) <=> r = << "open" >>
    BY <1>4
  <2> QED  BY <2>1, <2>3, <2>4, <2>5, Zenon
<1> QED  BY <1>5, <1>6 DEF Places

LEMMA WayForm == Inv => \A p \in Devices : OnTheWay(p) = Way(p)
BY OpenPlaces DEF Inv, Types, OnTheWay, Way, Opening

-----------------------------------------------------------------------------
(* What waits for p was posted, each message once.                         *)
Flow(p) ==
  /\ Range(mailbox[p]) \cup Range(batch[p]) \subseteq posted[Peer(p)]
  /\ IsInjective(mailbox[p]) /\ IsInjective(batch[p])
  /\ Range(mailbox[p]) \cap Range(batch[p]) = {}

(* What the ratchet r of p awaits no more has been posted, and reached p.  *)
HeardOf(r, sent, msgs, way) ==
  \A j \in Nat : ~Awaits(r, j) => \E m \in sent \ way : msgs[m].header.index = j
Heard(p, r) == HeardOf(r, posted[Peer(p)], draft[Peer(p)], Way(p))
Hears(p) ==
  /\ Known(p) => Heard(p, mem[p])
  /\ row[p].keyed => Heard(p, row[p].ratchet)

OnChain(i, p) ==
  /\ Known(p) => EndOf(i, p, mem[p])
  /\ row[p].ratchet # NoRatchet => EndOf(i, p, row[p].ratchet)
  /\ \A n \in DOMAIN draft[p] : MessageOf(i, p, draft[p][n])

Sole(i) == made[i] = 2 /\ made[Peer(i)] = 1
Fresh == \A p \in Devices : made[p] = 1
Blank(p) == ~Known(p) /\ row[p].ratchet = NoRatchet /\ draft[p] = << >>

SoleInv ==
  /\ \A p \in Devices : (row[p].keyed => Known(p)) /\ Flow(p)
  /\ \A i \in Devices : Sole(i) => \A p \in Devices : OnChain(i, p) /\ Hears(p)
  /\ Fresh => \A p \in Devices : Blank(p)

(* A message on its way is awaited: the one that was taken under its index *)
(* would have been another message under the same key.                     *)
LEMMA WayAwaited ==
  ASSUME Inv, SoleInv, NEW i \in Devices, Sole(i), NEW p \in Devices, Known(p), NEW n \in Way(p)
  PROVE  /\ draft[Peer(p)][n] \in Messages /\ MessageOf(i, Peer(p), draft[Peer(p)][n])
         /\ Awaits(mem[p], draft[Peer(p)][n].header.index)
<1> DEFINE q == Peer(p)
<1>1. q \in Devices
  BY PeerFacts
<1>2. /\ Flow(p) /\ Heard(p, mem[p]) /\ Prepared(p) /\ Prepared(q) /\ Distinct(q) /\ Types
      /\ OnChain(i, q)
  BY <1>1 DEF Inv, SoleInv, Hears, Safe
<1>3. n \in posted[q]
  <2>1. CASE n \in Range(mailbox[p]) \cup Range(batch[p])
    BY <1>2, <2>1 DEF Flow
  <2>2. CASE Opening(p) /\ n \in Range(Tail(batch[p]))
    <3>1. batch[p] # << >> /\ batch[p] \in Seq(Nat)
      BY <1>2, <2>2 DEF Prepared, Types
    <3>2. n \in Range(batch[p])
      BY <2>2, <3>1, RangeTail
    <3> QED  BY <1>2, <3>2 DEF Flow
  <2> QED  BY <2>1, <2>2 DEF Way
<1>4. n \in DOMAIN draft[q] /\ draft[q][n] \in Messages
  <2>1. posted[q] \subseteq DOMAIN draft[q] /\ draft[q] \in Seq(Messages)
    BY <1>1, <1>2 DEF Prepared, Types
  <2> QED  BY <1>3, <2>1
<1>5. MessageOf(i, q, draft[q][n])
  BY <1>2, <1>4 DEF OnChain
<1>6. Awaits(mem[p], draft[q][n].header.index)
  <2> SUFFICES ASSUME ~Awaits(mem[p], draft[q][n].header.index) PROVE FALSE
    OBVIOUS
  <2>1. draft[q][n].header.index \in Nat
    BY <1>4 DEF Messages, Headers
  <2>2. PICK m \in posted[q] \ Way(p) : draft[q][m].header.index = draft[q][n].header.index
    BY <1>2, <2>1 DEF Heard, HeardOf
  <2>3. m \in DOMAIN draft[q]
    BY <1>2, <2>2 DEF Prepared
  <2>4. draft[q][m].key = draft[q][n].key
    BY <1>2, <1>5, <2>2, <2>3 DEF OnChain, MessageOf
  <2> QED  BY <1>2, <1>3, <2>2, <2>4 DEF Distinct
<1> QED  BY <1>4, <1>5, <1>6

LEMMA SoleReadable == Inv /\ SoleInv => SoleSessionReadable
<1> SUFFICES ASSUME Inv, SoleInv, made[Alice] + made[Bob] = 3, NEW p \in Devices, Known(p),
                    NEW n \in OnTheWay(p)
             PROVE  AdvanceReceive(mem[p], draft[Peer(p)][n].header, PublicKey(p, made[p])).key
                      = draft[Peer(p)][n].key
  BY DEF SoleSessionReadable
<1>1. PICK i \in Devices : Sole(i)
  <2>1. made[Alice] \in Nat /\ made[Bob] \in Nat /\ made[Alice] >= 1 /\ made[Bob] >= 1
    BY DEF Inv, Types, Devices
  <2>2. Peer(Alice) = Bob /\ Peer(Bob) = Alice
    BY TwoDevices DEF Peer
  <2>3. Sole(Alice) \/ Sole(Bob)
    BY <2>1, <2>2 DEF Sole
  <2> QED  BY <2>3 DEF Devices
<1>2. n \in Way(p)
  BY WayForm
<1> DEFINE h == draft[Peer(p)][n].header
           r == mem[p]
           fresh == PublicKey(p, made[p])
           a == AdvanceReceive(r, h, fresh)
<1>3. draft[Peer(p)][n] \in Messages /\ MessageOf(i, Peer(p), draft[Peer(p)][n]) /\ Awaits(r, h.index)
  BY <1>1, <1>2, WayAwaited
<1>4. IsRatchet(r) /\ EndOf(i, p, r) /\ made[p] \in Nat
  BY <1>1 DEF Inv, Types, SoleInv, OnChain
<1>5. h \in Headers /\ h.dh = Own(i, Peer(p)) /\ fresh \in PublicKeys
  BY <1>3, <1>4, PublicKeyFacts DEF Messages, MessageOf
<1>6. draft[Peer(p)][n].key = Nth(i, Peer(p), h.index)
  BY <1>3 DEF MessageOf
<1>7. a = AdvanceReceive(r, h, fresh)
  OBVIOUS
<1> HIDE DEF r, h, fresh, a
<1>8. a.key = Nth(i, Peer(p), h.index)
  BY <1>3, <1>4, <1>5, <1>7, EndTakes
<1> QED  BY <1>6, <1>8 DEF a, r, h, fresh
-----------------------------------------------------------------------------
LEMMA Injections ==
  ASSUME NEW s \in Seq(Nat), IsInjective(s)
  PROVE  /\ IsInjective(<< >>)
         /\ s # << >> => IsInjective(Tail(s)) /\ Head(s) \notin Range(Tail(s))
         /\ \A n \in Nat : n \notin Range(s) => IsInjective(Append(s, n))
<1>1. IsInjective(<< >>)
  BY DEF IsInjective
<1>2. ASSUME s # << >> PROVE IsInjective(Tail(s)) /\ Head(s) \notin Range(Tail(s))
  <2> DEFINE t == Tail(s)
  <2>1. Len(s) \in Nat /\ Len(s) >= 1 /\ DOMAIN s = 1 .. Len(s) /\ Head(s) = s[1]
    BY <1>2
  <2>2. DOMAIN t = 1 .. Len(s) - 1 /\ \A i \in 1 .. Len(s) - 1 : t[i] = s[i + 1]
    BY <1>2, HeadTailProperties
  <2> HIDE DEF t
  <2>3. \A i \in 1 .. Len(s) - 1 : i + 1 \in 1 .. Len(s) /\ i + 1 # 1
    BY <2>1
  <2>4. Head(s) \notin Range(t)
    <3>1. \A i \in 1 .. Len(s) - 1 : t[i] # s[1]
      BY <2>1, <2>2, <2>3 DEF IsInjective
    <3> QED  BY <2>1, <2>2, <3>1 DEF Range
  <2>5. ASSUME NEW i \in DOMAIN t, NEW j \in DOMAIN t, t[i] = t[j] PROVE i = j
    <3>1. i + 1 = j + 1
      BY <2>1, <2>2, <2>3, <2>5 DEF IsInjective
    <3> QED  BY <2>1, <2>2, <3>1
  <2> QED  BY <2>4, <2>5 DEF IsInjective, t
<1>3. ASSUME NEW n \in Nat, n \notin Range(s) PROVE IsInjective(Append(s, n))
  <2> DEFINE t == Append(s, n)
  <2>1. /\ DOMAIN t = DOMAIN s \cup {Len(s) + 1} /\ t[Len(s) + 1] = n
        /\ \A i \in DOMAIN s : t[i] = s[i]
    BY RangeAppend
  <2>2. \A i \in DOMAIN s : s[i] # n
    BY <1>3 DEF Range
  <2> HIDE DEF t
  <2> QED  BY <2>1, <2>2 DEF IsInjective, t
<1> QED  BY <1>1, <1>2, <1>3

(* The batch is dropped, fetched or gone on with.                          *)
Drains(p) ==
  \/ batch'[p] = << >> /\ mailbox'[p] \in {mailbox[p], << >>}
  \/ batch'[p] = mailbox[p] /\ mailbox'[p] = << >>
  \/ /\ Opening(p) /\ batch[p] # << >>
     /\ batch'[p] = Tail(batch[p]) /\ mailbox'[p] = mailbox[p]

(* A step that makes, saves, prepares and posts nothing.                   *)
Settles(p) ==
  /\ Known(p)' => \/ Known(p) /\ mem'[p] = mem[p]
                  \/ mem'[p] = row[p].ratchet /\ row[p].keyed
  /\ row[p].keyed => Known(p)'
  /\ UNCHANGED <<row, made, draft, posted>>
  /\ Drains(p) /\ ~Opening(p)'
  /\ \A d \in Devices \ {p} :
       mem'[d] = mem[d] /\ todo'[d] = todo[d] /\ batch'[d] = batch[d] /\ mailbox'[d] = mailbox[d]

LEMMA DrainsFlow ==
  ASSUME Inv, NEW p \in Devices, Flow(p), Drains(p), ~Opening(p)'
  PROVE  /\ Way(p)' \subseteq Way(p)
         /\ UNCHANGED posted => Flow(p)'
<1>1. /\ mailbox[p] \in Seq(Nat) /\ batch[p] \in Seq(Nat)
      /\ IsInjective(mailbox[p]) /\ IsInjective(batch[p])
      /\ Range(mailbox[p]) \cup Range(batch[p]) \subseteq posted[Peer(p)]
      /\ Range(mailbox[p]) \cap Range(batch[p]) = {}
  BY DEF Inv, Types, Flow
<1>2. IsInjective(<< >>) /\ Range(<< >>) = {}
  BY <1>1, Injections, RangeEmpty
<1>3. Way(p)' = Range(mailbox'[p]) \cup Range(batch'[p])
  BY DEF Way
<1>4. CASE batch'[p] = << >> /\ mailbox'[p] \in {mailbox[p], << >>}
  BY <1>1, <1>2, <1>3, <1>4 DEF Way, Flow
<1>5. CASE batch'[p] = mailbox[p] /\ mailbox'[p] = << >>
  BY <1>1, <1>2, <1>3, <1>5 DEF Way, Flow
<1>6. CASE /\ Opening(p) /\ batch[p] # << >>
           /\ batch'[p] = Tail(batch[p]) /\ mailbox'[p] = mailbox[p]
  <2>1. IsInjective(Tail(batch[p])) /\ Range(Tail(batch[p])) \subseteq Range(batch[p])
    BY <1>1, <1>6, Injections, RangeTail
  <2> QED  BY <1>1, <1>3, <1>6, <2>1 DEF Way, Flow
<1> QED  BY <1>4, <1>5, <1>6 DEF Drains

LEMMA SettlesSole ==
  ASSUME Inv, SoleInv, NEW p \in Devices, Settles(p)
  PROVE  SoleInv'
<1> DEFINE q == Peer(p)
<1>1. /\ q \in Devices \ {p} /\ q \in Devices /\ Peer(q) = p /\ \A d \in Devices : d = p \/ d = q
  BY PeerFacts
<1>q. q = Peer(p)
  OBVIOUS
<1> HIDE DEF q
<1>2. /\ mem'[q] = mem[q] /\ todo'[q] = todo[q] /\ batch'[q] = batch[q] /\ mailbox'[q] = mailbox[q]
      /\ UNCHANGED <<row, made, draft, posted>>
  BY <1>1 DEF Settles
<1>3. Flow(p) /\ Flow(q) /\ (row[p].keyed => Known(p)) /\ (row[q].keyed => Known(q)) /\ Types
  BY <1>1 DEF SoleInv, Inv
<1>4. Way(p)' \subseteq Way(p) /\ Flow(p)'
  BY <1>2, <1>3, DrainsFlow DEF Settles
<1>5. Way(q)' = Way(q) /\ Flow(q)' /\ Known(q)' = Known(q)
  BY <1>2, <1>3 DEF Way, Flow, Known, Opening
<1>6. ASSUME NEW i \in Devices, Sole(i)'
      PROVE  OnChain(i, p)' /\ OnChain(i, q)' /\ Hears(p)' /\ Hears(q)'
  <2>1. OnChain(i, p) /\ OnChain(i, q) /\ Hears(p) /\ Hears(q)
    BY <1>1, <1>2, <1>6 DEF SoleInv, Sole
  <2>2. row[p].keyed => row[p].ratchet # NoRatchet
    BY <1>3 DEF Types
  <2>3. OnChain(i, p)' /\ OnChain(i, q)'
    BY <1>2, <1>5, <2>1, <2>2 DEF OnChain, Settles
  <2>4. ASSUME NEW r, Heard(p, r) PROVE HeardOf(r, posted'[q], draft'[q], Way(p)')
    BY <1>2, <1>4, <1>q, <2>4 DEF Heard, HeardOf
  <2>5. Hears(p)'
    BY <1>2, <1>q, <2>1, <2>4 DEF Hears, Heard, Settles
  <2>6. Hears(q)'
    BY <1>1, <1>2, <1>5, <2>1 DEF Hears, Heard
  <2> QED  BY <2>1, <2>3, <2>5, <2>6
<1>7. Fresh' => Blank(p)' /\ Blank(q)'
  <2> SUFFICES ASSUME Fresh' PROVE Blank(p)' /\ Blank(q)'
    OBVIOUS
  <2>1. Blank(p) /\ Blank(q)
    BY <1>1, <1>2 DEF SoleInv, Fresh
  <2> QED  BY <1>2, <1>3, <1>5, <2>1 DEF Blank, Settles, Types
<1>8. (row'[p].keyed => Known(p)') /\ (row'[q].keyed => Known(q)')
  BY <1>2, <1>3, <1>5 DEF Settles
<1> QED  BY <1>1, <1>4, <1>5, <1>6, <1>7, <1>8 DEF SoleInv

(* Light steps drain the batch, fetch one or go through it.                *)
LEMMA LightSettles ==
  ASSUME Inv, SoleInv, NEW p \in Devices, Light(p), Drains(p)
  PROVE  Settles(p)
<1>1. Types /\ (row[p].keyed => Known(p))
  BY DEF Inv, SoleInv
<1>2. /\ Known(p)' => \/ Known(p) /\ mem'[p] = mem[p]
                      \/ mem'[p] = row[p].ratchet /\ row[p].keyed
      /\ todo'[p] \in Calm /\ UNCHANGED <<row, made, draft, posted>>
      /\ \A d \in Devices \ {p} :
           mem'[d] = mem[d] /\ todo'[d] = todo[d] /\ batch'[d] = batch[d] /\ mailbox'[d] = mailbox[d]
  BY LightFacts
<1>3. ASSUME row[p].keyed PROVE Known(p)'
  <2>1. mem[p] # NoRatchet /\ Loaded(p) # NoRatchet
    BY <1>1, <1>3 DEF Types, Loaded, Known
  <2>2. mem'[p] \in {mem[p], Loaded(p)}
    <3>1. DOMAIN mem = Devices
      BY <1>1 DEF Types
    <3> QED  BY <3>1 DEF Light, Reloads
  <2> QED  BY <2>1, <2>2 DEF Known
<1>4. ~Opening(p)'
  BY <1>2, CalmFacts DEF Opening
<1> QED  BY <1>2, <1>3, <1>4 DEF Settles

LEMMA LightSole ==
  ASSUME Inv, SoleInv, NEW p \in Devices,
         \/ StartSend(p) \/ Refresh(p) \/ BundlesFail(p) \/ BundlesEmpty(p) \/ BundleUnusable(p)
         \/ ShowCode(p) \/ NothingToSend(p) \/ SaveFails(p) \/ UnknownSender(p) \/ CannotOpen(p)
         \/ NoHandshakes(p) \/ IgnoreHandshakes(p) \/ FetchMessages(p)
         \/ NoMoreMessages(p) \/ OpenMessage(p) \/ Crash(p)
  PROVE  SoleInv'
<1>1. Light(p)
  BY StartsAreLight, BundlesAreLight, ThrowsAreLight, BacklogsAreLight, FetchIsLight,
     GoingThroughIsLight, CrashIsLight
<1>2. Types /\ Prepared(p)
  BY DEF Inv, Safe
<1>3. todo[p] \in Places /\ batch \in [Devices -> Seq(Nat)] /\ mailbox \in [Devices -> Seq(Nat)]
  BY <1>2 DEF Types
<1>4. CASE \/ StartSend(p) \/ Refresh(p)
  <2>1. batch[p] = << >>
    BY <1>4, IdleBatch DEF StartSend, Refresh
  <2> QED  BY <1>1, <1>4, <2>1, LightSettles, SettlesSole DEF StartSend, Refresh, Drains, server
<1>5. CASE \/ BundlesFail(p) \/ BundlesEmpty(p) \/ BundleUnusable(p) \/ ShowCode(p) \/ NothingToSend(p)
           \/ NoHandshakes(p) \/ IgnoreHandshakes(p)
  <2>1. batch[p] = << >>
    <3>1. ~Idle(p) /\ Head(todo[p]) \in {"bundles", "code", "advance", "handshakes"}
      BY <1>5 DEF BundlesFail, BundlesEmpty, BundleUnusable, ShowCode, NothingToSend,
           NoHandshakes, IgnoreHandshakes, AtStep
    <3> QED  BY <3>1, NoBatch
  <2>2. mailbox' = mailbox /\ (batch' = batch \/ batch' = [batch EXCEPT ![p] = << >>])
    BY <1>5 DEF BundlesFail, BundlesEmpty, BundleUnusable, ShowCode, NothingToSend,
           NoHandshakes, IgnoreHandshakes, Throw, server
  <2>3. Drains(p)
    BY <1>3, <2>1, <2>2 DEF Drains
  <2> QED  BY <1>1, <2>3, LightSettles, SettlesSole
<1>6. CASE SaveFails(p) \/ UnknownSender(p) \/ CannotOpen(p) \/ Crash(p)
  <2>1. mailbox' = mailbox /\ batch' = [batch EXCEPT ![p] = << >>]
    BY <1>6 DEF SaveFails, UnknownSender, CannotOpen, Crash, Throw, server
  <2>2. Drains(p)
    BY <1>3, <2>1 DEF Drains
  <2> QED  BY <1>1, <2>2, LightSettles, SettlesSole
<1>7. CASE FetchMessages(p)
  <2>1. ~Idle(p) /\ todo[p] # << >> /\ Head(todo[p]) = "messages"
    BY <1>7 DEF FetchMessages, AtStep, Idle
  <2>2. batch[p] = << >>
    <3>1. todo[p] = << "messages" >> /\ << "messages" >> \in Calm
      BY <1>3, <2>1, SaveLeft, OtherLeft DEF Calm
    <3>2. ~Opening(p)
      BY <3>1, CalmFacts DEF Opening
    <3>3. << "messages" >> # << "next message" >>
      <4>1. Head(<< "messages" >>) = "messages" /\ Head(<< "next message" >>) = "next message"
        BY OneHead, Zenon
      <4> QED  BY <4>1
    <3> QED  BY <1>2, <3>1, <3>2, <3>3 DEF Prepared
  <2>3. \/ /\ batch' = [batch EXCEPT ![p] = mailbox[p]] /\ mailbox' = [mailbox EXCEPT ![p] = << >>]
        \/ /\ batch' = batch /\ mailbox' \in {mailbox, [mailbox EXCEPT ![p] = << >>]}
    BY <1>7 DEF FetchMessages
  <2>4. Drains(p)
    BY <1>3, <2>2, <2>3 DEF Drains
  <2> QED  BY <1>1, <2>4, LightSettles, SettlesSole
<1>8. CASE NoMoreMessages(p)
  BY <1>1, <1>8, LightSettles, SettlesSole DEF NoMoreMessages, Drains, server
<1>9. CASE OpenMessage(p)
  <2>1. /\ todo[p] # << >> /\ Head(todo[p]) = "open" /\ mailbox' = mailbox
        /\ batch' = [batch EXCEPT ![p] = Tail(@)]
    BY <1>9 DEF OpenMessage, AtStep, Idle, server
  <2>2. Opening(p)
    <3>1. todo[p] = << "open" >>
      BY <1>3, <2>1, SaveLeft, OtherLeft
    <3> QED  BY <3>1 DEF Opening, Saving
  <2>3. Drains(p)
    BY <1>2, <1>3, <2>1, <2>2 DEF Drains, Prepared
  <2> QED  BY <1>1, <2>3, LightSettles, SettlesSole
<1> QED  BY <1>4, <1>5, <1>6, <1>7, <1>8, <1>9

LEMMA PostHandshakeSole ==
  ASSUME Inv, SoleInv, NEW p \in Devices, PostHandshake(p)
  PROVE  SoleInv'
<1>1. Types /\ todo[p] \in Places /\ DOMAIN todo = Devices
  BY DEF Inv, Types
<1>2. /\ ~Idle(p) /\ todo[p] # << >> /\ Head(todo[p]) = "post handshake" /\ GoOn(p, << >>)
      /\ UNCHANGED <<mem, row, made, draft, batch, mailbox, posted>>
  BY DEF PostHandshake, AtStep, Idle
<1>3. batch[p] = << >>
  BY <1>2, NoBatch
<1>4. << >> \o Tail(todo[p]) \in Calm
  BY <1>1, <1>2, OnFromCalm
<1>5. todo'[p] \in Calm /\ \A d \in Devices \ {p} : todo'[d] = todo[d]
  BY <1>1, <1>2, <1>4 DEF GoOn
<1>6. ~Opening(p)'
  BY <1>5, CalmFacts DEF Opening
<1>7. row[p].keyed => Known(p)
  BY DEF SoleInv
<1>8. Settles(p)
  BY <1>2, <1>3, <1>5, <1>6, <1>7 DEF Settles, Drains, Known
<1> QED  BY <1>8, SettlesSole

-----------------------------------------------------------------------------
(* What is saved is what is in memory.                                     *)
LEMMA SaveSole ==
  ASSUME Inv, SoleInv, NEW p \in Devices, SaveRow(p) \/ SaveKey(p)
  PROVE  SoleInv'
<1> DEFINE q == Peer(p)
<1>1. /\ q \in Devices \ {p} /\ q \in Devices /\ q # p /\ Peer(q) = p
      /\ \A d \in Devices : d = p \/ d = q
  BY PeerFacts
<1>q. q = Peer(p)
  OBVIOUS
<1> HIDE DEF q
<1>2. Types /\ Saved(p)
  BY DEF Inv, Safe
<1>3. /\ UNCHANGED <<mem, made, draft, batch, mailbox, posted>> /\ GoOn(p, << >>)
      /\ AtStep(p, "row") \/ AtStep(p, "key")
  BY DEF SaveRow, SaveKey, server
<1>4. Known(p) /\ Known(p)' /\ Known(q)' = Known(q)
  BY <1>2, <1>3 DEF Saved, Known
<1>5. /\ todo'[q] = todo[q] /\ Opening(p)' = Opening(p) /\ Opening(q)' = Opening(q)
  BY <1>1, <1>3, SaveMoves DEF Opening
<1>6. row'[q] = row[q] /\ row'[p].ratchet = mem[p]
  <2>1. CASE SaveRow(p)
    BY <1>1, <1>2, <2>1 DEF SaveRow, Types
  <2>2. CASE SaveKey(p)
    <3>1. row[p] = [ratchet |-> row[p].ratchet, keyed |-> row[p].keyed] /\ DOMAIN row = Devices
      BY <1>2 DEF Types
    <3>2. row' = [row EXCEPT ![p] = [row[p] EXCEPT !.keyed = TRUE]] /\ AtStep(p, "key")
      BY <2>2 DEF SaveKey
    <3>3. [row[p] EXCEPT !.keyed = TRUE] = [ratchet |-> row[p].ratchet, keyed |-> TRUE]
      BY <3>1, KeyedChanged
    <3> QED  BY <1>1, <1>2, <3>1, <3>2, <3>3 DEF Saved
  <2> QED  BY <2>1, <2>2
<1>7. Way(p)' = Way(p) /\ Way(q)' = Way(q) /\ (Flow(p) => Flow(p)') /\ (Flow(q) => Flow(q)')
  BY <1>3, <1>5 DEF Way, Flow
<1>8. ASSUME NEW i \in Devices, Sole(i)'
      PROVE  OnChain(i, p)' /\ OnChain(i, q)' /\ Hears(p)' /\ Hears(q)'
  <2>1. OnChain(i, p) /\ OnChain(i, q) /\ Hears(p) /\ Hears(q)
    BY <1>1, <1>3, <1>8 DEF SoleInv, Sole
  <2>2. OnChain(i, p)' /\ OnChain(i, q)'
    BY <1>3, <1>4, <1>6, <2>1 DEF OnChain
  <2>3. Hears(p)' /\ Hears(q)'
    BY <1>1, <1>3, <1>4, <1>6, <1>7, <2>1, <1>q DEF Hears, Heard
  <2> QED  BY <2>2, <2>3
<1>9. ~Fresh'
  BY <1>3, <1>4 DEF SoleInv, Fresh, Blank
<1>10. (row'[p].keyed => Known(p)') /\ (row'[q].keyed => Known(q)')
  BY <1>1, <1>4, <1>6 DEF SoleInv
<1>11. Flow(p)' /\ Flow(q)'
  BY <1>1, <1>7 DEF SoleInv
<1> QED  BY <1>1, <1>8, <1>9, <1>10, <1>11 DEF SoleInv

(* A message that is posted is one the other end has not heard.            *)
LEMMA PostedSole ==
  ASSUME Inv, SoleInv, NEW p \in Devices, Posted(p)
  PROVE  SoleInv'
<1> DEFINE q == Peer(p)
           n == Len(draft[p])
<1>1. /\ q \in Devices \ {p} /\ q \in Devices /\ q # p /\ Peer(q) = p
      /\ \A d \in Devices : d = p \/ d = q
  BY PeerFacts
<1>q. q = Peer(p)
  OBVIOUS
<1> HIDE DEF q
<1>2. Types /\ NextBehind(p) /\ Prepared(p) /\ Prepared(q) /\ Flow(p) /\ Flow(q)
  BY <1>1 DEF Inv, Safe, SoleInv
<1>3. /\ UNCHANGED <<mem, row, made, draft, batch>> /\ AtStep(p, "post")
      /\ mailbox' = [mailbox EXCEPT ![q] = Append(@, n)]
      /\ posted' = [posted EXCEPT ![p] = @ \cup {n}]
      /\ todo' = [todo EXCEPT ![p] = << >>]
  BY <1>q DEF Posted, ServerTakes
<1>4. Sending(p) /\ ~Opening(p) /\ batch[p] = << >>
  BY <1>3, AtPost
<1>5. n \in Nat /\ n \notin posted[p]
  <2>1. draft[p] \in Seq(Messages)
    BY <1>2 DEF Types
  <2> QED  BY <1>2, <1>4, <2>1 DEF NextBehind
<1> HIDE DEF n
<1>6. /\ mailbox'[p] = mailbox[p] /\ mailbox'[q] = Append(mailbox[q], n)
      /\ posted'[p] = posted[p] \cup {n} /\ posted'[q] = posted[q]
      /\ todo'[p] = << >> /\ todo'[q] = todo[q] /\ mailbox[q] \in Seq(Nat)
  BY <1>1, <1>2, <1>3 DEF Types
<1>7. /\ Range(mailbox'[q]) = Range(mailbox[q]) \cup {n}
      /\ IsInjective(mailbox[q]) /\ n \notin Range(mailbox[q]) \cup Range(batch[q])
      /\ IsInjective(mailbox'[q])
  <2>1. IsInjective(mailbox[q]) /\ n \notin Range(mailbox[q]) \cup Range(batch[q])
    BY <1>1, <1>2, <1>5 DEF Flow
  <2>2. Range(Append(mailbox[q], n)) = Range(mailbox[q]) \cup {n}
    BY <1>5, <1>6, RangeAppend
  <2>3. IsInjective(Append(mailbox[q], n))
    BY <1>5, <1>6, <2>1, Injections
  <2> QED  BY <1>6, <2>1, <2>2, <2>3
<1>8. ~Opening(p)' /\ Opening(q)' = Opening(q) /\ Known(p)' = Known(p) /\ Known(q)' = Known(q)
  <2>1. << >> \in Calm
    BY DEF Calm
  <2> QED  BY <1>3, <1>6, <2>1, CalmFacts DEF Opening, Known
<1>9. Way(p)' = Way(p) /\ Way(q)' = Way(q) \cup {n}
  BY <1>3, <1>4, <1>6, <1>7, <1>8 DEF Way
<1>10. Flow(p)' /\ Flow(q)'
  <2>1. Flow(p)'
    BY <1>2, <1>3, <1>6, <1>q DEF Flow
  <2>2. Flow(q)'
    BY <1>1, <1>2, <1>3, <1>6, <1>7 DEF Flow
  <2> QED  BY <2>1, <2>2
<1>11. ASSUME NEW i \in Devices, Sole(i)'
       PROVE  OnChain(i, p)' /\ OnChain(i, q)' /\ Hears(p)' /\ Hears(q)'
  <2>1. OnChain(i, p) /\ OnChain(i, q) /\ Hears(p) /\ Hears(q)
    BY <1>1, <1>3, <1>11 DEF SoleInv, Sole
  <2>2. OnChain(i, p)' /\ OnChain(i, q)'
    BY <1>3, <1>8, <2>1 DEF OnChain
  <2>3. Hears(p)'
    BY <1>3, <1>6, <1>8, <1>9, <2>1, <1>q DEF Hears, Heard
  <2>4. ASSUME NEW r, Heard(q, r) PROVE HeardOf(r, posted'[p], draft'[p], Way(q)')
    BY <1>1, <1>3, <1>5, <1>6, <1>9, <2>4 DEF Heard, HeardOf
  <2>5. Hears(q)'
    BY <1>1, <1>3, <1>8, <2>1, <2>4 DEF Hears, Heard
  <2> QED  BY <2>2, <2>3, <2>5
<1>12. Fresh' => Blank(p)' /\ Blank(q)'
  BY <1>1, <1>3, <1>8 DEF SoleInv, Fresh, Blank
<1>13. (row'[p].keyed => Known(p)') /\ (row'[q].keyed => Known(q)')
  BY <1>1, <1>3, <1>8 DEF SoleInv
<1> QED  BY <1>1, <1>10, <1>11, <1>12, <1>13 DEF SoleInv

LEMMA PostsSole ==
  ASSUME Inv, SoleInv, NEW p \in Devices, Post(p) \/ PostFails(p)
  PROVE  SoleInv'
<1>1. CASE Posted(p)
  BY <1>1, PostedSole
<1>2. CASE Light(p)
  <2>1. AtStep(p, "post") /\ Types
    BY DEF Post, PostFails, Inv
  <2>2. batch[p] = << >>
    BY <2>1, AtPost
  <2>3. /\ \E b \in {mailbox[p], << >>} : mailbox' = [mailbox EXCEPT ![p] = b]
        /\ UNCHANGED posted
    BY <1>2 DEF Light, Loses
  <2>4. batch'[p] = << >>
    <3>1. batch' = batch \/ batch' = [batch EXCEPT ![p] = << >>]
      BY DEF Post, PostFails, Throw
    <3> QED  BY <2>1, <2>2, <3>1 DEF Types
  <2>5. mailbox'[p] \in {mailbox[p], << >>}
    BY <2>1, <2>3 DEF Types
  <2>6. Drains(p)
    BY <2>4, <2>5 DEF Drains
  <2> QED  BY <1>2, <2>6, LightSettles, SettlesSole
<1> QED  BY <1>1, <1>2, PostsArePosted

-----------------------------------------------------------------------------
(* A session is made, and the step touches nothing that waits.             *)
Makes(p, r) ==
  /\ mem' = [mem EXCEPT ![p] = r] /\ r # NoRatchet
  /\ ~Opening(p) /\ ~Opening(p)'
  /\ UNCHANGED <<row, batch, mailbox, posted>>
  /\ draft'[Peer(p)] = draft[Peer(p)] /\ todo'[Peer(p)] = todo[Peer(p)]
  /\ \A n \in posted[p] : draft'[p][n] = draft[p][n]

LEMMA MakesSole ==
  ASSUME Inv, SoleInv, NEW p \in Devices, NEW r, Makes(p, r), ~Fresh',
         \A i \in Devices : Sole(i)' =>
            /\ Sole(i) \/ (Blank(p) /\ Blank(Peer(p)))
            /\ EndOf(i, p, r)
            /\ \A n \in DOMAIN draft'[p] : MessageOf(i, p, draft'[p][n])
            /\ \A j \in Nat : Known(p) /\ Awaits(mem[p], j) => Awaits(r, j)
            /\ ~Known(p) => \A j \in Nat : Awaits(r, j)
  PROVE  SoleInv'
<1> DEFINE q == Peer(p)
<1>1. /\ q \in Devices \ {p} /\ q \in Devices /\ q # p /\ Peer(q) = p
      /\ \A d \in Devices : d = p \/ d = q
  BY PeerFacts
<1>q. q = Peer(p)
  OBVIOUS
<1> HIDE DEF q
<1>2. Types /\ Flow(p) /\ Flow(q) /\ (row[p].keyed => Known(p)) /\ (row[q].keyed => Known(q))
  BY <1>1 DEF Inv, SoleInv
<1>3. /\ UNCHANGED <<row, batch, mailbox, posted>> /\ mem'[p] = r /\ mem'[q] = mem[q]
      /\ draft'[q] = draft[q] /\ todo'[q] = todo[q]
      /\ \A n \in posted[p] : draft'[p][n] = draft[p][n]
  BY <1>1, <1>2, <1>q DEF Makes, Types
<1>4. Known(p)' /\ Known(q)' = Known(q) /\ Opening(q)' = Opening(q) /\ Opening(p)' = Opening(p)
  BY <1>3 DEF Makes, Known, Opening
<1>5. Way(p)' = Way(p) /\ Way(q)' = Way(q) /\ Flow(p)' /\ Flow(q)'
  BY <1>2, <1>3, <1>4 DEF Way, Flow
<1>6. ASSUME NEW i \in Devices, Sole(i)'
      PROVE  OnChain(i, p)' /\ OnChain(i, q)' /\ Hears(p)' /\ Hears(q)'
  <2>1. /\ Sole(i) \/ (Blank(p) /\ Blank(q))
        /\ EndOf(i, p, r)
        /\ \A n \in DOMAIN draft'[p] : MessageOf(i, p, draft'[p][n])
        /\ \A j \in Nat : Known(p) /\ Awaits(mem[p], j) => Awaits(r, j)
        /\ ~Known(p) => \A j \in Nat : Awaits(r, j)
    BY <1>6, <1>q
  <2>2. CASE Sole(i)
    <3>1. OnChain(i, p) /\ OnChain(i, q) /\ Hears(p) /\ Hears(q)
      BY <1>1, <2>2 DEF SoleInv
    <3>2. OnChain(i, p)' /\ OnChain(i, q)'
      BY <1>3, <1>4, <2>1, <3>1 DEF OnChain
    <3>3. HeardOf(r, posted'[q], draft'[q], Way(p)')
      BY <1>3, <1>5, <2>1, <3>1, <1>q DEF Hears, Heard, HeardOf
    <3>4. Hears(p)'
      BY <1>3, <1>4, <1>5, <3>1, <3>3, <1>q DEF Hears, Heard
    <3>5. ASSUME NEW s, Heard(q, s) PROVE HeardOf(s, posted'[p], draft'[p], Way(q)')
      BY <1>1, <1>3, <1>5, <3>5 DEF Heard, HeardOf
    <3>6. Hears(q)'
      BY <1>1, <1>3, <1>4, <3>1, <3>5 DEF Hears, Heard
    <3> QED  BY <3>2, <3>4, <3>6
  <2>3. CASE Blank(p) /\ Blank(q)
    <3>1. ~Known(q)' /\ row'[p].ratchet = NoRatchet /\ row'[q].ratchet = NoRatchet /\ draft'[q] = << >>
      BY <1>3, <1>4, <2>3 DEF Blank
    <3>2. ~row'[p].keyed /\ ~row'[q].keyed
      BY <1>1, <1>2, <1>3, <3>1 DEF Types
    <3>3. OnChain(i, p)' /\ OnChain(i, q)'
      <4>1. DOMAIN draft'[q] = {}
        BY <3>1
      <4> QED  BY <1>3, <2>1, <3>1, <4>1 DEF OnChain
    <3>4. Hears(p)' /\ Hears(q)'
      BY <1>3, <2>1, <2>3, <3>1, <3>2 DEF Hears, Heard, HeardOf, Blank
    <3> QED  BY <3>3, <3>4
  <2> QED  BY <2>1, <2>2, <2>3
<1>7. (row'[p].keyed => Known(p)') /\ (row'[q].keyed => Known(q)')
  BY <1>2, <1>3, <1>4
<1> QED  BY <1>1, <1>5, <1>6, <1>7 DEF SoleInv

(* Where a handler stands that has nothing to open.                        *)
LEMMA OffOpening ==
  ASSUME Inv, NEW p \in Devices, batch[p] = << >>
  PROVE  ~Opening(p)
BY DEF Inv, Safe, Prepared

LEMMA CreateSole ==
  ASSUME Inv, SoleInv, NEW p \in Devices, CreateInitiator(p)
  PROVE  SoleInv'
<1> DEFINE q == Peer(p)
           r == InitiatorRatchet(PublicKey(p, made[p]), Signed(q))
<1>1. /\ q \in Devices \ {p} /\ q \in Devices /\ q # p /\ Peer(q) = p
      /\ \A d \in Devices : d = p \/ d = q
  BY PeerFacts
<1>q. q = Peer(p)
  OBVIOUS
<1> HIDE DEF q
<1>2. /\ Types /\ todo[p] \in Places /\ made[p] \in Nat /\ made[q] \in Nat
      /\ made[p] >= 1 /\ made[q] >= 1 /\ DOMAIN made = Devices /\ DOMAIN todo = Devices
  BY <1>1 DEF Inv, Types
<1>3. /\ ~Idle(p) /\ todo[p] # << >> /\ Head(todo[p]) = "bundles" /\ ~Known(p)
      /\ mem' = [mem EXCEPT ![p] = r] /\ made' = [made EXCEPT ![p] = @ + 1]
      /\ GoOn(p, AfterCreate)
      /\ UNCHANGED <<row, draft, batch, mailbox, posted>>
  BY <1>q DEF CreateInitiator, AtStep, Idle, server
<1>4. r # NoRatchet
  <2>1. PublicKey(p, made[p]) \in PublicKeys /\ Signed(q) \in PublicKeys
    BY <1>1, <1>2, PublicKeyFacts
  <2> DEFINE x == PublicKey(p, made[p])
             y == Signed(q)
             b == FALSE
  <2>2. b \in BOOLEAN /\ x \in PublicKeys /\ y \in PublicKeys /\ r = InitialRatchet(x, y, b)
    BY <2>1 DEF InitiatorRatchet
  <2> HIDE DEF x, y, b, r
  <2> QED  BY <2>2, InitialType, IsSome
<1>5. batch[p] = << >>
  BY <1>3, NoBatch
<1>6. ~Opening(p)
  BY <1>5, OffOpening
<1>7. ~Opening(p)' /\ todo'[q] = todo[q]
  <2>1. PICK s \in Posts : AfterCreate \o Tail(todo[p]) = Save \o s
    BY <1>2, <1>3, OnFromSave
  <2>2. s \in AfterSave
    BY DEF AfterSave
  <2>3. Save \o s \notin Saving({<< "open" >>})
    BY <2>2, SavePlace, RestsApart
  <2>4. todo' = [todo EXCEPT ![p] = Save \o s]
    BY <1>2, <1>3, <2>1 DEF GoOn
  <2> QED  BY <1>1, <1>2, <2>3, <2>4 DEF Opening
<1>8. Makes(p, r)
  BY <1>3, <1>4, <1>6, <1>7, <1>q DEF Makes
<1>9. made'[p] = made[p] + 1 /\ made'[q] = made[q]
  BY <1>1, <1>2, <1>3
<1>10. ~Fresh'
  BY <1>2, <1>9 DEF Fresh
<1>11. ASSUME NEW i \in Devices, Sole(i)'
       PROVE  i = p /\ Fresh
  <2>1. i = p
    BY <1>1, <1>2, <1>9, <1>11 DEF Sole
  <2>2. made[p] = 1 /\ made[q] = 1
    BY <1>2, <1>9, <1>11, <2>1, <1>q DEF Sole
  <2> QED  BY <1>1, <2>1, <2>2 DEF Fresh
<1>12. ASSUME Fresh
       PROVE  /\ Blank(p) /\ Blank(q) /\ EndOf(p, p, r) /\ \A j \in Nat : Awaits(r, j)
  <2>1. Blank(p) /\ Blank(q)
    BY <1>1, <1>12 DEF SoleInv
  <2>2. r = InitiatorRatchet(PublicKey(p, 1), Signed(Peer(p)))
    BY <1>12, <1>q DEF Fresh
  <2> HIDE DEF r
  <2> QED  BY <2>1, <2>2, EndsStart
<1> HIDE DEF r
<1>13. ASSUME NEW i \in Devices, Sole(i)'
       PROVE  /\ Sole(i) \/ (Blank(p) /\ Blank(Peer(p)))
              /\ EndOf(i, p, r)
              /\ \A n \in DOMAIN draft'[p] : MessageOf(i, p, draft'[p][n])
              /\ \A j \in Nat : Known(p) /\ Awaits(mem[p], j) => Awaits(r, j)
              /\ ~Known(p) => \A j \in Nat : Awaits(r, j)
  <2>1. DOMAIN draft'[p] = {}
    BY <1>3, <1>11, <1>12, <1>13 DEF Blank
  <2> QED  BY <1>11, <1>12, <1>13, <2>1, <1>q
<1> QED  BY <1>8, <1>10, <1>13, MakesSole

LEMMA AnswerSole ==
  ASSUME Inv, SoleInv, NEW p \in Devices, AnswerHandshake(p)
  PROVE  SoleInv'
<1> DEFINE q == Peer(p)
           e == Head(handshakes[p])
           r == RecipientRatchet(Signed(p), e)
<1>1. /\ q \in Devices \ {p} /\ q \in Devices /\ q # p /\ Peer(q) = p
      /\ \A d \in Devices : d = p \/ d = q
  BY PeerFacts
<1>q. q = Peer(p)
  OBVIOUS
<1> HIDE DEF q
<1>2. /\ Types /\ todo[p] \in Places /\ made[p] \in Nat /\ made[q] \in Nat
      /\ made[p] >= 1 /\ made[q] >= 1 /\ DOMAIN made = Devices /\ DOMAIN todo = Devices
      /\ handshakes[p] \in Seq(PublicKeys) /\ FreshHandshakes(p) /\ Prepared(p)
  BY <1>1 DEF Inv, Safe, Types
<1>3. /\ ~Idle(p) /\ todo[p] # << >> /\ Head(todo[p]) = "handshakes" /\ ~Known(p)
      /\ handshakes[p] # << >>
      /\ mem' = [mem EXCEPT ![p] = r] /\ GoOn(p, Save)
      /\ UNCHANGED <<row, made, draft, batch, mailbox, posted>>
  BY DEF AnswerHandshake, AtStep, Idle
<1>4. e \in PublicKeys /\ e.owner = q /\ e.nth \in Nat /\ e.nth >= 1 /\ e.nth < made[q]
  <2>1. e \in Range(handshakes[p]) /\ e \in PublicKeys
    BY <1>2, <1>3, RangeTail
  <2> HIDE DEF e
  <2>2. e \in Unanswered(p)
    BY <2>1 DEF Unanswered
  <2>3. e.owner = q /\ e.nth >= 1 /\ Exists(made, e)
    BY <1>2, <2>2, <1>q DEF FreshHandshakes
  <2> QED  BY <2>1, <2>3 DEF PublicKeys, Exists
<1> HIDE DEF e
<1>5. r # NoRatchet
  <2> DEFINE x == Signed(p)
             b == TRUE
  <2>1. x \in PublicKeys
    BY PublicKeyFacts
  <2>2. b \in BOOLEAN /\ x \in PublicKeys /\ e \in PublicKeys /\ r = InitialRatchet(x, e, b)
    BY <1>4, <2>1 DEF RecipientRatchet
  <2> HIDE DEF x, b, r
  <2> QED  BY <2>2, InitialType, IsSome
<1>6. batch[p] = << >>
  BY <1>3, NoBatch
<1>7. ~Opening(p)
  BY <1>6, OffOpening
<1>8. ~Opening(p)' /\ todo'[q] = todo[q]
  <2>1. PICK s \in {<< "bundles", "code" >>, << "messages" >>} : Save \o Tail(todo[p]) = Save \o s
    BY <1>2, <1>3, OnFromSave
  <2>2. s \in AfterSave /\ s # << "open" >>
    BY RestsApart
  <2>3. Save \o s \notin Saving({<< "open" >>})
    BY <2>2, SavePlace
  <2>4. todo' = [todo EXCEPT ![p] = Save \o s]
    BY <1>2, <1>3, <2>1 DEF GoOn
  <2> QED  BY <1>1, <1>2, <2>3, <2>4 DEF Opening
<1>9. Makes(p, r)
  BY <1>3, <1>5, <1>7, <1>8, <1>q DEF Makes
<1>10. ~Fresh'
  BY <1>1, <1>2, <1>3, <1>4 DEF Fresh
<1>11. ASSUME NEW i \in Devices, Sole(i)'
       PROVE  /\ Sole(i) \/ (Blank(p) /\ Blank(Peer(p)))
              /\ EndOf(i, p, r)
              /\ \A n \in DOMAIN draft'[p] : MessageOf(i, p, draft'[p][n])
              /\ \A j \in Nat : Known(p) /\ Awaits(mem[p], j) => Awaits(r, j)
              /\ ~Known(p) => \A j \in Nat : Awaits(r, j)
  <2>1. Sole(i)
    BY <1>3, <1>11 DEF Sole
  <2>2. i = q
    <3>1. made[q] # 1
      BY <1>2, <1>4
    <3> QED  BY <1>1, <2>1, <3>1, <1>q DEF Sole
  <2>3. e = PublicKey(q, 1)
    BY <1>2, <1>4, <2>1, <2>2 DEF Sole, PublicKey, PublicKeys
  <2>4. EndOf(q, p, r) /\ \A j \in Nat : Awaits(r, j)
    <3>1. r = RecipientRatchet(Signed(Peer(q)), PublicKey(q, 1)) /\ p = Peer(q)
      BY <1>1, <2>3
    <3> HIDE DEF r
    <3> QED  BY <1>1, <3>1, EndsStart
  <2>5. \A n \in DOMAIN draft[p] : MessageOf(i, p, draft[p][n])
    BY <2>1 DEF SoleInv, OnChain
  <2> HIDE DEF r
  <2> QED  BY <1>3, <2>1, <2>2, <2>4, <2>5
<1> HIDE DEF r
<1> QED  BY <1>9, <1>10, <1>11, MakesSole

LEMMA AdvanceSole ==
  ASSUME Inv, SoleInv, NEW p \in Devices, Advance(p)
  PROVE  SoleInv'
<1> DEFINE q == Peer(p)
           m == mem[p]
           a == AdvanceSend(m)
           msg == [header |-> a.header, key |-> a.key]
<1>1. /\ q \in Devices \ {p} /\ q \in Devices /\ q # p /\ Peer(q) = p
      /\ \A d \in Devices : d = p \/ d = q
  BY PeerFacts
<1>q. q = Peer(p)
  OBVIOUS
<1> HIDE DEF q
<1>2. /\ Types /\ todo[p] \in Places /\ DOMAIN todo = Devices /\ DOMAIN draft = Devices
      /\ Prepared(p) /\ draft[p] \in Seq(Messages)
  BY DEF Inv, Safe, Types
<1>3. /\ ~Idle(p) /\ todo[p] # << >> /\ Head(todo[p]) = "advance" /\ Known(p)
      /\ mem' = [mem EXCEPT ![p] = a.ratchet]
      /\ draft' = [draft EXCEPT ![p] = Append(@, msg)]
      /\ GoOn(p, AfterAdvance)
      /\ UNCHANGED <<row, made, batch, mailbox, posted>>
  BY DEF Advance, AtStep, Idle, server
<1>4. IsRatchet(m)
  BY <1>2, <1>3 DEF Types
<1>5. a = AdvanceSend(m)
  OBVIOUS
<1> HIDE DEF a
<1>6. a.ratchet # NoRatchet /\ msg \in Messages /\ msg.header = a.header /\ msg.key = a.key
  <2>m. m = mem[p]
    OBVIOUS
  <2> HIDE DEF m
  <2>1. IsRatchet(a.ratchet) /\ a.header \in Headers /\ a.key \in MessageKeys
    <3>1. IsRatchet(a.ratchet) /\ a.header \in Headers
      BY <1>4, <1>5, SendSplit
    <3>2. a.key = (IF m.due THEN DhChain(m.local, m.remote) ELSE m.send).key
      BY <1>4, <1>5, SendSplit
    <3>3. Inv /\ mem[p] # NoRatchet
      BY <1>3 DEF Known
    <3>4. FineRatchet(made, p, m)
      BY <1>3, <2>m DEF Inv, Safe, Fine
    <3>5. m.send.key \in MessageKeys
      BY <1>4, RatchetFields DEF Chains
    <3>6. a.key = m.send.key
      BY <3>2, <3>4 DEF FineRatchet
    <3> QED  BY <3>1, <3>5, <3>6
  <2> QED  BY <2>1, IsSome DEF Messages
<1> HIDE DEF msg
<1>7. batch[p] = << >>
  BY <1>3, NoBatch
<1>8. ~Opening(p)
  BY <1>7, OffOpening
<1>9. ~Opening(p)' /\ todo'[q] = todo[q]
  <2>1. AfterAdvance \o Tail(todo[p]) = Save \o << "post" >>
    BY <1>2, <1>3, OnFromSave
  <2>2. << "post" >> \in AfterSave
    BY DEF AfterSave
  <2>3. Save \o << "post" >> \notin Saving({<< "open" >>})
    BY <2>2, SavePlace, RestsApart
  <2>4. todo' = [todo EXCEPT ![p] = Save \o << "post" >>]
    BY <1>2, <1>3, <2>1 DEF GoOn
  <2> QED  BY <1>1, <1>2, <2>3, <2>4 DEF Opening
<1>10. /\ draft'[q] = draft[q] /\ draft'[p] = Append(draft[p], msg)
       /\ DOMAIN draft'[p] = DOMAIN draft[p] \cup {Len(draft[p]) + 1}
       /\ draft'[p][Len(draft[p]) + 1] = msg
       /\ \A n \in DOMAIN draft[p] : draft'[p][n] = draft[p][n]
  <2>1. draft'[q] = draft[q] /\ draft'[p] = Append(draft[p], msg)
    BY <1>1, <1>2, <1>3
  <2>2. /\ DOMAIN Append(draft[p], msg) = DOMAIN draft[p] \cup {Len(draft[p]) + 1}
        /\ Append(draft[p], msg)[Len(draft[p]) + 1] = msg
        /\ \A n \in DOMAIN draft[p] : Append(draft[p], msg)[n] = draft[p][n]
    BY <1>2, <1>6, RangeAppend
  <2> QED  BY <2>1, <2>2
<1>11. Makes(p, a.ratchet)
  BY <1>2, <1>3, <1>6, <1>8, <1>9, <1>10, <1>q DEF Makes, Prepared
<1>12. ~Fresh'
  BY <1>3 DEF SoleInv, Fresh, Blank
<1>13. ASSUME NEW i \in Devices, Sole(i)'
       PROVE  /\ Sole(i) \/ (Blank(p) /\ Blank(Peer(p)))
              /\ EndOf(i, p, a.ratchet)
              /\ \A n \in DOMAIN draft'[p] : MessageOf(i, p, draft'[p][n])
              /\ \A j \in Nat : Known(p) /\ Awaits(mem[p], j) => Awaits(a.ratchet, j)
              /\ ~Known(p) => \A j \in Nat : Awaits(a.ratchet, j)
  <2>1. Sole(i)
    BY <1>3, <1>13 DEF Sole
  <2>2. OnChain(i, p)
    BY <2>1 DEF SoleInv
  <2>3. EndOf(i, p, m)
    BY <1>3, <2>2 DEF OnChain
  <2>m. m = mem[p]
    OBVIOUS
  <2> HIDE DEF m
  <2>4. /\ EndOf(i, p, a.ratchet) /\ a.header.dh = Own(i, p) /\ a.key = Nth(i, p, a.header.index)
        /\ \A j : Awaits(a.ratchet, j) = Awaits(m, j)
    BY <1>4, <1>5, <2>3, EndSends
  <2>5. MessageOf(i, p, msg)
    BY <1>6, <2>4 DEF MessageOf
  <2>6. \A n \in DOMAIN draft'[p] : MessageOf(i, p, draft'[p][n])
    BY <1>10, <2>2, <2>5 DEF OnChain
  <2> QED  BY <1>3, <2>1, <2>4, <2>6, <2>m
<1> QED  BY <1>11, <1>12, <1>13, MakesSole

(* The message that is taken leaves the way: the key for it is used, no    *)
(* other one is.                                                           *)
LEMMA TakeSole ==
  ASSUME Inv, SoleInv, NEW p \in Devices, TakeKey(p)
  PROVE  SoleInv'
<1> DEFINE q == Peer(p)
           m == mem[p]
           c == Head(batch[p])
           h == Current(p).header
           fresh == PublicKey(p, made[p])
           a == AdvanceReceive(m, h, fresh)
<1>1. /\ q \in Devices \ {p} /\ q \in Devices /\ q # p /\ Peer(q) = p
      /\ \A d \in Devices : d = p \/ d = q
  BY PeerFacts
<1>q. q = Peer(p)
  OBVIOUS
<1> HIDE DEF q
<1>2. /\ Types /\ todo[p] \in Places /\ DOMAIN todo = Devices /\ DOMAIN batch = Devices
      /\ DOMAIN mem = Devices /\ made[p] \in Nat /\ DOMAIN made = Devices
      /\ batch[p] \in Seq(Nat) /\ Flow(p) /\ Flow(q)
      /\ (row[p].keyed => Known(p)) /\ (row[q].keyed => Known(q))
  BY <1>1 DEF Inv, Types, SoleInv
<1>3. /\ ~Idle(p) /\ todo[p] # << >> /\ Head(todo[p]) = "next message" /\ batch[p] # << >> /\ Known(p)
      /\ made' = [made EXCEPT ![p] = IF NewDh(m, h) THEN @ + 1 ELSE @]
      /\ UNCHANGED <<row, draft, handshakes, mailbox, posted>>
  BY DEF TakeKey, AtStep, Idle, server
<1>4. \/ a.key # NoKey /\ mem' = [mem EXCEPT ![p] = a.ratchet] /\ GoOn(p, AfterTake) /\ UNCHANGED batch
      \/ a.key = NoKey /\ Throw(p, a.ratchet)
  BY DEF TakeKey
<1>5. a.ratchet # NoRatchet
  <2>1. Unsent(p, a.ratchet)
    BY <1>3, TakeFacts
  <2> QED  BY <2>1, IsSome DEF Unsent
<1>6. ~Opening(p) /\ todo[p] = << "next message" >>
  <2>1. todo[p] = << "next message" >> /\ << "next message" >> \in Calm
    BY <1>2, <1>3, SaveLeft, OtherLeft DEF Calm
  <2> QED  BY <2>1, CalmFacts DEF Opening
<1>7. c \in Range(batch[p]) /\ c \notin Range(Tail(batch[p])) /\ Range(Tail(batch[p])) \subseteq Range(batch[p])
  BY <1>2, <1>3, Injections, RangeTail DEF Flow
<1>8. c \in Way(p) /\ c \in posted[q] /\ c \notin Range(mailbox[p])
  BY <1>2, <1>6, <1>7, <1>q DEF Way, Flow
<1>9. Current(p) = draft[q][c]
  BY <1>q DEF Current
<1>10. ASSUME NEW i \in Devices, Sole(i)
       PROVE  /\ ~NewDh(m, h) /\ a.key # NoKey /\ EndOf(i, p, a.ratchet)
              /\ h.index \in Nat /\ \A j \in Nat : Awaits(m, j) => j = h.index \/ Awaits(a.ratchet, j)
  <2>1. /\ draft[q][c] \in Messages /\ MessageOf(i, q, draft[q][c])
        /\ Awaits(m, draft[q][c].header.index)
    BY <1>3, <1>8, <1>10, <1>q, WayAwaited
  <2>2. IsRatchet(m) /\ EndOf(i, p, m)
    BY <1>2, <1>3, <1>10 DEF Types, SoleInv, OnChain
  <2>3. h \in Headers /\ h.dh = Own(i, Peer(p)) /\ Awaits(m, h.index) /\ fresh \in PublicKeys
    BY <1>2, <1>9, <2>1, <1>q, PublicKeyFacts DEF Messages, MessageOf
  <2>4. a = AdvanceReceive(m, h, fresh)
    OBVIOUS
  <2>5. h.index \in Nat
    BY <2>3 DEF Headers
  <2> HIDE DEF m, h, fresh, a
  <2>6. /\ ~NewDh(m, h) /\ a.key = Nth(i, Peer(p), h.index) /\ EndOf(i, p, a.ratchet)
        /\ \A j \in Nat : Awaits(m, j) => j = h.index \/ Awaits(a.ratchet, j)
    BY <2>2, <2>3, <2>4, EndTakes
  <2>7. Nth(i, Peer(p), h.index) # NoKey
    BY <1>1, <1>q, <2>5, NthFacts
  <2> QED  BY <2>5, <2>6, <2>7
<1>h. h = draft[q][c].header
  BY <1>9
<1> HIDE DEF a, h, fresh, c
<1>11. /\ mem'[q] = mem[q] /\ todo'[q] = todo[q] /\ batch'[q] = batch[q] /\ mailbox'[p] = mailbox[p]
       /\ Known(q)' = Known(q) /\ Opening(q)' = Opening(q) /\ made'[q] = made[q]
       /\ made'[p] = (IF NewDh(m, h) THEN made[p] + 1 ELSE made[p])
  BY <1>1, <1>2, <1>3, <1>4 DEF GoOn, Throw, Known, Opening
<1>12. Way(q)' = Way(q) /\ Flow(q)'
  BY <1>2, <1>3, <1>11 DEF Way, Flow
<1>13. ~Fresh'
  <2>1. ~Fresh
    BY <1>3 DEF SoleInv, Fresh, Blank
  <2> QED  BY <1>1, <1>2, <1>11, <2>1 DEF Fresh, Inv
<1>14. ASSUME NEW i \in Devices, Sole(i)' PROVE Sole(i)
  <2>1. made[p] >= 1
    BY DEF Inv
  <2>2. CASE ~NewDh(m, h)
    BY <1>1, <1>11, <1>14, <2>2, <1>q DEF Sole
  <2>3. CASE NewDh(m, h)
    <3>1. made'[p] = made[p] + 1
      BY <1>11, <2>3
    <3>2. i = p /\ made[p] = 1 /\ made[q] = 1
      BY <1>1, <1>2, <1>11, <1>14, <2>1, <3>1, <1>q DEF Sole
    <3>3. Fresh
      BY <1>1, <3>2 DEF Fresh
    <3> QED  BY <1>3, <3>3 DEF SoleInv, Blank
  <2> QED  BY <2>2, <2>3
<1>15. CASE a.key # NoKey /\ mem' = [mem EXCEPT ![p] = a.ratchet] /\ GoOn(p, AfterTake) /\ UNCHANGED batch
  <2>1. mem'[p] = a.ratchet /\ Known(p)' /\ batch'[p] = batch[p]
    BY <1>2, <1>5, <1>15 DEF Known
  <2>2. Opening(p)'
    <3>1. AfterTake \o Tail(todo[p]) = Save \o << "open" >>
      BY <1>2, <1>3, OnFromSave
    <3>2. << "open" >> \in AfterSave
      BY DEF AfterSave
    <3>3. todo'[p] = Save \o << "open" >>
      BY <1>2, <1>15, <3>1 DEF GoOn
    <3> QED  BY <3>2, <3>3, SavePlace DEF Opening
  <2>3. Way(p)' = Range(mailbox[p]) \cup Range(Tail(batch[p])) /\ Flow(p)'
    BY <1>2, <1>3, <1>11, <2>1, <2>2 DEF Way, Flow
  <2>4. Way(p)' \subseteq Way(p) /\ c \notin Way(p)'
    BY <1>6, <1>7, <1>8, <2>3 DEF Way
  <2>5. ASSUME NEW i \in Devices, Sole(i)'
        PROVE  OnChain(i, p)' /\ OnChain(i, q)' /\ Hears(p)' /\ Hears(q)'
    <3>1. Sole(i) /\ OnChain(i, p) /\ OnChain(i, q) /\ Hears(p) /\ Hears(q)
      BY <1>1, <1>14, <2>5 DEF SoleInv
    <3>2. /\ EndOf(i, p, a.ratchet)
          /\ \A j \in Nat : Awaits(m, j) => j = h.index \/ Awaits(a.ratchet, j)
      BY <1>10, <3>1
    <3>3. OnChain(i, p)' /\ OnChain(i, q)'
      BY <1>3, <1>11, <2>1, <3>1, <3>2 DEF OnChain
    <3>4. Heard(p, m)
      BY <1>3, <3>1 DEF Hears
    <3>5. HeardOf(a.ratchet, posted[q], draft[q], Way(p)')
      <4> SUFFICES ASSUME NEW j \in Nat, ~Awaits(a.ratchet, j)
                   PROVE  \E n \in posted[q] \ Way(p)' : draft[q][n].header.index = j
        BY DEF HeardOf
      <4>1. CASE j = h.index
        BY <1>8, <1>h, <2>4, <4>1
      <4>2. CASE ~Awaits(m, j)
        <5>1. PICK n \in posted[q] \ Way(p) : draft[q][n].header.index = j
          BY <3>4, <4>2, <1>q DEF Heard, HeardOf
        <5> QED  BY <2>4, <5>1
      <4> QED  BY <3>2, <4>1, <4>2
    <3>6. ASSUME NEW r, Heard(p, r) PROVE HeardOf(r, posted[q], draft[q], Way(p)')
      BY <2>4, <3>6, <1>q DEF Heard, HeardOf
    <3>7. Hears(p)'
      BY <1>3, <2>1, <3>1, <3>5, <3>6, <1>q DEF Hears, Heard
    <3>8. Hears(q)'
      BY <1>1, <1>3, <1>11, <1>12, <3>1 DEF Hears, Heard
    <3> QED  BY <3>1, <3>3, <3>7, <3>8
  <2>6. (row'[p].keyed => Known(p)') /\ (row'[q].keyed => Known(q)')
    BY <1>2, <1>3, <1>11, <2>1
  <2> QED  BY <1>1, <1>12, <1>13, <2>3, <2>5, <2>6 DEF SoleInv
<1>16. CASE a.key = NoKey /\ Throw(p, a.ratchet)
  <2>1. mem'[p] \in {a.ratchet, Loaded(p)} /\ batch'[p] = << >> /\ todo'[p] = << >>
    BY <1>2, <1>16 DEF Throw
  <2>2. row[p].keyed => Known(p)'
    BY <1>2, <1>5, <2>1 DEF Known, Loaded, Types
  <2>3. ASSUME NEW i \in Devices, Sole(i)' PROVE FALSE
    BY <1>10, <1>14, <1>16, <2>3
  <2>4. IsInjective(<< >>) /\ Range(<< >>) = {}
    BY <1>2, Injections, RangeEmpty DEF Flow
  <2>5. Flow(p)'
    BY <1>2, <1>3, <1>11, <2>1, <2>4 DEF Flow
  <2>6. (row'[p].keyed => Known(p)') /\ (row'[q].keyed => Known(q)')
    BY <1>2, <1>3, <1>11, <2>2
  <2> QED  BY <1>1, <1>12, <1>13, <2>3, <2>5, <2>6 DEF SoleInv
<1> QED  BY <1>4, <1>15, <1>16

LEMMA SoleStep ==
  ASSUME Inv, SoleInv, NEW p \in Devices, StartSend(p) \/ Refresh(p) \/ Step(p) \/ Crash(p)
  PROVE  SoleInv'
<1>1. \/ StartSend(p) \/ Refresh(p) \/ BundlesFail(p) \/ BundlesEmpty(p) \/ BundleUnusable(p)
      \/ ShowCode(p) \/ NothingToSend(p) \/ SaveFails(p) \/ UnknownSender(p) \/ CannotOpen(p)
      \/ NoHandshakes(p) \/ IgnoreHandshakes(p) \/ FetchMessages(p)
      \/ NoMoreMessages(p) \/ OpenMessage(p) \/ Crash(p)
      \/ CreateInitiator(p) \/ PostHandshake(p) \/ SaveRow(p) \/ SaveKey(p) \/ Advance(p)
      \/ Post(p) \/ PostFails(p) \/ AnswerHandshake(p) \/ TakeKey(p)
  BY DEF Step
<1> QED  BY <1>1, LightSole, CreateSole, PostHandshakeSole, SaveSole, AdvanceSole, PostsSole,
            AnswerSole, TakeSole

LEMMA SoleStutter ==
  ASSUME SoleInv, UNCHANGED vars
  PROVE  SoleInv'
<1>1. UNCHANGED <<mem, row, made, todo, draft, batch, mailbox, posted>>
  BY DEF vars, local, server
<1>2. ASSUME NEW p \in Devices
      PROVE  /\ Known(p)' = Known(p) /\ Flow(p)' = Flow(p) /\ Hears(p)' = Hears(p)
             /\ \A i \in Devices : OnChain(i, p)' = OnChain(i, p)
             /\ Sole(p)' = Sole(p) /\ Blank(p)' = Blank(p)
  <2>1. Way(p)' = Way(p) /\ Known(p)' = Known(p)
    BY <1>1 DEF Way, Opening, Known
  <2> QED  BY <1>1, <2>1 DEF Flow, Hears, Heard, OnChain, Sole, Blank
<1>3. Fresh' = Fresh
  BY <1>1 DEF Fresh
<1> QED  BY <1>1, <1>2, <1>3 DEF SoleInv

LEMMA SoleInit == Init => SoleInv
<1> SUFFICES ASSUME Init PROVE SoleInv
  OBVIOUS
<1>1. ASSUME NEW p \in Devices
      PROVE  /\ made[p] = 1 /\ ~row[p].keyed /\ row[p].ratchet = NoRatchet /\ ~Known(p)
             /\ draft[p] = << >> /\ batch[p] = << >> /\ mailbox[p] = << >>
  BY DEF Init, Known
<1>2. IsInjective(<< >>) /\ Range(<< >>) = {}
  BY RangeEmpty DEF IsInjective
<1>3. \A i \in Devices : ~Sole(i)
  BY <1>1 DEF Sole
<1>4. \A p \in Devices : Flow(p) /\ Blank(p)
  BY <1>1, <1>2 DEF Flow, Blank
<1> QED  BY <1>1, <1>3, <1>4 DEF SoleInv

(* While one handshake is all there is, its two ends stay in step: every   *)
(* message on its way to a device that holds its end can be opened there,  *)
(* whatever was lost and however often either device started again.        *)
THEOREM SoleSessionsReadable == Spec => []SoleSessionReadable
<1>1. Inv /\ SoleInv /\ [Next]_vars => SoleInv'
  BY SoleStep, SoleStutter DEF Next
<1> QED  BY Inductive, SoleInit, SoleReadable, <1>1, PTL DEF Spec
-----------------------------------------------------------------------------
(* What was opened is behind the receiving half of the ratchet in memory   *)
(* and of the one in the database.                                         *)

(* No handshake of E was answered with a chain of K.                       *)
Unused(E, K) == \A k \in K : k.label = "DRXsend1" => \A e \in E : e \notin k.secret

Past(m, r, G, E) ==
  ReceiveSide(m, r, G) /\ Unused(E, G \cup Stored(r) \cup {r.recv.key})

(* The keys of what p has opened, and with the one it is about to open.    *)
Opened(p) == {k \in {draft[Peer(p)][n].key : n \in got[p]} : ~OfSignedPrekey(p, k)}
Taken(p) == Opened(p) \cup {k \in {key[p]} : Opening(p) /\ ~OfSignedPrekey(p, k)}

Forgets(p) ==
  /\ \A k \in Opened(p) : AllExist(made, k.secret)
  /\ Unused(Unanswered(p), Opened(p))
  /\ Known(p) => Past(made, mem[p], Taken(p), Unanswered(p))
  /\ row[p].ratchet # NoRatchet => Past(made, row[p].ratchet, Opened(p), Unanswered(p))
  /\ Opening(p) => Known(p) /\ key[p] \in MessageKeys
  /\ AtStep(p, "open") => row[p].ratchet = mem[p]

ForgetInv == \A p \in Devices : Forgets(p)

LEMMA PastLess ==
  ASSUME NEW m, NEW r, NEW G, NEW E, Past(m, r, G, E), NEW H \in SUBSET G, NEW F \in SUBSET E
  PROVE  Past(m, r, H, F)
BY DEF Past, ReceiveSide, Unused

(* More key pairs do no harm, nor do handshakes that were made with one. *)
LEMMA PastMore ==
  ASSUME NEW m, NEW n, Grown(m, n), NEW r, IsRatchet(r), NEW G \in SUBSET MessageKeys,
         NEW E, NEW F, Past(m, r, G, E), \A e \in F : e \in E \/ ~Exists(m, e)
  PROVE  Past(n, r, G, F)
<1>1. ReceiveSide(n, r, G)
  BY ReceiveMore DEF Past
<1>2. \A k \in G \cup Stored(r) \cup {r.recv.key} : AllExist(m, k.secret)
  BY DEF Past, ReceiveSide
<1>3. Unused(F, G \cup Stored(r) \cup {r.recv.key})
  BY <1>2 DEF Past, Unused, AllExist
<1> QED  BY <1>1, <1>3 DEF Past

(* A new session: its receiving chain is not one of what was opened. *)
LEMMA PastNew ==
  ASSUME NEW m, NEW r, NEW G, NEW E, NEW mine, NEW theirs, NEW label,
         r.local = mine, r.skipped = NoSkipped,
         r.recv.key = [secret |-> {mine, theirs}, label |-> label, step |-> 0],
         label \in {"DRXsend1", "DRXrecv1"}, Exists(m, mine), Exists(m, theirs),
         \A k \in G : /\ AllExist(m, k.secret) /\ (k.label = "DHRatchet" => mine \notin k.secret)
                      /\ ~SameChain(k, r.recv.key),
         Unused(E, G), label = "DRXsend1" => mine \notin E /\ theirs \notin E
  PROVE  Past(m, r, G, E)
<1>1. DOMAIN r.skipped = {} /\ Stored(r) = {}
  <2>1. DOMAIN r.skipped = {}
    BY DEF NoSkipped
  <2> QED  BY <2>1 DEF Stored
<1>2. /\ r.recv.key.secret = {mine, theirs} /\ r.recv.key.label = label
      /\ AllExist(m, r.recv.key.secret) /\ r.recv.key.label # "DHRatchet"
  BY DEF AllExist
<1>3. ReceiveSide(m, r, G)
  BY <1>1, <1>2 DEF ReceiveSide
<1>4. Unused(E, G \cup Stored(r) \cup {r.recv.key})
  BY <1>1, <1>2 DEF Unused
<1> QED  BY <1>3, <1>4 DEF Past

(* Sending leaves the receiving half alone. *)
LEMMA PastSame ==
  ASSUME NEW m, NEW r, NEW s, NEW G, NEW E, Past(m, r, G, E),
         s.local = r.local, s.recv = r.recv, s.skipped = r.skipped
  PROVE  Past(m, s, G, E)
<1>1. Stored(s) = Stored(r)
  BY DEF Stored
<1> QED  BY <1>1 DEF Past, ReceiveSide

(* What advance_receive stores, goes on with and returns lies on chains    *)
(* that were there, or on one of a DH step.                                *)
Receiving(r) == Stored(r) \cup {r.recv.key}

LEMMA StoredChains ==
  ASSUME NEW r, IsRatchet(r), NEW first \in Nat, NEW last \in Nat,
         NEW t, t.skipped = StoreSkipped(r, first, last)
  PROVE  \A k \in Stored(t) : \E c \in Receiving(r) : SameChain(k, c)
<1> DEFINE S == StoreSkipped(r, first, last)
<1> SUFFICES ASSUME NEW i \in DOMAIN S PROVE \E c \in Receiving(r) : SameChain(S[i], c)
  BY DEF Stored
<1> HIDE DEF S
<1>1. \/ i \in DOMAIN r.skipped /\ S[i] = r.skipped[i]
      \/ S[i].secret = r.recv.key.secret /\ S[i].label = r.recv.key.label
  BY StoredKeys DEF S
<1> QED  BY <1>1 DEF SameChain, Receiving, Stored

LEMMA TakeChains ==
  ASSUME NEW r, IsRatchet(r), NEW index \in Nat, NEW a,
         \/ a = FromBacklog(r, index)
         \/ index >= r.recv.index /\ a = FromChain(r, index)
  PROVE  \A k \in Receiving(a.ratchet) \cup {k \in {a.key} : k # NoKey} :
            \E c \in Receiving(r) : SameChain(k, c)
<1>1. CASE a = FromBacklog(r, index)
  <2>1. CASE index \in DOMAIN r.skipped
    <3> DEFINE D == DOMAIN r.skipped \ {index}
               t == a.ratchet
    <3>1. a = [ratchet |-> [due |-> r.due, local |-> r.local, remote |-> r.remote,
                            send |-> r.send, recv |-> r.recv,
                            skipped |-> [i \in D |-> r.skipped[i]]],
               key |-> r.skipped[index]]
      BY <1>1, <2>1, BacklogForm
    <3>2. t.recv = r.recv /\ t.skipped = [i \in D |-> r.skipped[i]] /\ a.key \in Stored(r)
      BY <2>1, <3>1 DEF Stored
    <3> HIDE DEF t
    <3>3. Stored(t) \subseteq Stored(r)
      BY <3>2 DEF Stored
    <3> QED  BY <3>2, <3>3 DEF Receiving, SameChain, t
  <2>2. CASE index \notin DOMAIN r.skipped
    BY <1>1, <2>2, BacklogForm DEF SameChain
  <2> QED  BY <2>1, <2>2
<1>2. CASE index >= r.recv.index /\ a = FromChain(r, index)
  <2> DEFINE c == r.recv.key
             d == index - r.recv.index
             k == KeyAfter(c, d)
             l == KeyAfter(k, 1)
             S == StoreSkipped(r, r.recv.index, index)
             t == a.ratchet
  <2>1. r.recv.index \in Nat /\ c \in MessageKeys
    BY RatchetFields DEF Chains
  <2>2. d \in Int /\ d >= 0
    BY <1>2, <2>1
  <2>3. a = [ratchet |-> [due |-> r.due, local |-> r.local, remote |-> r.remote, send |-> r.send,
                          recv |-> [index |-> index + 1, key |-> l], skipped |-> S],
             key |-> k]
    BY <1>2, ChainForm
  <2> HIDE DEF S, d
  <2>4. SameChain(k, c) /\ k \in MessageKeys
    <3> HIDE DEF c
    <3>1. /\ k \in MessageKeys
          /\ k = [secret |-> c.secret, label |-> c.label, step |-> c.step + d]
      BY <2>1, <2>2, KeyAfterType
    <3> HIDE DEF k
    <3> QED  BY <3>1 DEF SameChain
  <2> HIDE DEF k
  <2>5. SameChain(l, c)
    <3>1. l = [secret |-> k.secret, label |-> k.label, step |-> k.step + 1]
      BY <2>4, KeyAfterType
    <3> HIDE DEF l
    <3> QED  BY <2>4, <3>1 DEF SameChain
  <2> HIDE DEF l
  <2>6. t.recv.key = l /\ t.skipped = S /\ a.key = k
    BY <2>3
  <2> HIDE DEF t
  <2>7. \A x \in Stored(t) : \E y \in Receiving(r) : SameChain(x, y)
    BY <1>2, <2>1, <2>6, StoredChains DEF S
  <2>8. c \in Receiving(r)
    BY DEF Receiving
  <2> HIDE DEF c
  <2> QED  BY <2>4, <2>5, <2>6, <2>7, <2>8 DEF t, Receiving
<1> QED  BY <1>1, <1>2

(* Taking a key: it is opened, and it is gone. *)
LEMMA PastTake ==
  ASSUME NEW m, NEW n, NEW r, IsRatchet(r), NEW h \in Headers, NEW fresh \in PublicKeys,
         NEW G \in SUBSET MessageKeys, NEW E, Past(m, r, G, E), Grown(m, n),
         Exists(m, r.local), Exists(m, h.dh), ~Exists(m, fresh),
         NEW a, a = AdvanceReceive(r, h, fresh)
  PROVE  Past(n, a.ratchet, IF a.key = NoKey THEN G ELSE G \cup {a.key}, E)
<1> DEFINE t == IF NewDh(r, h) THEN AdoptDh(r, h, fresh) ELSE r
<1>1. /\ IsRatchet(t) /\ h.index \in Nat
      /\ \/ a = FromBacklog(t, h.index)
         \/ h.index >= t.recv.index /\ a = FromChain(t, h.index)
  BY ReceiveForm
<1>2. ReceiveSide(n, t, G)
  <2>1. ReceiveSide(m, r, G)
    BY DEF Past
  <2>2. ReceiveSide(n, AdoptDh(r, h, fresh), G)
    BY <2>1, AdoptKeeps
  <2>3. ReceiveSide(n, r, G)
    BY <2>1, ReceiveMore
  <2> QED  BY <2>2, <2>3
<1>3. \A k \in Receiving(t) : k.label = "DHRatchet" \/ \E c \in Receiving(r) : SameChain(k, c)
  <2>1. CASE NewDh(r, h)
    <3> DEFINE S == StoreSkipped(r, h.prev, r.recv.index)
    <3>1. t = [due |-> TRUE, local |-> fresh, remote |-> h.dh, send |-> DhChain(fresh, h.dh),
               recv |-> DhChain(r.local, h.dh), skipped |-> S]
      BY <2>1, AdoptForm
    <3>2. /\ h.dh \in PublicKeys /\ h.prev \in Nat /\ r.recv.index \in Nat /\ r.local \in PublicKeys
      BY RatchetFields DEF Headers, Chains
    <3> HIDE DEF t, S
    <3>3. t.recv = DhChain(r.local, h.dh) /\ t.skipped = S
      BY <3>1
    <3>4. t.recv.key = [secret |-> {r.local, h.dh}, label |-> "DHRatchet", step |-> 0]
      BY <3>2, <3>3, DhChainType
    <3>5. \A k \in Stored(t) : \E c \in Receiving(r) : SameChain(k, c)
      BY <3>2, <3>3, StoredChains DEF S
    <3> QED  BY <3>4, <3>5 DEF Receiving
  <2>2. CASE ~NewDh(r, h)
    BY <2>2 DEF SameChain
  <2> QED  BY <2>1, <2>2
<1> HIDE DEF t
<1>4. ReceiveSide(n, a.ratchet, IF a.key = NoKey THEN G ELSE G \cup {a.key})
  BY <1>1, <1>2, BacklogKeeps, ChainKeeps
<1>5. \A k \in Receiving(a.ratchet) \cup {k \in {a.key} : k # NoKey} :
        k.label = "DHRatchet" \/ \E c \in Receiving(r) : SameChain(k, c)
  <2>1. \A k \in Receiving(a.ratchet) \cup {k \in {a.key} : k # NoKey} :
          \E c \in Receiving(t) : SameChain(k, c)
    BY <1>1, TakeChains
  <2> QED  BY <1>3, <2>1 DEF SameChain
<1>6. /\ Unused(E, Receiving(r)) /\ Unused(E, G)
  BY DEF Past, Unused, Receiving
<1>7. Unused(E, Receiving(a.ratchet) \cup {k \in {a.key} : k # NoKey})
  BY <1>5, <1>6 DEF Unused, SameChain
<1>8. Unused(E, (IF a.key = NoKey THEN G ELSE G \cup {a.key})
                  \cup Stored(a.ratchet) \cup {a.ratchet.recv.key})
  BY <1>6, <1>7 DEF Unused, Receiving
<1> QED  BY <1>4, <1>8 DEF Past

-----------------------------------------------------------------------------
LEMMA OpenedTypes ==
  ASSUME Inv, NEW p \in Devices
  PROVE  /\ Opened(p) \in SUBSET MessageKeys
         /\ Forgets(p) => Taken(p) \in SUBSET MessageKeys
         /\ \A e \in Unanswered(p) : e.owner = Peer(p) /\ Exists(made, e)
         /\ \A n \in got[p] : draft[Peer(p)][n] \in Messages
<1>1. /\ got[p] \subseteq DOMAIN draft[Peer(p)] /\ draft \in [Devices -> Seq(Messages)]
      /\ Peer(p) \in Devices
  BY PeerFacts DEF Inv, Safe, Prepared, Types
<1>2. \A n \in got[p] : draft[Peer(p)][n] \in Messages
  BY <1>1
<1>3. Opened(p) \in SUBSET MessageKeys
  BY <1>2 DEF Opened, Messages
<1>4. Forgets(p) => Taken(p) \in SUBSET MessageKeys
  BY <1>3 DEF Forgets, Taken
<1>5. \A e \in Unanswered(p) : e.owner = Peer(p) /\ Exists(made, e)
  BY DEF Inv, Safe, FreshHandshakes
<1> QED  BY <1>2, <1>3, <1>4, <1>5

LEMMA MoreGrown ==
  ASSUME NEW m, NEW n, \A d \in Devices : m[d] \in Nat /\ n[d] \in Nat /\ n[d] >= m[d]
  PROVE  Grown(m, n)
BY DEF Grown, Exists, PublicKeys

(* A device that opens nothing: what there is to show. *)
LEMMA StillForgets ==
  ASSUME Inv, NEW p \in Devices, Forgets(p), Grown(made, made'), Opened(p)' = Opened(p),
         \A e \in Unanswered(p)' : e \in Unanswered(p) \/ ~Exists(made, e),
         \/ row'[p].ratchet = row[p].ratchet
         \/ Past(made', row'[p].ratchet, Opened(p), Unanswered(p)'),
         Known(p)' => Past(made', mem'[p], Taken(p)', Unanswered(p)'),
         Opening(p)' => Known(p)' /\ key'[p] \in MessageKeys,
         AtStep(p, "open")' => row'[p].ratchet = mem'[p]
  PROVE  Forgets(p)'
<1>1. Opened(p) \in SUBSET MessageKeys
  BY OpenedTypes
<1>2. \A k \in Opened(p) : AllExist(made, k.secret) /\ AllExist(made', k.secret)
  BY <1>1, ReceiveMore DEF Forgets
<1>3. Unused(Unanswered(p)', Opened(p))
  BY <1>2 DEF Forgets, Unused, AllExist
<1>4. row'[p].ratchet # NoRatchet => Past(made', row'[p].ratchet, Opened(p), Unanswered(p)')
  <2> SUFFICES ASSUME row'[p].ratchet # NoRatchet, row'[p].ratchet = row[p].ratchet
               PROVE  Past(made', row'[p].ratchet, Opened(p), Unanswered(p)')
    OBVIOUS
  <2>1. IsRatchet(row[p].ratchet)
    BY DEF Inv, Types
  <2>2. Past(made, row[p].ratchet, Opened(p), Unanswered(p))
    BY DEF Forgets
  <2> QED  BY <1>1, <2>1, <2>2, PastMore
<1> QED  BY <1>2, <1>3, <1>4 DEF Forgets

(* A step of the other device. *)
LEMMA OtherForgets ==
  ASSUME Inv, NEW q \in Devices, Forgets(q), Grown(made, made'),
         mem'[q] = mem[q], row'[q] = row[q], todo'[q] = todo[q], key'[q] = key[q], got'[q] = got[q],
         \A n \in got[q] : draft'[Peer(q)][n] = draft[Peer(q)][n],
         \A e \in Unanswered(q)' : e \in Unanswered(q) \/ ~Exists(made, e)
  PROVE  Forgets(q)'
<1>1. Opened(q)' = Opened(q) /\ Opening(q)' = Opening(q) /\ Known(q)' = Known(q)
      /\ AtStep(q, "open")' = AtStep(q, "open")
  BY DEF Opened, Opening, Known, AtStep, Idle
<1>2. Taken(q)' = Taken(q)
  BY <1>1 DEF Taken
<1>3. Known(q) => Past(made', mem'[q], Taken(q), Unanswered(q)')
  <2> SUFFICES ASSUME Known(q) PROVE Past(made', mem'[q], Taken(q), Unanswered(q)')
    OBVIOUS
  <2>1. IsRatchet(mem[q]) /\ Taken(q) \in SUBSET MessageKeys
    BY OpenedTypes DEF Inv, Types
  <2>2. Past(made, mem[q], Taken(q), Unanswered(q))
    BY DEF Forgets
  <2> QED  BY <2>1, <2>2, PastMore
<1>4. /\ Opening(q)' => Known(q)' /\ key'[q] \in MessageKeys
      /\ AtStep(q, "open")' => row'[q].ratchet = mem'[q]
  BY <1>1 DEF Forgets
<1> QED  BY <1>1, <1>2, <1>3, <1>4, StillForgets

(* A step after which p is at a calm place and holds a ratchet it had.     *)
Rests(p) ==
  /\ Known(p)' => \/ Known(p) /\ mem'[p] = mem[p]
                  \/ mem'[p] = row[p].ratchet /\ row[p].ratchet # NoRatchet
  /\ todo'[p] \in Calm /\ UNCHANGED <<row, made, draft, got, key>>
  /\ mem'[Peer(p)] = mem[Peer(p)] /\ todo'[Peer(p)] = todo[Peer(p)]
  /\ \A d \in Devices : Unanswered(d)' \subseteq Unanswered(d)

LEMMA CalmClosed ==
  ASSUME NEW p \in Devices, todo'[p] \in Calm
  PROVE  ~Opening(p)' /\ ~Posting(p)' /\ ~AtStep(p, "open")'
BY CalmFacts, CalmHeads DEF Opening, Posting, AtStep, Idle

LEMMA RestsForget ==
  ASSUME Inv, ForgetInv, NEW p \in Devices, Rests(p)
  PROVE  ForgetInv'
<1> DEFINE q == Peer(p)
<1>1. /\ q \in Devices /\ q # p /\ Peer(q) = p /\ \A d \in Devices : d = p \/ d = q
  BY PeerFacts
<1>q. q = Peer(p)
  OBVIOUS
<1> HIDE DEF q
<1>2. Forgets(p) /\ Forgets(q) /\ Types
  BY <1>1 DEF ForgetInv, Inv
<1>3. /\ todo'[p] \in Calm /\ UNCHANGED <<row, made, draft, got, key>>
      /\ mem'[q] = mem[q] /\ todo'[q] = todo[q]
      /\ Unanswered(p)' \subseteq Unanswered(p) /\ Unanswered(q)' \subseteq Unanswered(q)
  BY <1>1, <1>q DEF Rests
<1>4. Grown(made, made')
  BY <1>3 DEF Grown
<1>5. Forgets(q)'
  BY <1>1, <1>2, <1>3, <1>4, OtherForgets
<1>6. ~Opening(p)' /\ ~AtStep(p, "open")'
  BY <1>3, CalmClosed
<1>7. Opened(p)' = Opened(p) /\ Taken(p)' = Opened(p) /\ Opened(p) \subseteq Taken(p)
  BY <1>3, <1>6 DEF Opened, Taken
<1>8. ASSUME Known(p)' PROVE Past(made', mem'[p], Taken(p)', Unanswered(p)')
  <2>1. CASE Known(p) /\ mem'[p] = mem[p]
    <3>1. Past(made, mem[p], Taken(p), Unanswered(p))
      BY <1>2, <2>1 DEF Forgets
    <3>2. Past(made, mem[p], Opened(p), Unanswered(p)')
      BY <1>3, <1>7, <3>1, PastLess
    <3> QED  BY <1>3, <1>7, <2>1, <3>2
  <2>2. CASE mem'[p] = row[p].ratchet /\ row[p].ratchet # NoRatchet
    <3>1. Past(made, row[p].ratchet, Opened(p), Unanswered(p))
      BY <1>2, <2>2 DEF Forgets
    <3>2. Past(made, row[p].ratchet, Opened(p), Unanswered(p)')
      BY <1>3, <3>1, PastLess
    <3> QED  BY <1>3, <1>7, <2>2, <3>2
  <2> QED  BY <1>8, <2>1, <2>2 DEF Rests
<1>9. Forgets(p)'
  BY <1>2, <1>3, <1>4, <1>6, <1>7, <1>8, StillForgets
<1> QED  BY <1>1, <1>5, <1>9 DEF ForgetInv

(* Light steps, but for the one that opens a message. *)
LEMMA LightForget ==
  ASSUME Inv, ForgetInv, NEW p \in Devices, Light(p), UNCHANGED got
  PROVE  ForgetInv'
<1>1. /\ Peer(p) \in Devices /\ Peer(p) # p /\ Peer(Peer(p)) = p
      /\ \A d \in Devices : d = p \/ d = Peer(p)
  BY PeerFacts
<1>2. /\ Known(p)' => \/ Known(p) /\ mem'[p] = mem[p]
                      \/ mem'[p] = row[p].ratchet /\ row[p].keyed /\ row[p].ratchet # NoRatchet
      /\ todo'[p] \in Calm /\ Range(handshakes'[p]) \subseteq Range(handshakes[p])
      /\ UNCHANGED <<row, made, draft>>
      /\ \A d \in Devices \ {p} :
           mem'[d] = mem[d] /\ todo'[d] = todo[d] /\ handshakes'[d] = handshakes[d]
  BY LightFacts
<1>3. UNCHANGED key
  BY DEF Light
<1>4. ~Posting(p)' /\ (Posting(Peer(p))' <=> Posting(Peer(p)))
  BY <1>1, <1>2, CalmClosed DEF Posting
<1>5. Unanswered(p)' \subseteq Unanswered(p) /\ Unanswered(Peer(p))' \subseteq Unanswered(Peer(p))
  BY <1>1, <1>2, <1>4 DEF Unanswered
<1>6. Rests(p)
  BY <1>1, <1>2, <1>3, <1>5 DEF Rests
<1> QED  BY <1>6, RestsForget

LEMMA QuietForget ==
  ASSUME Inv, ForgetInv, NEW p \in Devices,
         \/ StartSend(p) \/ Refresh(p) \/ BundlesFail(p) \/ BundlesEmpty(p) \/ BundleUnusable(p)
         \/ ShowCode(p) \/ NothingToSend(p) \/ SaveFails(p) \/ UnknownSender(p) \/ CannotOpen(p)
         \/ NoHandshakes(p) \/ IgnoreHandshakes(p) \/ FetchMessages(p)
         \/ NoMoreMessages(p) \/ Crash(p)
  PROVE  ForgetInv'
<1>1. Light(p)
  BY StartsAreLight, BundlesAreLight, ThrowsAreLight, BacklogsAreLight, FetchIsLight,
     GoingThroughIsLight, CrashIsLight
<1>2. UNCHANGED got
  BY DEF StartSend, Refresh, BundlesFail, BundlesEmpty, BundleUnusable, ShowCode, NothingToSend,
         SaveFails, UnknownSender, CannotOpen, NoHandshakes, IgnoreHandshakes, FetchMessages,
         NoMoreMessages, Crash
<1> QED  BY <1>1, <1>2, LightForget

(* Posting a handshake or a message changes no ratchet. *)
LEMMA PostHandshakeForget ==
  ASSUME Inv, ForgetInv, NEW p \in Devices, PostHandshake(p)
  PROVE  ForgetInv'
<1> DEFINE q == Peer(p)
<1>1. /\ q \in Devices /\ q # p /\ Peer(q) = p /\ \A d \in Devices : d = p \/ d = q
  BY PeerFacts
<1>q. q = Peer(p)
  OBVIOUS
<1> HIDE DEF q
<1>2. /\ Types /\ todo[p] \in Places /\ DOMAIN todo = Devices /\ FreshHandshakes(p)
      /\ handshakes \in [Devices -> Seq(PublicKeys)]
  BY DEF Inv, Safe, Types
<1>3. /\ ~Idle(p) /\ todo[p] # << >> /\ Head(todo[p]) = "post handshake" /\ GoOn(p, << >>)
      /\ UNCHANGED <<mem, row, made, draft, key, got>>
      /\ \/ handshakes' = [handshakes EXCEPT ![q] = Append(@, mem[p].local)]
         \/ UNCHANGED handshakes
  BY <1>q DEF PostHandshake, AtStep, Idle
<1>4. << >> \o Tail(todo[p]) \in Calm
  BY <1>2, <1>3, OnFromCalm
<1>5. todo'[p] \in Calm /\ todo'[q] = todo[q]
  BY <1>1, <1>2, <1>3, <1>4 DEF GoOn
<1>6. Posting(p) /\ ~Posting(p)' /\ (Posting(q)' <=> Posting(q))
  <2>1. Posting(p)
    <3>1. todo[p] \in Posts
      BY <1>2, <1>3, SaveLeft, OtherLeft
    <3> QED  BY <3>1 DEF Posting, Saving
  <2> QED  BY <1>5, <2>1, CalmClosed DEF Posting
<1>7. handshakes'[p] = handshakes[p] /\ Range(handshakes'[q]) \subseteq Range(handshakes[q]) \cup {mem[p].local}
  <2>1. mem[p].local \in PublicKeys
    BY <1>2, <1>6, RatchetFields DEF FreshHandshakes, Types
  <2>2. handshakes[q] \in Seq(PublicKeys)
    BY <1>1, <1>2
  <2>3. Range(Append(handshakes[q], mem[p].local)) = Range(handshakes[q]) \cup {mem[p].local}
    BY <2>1, <2>2, RangeAppend
  <2> QED  BY <1>1, <1>2, <1>3, <2>3
<1>8. Unanswered(p)' \subseteq Unanswered(p)
  BY <1>3, <1>6, <1>7, <1>q DEF Unanswered
<1>9. Unanswered(q)' \subseteq Unanswered(q)
  BY <1>1, <1>3, <1>6, <1>7 DEF Unanswered
<1>10. Rests(p)
  BY <1>1, <1>3, <1>5, <1>8, <1>9, <1>q DEF Rests, Known
<1> QED  BY <1>10, RestsForget

LEMMA PostForget ==
  ASSUME Inv, ForgetInv, NEW p \in Devices, Post(p) \/ PostFails(p)
  PROVE  ForgetInv'
<1>1. UNCHANGED got
  BY DEF Post, PostFails
<1>2. CASE Light(p)
  BY <1>1, <1>2, LightForget
<1>3. CASE Posted(p)
  <2>1. /\ Peer(p) \in Devices /\ Peer(p) # p /\ Peer(Peer(p)) = p
        /\ \A d \in Devices : d = p \/ d = Peer(p)
    BY PeerFacts
  <2>2. DOMAIN todo = Devices
    BY DEF Inv, Types
  <2>3. /\ UNCHANGED <<mem, row, made, draft, key, handshakes, got>>
        /\ todo' = [todo EXCEPT ![p] = << >>]
    BY <1>3 DEF Posted
  <2>4. todo'[p] \in Calm /\ todo'[Peer(p)] = todo[Peer(p)]
    BY <2>1, <2>2, <2>3 DEF Calm
  <2>5. ~Posting(p)' /\ (Posting(Peer(p))' <=> Posting(Peer(p)))
    BY <2>4, CalmClosed DEF Posting
  <2>6. Unanswered(p)' \subseteq Unanswered(p) /\ Unanswered(Peer(p))' \subseteq Unanswered(Peer(p))
    BY <2>1, <2>3, <2>5 DEF Unanswered
  <2>7. Rests(p)
    BY <2>1, <2>3, <2>4, <2>6 DEF Rests, Known
  <2> QED  BY <2>7, RestsForget
<1> QED  BY <1>2, <1>3, PostsArePosted

(* What is saved is what is in memory.                                     *)
LEMMA SaveForget ==
  ASSUME Inv, ForgetInv, NEW p \in Devices, SaveRow(p) \/ SaveKey(p)
  PROVE  ForgetInv'
<1> DEFINE q == Peer(p)
<1>1. /\ q \in Devices \ {p} /\ q \in Devices /\ q # p /\ Peer(q) = p
      /\ \A d \in Devices : d = p \/ d = q
  BY PeerFacts
<1>q. q = Peer(p)
  OBVIOUS
<1> HIDE DEF q
<1>2. Types /\ Saved(p) /\ Forgets(p) /\ Forgets(q)
  BY <1>1 DEF Inv, Safe, ForgetInv
<1>3. /\ UNCHANGED <<mem, made, draft, key, got, handshakes>> /\ GoOn(p, << >>)
      /\ AtStep(p, "row") \/ AtStep(p, "key")
  BY DEF SaveRow, SaveKey, server
<1>4. Known(p) /\ Known(p)'
  BY <1>2, <1>3 DEF Saved, Known
<1>5. /\ todo'[q] = todo[q] /\ Opening(p)' = Opening(p) /\ Posting(p)' = Posting(p)
      /\ Posting(q)' = Posting(q)
  BY <1>1, <1>3, SaveMoves DEF Posting
<1>6. row'[q] = row[q] /\ row'[p].ratchet = mem[p]
  <2>1. CASE SaveRow(p)
    BY <1>1, <1>2, <2>1 DEF SaveRow, Types
  <2>2. CASE SaveKey(p)
    <3>1. row[p] = [ratchet |-> row[p].ratchet, keyed |-> row[p].keyed] /\ DOMAIN row = Devices
      BY <1>2 DEF Types
    <3>2. row' = [row EXCEPT ![p] = [row[p] EXCEPT !.keyed = TRUE]] /\ AtStep(p, "key")
      BY <2>2 DEF SaveKey
    <3>3. [row[p] EXCEPT !.keyed = TRUE] = [ratchet |-> row[p].ratchet, keyed |-> TRUE]
      BY <3>1, KeyedChanged
    <3> QED  BY <1>1, <1>2, <3>1, <3>2, <3>3 DEF Saved
  <2> QED  BY <2>1, <2>2
<1>7. Unanswered(p)' = Unanswered(p) /\ Unanswered(q)' = Unanswered(q) /\ Grown(made, made')
  BY <1>1, <1>3, <1>5, <1>q DEF Unanswered, Grown
<1>8. Opened(p)' = Opened(p) /\ Taken(p)' = Taken(p)
  BY <1>3, <1>5 DEF Opened, Taken
<1>9. Past(made, mem[p], Taken(p), Unanswered(p)) /\ Past(made, mem[p], Opened(p), Unanswered(p))
  <2>1. Past(made, mem[p], Taken(p), Unanswered(p))
    BY <1>2, <1>4 DEF Forgets
  <2>2. Opened(p) \in SUBSET Taken(p)
    BY DEF Taken
  <2> QED  BY <2>1, <2>2, PastLess
<1>10. Forgets(q)'
  BY <1>1, <1>2, <1>3, <1>5, <1>6, <1>7, OtherForgets
<1>11. Opening(p)' => key'[p] \in MessageKeys
  BY <1>2, <1>3, <1>5 DEF Forgets
<1>12. Forgets(p)'
  BY <1>2, <1>3, <1>4, <1>6, <1>7, <1>8, <1>9, <1>11, StillForgets
<1> QED  BY <1>1, <1>10, <1>12 DEF ForgetInv

(* A message is kept once the ratchet that is past its key has been saved. *)
LEMMA OpenForget ==
  ASSUME Inv, ForgetInv, NEW p \in Devices, OpenMessage(p)
  PROVE  ForgetInv'
<1> DEFINE q == Peer(p)
<1>1. /\ q \in Devices /\ q # p /\ Peer(q) = p /\ \A d \in Devices : d = p \/ d = q
  BY PeerFacts
<1>q. q = Peer(p)
  OBVIOUS
<1> HIDE DEF q
<1>2. Types /\ Forgets(p) /\ Forgets(q) /\ todo[p] \in Places /\ DOMAIN got = Devices
  BY <1>1 DEF Inv, ForgetInv, Types
<1>3. /\ AtStep(p, "open") /\ todo[p] # << >> /\ Head(todo[p]) = "open"
      /\ UNCHANGED <<mem, row, made, draft, key, handshakes>>
      /\ key[p] = draft[q][Head(batch[p])].key
      /\ got' = [got EXCEPT ![p] = @ \cup {Head(batch[p])}]
  BY <1>q DEF OpenMessage, AtStep, Idle, Current, server
<1>4. Opening(p)
  <2>1. todo[p] = << "open" >>
    BY <1>2, <1>3, SaveLeft, OtherLeft
  <2> QED  BY <2>1 DEF Opening, Saving
<1>5. Known(p) /\ row[p].ratchet = mem[p] /\ Past(made, mem[p], Taken(p), Unanswered(p))
  BY <1>2, <1>3, <1>4 DEF Forgets
<1>6. Light(p)
  BY GoingThroughIsLight
<1>7. todo'[p] \in Calm /\ todo'[q] = todo[q] /\ got'[q] = got[q]
  BY <1>1, <1>6, LightFacts
<1>8. ~Opening(p)' /\ ~Posting(p)' /\ ~AtStep(p, "open")' /\ (Posting(q)' <=> Posting(q))
  BY <1>7, CalmClosed DEF Posting
<1>9. /\ Unanswered(p)' \subseteq Unanswered(p) /\ Unanswered(q)' \subseteq Unanswered(q)
      /\ Grown(made, made')
  BY <1>1, <1>3, <1>8, <1>q DEF Unanswered, Grown
<1>10. Forgets(q)'
  BY <1>1, <1>2, <1>3, <1>7, <1>9, OtherForgets
<1>11. Opened(p)' = Taken(p) /\ Taken(p)' = Taken(p)
  <2>1. got'[p] = got[p] \cup {Head(batch[p])}
    BY <1>2, <1>3
  <2>2. {draft'[q][n].key : n \in got'[p]} = {draft[q][n].key : n \in got[p]} \cup {key[p]}
    BY <1>3, <2>1
  <2>3. Opened(p)' = Taken(p)
    BY <1>4, <2>2, <1>q DEF Opened, Taken
  <2> QED  BY <1>8, <2>3 DEF Taken
<1>12. Past(made', mem'[p], Taken(p), Unanswered(p)')
  BY <1>3, <1>5, <1>9, PastLess
<1>13. \A k \in Taken(p) : AllExist(made', k.secret)
  BY <1>12 DEF Past, ReceiveSide
<1>14. Unused(Unanswered(p)', Taken(p))
  BY <1>12 DEF Past, Unused
<1>15. Forgets(p)'
  BY <1>3, <1>5, <1>8, <1>11, <1>12, <1>13, <1>14 DEF Forgets
<1> QED  BY <1>1, <1>10, <1>15 DEF ForgetInv

(* A session of its own ephemeral key. *)
LEMMA CreateForget ==
  ASSUME Inv, ForgetInv, NEW p \in Devices, CreateInitiator(p)
  PROVE  ForgetInv'
<1> DEFINE q == Peer(p)
           fresh == PublicKey(p, made[p])
           r == InitiatorRatchet(fresh, Signed(q))
<1>1. /\ q \in Devices /\ q # p /\ Peer(q) = p /\ \A d \in Devices : d = p \/ d = q
  BY PeerFacts
<1>q. q = Peer(p)
  OBVIOUS
<1> HIDE DEF q
<1>2. /\ Types /\ Forgets(p) /\ Forgets(q) /\ made[p] \in Nat /\ made[q] \in Nat
      /\ made[p] >= 1 /\ made[q] >= 1 /\ made \in [Devices -> Nat] /\ todo[p] \in Places
      /\ DOMAIN todo = Devices /\ DOMAIN mem = Devices
  BY <1>1 DEF Inv, Types, ForgetInv
<1>3. /\ ~Idle(p) /\ todo[p] # << >> /\ Head(todo[p]) = "bundles"
      /\ mem' = [mem EXCEPT ![p] = r] /\ made' = [made EXCEPT ![p] = @ + 1]
      /\ GoOn(p, AfterCreate)
      /\ UNCHANGED <<row, draft, key, handshakes, got>>
  BY <1>q DEF CreateInitiator, AtStep, Idle, server
<1>4. /\ fresh.owner = p /\ fresh.nth = made[p] /\ ~Exists(made, fresh)
      /\ Signed(q).owner = q /\ Signed(q).nth = 0
  <2>1. fresh.owner = p /\ fresh.nth = made[p] /\ Signed(q).owner = q /\ Signed(q).nth = 0
    BY <1>1, <1>2, PublicKeyFacts
  <2> QED  BY <1>2, <2>1 DEF Exists
<1>5. /\ made'[p] = made[p] + 1 /\ made'[q] = made[q]
      /\ Exists(made', fresh) /\ Exists(made', Signed(q)) /\ Grown(made, made')
  <2>1. made'[p] = made[p] + 1 /\ made'[q] = made[q]
    BY <1>1, <1>2, <1>3
  <2>2. \A d \in Devices : made[d] \in Nat /\ made'[d] \in Nat /\ made'[d] >= made[d]
    BY <1>1, <1>2, <2>1
  <2> QED  BY <1>2, <1>4, <2>1, <2>2, MoreGrown DEF Exists
<1> HIDE DEF fresh
<1>6. /\ r.local = fresh /\ r.skipped = NoSkipped
      /\ r.recv.key = [secret |-> {fresh, Signed(q)}, label |-> "DRXrecv1", step |-> 0]
  BY DEF InitiatorRatchet, InitialRatchet, NewChain, ChainKey, Dh
<1> HIDE DEF r
<1>7. /\ ~Opening(p)' /\ ~AtStep(p, "open")' /\ todo'[q] = todo[q]
  <2>1. PICK s \in Posts : AfterCreate \o Tail(todo[p]) = Save \o s
    BY <1>2, <1>3, OnFromSave
  <2>2. todo'[p] = Save \o s /\ todo'[q] = todo[q]
    BY <1>1, <1>2, <1>3, <2>1 DEF GoOn
  <2>3. s \in AfterSave /\ s # << "open" >>
    BY RestsApart DEF AfterSave
  <2> QED  BY <2>2, <2>3, SavePlace DEF Opening, AtStep
<1>8. mem'[p] = r /\ mem'[q] = mem[q]
  BY <1>1, <1>2, <1>3
<1>9. Unanswered(p)' = Unanswered(p) /\ \A e \in Unanswered(q)' : e \in Unanswered(q) \/ e = fresh
  <2>1. Posting(q)' = Posting(q)
    BY <1>7 DEF Posting
  <2> QED  BY <1>1, <1>3, <1>6, <1>8, <2>1, <1>q DEF Unanswered
<1>10. Forgets(q)'
  BY <1>1, <1>2, <1>3, <1>4, <1>5, <1>7, <1>8, <1>9, OtherForgets
<1>11. Opened(p)' = Opened(p) /\ Taken(p)' = Opened(p)
  BY <1>3, <1>7 DEF Opened, Taken
<1>12. Past(made', mem'[p], Opened(p), Unanswered(p)')
  <2>1. Opened(p) \in SUBSET MessageKeys
    BY OpenedTypes
  <2>2. ASSUME NEW k \in Opened(p)
        PROVE  /\ AllExist(made', k.secret) /\ fresh \notin k.secret /\ ~SameChain(k, r.recv.key)
    <3>1. AllExist(made, k.secret)
      BY <1>2 DEF Forgets
    <3>2. fresh \notin k.secret
      BY <1>4, <3>1 DEF AllExist
    <3> QED  BY <1>5, <1>6, <2>1, <3>1, <3>2, ReceiveMore DEF SameChain
  <2>3. Unused(Unanswered(p)', Opened(p))
    BY <1>2, <1>9 DEF Forgets
  <2> DEFINE l == "DRXrecv1"
  <2>4. l \in {"DRXsend1", "DRXrecv1"} /\ l # "DRXsend1"
        /\ r.recv.key = [secret |-> {fresh, Signed(q)}, label |-> l, step |-> 0]
    BY <1>6
  <2> HIDE DEF l
  <2> QED  BY <1>5, <1>6, <1>8, <2>2, <2>3, <2>4, PastNew
<1>13. Forgets(p)'
  BY <1>2, <1>3, <1>5, <1>7, <1>9, <1>11, <1>12, StillForgets
<1> QED  BY <1>1, <1>10, <1>13 DEF ForgetInv

(* A handshake is answered once, and with the signed prekey: what that one *)
(* gives again is not among what was opened.                               *)
LEMMA AnswerForget ==
  ASSUME Inv, ForgetInv, NEW p \in Devices, AnswerHandshake(p)
  PROVE  ForgetInv'
<1> DEFINE q == Peer(p)
           e == Head(handshakes[p])
           r == RecipientRatchet(Signed(p), e)
<1>1. /\ q \in Devices /\ q # p /\ Peer(q) = p /\ \A d \in Devices : d = p \/ d = q
  BY PeerFacts
<1>q. q = Peer(p)
  OBVIOUS
<1> HIDE DEF q
<1>2. /\ Types /\ Forgets(p) /\ Forgets(q) /\ Safe(p) /\ Safe(q) /\ todo[p] \in Places
      /\ made[p] \in Nat /\ made[p] >= 1
      /\ DOMAIN todo = Devices /\ DOMAIN mem = Devices /\ handshakes \in [Devices -> Seq(PublicKeys)]
  BY <1>1 DEF Inv, Types, ForgetInv
<1>3. /\ ~Idle(p) /\ todo[p] # << >> /\ Head(todo[p]) = "handshakes" /\ handshakes[p] # << >>
      /\ mem' = [mem EXCEPT ![p] = r] /\ handshakes' = [handshakes EXCEPT ![p] = << >>]
      /\ GoOn(p, Save)
      /\ UNCHANGED <<row, made, draft, key, got>>
  BY DEF AnswerHandshake, AtStep, Idle
<1>4. e \in Range(handshakes[p]) /\ e \in Unanswered(p) /\ e.owner = q /\ Exists(made, e)
  <2>1. handshakes[p] \in Seq(PublicKeys)
    BY <1>2
  <2>2. e \in Range(handshakes[p])
    BY <1>3, <2>1, RangeTail
  <2> HIDE DEF e
  <2>3. e \in Unanswered(p)
    BY <2>2 DEF Unanswered
  <2> QED  BY <2>2, <2>3, OpenedTypes, <1>q
<1> HIDE DEF e
<1>5. Signed(p).owner = p /\ Exists(made, Signed(p))
  <2>1. Signed(p).owner = p /\ Signed(p).nth = 0
    BY <1>1, PublicKeyFacts
  <2> QED  BY <1>2, <2>1 DEF Exists
<1>6. /\ r.local = Signed(p) /\ r.skipped = NoSkipped
      /\ r.recv.key = [secret |-> {Signed(p), e}, label |-> "DRXsend1", step |-> 0]
  BY DEF RecipientRatchet, InitialRatchet, NewChain, ChainKey, Dh
<1> HIDE DEF r
<1>7. ~Opening(p)' /\ ~Posting(p)' /\ ~AtStep(p, "open")' /\ todo'[q] = todo[q]
  <2>1. PICK s \in {<< "bundles", "code" >>, << "messages" >>} : Save \o Tail(todo[p]) = Save \o s
    BY <1>2, <1>3, OnFromSave
  <2>2. todo'[p] = Save \o s /\ todo'[q] = todo[q]
    BY <1>1, <1>2, <1>3, <2>1 DEF GoOn
  <2>3. s \in AfterSave /\ s # << "open" >> /\ s \notin Posts
    BY RestsApart
  <2> QED  BY <2>2, <2>3, SavePlace DEF Opening, Posting, AtStep
<1>8. mem'[p] = r /\ mem'[q] = mem[q] /\ handshakes'[p] = << >> /\ handshakes'[q] = handshakes[q]
  BY <1>1, <1>2, <1>3
<1>9. Posting(q)' = Posting(q)
  BY <1>7 DEF Posting
<1>10. Unanswered(p)' \subseteq Unanswered(p) /\ Unanswered(q)' \subseteq Unanswered(q)
  BY <1>1, <1>7, <1>8, <1>9, <1>q, RangeEmpty DEF Unanswered
<1>11. e \notin Unanswered(p)' /\ Signed(p) \notin Unanswered(p)'
  <2>1. Signed(p) \notin Unanswered(p)
    BY <1>1, <1>5, OpenedTypes, <1>q
  <2>2. Posting(q) => mem[q].local # e
    BY <1>1, <1>2, <1>4 DEF Safe, FreshHandshakes
  <2> QED  BY <1>8, <1>9, <1>10, <2>1, <2>2, <1>q, RangeEmpty DEF Unanswered
<1>12. Grown(made, made')
  BY <1>3 DEF Grown
<1>13. Forgets(q)'
  BY <1>1, <1>2, <1>3, <1>7, <1>8, <1>10, <1>12, OtherForgets
<1>14. Opened(p)' = Opened(p) /\ Taken(p)' = Opened(p)
  BY <1>3, <1>7 DEF Opened, Taken
<1>15. Past(made', mem'[p], Opened(p), Unanswered(p)')
  <2>1. ASSUME NEW k \in Opened(p)
        PROVE  /\ AllExist(made', k.secret) /\ (k.label = "DHRatchet" => Signed(p) \notin k.secret)
               /\ ~SameChain(k, r.recv.key)
    <3>1. AllExist(made, k.secret) /\ (k.label = "DRXsend1" => e \notin k.secret)
      BY <1>2, <1>4 DEF Forgets, Unused
    <3>2. k.label = "DHRatchet" => Signed(p) \notin k.secret
      BY DEF Opened, OfSignedPrekey
    <3>3. ~SameChain(k, r.recv.key)
      BY <1>6, <3>1 DEF SameChain
    <3> QED  BY <1>3, <3>1, <3>2, <3>3
  <2>2. Unused(Unanswered(p)', Opened(p))
    BY <1>2, <1>10 DEF Forgets, Unused
  <2>3. Exists(made', Signed(p)) /\ Exists(made', e)
    BY <1>3, <1>4, <1>5
  <2> DEFINE l == "DRXsend1"
  <2>4. l \in {"DRXsend1", "DRXrecv1"}
        /\ r.recv.key = [secret |-> {Signed(p), e}, label |-> l, step |-> 0]
    BY <1>6
  <2> HIDE DEF l
  <2> QED  BY <1>6, <1>8, <1>11, <2>1, <2>2, <2>3, <2>4, PastNew
<1>16. Forgets(p)'
  BY <1>2, <1>3, <1>7, <1>10, <1>12, <1>14, <1>15, StillForgets
<1> QED  BY <1>1, <1>13, <1>16 DEF ForgetInv

(* Sending leaves the receiving half alone. *)
LEMMA AdvanceForget ==
  ASSUME Inv, ForgetInv, NEW p \in Devices, Advance(p)
  PROVE  ForgetInv'
<1> DEFINE q == Peer(p)
           m == mem[p]
           a == AdvanceSend(m)
           msg == [header |-> a.header, key |-> a.key]
<1>1. /\ q \in Devices /\ q # p /\ Peer(q) = p /\ \A d \in Devices : d = p \/ d = q
  BY PeerFacts
<1>q. q = Peer(p)
  OBVIOUS
<1> HIDE DEF q
<1>2. /\ Types /\ Forgets(p) /\ Forgets(q) /\ Safe(q) /\ todo[p] \in Places /\ DOMAIN todo = Devices
      /\ DOMAIN mem = Devices /\ DOMAIN draft = Devices /\ draft[p] \in Seq(Messages)
  BY <1>1 DEF Inv, Types, ForgetInv
<1>3. /\ ~Idle(p) /\ todo[p] # << >> /\ Head(todo[p]) = "advance" /\ Known(p)
      /\ mem' = [mem EXCEPT ![p] = a.ratchet]
      /\ draft' = [draft EXCEPT ![p] = Append(@, msg)]
      /\ GoOn(p, AfterAdvance)
      /\ UNCHANGED <<row, made, key, handshakes, got>>
  BY DEF Advance, AtStep, Idle, server
<1>4. IsRatchet(m)
  BY <1>2, <1>3 DEF Types
<1>5. /\ a.ratchet.local = m.local /\ a.ratchet.recv = m.recv /\ a.ratchet.skipped = m.skipped
      /\ msg \in Messages
  <2>a. a = AdvanceSend(m)
    OBVIOUS
  <2> HIDE DEF m, a
  <2>1. a.header \in Headers
    BY <1>4, <2>a, SendSplit
  <2>2. a.key \in MessageKeys
    BY <1>4, <2>a, SendSplit
  <2> DEFINE s == IF m.due THEN DhChain(m.local, m.remote) ELSE m.send
  <2>3. s = (IF m.due THEN DhChain(m.local, m.remote) ELSE m.send)
    OBVIOUS
  <2> HIDE DEF s
  <2>4. a.ratchet = [due |-> FALSE, local |-> m.local, remote |-> m.remote,
                     send |-> [index |-> s.index + 1, key |-> KeyAfter(s.key, 1)],
                     recv |-> m.recv, skipped |-> m.skipped]
    BY <1>4, <2>3, <2>a, SendForm
  <2> QED  BY <2>1, <2>2, <2>4 DEF Messages
<1>m. m = mem[p]
  OBVIOUS
<1> HIDE DEF a, m, msg
<1>6. batch[p] = << >> /\ ~Opening(p)
  <2>1. batch[p] = << >>
    BY <1>3, NoBatch
  <2> QED  BY <2>1, OffOpening
<1>7. ~Opening(p)' /\ ~Posting(p)' /\ ~AtStep(p, "open")' /\ todo'[q] = todo[q]
  <2>1. AfterAdvance \o Tail(todo[p]) = Save \o << "post" >> /\ << "post" >> \in AfterSave
    BY <1>2, <1>3, OnFromSave DEF AfterSave
  <2>2. todo'[p] = Save \o << "post" >> /\ todo'[q] = todo[q]
    BY <1>1, <1>2, <1>3, <2>1 DEF GoOn
  <2> QED  BY <2>1, <2>2, SavePlace, RestsApart DEF Opening, Posting, AtStep
<1>8. /\ mem'[p] = a.ratchet /\ mem'[q] = mem[q] /\ draft'[q] = draft[q]
      /\ \A n \in got[q] : draft'[p][n] = draft[p][n]
  <2>1. mem'[p] = a.ratchet /\ mem'[q] = mem[q] /\ draft'[q] = draft[q]
        /\ draft'[p] = Append(draft[p], msg)
    BY <1>1, <1>2, <1>3
  <2>2. got[q] \subseteq DOMAIN draft[p]
    BY <1>1, <1>2 DEF Safe, Prepared
  <2>3. \A n \in DOMAIN draft[p] : Append(draft[p], msg)[n] = draft[p][n]
    BY <1>2, <1>5, RangeAppend
  <2> QED  BY <2>1, <2>2, <2>3
<1>9. Posting(q)' = Posting(q)
  BY <1>7 DEF Posting
<1>10. /\ Unanswered(p)' = Unanswered(p) /\ Unanswered(q)' \subseteq Unanswered(q)
       /\ Grown(made, made')
  BY <1>1, <1>3, <1>7, <1>8, <1>9, <1>q DEF Unanswered, Grown
<1>11. Forgets(q)'
  BY <1>1, <1>2, <1>3, <1>7, <1>8, <1>10, OtherForgets
<1>12. Opened(p)' = Opened(p) /\ Taken(p)' = Taken(p) /\ Opened(p) = Taken(p)
  <2>1. Opened(p)' = Opened(p)
    <3>1. got' = got /\ draft'[Peer(p)] = draft[Peer(p)]
      BY <1>3, <1>8, <1>q
    <3> QED  BY <3>1 DEF Opened, OfSignedPrekey
  <2>2. Taken(p) = Opened(p)
    BY <1>6 DEF Taken
  <2>3. Taken(p)' = Opened(p)
    BY <1>7, <2>1 DEF Taken
  <2> QED  BY <2>1, <2>2, <2>3
<1>13. Past(made', mem'[p], Taken(p)', Unanswered(p)')
  <2>1. Past(made, m, Taken(p), Unanswered(p))
    BY <1>2, <1>3, <1>m DEF Forgets
  <2>2. Past(made, a.ratchet, Taken(p), Unanswered(p))
    BY <1>5, <2>1, PastSame
  <2> QED  BY <1>3, <1>8, <1>10, <1>12, <2>2
<1>14. Forgets(p)'
  BY <1>2, <1>3, <1>7, <1>10, <1>12, <1>13, StillForgets
<1> QED  BY <1>1, <1>11, <1>14 DEF ForgetInv

(* The key of a message is taken out of the ratchet before it is opened.   *)
LEMMA TakeForget ==
  ASSUME Inv, ForgetInv, NEW p \in Devices, TakeKey(p)
  PROVE  ForgetInv'
<1> DEFINE q == Peer(p)
           m == mem[p]
           h == Current(p).header
           fresh == PublicKey(p, made[p])
           a == AdvanceReceive(m, h, fresh)
<1>1. /\ q \in Devices /\ q # p /\ Peer(q) = p /\ \A d \in Devices : d = p \/ d = q
  BY PeerFacts
<1>q. q = Peer(p)
  OBVIOUS
<1> HIDE DEF q
<1>2. /\ Types /\ Safe(p) /\ Safe(q) /\ Forgets(p) /\ Forgets(q) /\ todo[p] \in Places
      /\ DOMAIN todo = Devices /\ DOMAIN mem = Devices /\ DOMAIN key = Devices
      /\ made[p] \in Nat /\ made[q] \in Nat /\ made \in [Devices -> Nat]
  BY <1>1 DEF Inv, Types, ForgetInv
<1>3. /\ ~Idle(p) /\ todo[p] # << >> /\ Head(todo[p]) = "next message" /\ batch[p] # << >> /\ Known(p)
      /\ made' = [made EXCEPT ![p] = IF NewDh(m, h) THEN @ + 1 ELSE @]
      /\ UNCHANGED <<row, draft, handshakes, got>>
  BY DEF TakeKey, AtStep, Idle, server
<1>4. \/ /\ a.key # NoKey /\ mem' = [mem EXCEPT ![p] = a.ratchet] /\ key' = [key EXCEPT ![p] = a.key]
         /\ GoOn(p, AfterTake)
      \/ a.key = NoKey /\ Throw(p, a.ratchet) /\ UNCHANGED key
  BY DEF TakeKey
<1>5. a.key \in MessageKeys \cup {NoKey}
  BY <1>3, TakeFacts
<1>6. IsRatchet(m) /\ Exists(made, m.local)
  BY <1>2, <1>3 DEF Types, Safe, Fine, FineRatchet
<1>7. h \in Headers /\ Exists(made, h.dh)
  <2>1. batch[p] \in Seq(Nat)
    BY <1>2 DEF Types
  <2>2. Head(batch[p]) \in Range(batch[p])
    BY <1>3, <2>1, RangeTail
  <2>3. Head(batch[p]) \in DOMAIN draft[q]
    BY <1>2, <2>2, <1>q DEF Safe, Prepared
  <2>4. draft[q][Head(batch[p])] \in Messages /\ FineMessage(made, q, draft[q][Head(batch[p])])
    BY <1>1, <1>2, <2>3 DEF Types, Safe, Fine
  <2>5. h = draft[q][Head(batch[p])].header
    BY <1>q DEF Current
  <2> HIDE DEF h
  <2> QED  BY <2>4, <2>5 DEF FineMessage, Messages
<1>8. fresh \in PublicKeys /\ ~Exists(made, fresh)
  <2>1. fresh \in PublicKeys /\ fresh.owner = p /\ fresh.nth = made[p]
    BY <1>2, PublicKeyFacts
  <2> QED  BY <1>2, <2>1 DEF Exists
<1>m. m = mem[p]
  OBVIOUS
<1>a. a = AdvanceReceive(m, h, fresh)
  OBVIOUS
<1> HIDE DEF a, h, fresh, m
<1>9. made'[q] = made[q] /\ Grown(made, made')
  <2>1. made'[q] = made[q] /\ made'[p] = (IF NewDh(m, h) THEN made[p] + 1 ELSE made[p])
    BY <1>1, <1>2, <1>3
  <2>2. \A d \in Devices : made[d] \in Nat /\ made'[d] \in Nat /\ made'[d] >= made[d]
    BY <1>1, <1>2, <2>1
  <2> QED  BY <2>1, <2>2, MoreGrown
<1>10. ~Opening(p) /\ todo[p] = << "next message" >>
  <2>1. todo[p] = << "next message" >> /\ << "next message" >> \in Calm
    BY <1>2, <1>3, SaveLeft, OtherLeft DEF Calm
  <2> QED  BY <2>1, CalmFacts DEF Opening
<1>11. /\ mem'[q] = mem[q] /\ todo'[q] = todo[q] /\ key'[q] = key[q]
       /\ Posting(q)' = Posting(q)
  BY <1>1, <1>2, <1>4 DEF GoOn, Throw, Posting
<1>12. ~Posting(p)' /\ ~AtStep(p, "open")'
  <2>1. << "open" >> \in AfterSave /\ << >> \in Calm
    BY DEF AfterSave, Calm
  <2>2. CASE GoOn(p, AfterTake)
    <3>1. AfterTake \o Tail(todo[p]) = Save \o << "open" >>
      BY <1>2, <1>3, OnFromSave
    <3>2. todo'[p] = Save \o << "open" >>
      BY <1>2, <2>2, <3>1 DEF GoOn
    <3> QED  BY <2>1, <3>2, SavePlace, RestsApart DEF Posting, AtStep
  <2>3. CASE Throw(p, a.ratchet)
    <3>1. todo'[p] = << >>
      BY <1>2, <2>3 DEF Throw
    <3> QED  BY <2>1, <3>1, CalmClosed
  <2> QED  BY <1>4, <2>2, <2>3
<1>13. Unanswered(p)' = Unanswered(p) /\ Unanswered(q)' \subseteq Unanswered(q)
  BY <1>1, <1>3, <1>11, <1>12, <1>q DEF Unanswered
<1>14. Forgets(q)'
  BY <1>1, <1>2, <1>3, <1>9, <1>11, <1>13, OtherForgets
<1>15. Opened(p)' = Opened(p) /\ Taken(p) = Opened(p) /\ Opened(p) \in SUBSET MessageKeys
  BY <1>3, <1>10, OpenedTypes DEF Opened, Taken
<1>16. Past(made', a.ratchet, IF a.key = NoKey THEN Opened(p) ELSE Opened(p) \cup {a.key}, Unanswered(p))
  <2>1. Past(made, m, Opened(p), Unanswered(p))
    BY <1>2, <1>3, <1>15, <1>m DEF Forgets
  <2> QED  BY <1>6, <1>7, <1>8, <1>9, <1>15, <1>a, <2>1, PastTake
<1>17. CASE /\ a.key # NoKey /\ mem' = [mem EXCEPT ![p] = a.ratchet] /\ key' = [key EXCEPT ![p] = a.key]
            /\ GoOn(p, AfterTake)
  <2>1. mem'[p] = a.ratchet /\ key'[p] = a.key /\ key'[p] \in MessageKeys
    BY <1>2, <1>5, <1>17
  <2>2. Known(p)'
    <3>1. IsRatchet(a.ratchet)
      BY <1>6, <1>7, <1>8, <1>a, ReceiveTypes
    <3> QED  BY <2>1, <3>1, IsSome DEF Known
  <2>3. Taken(p)' \in SUBSET (Opened(p) \cup {a.key})
    BY <1>15, <2>1 DEF Taken
  <2>4. Past(made', mem'[p], Taken(p)', Unanswered(p)')
    BY <1>13, <1>16, <1>17, <2>1, <2>3, PastLess
  <2>5. Forgets(p)'
    BY <1>2, <1>3, <1>9, <1>12, <1>13, <1>15, <2>1, <2>2, <2>4, StillForgets
  <2> QED  BY <1>1, <1>14, <2>5 DEF ForgetInv
<1>18. CASE a.key = NoKey /\ Throw(p, a.ratchet) /\ UNCHANGED key
  <2>1. mem'[p] \in {a.ratchet, Loaded(p)} /\ todo'[p] \in Calm
    BY <1>2, <1>18 DEF Throw, Calm
  <2>2. ~Opening(p)'
    BY <2>1, CalmClosed
  <2>3. Taken(p)' = Opened(p)
    BY <1>15, <2>2 DEF Taken
  <2>4. ASSUME Known(p)' PROVE Past(made', mem'[p], Taken(p)', Unanswered(p)')
    <3>1. CASE mem'[p] = a.ratchet
      BY <1>13, <1>16, <1>18, <2>3, <3>1
    <3>2. CASE mem'[p] = Loaded(p)
      <4>1. mem'[p] = row[p].ratchet /\ row[p].ratchet # NoRatchet
        BY <2>4, <3>2 DEF Known, Loaded
      <4>2. IsRatchet(row[p].ratchet) /\ Past(made, row[p].ratchet, Opened(p), Unanswered(p))
        BY <1>2, <4>1 DEF Types, Forgets
      <4>3. Past(made', row[p].ratchet, Opened(p), Unanswered(p))
        BY <1>9, <1>15, <4>2, PastMore
      <4> QED  BY <1>13, <2>3, <4>1, <4>3
    <3> QED  BY <2>1, <3>1, <3>2
  <2>5. Forgets(p)'
    BY <1>2, <1>3, <1>9, <1>12, <1>13, <1>15, <2>2, <2>4, StillForgets
  <2> QED  BY <1>1, <1>14, <2>5 DEF ForgetInv
<1> QED  BY <1>4, <1>17, <1>18

LEMMA ForgetStep ==
  ASSUME Inv, ForgetInv, NEW p \in Devices, StartSend(p) \/ Refresh(p) \/ Step(p) \/ Crash(p)
  PROVE  ForgetInv'
<1>1. \/ StartSend(p) \/ Refresh(p) \/ BundlesFail(p) \/ BundlesEmpty(p) \/ BundleUnusable(p)
      \/ ShowCode(p) \/ NothingToSend(p) \/ SaveFails(p) \/ UnknownSender(p) \/ CannotOpen(p)
      \/ NoHandshakes(p) \/ IgnoreHandshakes(p) \/ FetchMessages(p)
      \/ NoMoreMessages(p) \/ OpenMessage(p) \/ Crash(p)
      \/ CreateInitiator(p) \/ PostHandshake(p) \/ SaveRow(p) \/ SaveKey(p) \/ Advance(p)
      \/ Post(p) \/ PostFails(p) \/ AnswerHandshake(p) \/ TakeKey(p)
  BY DEF Step
<1> QED  BY <1>1, QuietForget, OpenForget, CreateForget, PostHandshakeForget, SaveForget,
            AdvanceForget, PostForget, AnswerForget, TakeForget

LEMMA ForgetStutter ==
  ASSUME ForgetInv, UNCHANGED vars
  PROVE  ForgetInv'
<1>1. UNCHANGED <<mem, row, made, todo, draft, key, handshakes, got>>
  BY DEF vars, local, server
<1>2. ASSUME NEW p \in Devices PROVE Forgets(p)' = Forgets(p)
  <2>1. /\ Opened(p)' = Opened(p) /\ Opening(p)' = Opening(p) /\ Known(p)' = Known(p)
        /\ AtStep(p, "open")' = AtStep(p, "open") /\ Unanswered(p)' = Unanswered(p)
    BY <1>1 DEF Opened, Opening, Known, AtStep, Idle, Unanswered, Posting
  <2>2. Taken(p)' = Taken(p)
    BY <1>1, <2>1 DEF Taken
  <2> QED  BY <1>1, <2>1, <2>2 DEF Forgets
<1> QED  BY <1>2 DEF ForgetInv

LEMMA ForgetInit == Init => ForgetInv
<1> SUFFICES ASSUME Init, NEW p \in Devices PROVE Forgets(p)
  BY DEF ForgetInv
<1>1. got[p] = {} /\ ~Known(p) /\ row[p].ratchet = NoRatchet /\ todo[p] = << >>
  BY DEF Init, Known
<1>2. ~Opening(p) /\ ~AtStep(p, "open")
  <2>1. << >> \in Calm
    BY DEF Calm
  <2> QED  BY <1>1, <2>1, CalmFacts DEF Opening, AtStep, Idle
<1>3. Opened(p) = {}
  BY <1>1 DEF Opened
<1> QED  BY <1>1, <1>2, <1>3 DEF Forgets, Unused

(* What was opened cannot be read from the row that a restart loads.       *)
LEMMA InvForgets == Inv /\ ForgetInv => ForwardSecrecyAtRest
<1> SUFFICES ASSUME Inv, ForgetInv, NEW p \in Devices, Loaded(p) # NoRatchet, NEW n \in got[p],
                    ~OfSignedPrekey(p, draft[Peer(p)][n].key)
             PROVE  /\ ~Derivable(draft[Peer(p)][n].key, row[p].ratchet.recv.key)
                    /\ \A i \in DOMAIN row[p].ratchet.skipped :
                         row[p].ratchet.skipped[i] # draft[Peer(p)][n].key
  BY DEF ForwardSecrecyAtRest
<1> DEFINE r == row[p].ratchet
           k == draft[Peer(p)][n].key
<1>1. r # NoRatchet
  BY DEF Loaded
<1>2. IsRatchet(r) /\ ReceiveSide(made, r, Opened(p))
  BY <1>1 DEF Inv, Types, ForgetInv, Forgets, Past
<1>3. k \in Opened(p) /\ k \in MessageKeys
  BY OpenedTypes DEF Opened
<1> HIDE DEF r, k
<1>4. k.step \in Nat /\ r.recv.key.step \in Nat
  BY <1>2, <1>3, RatchetFields DEF Chains, MessageKeys
<1>5. ~Derivable(k, r.recv.key)
  BY <1>2, <1>3, <1>4 DEF ReceiveSide, SameChain, Derivable
<1>6. \A i \in DOMAIN r.skipped : r.skipped[i] # k
  BY <1>2, <1>3 DEF ReceiveSide, Stored
<1> QED  BY <1>5, <1>6 DEF r, k

(* The key of a message that was opened is gone from the database: neither *)
(* the chain key nor the backlog of the row that a restart loads gives it, *)
(* unless it is of a chain the signed prekey makes again.                  *)
THEOREM ForgottenAtRest == Spec => []ForwardSecrecyAtRest
<1>1. Inv /\ ForgetInv /\ [Next]_vars => ForgetInv'
  BY ForgetStep, ForgetStutter DEF Next
<1> QED  BY Inductive, ForgetInit, InvForgets, <1>1, PTL DEF Spec
=============================================================================
