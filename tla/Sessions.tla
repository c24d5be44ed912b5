------------------------------ MODULE Sessions ------------------------------
(***************************************************************************)
(* RatchetSessionManager on two devices, with the database each keeps and  *)
(* the server between them.                                                *)
(*                                                                         *)
(* A device runs one handler at a time: what is left of it is todo[p], a   *)
(* sequence of steps.  Between two steps the other device may act, and the *)
(* process may end.  An exception leaves the handler: nothing catches it   *)
(* between the session manager and the slot, so either a slot's try block  *)
(* ends the handler or the exception ends the process.                     *)
(*                                                                         *)
(* A save is two statements, one row each: the encrypted ratchet and the   *)
(* key it is encrypted under.  A ratchet row whose key row is not its own  *)
(* (`keyed' is FALSE) cannot be decrypted, and is skipped on load.         *)
(*                                                                         *)
(* The server is not in the repository.  It is modelled as the client uses *)
(* it: what a GET returns is not returned again (nothing is acknowledged,  *)
(* and advance_receive throws on a message it has already seen), and a     *)
(* request may fail before or after the server acts on it.                 *)
(***************************************************************************)
EXTENDS Parties, Functions

CONSTANTS
  Senders,        \* the devices whose users send files
  MaxSends,       \* bound: messages each device prepares
  MaxMishaps      \* bound: failed requests, failed statements and crashes

ASSUME SendersAssumption == Senders \subseteq Devices
ASSUME Bounds == MaxSends \in Nat /\ MaxMishaps \in Nat

(* The session manager has no entry for the other device.                  *)
NoRatchet == [due |-> FALSE]

VARIABLES
  mem,         \* mem[p]: the ratchet of RatchetSessionManager::ratchets
  row,         \* row[p]: [ratchet, keyed], its rows in tables ratchets and ratchet_keys
  made,        \* made[p]: how many key pairs p has made
  todo,        \* todo[p]: the steps left of the handler p is in
  draft,       \* draft[p]: sequence of [header, key], the messages p has prepared
  batch,       \* batch[p]: sequence of numbers, the messages update_messages still has to go through
  key,         \* key[p]: the message key get_key_for_device returned last
  handshakes,  \* handshakes[p]: at the server for p, the initiator ephemeral keys
  mailbox,     \* mailbox[p]: at the server for p, numbers of the other device's messages
  posted,      \* posted[p]: numbers of p's messages the server has had
  got,         \* got[p]: numbers of the messages p has opened and kept
  mishaps      \* what has gone wrong so far

local == <<mem, row, made, todo, draft, batch, key>>
server == <<handshakes, mailbox, posted>>
vars == <<local, server, got, mishaps>>

Init ==
  /\ mem = [p \in Devices |-> NoRatchet]
  /\ row = [p \in Devices |-> [ratchet |-> NoRatchet, keyed |-> FALSE]]
  /\ made = [p \in Devices |-> 1]
  /\ todo = [p \in Devices |-> << >>]
  /\ draft = [p \in Devices |-> << >>]
  /\ batch = [p \in Devices |-> << >>]
  /\ key = [p \in Devices |-> NoKey]
  /\ handshakes = [p \in Devices |-> << >>]
  /\ mailbox = [p \in Devices |-> << >>]
  /\ posted = [p \in Devices |-> {}]
  /\ got = [p \in Devices |-> {}]
  /\ mishaps = 0

-----------------------------------------------------------------------------
Known(p) == mem[p] # NoRatchet
Idle(p) == todo[p] = << >>
AtStep(p, s) == ~Idle(p) /\ Head(todo[p]) = s

(* The handler goes on with the steps `first' and then what it had left.   *)
GoOn(p, first) == todo' = [todo EXCEPT ![p] = first \o Tail(@)]

Save == << "row", "key" >>

(* load_ratchets_from_db, after a restart.                                 *)
Loaded(p) == IF row[p].keyed THEN row[p].ratchet ELSE NoRatchet

(* The exception reaches a slot that catches it, or ends the process.      *)
Throw(p, caught) ==
  /\ todo' = [todo EXCEPT ![p] = << >>]
  /\ batch' = [batch EXCEPT ![p] = << >>]
  /\ mem' \in {[mem EXCEPT ![p] = caught], [mem EXCEPT ![p] = Loaded(p)]}

Mishap == mishaps < MaxMishaps /\ mishaps' = mishaps + 1

-----------------------------------------------------------------------------
(* What the user starts.                                                   *)

SendFile == << "bundles", "advance" >>
SendToKnown == << "advance" >>            \* get_keybundles is FALSE
ShowAuthCode == << "handshakes", "bundles", "code" >>
RefreshFileList == << "handshakes", "messages" >>

StartSend(p) ==
  /\ Idle(p) /\ p \in Senders
  /\ Len(draft[p]) < MaxSends
  /\ \E steps \in {SendFile, SendToKnown, ShowAuthCode} : todo' = [todo EXCEPT ![p] = steps]
  /\ UNCHANGED <<mem, row, made, draft, batch, key, server, got, mishaps>>

Refresh(p) ==
  /\ Idle(p)
  /\ todo' = [todo EXCEPT ![p] = RefreshFileList]
  /\ UNCHANGED <<mem, row, made, draft, batch, key, server, got, mishaps>>

-----------------------------------------------------------------------------
(* get_keybundles, then create_ratchets_if_needed for a sending bundle.    *)

(* The request fails: no bundles, the handler goes on.                     *)
BundlesFail(p) ==
  /\ AtStep(p, "bundles") /\ Mishap
  /\ GoOn(p, << >>)
  /\ UNCHANGED <<mem, row, made, draft, batch, key, server, got>>

(* The device is known already.  The server has no new bundle: it answers  *)
(* with an error, which counts as no bundles, or with an empty list, on    *)
(* which get_keybundles throws.                                            *)
BundlesEmpty(p) ==
  /\ AtStep(p, "bundles") /\ Known(p)
  /\ \/ GoOn(p, << >>) /\ UNCHANGED <<mem, batch>>
     \/ Throw(p, mem[p])
  /\ UNCHANGED <<row, made, draft, key, server, got, mishaps>>

(* The other device ran out of one-time keys: create_ratchet throws.       *)
BundleUnusable(p) ==
  /\ AtStep(p, "bundles") /\ ~Known(p) /\ Mishap
  /\ Throw(p, mem[p])
  /\ UNCHANGED <<row, made, draft, key, server, got>>

(* Mutant: the handshake is left out. *)
AfterCreateNoPost == Save

AfterCreate == Save \o << "post handshake" >>

CreateInitiator(p) ==
  /\ AtStep(p, "bundles") /\ ~Known(p)
  /\ mem' = [mem EXCEPT ![p] = InitiatorRatchet(PublicKey(p, made[p]), Signed(Peer(p)))]
  /\ made' = [made EXCEPT ![p] = @ + 1]
  /\ GoOn(p, AfterCreate)
  /\ UNCHANGED <<row, draft, batch, key, server, got, mishaps>>

(* A failure is logged and swallowed, whether or not the server acted.     *)
PostHandshake(p) ==
  /\ AtStep(p, "post handshake")
  /\ \/ /\ handshakes' = [handshakes EXCEPT ![Peer(p)] = Append(@, mem[p].local)]
        /\ UNCHANGED mishaps
     \/ Mishap /\ UNCHANGED handshakes
  /\ GoOn(p, << >>)
  /\ UNCHANGED <<mem, row, made, draft, batch, key, mailbox, posted, got>>

(* onShowAuthCodeClicked reads the first device id; without one that is an *)
(* access past the end of an empty vector, which may end the process.      *)
ShowCode(p) ==
  /\ AtStep(p, "code")
  /\ \/ GoOn(p, << >>) /\ UNCHANGED <<mem, batch>>
     \/ ~Known(p) /\ Throw(p, mem[p])
  /\ UNCHANGED <<row, made, draft, key, server, got, mishaps>>

-----------------------------------------------------------------------------
(* save: either statement may fail, and throws.                            *)

(* INSERT OR REPLACE INTO ratchets: the row no longer fits its key row.    *)
SaveRow(p) ==
  /\ AtStep(p, "row")
  /\ row' = [row EXCEPT ![p] = [ratchet |-> mem[p], keyed |-> FALSE]]
  /\ GoOn(p, << >>)
  /\ UNCHANGED <<mem, made, draft, batch, key, server, got, mishaps>>

(* INSERT OR REPLACE INTO ratchet_keys.                                    *)
SaveKey(p) ==
  /\ AtStep(p, "key")
  /\ row' = [row EXCEPT ![p].keyed = TRUE]
  /\ GoOn(p, << >>)
  /\ UNCHANGED <<mem, made, draft, batch, key, server, got, mishaps>>

SaveFails(p) ==
  /\ AtStep(p, "row") \/ AtStep(p, "key")
  /\ Mishap
  /\ Throw(p, mem[p])
  /\ UNCHANGED <<row, made, draft, key, server, got>>

-----------------------------------------------------------------------------
(* get_keys_for_identity and allow_access_to_file.                         *)

(* Without a ratchet there is no key, and nothing to post.                 *)
NothingToSend(p) ==
  /\ AtStep(p, "advance") /\ ~Known(p)
  /\ GoOn(p, << >>)
  /\ UNCHANGED <<mem, row, made, draft, batch, key, server, got, mishaps>>

(* Mutant: the message is posted before the ratchet is saved. *)
AfterAdvancePostsFirst == << "post" >> \o Save

AfterAdvance == Save \o << "post" >>

Advance(p) ==
  LET r == AdvanceSend(mem[p])
  IN  /\ AtStep(p, "advance") /\ Known(p)
      /\ mem' = [mem EXCEPT ![p] = r.ratchet]
      /\ draft' = [draft EXCEPT ![p] = Append(@, [header |-> r.header, key |-> r.key])]
      /\ GoOn(p, AfterAdvance)
      /\ UNCHANGED <<row, made, batch, key, server, got, mishaps>>

ServerTakes(p) ==
  /\ mailbox' = [mailbox EXCEPT ![Peer(p)] = Append(@, Len(draft[p]))]
  /\ posted' = [posted EXCEPT ![p] = @ \cup {Len(draft[p])}]

Post(p) ==
  /\ AtStep(p, "post")
  /\ ServerTakes(p)
  /\ GoOn(p, << >>)
  /\ UNCHANGED <<mem, row, made, draft, batch, key, handshakes, got, mishaps>>

(* The request fails before or after the server took the message.          *)
PostFails(p) ==
  /\ AtStep(p, "post") /\ Mishap
  /\ ServerTakes(p) \/ UNCHANGED <<mailbox, posted>>
  /\ Throw(p, mem[p])
  /\ UNCHANGED <<row, made, draft, key, handshakes, got>>

-----------------------------------------------------------------------------
(* update_handshakes: get_handshake_backlog and create_ratchets_if_needed. *)

(* A failed request counts as an empty answer, even if the server has      *)
(* handed the backlog out.                                                 *)
NoHandshakes(p) ==
  /\ AtStep(p, "handshakes")
  /\ \/ handshakes[p] = << >> /\ UNCHANGED <<handshakes, mishaps>>
     \/ Mishap /\ handshakes' \in {handshakes, [handshakes EXCEPT ![p] = << >>]}
  /\ GoOn(p, << >>)
  /\ UNCHANGED <<mem, row, made, draft, batch, key, mailbox, posted, got>>

(* The device is known: the handshakes are dropped.                        *)
IgnoreHandshakes(p) ==
  /\ AtStep(p, "handshakes") /\ Known(p)
  /\ handshakes[p] # << >>
  /\ handshakes' = [handshakes EXCEPT ![p] = << >>]
  /\ GoOn(p, << >>)
  /\ UNCHANGED <<mem, row, made, draft, batch, key, mailbox, posted, got, mishaps>>

(* The first handshake of the backlog makes the session, the others are    *)
(* then from a known device.                                               *)
AnswerHandshake(p) ==
  /\ AtStep(p, "handshakes") /\ ~Known(p)
  /\ handshakes[p] # << >>
  /\ mem' = [mem EXCEPT ![p] = RecipientRatchet(Signed(p), Head(handshakes[p]))]
  /\ handshakes' = [handshakes EXCEPT ![p] = << >>]
  /\ GoOn(p, Save)
  /\ UNCHANGED <<row, made, draft, batch, key, mailbox, posted, got, mishaps>>

-----------------------------------------------------------------------------
(* update_messages.                                                        *)

FetchMessages(p) ==
  /\ AtStep(p, "messages")
  /\ \/ /\ batch' = [batch EXCEPT ![p] = mailbox[p]]
        /\ mailbox' = [mailbox EXCEPT ![p] = << >>]
        /\ UNCHANGED mishaps
     \/ /\ Mishap
        /\ mailbox' \in {mailbox, [mailbox EXCEPT ![p] = << >>]}
        /\ UNCHANGED batch
  /\ GoOn(p, << "next message" >>)
  /\ UNCHANGED <<mem, row, made, draft, key, handshakes, posted, got>>

NoMoreMessages(p) ==
  /\ AtStep(p, "next message") /\ batch[p] = << >>
  /\ GoOn(p, << >>)
  /\ UNCHANGED <<mem, row, made, draft, batch, key, server, got, mishaps>>

(* The message being handled. *)
Current(p) == draft[Peer(p)][Head(batch[p])]

(* get_key_for_device: "User not found" or "Device not found".             *)
UnknownSender(p) ==
  /\ AtStep(p, "next message") /\ batch[p] # << >> /\ ~Known(p)
  /\ Throw(p, mem[p])
  /\ UNCHANGED <<row, made, draft, key, server, got, mishaps>>

(* Mutant: the message is kept before the ratchet is saved. *)
AfterTakeOpensFirst == << "open" >> \o Save

AfterTake == Save \o << "open" >>

(* get_key_for_device: advance_receive, then save, or the throw inside     *)
(* advance_receive.  The ratchet is changed in place: what the throw left  *)
(* of it stays in memory, unsaved.                                         *)
TakeKey(p) ==
  LET h == Current(p).header
      r == AdvanceReceive(mem[p], h, PublicKey(p, made[p]))
  IN  /\ AtStep(p, "next message") /\ batch[p] # << >> /\ Known(p)
      /\ made' = [made EXCEPT ![p] = IF NewDh(mem[p], h) THEN @ + 1 ELSE @]
      /\ \/ /\ r.key # NoKey
            /\ mem' = [mem EXCEPT ![p] = r.ratchet]
            /\ key' = [key EXCEPT ![p] = r.key]
            /\ GoOn(p, AfterTake)
            /\ UNCHANGED batch
         \/ /\ r.key = NoKey
            /\ Throw(p, r.ratchet)
            /\ UNCHANGED key
      /\ UNCHANGED <<row, draft, server, got, mishaps>>

(* Mutant: the rest of the batch is left once a message is kept. *)
AfterOpenStops == << >>

AfterOpen == << "next message" >>

(* decrypt_message_given_key gives the file key, which is kept.            *)
OpenMessage(p) ==
  /\ AtStep(p, "open") /\ key[p] = Current(p).key
  /\ got' = [got EXCEPT ![p] = @ \cup {Head(batch[p])}]
  /\ batch' = [batch EXCEPT ![p] = Tail(@)]
  /\ GoOn(p, AfterOpen)
  /\ UNCHANGED <<mem, row, made, draft, key, server, mishaps>>

(* Under another key it throws, or keeping it fails: either way the        *)
(* ratchet has been advanced and saved.                                    *)
CannotOpen(p) ==
  /\ AtStep(p, "open")
  /\ \/ key[p] # Current(p).key /\ UNCHANGED mishaps
     \/ Mishap
  /\ Throw(p, mem[p])
  /\ UNCHANGED <<row, made, draft, key, server, got>>

-----------------------------------------------------------------------------
(* The process ends between two steps, and is started again.               *)
Crash(p) ==
  /\ Mishap
  /\ todo' = [todo EXCEPT ![p] = << >>]
  /\ batch' = [batch EXCEPT ![p] = << >>]
  /\ mem' = [mem EXCEPT ![p] = Loaded(p)]
  /\ UNCHANGED <<row, made, draft, key, server, got>>

Step(p) ==
  \/ BundlesFail(p) \/ BundlesEmpty(p) \/ BundleUnusable(p)
  \/ CreateInitiator(p) \/ PostHandshake(p) \/ ShowCode(p)
  \/ SaveRow(p) \/ SaveKey(p) \/ SaveFails(p)
  \/ NothingToSend(p) \/ Advance(p) \/ Post(p) \/ PostFails(p)
  \/ NoHandshakes(p) \/ IgnoreHandshakes(p) \/ AnswerHandshake(p)
  \/ FetchMessages(p) \/ NoMoreMessages(p)
  \/ UnknownSender(p) \/ TakeKey(p) \/ OpenMessage(p) \/ CannotOpen(p)

Next == \E p \in Devices : StartSend(p) \/ Refresh(p) \/ Step(p) \/ Crash(p)

Spec == Init /\ [][Next]_vars

(* A handler that has started goes on, and a user comes back to the list.  *)
FairSpec == Spec /\ \A p \in Devices : WF_vars(Step(p)) /\ WF_vars(Refresh(p))

-----------------------------------------------------------------------------
Steps == { "bundles", "code", "post handshake", "row", "key", "advance", "post",
           "handshakes", "messages", "next message", "open" }

(* Type invariant.  Among what it says: a handler never has work left in a *)
(* batch once it has ended, and a key row is there only with a ratchet row. *)
TypeOK ==
  /\ \A p \in Devices :
       /\ Known(p) => IsRatchet(mem[p])
       /\ row[p].ratchet # NoRatchet => IsRatchet(row[p].ratchet)
       /\ row[p].keyed \in BOOLEAN /\ (row[p].keyed => row[p].ratchet # NoRatchet)
       /\ Range(batch[p]) \cup Range(mailbox[p]) \cup got[p] \subseteq DOMAIN draft[Peer(p)]
       /\ posted[p] \subseteq DOMAIN draft[p]
       /\ Idle(p) => batch[p] = << >>
  /\ made \in [Devices -> Nat]
  /\ todo \in [Devices -> Seq(Steps)]
  /\ draft \in [Devices -> Seq(Messages)]
  /\ key \in [Devices -> MessageKeys \cup {NoKey}]
  /\ handshakes \in [Devices -> Seq(PublicKeys)]
  /\ mishaps \in 0 .. MaxMishaps

(* The key k lies on the chain that starts at c. *)
Derivable(k, c) == k.secret = c.secret /\ k.label = c.label /\ k.step >= c.step

(* No two messages the server has had are encrypted under one key, whatever *)
(* crashes, failed saves, lost handshakes and re-created sessions occurred. *)
NoKeyReuse ==
  \A p, q \in Devices : \A m \in posted[p], n \in posted[q] :
     draft[p][m].key = draft[q][n].key => p = q /\ m = n

(* The ratchet a restart would load cannot send under a key that was        *)
(* posted: get_keys_for_identity saves before allow_access_to_file posts.   *)
RestartSafe ==
  \A p \in Devices : row[p].keyed =>
     \A q \in Devices : \A n \in posted[q] :
        ~Derivable(draft[q][n].key, row[p].ratchet.send.key)

(* A key of a DH-step chain that p made with its signed prekey.  p goes back *)
(* to that key pair whenever it answers a handshake, so it can make the      *)
(* chain again when it is given a header of the same sender.                 *)
OfSignedPrekey(p, k) == k.label = "DHRatchet" /\ Signed(p) \in k.secret

(* Forward secrecy at rest: the key of a message a device has kept can no   *)
(* longer be read or derived from the ratchet in its database, unless the   *)
(* signed prekey it still holds gives it again.                             *)
ForwardSecrecyAtRest ==
  \A p \in Devices : Loaded(p) # NoRatchet =>
     \A n \in got[p] :
        LET k == draft[Peer(p)][n].key
        IN  OfSignedPrekey(p, k) \/
              /\ ~Derivable(k, row[p].ratchet.recv.key)
              /\ \A i \in DOMAIN row[p].ratchet.skipped : row[p].ratchet.skipped[i] # k

(* As long as nothing failed, a message never waits for a device that has   *)
(* neither a session with its sender nor a handshake to make one from.      *)
HandshakeBeforeMessage ==
  \A p \in Devices :
     mishaps = 0 /\ (mailbox[p] # << >> \/ batch[p] # << >>)
       => Known(p) \/ handshakes[p] # << >>

(* The messages on their way to p: TakeKey has not been run on them. *)
OnTheWay(p) ==
  Range(mailbox[p]) \cup
    Range(IF "open" \in Range(todo[p]) THEN Tail(batch[p]) ELSE batch[p])

(* While only one side has made a session, every message on its way to a    *)
(* device that holds its end of it can be opened there, whatever was lost   *)
(* and whoever crashed: the two ends of one handshake never drift apart.    *)
SoleSessionReadable ==
  made[Alice] + made[Bob] = 3 =>
     \A p \in Devices : Known(p) =>
        \A n \in OnTheWay(p) :
           AdvanceReceive(mem[p], draft[Peer(p)][n].header, PublicKey(p, made[p])).key
             = draft[Peer(p)][n].key

(* What waits for a device that holds its end of the session is eventually  *)
(* opened and kept there.                                                   *)
EventuallyKept ==
  \A p \in Devices \ Senders : \A n \in 1 .. MaxSends :
     Known(p) /\ n \in Range(mailbox[p]) ~> n \in got[p]
=============================================================================
