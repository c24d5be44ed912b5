------------------------------ MODULE Prekeys ------------------------------
(***************************************************************************)
(* The prekeys of one device, its owner's: the signed prekey and the       *)
(* one-time keys login_user makes, saves and posts, the bundles the server *)
(* hands out of them, and the X3DH agreement of the peers who take one     *)
(* with the owner who answers their handshake.                             *)
(*                                                                         *)
(* A private half is only in the owner's database.  What the server        *)
(* advertises and what the database holds are changed by separate steps,   *)
(* and peers take bundles and post handshakes between any two of them.     *)
(*                                                                         *)
(* A signed prekey is its number, in the order they are made.  Its age is  *)
(* counted in days, and no day ends in the middle of a login.  Signatures  *)
(* are left out: the device key that signs a prekey never changes.         *)
(***************************************************************************)
EXTENDS Naturals

CONSTANTS
  Peers,        \* the devices that contact the owner
  Owner,        \* the owner's device
  Batch,        \* one-time keys made by a login (100 in the code)
  MaxAge,       \* days after which a login replaces the signed prekey (14 in the code)
  MaxLogins,    \* bound: logins
  MaxMishaps,   \* bound: failed requests, failed statements and crashes
  Nothing       \* no bundle, no session

OneTimeKeys == [login : Nat, nth : 1 .. Batch]
Keys == ({"device"} \X (Peers \cup {Owner})) \cup ({"ephemeral"} \X Peers)
          \cup ({"signed"} \X Nat) \cup ({"onetime"} \X OneTimeKeys)
Bundles == [signed : Nat, onetime : OneTimeKeys]
Handshakes == [from : Peers, onetime : OneTimeKeys]
Agreements == [signed : Nat, secret : [1 .. 4 -> SUBSET Keys]]

ASSUME PeersAssumption == Owner \notin Peers
ASSUME SizesAssumption == Batch \in Nat /\ MaxAge \in Nat /\ MaxLogins \in Nat /\ MaxMishaps \in Nat
ASSUME NothingAssumption == Nothing \notin Bundles \cup Agreements

VARIABLES
  signed,      \* the signed prekey in table keypairs, 0 before the first
  age,         \* days since its row was written, MaxAge + 1 standing for all that are more
  onetime,     \* the one-time keys in table onetime_prekeys
  step,        \* where login_user is, or "out", or "in"
  fresh,       \* whether this login has made a signed prekey
  logins,      \* how many logins have been started
  advertised,  \* at the server: the signed prekey, 0 before the first
  pool,        \* at the server: the one-time keys not yet handed out
  bundle,      \* bundle[p]: the bundle p has fetched and not yet used
  theirs,      \* theirs[p]: the session p has made with the owner
  ours,        \* ours[p]: the session the owner has made with p
  waiting,     \* at the server: the handshakes for the owner
  backlog,     \* the handshakes update_handshakes still has to go through
  unsaved,     \* the one-time keys whose insertion has failed
  mishaps      \* what has gone wrong so far

database == <<signed, age, onetime, unsaved>>
login == <<step, fresh, logins>>
server == <<advertised, pool, waiting>>
ends == <<bundle, theirs, ours>>
vars == <<database, login, server, ends, backlog, mishaps>>

Init ==
  /\ signed = 0 /\ age = 0 /\ onetime = {} /\ unsaved = {}
  /\ step = "out" /\ fresh = FALSE /\ logins = 0
  /\ advertised = 0 /\ pool = {} /\ waiting = {}
  /\ bundle = [p \in Peers |-> Nothing]
  /\ theirs = [p \in Peers |-> Nothing]
  /\ ours = [p \in Peers |-> Nothing]
  /\ backlog = {}
  /\ mishaps = 0

Mishap == mishaps < MaxMishaps /\ mishaps' = mishaps + 1

-----------------------------------------------------------------------------
(* X3DH.  A DH output is the set of the two keys it is made of, and the    *)
(* shared secret the sequence of the four that are hashed.                 *)

DeviceKey(d) == <<"device", d>>
EphemeralKey(p) == <<"ephemeral", p>>
SignedKey(n) == <<"signed", n>>
OneTimeKey(k) == <<"onetime", k>>

Dh(a, b) == {a, b}

X3dhInitiator(p, n, k) ==
  << Dh(DeviceKey(p), SignedKey(n)), Dh(EphemeralKey(p), DeviceKey(Owner)),
     Dh(EphemeralKey(p), SignedKey(n)), Dh(EphemeralKey(p), OneTimeKey(k)) >>

(* Mutant: the first two outputs are the other way round. *)
X3dhResponderSwapped(p, n, k) ==
  << Dh(DeviceKey(Owner), EphemeralKey(p)), Dh(SignedKey(n), DeviceKey(p)),
     Dh(SignedKey(n), EphemeralKey(p)), Dh(OneTimeKey(k), EphemeralKey(p)) >>

X3dhResponder(p, n, k) ==
  << Dh(SignedKey(n), DeviceKey(p)), Dh(DeviceKey(Owner), EphemeralKey(p)),
     Dh(SignedKey(n), EphemeralKey(p)), Dh(OneTimeKey(k), EphemeralKey(p)) >>

(* What a ratchet is made of: the signed prekey and the shared secret. *)
Initiated(p, b) == [signed |-> b.signed, secret |-> X3dhInitiator(p, b.signed, b.onetime)]
Responded(h) == [signed |-> signed, secret |-> X3dhResponder(h.from, signed, h.onetime)]

-----------------------------------------------------------------------------
(* login_user, once it has loaded the ratchets.                            *)

(* Mutant: one key too many. *)
NewKeysOneMore(n) == [login : {n}, nth : 1 .. Batch + 1]

(* The one-time keys of the n-th login. *)
NewKeys(n) == [login : {n}, nth : 1 .. Batch]

(* Mutant: the signed prekey is never replaced. *)
DueOnlyFirst == signed = 0

(* There is no signed prekey, or its row is older than MaxAge days.        *)
Due == signed = 0 \/ age > MaxAge

Login ==
  /\ step = "out" /\ logins < MaxLogins
  /\ step' = "date" /\ logins' = logins + 1
  /\ UNCHANGED <<database, fresh, server, ends, backlog, mishaps>>

(* Mutant: the one-time keys are not saved. *)
AfterDateUnsaved == "post"

AfterDate == "save"

(* generate_signed_prekey replaces the row: the private half of the key it *)
(* held is gone.                                                           *)
Rotate ==
  /\ step = "date" /\ Due
  /\ signed' = signed + 1 /\ age' = 0
  /\ fresh' = TRUE /\ step' = AfterDate
  /\ UNCHANGED <<onetime, unsaved, logins, server, ends, backlog, mishaps>>

(* What fails after the row was replaced leaves what Crash leaves. *)
RotateFails ==
  /\ step = "date" /\ Due /\ Mishap
  /\ step' = "out"
  /\ UNCHANGED <<database, fresh, logins, server, ends, backlog>>

(* prekey stays a pair of null pointers. *)
KeepSigned ==
  /\ step = "date" /\ ~Due
  /\ fresh' = FALSE /\ step' = AfterDate
  /\ UNCHANGED <<database, logins, server, ends, backlog, mishaps>>

(* One INSERT for each key.  A failed one is caught inside the loop, and   *)
(* its key is posted with the others.                                      *)
SaveOneTimeKeys ==
  /\ step = "save"
  /\ \E lost \in SUBSET NewKeys(logins) :
       /\ IF lost = {} THEN UNCHANGED mishaps ELSE Mishap
       /\ onetime' = onetime \cup (NewKeys(logins) \ lost)
       /\ unsaved' = unsaved \cup lost
  /\ step' = "post"
  /\ UNCHANGED <<signed, age, fresh, logins, server, ends, backlog>>

ServerTakes ==
  /\ advertised' = IF fresh THEN signed ELSE advertised
  /\ pool' = pool \cup NewKeys(logins)

Post ==
  /\ step = "post"
  /\ ServerTakes
  /\ step' = "in"
  /\ UNCHANGED <<database, fresh, logins, waiting, ends, backlog, mishaps>>

(* The request fails before or after the server acted on it: the login has *)
(* failed, and what is saved stays.                                        *)
PostFails ==
  /\ step = "post" /\ Mishap
  /\ ServerTakes \/ UNCHANGED <<advertised, pool>>
  /\ step' = "out"
  /\ UNCHANGED <<database, fresh, logins, waiting, ends, backlog>>

(* The guard on logins is the bound: the last login is not given up, so    *)
(* that what waits at the server can still be answered.                    *)
Logout ==
  /\ step = "in" /\ backlog = {} /\ logins < MaxLogins
  /\ step' = "out"
  /\ UNCHANGED <<database, fresh, logins, server, ends, backlog, mishaps>>

(* The owner's process ends, wherever it is. *)
Crash ==
  /\ step # "out" /\ Mishap
  /\ step' = "out" /\ backlog' = {}
  /\ UNCHANGED <<database, fresh, logins, server, ends>>

NextDay ==
  /\ step \in {"out", "in"} /\ signed # 0 /\ age <= MaxAge
  /\ age' = age + 1
  /\ UNCHANGED <<signed, onetime, unsaved, login, server, ends, backlog, mishaps>>

-----------------------------------------------------------------------------
(* A peer: get_keybundles, then create_ratchets_if_needed.                 *)

(* The server hands out a one-time key with the bundle.  Without one left, *)
(* 32 zero bytes stand for it and x3dh_initiator throws: nothing is kept.  *)
FetchBundle(p) ==
  /\ theirs[p] = Nothing /\ bundle[p] = Nothing
  /\ advertised # 0
  /\ \E k \in pool :
       /\ bundle' = [bundle EXCEPT ![p] = [signed |-> advertised, onetime |-> k]]
       /\ pool' = pool \ {k}
  /\ UNCHANGED <<database, login, advertised, waiting, theirs, ours, backlog, mishaps>>

(* The ratchet is made of the shared secret and the signed prekey, and     *)
(* saved.  A failed post of the handshake is swallowed.  The handshake     *)
(* names the signed prekey too, which get_handshake_backlog does not read. *)
Establish(p) ==
  LET b == bundle[p]
  IN  /\ b # Nothing
      /\ theirs' = [theirs EXCEPT ![p] = Initiated(p, b)]
      /\ bundle' = [bundle EXCEPT ![p] = Nothing]
      /\ \/ /\ waiting' = waiting \cup {[from |-> p, onetime |-> b.onetime]}
            /\ UNCHANGED mishaps
         \/ Mishap /\ UNCHANGED waiting
      /\ UNCHANGED <<database, login, advertised, pool, ours, backlog>>

(* The peer fails, or its process ends, before the ratchet is kept. *)
LoseBundle(p) ==
  /\ bundle[p] # Nothing /\ Mishap
  /\ bundle' = [bundle EXCEPT ![p] = Nothing]
  /\ UNCHANGED <<database, login, server, theirs, ours, backlog>>

-----------------------------------------------------------------------------
(* update_handshakes on the owner's device.                                *)

FetchHandshakes ==
  /\ step = "in" /\ backlog = {} /\ waiting # {}
  /\ waiting' = {}
  /\ \/ backlog' = waiting /\ UNCHANGED mishaps
     \/ Mishap /\ UNCHANGED backlog
  /\ UNCHANGED <<database, login, advertised, pool, ends>>

(* Mutant: one handshake is answered, the others are dropped. *)
AfterAnswerStops(h) == {}

AfterAnswer(h) == backlog \ {h}

(* The current signed prekey is used, whichever the peer was given. *)
Answer(h) ==
  /\ h \in backlog /\ h.onetime \in onetime
  /\ ours' = [ours EXCEPT ![h.from] = Responded(h)]
  /\ backlog' = AfterAnswer(h)
  /\ UNCHANGED <<database, login, server, bundle, theirs, mishaps>>

(* get_onetime_private_key finds no row and returns a null pointer, which  *)
(* x3dh_responder follows: the process ends.                               *)
AnswerWithoutKey(h) ==
  /\ h \in backlog /\ h.onetime \notin onetime
  /\ step' = "out" /\ backlog' = {}
  /\ UNCHANGED <<database, fresh, logins, server, ends, mishaps>>

Work ==
  \/ Rotate \/ KeepSigned \/ SaveOneTimeKeys \/ Post
  \/ FetchHandshakes \/ \E h \in backlog : Answer(h) \/ AnswerWithoutKey(h)

Next ==
  \/ Login \/ Work \/ RotateFails \/ PostFails \/ Logout \/ Crash \/ NextDay
  \/ \E p \in Peers : FetchBundle(p) \/ Establish(p) \/ LoseBundle(p)

Spec == Init /\ [][Next]_vars

(* A login that was started goes on, the user comes back, and a list that  *)
(* is shown is refreshed.                                                  *)
FairSpec == Spec /\ WF_vars(Login) /\ WF_vars(Work)

-----------------------------------------------------------------------------
Steps == {"out", "date", "save", "post", "in"}

(* Type invariant.  Among what it says: one-time keys are numbered within  *)
(* their batch, and handshakes are gone through only by a user who is in.  *)
TypeOK ==
  /\ signed \in Nat /\ advertised \in Nat
  /\ age \in 0 .. MaxAge + 1
  /\ onetime \subseteq OneTimeKeys /\ unsaved \subseteq OneTimeKeys /\ pool \subseteq OneTimeKeys
  /\ step \in Steps /\ fresh \in BOOLEAN /\ logins \in Nat
  /\ bundle \in [Peers -> Bundles \cup {Nothing}]
  /\ waiting \subseteq Handshakes /\ backlog \subseteq Handshakes
  /\ theirs \in [Peers -> Agreements \cup {Nothing}]
  /\ ours \in [Peers -> Agreements \cup {Nothing}]
  /\ backlog # {} => step = "in"
  /\ mishaps \in Nat

(* Whatever crashed or failed, login_user has saved what the server        *)
(* advertises before it is advertised: no peer is given a signed prekey    *)
(* the database has not had, nor comes with a one-time key that is not     *)
(* there, unless the insertion of that very key failed.                    *)
SavedBeforeAdvertised ==
  LET had == onetime \cup unsaved
  IN  /\ advertised <= signed
      /\ \A p \in Peers : theirs[p] # Nothing => theirs[p].signed <= signed
      /\ pool \subseteq had
      /\ \A p \in Peers : bundle[p] # Nothing => bundle[p].onetime \in had
      /\ \A h \in waiting \cup backlog : h.onetime \in had

(* x3dh_initiator and x3dh_responder agree: when both ends have made the    *)
(* session from one signed prekey, they hold one secret, and the owner is  *)
(* never at an older signed prekey than the peer.                          *)
SecretsAgree ==
  \A p \in Peers : theirs[p] # Nothing /\ ours[p] # Nothing =>
     /\ theirs[p].signed <= ours[p].signed
     /\ theirs[p].signed = ours[p].signed => theirs[p].secret = ours[p].secret

(* A login that fails after it has replaced the signed prekey leaves the   *)
(* server with one nobody can use.  The first login that succeeds once the *)
(* replacement is older than MaxAge days repairs that; an earlier one does *)
(* not.                                                                    *)
RepairedAfterMaxAge ==
  [][step = "post" /\ step' = "in" => advertised' = signed \/ (~fresh /\ age <= MaxAge)]_vars

(* As long as nothing fails, the owner makes the session a peer has made,  *)
(* whenever the user logs out and in and whenever the keys change.         *)
EventuallyAnswered ==
  \A p \in Peers :
     theirs[p] # Nothing /\ mishaps = 0 ~> ours[p] # Nothing \/ mishaps > 0
=============================================================================
