-------------------------------- MODULE Vault --------------------------------
(***************************************************************************)
(* The secrets one machine keeps for its users: the salt file, the         *)
(* encrypted database, the KEK and the session, through registration,      *)
(* login, logout and change of passphrase.                                 *)
(*                                                                         *)
(* The master key is derived from a passphrase and the salt in the user's  *)
(* salt file.  It opens the database file, and it encrypts the KEK in it;  *)
(* the KEK encrypts the private keys.  Three places have to agree, and     *)
(* nothing writes them together.                                           *)
(*                                                                         *)
(* Database, KekManager, SessionTokenManager and RatchetSessionManager are *)
(* singletons: there is one of each for all users.  Registration runs on a *)
(* thread of its own ("worker"), everything else on the GUI thread.        *)
(*                                                                         *)
(* A handler is a sequence of steps.  A step fails before it has had an    *)
(* effect; a step that has its effect and fails then leaves what the       *)
(* failure of the next step leaves.                                        *)
(***************************************************************************)
EXTENDS Naturals, Sequences

CONSTANTS
  Users,
  Passphrases,
  None,           \* no file, no row, no handle, nobody
  Habits,         \* what users do besides the usual: a subset of AllHabits
  MaxDraws,       \* bound: how often a salt is drawn
  MaxMishaps      \* bound: failed steps and crashes

AllHabits ==
  {"takenNames", "loginMeanwhile", "backingOut"}

ASSUME HabitsAssumption == Habits \subseteq AllHabits
ASSUME Bounds == MaxDraws \in Nat /\ MaxMishaps \in Nat

Threads == {"gui", "worker"}

VARIABLES
  salt,       \* salt[u]: the salt file of u
  db,         \* db[u]: the database file of u, [key, kek, identity, device]
  open,       \* Database: [user, key], the file it has open and the key it was opened with
  kek,        \* KekManager: the KEK loaded
  session,    \* SessionTokenManager: [user, pass], for whom and by which passphrase
  ratchets,   \* RatchetSessionManager: the users whose ratchets it has loaded
  inside,     \* one of the windows behind the login is shown
  job,        \* job[t]: the handler thread t is in
  identities, \* at the server: identities[u], the identity key of u
  devices,    \* at the server: devices[u], the device keys of u
  told,       \* told[u]: the passphrase u goes by here, last told to have succeeded with
  drawn,      \* how many salts have been drawn
  mishaps     \* what has gone wrong so far

files == <<salt, db>>
memory == <<open, kek, session, ratchets, inside>>
server == <<identities, devices>>
vars == <<files, memory, job, server, told, drawn, mishaps>>

(* What a handler draws (salt, KEK, key pairs) is known by one number.     *)
Numbers == 0 .. MaxDraws
MasterKeys == [salt : Numbers, pass : Passphrases]
KekRows == [kek : Numbers, under : MasterKeys]
KeyRows == [pair : Numbers, under : Numbers]
Files ==
  [ key : MasterKeys \cup {None}, kek : KekRows \cup {None},
    identity : KeyRows \cup {None}, device : KeyRows \cup {None} ]
Handles == [user : Users, key : MasterKeys]
Tokens == [user : Users, pass : Passphrases]
Steps ==
  { "saveSalt", "initialize", "initSchema", "setKek", "saveKek", "saveIdentity", "postUser",
    "saveDevice", "postDevice", "derive", "loadKek", "authenticate", "loadRatchets",
    "postKeys", "enter", "rekey", "saveNewSalt", "saveNewKek", "logout" }
Jobs ==
  [ user : Users \cup {None}, pass : Passphrases \cup {None}, new : Passphrases \cup {None},
    n : Numbers, key : MasterKeys \cup {None}, steps : Seq(Steps) ]

ASSUME NoneIsNone ==
  /\ None \notin Users /\ None \notin Passphrases /\ None \notin Numbers
  /\ None \notin MasterKeys /\ None \notin KekRows /\ None \notin KeyRows
  /\ None \notin Files /\ None \notin Handles /\ None \notin Tokens

MasterKey(s, p) == [salt |-> s, pass |-> p]

NoJob == [user |-> None, pass |-> None, new |-> None, n |-> 0, key |-> None, steps |-> << >>]
EmptyFile == [key |-> None, kek |-> None, identity |-> None, device |-> None]

(* Number 0 is what a user who registered on another machine has there.    *)
Init ==
  /\ salt = [u \in Users |-> None]
  /\ db = [u \in Users |-> None]
  /\ open = None /\ kek = None /\ session = None /\ ratchets = {} /\ inside = FALSE
  /\ job = [t \in Threads |-> NoJob]
  /\ identities \in [Users -> {None, 0}]
  /\ devices = [u \in Users |-> IF identities[u] = None THEN {} ELSE {0}]
  /\ told = [u \in Users |-> None]
  /\ drawn = 0
  /\ mishaps = 0

-----------------------------------------------------------------------------
Idle(t) == job[t] = NoJob
Quiet == \A t \in Threads : Idle(t)
AtStep(t, s) == ~Idle(t) /\ Head(job[t].steps) = s

(* The handler goes on, or ends with its last step.                        *)
GoOn(t) ==
  LET j == job[t]
  IN  job' = [job EXCEPT ![t] = IF Len(j.steps) = 1 THEN NoJob
                                ELSE [j EXCEPT !.steps = Tail(j.steps)]]

(* The slot or the thread function catches the exception and shows it.     *)
Throw(t) == job' = [job EXCEPT ![t] = NoJob]

Mishap == mishaps < MaxMishaps /\ mishaps' = mishaps + 1

(* The process ends, and what it had in memory is gone.                    *)
ProcessEnds ==
  /\ open' = None /\ kek' = None /\ session' = None /\ ratchets' = {} /\ inside' = FALSE
  /\ job' = [t \in Threads |-> NoJob]
  /\ UNCHANGED <<files, server, told, drawn>>

-----------------------------------------------------------------------------
(* The handlers.                                                           *)

SetUpClient == << "saveSalt", "initialize", "initSchema", "setKek", "saveKek" >>
LoginUser == << "derive", "initialize", "loadKek", "authenticate", "loadRatchets",
                "postKeys", "enter" >>
RegisterUser == SetUpClient \o << "saveIdentity", "postUser" >>
RegisterFirstDevice == << "saveDevice", "postDevice" >>

(* Mutant: the new salt is left out. *)
ChangeKeepsSalt == << "rekey", "saveNewKek" >>

Change == << "rekey", "saveNewSalt", "saveNewKek" >>

Start(t, u, p, new, n, steps) ==
  job' = [job EXCEPT ![t] = [user |-> u, pass |-> p, new |-> new, n |-> n,
                             key |-> None, steps |-> steps]]

Draw == drawn < MaxDraws /\ drawn' = drawn + 1

(* The login and register windows can be used.                             *)
Outside ==
  /\ ~inside /\ Idle("gui")
  /\ Idle("worker") \/ "loginMeanwhile" \in Habits

(* Register::onRegisterButtonClicked: nothing asks whether the name is     *)
(* taken, on this machine or at the server.                                *)
StartRegister(u, p) ==
  /\ Outside /\ Idle("worker") /\ Draw
  /\ identities[u] # None => "takenNames" \in Habits
  /\ Start("worker", u, p, None, drawn + 1, RegisterUser \o RegisterFirstDevice \o LoginUser)
  /\ UNCHANGED <<files, memory, server, told, mishaps>>

(* That nobody logs in, or has a device added, under the name that is being *)
(* registered at that moment is assumed: the code does not ask.            *)
NotBeingRegistered(u) == job["worker"].user # u

(* DeviceRegister::onUserRegistered: the user has no database here, and    *)
(* another device has approved this one.  Its window may have been left    *)
(* for the login window, and somebody else may be inside by then.  What u  *)
(* was told on this machine before is no longer what u goes by.            *)
StartSetUpDevice(u, p) ==
  /\ Outside \/ (Idle("gui") /\ "backingOut" \in Habits)
  /\ NotBeingRegistered(u)
  /\ db[u] = None /\ identities[u] # None /\ Draw
  /\ devices' = [devices EXCEPT ![u] = @ \cup {drawn + 1}]
  /\ Start("gui", u, p, None, drawn + 1, SetUpClient \o << "saveDevice" >> \o LoginUser)
  /\ told' = [told EXCEPT ![u] = None]
  /\ UNCHANGED <<files, memory, identities, mishaps>>

(* Login::onLoginButtonClicked.  onContinueButtonClicked has found a       *)
(* database here and the user at the server, but for the name that was in  *)
(* the field then.                                                         *)
StartLogin(u, p) ==
  /\ Outside /\ NotBeingRegistered(u)
  /\ \E v \in Users : db[v] # None /\ identities[v] # None
  /\ Start("gui", u, p, None, 0, LoginUser)
  /\ UNCHANGED <<files, memory, server, told, drawn, mishaps>>

(* Settings::onPassphraseSaveClicked, for the user whose database is open. *)
(* rotate_master_password throws at once if no KEK is loaded.  That users   *)
(* wait for a registration to end before they change a passphrase is       *)
(* assumed: the code lets them, and the registration logs in with the old  *)
(* one then.                                                               *)
StartChange(p, new) ==
  /\ inside /\ Quiet /\ open # None /\ kek # None /\ Draw
  /\ Start("gui", open.user, p, new, drawn + 1, Change)
  /\ UNCHANGED <<files, memory, server, told, mishaps>>

(* NavBar::onLogoutButtonClicked. *)
StartLogout ==
  /\ inside /\ Idle("gui")
  /\ Start("gui", None, None, None, 0, << "logout" >>)
  /\ UNCHANGED <<files, memory, server, told, drawn, mishaps>>

-----------------------------------------------------------------------------
(* set_up_client_for_user.                                                 *)

(* The new salt replaces the old one before the database is looked at.     *)
SaveSalt(t) ==
  /\ AtStep(t, "saveSalt")
  /\ salt' = [salt EXCEPT ![job[t].user] = job[t].n]
  /\ job' = [job EXCEPT ![t].steps = Tail(@),
                        ![t].key = MasterKey(job[t].n, job[t].pass)]
  /\ UNCHANGED <<db, memory, server, told, drawn, mishaps>>

(* Database::initialize.  One that has a file open keeps it, whoever it is *)
(* for.  A file nothing has been written to opens under every key.         *)
Fits(u, k) == db[u] # None => db[u].key \in {None, k}

AfterOpening(f) == IF f = None THEN EmptyFile ELSE f

Initialize(t) ==
  LET u == job[t].user
  IN  /\ AtStep(t, "initialize")
      /\ \/ open # None /\ GoOn(t) /\ UNCHANGED <<open, db>>
         \/ /\ open = None /\ Fits(u, job[t].key)
            /\ open' = [user |-> u, key |-> job[t].key]
            /\ db' = [db EXCEPT ![u] = AfterOpening(@)]
            /\ GoOn(t)
         \/ open = None /\ ~Fits(u, job[t].key) /\ Throw(t) /\ UNCHANGED <<open, db>>
      /\ UNCHANGED <<salt, kek, session, ratchets, inside, server, told, drawn, mishaps>>

(* A step that saves a row in the open database.  Before there are tables  *)
(* it throws, as it does without a database.                               *)
SaveRow(t, label, row) ==
  \/ /\ open # None /\ db[open.user].key # None
     /\ db' = [db EXCEPT ![open.user][label] = row]
     /\ GoOn(t)
  \/ /\ open # None => db[open.user].key = None
     /\ Throw(t)
     /\ UNCHANGED db

(* The first write makes the file one that opens under this key only.      *)
InitSchema(t) ==
  /\ AtStep(t, "initSchema")
  /\ \/ /\ open # None
        /\ db' = [db EXCEPT ![open.user].key = IF @ = None THEN open.key ELSE @]
        /\ GoOn(t)
     \/ open = None /\ Throw(t) /\ UNCHANGED db
  /\ UNCHANGED <<salt, memory, server, told, drawn, mishaps>>

SetKek(t) ==
  /\ AtStep(t, "setKek")
  /\ kek' = job[t].n
  /\ GoOn(t)
  /\ UNCHANGED <<files, open, session, ratchets, inside, server, told, drawn, mishaps>>

SaveKek(t) ==
  /\ AtStep(t, "saveKek")
  /\ SaveRow(t, "kek", [kek |-> job[t].n, under |-> job[t].key])
  /\ UNCHANGED <<salt, memory, server, told, drawn, mishaps>>

-----------------------------------------------------------------------------
(* register_user and register_first_device.                                *)

(* Mutant: the private key is saved as it is. *)
NewKeyPairPlain(t) == [pair |-> job[t].n, under |-> None]

(* encrypt_secret_key needs a KEK, save_encrypted_keypair a database.      *)
NewKeyPair(t) == [pair |-> job[t].n, under |-> kek]

SaveIdentity(t) ==
  /\ AtStep(t, "saveIdentity")
  /\ \/ kek # None /\ SaveRow(t, "identity", NewKeyPair(t))
     \/ kek = None /\ Throw(t) /\ UNCHANGED db
  /\ UNCHANGED <<salt, memory, server, told, drawn, mishaps>>

(* The server refuses a name that is taken.                                *)
PostUser(t) ==
  LET u == job[t].user
  IN  /\ AtStep(t, "postUser")
      /\ \/ /\ identities[u] = None
            /\ identities' = [identities EXCEPT ![u] = job[t].n]
            /\ GoOn(t)
         \/ identities[u] # None /\ Throw(t) /\ UNCHANGED identities
      /\ UNCHANGED <<files, memory, devices, told, drawn, mishaps>>

SaveDevice(t) ==
  /\ AtStep(t, "saveDevice")
  /\ \/ kek # None /\ SaveRow(t, "device", NewKeyPair(t))
     \/ kek = None /\ Throw(t) /\ UNCHANGED db
  /\ UNCHANGED <<salt, memory, server, told, drawn, mishaps>>

(* get_decrypted_keypair gives the pair of a row that fits the KEK.        *)
Decrypted(label) ==
  IF open # None /\ db[open.user].key # None
     /\ db[open.user][label] # None /\ db[open.user][label].under = kek
  THEN db[open.user][label].pair ELSE None

(* add_trusted_device: the device becomes one of the user the identity key *)
(* in the database belongs to.                                             *)
PostDevice(t) ==
  LET i == Decrypted("identity")
      owners == {u \in Users : i # None /\ identities[u] = i}
  IN  /\ AtStep(t, "postDevice")
      /\ \/ /\ owners # {}
            /\ devices' = [u \in Users |-> devices[u] \cup IF u \in owners THEN {job[t].n} ELSE {}]
            /\ GoOn(t)
         \/ owners = {} /\ Throw(t) /\ UNCHANGED devices
      /\ UNCHANGED <<files, memory, identities, told, drawn, mishaps>>

-----------------------------------------------------------------------------
(* login_user.                                                             *)

Derive(t) ==
  LET u == job[t].user
  IN  /\ AtStep(t, "derive")
      /\ \/ /\ salt[u] # None
            /\ job' = [job EXCEPT ![t].steps = Tail(@),
                                  ![t].key = MasterKey(salt[u], job[t].pass)]
         \/ salt[u] = None /\ Throw(t)
      /\ UNCHANGED <<files, memory, server, told, drawn, mishaps>>

(* The row "kek" of the open database and the key given for it.            *)
KekRow == IF open = None THEN None ELSE db[open.user].kek

(* Mutant: a KEK that is loaded is not asked for again. *)
KekOpensWhenLoaded(k) == KekRow # None /\ (KekRow.under = k \/ kek # None)

(* decrypt_kek succeeds. *)
KekOpens(k) == KekRow # None /\ KekRow.under = k

LoadKek(t) ==
  /\ AtStep(t, "loadKek")
  /\ \/ KekOpens(job[t].key) /\ kek' = KekRow.kek /\ GoOn(t)
     \/ ~KekOpens(job[t].key) /\ Throw(t) /\ UNCHANGED kek
  /\ UNCHANGED <<files, open, session, ratchets, inside, server, told, drawn, mishaps>>

(* The server answers with a token if the device key is one of the user's. *)
Authenticate(t) ==
  LET u == job[t].user
  IN  /\ AtStep(t, "authenticate")
      /\ \/ /\ Decrypted("device") \in devices[u]
            /\ session' = [user |-> u, pass |-> job[t].pass]
            /\ GoOn(t)
         \/ Decrypted("device") \notin devices[u] /\ Throw(t) /\ UNCHANGED session
      /\ UNCHANGED <<files, open, kek, ratchets, inside, server, told, drawn, mishaps>>

(* load_ratchets_from_db adds to what is there.                            *)
LoadRatchets(t) ==
  /\ AtStep(t, "loadRatchets")
  /\ \/ open # None /\ ratchets' = ratchets \cup {open.user} /\ GoOn(t)
     \/ open = None /\ Throw(t) /\ UNCHANGED ratchets
  /\ UNCHANGED <<files, open, kek, session, inside, server, told, drawn, mishaps>>

(* An authenticated request carries the token and is signed with the       *)
(* device key; without either it throws.                                   *)
CanRequest == Decrypted("device") # None /\ session # None

(* generate_signed_prekey, generate_onetime_keys, post_new_keybundles.     *)
PostKeys(t) ==
  /\ AtStep(t, "postKeys")
  /\ IF CanRequest THEN GoOn(t) ELSE Throw(t)
  /\ UNCHANGED <<files, memory, server, told, drawn, mishaps>>

(* showReceived, at once or by registrationSuccess.                        *)
Enter(t) ==
  /\ AtStep(t, "enter")
  /\ inside' = TRUE
  /\ told' = [told EXCEPT ![job[t].user] = job[t].pass]
  /\ GoOn(t)
  /\ UNCHANGED <<files, open, kek, session, ratchets, server, drawn, mishaps>>

-----------------------------------------------------------------------------
(* rotate_master_password.                                                 *)

(* Database::rotate_master_key, if the old passphrase opens the file.      *)
Rekey(t) ==
  LET j == job[t]
      opens == open # None /\ salt[j.user] # None
               /\ db[open.user].key = MasterKey(salt[j.user], j.pass)
  IN  /\ AtStep(t, "rekey")
      /\ \/ /\ opens
            /\ db' = [db EXCEPT ![open.user].key = MasterKey(j.n, j.new)]
            /\ GoOn(t)
         \/ ~opens /\ Throw(t) /\ UNCHANGED db
      /\ UNCHANGED <<salt, memory, server, told, drawn, mishaps>>

SaveNewSalt(t) ==
  /\ AtStep(t, "saveNewSalt")
  /\ salt' = [salt EXCEPT ![job[t].user] = job[t].n]
  /\ GoOn(t)
  /\ UNCHANGED <<db, memory, server, told, drawn, mishaps>>

(* The KEK stays, under the new key.                                       *)
SaveNewKek(t) ==
  LET j == job[t]
  IN  /\ AtStep(t, "saveNewKek")
      /\ \/ kek # None /\ SaveRow(t, "kek", [kek |-> kek, under |-> MasterKey(j.n, j.new)])
         \/ kek = None /\ Throw(t) /\ UNCHANGED db
      /\ told' = [told EXCEPT ![j.user] = IF db' # db THEN j.new ELSE @]
      /\ UNCHANGED <<salt, memory, server, drawn, mishaps>>

-----------------------------------------------------------------------------
(* logout: the database is closed, the KEK unloaded and the token cleared. *)

(* Mutant: the database is left open. *)
AfterLogoutStaysOpen == open

AfterLogout == None

Logout(t) ==
  /\ AtStep(t, "logout") /\ CanRequest
  /\ open' = AfterLogout /\ kek' = None /\ session' = None
  /\ inside' = FALSE
  /\ GoOn(t)
  /\ UNCHANGED <<files, ratchets, server, told, drawn, mishaps>>

-----------------------------------------------------------------------------
(* A step fails.  Logging out no slot catches it.                          *)
Fails(t) ==
  /\ ~Idle(t) /\ Mishap
  /\ \/ /\ ~AtStep(t, "logout") /\ Throw(t)
        /\ UNCHANGED <<files, memory, server, told, drawn>>
     \/ AtStep(t, "logout") /\ ProcessEnds

LogoutThrows(t) ==
  /\ AtStep(t, "logout") /\ ~CanRequest
  /\ ProcessEnds /\ UNCHANGED mishaps

(* The application is left between handlers.                               *)
Quit ==
  /\ Quiet
  /\ ProcessEnds /\ UNCHANGED mishaps

Crash == Mishap /\ ProcessEnds

Step(t) ==
  \/ SaveSalt(t) \/ Initialize(t) \/ InitSchema(t) \/ SetKek(t) \/ SaveKek(t)
  \/ SaveIdentity(t) \/ PostUser(t) \/ SaveDevice(t) \/ PostDevice(t)
  \/ Derive(t) \/ LoadKek(t) \/ Authenticate(t) \/ LoadRatchets(t)
  \/ PostKeys(t) \/ Enter(t)
  \/ Rekey(t) \/ SaveNewSalt(t) \/ SaveNewKek(t)
  \/ Logout(t) \/ LogoutThrows(t) \/ Fails(t)

Next ==
  \/ \E u \in Users, p \in Passphrases :
        StartRegister(u, p) \/ StartSetUpDevice(u, p) \/ StartLogin(u, p)
  \/ \E p, new \in Passphrases : StartChange(p, new)
  \/ StartLogout
  \/ \E t \in Threads : Step(t)
  \/ Quit \/ Crash

Spec == Init /\ [][Next]_vars

-----------------------------------------------------------------------------
(* Type invariant.  Besides the types: rows are only in files that have a  *)
(* key, and an open database has a file.                                   *)
TypeOK ==
  /\ salt \in [Users -> Numbers \cup {None}]
  /\ db \in [Users -> Files \cup {None}]
  /\ \A u \in Users : db[u] # None /\ db[u].key = None => db[u] = EmptyFile
  /\ open \in Handles \cup {None}
  /\ open # None => db[open.user] # None
  /\ kek \in Numbers \cup {None}
  /\ session \in Tokens \cup {None}
  /\ ratchets \subseteq Users /\ inside \in BOOLEAN
  /\ job \in [Threads -> Jobs]
  /\ \A t \in Threads : Idle(t) <=> job[t].steps = << >>
  /\ identities \in [Users -> Numbers \cup {None}]
  /\ devices \in [Users -> SUBSET Numbers]
  /\ told \in [Users -> Passphrases \cup {None}]
  /\ drawn \in Numbers /\ mishaps \in 0 .. MaxMishaps

(* Passphrase p would log u in if the application were started now: it      *)
(* opens the file, the KEK in it and the device key, which the server knows. *)
Works(u, p) ==
  /\ salt[u] # None /\ db[u] # None /\ db[u].kek # None /\ db[u].device # None
  /\ db[u].key = MasterKey(salt[u], p)
  /\ db[u].kek.under = db[u].key
  /\ db[u].device.under = db[u].kek.kek
  /\ db[u].device.pair \in devices[u]

Changing(u) == job["gui"].user = u /\ job["gui"].new # None

(* The passphrase a user was last told to have registered, logged in or     *)
(* changed to would log in again after a restart, whoever else has used the *)
(* machine since.                                                          *)
ToldPassphraseWorks ==
  \A u \in Users : told[u] # None /\ ~Changing(u) => Works(u, told[u])

(* The users whose secrets are in memory: the open file, the loaded KEK and *)
(* the token.                                                              *)
Exposed ==
  {u \in Users :
     \/ open # None /\ open.user = u
     \/ kek # None /\ db[u] # None /\ db[u].kek # None /\ db[u].kek.kek = kek
     \/ session # None /\ session.user = u}

(* The machine is a safe: it lets one user in at a time, with the          *)
(* passphrase that user was last told to have succeeded with, and the      *)
(* secrets in memory are those of the one inside, when somebody is, and    *)
(* nobody's when nobody is and nobody is about to be.                      *)
TheSafe == INSTANCE Safe WITH
  inside <- IF inside /\ session # None THEN session.user ELSE None,
  open <- IF inside \/ Quiet THEN Exposed ELSE {}

ImplementsSafe == TheSafe!Spec

(* A session starts only with the passphrase its user was last told to have *)
(* succeeded with: not with an old one, nor with that of the user whose     *)
(* database happens to be open, whatever failed before.                    *)
OnlyToldPassphraseLogsIn ==
  [][ session' # session /\ session' # None
        => told[session'.user] \in {None, session'.pass} ]_vars
=============================================================================
