# A TLA+ verification of Eastwood

Eastwood is a desktop client (C++/Qt, SQLCipher, libsodium) for end-to-end
encrypted file sharing. A user has one or more devices. A file is encrypted
under a file key and stored on a server; the file key travels to each device
that may read it in a *device message*, encrypted under a message key that the
two devices derive from a double-ratchet session. This directory holds TLA+
models of the client, their TLC configurations, and proofs for TLAPS.

All paths below are relative to the repository (`src/` there holds the program).

## 1. The system

### Components

| component | state it keeps | operations | what must hold |
|---|---|---|---|
| **Double ratchet** `key_exchange/NewRatchet` | DH key pair, remote DH key, two chains, `skipped_keys`, `due_to_send_new_dh` | set-up as initiator or recipient, `advance_send`, `advance_receive`, serialise | both ends derive one key per message, no key twice, any delivery order, used keys gone |
| **Session manager** `sessions/`, `communication/ReceiveFlow.h` | `ratchets` (user, device -> ratchet), tables `ratchets` and `ratchet_keys` | `create_ratchets_if_needed`, `get_keys_for_identity`, `get_key_for_device`, `load_ratchets_from_db`, `update_handshakes`, `update_messages` | what is saved is never behind what was posted; a message can be read by the device it was sent to |
| **X3DH and prekeys** `key_exchange/x3dh`, `sessions/KeyBundle`, `auth/login/login.cpp` | signed prekey, one-time keys, ephemeral key | bundle creation, refresh of the prekeys | an advertised prekey has its private half |
| **Files** `communication/upload_file`, `send_file_to`, `ReceiveFlow.h`, `ui/windows/send_file`, `received_dashboard` | tables `messages`, `message_keys` and `file_keys`, the window's file list | send, refresh, open | a recipient can open what was sent to it, and nobody else |
| **Revocation** `communication/revoke_file`, `ui/windows/sent_dashboard` | file keys, recipients | revoke, re-key, delete | a revoked user loses access, the others keep it |
| **Local database** `database/`, `sql/queries.h` | SQLCipher handle and key | open, close, re-key, verify | all key rows are readable under the current KEK |
| **Vault** `auth/set_up_client`, `rotate_master_key`, `salt`, `logout`, `keys/` | salt file, database key, KEK, session token | register, login, logout, change passphrase | the passphrase the user was told works opens the database |
| **Login window** `ui/windows/login`, `utils/Cache.h` | the stage it is at, the count of attempts and its expiry | ask for a name, log in, go to another window | the windows behind it are reached with a session only |
| **Registration** `auth/register_user`, `register_device`, `ui/windows/device_register` | a ping thread, its time-out, queued signals | register a user, add a device | one outcome per registration |
| **Windows** `ui/utils/window_manager`, `navbar` | which window is shown, hidden or not made yet | show, log out | exactly one visible window |
| **HTTP** `libraries/`, `client_api_interactions/` | sockets, rate-limit counters | get, post, parse an answer | a call returns only if the server has accepted it |
| **Endpoints** `endpoints/endpoints.cpp` | none | build requests, read responses | each failure is thrown, or swallowed on purpose |

Camera and QR codes, widgets, encodings and secure buffers keep no state that
other components depend on.

### How they interact

A user action in a window is a Qt slot. It runs to its end on the only GUI
thread, through the endpoints, the session manager and the database, and makes
blocking requests to the server on the way. **Nothing on that way is a
transaction**: each database statement and each request takes effect alone.
Nothing on that way catches an exception except some slots (and a few endpoints
that log and go on), so a failure anywhere leaves the earlier steps done and the
later ones not done; where the slot has no `try`, the process ends
(`main.cpp` installs no handler). Two things run on threads of their own: a
registration (`register.cpp`), and the ping thread of device registration.

So the concurrency that matters is between **devices** (while one is between two
steps of a handler, another runs its own, and the server passes messages between
them) and, on one machine, between these threads and the windows the user has gone to meanwhile. And the failures that matter are a request that fails before or after the
server acted, a statement that fails, and a process that ends, between any two
steps.

`PROJECT.json` lists the hazards this makes, each at the line where it bites
and with the properties that watch it.

## 2. The modules

| module | what it is |
|---|---|
| `Ratchet` | `NewRatchet` as operators on a ratchet record |
| `Parties` | the two devices, their key pairs, and the types of ratchets, headers, messages |
| `RatchetPair` | the two ends of a session over a transport that reorders, loses and duplicates |
| `KeyChannel` | what a session promises, as an abstract specification |
| `RatchetProofs` | lemmas on what `advance_send` and `advance_receive` do to any ratchet, and to what was received with it |
| `RatchetPairProofs` | the theorems about `RatchetPair` |
| `Sessions` | the session manager and the database of two devices and the server's mailboxes, step by step, with failures and crashes |
| `MCSessions` | symmetry |
| `SessionsProofs` | the theorems about `Sessions` |
| `Vault` | salt file, database, KEK and session of one machine and its users, step by step, with failures and crashes |
| `Safe` | what the vault promises, as an abstract specification |
| `MCVault` | symmetry, and the view of a run |
| `VaultProofs` | the theorems about `Vault` |
| `FileSharing` | files, their keys and recipients: sending, refreshing, managing access and deleting on several devices, step by step, with failures and crashes |
| `MCFileSharing` | whose device is whose, and symmetry |
| `FileSharingProofs` | the theorems about `FileSharing` |
| `Prekeys` | the prekeys of one device, the bundles made of them, and X3DH with several peers, step by step, with failures and crashes |
| `PrekeysProofs` | the theorems about `Prekeys` |
| `Windows` | the windows of one process, the threads behind them, and the events and dialogs between the two |
| `WindowsProofs` | the theorems about `Windows` |
| `Requests` | a request through `HTTPSClient`, `parse_json_response` and its endpoint, with lost connections and crashes |
| `Call` | what the callers of a request rely on, as an abstract specification |
| `RequestsProofs` | the theorems about `Requests` |

`Windows` and `Vault` are two views of one process: `Vault` has what a registration, a set-up and a login do to the
files step by step, and `Windows` where they come from and where they lead, with each of them one step that succeeds
or fails. `Requests` is below the others: where they have a request as one action that
fails or takes effect, or both (`Fails`, `PostFails`, `AnswerLost`), `Call` says that this is all a request can do, and
`Requests` is shown to implement `Call`.

### Ratchet

A ratchet is `[due, local, remote, send, recv, skipped]`, the fields
`due_to_send_new_dh`, `current_dh_public` (with its private half),
`remote_dh_public`, `send_chain`, `receive_chain` and `skipped_keys`. `root_key`
is absent: `set_up_initial_chain_keys` and `dh_ratchet_step` never read it, and
the X3DH secret that fills it has no influence on any chain.

Cryptography is symbolic. A DH output is the pair of public keys it is of; a
chain key is `[secret, label, step]`: the DH output it started from, the label
it was derived with (`DRXsend1`, `DRXrecv1` or the label of a DH step) and how
often `KDF` advanced it. Equal records are equal keys and different records
different ones: no hash collides. In the code the message key *is* the chain key
before it is advanced, and so it is in the model. `NoKey` stands for the throw of
`advance_receive` on an index that was passed and is not in the backlog; the
ratchet `AdvanceReceive` returns with it is what the throw leaves behind, because
the code changes the ratchet in place.

The definitions follow the code's functions one to one (`AdvanceSend`,
`AdvanceReceive`, `ReceiveDhStep`, `StoreSkipped`, ...). Serialisation carries
every modelled field and is treated as a faithful round trip.

### RatchetPair

`Send(p)` is `get_keys_for_identity` for one device; `Receive(p, n)` is
`get_key_for_device` on the n-th message sent to `p`. Sent messages are never
removed, so any can arrive at any time, again, or never. There are two initial
states, the two ways a session can begin: `Init`, one handshake answered by the
other side; and `CrossedInit`, both devices initiators because each had a session
when the other's handshake arrived and dropped it.

### Sessions

A device's running handler is `todo[p]`, the sequence of steps it has left
(`"bundles"`, `"row"`, `"key"`, `"advance"`, `"post"`, ...); each action consumes
the first and may put others before the rest. `mem[p]` is the ratchet in the
session manager, `row[p]` its two database rows, `batch[p]` the messages the
loop of `update_messages` has left. A save is two statements, `SaveRow` and
`SaveKey`, each with an encryption key of its own: after only the first, the
ratchet row does not fit the old key row, and `load_ratchets_from_db` skips it.

| code | in the model |
|---|---|
| `SendFile::onSendClicked` | `StartSend` with `SendFile` (new bundles are asked for) or `SendToKnown` |
| `SendFile::onShowAuthCodeClicked` | `StartSend` with `ShowAuthCode`, `ShowCode` |
| `get_keybundles`, `create_ratchets_if_needed`, `post_handshake_device` | `BundlesFail`, `BundlesEmpty`, `BundleUnusable`, `CreateInitiator`, `PostHandshake` |
| `NewRatchet::save` | `SaveRow`, `SaveKey`, `SaveFails` |
| `get_keys_for_identity`, `allow_access_to_file`, `post_ratchet_message` | `NothingToSend`, `Advance`, `Post`, `PostFails` |
| `Received::refreshFileList`: `update_handshakes`, `update_messages` | `Refresh`, `NoHandshakes`, `IgnoreHandshakes`, `AnswerHandshake`, `FetchMessages`, `NoMoreMessages`, `UnknownSender`, `TakeKey`, `OpenMessage`, `CannotOpen` |
| an exception that leaves a handler | `Throw`: a slot catches it and memory stays as the throw left it, or the process ends and memory is what `load_ratchets_from_db` gives |
| a crash | `Crash` |

The server is outside the repository. It is modelled as the client relies on
it: it hands out the handshakes and the messages for a device in the order it
had them, and does not hand them out again. The client acknowledges nothing and
deletes nothing, and `advance_receive` throws on an index it has seen, so
a server that did redeliver would make every refresh throw. If a server
redelivered a *handshake* to a device that had lost its ratchet row, that device
would build a recipient ratchet that starts over; the model leaves that out.

### Vault

Here too a handler is a sequence of steps, in `job[t]`, one handler at a time on each of two threads: the GUI
thread and the thread a registration runs on. A step either takes effect and the handler
goes on, or it throws (`Throw`, from its own condition, or `Fails`, from outside: a request, a file, a statement).
A step that takes effect and then fails leaves what the failure of the next step leaves,
so that is not a case of its own.

| code | in the model |
|---|---|
| `set_up_client_for_user` | `SaveSalt`, `Initialize`, `InitSchema`, `SetKek`, `SaveKek` |
| `register_user`, `register_first_device` | these, `SaveIdentity`, `PostUser`, `SaveDevice`, `PostDevice`, and a login |
| `DeviceRegister::onUserRegistered` | `StartSetUpDevice`: a set-up, `SaveDevice`, and a login |
| `login_user` | `Derive`, `Initialize`, `LoadKek`, `Authenticate`, `LoadRatchets`, `PostKeys`, and `Enter` of the caller |
| `rotate_master_password` | `Rekey`, `SaveNewSalt`, `SaveNewKek` |
| `logout` | `Logout`; when its request throws, no slot catches it and the process ends |
| `Database` | `open`: the file it has open (`initialized`), with the key it was opened with |

A master key is `[salt, pass]`; whatever one handler draws (salt, KEK, key pairs) carries the
handler's number. A file that nothing was written to opens under every key, as SQLCipher's do; the
first write (`InitSchema`) settles its key. A failed `initialize` leaves a closed handle in `db`; the
model treats it as none, because every way to use it goes through `initialize` again, except
the destructor at exit. Two `initialize` calls at the very same time are a data race and are not
modelled: the calls are atomic, everything between them interleaves. `told[u]` is a history
variable: the passphrase u was last shown to have succeeded with. `StartChange` is
`Settings::onPassphraseSaveClicked`, for the user whose database is open; that users wait for a registration to end
before they change a passphrase is assumed (the code lets them, and the registration then logs in with the old one).

What users do is a constant, `Habits`: register a name that is taken (`"takenNames"`), log in while a
registration runs (`"loginMeanwhile"`), back out of adding a device (`"backingOut"`), so that the approval finds somebody
else inside. The code prevents none. Two things the code does not prevent either are left out: that somebody logs in
or has a device added under the very name being registered at that moment (`NotBeingRegistered`), and the change of
passphrase above. A set-up for a user whose database is gone makes the machine forget what it told that user (`told` is reset in `StartSetUpDevice`).

`Safe` is what all this is for: a safe with a compartment for each user, of which one at most is open, to its user,
and opened only with the passphrase this user was last told is right. The refinement mapping `TheSafe` is in `Vault`:
`told` is `told`, `inside` the user of the session whose window is shown, and `open` the users whose file,
KEK or token the process holds while somebody is inside or nothing runs (`Exposed`). A handler's steps are stutters but for the one that lets in,
changes or locks. The server (not in the repository) is modelled as
refusing names that are taken, devices whose approval is not signed with an identity key it knows,
and logins with an unknown device key.

### FileSharing

The content of a file is encrypted under a *file key*; the server also keeps the file key, encrypted under
the file's *KEK* (`f_kek` in the code); the KEK is what a device message carries and what table
`messages` keeps. A file is `[owner, by, content, sealed, access]`: `content` is the file key the
content is under, `sealed` the stored `[key, under]`, `access` the users the server serves it to besides
the owner, `by` the device it came from. A draw of keys is known by its number, and a file by the number of its first draw.
`Opens(d, f)` is what `get_file_metadata` and `download_file` need: a readable row, a KEK
that fits `sealed`, and a file key that fits the content.

| code | in the model |
|---|---|
| `SendFile::onSendClicked`, `send_file_to` | `StartSend`, `Upload`, then `AllowAccess`, `Report` |
| `allow_access_to_file` | `Bundles`, `NoBundles`, `Post`, and for each device `SaveRow`, `SaveKey` |
| `SendFile::onShowAuthCodeClicked` | `StartShowCode`, `Handshakes`, `Bundles`, `ShowCode` |
| `onShowAuthCodeButtonClicked` of `Received` and of `Sent` | `StartShowCodeOnDashboard`, `Handshakes`, `Bundles`, `ShowCodeOnDashboard` |
| `Sent::onRevokeAccessClicked`, `refresh_access` | `StartManage`, `Revoke`, `UpdateKey`, then `AllowAccess` |
| `Sent::onDeleteFileClicked`, `delete_file` | `StartDelete`, `DeleteFile`, `DeleteRow`, `List` |
| `Sent::refreshFileList` | `StartList`, `List` |
| `Received::refreshFileList`, `update_messages` | `StartRefresh`, `Handshakes`, `FetchMessages`, `OpenMessage`, `CannotOpen`, `SaveRow`, `SaveKey`, `NoMoreMessages` |
| a failure; a crash | `AnswerLost` (endpoints that swallow it), `Fails`; `Crash` |

Ratchets are only who knows whom (`known`): what can go wrong with them is in `Sessions`, and what comes of
it here is that any message may be unreadable (`CannotOpen`, without a mishap), with which the rest of its batch is
lost. The dialog lists the user of the one row a file has; `StartManage` unchecks that user, the
only choice the dialog accepts. An exception is caught in that dialog only; from the other slots it
ends the process. `codeFor` and `shutOut` are history variables. The server is taken to serve a file to its owner
and to those it was sent to since the last `/revokeFileAccess`, which is what
`refresh_access` relies on.

### Prekeys

One device, the owner's, and the peers who contact it. The private halves are in the owner's database
(`signed`, `onetime`), the public ones at the server (`advertised`, `pool`); `login_user` changes the two in
separate steps, and peers fetch bundles and post handshakes between any two of them. A DH output
is the set of the two keys it is of, and a shared secret is the sequence of the four that are hashed.

| code | in the model |
|---|---|
| `login_user` from line 32 on | `Login`, then `Rotate` or `KeepSigned`, `SaveOneTimeKeys`, `Post` |
| `generate_signed_prekey`, which replaces the row `signed` | `Rotate`, `RotateFails` |
| `save_encrypted_onetime_keys`, which swallows failed insertions | `SaveOneTimeKeys`, `unsaved` |
| `get_keybundles` | `FetchBundle` |
| `x3dh_initiator`, `x3dh_responder` | `X3dhInitiator`, `X3dhResponder` |
| `SendingKeyBundle`, `create_ratchets_if_needed`, `post_handshake_device` | `Establish`, `LoseBundle` |
| `update_handshakes`, `get_handshake_backlog`, `ReceivingKeyBundle` | `FetchHandshakes`, `Answer`, `AnswerWithoutKey` |
| a failed request; the end of the owner's process; time | `PostFails`, `LoseBundle`, and parts of `Establish` and `FetchHandshakes`; `Crash`; `NextDay` |

What comes of a session in the ratchet and its saves is in `Sessions`, which takes the signed prekey as constant and
one handshake's two ends as made from the same; here the ends are `theirs` and `ours`, and a peer contacts
the owner once. Signatures are left out, as the device key that signs the prekeys never changes. The server
(not in the repository) is taken to hand out each one-time key once, and to keep the signed prekey it was last sent.

### Windows

A slot runs to its end on the GUI thread and is one action, except where it shows a dialog: `QDialog::exec` runs a nested
event loop, which delivers queued events (`events`) while the user cannot get at the windows (`Usable`). `dialogs` is
the stack of slots that wait in such a dialog; the innermost goes on first. Dialogs in which nothing is decided, and
during which the slot has nothing left to do, are left out. A window is `none` (its `QPointer` is null), `hidden` or `shown`.

| code | in the model |
|---|---|
| `WindowManager::showWindow` | `Show`; when the constructor throws, `CannotShow` and `Nothing` |
| `Login::onContinueButtonClicked` | `Continue`, `ContinueWithDevice` |
| `Login::onLoginButtonClicked`, `Cache` | `Login`, `NoSecureMemory`, `Expire` |
| `Register::onRegisterButtonClicked` and its thread | `Register`, `RegistrationSucceeds`, `RegistrationFails`, `RegistrationDangles` |
| `Register::onRegistrationSuccess` | `EnterAsRegistered` |
| `DeviceRegister`'s constructor, `continuously_ping` | `NewKey` in `ContinueWithDevice`, `PingAnswered`, `PingTimesOut`, `PingDangles` |
| `DeviceRegister::onUserRegistered`, `onPingTimeout`, `onBackButtonClicked` | `OpenDialog` with `SetUpDevice` or `CancelSetUp`; `OpenDialog` with `ReturnToLogin`; `BackFromDevice` |
| `Settings::handleDeviceConnection`, on another device | `Approve` |
| the bar of the dashboards; `logout`, `WindowManager::restart` | `Navigate`; `Logout`, `LogoutThrows` |

A thread that uses its window after a logout has deleted it has undefined behaviour: nothing happens, or the process ends
(`PingDangles`, `RegistrationDangles`). An exception that leaves a slot ends the process, and it is started again. The
fields of a window that decide nothing (texts, the code on display) are left out. `left` is a history variable: a user has gone
back to the login window while a registration had not shown its outcome. One registration of a user runs at a time, also
when its window was deleted by a logout and made anew.

### Requests

`HTTPSClient` does not report failures: it returns a text, "Socket connection failed" or as much of an answer as there
was when `SSL_read` stopped returning bytes. `call[c]` follows one call from headers to result, and `got` is
what stands for the answer; `server[c]` is what the server has made of the request, which it may do after the caller has given up.

| code | in the model |
|---|---|
| `generate_get_headers`, `generate_post_headers` | `Sign` (throws without a token) |
| `create_socket`, `SSL_connect`, `SSL_get_verify_result` | `Connect` |
| `SSL_write`, whose result is not looked at | `Write` |
| the loops over `SSL_read` | `ReadWhole`, `ReadCut` |
| `parse_json_response`, `handle_response` | `HasStatusLine`, `IsError`, `Parse` |
| what the endpoint takes from the answer | `CanUse`, `Use` |
| a catch in an endpoint, in a slot, or none | `Throws`: the call is empty, fails, or ends the process |

An endpoint is one of nine that stand for all by what tells them apart: whether they sign, whether they read the
answer, who catches, which thread calls. Each of three threads (the GUI thread, a registration's, a ping thread) makes one call at a time, by a client of its own. Assumed: `API_HOST` is configured (section 5
says what happens otherwise), and a status line that arrives at all arrives whole (the first TLS record of an answer holds
it); without a reason phrase `parse_status_code` would return 0, and any error would pass for success.

## 3. The runs

Run a configuration from this directory, for example
`tlc -config Sessions.cfg MCSessions`.

| run | configuration | what it shows | result |
|---|---|---|---|
| `ratchet_pair` | `RatchetPair.cfg` | a session made by one handshake: the ends agree on every key, never use one twice, keep an exact backlog, can serve any order, and implement `KeyChannel`, where a key is recovered once only | holds |
| `ratchet_crossed` | `RatchetCrossed.cfg` | two initiator ends, with DH steps in both directions: keys stay fresh, used keys stay gone, a reply repairs the session, and every message of the current chain can be served | holds |
| `sessions` | `Sessions.cfg` | both devices send, refresh and show codes; one mishap strikes anywhere: what saving before posting protects, and that one handshake's two ends never drift apart | holds |
| `sessions_one_way` | `SessionsOneWay.cfg` | what waits for a device that has its end of the session is eventually opened and kept | holds |
| `vault` | `Vault.cfg` | two users register free names, add this machine to an account, log in, mistype, change passphrases, log out and restart, and nothing fails: salt, database key and KEK stay together, and nothing is left open to the next user | holds |
| `vault_mishaps` | `VaultMishaps.cfg` | with a failure or crash at any step, taken names, logins during a registration, and set-ups that were backed out of: no wrong passphrase starts a session | holds |
| `vault_taken_name` | `VaultTakenName.cfg` | a test: a passphrase that was set logs its user in again | refuted |
| `file_sharing` | `FileSharing.cfg` | sending, managing, deleting and refreshing with two mishaps anywhere: a replaced KEK stays with those it was sent to, the last message on its way brings the KEK the file is under, a reported success is one | holds |
| `file_devices` | `FileDevices.cfg` | a recipient with two devices, nothing fails: what is on its way ends with the KEK the file is under, and one row is enough to manage a file | holds |
| `prekeys` | `Prekeys.cfg` | two peers contact a device whose owner logs in again and again, with one mishap anywhere: advertised keys were saved, X3DH agrees, a lost signed prekey is repaired, handshakes are answered | holds |
| `windows` | `Windows.cfg` | two users click, register, add devices, leave and come back, threads and dialogs end in any order, one handler fails: one window is shown, the dashboards are shown to somebody logged in, adding a device has the machine to itself and ends | holds |
| `requests` | `Requests.cfg` | two calls through lost connections, cut answers and crashes: a call that returns was accepted, and acted on once | holds |

### Properties

`RatchetPair`:
- `KeyAgreement`: a key returned for a message is the key its sender used.
- `NoKeyReuse`: no two messages, of one direction or of both, share a key.
- `SkippedExact`: `skipped_keys` is exactly the passed and not yet received messages.
- `Deliverable`: every message not yet received would be given the right key now,
  whatever came before; a received one would be refused.
- `ForwardSecrecy`: a key that was obtained is neither in the backlog nor derivable
  from the receive chain (also after DH steps).
- `HealsOnReply`: with crossed handshakes the first messages of each direction cannot be
  read, but the attempt makes the receiver take over the sender's DH key (the ratchet is
  saved before the decryption fails), and what it then sends can be read.
- `CurrentChainServed`: across DH steps, every message on the chain a device receives on now, and has no key for, would be given its
  sender's key. `skipped_keys` knows indices and not chains: that a key an earlier chain left under the same index is not in
  the way holds because the keys passed over on the new chain replace it.
- `ImplementsKeyChannel` (refinement): each send uses a fresh key, and `advance_receive` returns a message's key at most once,
  however often the message arrives, and it is the sender's. `returned` counts what it returns, and `KeyChannel` may count
  one up only for a message that was not recovered before.

`Sessions`:
- `NoKeyReuse`: as above, across crashes, torn saves and re-created sessions.
- `RestartSafe`: the ratchet a restart would load cannot send under a posted key.
- `ForwardSecrecyAtRest`: the key of a kept message cannot be had from the ratchet in the database. Excepted are keys of the DH-step
  chains a device made with its signed prekey: those can come back (section 5).
- `HandshakeBeforeMessage`: without failures, no message waits for a device that has
  neither a session nor a handshake to make one from.
- `SoleSessionReadable`: while only one side ever made a session, whatever is on its
  way to the other can be read there, whatever was lost and whoever crashed.
- `EventuallyKept` (liveness).

`Vault`:
- `ToldPassphraseWorks`: the passphrase a user was last told to have succeeded with would open the salt
  file's database, its KEK and its device key after a restart, whoever used the machine since.
- `ImplementsSafe` (refinement): whoever is inside came in with the passphrase last told, session, open database and loaded KEK are
  of that one user, and nothing stays open when the user leaves.
- `OnlyToldPassphraseLogsIn`: a session never starts with an old passphrase or with that of the user
  whose database happens to be open. `initialize` does not check this when a file is open already;
  the decryption of the KEK row and of the device key does.

`FileSharing`:
- `ShutOutHaveNoKey`: once a file's KEK has been replaced, no device of a user who was not sent the new one has it,
  kept or on its way, whichever part of `refresh_access` failed.
- `NewestMessageFits`: the last message about a file on its way to a user with access brings the KEK the file
  is under now, so that a late message with an old KEK never has the last word. It holds because
  the key is replaced before it is sent, and messages are handed out in order.
- `ManageableBySender`: without failures, every user with access is listed in the dialog of the device that sent
  the file, and the file is in its sent window until its keys are replaced.
- `ReportIsTrue`: when the send window reports success, nothing failed, and no other user's code was shown
  before, the recipient has access, if it has a device.

`Prekeys`:
- `SavedBeforeAdvertised`: whatever fails, what the server advertises, what a peer was given, and what a handshake
  names was in the database first; only a one-time key whose own insertion failed may not be there.
- `SecretsAgree`: ends made from one signed prekey hold one secret, and the owner's end is never the older one. That
  the ends are always equal does not hold: see section 5.
- `RepairedAfterMaxAge` (action property): a login that succeeds leaves the server with the signed prekey whose private
  half exists, unless the row is young and this login did not make it.
- `EventuallyAnswered` (liveness): if nothing fails, the owner makes each session a peer has made.

`Windows`:
- `OneWindow`: never two windows, and one unless a handler has failed, whatever order clicks, queued events and dialogs come in.
- `InsideIffLoggedIn`: the dashboards are shown exactly while somebody is logged in, if nothing failed and nobody has backed out
  of a registration. It relates the window manager to the session, which no code relates: each slot has to do both.
- `AddingHasTheMachine`: a registration of a device nobody has left has its window, shown, and nobody is logged in whose
  database the set-up would write to. The detached thread holds a bare pointer to that window.
- `AddingEnds` (liveness): the ping thread does not ask for ever, and its outcome is dealt with, also behind other dialogs.

`Requests`:
- `ImplementsCall` (refinement): no text that stands for a failure, no half of an answer and no refusal is taken for success; the
  server acts once; what fails may have been acted on, or may be later. `TypeOK` adds that no call returns without the answer
  its endpoint reads, and that a thread is in one call at most.

Every property has a mutant in `PROJECT.json`: a changed definition of the modelled
code (chains not swapped for the recipient, an index not reset, the backlog entry
not erased, posting before saving, a batch left early, ...) under which TLC finds
the property violated.

### Bounds

- `MaxSends` (messages per device): 3 in `ratchet_pair`. Three
  messages are what it takes for two to be passed over, one of them to be
  served from the backlog and the other to stay. 4 in `ratchet_crossed`: two on a first chain, to leave a key in the backlog, and two on
  the next, to meet it there. 2 in `sessions`: one to be lost or
  to fail, one to follow.
- `MaxKeys` (key pairs a device makes): 3 with one handshake, where no DH step
  is ever taken (theorem `SessionStaysInStep`), so that the bound never bites; 4 for
  the crossed session, which leaves room for two DH steps on each side. Other
  actions go on when it is reached.
- `MaxMishaps` (failed requests, failed statements, crashes): 1 in `sessions`; 2 also
  hold (2.65 million states, some minutes). Throws the code runs into without
  a failure (an unknown sender, an unreadable message, an empty bundle list) are not
  mishaps and are unbounded. 0 in `sessions_one_way`, which is about what happens although nothing fails.
- `MaxDraws` (salts drawn, that is registrations, set-ups and changes of passphrase): 4 in `vault`
  (two users, and a change for each, or two for one), 3 in `vault_mishaps`, where each step can also fail: two users
  set up and a change, or a third set-up on top of two that went wrong. `MaxMishaps` 1 there, and all of `Habits`.
- `Users`, `Passphrases`: two each. Two users are what it takes for one to meet what another left open;
  two passphrases are a right and a wrong one, or an old and a new one.
- `MaxDraws` in the `FileSharing` runs: 2, two files, or one that is re-keyed once. A second re-keying, the retry after
  a failed one, is beyond the runs; the theorems on `ShutOutHaveNoKey` and `NewestMessageFits` have no bound on it. `MaxMishaps`: 2 in
  `file_sharing`, one on each device or two on one. `Devices`: one of each user there, two of the
  recipient in `file_devices`, exchanged by symmetry. `Typed`, the names typed: both users, so that a code of one
  can be shown before a file is sent to the other; only the recipient in `file_devices`. `Senders`: one device; the
  other only receives.
- `prekeys`: two `Peers`, so that a batch of handshakes can be cut short; `Batch` 2 (100 in the code), so that one
  peer can have a key whose insertion failed and the other one that was saved; `MaxAge` 1 (14 in the code); `MaxLogins` 3:
  one makes a prekey, one replaces it and fails, one repairs that; `MaxMishaps` 1. The run does not check for deadlock:
  when the logins of the bound are used up, everything may be done.
- `windows`: two users, one who is inside and one who adds a device; `MaxKeys` 2, a registration that was left and the next
  one, whose thread and dialogs meet the first one's; `Dashboards` two, one that loads in its constructor and one that does
  not (the other two are of the first kind); `MaxAttempts` 1 (3 in the code), which is reached after one count; `MaxMishaps` 1. One account more
  or less at the server at the start is a choice of the initial state.
- `requests`: two `Calls`, at the same time on both threads, or one before a restart and one after; `MaxMishaps` 2, one for each. The proof is
  for any set of calls and any number of mishaps. The run does not check for deadlock: every call may have ended.
- `vault` and `vault_mishaps` exchange users and passphrases by symmetry: no definition tells them apart. `vault_mishaps`
  looks at the states without `ratchets`, which no guard and no property of it reads.
- `sessions` exchanges the two devices by symmetry: no definition tells them apart and it
  checks no temporal property.

### Fairness

`Sessions!FairSpec`: a handler that has
started takes its next step (it runs to its end on the GUI thread), and a user comes
back to the file list. `Prekeys!FairSpec`: a login that has started goes on, a user who is out logs in again, and a
list on display is refreshed; peers, days and mishaps are not fair. `Windows!FairSpec`: two minutes pass for a ping
thread, the GUI thread takes the next event, and users close dialogs; nobody has to click, approve or log in. `Requests` has
no fairness: `HTTPSClient` sets no time limit on a socket, so a call may wait for ever. The fairness of `Sessions`, `Prekeys` and
`Windows` therefore assumes that the requests inside their steps end, with an answer or a failure. Sending and mishaps are never fair. There is no
fairness on the transport: a lost message stays lost.

## 4. The proofs

### The session

`tlapm RatchetPairProofs.tla` proves, for any number of messages and key pairs:

| theorem | statement |
|---|---|
| `SessionStaysInStep` | `Spec => [](TypeOK /\ SessionInv)` |
| `TypeCorrect` | `Spec => []TypeOK` |
| `KeysAgree` | `Spec => []KeyAgreement` |
| `KeysAreFresh` | `Spec => []NoKeyReuse` |
| `BacklogIsExact` | `Spec => []SkippedExact` |
| `AnyOrderIsServed` | `Spec => []Deliverable` |
| `SessionImplementsChannel` | `Spec => ImplementsKeyChannel` |

`TypeOK` aside, none of these invariants is inductive: `KeyAgreement` says nothing of the
chains, so it allows a state from which the next `Receive` breaks it. The inductive invariant is
`TypeOK /\ SessionInv`, and `SessionInv` says why the session works. Write `NthKey(p, i)`
for the i-th key of the chain p's messages are taken from. Then, for each device p,
- `SameDh`: the DH keys are those of the handshake, and no DH step is due. So `NewDh` is
  false for every header of the session, and all of `advance_receive`'s DH branch is
  unreachable;
- `SendChainInStep`: the send chain stands at `NthKey(p, Len(sent[p]))`, and message n
  has index n-1 and key `NthKey(p, n-1)`;
- `ReceiveChainInStep`: the receive chain stands at `NthKey` of the peer, not further than the
  peer has sent;
- `BacklogInStep`: of the passed indices, the backlog has exactly those not received, each with its
  `NthKey`.

`Send` disturbs only the send chain. `Receive` splits into three cases: the index is ahead
(skip and take), behind and in the backlog (take and erase), or behind and not there
(refuse). The lemmas on `KeyAfter` and `StoreSkipped` say what the two loops of the code do to
a chain. Freshness follows because `NthKey` is injective in the device and
the index: the two directions have different labels. The refinement maps `used` to the keys in
`sent`, `obtained` to `got` and `recovered` to `returned`; a refused `Receive` is a stutter, and one that returns a key is not.

These are about a session made by one handshake. The same module proves, for `CrossedInit` too, where headers bring
new DH keys and the DH branch of `advance_receive` runs:

| theorem | statement |
|---|---|
| `AnySessionKept` | `Spec \/ CrossedSpec => [](TypeOK /\ AnySessionInv)` |
| `ForwardSecrecyAny` | `Spec \/ CrossedSpec => []ForwardSecrecy` |
| `KeysAreFreshAny` | `Spec \/ CrossedSpec => []NoKeyReuse` |
| `RepliesHeal` | `Spec \/ CrossedSpec => []HealsOnReply` |

`NthKey` does not exist there, as the chains change. `AnySessionInv` names a chain by its DH output and label instead
(`SameChain`) and says of each device that its chains come of the DH keys it holds, that those were made, that what it obtained
lies behind its receive chain or on one that was left for good, and that what it sent lies behind its send chain. A DH step makes
a key pair that no chain was of before. `RatchetProofs` has what `AdvanceSend` and `AdvanceReceive` do to any ratchet,
and `ReceiveSide`, the part of the invariant that says what was obtained is left behind; the proofs about `Sessions` rest on it as well.

Assumptions: `TwoDevices` (a session has two ends) and `Bounds`. TLC evaluates both on
each run. `Bounds` asks for `MaxKeys >= 2` because a device starts with two key pairs.

### The sessions

`tlapm SessionsProofs.tla` proves, for any number of messages, failures and crashes:

| theorem | statement |
|---|---|
| `Inductive` | `Spec => []Inv` |
| `TypesAlways` | `Spec => []TypeOK` |
| `KeysOnce` | `Spec => []NoKeyReuse` |
| `RestartsSafe` | `Spec => []RestartSafe` |
| `HandshakesFirst` | `Spec => []HandshakeBeforeMessage` |
| `SoleSessionsReadable` | `Spec => []SoleSessionReadable` |
| `ForgottenAtRest` | `Spec => []ForwardSecrecyAtRest` |

`NoKeyReuse` is about what was posted; what makes it hold is where the ratchets in memory and in the database stand. `Inv` has:
- `Places` in `Types`: what a handler may have left. A save is always in front of the post it protects;
- `Behind` and `NextBehind`: the keys of posted messages, and of the one about to be posted, are not derivable from either
  ratchet's send chain. So a device may go on from memory, or after a restart from the row;
- `Saved`: at `"post"`, the row is the ratchet in memory and fits its key. This is where saving before posting counts;
- `Fine` and `FreshHandshakes`: a chain is made from a key pair that is new, or from a handshake not answered before. This is why
  a session that is made again after its row was lost does not come back to a chain;
- `Apart`: no chain is sent on from both ends.

The two invariants about delivery need more than `Inv`, and each has a strengthening of its own, kept beside it.
- `HandshakesFirst` rests on `CleanInv`, which speaks of the time before the first mishap. A session in memory is saved as soon as
  it is made; a handshake at the server was posted by a device that knows the receiver; and a device that knows its peer, and is past
  posting its handshake, has one that the peer `Met`: has answered, or will find waiting. Each action is shown to keep what is
  on its way (`Goes`) and what has arrived (`Reaches`).
- `SoleSessionsReadable` rests on `SoleInv`, which speaks of a device i that made one key pair for a handshake while the other
  made none (`Sole(i)`). Then there is one session: every ratchet in memory or in a row is an `EndOf` it, on the chain whose
  keys are `Nth`, and each draft is a `MessageOf` it. By `Flow`, what waits was posted, and waits once. `Hears` ties the two ends
  together: an index that a ratchet no longer `Awaits` is that of a posted message that is no longer on its `Way`. So a message that
  waits and could not be read would be a second one under one key, which `Inv` excludes. Before the handshake (`Fresh`) everything
  is `Blank`.

`ForgottenAtRest` rests on `ForgetInv`, which says of each device that what it opened is `Past` for the ratchet in memory and for
the one in the row: behind the receive chain, or on a chain that neither holds, and made of key pairs that exist, so no DH step to come leads
back to it. The key of the message about to be opened counts for the memory alone (`Taken`), and at `"open"` the row has caught
up. This is where saving before opening counts. A session that is made again starts its receive chain from a handshake not
`Unused`, or from a new key pair. The proof goes by ratchet operation (`PastSame`, `PastTake`, `PastNew`) and then by action.

Assumptions: `TwoDevices`, `SendersAssumption`, `Bounds`.

### The prekeys

`tlapm PrekeysProofs.tla` proves, for any peers, batch size, age limit, and number of logins and mishaps:

| theorem | statement |
|---|---|
| `Invariant` | `Spec => []IInv` |
| `TypeCorrect` | `Spec => []TypeOK` |
| `NothingUnsavedAdvertised` | `Spec => []SavedBeforeAdvertised` |
| `SharedSecret` | `Spec => []SecretsAgree` |
| `Repaired` | `Spec => RepairedAfterMaxAge` |

`SecretsAgree` is not inductive: it says nothing of a handshake that is on its way, from which `Answer` makes the
owner's end. `IInv` adds what holds on that way:
- `SavedBeforePost`: a login about to post has been through the insertions;
- `BundleFirst`: a peer with a bundle has no session yet, and the bundle's signed prekey is one the database has had;
- `HandshakesMatch`: a handshake belongs to a session its sender has, whose secret is made with the one-time key it names;
- `PeerFirst`: the owner has no session its peer has not.

`X3dhAgrees` is the algebra: a DH output does not depend on who makes it, so the two operators, whose arguments the code
gives in different orders, are equal. `Repaired` rests on `KeptIsYoung`: a login that kept the signed prekey and
has not ended found it young, and no day ends in the middle of a login.

Assumptions: `PeersAssumption` (the owner is not a peer), `SizesAssumption` (sizes and bounds are natural numbers) and
`NothingAssumption` (no bundle and no session is the value for none). TLC evaluates them in the run.

### The requests

`tlapm RequestsProofs.tla` proves, for any set of calls and any number of mishaps:

| theorem | statement |
|---|---|
| `Invariant` | `Spec => []Inv` |
| `TypeCorrect` | `Spec => []TypeOK` |
| `RequestsImplementCalls` | `Spec => ImplementsCall` |

`Call!Return` asks that the server has acted, which the code never sees: it sees a text. `Inv` says what a text tells of the server
(`Told`): part of an answer can only come from a server that has decided (`Answered`), a call that is past
`parse_json_response` was accepted (`Accepted`), and before the write the server knows nothing of it (`Unasked`). `Accepted` is
not inductive without `Answered`, because `Parse` infers the one from the other and from the status (`ParsedIsAccepted`). The
lemmas `GoToFields`, `ParseWhatFields` and `EndFields` say what the three kinds of moves leave of a record, `StepKeepsInv`, `TextKeepsInv`
and `EndKeepsInv` that such a move keeps `Inv`, and `StepShowsNothing`, `TextShowsNothing`, `EndShows` and `ProcessEndShows` what it
is for `Call`; each action is then one of these.

Assumptions: `Bounds` and `NoneAssumption` (`None` is no thread, endpoint or text).

### The windows

`tlapm WindowsProofs.tla` proves, for any users, dashboards, attempts, registrations and mishaps:

| theorem | statement |
|---|---|
| `Inductive` | `Spec => []Inv` |
| `TypesAlways` | `Spec => []TypeOK` |
| `OneWindowAlways` | `Spec => []OneWindow` |
| `InsideIsLoggedIn` | `Spec => []InsideIffLoggedIn` |
| `MachineIsFree` | `Spec => []AddingHasTheMachine` |

`InsideIffLoggedIn` looks at the window and the session only, and so it cannot say why an outcome that is still queued does no harm.
`Inv` adds that a registration has one outcome at most on its way, as a thread, a queued event or a slot that waits in
a dialog, and that unless somebody left, its window is in front until the outcome was shown (`InFront`). The lemmas
`AppendKeys`, `TailKeys` and `PushKeys` follow an outcome from the event queue to the stack of dialogs.

Assumptions: `DashboardsAssumption`, `Bounds` and `NoneIsNone` (`None` is no user, key or registration).

### The files

`tlapm FileSharingProofs.tla` proves, for any users and devices, any number of files, re-keyings, failures and crashes:

| theorem | statement |
|---|---|
| `Inductive` | `Spec => []Inv` |
| `TypesAlways` | `Spec => []TypeOK` |
| `ShutOutStayOut` | `Spec => []ShutOutHaveNoKey` |
| `NewestFits` | `Spec => []NewestMessageFits` |
| `SenderManages` | `Spec => []ManageableBySender` |
| `ReportsAreTrue` | `Spec => ReportIsTrue` |

None of them is inductive. `ShutOutHaveNoKey`, say, is about the KEK the server has, and `UpdateKey` puts in a new one: that nobody has it
depends on where it was since it was drawn. `Inv` adds:
- `Plan`: what a handler may have left is a path of one of four kinds (`Follows`, `Lasts`), and what its job says then;
- `Drawn`, `Fresh`: a KEK that was drawn and not sent is in no row, in no message and in no other job;
- `Unborn`, `Births`: nothing is known of a file before its upload, so that a failed upload leaves nothing behind;
- `Own`: what server and device have at each step of sharing and deleting; for instance, nobody has access between
  `Revoke` and `Post`;
- `Travels`: messages about a file go to devices the sending device knows. This is why `Post`, which reaches the known devices
  only, leaves no device of the recipient with an older message as its last;
- `Asked`, `Managed`: while nothing failed, what the send window takes for granted, and what the sender's row is worth.

Most steps only consume what is left of a handler; `QuietInv` is the proof for those, `StartQuiet` and `DrawInv` for the
starts, `RowInv` for the steps on rows and `FileInv` for those on files at the server. `PathAppends` and `NextStep` are the two facts about
paths they all use, and `AppendLatest` and `SuffixLatest` those about the last message on a file.

Assumptions: `UserOfAssumption`, `InputsAssumption`, `Bounds`, `NoneIsNone` (`None` is no user, file, stored file or row) and
`FiniteDevices` (`Post` counts them).

### The vault

`tlapm VaultProofs.tla` proves, for any users and passphrases and any number of salts drawn:

| theorem | statement |
|---|---|
| `TypesAlways` | `Spec => []TypeOK` |
| `InvAlways` | `Orderly => (Spec => []Inv)` |
| `ToldPassphraseAlwaysWorks` | `Orderly => (Spec => []ToldPassphraseWorks)` |
| `MachineIsASafe` | `Orderly => (Spec => ImplementsSafe)` |

The first holds for all habits and mishaps. The others are about `Orderly == Habits = {} /\ MaxMishaps = 0`,
which is what run `vault` has: with a taken name (run `vault_taken_name`), or a failure between the two salts of a change, they are false (section 5).

What a handler has left decides what it is doing: `Place(k, m, a)` says that in a handler of kind `k` the step with `m` steps
after it is `a`, and `TypeInv` is `TypeOK` with `Handlers`, which says that each thread's steps are the rest of a handler of
its `Kind`. `ToldPassphraseWorks` is not inductive, because it says nothing of the file a handler is in the middle of writing. `Inv` adds:
- `OneAtATime`: the two threads do not both work. Without the habits the windows see to that;
- `Drawn`: the KEKs and salts in the files were drawn, so that a new number is none of them, and each KEK is one user's;
- `Doors`: while somebody is inside, file, KEK and token are that user's (`LetIn`); when nobody is and nothing runs, there are none (`Locked`);
- `Settled`: a user who was told a passphrase has a file, a KEK and a device key that fit, and one who was told none
  has nothing here or is being set up;
- `Stage`: how far the handler at work has come with its user's salt, file and KEK, step by step (`SetUp`, `Login`, `Knock`
  for one that may yet be refused, `InChange`).

The proof is by step: `InvStays` has one lemma per action. `MachineIsASafe` goes by `SafeSteps`: `Enter` is
`Safe`'s letting in, `SaveNewKek` its change, `Logout` and the ends of the process lock it, and all other steps leave told,
inside and open as they are. That `Exposed` is one user at most (`OnlyOneExposed`) is where `Drawn` counts: no two users have one KEK.

Assumptions: `HabitsAssumption`, `Bounds` and `NoneIsNone` (`None` is no user, passphrase, number, key, row, file, handle or token).

### Only model-checked

- Liveness (`EventuallyKept`, `EventuallyAnswered`, `AddingEnds`), which the prover does not do.
- `CurrentChainServed` of `RatchetPair`. The invariant it needs (where every message on the current chain is, across DH steps) is not written yet.
- `OnlyToldPassphraseLogsIn` of `Vault`. It holds because a salt is in the salt file, or under a KEK row, only after the
  handler that drew it put it there, whatever interleaved and failed; the invariant for that is not written yet.

## 5. What the models found

- **Crossed handshakes** (`CrossedInit` in `RatchetPair`, and `IgnoreHandshakes` in `Sessions`). When two users send to each other before either has fetched the
  other's handshake, both are initiators, the later handshake is dropped, and the first message of
  each direction cannot be read: `update_messages` throws on it, and the rest of the batch that
  was fetched with it is dropped.
- **The DH ratchet never turns** (part `SameDh` of the invariant of `SessionStaysInStep`). A new key pair is only made inside a DH step, and a
  DH step is only taken on a header with a new key. After one handshake nobody sends a new
  key first, so both directions stay on their first chain for ever.
- **A key that was used and erased can come back.** A device answers every handshake with its signed prekey as its DH key. A DH step
  another device takes to that key starts a chain which can be made again as long as the prekey is there. Four crashes are enough: two
  leave ratchet rows without keys, so both devices make new sessions and have sessions that crossed; one of them takes a
  DH step and sends on the new chain, the other opens the first of its messages; both rows are lost once more; a new handshake is answered, with
  the same DH key as before; a later message of the old chain is taken, and the keys of those before it, the opened one
  among them, are stored in `skipped_keys`. `ForwardSecrecyAtRest` was first stated without its exception. Run `sessions`, with one mishap,
  does not reach this; the proof of the theorem failed at the step.
- **`prev_chain_length`** carries the index of the receive chain, not the length of a sending chain as its comment says.

- **Registering a taken name** (`vault_taken_name`). The salt file is overwritten before anything is
  checked; the existing database of that name on this machine can never be opened again.
- **The database left open.** A registration the server refuses leaves the database open, and
  `initialize` returns at once while one is: the next registration, under another name, goes into
  the first name's file. Found with the run above once its first counterexample is understood; run `vault`
  holds because users there pick free names.
- **Ratchets outlive the session.** `logout` does not clear the map of ratchets, and the next login adds
  to it: `ratchets` in `Vault` grows to several users.

- **The dialog revokes the wrong users** (`StartManage` in `FileSharing`). The users whose box is unchecked are passed on as the ones
  who are allowed: everybody loses access, and they alone get the new key.
- **A revoked file is lost.** `refresh_access` stores a new random file key, while the content stays under the old
  one: nobody can open the file again, its owner included, and it leaves both lists.
- **"File has been sent successfully!"** is also said when nothing was sent: after a failed bundle request, or
  when the code of one user was shown and the file sent to another one.

- **A replaced signed prekey splits sessions in flight.** A handshake names the signed prekey it was made for, and the owner
  ignores that and uses the current one. If a login replaced it between a peer's bundle and the owner's answer, the two
  ends have different secrets and chains, and keep them. Nothing has to fail.
- **A signed prekey without its private half.** A login replaces the prekey in the database before it posts the new one. If the
  post fails, the server hands out the old one for up to 14 days, because no login posts a prekey it did not make.
- **One-time keys.** One whose insertion failed is posted all the same, and answering a handshake that uses it
  ends the process. A device whose one-time keys are used up cannot be contacted, though X3DH and a test provide for that.

- **The limit on login attempts is never reached.** The count is cleared before each passphrase is tried; only attempts for which there was
  no secure memory count (`NoSecureMemory` in `Windows`).
- **A second device cannot be added without a restart.** The ping thread is started by the constructor of its window, and the window is
  kept when it is hidden: shown again after a time-out or Back, it displays the old code, and no thread asks for it (second
  disjunct of `ContinueWithDevice`).
- **Backing out of adding a device.** The thread goes on. Its time-out later takes a user who has logged in back to the login window, and an
  approval has the set-up write into the database of whoever is inside. `InsideIffLoggedIn` and `AddingHasTheMachine` hold with `~left` only.
- **Threads outlive their windows.** After a logout the ping thread and the registration thread use a deleted window (`PingDangles`, `RegistrationDangles`).
- **No window at all.** `showWindow` hides all windows before the constructor of the next one, which makes requests, can throw (`Nothing`).
- **No request is ever delayed.** The counters of the rate limiter belong to the client, and each request makes its own.
- **Without `API_HOST`** a registration goes on as if the server had accepted it, and an authenticated request ends the process.

## 6. What is not modelled, and the plan

In order of importance:

1. Theorems: `OnlyToldPassphraseLogsIn` of `Vault`.
2. The composition of `Windows` with `Vault`: each has the other's part as one step.

Left out for good: the rate limiter, which does nothing (section 5); the download of a file, which changes no state;
the content of files and messages, camera and QR codes, layout and wording,
hex/base64 conversions, memory locking, TLS (pure I/O or unit-tested conversions
with no protocol state), and the server itself, which is not in the repository.
