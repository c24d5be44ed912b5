----------------------------- MODULE FileSharing -----------------------------
(***************************************************************************)
(* Files on their way from a device to the devices of another user: send,  *)
(* refresh, manage access, delete.                                         *)
(*                                                                         *)
(* The server keeps a file, encrypted under its file key, and the file key *)
(* encrypted under a key encryption key, the KEK of the file.  What        *)
(* travels to a device, in a message of a ratchet session, is the KEK; a   *)
(* device keeps it in table messages, one row for each file.               *)
(*                                                                         *)
(* A device runs one handler at a time: what is left of it is todo[d].  A  *)
(* step fails before it has had an effect; one that has its effect and     *)
(* fails then leaves what the failure of the next step leaves.  Sessions   *)
(* has the ratchets and their saves; here, a message may turn out not to   *)
(* be readable at any time.                                                *)
(*                                                                         *)
(* The server is not in the repository.  It serves a file to its owner and *)
(* to the users it was sent to since access to it was last revoked.        *)
(***************************************************************************)
EXTENDS Naturals, Sequences, FiniteSets

CONSTANTS
  Users,
  Devices,
  UserOf,         \* the user of each device
  Senders,        \* the devices that files are sent from
  Typed,          \* the user names that are typed
  None,           \* no file, no row, nobody
  MaxDraws,       \* bound: how often a file key and a KEK are drawn
  MaxMishaps      \* bound: failed requests, failed statements and crashes

ASSUME UserOfAssumption == UserOf \in [Devices -> Users]
ASSUME InputsAssumption == Senders \subseteq Devices /\ Typed \subseteq Users
ASSUME FiniteDevices == IsFiniteSet(Devices)
ASSUME Bounds == MaxDraws \in Nat /\ MaxMishaps \in Nat

VARIABLES
  file,       \* at the server: file[f], [owner, by, content, sealed, access], by: the device it came from
  mailbox,    \* at the server: mailbox[d], a sequence of [file, kek, user]
  row,        \* row[d][f]: [user, kek, sender, keyed], rows in tables messages and message_keys
  known,      \* known[d]: the devices d has a ratchet with
  fetched,    \* fetched[d]: already_fetched_bundles of the send window
  shown,      \* shown[d]: the files in the sent window
  todo,       \* todo[d]: the steps left of the handler d is in
  job,        \* job[d]: what this handler is about
  batch,      \* batch[d]: the messages update_messages still has to go through
  codeFor,    \* codeFor[d]: whose code was shown last, since the last file was sent
  shutOut,    \* shutOut[f]: who has not been sent the KEK since it was replaced
  drawn,      \* how many keys have been drawn
  mishaps     \* what has gone wrong so far

server == <<file, mailbox>>
window == <<fetched, shown, codeFor>>
counts == <<drawn, mishaps>>
vars == <<server, row, known, window, todo, job, batch, shutOut, counts>>

(* A file is known by the number of the draw of its first keys.            *)
Files == 1 .. MaxDraws
Keys == 1 .. MaxDraws

Stored == [owner : Users, by : Devices, content : Keys, sealed : [key : Keys, under : Keys],
           access : SUBSET Users]
Rows == [user : Users, kek : Keys, sender : BOOLEAN, keyed : BOOLEAN]
Messages == [file : Files, kek : Keys, user : Users]

ASSUME NoneIsNone ==
  None \notin Users /\ None \notin Files /\ None \notin Stored /\ None \notin Rows

NoJob == [file |-> None, kek |-> None, user |-> None, sender |-> FALSE, manage |-> FALSE]

Init ==
  /\ file = [f \in Files |-> None]
  /\ mailbox = [d \in Devices |-> << >>]
  /\ row = [d \in Devices |-> [f \in Files |-> None]]
  /\ known = [d \in Devices |-> {}]
  /\ fetched = [d \in Devices |-> FALSE]
  /\ shown = [d \in Devices |-> {}]
  /\ todo = [d \in Devices |-> << >>]
  /\ job = [d \in Devices |-> NoJob]
  /\ batch = [d \in Devices |-> << >>]
  /\ codeFor = [d \in Devices |-> None]
  /\ shutOut = [f \in Files |-> {}]
  /\ drawn = 0
  /\ mishaps = 0

-----------------------------------------------------------------------------
Idle(d) == todo[d] = << >>
AtStep(d, s) == ~Idle(d) /\ Head(todo[d]) = s

(* The handler goes on with the steps `first' and then what it had left.   *)
GoOn(d, first) ==
  /\ todo' = [todo EXCEPT ![d] = first \o Tail(@)]
  /\ job' = [job EXCEPT ![d] = IF todo'[d] = << >> THEN NoJob ELSE @]

ProcessEnds(d) ==
  /\ todo' = [todo EXCEPT ![d] = << >>]
  /\ job' = [job EXCEPT ![d] = NoJob]
  /\ batch' = [batch EXCEPT ![d] = << >>]
  /\ fetched' = [fetched EXCEPT ![d] = FALSE]
  /\ codeFor' = [codeFor EXCEPT ![d] = None]
  /\ shown' = [shown EXCEPT ![d] = {}]

(* Only the dialog that manages access catches an exception; from any other *)
(* slot it ends the process.                                               *)
Throw(d) ==
  IF job[d].manage
  THEN /\ todo' = [todo EXCEPT ![d] = << >>]
       /\ job' = [job EXCEPT ![d] = NoJob]
       /\ UNCHANGED <<batch, window>>
  ELSE ProcessEnds(d)

Mishap == mishaps < MaxMishaps /\ mishaps' = mishaps + 1
Draw == drawn < MaxDraws /\ drawn' = drawn + 1

-----------------------------------------------------------------------------
(* The rows of a device.                                                   *)

(* get_decrypted_message gives a KEK only if the row's key is its own.     *)
Kek(d, f) == IF row[d][f] # None /\ row[d][f].keyed THEN row[d][f].kek ELSE None

(* With this KEK, the stored file key can be had, and with it the content. *)
Opens(d, f) ==
  /\ file[f] # None
  /\ file[f].sealed.under = Kek(d, f)
  /\ file[f].sealed.key = file[f].content

(* get_file_recipients: one user at most, there being one row.             *)
Recipients(d, f) ==
  {u \in Users \ {UserOf[d]} : row[d][f] # None /\ row[d][f].sender /\ row[d][f].user = u}

(* get_file_metadata of the sent window.                                   *)
Sent(d) == {f \in Files : Recipients(d, f) # {} /\ Opens(d, f)}

-----------------------------------------------------------------------------
(* What the user starts.                                                   *)

AllowAccess(get_keybundles) == IF get_keybundles THEN << "bundles", "post" >> ELSE << "post" >>

(* SendFile::onSendClicked: upload_file, then allow_access_to_file.        *)
StartSend(d, u) ==
  /\ Idle(d) /\ d \in Senders /\ Draw
  /\ todo' = [todo EXCEPT ![d] = << "upload" >> \o AllowAccess(~fetched[d]) \o << "report" >>]
  /\ job' = [job EXCEPT ![d] = [file |-> drawn', kek |-> drawn', user |-> u,
                                sender |-> TRUE, manage |-> FALSE]]
  /\ UNCHANGED <<server, row, known, window, batch, shutOut, mishaps>>

(* SendFile::onShowAuthCodeClicked.                                        *)
StartShowCode(d, u) ==
  /\ Idle(d) /\ d \in Senders
  /\ todo' = [todo EXCEPT ![d] = << "handshakes", "bundles", "code" >>]
  /\ job' = [job EXCEPT ![d] = [NoJob EXCEPT !.user = u]]
  /\ UNCHANGED <<server, row, known, window, batch, shutOut, counts>>

(* Received::onShowAuthCodeButtonClicked, Sent::onShowAuthCodeButtonClicked. *)
StartShowCodeOnDashboard(d, u) ==
  /\ Idle(d) /\ d \in Senders
  /\ todo' = [todo EXCEPT ![d] = << "handshakes", "bundles", "dashboardCode" >>]
  /\ job' = [job EXCEPT ![d] = [NoJob EXCEPT !.user = u]]
  /\ UNCHANGED <<server, row, known, window, batch, shutOut, counts>>

(* Received::refreshFileList.                                              *)
StartRefresh(d) ==
  /\ Idle(d)
  /\ todo' = [todo EXCEPT ![d] = << "handshakes", "messages" >>]
  /\ UNCHANGED <<server, row, known, window, job, batch, shutOut, counts>>

(* Sent::refreshFileList.                                                  *)
StartList(d) ==
  /\ Idle(d) /\ d \in Senders
  /\ todo' = [todo EXCEPT ![d] = << "list" >>]
  /\ UNCHANGED <<server, row, known, window, job, batch, shutOut, counts>>

(* Mutant: the remaining users are sent the new KEK first. *)
RefreshAccessUpdatesLast == << "revoke" >> \o AllowAccess(TRUE) \o << "updateKey" >>

RefreshAccess == << "revoke", "updateKey" >> \o AllowAccess(TRUE)

(* Sent::onRevokeAccessClicked: the user unchecks u, and refresh_access is *)
(* given u as the one who is allowed.                                      *)
StartManage(d, f) ==
  /\ Idle(d) /\ f \in shown[d] /\ Draw
  /\ \E u \in Recipients(d, f) :
        job' = [job EXCEPT ![d] = [file |-> f, kek |-> drawn', user |-> u,
                                   sender |-> TRUE, manage |-> TRUE]]
  /\ todo' = [todo EXCEPT ![d] = RefreshAccess]
  /\ UNCHANGED <<server, row, known, window, batch, shutOut, mishaps>>

(* Sent::onDeleteFileClicked.                                              *)
StartDelete(d, f) ==
  /\ Idle(d) /\ f \in shown[d]
  /\ todo' = [todo EXCEPT ![d] = << "deleteFile", "deleteRow", "list" >>]
  /\ job' = [job EXCEPT ![d] = [NoJob EXCEPT !.file = f]]
  /\ UNCHANGED <<server, row, known, window, batch, shutOut, counts>>

-----------------------------------------------------------------------------
(* send_file_to and allow_access_to_file.                                  *)

Upload(d) ==
  LET j == job[d]
  IN  /\ AtStep(d, "upload")
      /\ file' = [file EXCEPT ![j.file] =
                    [owner |-> UserOf[d], by |-> d, content |-> j.kek,
                     sealed |-> [key |-> j.kek, under |-> j.kek], access |-> {}]]
      /\ GoOn(d, << >>)
      /\ UNCHANGED <<mailbox, row, known, window, batch, shutOut, counts>>

(* Mutant: the device that asks is among them. *)
DevicesOfEvenOwn(u, d) == {e \in Devices : UserOf[e] = u}

DevicesOf(u, d) == {e \in Devices \ {d} : UserOf[e] = u}

(* get_keybundles, create_ratchets_if_needed: a ratchet with each device   *)
(* of the user that is new.                                                *)
Bundles(d) ==
  LET new == DevicesOf(job[d].user, d) \ known[d]
  IN  /\ AtStep(d, "bundles") /\ new # {}
      /\ known' = [known EXCEPT ![d] = @ \cup new]
      /\ GoOn(d, << >>)
      /\ UNCHANGED <<server, row, window, batch, shutOut, counts>>

(* None is new.  The server answers with an error, which counts as none,   *)
(* or with an empty list, on which get_keybundles throws.                  *)
NoBundles(d) ==
  /\ AtStep(d, "bundles") /\ DevicesOf(job[d].user, d) \subseteq known[d]
  /\ \/ GoOn(d, << >>) /\ UNCHANGED <<window, batch>>
     \/ Throw(d)
  /\ UNCHANGED <<server, row, known, shutOut, counts>>

(* save_message_and_key for each of n devices: two statements each.        *)
Saves(n) == [i \in 1 .. 2 * n |-> IF i % 2 = 1 THEN "row" ELSE "key"]

(* get_keys_for_identity and post_ratchet_message, for the devices that    *)
(* are known.  If none is, nothing is posted.                              *)
Post(d) ==
  LET j == job[d]
      to == DevicesOf(j.user, d) \cap known[d]
      message == [file |-> j.file, kek |-> j.kek, user |-> UserOf[d]]
  IN  /\ AtStep(d, "post")
      /\ mailbox' = [e \in Devices |-> IF e \in to THEN Append(mailbox[e], message) ELSE mailbox[e]]
      /\ file' = IF to = {} THEN file ELSE [file EXCEPT ![j.file].access = @ \cup {j.user}]
      /\ shutOut' = IF to = {} THEN shutOut ELSE [shutOut EXCEPT ![j.file] = @ \ {j.user}]
      /\ GoOn(d, Saves(Cardinality(to)))
      /\ UNCHANGED <<row, known, window, batch, counts>>

(* Mutant: bundles count as fetched for the next file too. *)
FetchedAfterReportStays(d) == fetched[d]

FetchedAfterReport(d) == FALSE

(* "File has been sent successfully!"                                      *)
Report(d) ==
  /\ AtStep(d, "report")
  /\ fetched' = [fetched EXCEPT ![d] = FetchedAfterReport(d)]
  /\ codeFor' = [codeFor EXCEPT ![d] = None]
  /\ GoOn(d, << >>)
  /\ UNCHANGED <<server, row, known, shown, batch, shutOut, counts>>

(* The flag is set before the first device id is read; if there is none,   *)
(* that is an access past the end of an empty vector, which may end the    *)
(* process.                                                                *)
ShowCode(d) ==
  /\ AtStep(d, "code")
  /\ \/ /\ fetched' = [fetched EXCEPT ![d] = TRUE]
        /\ codeFor' = [codeFor EXCEPT ![d] = job[d].user]
        /\ GoOn(d, << >>)
        /\ UNCHANGED <<shown, batch>>
     \/ DevicesOf(job[d].user, d) \cap known[d] = {} /\ ProcessEnds(d)
  /\ UNCHANGED <<server, row, known, shutOut, counts>>

(* The dashboards have no such flag.                                       *)
ShowCodeOnDashboard(d) ==
  /\ AtStep(d, "dashboardCode")
  /\ \/ GoOn(d, << >>) /\ UNCHANGED <<window, batch>>
     \/ DevicesOf(job[d].user, d) \cap known[d] = {} /\ ProcessEnds(d)
  /\ UNCHANGED <<server, row, known, shutOut, counts>>

-----------------------------------------------------------------------------
(* save_message_and_key.                                                   *)

(* Mutant: a file that was sent is recorded under the sender's own name. *)
RowOfOwnName(d) ==
  [user |-> IF job[d].sender THEN UserOf[d] ELSE job[d].user,
   kek |-> job[d].kek, sender |-> job[d].sender, keyed |-> FALSE]

(* The new row does not fit the key row that may be there.                 *)
Row(d) == [user |-> job[d].user, kek |-> job[d].kek, sender |-> job[d].sender, keyed |-> FALSE]

(* INSERT OR REPLACE INTO messages: file_uuid is the primary key.          *)
SaveRow(d) ==
  /\ AtStep(d, "row")
  /\ row' = [row EXCEPT ![d][job[d].file] = Row(d)]
  /\ GoOn(d, << >>)
  /\ UNCHANGED <<server, known, window, batch, shutOut, counts>>

(* INSERT OR REPLACE INTO message_keys.                                    *)
SaveKey(d) ==
  /\ AtStep(d, "key")
  /\ row' = [row EXCEPT ![d][job[d].file].keyed = TRUE]
  /\ GoOn(d, << >>)
  /\ UNCHANGED <<server, known, window, batch, shutOut, counts>>

-----------------------------------------------------------------------------
(* refresh_access and delete_file.                                         *)

Revoke(d) ==
  /\ AtStep(d, "revoke")
  /\ file' = [file EXCEPT ![job[d].file].access = {}]
  /\ GoOn(d, << >>)
  /\ UNCHANGED <<mailbox, row, known, window, batch, shutOut, counts>>

(* Mutant: the new file key is encrypted under the KEK that is there. *)
ResealedUnderOld(d) == [key |-> job[d].kek, under |-> file[job[d].file].sealed.under]

(* A new file key, under a new KEK; the content stays under the old one.   *)
Resealed(d) == [key |-> job[d].kek, under |-> job[d].kek]

UpdateKey(d) ==
  LET f == job[d].file
  IN  /\ AtStep(d, "updateKey")
      /\ file' = [file EXCEPT ![f].sealed = Resealed(d)]
      /\ shutOut' = [shutOut EXCEPT ![f] = Users \ {UserOf[d]}]
      /\ GoOn(d, << >>)
      /\ UNCHANGED <<mailbox, row, known, window, batch, counts>>

DeleteFile(d) ==
  /\ AtStep(d, "deleteFile")
  /\ file' = [file EXCEPT ![job[d].file] = None]
  /\ GoOn(d, << >>)
  /\ UNCHANGED <<mailbox, row, known, window, batch, shutOut, counts>>

(* delete_file_from_database: what follows on messages changes nothing here. *)
DeleteRow(d) ==
  /\ AtStep(d, "deleteRow")
  /\ row' = [row EXCEPT ![d][job[d].file] = None]
  /\ GoOn(d, << >>)
  /\ UNCHANGED <<server, known, window, batch, shutOut, counts>>

List(d) ==
  /\ AtStep(d, "list")
  /\ shown' = [shown EXCEPT ![d] = Sent(d)]
  /\ GoOn(d, << >>)
  /\ UNCHANGED <<server, row, known, fetched, codeFor, batch, shutOut, counts>>

-----------------------------------------------------------------------------
(* update_handshakes and update_messages.                                  *)

Handshakes(d) ==
  /\ AtStep(d, "handshakes")
  /\ known' = [known EXCEPT ![d] = @ \cup {e \in Devices : d \in known[e]}]
  /\ GoOn(d, << >>)
  /\ UNCHANGED <<server, row, window, batch, shutOut, counts>>

FetchMessages(d) ==
  /\ AtStep(d, "messages")
  /\ batch' = [batch EXCEPT ![d] = mailbox[d]]
  /\ mailbox' = [mailbox EXCEPT ![d] = << >>]
  /\ GoOn(d, << "nextMessage" >>)
  /\ UNCHANGED <<file, row, known, window, shutOut, counts>>

NoMoreMessages(d) ==
  /\ AtStep(d, "nextMessage") /\ batch[d] = << >>
  /\ GoOn(d, << >>)
  /\ UNCHANGED <<server, row, known, window, batch, shutOut, counts>>

OpenMessage(d) ==
  LET m == Head(batch[d])
  IN  /\ AtStep(d, "nextMessage") /\ batch[d] # << >>
      /\ job' = [job EXCEPT ![d] = [file |-> m.file, kek |-> m.kek, user |-> m.user,
                                    sender |-> FALSE, manage |-> FALSE]]
      /\ batch' = [batch EXCEPT ![d] = Tail(@)]
      /\ todo' = [todo EXCEPT ![d] = << "row", "key" >> \o @]
      /\ UNCHANGED <<server, row, known, window, shutOut, counts>>

(* The sender is not known, or the key is not there or not the right one:  *)
(* the rest of the batch goes with it.                                     *)
CannotOpen(d) ==
  /\ AtStep(d, "nextMessage") /\ batch[d] # << >>
  /\ Throw(d)
  /\ UNCHANGED <<server, row, known, shutOut, counts>>

-----------------------------------------------------------------------------
(* A request that counts as an empty answer when it fails: get_keybundles, *)
(* get_handshake_backlog, get_messages.  What the server has handed out    *)
(* may be lost.                                                            *)
AnswerLost(d) ==
  /\ Mishap
  /\ \/ /\ AtStep(d, "bundles") \/ AtStep(d, "handshakes")
        /\ UNCHANGED mailbox
     \/ /\ AtStep(d, "messages")
        /\ mailbox' \in {mailbox, [mailbox EXCEPT ![d] = << >>]}
  /\ GoOn(d, << >>)
  /\ UNCHANGED <<file, row, known, window, batch, shutOut, drawn>>

Throws == { "upload", "post", "row", "key", "revoke", "updateKey", "deleteFile", "deleteRow", "list" }

Fails(d) ==
  /\ Mishap
  /\ \E s \in Throws : AtStep(d, s)
  /\ Throw(d)
  /\ UNCHANGED <<server, row, known, shutOut, drawn>>

Crash(d) ==
  /\ Mishap
  /\ ProcessEnds(d)
  /\ UNCHANGED <<server, row, known, shutOut, drawn>>

Step(d) ==
  \/ Upload(d) \/ Bundles(d) \/ NoBundles(d) \/ Post(d) \/ Report(d) \/ ShowCode(d)
  \/ ShowCodeOnDashboard(d)
  \/ SaveRow(d) \/ SaveKey(d)
  \/ Revoke(d) \/ UpdateKey(d) \/ DeleteFile(d) \/ DeleteRow(d) \/ List(d)
  \/ Handshakes(d) \/ FetchMessages(d) \/ NoMoreMessages(d) \/ OpenMessage(d) \/ CannotOpen(d)
  \/ AnswerLost(d) \/ Fails(d)

Next ==
  \E d \in Devices :
    \/ \E u \in Typed :
          StartSend(d, u) \/ StartShowCode(d, u) \/ StartShowCodeOnDashboard(d, u)
    \/ \E f \in Files : StartManage(d, f) \/ StartDelete(d, f)
    \/ StartRefresh(d) \/ StartList(d)
    \/ Step(d)
    \/ Crash(d)

Spec == Init /\ [][Next]_vars

-----------------------------------------------------------------------------
Steps == Throws \cup { "bundles", "report", "code", "dashboardCode", "handshakes", "messages", "nextMessage" }

(* Type invariant.  Besides the types: a device has no ratchet with itself, *)
(* and a row is recorded as sent only on the device the file came from.     *)
TypeOK ==
  /\ file \in [Files -> Stored \cup {None}]
  /\ mailbox \in [Devices -> Seq(Messages)] /\ batch \in [Devices -> Seq(Messages)]
  /\ row \in [Devices -> [Files -> Rows \cup {None}]]
  /\ \A d \in Devices, f \in Files :
       row[d][f] # None /\ file[f] # None => row[d][f].sender = (file[f].by = d)
  /\ known \in [Devices -> SUBSET Devices] /\ \A d \in Devices : d \notin known[d]
  /\ fetched \in [Devices -> BOOLEAN]
  /\ shown \in [Devices -> SUBSET Files]
  /\ todo \in [Devices -> Seq(Steps)]
  /\ job \in [Devices -> [file : Files \cup {None}, kek : Keys \cup {None},
                          user : Users \cup {None}, sender : BOOLEAN, manage : BOOLEAN]]
  /\ codeFor \in [Devices -> Users \cup {None}]
  /\ shutOut \in [Files -> SUBSET Users]
  /\ drawn \in 0 .. MaxDraws /\ mishaps \in 0 .. MaxMishaps

(* The messages d has not kept yet, in their order. *)
Taken(d) ==
  IF ~job[d].sender /\ job[d].kek # None
  THEN << [file |-> job[d].file, kek |-> job[d].kek, user |-> job[d].user] >> ELSE << >>
Coming(d) == Taken(d) \o batch[d] \o mailbox[d]

(* The last message about f in s, if there is one, brings kek. *)
Latest(s, f, kek) ==
  \A i \in DOMAIN s :
     s[i].file = f /\ (\A j \in DOMAIN s : j > i => s[j].file # f) => s[i].kek = kek

(* Once the KEK of a file has been replaced, no device of a user who has   *)
(* not been sent the new one has it, kept or on its way, whatever part of  *)
(* refresh_access failed.                                                  *)
ShutOutHaveNoKey ==
  \A d \in Devices, f \in Files :
    file[f] # None /\ UserOf[d] \in shutOut[f] =>
      /\ row[d][f] # None => row[d][f].kek # file[f].sealed.under
      /\ \A i \in DOMAIN Coming(d) :
           Coming(d)[i].file = f => Coming(d)[i].kek # file[f].sealed.under

(* The last message about a file on its way to a user with access brings   *)
(* the KEK the file is under now: an older one, delayed across a change of  *)
(* the KEK, is replaced by the one that follows it.                        *)
NewestMessageFits ==
  \A d \in Devices, f \in Files :
    file[f] # None /\ UserOf[d] \in file[f].access => Latest(Coming(d), f, file[f].sealed.under)

(* As long as nothing failed, a device that is done with a file can still  *)
(* manage it: the dialog lists every other user who has access, and until   *)
(* the keys were replaced the sent window lists the file.                  *)
ManageableBySender ==
  mishaps = 0 =>
    \A f \in Files : file[f] # None /\ job[file[f].by].file # f =>
      \A u \in file[f].access \ {file[f].owner} :
        /\ u \in Recipients(file[f].by, f)
        /\ file[f].sealed.key = file[f].content => f \in Sent(file[f].by)

(* When the send window reports success and nothing failed, the recipient, *)
(* having a device, has been given access, unless the code of another user *)
(* was shown before.                                                       *)
ReportIsTrue ==
  [][ \A d \in Devices :
        LET j == job[d]
        IN  AtStep(d, "report") /\ Idle(d)' /\ mishaps' = 0
            /\ codeFor[d] \in {None, j.user} /\ DevicesOf(j.user, d) # {}
              => j.user \in file[j.file].access ]_vars
=============================================================================
