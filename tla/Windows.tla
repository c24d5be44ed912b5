-------------------------------- MODULE Windows --------------------------------
(***************************************************************************)
(* The windows of one process: which is shown, who is logged in behind it, *)
(* the threads that work behind a window, and what they queue for it.      *)
(*                                                                         *)
(* A slot runs to its end on the GUI thread, except where it shows a       *)
(* dialog: then a nested event loop runs, which delivers what other        *)
(* threads have queued, while the dialog keeps the user from the windows.  *)
(* The slot goes on when its dialog, the innermost one, is closed.         *)
(*                                                                         *)
(* Two kinds of threads run beside it.  A registration runs on a thread of *)
(* the pool.  A window for the registration of a device starts a detached  *)
(* one, which asks the server every two seconds, for two minutes, whether  *)
(* another device has approved the key on display.                         *)
(*                                                                         *)
(* What a registration, a login and a set-up do to the files is in Vault:  *)
(* here they succeed or fail, and leave a session or none.                 *)
(***************************************************************************)
EXTENDS Naturals, Sequences

CONSTANTS
  Users,
  None,         \* nobody, no thread, no window object
  Dashboards,   \* the windows behind the login
  MaxAttempts,  \* MAX_LOGIN_ATTEMPTS of the login window
  MaxKeys,      \* bound: device registration windows made
  MaxMishaps    \* bound: handlers that fail

ASSUME DashboardsAssumption ==
  "received" \in Dashboards /\ Dashboards \subseteq {"received", "sent", "sendFile", "settings"}
ASSUME Bounds == MaxAttempts \in Nat \ {0} /\ MaxKeys \in Nat /\ MaxMishaps \in Nat
ASSUME NoneIsNone ==
  None \notin Users /\ None \notin 1 .. MaxKeys /\ None \notin [user : Users, window : BOOLEAN]

VARIABLES
  window,     \* window[w]: "none", "hidden" or "shown"
  stage,      \* of the login window: "name" or "passphrase"
  attempts,   \* of the login window: the count in its cache
  databases,  \* the users who have a database on this machine
  accounts,   \* at the server: the users it has
  session,    \* who is logged in
  device,     \* the key on display in the device registration window
  owner,      \* owner[k]: the user key k was made for
  ping,       \* ping[k]: the thread that asks for key k, "none", "running" or "ended"
  approved,   \* at the server: the keys that are devices of their owners
  events,     \* the events queued for the GUI thread
  dialogs,    \* the dialogs that are open, innermost first
  worker,     \* the thread of a registration: [user, window], is its window still there
  left,       \* somebody has left a registration before its outcome was shown
  mishaps     \* how many handlers have failed

keys == <<device, owner, ping>>
login == <<stage, attempts>>
files == <<databases, accounts>>
vars == <<window, login, files, session, keys, approved, events, dialogs, worker, left, mishaps>>

Keys == 1 .. MaxKeys
Kinds == Dashboards \cup {"login", "register", "deviceRegister"}

(* The windows whose constructor makes requests and may throw. *)
Loading == {"received", "sent", "settings"}

LoginOnly == [w \in Kinds |-> IF w = "login" THEN "shown" ELSE "none"]

Init ==
  /\ window = LoginOnly
  /\ stage = "name" /\ attempts = 0
  /\ databases = {}
  /\ accounts \in SUBSET Users
  /\ session = None
  /\ device = None
  /\ owner = [k \in Keys |-> None]
  /\ ping = [k \in Keys |-> "none"]
  /\ approved = {}
  /\ events = << >> /\ dialogs = << >>
  /\ worker = None
  /\ left = FALSE
  /\ mishaps = 0

-----------------------------------------------------------------------------
(* WindowManager.                                                          *)

Hide(w) == IF window[w] = "shown" THEN "hidden" ELSE window[w]

(* Mutant: the other windows are hidden only when the window is new. *)
ShowOnTop(w) ==
  IF window[w] = "hidden" THEN [window EXCEPT ![w] = "shown"]
  ELSE [v \in Kinds |-> IF v = w THEN "shown" ELSE Hide(v)]

(* showWindow: all others are hidden, then the window is made if need be.  *)
Show(w) ==
  IF window[w] = "shown" THEN window
  ELSE [v \in Kinds |-> IF v = w THEN "shown" ELSE Hide(v)]

(* The constructor throws: by then the others are hidden.                  *)
CannotShow(w) == w \in Loading /\ window[w] = "none" /\ mishaps < MaxMishaps
Nothing == [v \in Kinds |-> Hide(v)]

Mishap == mishaps < MaxMishaps /\ mishaps' = mishaps + 1

(* The process ends, with its threads, and is started again.               *)
ProcessEnds ==
  /\ window' = LoginOnly /\ stage' = "name" /\ attempts' = 0
  /\ session' = None /\ device' = None
  /\ ping' = [k \in Keys |-> IF ping[k] = "running" THEN "ended" ELSE ping[k]]
  /\ events' = << >> /\ dialogs' = << >> /\ worker' = None /\ left' = FALSE
  /\ UNCHANGED <<files, owner, approved>>

(* The user can click into window w.                                       *)
Usable(w) == window[w] = "shown" /\ dialogs = << >>

-----------------------------------------------------------------------------
(* The login window.                                                       *)

Continue(u) ==
  /\ Usable("login") /\ stage = "name"
  /\ \/ /\ u \in databases \cap accounts
        /\ stage' = "passphrase"
        /\ UNCHANGED window
     \/ /\ u \notin accounts
        /\ window' = Show("register")
        /\ UNCHANGED stage
  /\ UNCHANGED <<attempts, files, session, keys, approved, events, dialogs, worker, left, mishaps>>

NewKey == {k \in Keys : ping[k] = "none" /\ \A j \in 1 .. k - 1 : ping[j] # "none"}

(* No database here: showDeviceRegister with a new key.  A window that is  *)
(* there already is shown as it is, with the key and the thread it has.    *)
ContinueWithDevice(u) ==
  /\ Usable("login") /\ stage = "name" /\ u \in accounts \ databases
  /\ window' = Show("deviceRegister")
  /\ \/ /\ window["deviceRegister"] = "none"
        /\ \E k \in NewKey :
             /\ device' = k
             /\ owner' = [owner EXCEPT ![k] = u]
             /\ ping' = [ping EXCEPT ![k] = "running"]
     \/ window["deviceRegister"] # "none" /\ UNCHANGED keys
  /\ UNCHANGED <<login, files, session, approved, events, dialogs, worker, left, mishaps>>

(* The login button.  The count is cleared before the passphrase is tried; *)
(* it stays only if there is no secure memory for the passphrase.          *)
NoSecureMemory ==
  /\ Usable("login") /\ stage = "passphrase" /\ attempts < MaxAttempts
  /\ Mishap
  /\ attempts' = attempts + 1
  /\ UNCHANGED <<window, stage, files, session, keys, approved, events, dialogs, worker, left>>

(* The entry in the cache expires.                                         *)
Expire ==
  /\ attempts > 0 /\ attempts' = 0
  /\ UNCHANGED <<window, stage, files, session, keys, approved, events, dialogs, worker, left, mishaps>>

(* login_user, which the wrong passphrase or an open database of somebody  *)
(* else ends, and which may fail behind the authentication; showReceived.  *)
Login(u) ==
  /\ Usable("login") /\ stage = "passphrase" /\ attempts < MaxAttempts
  /\ attempts' = 0
  /\ \/ UNCHANGED <<session, window, mishaps>>
     \/ /\ u \in databases \cap accounts /\ session \in {None, u}
        /\ session' = u
        /\ \/ window' = Show("received") /\ UNCHANGED mishaps
           \/ CannotShow("received") /\ window' = Nothing /\ Mishap
           \/ Mishap /\ UNCHANGED window
  /\ UNCHANGED <<stage, files, keys, approved, events, dialogs, worker, left>>

GoToRegister ==
  /\ Usable("login")
  /\ window' = Show("register")
  /\ UNCHANGED <<login, files, session, keys, approved, events, dialogs, worker, left, mishaps>>

-----------------------------------------------------------------------------
(* The register window.                                                    *)

Registered == [event |-> "registrationSuccess", key |-> 0]
RegistrationPending == worker # None \/ \E i \in DOMAIN events : events[i] = Registered

(* The button is disabled until the outcome.  Bound: one registration at a *)
(* time, also when the window it was started from is gone.                 *)
Register(u) ==
  /\ Usable("register") /\ ~RegistrationPending
  /\ worker' = [user |-> u, window |-> TRUE]
  /\ UNCHANGED <<window, login, files, session, keys, approved, events, dialogs, left, mishaps>>

(* The login button, which works during a registration, too.               *)
BackFromRegister ==
  /\ Usable("register")
  /\ window' = Show("login")
  /\ left' = (left \/ RegistrationPending)
  /\ UNCHANGED <<login, files, session, keys, approved, events, dialogs, worker, mishaps>>

(* The user's database is made, unless another one is open: that is used   *)
(* then (see Vault).                                                       *)
MayMakeDatabase(u) == databases' \in {databases, databases \cup {u}}

(* The thread has logged the user in, and emits a signal of its window.    *)
RegistrationSucceeds ==
  /\ worker # None /\ worker.user \notin accounts
  /\ accounts' = accounts \cup {worker.user}
  /\ MayMakeDatabase(worker.user)
  /\ session' = worker.user
  /\ worker' = None
  /\ events' = IF worker.window THEN Append(events, Registered) ELSE events
  /\ UNCHANGED <<window, login, keys, approved, dialogs, left, mishaps>>

(* The name is taken, or something fails: registrationError.               *)
RegistrationFails ==
  /\ worker # None
  /\ \/ worker.user \in accounts /\ UNCHANGED <<session, mishaps>>
     \/ Mishap /\ session' \in {session, worker.user}
  /\ MayMakeDatabase(worker.user)
  /\ worker' = None
  /\ UNCHANGED <<window, login, accounts, keys, approved, events, dialogs, left>>

(* The window has been deleted: to use it is undefined, and may end the    *)
(* process instead.                                                        *)
RegistrationDangles ==
  /\ worker # None /\ ~worker.window
  /\ ProcessEnds /\ UNCHANGED mishaps

-----------------------------------------------------------------------------
(* The thread of a device registration: continuously_ping.                 *)

(* The owner approves the key on another device.  One who approves a key    *)
(* that was made for somebody else adds a device that nobody asks about.    *)
Approve(k) ==
  /\ owner[k] # None /\ approved' = approved \cup {k}
  /\ UNCHANGED <<window, login, files, session, keys, events, dialogs, worker, left, mishaps>>

(* Mutant: the clock is started anew with every round. *)
TimedOutNever == FALSE

(* Two minutes have passed.                                                *)
TimedOut == TRUE

(* Mutant: the thread goes on after it has timed out. *)
AfterTimeOutGoesOn == "running"

AfterTimeOut == "ended"

(* Queued for the window, if it is there; else that is undefined.          *)
Invoke(event, k) ==
  IF device = k THEN events' = Append(events, [event |-> event, key |-> k])
  ELSE UNCHANGED events

PingAnswered(k) ==
  /\ ping[k] = "running" /\ k \in approved
  /\ Invoke("userRegistered", k)
  /\ ping' = [ping EXCEPT ![k] = "ended"]
  /\ UNCHANGED <<window, login, files, session, device, owner, approved, dialogs, worker, left, mishaps>>

PingTimesOut(k) ==
  /\ ping[k] = "running" /\ TimedOut
  /\ Invoke("pingTimeout", k)
  /\ ping' = [ping EXCEPT ![k] = AfterTimeOut]
  /\ UNCHANGED <<window, login, files, session, device, owner, approved, dialogs, worker, left, mishaps>>

(* The window of a thread that has its outcome has been deleted.           *)
PingDangles(k) ==
  /\ ping[k] = "running" /\ device # k
  /\ ProcessEnds /\ UNCHANGED mishaps

-----------------------------------------------------------------------------
(* The GUI thread takes the next event.                                    *)

(* onRegistrationSuccess: no slot catches what showReceived throws.        *)
EnterAsRegistered ==
  /\ events # << >> /\ Head(events) = Registered
  /\ \/ /\ window' = Show("received")
        /\ events' = Tail(events)
        /\ UNCHANGED <<login, files, session, keys, approved, dialogs, worker, left, mishaps>>
     \/ CannotShow("received") /\ Mishap /\ ProcessEnds

(* onUserRegistered asks for a passphrase, onPingTimeout says that it took *)
(* too long.                                                               *)
OpenDialog ==
  /\ events # << >> /\ Head(events) # Registered
  /\ dialogs' = << Head(events) >> \o dialogs
  /\ events' = Tail(events)
  /\ UNCHANGED <<window, login, files, session, keys, approved, worker, left, mishaps>>

Innermost(event) == dialogs # << >> /\ Head(dialogs).event = event

(* A passphrase is given: set_up_client_for_user, login_user and           *)
(* showReceived.  What they throw is only logged.                          *)
SetUpDevice ==
  LET u == owner[Head(dialogs).key]
  IN  /\ Innermost("userRegistered")
      /\ MayMakeDatabase(u)
      /\ \/ session' = u /\ window' = Show("received") /\ UNCHANGED mishaps
         \/ session' = u /\ CannotShow("received") /\ window' = Nothing /\ Mishap
         \/ session' \in {session, u} /\ Mishap /\ UNCHANGED window
      /\ dialogs' = Tail(dialogs)
      /\ UNCHANGED <<login, accounts, keys, approved, events, worker, left>>

CancelSetUp ==
  /\ Innermost("userRegistered")
  /\ dialogs' = Tail(dialogs)
  /\ UNCHANGED <<window, login, files, session, keys, approved, events, worker, left, mishaps>>

ReturnToLogin ==
  /\ Innermost("pingTimeout")
  /\ dialogs' = Tail(dialogs)
  /\ window' = Show("login")
  /\ UNCHANGED <<login, files, session, keys, approved, events, worker, left, mishaps>>

(* DeviceRegister::onBackButtonClicked: the thread goes on.                *)
BackFromDevice ==
  /\ Usable("deviceRegister")
  /\ window' = Show("login")
  /\ left' = (left \/ ping[device] = "running" \/ events # << >>)
  /\ UNCHANGED <<login, files, session, keys, approved, events, dialogs, worker, mishaps>>

-----------------------------------------------------------------------------
(* The bar of the windows behind the login.                                *)

Navigate(w) ==
  /\ w \in Dashboards /\ (\E v \in Dashboards : Usable(v))
  /\ \/ /\ window' = Show(w)
        /\ UNCHANGED <<login, files, session, keys, approved, events, dialogs, worker, left, mishaps>>
     \/ CannotShow(w) /\ Mishap /\ ProcessEnds

(* Mutant: restart shows the login window and deletes none. *)
AfterRestartKept == Show("login")

(* restart: every window is deleted, and with it what is queued for it.    *)
AfterRestart == LoginOnly

(* Mutant: the token stays. *)
AfterLogoutStays == session

AfterLogout == None

Logout ==
  /\ \E v \in Dashboards : Usable(v)
  /\ session # None
  /\ session' = AfterLogout
  /\ window' = AfterRestart
  /\ stage' = "name" /\ attempts' = 0
  /\ device' = None
  /\ events' = << >>
  /\ worker' = IF worker = None THEN None ELSE [worker EXCEPT !.window = FALSE]
  /\ UNCHANGED <<files, owner, ping, approved, dialogs, left, mishaps>>

(* A failed request: no slot catches it.                                   *)
LogoutThrows ==
  /\ \E v \in Dashboards : Usable(v)
  /\ Mishap /\ ProcessEnds

(* The window is closed, or the process killed.                            *)
Quit == ProcessEnds /\ UNCHANGED mishaps

Next ==
  \/ \E u \in Users : Continue(u) \/ ContinueWithDevice(u) \/ Login(u) \/ Register(u)
  \/ NoSecureMemory \/ Expire \/ GoToRegister
  \/ BackFromRegister \/ RegistrationSucceeds \/ RegistrationFails \/ RegistrationDangles
  \/ \E k \in Keys : Approve(k) \/ PingAnswered(k) \/ PingTimesOut(k) \/ PingDangles(k)
  \/ EnterAsRegistered \/ OpenDialog \/ SetUpDevice \/ CancelSetUp \/ ReturnToLogin
  \/ BackFromDevice
  \/ \E w \in Dashboards : Navigate(w)
  \/ Logout \/ LogoutThrows \/ Quit

Spec == Init /\ [][Next]_vars

(* Time passes for the threads, whose requests end (HTTPSClient sets them  *)
(* no limit), the GUI thread takes what is queued, and users close dialogs. *)
(* Nobody has to click, approve or log in.                                 *)
Fairness ==
  /\ \A k \in Keys : WF_vars(PingTimesOut(k))
  /\ WF_vars(EnterAsRegistered) /\ WF_vars(OpenDialog)
  /\ WF_vars(SetUpDevice \/ CancelSetUp) /\ WF_vars(ReturnToLogin)

FairSpec == Spec /\ Fairness

-----------------------------------------------------------------------------
Outcomes == [event : {"userRegistered", "pingTimeout"}, key : Keys]

(* Type invariant.  Besides the types: a key is on display if and only if  *)
(* there is a window to display it, and a key has an owner if and only if   *)
(* a thread was started for it.                                            *)
TypeOK ==
  /\ window \in [Kinds -> {"none", "hidden", "shown"}]
  /\ stage \in {"name", "passphrase"} /\ attempts \in 0 .. MaxAttempts
  /\ databases \subseteq Users /\ accounts \subseteq Users
  /\ session \in Users \cup {None}
  /\ device \in Keys \cup {None}
  /\ device = None <=> window["deviceRegister"] = "none"
  /\ owner \in [Keys -> Users \cup {None}]
  /\ ping \in [Keys -> {"none", "running", "ended"}]
  /\ \A k \in Keys : owner[k] = None <=> ping[k] = "none"
  /\ approved \subseteq Keys
  /\ events \in Seq(Outcomes \cup {Registered}) /\ dialogs \in Seq(Outcomes)
  /\ worker \in [user : Users, window : BOOLEAN] \cup {None}
  /\ left \in BOOLEAN /\ mishaps \in 0 .. MaxMishaps

InsideShown == \E w \in Dashboards : window[w] = "shown"

(* Never are two windows shown, and unless a handler has failed (the       *)
(* constructor of a dashboard throws after showWindow has hidden the       *)
(* others) one is, whatever order clicks, threads and dialogs come in.     *)
OneWindow ==
  /\ \A v, w \in Kinds : window[v] = "shown" /\ window[w] = "shown" => v = w
  /\ mishaps = 0 => \E w \in Kinds : window[w] = "shown"

(* The windows behind the login are shown exactly while somebody is logged *)
(* in (or was registered a moment ago), unless something failed, or        *)
(* somebody left a registration, whose outcome then comes at any time.     *)
InsideIffLoggedIn ==
  mishaps = 0 /\ ~left =>
    (session # None <=> InsideShown \/ \E i \in DOMAIN events : events[i] = Registered)

(* Key k is asked about, or its outcome is queued or being dealt with.     *)
Adding(k) ==
  \/ ping[k] = "running"
  \/ \E i \in DOMAIN events : events[i].key = k
  \/ \E i \in DOMAIN dialogs : dialogs[i].key = k

(* A registration of a device that nobody has left has the machine to      *)
(* itself: its window is there for its thread and shown, and, if nothing   *)
(* failed, nobody is logged in whose database the set-up would write to.   *)
AddingHasTheMachine ==
  \A k \in Keys : Adding(k) /\ ~left =>
    /\ device = k /\ window["deviceRegister"] = "shown"
    /\ mishaps = 0 => session = None

(* Every registration of a device comes to its end, left or not: the       *)
(* detached thread does not ask for ever, and its outcome is dealt with.   *)
AddingEnds == \A k \in Keys : Adding(k) ~> ~Adding(k)
=============================================================================
