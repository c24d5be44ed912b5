---------------------------- MODULE WindowsProofs ----------------------------
(***************************************************************************)
(* One window is shown, who is inside is logged in, and a registration of  *)
(* a device that nobody left has the machine to itself, for any users and  *)
(* any number of registrations and failures.  The argument is Inv: each    *)
(* registration, of a user or of a device, has one outcome at a time on    *)
(* its way, and unless somebody left one its window stays in front of it   *)
(* until that outcome is shown.                                            *)
(***************************************************************************)
EXTENDS Windows, Integers, TLAPS

-----------------------------------------------------------------------------
(* The keys in a sequence of outcomes.                                     *)

KeysOf(s) == {s[i].key : i \in DOMAIN s}
Distinct(s) == \A i, j \in DOMAIN s : s[i].key = s[j].key => i = j

(* An element that is added at the end, *)
LEMMA AppendKeys ==
  ASSUME NEW S, NEW s \in Seq(S), NEW e \in S
  PROVE  /\ KeysOf(Append(s, e)) = KeysOf(s) \cup {e.key}
         /\ Distinct(s) /\ e.key \notin KeysOf(s) => Distinct(Append(s, e))
<1> DEFINE t == Append(s, e)
           n == Len(s)
<1>1. /\ n \in Nat /\ DOMAIN s = 1 .. n /\ DOMAIN t = 1 .. n + 1
      /\ t[n + 1] = e /\ \A i \in 1 .. n : t[i] = s[i]
  OBVIOUS
<1> HIDE DEF t, n
<1>2. /\ n + 1 \in DOMAIN t /\ \A i \in DOMAIN t : i \in DOMAIN s \/ i = n + 1
      /\ DOMAIN s \subseteq DOMAIN t /\ \A i \in DOMAIN s : t[i] = s[i]
  BY <1>1
<1>3. KeysOf(t) = KeysOf(s) \cup {e.key}
  BY <1>1, <1>2 DEF KeysOf
<1>4. ASSUME Distinct(s), e.key \notin KeysOf(s) PROVE Distinct(t)
  BY <1>1, <1>2, <1>4 DEF Distinct, KeysOf
<1> QED  BY <1>3, <1>4 DEF t

(* one that is taken from the front, *)
LEMMA TailKeys ==
  ASSUME NEW S, NEW s \in Seq(S), s # << >>, Distinct(s)
  PROVE  /\ Head(s) \in S /\ Tail(s) \in Seq(S)
         /\ Head(s).key \in KeysOf(s)
         /\ KeysOf(Tail(s)) = KeysOf(s) \ {Head(s).key}
         /\ Distinct(Tail(s))
<1> DEFINE t == Tail(s)
           n == Len(s)
<1>1. /\ n \in Nat /\ n >= 1 /\ DOMAIN s = 1 .. n /\ DOMAIN t = 1 .. n - 1
      /\ Head(s) = s[1] /\ \A i \in 1 .. n - 1 : t[i] = s[i + 1]
      /\ Head(s) \in S /\ t \in Seq(S)
  OBVIOUS
<1> HIDE DEF t, n
<1>2. /\ 1 \in DOMAIN s
      /\ \A i \in DOMAIN t : i + 1 \in DOMAIN s /\ i + 1 # 1 /\ t[i] = s[i + 1] /\ i \in Int
      /\ \A i \in DOMAIN s : i = 1 \/ (i - 1 \in DOMAIN t /\ t[i - 1] = s[i])
  BY <1>1
<1>3. \A i \in DOMAIN s : i # 1 => s[i].key # s[1].key
  BY <1>2 DEF Distinct
<1>4. KeysOf(t) = KeysOf(s) \ {s[1].key}
  <2>1. ASSUME NEW i \in DOMAIN t PROVE t[i].key \in KeysOf(s) \ {s[1].key}
    <3>1. i + 1 \in DOMAIN s /\ i + 1 # 1 /\ t[i] = s[i + 1]
      BY <1>2
    <3> QED  BY <1>3, <3>1 DEF KeysOf
  <2>2. ASSUME NEW i \in DOMAIN s, s[i].key # s[1].key PROVE s[i].key \in KeysOf(t)
    <3>1. i - 1 \in DOMAIN t /\ t[i - 1] = s[i]
      BY <1>2, <2>2
    <3> QED  BY <3>1 DEF KeysOf
  <2> QED  BY <2>1, <2>2 DEF KeysOf
<1>5. Distinct(t)
  <2>1. ASSUME NEW i \in DOMAIN t, NEW j \in DOMAIN t, t[i].key = t[j].key PROVE i = j
    <3> DEFINE x == i + 1
               y == j + 1
    <3>1. x \in DOMAIN s /\ y \in DOMAIN s /\ s[x].key = s[y].key
      BY <1>2, <2>1
    <3>2. i \in Int /\ j \in Int
      BY <1>2
    <3> HIDE DEF x, y
    <3>3. x = y
      BY <3>1 DEF Distinct
    <3> QED  BY <3>2, <3>3 DEF x, y
  <2> QED  BY <2>1 DEF Distinct
<1>6. s[1].key \in KeysOf(s)
  BY <1>2 DEF KeysOf
<1> QED  BY <1>1, <1>4, <1>5, <1>6 DEF t

(* and one that is put in front. *)
LEMMA PushKeys ==
  ASSUME NEW S, NEW s \in Seq(S), NEW e \in S
  PROVE  /\ << e >> \o s \in Seq(S)
         /\ KeysOf(<< e >> \o s) = KeysOf(s) \cup {e.key}
         /\ Distinct(s) /\ e.key \notin KeysOf(s) => Distinct(<< e >> \o s)
<1> DEFINE t == << e >> \o s
           n == Len(s)
<1>1. /\ n \in Nat /\ DOMAIN s = 1 .. n /\ t \in Seq(S) /\ DOMAIN t = 1 .. n + 1
      /\ t[1] = e /\ \A i \in 1 .. n : t[i + 1] = s[i]
  OBVIOUS
<1> HIDE DEF t, n
<1>2. /\ 1 \in DOMAIN t
      /\ \A i \in DOMAIN s : i + 1 \in DOMAIN t /\ t[i + 1] = s[i]
      /\ \A i \in DOMAIN t : i \in Int /\ (i = 1 \/ (i - 1 \in DOMAIN s /\ t[i] = s[i - 1]))
  <2>1. ASSUME NEW i \in DOMAIN t, i # 1 PROVE i - 1 \in DOMAIN s /\ t[i] = s[i - 1]
    <3>1. i - 1 \in 1 .. n /\ (i - 1) + 1 = i
      BY <1>1, <2>1
    <3> QED  BY <1>1, <3>1
  <2> QED  BY <1>1, <2>1
<1>3. KeysOf(t) = KeysOf(s) \cup {e.key}
  <2>1. \A i \in DOMAIN t : t[i].key \in KeysOf(s) \cup {e.key}
    BY <1>1, <1>2 DEF KeysOf
  <2>2. \A i \in DOMAIN s : s[i].key \in KeysOf(t)
    BY <1>2 DEF KeysOf
  <2>3. e.key \in KeysOf(t)
    BY <1>1, <1>2 DEF KeysOf
  <2> QED  BY <2>1, <2>2, <2>3 DEF KeysOf
<1>4. ASSUME Distinct(s), e.key \notin KeysOf(s) PROVE Distinct(t)
  <2>1. ASSUME NEW i \in DOMAIN t, NEW j \in DOMAIN t, t[i].key = t[j].key PROVE i = j
    <3>1. \A x \in DOMAIN s : s[x].key # e.key
      BY <1>4 DEF KeysOf
    <3>2. CASE i = 1 \/ j = 1
      BY <1>1, <1>2, <2>1, <3>1, <3>2
    <3>3. CASE i # 1 /\ j # 1
      <4>1. i - 1 = j - 1
        BY <1>2, <1>4, <2>1, <3>3 DEF Distinct
      <4> QED  BY <1>2, <4>1
    <3> QED  BY <3>2, <3>3
  <2> QED  BY <2>1 DEF Distinct
<1> QED  BY <1>1, <1>3, <1>4 DEF t

LEMMA NoKeys == KeysOf(<< >>) = {} /\ Distinct(<< >>)
BY DEF KeysOf, Distinct

-----------------------------------------------------------------------------
(* The inductive invariant.                                                *)

Queued == KeysOf(events)
Open == KeysOf(dialogs)

(* Who is asked about has an owner; an outcome comes once, and after it    *)
(* nobody asks any more.                                                   *)
OutcomesOnce ==
  /\ \A k \in Keys : Adding(k) => owner[k] # None
  /\ Distinct(events) /\ Distinct(dialogs) /\ Queued \cap Open = {}
  /\ \A k \in Keys : ping[k] = "running" => k \notin Queued \cup Open

(* A registration is running, or done and not shown yet. *)
Pending == worker # None \/ Registered.key \in Queued

(* Unless one was left, a registration has its window in front of it.      *)
InFront ==
  /\ worker # None => Registered.key \notin Queued
  /\ ~left =>
       /\ Pending => window["register"] = "shown"
       /\ worker # None => worker.window
       /\ \A k \in Keys : Adding(k) => device = k /\ window["deviceRegister"] = "shown"

Inv == TypeOK /\ OneWindow /\ OutcomesOnce /\ InFront /\ InsideIffLoggedIn

-----------------------------------------------------------------------------
(* Windows.                                                                *)

LEMMA KindFacts ==
  /\ "received" \in Dashboards /\ Dashboards \subseteq Kinds
  /\ "login" \in Kinds /\ "register" \in Kinds /\ "deviceRegister" \in Kinds
  /\ "login" \notin Dashboards /\ "register" \notin Dashboards /\ "deviceRegister" \notin Dashboards
  /\ "login" # "register" /\ "login" # "deviceRegister" /\ "register" # "deviceRegister"
BY DashboardsAssumption DEF Kinds

(* Exactly w is shown. *)
Only(shown, w) == \A v \in Kinds : shown[v] = "shown" <=> v = w

Shapes == [Kinds -> {"none", "hidden", "shown"}]

LEMMA ShowShows ==
  ASSUME TypeOK, OneWindow, NEW w \in Kinds, NEW s, s = Show(w)
  PROVE  /\ s \in Shapes /\ Only(s, w)
         /\ \A v \in Kinds : v # w => (s[v] = "none" <=> window[v] = "none")
<1>1. window \in Shapes
  BY DEF TypeOK, Shapes
<1>2. CASE window[w] = "shown"
  BY <1>1, <1>2 DEF Show, Only, OneWindow, Shapes
<1>3. CASE window[w] # "shown"
  <2>1. s = [v \in Kinds |-> IF v = w THEN "shown" ELSE Hide(v)]
    BY <1>3 DEF Show
  <2>2. \A v \in Kinds : /\ Hide(v) \in {"none", "hidden"}
                         /\ Hide(v) = "none" <=> window[v] = "none"
    BY <1>1 DEF Hide, Shapes
  <2> QED  BY <2>1, <2>2 DEF Only, Shapes
<1> QED  BY <1>2, <1>3

LEMMA NothingShows ==
  ASSUME TypeOK, NEW s, s = Nothing
  PROVE  /\ s \in Shapes /\ \A v \in Kinds : s[v] # "shown"
         /\ \A v \in Kinds : s[v] = "none" <=> window[v] = "none"
<1>1. window \in Shapes
  BY DEF TypeOK, Shapes
<1>2. \A v \in Kinds : /\ Hide(v) \in {"none", "hidden"}
                       /\ Hide(v) = "none" <=> window[v] = "none"
  BY <1>1 DEF Hide, Shapes
<1> QED  BY <1>2 DEF Nothing, Shapes

LEMMA LoginShows ==
  /\ LoginOnly \in Shapes /\ Only(LoginOnly, "login") /\ LoginOnly["deviceRegister"] = "none"
BY KindFacts DEF LoginOnly, Only, Shapes

(* Two facts that OneWindow says in one. *)
LEMMA OnlyIsOne ==
  ASSUME NEW w \in Kinds, Only(window', w)
  PROVE  OneWindow' /\ (InsideShown' <=> w \in Dashboards) /\ window'[w] = "shown"
BY KindFacts DEF Only, OneWindow, InsideShown

LEMMA ShownIsOnly ==
  ASSUME OneWindow, NEW w \in Kinds, window[w] = "shown"
  PROVE  Only(window, w)
BY DEF OneWindow, Only

(* The keys of the outcomes on their way. *)
LEMMA OutcomeKeys ==
  ASSUME TypeOK
  PROVE  /\ \A k \in Keys : Adding(k) <=> ping[k] = "running" \/ k \in Queued \cup Open
         /\ (\E i \in DOMAIN events : events[i] = Registered) <=> Registered.key \in Queued
         /\ Registered.key \notin Keys /\ Open \subseteq Keys /\ Queued \subseteq Keys \cup {0}
<1>1. Registered.key = 0 /\ 0 \notin Keys /\ \A x \in Outcomes : x.key \in Keys
  BY DEF Registered, Outcomes, Keys
<1>2. /\ \A i \in DOMAIN events : events[i] \in Outcomes \cup {Registered}
      /\ \A i \in DOMAIN dialogs : dialogs[i] \in Outcomes
  BY DEF TypeOK
<1>3. \A i \in DOMAIN events : events[i].key = Registered.key => events[i] = Registered
  BY <1>1, <1>2
<1>4. (\E i \in DOMAIN events : events[i] = Registered) <=> Registered.key \in Queued
  BY <1>3 DEF Queued, KeysOf
<1>5. \A k \in Keys : Adding(k) <=> ping[k] = "running" \/ k \in Queued \cup Open
  BY DEF Adding, Queued, Open, KeysOf
<1> HIDE DEF Registered
<1>6. Open \subseteq Keys /\ Queued \subseteq Keys \cup {0}
  BY <1>1, <1>2 DEF Queued, Open, KeysOf
<1> QED  BY <1>1, <1>4, <1>5, <1>6

(* Who is in front of a window that is not one of a registration has none  *)
(* on its way.                                                             *)
LEMMA InFrontOf ==
  ASSUME Inv, ~left, NEW w \in Kinds, window[w] = "shown"
  PROVE  /\ w # "register" => ~Pending
         /\ w # "deviceRegister" => \A k \in Keys : ~Adding(k)
         /\ mishaps = 0 => (session # None <=> w \in Dashboards \/ Registered.key \in Queued)
<1>1. Only(window, w) /\ TypeOK
  BY ShownIsOnly DEF Inv
<1>2. InsideShown <=> w \in Dashboards
  BY <1>1, KindFacts DEF InsideShown, Only
<1> QED  BY <1>1, <1>2, KindFacts, OutcomeKeys DEF Only, Inv, InFront, InsideIffLoggedIn

(* The process ends, and what was on its way with it. *)
LEMMA EndsInv ==
  ASSUME Inv, ProcessEnds, mishaps' \in 0 .. MaxMishaps
  PROVE  Inv'
<1>1. /\ window' = LoginOnly /\ stage' = "name" /\ attempts' = 0
      /\ session' = None /\ device' = None
      /\ ping' = [k \in Keys |-> IF ping[k] = "running" THEN "ended" ELSE ping[k]]
      /\ events' = << >> /\ dialogs' = << >> /\ worker' = None /\ left' = FALSE
      /\ databases' = databases /\ accounts' = accounts /\ owner' = owner /\ approved' = approved
  BY DEF ProcessEnds, files
<1>2. TypeOK
  BY DEF Inv
<1>3. /\ ping' \in [Keys -> {"none", "running", "ended"}]
      /\ \A k \in Keys : ping'[k] # "running" /\ (ping'[k] = "none" <=> ping[k] = "none")
  BY <1>1, <1>2 DEF TypeOK
<1>4. TypeOK'
  <2>1. window' \in Shapes /\ window'["deviceRegister"] = "none"
    BY <1>1, LoginShows
  <2>2. attempts' \in 0 .. MaxAttempts
    BY <1>1, Bounds
  <2>3. events' \in Seq(Outcomes \cup {Registered}) /\ dialogs' \in Seq(Outcomes)
    BY <1>1
  <2> QED  BY <1>1, <1>2, <1>3, <2>1, <2>2, <2>3 DEF TypeOK, Shapes
<1>5. OneWindow' /\ ~InsideShown'
  BY <1>1, LoginShows, OnlyIsOne, KindFacts
<1>6. Queued' = {} /\ Open' = {} /\ Distinct(events)' /\ Distinct(dialogs)'
  BY <1>1, NoKeys DEF Queued, Open
<1>7. \A k \in Keys : ~Adding(k)'
  BY <1>1, <1>3 DEF Adding
<1>8. OutcomesOnce' /\ InFront'
  BY <1>1, <1>6, <1>7 DEF OutcomesOnce, InFront, Pending
<1>9. InsideIffLoggedIn'
  BY <1>1, <1>5 DEF InsideIffLoggedIn
<1> QED  BY <1>4, <1>5, <1>8, <1>9 DEF Inv

LEMMA InvInit == Init => Inv
<1> SUFFICES ASSUME Init PROVE Inv
  OBVIOUS
<1>1. /\ window = LoginOnly /\ session = None /\ device = None /\ owner = [k \in Keys |-> None]
      /\ ping = [k \in Keys |-> "none"] /\ events = << >> /\ dialogs = << >> /\ worker = None
  BY DEF Init
<1>2. TypeOK
  <2>1. window \in Shapes /\ window["deviceRegister"] = "none"
    BY <1>1, LoginShows
  <2>2. attempts \in 0 .. MaxAttempts /\ mishaps \in 0 .. MaxMishaps
    BY Bounds DEF Init
  <2>3. events \in Seq(Outcomes \cup {Registered}) /\ dialogs \in Seq(Outcomes)
    BY <1>1
  <2>4. owner \in [Keys -> Users \cup {None}] /\ ping \in [Keys -> {"none", "running", "ended"}]
        /\ \A k \in Keys : owner[k] = None /\ ping[k] = "none"
    BY <1>1
  <2> QED  BY <2>1, <2>2, <2>3, <2>4 DEF Init, TypeOK, Shapes
<1>3. OneWindow /\ ~InsideShown
  BY <1>1, LoginShows, KindFacts DEF Only, OneWindow, InsideShown
<1>4. Queued = {} /\ Open = {} /\ Distinct(events) /\ Distinct(dialogs)
  BY <1>1, NoKeys DEF Queued, Open
<1>5. \A k \in Keys : ~Adding(k)
  BY <1>1 DEF Adding
<1>6. OutcomesOnce /\ InFront
  BY <1>1, <1>4, <1>5 DEF OutcomesOnce, InFront, Pending
<1>7. InsideIffLoggedIn
  BY <1>1, <1>3 DEF InsideIffLoggedIn
<1> QED  BY <1>2, <1>3, <1>6, <1>7 DEF Inv

-----------------------------------------------------------------------------
(* The steps that leave what is on its way as it is.                       *)

LEMMA OutcomesKept ==
  ASSUME OutcomesOnce, events' = events, dialogs' = dialogs, owner' = owner, ping' = ping
  PROVE  /\ OutcomesOnce' /\ Queued' = Queued /\ Open' = Open
         /\ \A k \in Keys : Adding(k)' <=> Adding(k)
BY DEF OutcomesOnce, Queued, Open, Adding

(* InsideIffLoggedIn with the key of the event instead of the event. *)
LEMMA InsideKeys ==
  ASSUME TypeOK',
         mishaps' = 0 /\ ~left' => (session' # None <=> InsideShown' \/ Registered.key \in Queued')
  PROVE  InsideIffLoggedIn'
<1>1. (\E i \in DOMAIN events' : events'[i] = Registered) <=> Registered.key \in Queued'
  <2>1. Registered.key = 0 /\ 0 \notin Keys /\ \A x \in Outcomes : x.key \in Keys
    BY DEF Registered, Outcomes, Keys
  <2>2. \A i \in DOMAIN events' : events'[i] \in Outcomes \cup {Registered}
    BY DEF TypeOK
  <2> QED  BY <2>1, <2>2 DEF Queued, KeysOf
<1> QED  BY <1>1 DEF InsideIffLoggedIn

(* The user, in front of window v, is shown window w.                      *)
LEMMA MoveInv ==
  ASSUME Inv, NEW v \in Kinds, window[v] = "shown", NEW w \in Kinds, Only(window', w),
         TypeOK', events' = events, dialogs' = dialogs, owner' = owner, ping' = ping,
         device' = device, worker' = worker,
         ~left' => /\ ~left
                   /\ w # v /\ v = "register" => ~Pending
                   /\ w # v /\ v = "deviceRegister" => \A k \in Keys : ~Adding(k),
         mishaps' = 0 => /\ mishaps = 0
                         /\ \/ session' = session /\ (w \in Dashboards <=> v \in Dashboards)
                            \/ v = "login" /\ w \in Dashboards /\ session' # None
  PROVE  Inv'
<1>1. OneWindow' /\ (InsideShown' <=> w \in Dashboards) /\ window'[w] = "shown"
  BY OnlyIsOne
<1>2. OutcomesOnce' /\ Queued' = Queued /\ \A k \in Keys : Adding(k)' <=> Adding(k)
  BY OutcomesKept DEF Inv
<1>3. Pending' <=> Pending
  BY <1>2 DEF Pending
<1>4. InFront'
  <2>1. worker' # None => Registered.key \notin Queued'
    BY <1>2 DEF Inv, InFront
  <2>2. ASSUME ~left'
        PROVE  /\ Pending' => window'["register"] = "shown"
               /\ worker' # None => worker'.window
               /\ \A k \in Keys : Adding(k)' => device' = k /\ window'["deviceRegister"] = "shown"
    <3>1. ~left
      BY <2>2
    <3>2. /\ v # "register" => ~Pending
          /\ v # "deviceRegister" => \A k \in Keys : ~Adding(k)
      BY <3>1, InFrontOf
    <3>3. /\ worker # None => worker.window
          /\ \A k \in Keys : Adding(k) => device = k
      BY <3>1 DEF Inv, InFront
    <3> QED  BY <1>1, <1>2, <1>3, <2>2, <3>2, <3>3
  <2> QED  BY <2>1, <2>2 DEF InFront
<1>5. InsideIffLoggedIn'
  <2>1. ASSUME mishaps' = 0, ~left'
        PROVE  session' # None <=> InsideShown' \/ Registered.key \in Queued'
    <3>1. /\ session # None <=> v \in Dashboards \/ Registered.key \in Queued
          /\ v # "register" => ~Pending
      BY <2>1, InFrontOf
    <3> QED  BY <1>1, <1>2, <2>1, <3>1, KindFacts
  <2> QED  BY <2>1, InsideKeys
<1> QED  BY <1>1, <1>2, <1>4, <1>5 DEF Inv

(* Nothing that the invariant is about changes, but for a failure.         *)
LEMMA StayInv ==
  ASSUME Inv, TypeOK', window' = window, session' = session, device' = device, owner' = owner,
         ping' = ping, events' = events, dialogs' = dialogs, worker' = worker, left' = left,
         mishaps' = mishaps
  PROVE  Inv'
<1>1. OneWindow' /\ InFront' /\ InsideIffLoggedIn'
  BY DEF Inv, OneWindow, InFront, Pending, Queued, Adding, InsideIffLoggedIn, InsideShown
<1> QED  BY <1>1, OutcomesKept DEF Inv

LEMMA ContinueInv ==
  ASSUME Inv, NEW u \in Users, Continue(u)
  PROVE  Inv'
<1>1. /\ window["login"] = "shown" /\ TypeOK /\ OneWindow
      /\ UNCHANGED <<attempts, databases, accounts, session, device, owner, ping, approved, events,
                     dialogs, worker, left, mishaps>>
  BY DEF Continue, Usable, files, keys, Inv
<1>2. CASE stage' = "passphrase" /\ UNCHANGED window
  <2>1. TypeOK'
    BY <1>1, <1>2 DEF TypeOK
  <2> QED  BY <1>1, <1>2, <2>1, StayInv
<1>3. CASE window' = Show("register") /\ UNCHANGED stage
  <2>1. /\ window' \in Shapes /\ Only(window', "register")
        /\ window'["deviceRegister"] = "none" <=> window["deviceRegister"] = "none"
    BY <1>1, <1>3, ShowShows, KindFacts
  <2>2. TypeOK'
    BY <1>1, <1>3, <2>1 DEF TypeOK, Shapes
  <2> QED  BY <1>1, <2>1, <2>2, MoveInv, KindFacts
<1> QED  BY <1>2, <1>3 DEF Continue

LEMMA NoSecureMemoryInv ==
  ASSUME Inv, NoSecureMemory
  PROVE  Inv'
<1>1. /\ window["login"] = "shown" /\ TypeOK /\ OneWindow /\ Mishap
      /\ attempts < MaxAttempts /\ attempts' = attempts + 1
      /\ UNCHANGED <<window, stage, databases, accounts, session, device, owner, ping, approved,
                     events, dialogs, worker, left>>
  BY DEF NoSecureMemory, Usable, files, keys, Inv
<1>2. mishaps' \in 0 .. MaxMishaps /\ mishaps' # 0
  BY <1>1, Bounds DEF Mishap, TypeOK
<1>3. attempts' \in 0 .. MaxAttempts
  BY <1>1, Bounds DEF TypeOK
<1>4. TypeOK'
  BY <1>1, <1>2, <1>3 DEF TypeOK
<1>5. Only(window', "login")
  BY <1>1, ShownIsOnly, KindFacts DEF Only
<1> QED  BY <1>1, <1>2, <1>4, <1>5, MoveInv, KindFacts

LEMMA ExpireInv ==
  ASSUME Inv, Expire
  PROVE  Inv'
<1>1. /\ TypeOK /\ attempts' = 0
      /\ UNCHANGED <<window, stage, databases, accounts, session, device, owner, ping, approved,
                     events, dialogs, worker, left, mishaps>>
  BY DEF Expire, files, keys, Inv
<1>2. TypeOK'
  BY <1>1, Bounds DEF TypeOK
<1> QED  BY <1>1, <1>2, StayInv

LEMMA LoginInv ==
  ASSUME Inv, NEW u \in Users, Login(u)
  PROVE  Inv'
<1>1. /\ window["login"] = "shown" /\ TypeOK /\ OneWindow /\ attempts' = 0
      /\ UNCHANGED <<stage, databases, accounts, device, owner, ping, approved, events,
                     dialogs, worker, left>>
      /\ \/ UNCHANGED <<session, window, mishaps>>
         \/ /\ session' = u
            /\ \/ window' = Show("received") /\ UNCHANGED mishaps
               \/ window' = Nothing /\ Mishap
               \/ Mishap /\ UNCHANGED window
  BY DEF Login, Usable, files, keys, Inv
<1>2. attempts' \in 0 .. MaxAttempts
  BY <1>1, Bounds
<1>3. Mishap => mishaps' \in 0 .. MaxMishaps /\ mishaps' # 0
  BY <1>1, Bounds DEF Mishap, TypeOK
<1>4. CASE UNCHANGED <<session, window, mishaps>>
  <2>1. TypeOK'
    BY <1>1, <1>2, <1>4 DEF TypeOK
  <2> QED  BY <1>1, <1>4, <2>1, StayInv
<1>5. CASE session' = u /\ window' = Show("received") /\ UNCHANGED mishaps
  <2>1. /\ window' \in Shapes /\ Only(window', "received")
        /\ window'["deviceRegister"] = "none" <=> window["deviceRegister"] = "none"
    BY <1>1, <1>5, ShowShows, KindFacts
  <2>2. TypeOK'
    BY <1>1, <1>2, <1>5, <2>1 DEF TypeOK, Shapes
  <2>3. session' # None
    BY <1>5, NoneIsNone
  <2> QED  BY <1>1, <1>5, <2>1, <2>2, <2>3, MoveInv, KindFacts
<1>6. CASE session' = u /\ window' = Nothing /\ Mishap
  <2>1. /\ window' \in Shapes /\ \A v \in Kinds : window'[v] # "shown"
        /\ window'["deviceRegister"] = "none" <=> window["deviceRegister"] = "none"
    BY <1>1, <1>6, NothingShows, KindFacts
  <2>2. TypeOK'
    BY <1>1, <1>2, <1>3, <1>6, <2>1 DEF TypeOK, Shapes
  <2>3. OneWindow' /\ InsideIffLoggedIn'
    BY <1>3, <1>6, <2>1 DEF OneWindow, InsideIffLoggedIn
  <2>4. OutcomesOnce' /\ Queued' = Queued /\ \A k \in Keys : Adding(k)' <=> Adding(k)
    BY <1>1, OutcomesKept DEF Inv
  <2>5. ~left => ~Pending /\ \A k \in Keys : ~Adding(k)
    BY <1>1, InFrontOf, KindFacts
  <2>6. InFront'
    BY <1>1, <2>4, <2>5 DEF InFront, Pending, Inv
  <2> QED  BY <2>2, <2>3, <2>4, <2>6 DEF Inv
<1>7. CASE session' = u /\ Mishap /\ UNCHANGED window
  <2>1. TypeOK'
    BY <1>1, <1>2, <1>3, <1>7 DEF TypeOK
  <2>2. Only(window', "login")
    BY <1>1, <1>7, ShownIsOnly, KindFacts DEF Only
  <2> QED  BY <1>1, <1>3, <1>7, <2>1, <2>2, MoveInv, KindFacts
<1> QED  BY <1>1, <1>4, <1>5, <1>6, <1>7

LEMMA GoToRegisterInv ==
  ASSUME Inv, GoToRegister
  PROVE  Inv'
<1>1. /\ window["login"] = "shown" /\ TypeOK /\ OneWindow /\ window' = Show("register")
      /\ UNCHANGED <<stage, attempts, databases, accounts, session, device, owner, ping, approved,
                     events, dialogs, worker, left, mishaps>>
  BY DEF GoToRegister, Usable, login, files, keys, Inv
<1>2. /\ window' \in Shapes /\ Only(window', "register")
      /\ window'["deviceRegister"] = "none" <=> window["deviceRegister"] = "none"
  BY <1>1, ShowShows, KindFacts
<1>3. TypeOK'
  BY <1>1, <1>2 DEF TypeOK, Shapes
<1> QED  BY <1>1, <1>2, <1>3, MoveInv, KindFacts

LEMMA BackFromRegisterInv ==
  ASSUME Inv, BackFromRegister
  PROVE  Inv'
<1>1. /\ window["register"] = "shown" /\ TypeOK /\ OneWindow /\ window' = Show("login")
      /\ left' = (left \/ RegistrationPending)
      /\ UNCHANGED <<stage, attempts, databases, accounts, session, device, owner, ping, approved,
                     events, dialogs, worker, mishaps>>
  BY DEF BackFromRegister, Usable, login, files, keys, Inv
<1>2. /\ window' \in Shapes /\ Only(window', "login")
      /\ window'["deviceRegister"] = "none" <=> window["deviceRegister"] = "none"
  BY <1>1, ShowShows, KindFacts
<1>3. RegistrationPending <=> Pending
  BY <1>1, OutcomeKeys DEF RegistrationPending, Pending
<1>4. left' \in BOOLEAN
  BY <1>1, <1>3 DEF TypeOK, Pending
<1>5. TypeOK'
  BY <1>1, <1>2, <1>4 DEF TypeOK, Shapes
<1>6. ~left' => ~left /\ ~Pending
  BY <1>1, <1>3
<1> QED  BY <1>1, <1>2, <1>5, <1>6, MoveInv, KindFacts

LEMMA NavigateInv ==
  ASSUME Inv, NEW w \in Dashboards, Navigate(w)
  PROVE  Inv'
<1>1. PICK v \in Dashboards : window[v] = "shown"
  BY DEF Navigate, Usable
<1>2. v \in Kinds /\ w \in Kinds /\ TypeOK /\ OneWindow
  BY KindFacts DEF Inv
<1>3. ASSUME window' = Show(w),
             UNCHANGED <<stage, attempts, databases, accounts, session, device, owner, ping, approved,
                         events, dialogs, worker, left, mishaps>>
      PROVE  Inv'
  <2>1. /\ window' \in Shapes /\ Only(window', w)
        /\ window'["deviceRegister"] = "none" <=> window["deviceRegister"] = "none"
    BY <1>2, <1>3, ShowShows, KindFacts
  <2>2. TypeOK'
    BY <1>2, <1>3, <2>1 DEF TypeOK, Shapes
  <2> QED  BY <1>1, <1>2, <1>3, <2>1, <2>2, MoveInv, KindFacts
<1>4. ASSUME Mishap, ProcessEnds PROVE Inv'
  <2>1. mishaps' \in 0 .. MaxMishaps
    BY <1>2, <1>4, Bounds DEF Mishap, TypeOK
  <2> QED  BY <1>4, <2>1, EndsInv
<1> QED  BY <1>3, <1>4 DEF Navigate, login, files, keys

(* The back button of the registration of a device. *)
LEMMA BackFromDeviceInv ==
  ASSUME Inv, BackFromDevice
  PROVE  Inv'
<1>1. /\ window["deviceRegister"] = "shown" /\ dialogs = << >> /\ TypeOK /\ OneWindow
      /\ window' = Show("login")
      /\ left' = (left \/ ping[device] = "running" \/ events # << >>)
      /\ UNCHANGED <<stage, attempts, databases, accounts, session, device, owner, ping, approved,
                     events, dialogs, worker, mishaps>>
  BY DEF BackFromDevice, Usable, login, files, keys, Inv
<1>2. /\ window' \in Shapes /\ Only(window', "login")
      /\ window'["deviceRegister"] = "none" <=> window["deviceRegister"] = "none"
  BY <1>1, ShowShows, KindFacts
<1>3. TypeOK'
  BY <1>1, <1>2 DEF TypeOK, Shapes
<1>4. ASSUME ~left' PROVE ~left /\ \A k \in Keys : ~Adding(k)
  <2>1. ~left /\ ping[device] # "running" /\ Queued = {} /\ Open = {}
    BY <1>1, <1>4, NoKeys DEF Queued, Open
  <2>2. \A k \in Keys : Adding(k) => device = k
    BY <2>1 DEF Inv, InFront
  <2> QED  BY <1>1, <2>1, <2>2, OutcomeKeys
<1> QED  BY <1>1, <1>2, <1>3, <1>4, MoveInv, KindFacts

LEMMA ApproveInv ==
  ASSUME Inv, NEW k \in Keys, Approve(k)
  PROVE  Inv'
<1>1. /\ TypeOK /\ approved' = approved \cup {k}
      /\ UNCHANGED <<window, stage, attempts, databases, accounts, session, device, owner, ping,
                     events, dialogs, worker, left, mishaps>>
  BY DEF Approve, login, files, keys, Inv
<1>2. TypeOK'
  BY <1>1 DEF TypeOK
<1> QED  BY <1>1, <1>2, StayInv

LEMMA LogoutInv ==
  ASSUME Inv, Logout
  PROVE  Inv'
<1>1. PICK v \in Dashboards : window[v] = "shown" /\ dialogs = << >>
  BY DEF Logout, Usable
<1>2. /\ TypeOK /\ OneWindow /\ window' = LoginOnly /\ stage' = "name" /\ attempts' = 0
      /\ session' = None /\ device' = None /\ events' = << >> /\ dialogs' = << >>
      /\ worker' = (IF worker = None THEN None ELSE [worker EXCEPT !.window = FALSE])
      /\ UNCHANGED <<databases, accounts, owner, ping, approved, left, mishaps>>
  BY <1>1 DEF Logout, AfterLogout, AfterRestart, files, Inv
<1>3. v \in Kinds
  BY KindFacts
<1>4. worker' \in [user : Users, window : BOOLEAN] \cup {None} /\ (worker' = None <=> worker = None)
  <2>1. CASE worker = None
    BY <1>2, <2>1
  <2>2. CASE worker # None
    <3>1. worker \in [user : Users, window : BOOLEAN]
      BY <1>2, <2>2 DEF TypeOK
    <3>2. worker' = [worker EXCEPT !.window = FALSE]
      BY <1>2, <2>2
    <3>3. worker' \in [user : Users, window : BOOLEAN]
      BY <3>1, <3>2
    <3> QED  BY <2>2, <3>3, NoneIsNone
  <2> QED  BY <2>1, <2>2
<1>5. TypeOK'
  <2>1. window' \in Shapes /\ window'["deviceRegister"] = "none"
    BY <1>2, LoginShows
  <2>2. attempts' \in 0 .. MaxAttempts
    BY <1>2, Bounds
  <2>3. events' \in Seq(Outcomes \cup {Registered}) /\ dialogs' \in Seq(Outcomes)
    BY <1>2
  <2> QED  BY <1>2, <1>4, <2>1, <2>2, <2>3 DEF TypeOK, Shapes
<1>6. OneWindow' /\ ~InsideShown'
  BY <1>2, LoginShows, OnlyIsOne, KindFacts
<1>7. Queued' = {} /\ Open' = {} /\ Distinct(events)' /\ Distinct(dialogs)'
  BY <1>2, NoKeys DEF Queued, Open
<1>8. \A k \in Keys : Adding(k)' => ping[k] = "running"
  BY <1>2 DEF Adding
<1>9. \A k \in Keys : ping[k] = "running" => Adding(k)
  BY DEF Adding
<1>10. OutcomesOnce'
  BY <1>2, <1>7, <1>8, <1>9 DEF OutcomesOnce, Inv
<1>11. ~left => ~Pending /\ \A k \in Keys : ~Adding(k)
  BY <1>1, <1>3, InFrontOf, KindFacts
<1>12. InFront'
  BY <1>2, <1>4, <1>7, <1>8, <1>9, <1>11 DEF InFront, Pending
<1>13. InsideIffLoggedIn'
  BY <1>2, <1>5, <1>6, <1>7, InsideKeys
<1> QED  BY <1>5, <1>6, <1>10, <1>12, <1>13 DEF Inv

-----------------------------------------------------------------------------
(* Registrations.                                                          *)

LEMMA RegisterInv ==
  ASSUME Inv, NEW u \in Users, Register(u)
  PROVE  Inv'
<1>1. /\ window["register"] = "shown" /\ TypeOK /\ OneWindow /\ ~RegistrationPending
      /\ worker' = [user |-> u, window |-> TRUE]
      /\ UNCHANGED <<window, stage, attempts, databases, accounts, session, device, owner, ping,
                     approved, events, dialogs, left, mishaps>>
  BY DEF Register, Usable, login, files, keys, Inv
<1>2. worker' \in [user : Users, window : BOOLEAN] /\ worker'.window
  BY <1>1
<1>3. TypeOK'
  BY <1>1, <1>2 DEF TypeOK
<1>4. Registered.key \notin Queued
  BY <1>1, OutcomeKeys DEF RegistrationPending
<1>5. OutcomesOnce' /\ Queued' = Queued /\ \A k \in Keys : Adding(k)' <=> Adding(k)
  BY <1>1, OutcomesKept DEF Inv
<1>6. InFront'
  BY <1>1, <1>2, <1>4, <1>5 DEF Inv, InFront, Pending
<1>7. OneWindow' /\ InsideIffLoggedIn'
  BY <1>1 DEF OneWindow, InsideIffLoggedIn, InsideShown, Inv
<1> QED  BY <1>3, <1>5, <1>6, <1>7 DEF Inv

(* A registration ends, and may announce that. *)
LEMMA RegistrationEnds ==
  ASSUME Inv, worker # None, worker' = None,
         databases' \subseteq Users, accounts' \subseteq Users, session' \in Users \cup {None},
         mishaps' \in 0 .. MaxMishaps,
         UNCHANGED <<window, stage, attempts, device, owner, ping, approved, dialogs, left>>,
         \/ events' = events
         \/ events' = Append(events, Registered),
         mishaps' = 0 => /\ mishaps = 0
                         /\ ~left => (session' # None <=> session # None \/ events' # events)
  PROVE  Inv'
<1>1. TypeOK /\ OneWindow /\ OutcomesOnce /\ InFront /\ InsideIffLoggedIn
  BY DEF Inv
<1>2. events \in Seq(Outcomes \cup {Registered}) /\ events' \in Seq(Outcomes \cup {Registered})
  <2> DEFINE S == Outcomes \cup {Registered}
             e == Registered
  <2>1. events \in Seq(S) /\ e \in S /\ (events' = events \/ events' = Append(events, e))
    BY <1>1 DEF TypeOK
  <2> HIDE DEF S, e
  <2>2. events \in Seq(S) /\ events' \in Seq(S)
    BY <2>1
  <2> QED  BY <2>2 DEF S
<1>3. TypeOK'
  BY <1>1, <1>2 DEF TypeOK
<1>4. Registered.key \notin Queued /\ Registered.key \notin Keys /\ Open \subseteq Keys
  BY <1>1, OutcomeKeys DEF InFront
<1>5. /\ Distinct(events') /\ Queued' \subseteq Queued \cup {Registered.key} /\ Queued \subseteq Queued'
      /\ events' # events => Registered.key \in Queued'
      /\ events' = events => Registered.key \notin Queued'
  <2>1. Distinct(events)
    BY <1>1 DEF OutcomesOnce
  <2>2. CASE events' = events
    BY <1>4, <2>1, <2>2 DEF Queued
  <2>3. CASE events' = Append(events, Registered)
    <3>1. /\ KeysOf(events') = KeysOf(events) \cup {Registered.key}
          /\ Distinct(events')
      <4> DEFINE S == Outcomes \cup {Registered}
                 e == Registered
      <4>1. e \in S /\ events \in Seq(S) /\ events' = Append(events, e) /\ e.key \notin KeysOf(events)
        BY <1>2, <1>4, <2>3 DEF Queued
      <4> HIDE DEF S, e
      <4>2. KeysOf(events') = KeysOf(events) \cup {e.key} /\ Distinct(events')
        BY <2>1, <4>1, AppendKeys
      <4> QED  BY <4>2 DEF e
    <3> QED  BY <1>4, <2>1, <3>1 DEF Queued
  <2> QED  BY <2>2, <2>3
<1>6. \A k \in Keys : Adding(k)' <=> Adding(k)
  <2>1. \A k \in Keys : Adding(k)' <=> ping'[k] = "running" \/ k \in Queued' \cup Open'
    BY DEF Adding, Queued, Open, KeysOf
  <2>2. \A k \in Keys : k \in Queued' <=> k \in Queued
    BY <1>4, <1>5
  <2> QED  BY <1>1, <2>1, <2>2, OutcomeKeys DEF Open
<1>7. OutcomesOnce'
  BY <1>1, <1>4, <1>5, <1>6 DEF OutcomesOnce, Open
<1>8. InFront'
  <2>1. ~left => window["register"] = "shown"
    BY <1>1 DEF InFront, Pending
  <2> QED  BY <1>1, <1>6, <2>1 DEF InFront
<1>9. OneWindow'
  BY <1>1 DEF OneWindow
<1>10. InsideIffLoggedIn'
  <2>1. ASSUME mishaps' = 0, ~left'
        PROVE  session' # None <=> InsideShown' \/ Registered.key \in Queued'
    <3>1. window["register"] = "shown"
      BY <1>1, <2>1 DEF InFront, Pending
    <3>2. session = None
      BY <1>4, <2>1, <3>1, InFrontOf, KindFacts
    <3>3. ~InsideShown'
      BY <1>1, <3>1, ShownIsOnly, KindFacts DEF InsideShown, Only
    <3> QED  BY <1>5, <2>1, <3>2, <3>3
  <2> QED  BY <1>3, <2>1, InsideKeys
<1> QED  BY <1>3, <1>7, <1>8, <1>9, <1>10 DEF Inv

LEMMA RegistrationSucceedsInv ==
  ASSUME Inv, RegistrationSucceeds
  PROVE  Inv'
<1>1. /\ worker # None /\ accounts' = accounts \cup {worker.user}
      /\ databases' \in {databases, databases \cup {worker.user}}
      /\ session' = worker.user /\ worker' = None
      /\ events' = (IF worker.window THEN Append(events, Registered) ELSE events)
      /\ UNCHANGED <<window, stage, attempts, device, owner, ping, approved, dialogs, left, mishaps>>
  BY DEF RegistrationSucceeds, MayMakeDatabase, login, keys
<1>2. TypeOK /\ worker.user \in Users /\ worker.window \in BOOLEAN
  <2>1. TypeOK
    BY DEF Inv
  <2>2. worker \in [user : Users, window : BOOLEAN]
    BY <1>1, <2>1 DEF TypeOK
  <2> QED  BY <2>1, <2>2
<1>3. session' # None
  BY <1>1, <1>2, NoneIsNone
<1>4. events' = events \/ events' = Append(events, Registered)
  BY <1>1, <1>2
<1>5. ~left => events' # events
  <2>1. ~left => worker.window
    BY <1>1 DEF Inv, InFront
  <2>2. Len(Append(events, Registered)) = Len(events) + 1 /\ Len(events) \in Nat
    <3>1. events \in Seq(Outcomes \cup {Registered})
      BY <1>2 DEF TypeOK
    <3> HIDE DEF Registered
    <3> QED  BY <3>1
  <2>3. Append(events, Registered) # events
    <3> HIDE DEF Registered
    <3> QED  BY <2>2
  <2> QED  BY <1>1, <2>1, <2>3
<1>6. databases' \subseteq Users /\ accounts' \subseteq Users /\ mishaps' \in 0 .. MaxMishaps
  BY <1>1, <1>2 DEF TypeOK
<1> HIDE DEF Registered
<1> QED  BY <1>1, <1>2, <1>3, <1>4, <1>5, <1>6, RegistrationEnds

LEMMA RegistrationFailsInv ==
  ASSUME Inv, RegistrationFails
  PROVE  Inv'
<1>1. /\ worker # None /\ worker' = None /\ events' = events
      /\ \/ UNCHANGED <<session, mishaps>>
         \/ Mishap /\ session' \in {session, worker.user}
      /\ databases' \in {databases, databases \cup {worker.user}}
      /\ UNCHANGED <<window, stage, attempts, accounts, device, owner, ping, approved, dialogs, left>>
  BY DEF RegistrationFails, MayMakeDatabase, login, keys
<1>2. TypeOK /\ worker.user \in Users
  <2>1. TypeOK
    BY DEF Inv
  <2>2. worker \in [user : Users, window : BOOLEAN]
    BY <1>1, <2>1 DEF TypeOK
  <2> QED  BY <2>1, <2>2
<1>3. Mishap => mishaps' \in 0 .. MaxMishaps /\ mishaps' # 0
  BY <1>2, Bounds DEF Mishap, TypeOK
<1>4. databases' \subseteq Users /\ accounts' \subseteq Users /\ mishaps' \in 0 .. MaxMishaps
  BY <1>1, <1>2, <1>3 DEF TypeOK
<1>5. session' \in Users \cup {None}
  BY <1>1, <1>2 DEF TypeOK
<1> QED  BY <1>1, <1>3, <1>4, <1>5, RegistrationEnds

-----------------------------------------------------------------------------
(* Registrations of devices.                                               *)

LEMMA ContinueWithDeviceInv ==
  ASSUME Inv, NEW u \in Users, ContinueWithDevice(u)
  PROVE  Inv'
<1>1. /\ window["login"] = "shown" /\ TypeOK /\ OneWindow /\ OutcomesOnce
      /\ window' = Show("deviceRegister")
      /\ UNCHANGED <<stage, attempts, databases, accounts, session, approved, events, dialogs,
                     worker, left, mishaps>>
  BY DEF ContinueWithDevice, Usable, login, files, Inv
<1>2. window' \in Shapes /\ Only(window', "deviceRegister")
  BY <1>1, ShowShows, KindFacts
<1>3. ASSUME window["deviceRegister"] # "none", UNCHANGED keys PROVE Inv'
  <2>1. UNCHANGED <<device, owner, ping>>
    BY <1>3 DEF keys
  <2>2. device # None /\ window'["deviceRegister"] = "shown"
    BY <1>1, <1>2, <1>3, KindFacts DEF TypeOK, Only
  <2>3. TypeOK'
    BY <1>1, <1>2, <2>1, <2>2 DEF TypeOK, Shapes
  <2> QED  BY <1>1, <1>2, <2>1, <2>3, MoveInv, KindFacts
<1>4. ASSUME NEW k \in NewKey, device' = k, owner' = [owner EXCEPT ![k] = u],
             ping' = [ping EXCEPT ![k] = "running"]
      PROVE  Inv'
  <2>1. k \in Keys /\ ping[k] = "none" /\ u # None /\ k # None
    BY NoneIsNone DEF NewKey, Keys
  <2>2. owner[k] = None /\ ~Adding(k)
    BY <1>1, <2>1 DEF TypeOK, OutcomesOnce
  <2>3. k \notin Queued \cup Open
    BY <1>1, <2>1, <2>2, OutcomeKeys
  <2>4. OneWindow' /\ ~InsideShown' /\ window'["deviceRegister"] = "shown"
    BY <1>2, OnlyIsOne, KindFacts
  <2>5. /\ owner' \in [Keys -> Users \cup {None}] /\ ping' \in [Keys -> {"none", "running", "ended"}]
        /\ owner'[k] = u /\ ping'[k] = "running"
        /\ \A j \in Keys : j # k => owner'[j] = owner[j] /\ ping'[j] = ping[j]
    BY <1>1, <1>4, <2>1 DEF TypeOK
  <2>6. TypeOK'
    BY <1>1, <1>2, <1>4, <2>1, <2>4, <2>5 DEF TypeOK, Shapes
  <2>7. Queued' = Queued /\ Open' = Open
    BY <1>1 DEF Queued, Open
  <2>8. \A j \in Keys : Adding(j)' => j = k \/ Adding(j)
    BY <1>1, <2>5 DEF Adding
  <2>9. OutcomesOnce'
    BY <1>1, <2>1, <2>3, <2>5, <2>7, <2>8 DEF OutcomesOnce
  <2>10. ~left => ~Pending /\ \A j \in Keys : ~Adding(j)
    BY <1>1, InFrontOf, KindFacts
  <2>11. InFront'
    BY <1>1, <1>4, <2>4, <2>7, <2>8, <2>10 DEF InFront, Pending, Inv
  <2>12. InsideIffLoggedIn'
    <3>1. ASSUME mishaps' = 0, ~left'
          PROVE  session' # None <=> InsideShown' \/ Registered.key \in Queued'
      <4>1. session # None <=> Registered.key \in Queued
        BY <1>1, <3>1, InFrontOf, KindFacts
      <4> QED  BY <1>1, <2>4, <2>7, <4>1
    <3> QED  BY <2>6, <3>1, InsideKeys
  <2> QED  BY <2>4, <2>6, <2>9, <2>11, <2>12 DEF Inv
<1> QED  BY <1>3, <1>4 DEF ContinueWithDevice

(* The thread that asks for key k ends, and may say why. *)
LEMMA PingEnds ==
  ASSUME Inv, NEW k \in Keys, ping[k] = "running", ping' = [ping EXCEPT ![k] = "ended"],
         NEW e \in Outcomes, e.key = k, events' = Append(events, e) \/ events' = events,
         UNCHANGED <<window, stage, attempts, databases, accounts, session, device, owner,
                     approved, dialogs, worker, left, mishaps>>
  PROVE  Inv'
<1>1. TypeOK /\ OneWindow /\ OutcomesOnce /\ InFront /\ InsideIffLoggedIn
  BY DEF Inv
<1>2. /\ Distinct(events) /\ k \notin Queued \cup Open /\ Registered.key # k
  BY <1>1, OutcomeKeys DEF OutcomesOnce
<1>3. /\ events' \in Seq(Outcomes \cup {Registered}) /\ Distinct(events')
      /\ Queued \subseteq Queued' /\ Queued' \subseteq Queued \cup {k}
  <2> DEFINE S == Outcomes \cup {Registered}
  <2>1. e \in S /\ events \in Seq(S)
    BY <1>1 DEF TypeOK
  <2> HIDE DEF S
  <2>2. CASE events' = Append(events, e)
    <3>1. e.key \notin KeysOf(events)
      BY <1>2 DEF Queued
    <3>2. KeysOf(events') = KeysOf(events) \cup {e.key} /\ Distinct(events') /\ events' \in Seq(S)
      BY <1>2, <2>1, <2>2, <3>1, AppendKeys
    <3> QED  BY <3>2 DEF Queued, S
  <2>3. CASE events' = events
    BY <1>2, <2>1, <2>3 DEF Queued, S
  <2> QED  BY <2>2, <2>3
<1>4. /\ ping' \in [Keys -> {"none", "running", "ended"}] /\ ping'[k] = "ended"
      /\ \A j \in Keys : j # k => ping'[j] = ping[j]
  BY <1>1 DEF TypeOK
<1>5. TypeOK'
  BY <1>1, <1>3, <1>4 DEF TypeOK
<1>6. Adding(k) /\ \A j \in Keys : Adding(j)' => Adding(j)
  <2>1. \A j \in Keys : Adding(j)' <=> ping'[j] = "running" \/ j \in Queued' \cup Open'
    BY DEF Adding, Queued, Open, KeysOf
  <2>2. Open' = Open
    BY DEF Open
  <2> QED  BY <1>1, <1>3, <1>4, <2>1, <2>2, OutcomeKeys
<1>7. Open' = Open /\ Distinct(dialogs')
  BY <1>1 DEF Open, OutcomesOnce
<1>8. OutcomesOnce'
  BY <1>1, <1>2, <1>3, <1>4, <1>6, <1>7 DEF OutcomesOnce
<1>9. Registered.key \in Queued' <=> Registered.key \in Queued
  BY <1>2, <1>3
<1>10. InFront'
  BY <1>1, <1>6, <1>9 DEF InFront, Pending
<1>11. OneWindow'
  BY <1>1 DEF OneWindow
<1>12. InsideIffLoggedIn'
  <2>1. (\E i \in DOMAIN events : events[i] = Registered) <=> Registered.key \in Queued
    BY <1>1, OutcomeKeys
  <2>2. InsideShown' <=> InsideShown
    BY DEF InsideShown
  <2> QED  BY <1>1, <1>5, <1>9, <2>1, <2>2, InsideKeys DEF InsideIffLoggedIn
<1> QED  BY <1>5, <1>8, <1>10, <1>11, <1>12 DEF Inv

LEMMA PingAnsweredInv ==
  ASSUME Inv, NEW k \in Keys, PingAnswered(k)
  PROVE  Inv'
<1> DEFINE e == [event |-> "userRegistered", key |-> k]
<1>1. e \in Outcomes /\ e.key = k
  BY DEF Outcomes
<1>2. /\ ping[k] = "running" /\ ping' = [ping EXCEPT ![k] = "ended"]
      /\ events' = Append(events, e) \/ events' = events
      /\ UNCHANGED <<window, stage, attempts, databases, accounts, session, device, owner,
                     approved, dialogs, worker, left, mishaps>>
  BY DEF PingAnswered, Invoke, login, files
<1> HIDE DEF e
<1> QED  BY <1>1, <1>2, PingEnds

LEMMA PingTimesOutInv ==
  ASSUME Inv, NEW k \in Keys, PingTimesOut(k)
  PROVE  Inv'
<1> DEFINE e == [event |-> "pingTimeout", key |-> k]
<1>1. e \in Outcomes /\ e.key = k
  BY DEF Outcomes
<1>2. /\ ping[k] = "running" /\ ping' = [ping EXCEPT ![k] = "ended"]
      /\ events' = Append(events, e) \/ events' = events
      /\ UNCHANGED <<window, stage, attempts, databases, accounts, session, device, owner,
                     approved, dialogs, worker, left, mishaps>>
  BY DEF PingTimesOut, AfterTimeOut, Invoke, login, files
<1> HIDE DEF e
<1> QED  BY <1>1, <1>2, PingEnds

-----------------------------------------------------------------------------
(* The events of the GUI thread.                                           *)

LEMMA OpenDialogInv ==
  ASSUME Inv, OpenDialog
  PROVE  Inv'
<1> DEFINE e == Head(events)
<1>1. /\ TypeOK /\ OneWindow /\ OutcomesOnce /\ InFront /\ InsideIffLoggedIn
      /\ events # << >> /\ e # Registered /\ dialogs' = << e >> \o dialogs /\ events' = Tail(events)
      /\ UNCHANGED <<window, stage, attempts, databases, accounts, session, device, owner, ping,
                     approved, worker, left, mishaps>>
  BY DEF OpenDialog, login, files, keys, Inv
<1>2. /\ e \in Outcomes /\ e.key \in Queued /\ Queued' = Queued \ {e.key} /\ Distinct(events')
      /\ events' \in Seq(Outcomes \cup {Registered})
  <2> DEFINE S == Outcomes \cup {Registered}
  <2>1. events \in Seq(S) /\ Distinct(events)
    BY <1>1 DEF TypeOK, OutcomesOnce
  <2> HIDE DEF S
  <2>2. /\ e \in S /\ Tail(events) \in Seq(S) /\ e.key \in KeysOf(events)
        /\ KeysOf(Tail(events)) = KeysOf(events) \ {e.key} /\ Distinct(Tail(events))
    BY <1>1, <2>1, TailKeys
  <2> HIDE DEF e
  <2> QED  BY <1>1, <2>2 DEF Queued, S
<1> HIDE DEF e
<1>3. e.key \in Keys /\ e.key \notin Open /\ Registered.key # e.key
  <2>1. e.key \in Keys
    BY <1>2 DEF Outcomes
  <2> QED  BY <1>1, <1>2, <2>1, OutcomeKeys DEF OutcomesOnce
<1>4. dialogs' \in Seq(Outcomes) /\ Open' = Open \cup {e.key} /\ Distinct(dialogs')
  <2>1. dialogs \in Seq(Outcomes) /\ Distinct(dialogs) /\ e.key \notin KeysOf(dialogs)
    BY <1>1, <1>3 DEF TypeOK, OutcomesOnce, Open
  <2> QED  BY <1>1, <1>2, <2>1, PushKeys DEF Open
<1>5. TypeOK'
  BY <1>1, <1>2, <1>4 DEF TypeOK
<1>6. \A j \in Keys : Adding(j)' <=> Adding(j)
  <2>1. \A j \in Keys : Adding(j)' <=> ping'[j] = "running" \/ j \in Queued' \cup Open'
    BY DEF Adding, Queued, Open, KeysOf
  <2> QED  BY <1>1, <1>2, <1>4, <2>1, OutcomeKeys
<1>7. OutcomesOnce'
  <2>1. Queued \cap Open = {} /\ \A j \in Keys : ping[j] = "running" => j \notin Queued \cup Open
    BY <1>1 DEF OutcomesOnce
  <2>2. Queued' \cap Open' = {} /\ \A j \in Keys : ping[j] = "running" => j \notin Queued' \cup Open'
    BY <1>2, <1>3, <1>4, <2>1
  <2> QED  BY <1>1, <1>2, <1>4, <1>6, <2>2 DEF OutcomesOnce
<1>8. Registered.key \in Queued' <=> Registered.key \in Queued
  BY <1>2, <1>3
<1>9. InFront'
  BY <1>1, <1>6, <1>8 DEF InFront, Pending
<1>10. OneWindow'
  BY <1>1 DEF OneWindow
<1>11. InsideIffLoggedIn'
  <2>1. (\E i \in DOMAIN events : events[i] = Registered) <=> Registered.key \in Queued
    BY <1>1, OutcomeKeys
  <2>2. InsideShown' <=> InsideShown
    BY <1>1 DEF InsideShown
  <2> QED  BY <1>1, <1>5, <1>8, <2>1, <2>2, InsideKeys DEF InsideIffLoggedIn
<1> QED  BY <1>5, <1>7, <1>9, <1>10, <1>11 DEF Inv

LEMMA EnterAsRegisteredInv ==
  ASSUME Inv, EnterAsRegistered
  PROVE  Inv'
<1>1. TypeOK /\ OneWindow /\ OutcomesOnce /\ InFront /\ events # << >> /\ Head(events) = Registered
  BY DEF EnterAsRegistered, Inv
<1>2. ASSUME Mishap, ProcessEnds PROVE Inv'
  <2>1. mishaps' \in 0 .. MaxMishaps
    BY <1>1, <1>2, Bounds DEF Mishap, TypeOK
  <2> QED  BY <1>2, <2>1, EndsInv
<1>3. ASSUME window' = Show("received"), events' = Tail(events),
             UNCHANGED <<stage, attempts, databases, accounts, session, device, owner, ping,
                         approved, dialogs, worker, left, mishaps>>
      PROVE  Inv'
  <2> DEFINE c == Registered.key
  <2>1. /\ c \in Queued /\ Queued' = Queued \ {c} /\ Distinct(events')
        /\ events' \in Seq(Outcomes \cup {Registered})
    <3> DEFINE S == Outcomes \cup {Registered}
               e == Registered
    <3>1. events \in Seq(S) /\ Distinct(events) /\ Head(events) = e
      BY <1>1 DEF TypeOK, OutcomesOnce
    <3> HIDE DEF S, e
    <3>2. /\ Tail(events) \in Seq(S) /\ e.key \in KeysOf(events)
          /\ KeysOf(Tail(events)) = KeysOf(events) \ {e.key} /\ Distinct(Tail(events))
      BY <1>1, <3>1, TailKeys
    <3> QED  BY <1>3, <3>2 DEF Queued, S, e
  <2>2. c \notin Keys
    BY <1>1, OutcomeKeys
  <2> HIDE DEF c
  <2>3. worker = None /\ Pending
    BY <1>1, <2>1 DEF InFront, Pending, c
  <2>4. /\ window' \in Shapes /\ Only(window', "received")
        /\ window'["deviceRegister"] = "none" <=> window["deviceRegister"] = "none"
    BY <1>1, <1>3, ShowShows, KindFacts
  <2>5. TypeOK'
    BY <1>1, <1>3, <2>1, <2>4 DEF TypeOK, Shapes
  <2>6. OneWindow' /\ InsideShown'
    BY <2>4, OnlyIsOne, KindFacts
  <2>7. Open' = Open /\ \A j \in Keys : Adding(j)' <=> Adding(j)
    <3>1. \A j \in Keys : Adding(j)' <=> ping'[j] = "running" \/ j \in Queued' \cup Open'
      BY DEF Adding, Queued, Open, KeysOf
    <3>2. Open' = Open
      BY <1>3 DEF Open
    <3> QED  BY <1>1, <1>3, <2>1, <2>2, <3>1, <3>2, OutcomeKeys
  <2>8. OutcomesOnce'
    BY <1>1, <1>3, <2>1, <2>7 DEF OutcomesOnce
  <2>9. ~left => window["register"] = "shown"
    BY <1>1, <2>3 DEF InFront
  <2>10. ~left => \A j \in Keys : ~Adding(j)
    BY <2>9, InFrontOf, KindFacts
  <2>11. InFront'
    BY <1>3, <2>1, <2>3, <2>7, <2>10 DEF InFront, Pending, c
  <2>12. mishaps = 0 /\ ~left => session # None
    BY <2>1, <2>9, InFrontOf, KindFacts DEF c
  <2>13. InsideIffLoggedIn'
    BY <1>3, <2>5, <2>6, <2>12, InsideKeys
  <2> QED  BY <2>5, <2>6, <2>8, <2>11, <2>13 DEF Inv
<1> QED  BY <1>2, <1>3 DEF EnterAsRegistered, login, files, keys

(* The innermost dialog is closed: its outcome has been dealt with. *)
LEMMA DialogCloses ==
  ASSUME Inv, dialogs # << >>, dialogs' = Tail(dialogs), events' = events, owner' = owner, ping' = ping
  PROVE  /\ Head(dialogs).key \in Keys /\ Adding(Head(dialogs).key) /\ owner[Head(dialogs).key] \in Users
         /\ dialogs' \in Seq(Outcomes) /\ OutcomesOnce' /\ Queued' = Queued
         /\ \A j \in Keys : Adding(j)' => Adding(j) /\ j # Head(dialogs).key
<1> DEFINE e == Head(dialogs)
<1>1. TypeOK /\ OutcomesOnce
  BY DEF Inv
<1>2. /\ e \in Outcomes /\ e.key \in Open /\ Open' = Open \ {e.key} /\ Distinct(dialogs')
      /\ dialogs' \in Seq(Outcomes)
  BY <1>1, TailKeys DEF TypeOK, OutcomesOnce, Open
<1> HIDE DEF e
<1>3. Queued' = Queued /\ Distinct(events')
  BY <1>1 DEF Queued, OutcomesOnce
<1>4. e.key \in Keys /\ Adding(e.key)
  <2>1. e.key \in Keys
    BY <1>2 DEF Outcomes
  <2> QED  BY <1>1, <1>2, <2>1, OutcomeKeys
<1>5. owner[e.key] \in Users
  BY <1>1, <1>4 DEF OutcomesOnce, TypeOK
<1>6. \A j \in Keys : Adding(j)' => Adding(j) /\ j # e.key
  <2>1. \A j \in Keys : Adding(j)' <=> ping'[j] = "running" \/ j \in Queued' \cup Open'
    BY DEF Adding, Queued, Open, KeysOf
  <2>2. e.key \notin Queued /\ ping[e.key] # "running"
    BY <1>1, <1>2, <1>4 DEF OutcomesOnce
  <2> QED  BY <1>1, <1>2, <1>3, <2>1, <2>2, OutcomeKeys
<1>7. OutcomesOnce'
  BY <1>1, <1>2, <1>3, <1>6 DEF OutcomesOnce
<1> QED  BY <1>2, <1>3, <1>4, <1>5, <1>6, <1>7 DEF e

(* The window of a dialog that nobody left is in front until it is closed. *)
LEMMA AfterDialog ==
  ASSUME Inv, ~left, dialogs # << >>, dialogs' = Tail(dialogs), events' = events, owner' = owner,
         ping' = ping
  PROVE  /\ window["deviceRegister"] = "shown" /\ ~Pending
         /\ \A j \in Keys : ~Adding(j)'
<1>1. /\ Head(dialogs).key \in Keys /\ Adding(Head(dialogs).key)
      /\ \A j \in Keys : Adding(j)' => Adding(j) /\ j # Head(dialogs).key
  BY DialogCloses
<1>2. /\ window["deviceRegister"] = "shown" /\ \A j \in Keys : Adding(j) => device = j
  BY <1>1 DEF Inv, InFront
<1> QED  BY <1>1, <1>2, InFrontOf, KindFacts

(* What is shown when a dialog is closed: its window, nothing, or another. *)
LEMMA AfterDialogInv ==
  ASSUME Inv, dialogs # << >>, dialogs' = Tail(dialogs), events' = events, owner' = owner,
         ping' = ping, worker' = worker, left' = left, TypeOK', OneWindow',
         mishaps' = 0 /\ ~left => (session' # None <=> InsideShown')
  PROVE  Inv'
<1>1. OutcomesOnce' /\ Queued' = Queued
  BY DialogCloses
<1>2. ~left => ~Pending' /\ \A j \in Keys : ~Adding(j)'
  BY <1>1, AfterDialog DEF Pending
<1>3. InFront'
  BY <1>1, <1>2 DEF InFront, Inv
<1>4. InsideIffLoggedIn'
  BY <1>2, InsideKeys DEF Pending
<1> QED  BY <1>1, <1>3, <1>4 DEF Inv

LEMMA SetUpDeviceInv ==
  ASSUME Inv, SetUpDevice
  PROVE  Inv'
<1> DEFINE u == owner[Head(dialogs).key]
<1>1. /\ TypeOK /\ OneWindow /\ dialogs # << >> /\ dialogs' = Tail(dialogs)
      /\ databases' \in {databases, databases \cup {u}}
      /\ \/ session' = u /\ window' = Show("received") /\ UNCHANGED mishaps
         \/ session' = u /\ window' = Nothing /\ Mishap
         \/ session' \in {session, u} /\ Mishap /\ UNCHANGED window
      /\ UNCHANGED <<stage, attempts, accounts, device, owner, ping, approved, events, worker, left>>
  BY DEF SetUpDevice, Innermost, MayMakeDatabase, login, keys, Inv
<1>2. u \in Users /\ dialogs' \in Seq(Outcomes)
  BY <1>1, DialogCloses
<1> HIDE DEF u
<1>3. Mishap => mishaps' \in 0 .. MaxMishaps /\ mishaps' # 0
  BY <1>1, Bounds DEF Mishap, TypeOK
<1>4. databases' \subseteq Users /\ session' \in Users \cup {None} /\ mishaps' \in 0 .. MaxMishaps
  BY <1>1, <1>2, <1>3 DEF TypeOK
<1>5. CASE session' = u /\ window' = Show("received") /\ UNCHANGED mishaps
  <2>1. /\ window' \in Shapes /\ Only(window', "received")
        /\ window'["deviceRegister"] = "none" <=> window["deviceRegister"] = "none"
    BY <1>1, <1>5, ShowShows, KindFacts
  <2>2. TypeOK'
    BY <1>1, <1>2, <1>4, <1>5, <2>1 DEF TypeOK, Shapes
  <2>3. OneWindow' /\ InsideShown' /\ session' # None
    BY <1>2, <1>5, <2>1, OnlyIsOne, KindFacts, NoneIsNone
  <2> QED  BY <1>1, <2>2, <2>3, AfterDialogInv
<1>6. CASE session' = u /\ window' = Nothing /\ Mishap
  <2>1. /\ window' \in Shapes /\ \A v \in Kinds : window'[v] # "shown"
        /\ window'["deviceRegister"] = "none" <=> window["deviceRegister"] = "none"
    BY <1>1, <1>6, NothingShows, KindFacts
  <2>2. TypeOK'
    BY <1>1, <1>2, <1>4, <1>6, <2>1 DEF TypeOK, Shapes
  <2>3. OneWindow'
    BY <1>3, <1>6, <2>1 DEF OneWindow
  <2> QED  BY <1>1, <1>3, <1>6, <2>2, <2>3, AfterDialogInv
<1>7. CASE Mishap /\ UNCHANGED window
  <2>1. TypeOK'
    BY <1>1, <1>2, <1>4, <1>7 DEF TypeOK
  <2>2. OneWindow'
    BY <1>1, <1>3, <1>7 DEF OneWindow
  <2> QED  BY <1>1, <1>3, <1>7, <2>1, <2>2, AfterDialogInv
<1> QED  BY <1>1, <1>5, <1>6, <1>7

LEMMA CancelSetUpInv ==
  ASSUME Inv, CancelSetUp
  PROVE  Inv'
<1>1. /\ TypeOK /\ OneWindow /\ dialogs # << >> /\ dialogs' = Tail(dialogs)
      /\ UNCHANGED <<window, stage, attempts, databases, accounts, session, device, owner, ping,
                     approved, events, worker, left, mishaps>>
  BY DEF CancelSetUp, Innermost, login, files, keys, Inv
<1>2. dialogs' \in Seq(Outcomes)
  BY <1>1, DialogCloses
<1>3. TypeOK' /\ OneWindow'
  BY <1>1, <1>2 DEF TypeOK, OneWindow
<1>4. ASSUME mishaps' = 0, ~left PROVE session' # None <=> InsideShown'
  <2>1. window["deviceRegister"] = "shown" /\ ~Pending
    BY <1>1, <1>4, AfterDialog
  <2>2. session = None
    BY <1>1, <1>4, <2>1, InFrontOf, KindFacts DEF Pending
  <2>3. ~InsideShown
    BY <1>1, <2>1, ShownIsOnly, KindFacts DEF Only, InsideShown
  <2> QED  BY <1>1, <2>2, <2>3 DEF InsideShown
<1> QED  BY <1>1, <1>3, <1>4, AfterDialogInv

LEMMA ReturnToLoginInv ==
  ASSUME Inv, ReturnToLogin
  PROVE  Inv'
<1>1. /\ TypeOK /\ OneWindow /\ dialogs # << >> /\ dialogs' = Tail(dialogs) /\ window' = Show("login")
      /\ UNCHANGED <<stage, attempts, databases, accounts, session, device, owner, ping,
                     approved, events, worker, left, mishaps>>
  BY DEF ReturnToLogin, Innermost, login, files, keys, Inv
<1>2. dialogs' \in Seq(Outcomes)
  BY <1>1, DialogCloses
<1>3. /\ window' \in Shapes /\ Only(window', "login")
      /\ window'["deviceRegister"] = "none" <=> window["deviceRegister"] = "none"
  BY <1>1, ShowShows, KindFacts
<1>4. TypeOK'
  BY <1>1, <1>2, <1>3 DEF TypeOK, Shapes
<1>5. OneWindow' /\ ~InsideShown'
  BY <1>3, OnlyIsOne, KindFacts
<1>6. ASSUME mishaps' = 0, ~left PROVE session' = None
  <2>1. window["deviceRegister"] = "shown" /\ ~Pending
    BY <1>1, <1>6, AfterDialog
  <2> QED  BY <1>1, <1>6, <2>1, InFrontOf, KindFacts DEF Pending
<1> QED  BY <1>1, <1>4, <1>5, <1>6, AfterDialogInv

-----------------------------------------------------------------------------
LEMMA NextInv == Inv /\ [Next]_vars => Inv'
<1> SUFFICES ASSUME Inv, [Next]_vars PROVE Inv'
  OBVIOUS
<1>1. \A m : UNCHANGED mishaps => mishaps' \in 0 .. MaxMishaps
  BY DEF Inv, TypeOK
<1>2. CASE UNCHANGED vars
  <2>1. UNCHANGED <<window, stage, attempts, databases, accounts, session, device, owner, ping,
                    approved, events, dialogs, worker, left, mishaps>>
    BY <1>2 DEF vars, login, files, keys
  <2>2. TypeOK'
    BY <2>1 DEF Inv, TypeOK
  <2> QED  BY <2>1, <2>2, StayInv
<1>3. ASSUME NEW u \in Users, Continue(u) \/ ContinueWithDevice(u) \/ Login(u) \/ Register(u)
      PROVE  Inv'
  BY <1>3, ContinueInv, ContinueWithDeviceInv, LoginInv, RegisterInv
<1>4. CASE NoSecureMemory \/ Expire \/ GoToRegister \/ BackFromRegister
  BY <1>4, NoSecureMemoryInv, ExpireInv, GoToRegisterInv, BackFromRegisterInv
<1>5. CASE RegistrationSucceeds \/ RegistrationFails
  BY <1>5, RegistrationSucceedsInv, RegistrationFailsInv
<1>6. CASE RegistrationDangles \/ Quit
  BY <1>1, <1>6, EndsInv DEF RegistrationDangles, Quit
<1>7. ASSUME NEW k \in Keys, Approve(k) \/ PingAnswered(k) \/ PingTimesOut(k)
      PROVE  Inv'
  BY <1>7, ApproveInv, PingAnsweredInv, PingTimesOutInv
<1>8. ASSUME NEW k \in Keys, PingDangles(k) PROVE Inv'
  BY <1>1, <1>8, EndsInv DEF PingDangles
<1>9. CASE EnterAsRegistered \/ OpenDialog \/ SetUpDevice \/ CancelSetUp \/ ReturnToLogin
  BY <1>9, EnterAsRegisteredInv, OpenDialogInv, SetUpDeviceInv, CancelSetUpInv, ReturnToLoginInv
<1>10. CASE BackFromDevice
  BY <1>10, BackFromDeviceInv
<1>11. ASSUME NEW w \in Dashboards, Navigate(w) PROVE Inv'
  BY <1>11, NavigateInv
<1>12. CASE Logout
  BY <1>12, LogoutInv
<1>13. CASE LogoutThrows
  <2>1. mishaps' \in 0 .. MaxMishaps /\ ProcessEnds
    BY <1>13, Bounds DEF LogoutThrows, Mishap, Inv, TypeOK
  <2> QED  BY <2>1, EndsInv
<1> QED  BY <1>2, <1>3, <1>4, <1>5, <1>6, <1>7, <1>8, <1>9, <1>10, <1>11, <1>12, <1>13 DEF Next

(* The inductive invariant of the windows, the login and the threads.      *)
THEOREM Inductive == Spec => []Inv
BY InvInit, NextInv, PTL DEF Spec

(* The type invariant, for any users and any number of registrations.      *)
THEOREM TypesAlways == Spec => []TypeOK
<1>1. Inv => TypeOK
  BY DEF Inv
<1> QED  BY <1>1, Inductive, PTL

(* WindowManager never shows two windows, and one unless a handler failed. *)
THEOREM OneWindowAlways == Spec => []OneWindow
<1>1. Inv => OneWindow
  BY DEF Inv
<1> QED  BY <1>1, Inductive, PTL

(* Who sees a window behind the login is logged in, and the other way      *)
(* round, whatever order clicks, threads and nested event loops come in.   *)
THEOREM InsideIsLoggedIn == Spec => []InsideIffLoggedIn
<1>1. Inv => InsideIffLoggedIn
  BY DEF Inv
<1> QED  BY <1>1, Inductive, PTL

(* A registration of a device that nobody left finds its window and, if    *)
(* nothing failed, nobody logged in when the set-up writes to the files.   *)
THEOREM MachineIsFree == Spec => []AddingHasTheMachine
<1>1. Inv => AddingHasTheMachine
  <2> SUFFICES ASSUME Inv, NEW k \in Keys, Adding(k), ~left
               PROVE  /\ device = k /\ window["deviceRegister"] = "shown"
                      /\ mishaps = 0 => session = None
    BY DEF AddingHasTheMachine
  <2>1. device = k /\ window["deviceRegister"] = "shown"
    BY DEF Inv, InFront
  <2>2. mishaps = 0 => session = None
    BY <2>1, InFrontOf, KindFacts DEF Pending
  <2> QED  BY <2>1, <2>2
<1> QED  BY <1>1, Inductive, PTL
=============================================================================
