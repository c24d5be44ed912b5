----------------------------- MODULE VaultProofs -----------------------------
(***************************************************************************)
(* Theorems about Vault.                                                   *)
(*                                                                         *)
(* What a handler has left to do follows from its kind and from how many   *)
(* steps that is.  The types rest on this, and so does everything that is  *)
(* said about a handler in the middle of its work.                         *)
(***************************************************************************)
EXTENDS Vault, Integers, TLAPS

(* In a handler of kind k, a is the step with m steps after it.            *)
Place(k, m, a) ==
  \/ /\ k \in {"register", "setUp", "login"}
     /\ \/ m = 6 /\ a = "derive"
        \/ m = 5 /\ a = "initialize"
        \/ m = 4 /\ a = "loadKek"
        \/ m = 3 /\ a = "authenticate"
        \/ m = 2 /\ a = "loadRatchets"
        \/ m = 1 /\ a = "postKeys"
        \/ m = 0 /\ a = "enter"
  \/ /\ k = "setUp"
     /\ \/ m = 12 /\ a = "saveSalt"
        \/ m = 11 /\ a = "initialize"
        \/ m = 10 /\ a = "initSchema"
        \/ m = 9 /\ a = "setKek"
        \/ m = 8 /\ a = "saveKek"
        \/ m = 7 /\ a = "saveDevice"
  \/ /\ k = "register"
     /\ \/ m = 15 /\ a = "saveSalt"
        \/ m = 14 /\ a = "initialize"
        \/ m = 13 /\ a = "initSchema"
        \/ m = 12 /\ a = "setKek"
        \/ m = 11 /\ a = "saveKek"
        \/ m = 10 /\ a = "saveIdentity"
        \/ m = 9 /\ a = "postUser"
        \/ m = 8 /\ a = "saveDevice"
        \/ m = 7 /\ a = "postDevice"
  \/ /\ k = "change"
     /\ \/ m = 2 /\ a = "rekey"
        \/ m = 1 /\ a = "saveNewSalt"
        \/ m = 0 /\ a = "saveNewKek"
  \/ k = "logout" /\ m = 0 /\ a = "logout"

(* The steps s are what is left of a handler of kind k.                    *)
Rest(k, s) ==
  /\ s \in Seq(Steps) /\ Len(s) > 0
  /\ \A i \in 1 .. Len(s) : Place(k, Len(s) - i, s[i])

Kind(t) ==
  IF t = "worker" THEN "register"
  ELSE IF job[t].user = None THEN "logout"
  ELSE IF job[t].new # None THEN "change"
  ELSE IF job[t].n = 0 THEN "login" ELSE "setUp"

-----------------------------------------------------------------------------
(* What is left of a handler.                                              *)

LEMMA RestHead ==
  ASSUME NEW k, NEW s, Rest(k, s)
  PROVE  /\ s \in Seq(Steps) /\ s # << >> /\ Len(s) \in Nat /\ Len(s) > 0
         /\ Head(s) = s[1] /\ Head(s) \in Steps
         /\ Place(k, Len(s) - 1, Head(s))
<1>1. s \in Seq(Steps) /\ Len(s) \in Nat /\ Len(s) > 0
  BY DEF Rest
<1>2. s # << >> /\ Head(s) = s[1] /\ 1 \in 1 .. Len(s) /\ s[1] \in Steps
  BY <1>1
<1>3. Place(k, Len(s) - 1, s[1])
  BY <1>2 DEF Rest
<1> QED  BY <1>1, <1>2, <1>3

LEMMA MoreThanOne == ASSUME NEW n \in Nat, n # 1, n > 0 PROVE n > 1
OBVIOUS

LEMMA Longer ==
  ASSUME NEW s \in Seq(Steps), Len(s) # 1, Len(s) > 0
  PROVE  \E n \in Nat : n = Len(s) /\ n > 1
<1>1. Len(s) \in Nat
  OBVIOUS
<1> QED  BY <1>1, MoreThanOne, Zenon

LEMMA RestGoesOn ==
  ASSUME NEW k, NEW s, Rest(k, s), Len(s) # 1
  PROVE  /\ Rest(k, Tail(s)) /\ Tail(s) # << >> /\ Len(Tail(s)) = Len(s) - 1
         /\ Place(k, Len(s) - 2, Head(Tail(s)))
<1> DEFINE t == Tail(s)
<1>0. s \in Seq(Steps) /\ Len(s) > 0
  BY RestHead
<1>1. PICK n \in Nat : n = Len(s) /\ n > 1
  BY <1>0, Longer
<1>2. t \in Seq(Steps) /\ Len(t) = n - 1
  BY <1>0, <1>1
<1>3. \A i \in 1 .. n - 1 : t[i] = s[i + 1]
  BY <1>0, <1>1
<1>4. \A i \in 1 .. n : Place(k, n - i, s[i])
  BY <1>1 DEF Rest
<1> HIDE DEF t
<1>5. ASSUME NEW i \in 1 .. Len(t) PROVE Place(k, Len(t) - i, t[i])
  <2> DEFINE x == i + 1
  <2>1. i \in 1 .. n - 1 /\ x \in 1 .. n /\ n - x = Len(t) - i
    BY <1>1, <1>2
  <2>2. t[i] = s[x]
    BY <2>1, <1>3
  <2> HIDE DEF x
  <2>3. Place(k, n - x, s[x])
    BY <2>1, <1>4
  <2> QED  BY <2>1, <2>2, <2>3
<1>6. Rest(k, t)
  BY <1>1, <1>2, <1>5 DEF Rest
<1>7. t # << >> /\ Place(k, Len(t) - 1, Head(t)) /\ Len(t) - 1 = n - 2
  BY <1>1, <1>2, <1>6, RestHead
<1> QED  BY <1>1, <1>2, <1>6, <1>7 DEF t

(* s is c, which has m elements, and then d, which has n.                  *)
Long(c, m) == c \in Seq(Steps) /\ m \in Nat /\ Len(c) = m
Joined(s, c, m, d, n) ==
  /\ Long(s, m + n)
  /\ \A i \in 1 .. m : s[i] = c[i]
  /\ \A i \in 1 .. n : s[m + i] = d[i]

LEMMA Join ==
  ASSUME NEW c, NEW m, NEW d, NEW n, Long(c, m), Long(d, n)
  PROVE  Joined(c \o d, c, m, d, n)
BY DEF Long, Joined

Whole(k, s, n) == Rest(k, s) /\ Len(s) = n

LEMMA LoginRest ==
  /\ Whole("login", LoginUser, 7)
  /\ Whole("setUp", SetUpClient \o << "saveDevice" >> \o LoginUser, 13)
  /\ Whole("register", RegisterUser \o RegisterFirstDevice \o LoginUser, 16)
<1> DEFINE l == LoginUser
           c == SetUpClient
           d == << "saveDevice" >>
           e == << "saveIdentity", "postUser" >>
           f == RegisterFirstDevice
<1>1. /\ l \in Seq(Steps) /\ Len(l) = 7
      /\ l[1] = "derive" /\ l[2] = "initialize" /\ l[3] = "loadKek" /\ l[4] = "authenticate"
      /\ l[5] = "loadRatchets" /\ l[6] = "postKeys" /\ l[7] = "enter"
  BY DEF LoginUser, Steps
<1>2. /\ c \in Seq(Steps) /\ Len(c) = 5
      /\ c[1] = "saveSalt" /\ c[2] = "initialize" /\ c[3] = "initSchema" /\ c[4] = "setKek"
      /\ c[5] = "saveKek"
  BY DEF SetUpClient, Steps
<1>3. d \in Seq(Steps) /\ Len(d) = 1 /\ d[1] = "saveDevice"
  BY DEF Steps
<1>4. e \in Seq(Steps) /\ Len(e) = 2 /\ e[1] = "saveIdentity" /\ e[2] = "postUser"
  BY DEF Steps
<1>5. f \in Seq(Steps) /\ Len(f) = 2 /\ f[1] = "saveDevice" /\ f[2] = "postDevice"
  BY DEF RegisterFirstDevice, Steps
<1>6. RegisterUser = c \o e
  BY DEF RegisterUser
<1> HIDE DEF l, c, d, e, f
<1>7. Whole("login", l, 7)
  <2>1. \A i \in 1 .. 7 : i \in {1, 2, 3, 4, 5, 6, 7}
    OBVIOUS
  <2> QED  BY <2>1, <1>1 DEF Whole, Rest, Place
<1>8. Long(l, 7) /\ Long(c, 5) /\ Long(d, 1) /\ Long(e, 2) /\ Long(f, 2)
  BY <1>1, <1>2, <1>3, <1>4, <1>5 DEF Long
<1>9. Whole("setUp", (c \o d) \o l, 13)
  <2> DEFINE g == c \o d
             s == g \o l
  <2>1. Joined(g, c, 5, d, 1)
    BY <1>8, Join
  <2> HIDE DEF g
  <2>2. Long(g, 6) /\ (\A i \in 1 .. 5 : g[i] = c[i]) /\ g[6] = d[1]
    BY <2>1 DEF Joined
  <2>3. Joined(s, g, 6, l, 7)
    BY <2>2, <1>8, Join
  <2> HIDE DEF s
  <2>4. /\ s \in Seq(Steps) /\ Len(s) = 13 /\ (\A i \in 1 .. 6 : s[i] = g[i])
        /\ \A i \in 1 .. 7 : s[6 + i] = l[i]
    BY <2>3 DEF Joined, Long
  <2>5. ASSUME NEW i \in 1 .. 13 PROVE Place("setUp", 13 - i, s[i])
    <3>1. CASE i <= 6
      <4>1. i \in {1, 2, 3, 4, 5, 6}
        BY <3>1
      <4> QED  BY <4>1, <2>2, <2>4, <1>2, <1>3 DEF Place
    <3>2. CASE i > 6
      <4> DEFINE x == i - 6
      <4>1. x \in 1 .. 7 /\ 6 + x = i
        BY <3>2
      <4>2. s[i] = l[x]
        BY <4>1, <2>4
      <4>3. x \in {1, 2, 3, 4, 5, 6, 7} /\ 13 - i = 7 - x
        BY <4>1
      <4> HIDE DEF x
      <4> QED  BY <4>2, <4>3, <1>1 DEF Place
    <3> QED  BY <3>1, <3>2
  <2>6. Whole("setUp", s, 13)
    BY <2>4, <2>5 DEF Whole, Rest
  <2> QED  BY <2>6 DEF s, g
<1>10. Whole("register", ((c \o e) \o f) \o l, 16)
  <2> DEFINE g == c \o e
             h == g \o f
             s == h \o l
  <2>1. Joined(g, c, 5, e, 2)
    BY <1>8, Join
  <2> HIDE DEF g
  <2>2. Long(g, 7) /\ (\A i \in 1 .. 5 : g[i] = c[i]) /\ g[6] = e[1] /\ g[7] = e[2]
    BY <2>1 DEF Joined
  <2>3. Joined(h, g, 7, f, 2)
    BY <2>2, <1>8, Join
  <2> HIDE DEF h
  <2>4. Long(h, 9) /\ (\A i \in 1 .. 7 : h[i] = g[i]) /\ h[8] = f[1] /\ h[9] = f[2]
    BY <2>3 DEF Joined
  <2>5. Joined(s, h, 9, l, 7)
    BY <2>4, <1>8, Join
  <2> HIDE DEF s
  <2>6. /\ s \in Seq(Steps) /\ Len(s) = 16 /\ (\A i \in 1 .. 9 : s[i] = h[i])
        /\ \A i \in 1 .. 7 : s[9 + i] = l[i]
    BY <2>5 DEF Joined, Long
  <2>7. ASSUME NEW i \in 1 .. 16 PROVE Place("register", 16 - i, s[i])
    <3>1. CASE i <= 9
      <4>1. i \in {1, 2, 3, 4, 5, 6, 7, 8, 9}
        BY <3>1
      <4> QED  BY <4>1, <2>2, <2>4, <2>6, <1>2, <1>4, <1>5 DEF Place
    <3>2. CASE i > 9
      <4> DEFINE x == i - 9
      <4>1. x \in 1 .. 7 /\ 9 + x = i
        BY <3>2
      <4>2. s[i] = l[x]
        BY <4>1, <2>6
      <4>3. x \in {1, 2, 3, 4, 5, 6, 7} /\ 16 - i = 7 - x
        BY <4>1
      <4> HIDE DEF x
      <4> QED  BY <4>2, <4>3, <1>1 DEF Place
    <3> QED  BY <3>1, <3>2
  <2>8. Whole("register", s, 16)
    BY <2>6, <2>7 DEF Whole, Rest
  <2> QED  BY <2>8 DEF s, h, g
<1> QED  BY <1>6, <1>7, <1>9, <1>10 DEF l, c, d, e, f

LEMMA ChangeRest == Whole("change", Change, 3) /\ Whole("logout", << "logout" >>, 1)
<1>1. Whole("change", Change, 3)
  <2> DEFINE s == Change
  <2>1. s \in Seq(Steps) /\ Len(s) = 3 /\ s[1] = "rekey" /\ s[2] = "saveNewSalt" /\ s[3] = "saveNewKek"
    BY DEF Change, Steps
  <2>2. \A i \in 1 .. 3 : i \in {1, 2, 3}
    OBVIOUS
  <2> HIDE DEF s
  <2>3. Whole("change", s, 3)
    BY <2>1, <2>2 DEF Whole, Rest, Place
  <2> QED  BY <2>3 DEF s
<1>2. Whole("logout", << "logout" >>, 1)
  <2> DEFINE s == << "logout" >>
  <2>1. s \in Seq(Steps) /\ Len(s) = 1 /\ s[1] = "logout"
    BY DEF Steps
  <2> HIDE DEF s
  <2>2. Whole("logout", s, 1)
    BY <2>1 DEF Whole, Rest, Place
  <2> QED  BY <2>2 DEF s
<1> QED  BY <1>1, <1>2

-----------------------------------------------------------------------------
(* The handlers, as far as the types go.                                   *)

(* A handler of kind k with m steps left has its master key.               *)
Keyed(k, m) ==
  \/ k \in {"register", "setUp", "login"} /\ m < 7
  \/ k = "setUp" /\ m < 13
  \/ k = "register" /\ m < 16

Plan(t) ==
  /\ Rest(Kind(t), job[t].steps)
  /\ Kind(t) # "logout" => job[t].user \in Users /\ job[t].pass \in Passphrases
  /\ Kind(t) = "change" => job[t].new \in Passphrases
  /\ Keyed(Kind(t), Len(job[t].steps)) => job[t].key \in MasterKeys

Handler(t) == (Idle(t) <=> job[t].steps = << >>) /\ (~Idle(t) => Plan(t))
Handlers == job \in [Threads -> Jobs] /\ \A t \in Threads : Handler(t)

LEMMA NoJobIsJob ==
  /\ NoJob \in Jobs /\ NoJob.steps = << >> /\ NoJob.user = None /\ NoJob.pass = None
  /\ NoJob.new = None /\ NoJob.n = 0 /\ NoJob.key = None
BY Bounds DEF NoJob, Jobs, Numbers

LEMMA OneHandler ==
  ASSUME Handlers, NEW t \in Threads, NEW j \in Jobs, job' = [job EXCEPT ![t] = j], Handler(t)'
  PROVE  Handlers'
<1>1. job' \in [Threads -> Jobs] /\ job'[t] = j /\ \A r \in Threads : r # t => job'[r] = job[r]
  BY DEF Handlers
<1>2. ASSUME NEW r \in Threads, r # t PROVE Handler(r)'
  BY <1>1, <1>2 DEF Handlers, Handler, Idle, Plan, Kind
<1> QED  BY <1>1, <1>2 DEF Handlers

LEMMA ThrowHandlers ==
  ASSUME Handlers, NEW t \in Threads, Throw(t)
  PROVE  Handlers' /\ Idle(t)'
<1>1. job'[t] = NoJob
  BY DEF Throw, Handlers
<1>2. Handler(t)'
  BY <1>1, NoJobIsJob DEF Handler, Idle
<1> QED  BY <1>1, <1>2, NoJobIsJob, OneHandler DEF Throw, Idle

LEMMA StopHandlers ==
  ASSUME job' = [t \in Threads |-> NoJob]
  PROVE  Handlers'
<1>1. job' \in [Threads -> Jobs] /\ \A t \in Threads : job'[t] = NoJob
  BY NoJobIsJob
<1> QED  BY <1>1, NoJobIsJob DEF Handlers, Handler, Idle

LEMMA AtFacts ==
  ASSUME Handlers, NEW t \in Threads, NEW a, AtStep(t, a)
  PROVE  /\ ~Idle(t) /\ Plan(t) /\ job[t] \in Jobs /\ job[t].steps \in Seq(Steps)
         /\ Len(job[t].steps) \in Nat /\ Len(job[t].steps) > 0
         /\ Place(Kind(t), Len(job[t].steps) - 1, a)
         /\ a # "logout" => job[t].user \in Users /\ job[t].pass \in Passphrases
<1>1. ~Idle(t) /\ Plan(t) /\ job[t] \in Jobs /\ Head(job[t].steps) = a
  BY DEF Handlers, Handler, AtStep
<1>2. Rest(Kind(t), job[t].steps)
  BY <1>1 DEF Plan
<1>3. /\ job[t].steps \in Seq(Steps) /\ Len(job[t].steps) \in Nat /\ Len(job[t].steps) > 0
      /\ Place(Kind(t), Len(job[t].steps) - 1, a)
  BY <1>1, <1>2, RestHead
<1>4. a # "logout" => Kind(t) # "logout"
  BY <1>3 DEF Place
<1> QED  BY <1>1, <1>3, <1>4 DEF Plan

LEMMA SameKey ==
  ASSUME NEW r \in Jobs
  PROVE  [r EXCEPT !.steps = Tail(@)] = [r EXCEPT !.steps = Tail(@), !.key = r.key]
BY DEF Jobs

(* A step that is not the last, with which the handler may get its key.    *)
LEMMA GoOnWithKey ==
  ASSUME Handlers, NEW t \in Threads, ~Idle(t), Len(job[t].steps) # 1,
         NEW k \in MasterKeys \cup {None},
         job' = [job EXCEPT ![t].steps = Tail(@), ![t].key = k],
         Keyed(Kind(t), Len(job[t].steps) - 1) => k \in MasterKeys
  PROVE  /\ Handlers' /\ ~Idle(t)'
         /\ job'[t].user = job[t].user /\ job'[t].pass = job[t].pass /\ job'[t].new = job[t].new
         /\ job'[t].n = job[t].n /\ job'[t].key = k /\ job'[t].steps = Tail(job[t].steps)
         /\ Kind(t)' = Kind(t) /\ Len(job'[t].steps) = Len(job[t].steps) - 1
<1> DEFINE j == [job[t] EXCEPT !.steps = Tail(@), !.key = k]
<1>1. job[t] \in Jobs /\ Plan(t)
  BY DEF Handlers, Handler
<1>2. Rest(Kind(t), job[t].steps)
  BY <1>1 DEF Plan
<1>3. /\ Rest(Kind(t), Tail(job[t].steps)) /\ Tail(job[t].steps) # << >>
      /\ Len(Tail(job[t].steps)) = Len(job[t].steps) - 1 /\ Tail(job[t].steps) \in Seq(Steps)
  BY <1>2, RestGoesOn, RestHead
<1>3a. j = [job[t] EXCEPT !.steps = Tail(@), !.key = k]
  OBVIOUS
<1>4. /\ j \in Jobs /\ j.user = job[t].user /\ j.pass = job[t].pass /\ j.new = job[t].new
      /\ j.n = job[t].n /\ j.key = k /\ j.steps = Tail(job[t].steps)
  <2> HIDE DEF j
  <2> QED  BY <1>1, <1>3, <1>3a DEF Jobs
<1> HIDE DEF j
<1>5. job' = [job EXCEPT ![t] = j]
  <2>1. job \in [Threads -> Jobs]
    BY DEF Handlers
  <2> QED  BY <2>1 DEF j
<1>6. job'[t] = j
  BY <1>5 DEF Handlers
<1>7. /\ job'[t].user = job[t].user /\ job'[t].pass = job[t].pass /\ job'[t].new = job[t].new
      /\ job'[t].n = job[t].n /\ job'[t].key = k /\ job'[t].steps = Tail(job[t].steps)
  BY <1>4, <1>6
<1>8. Kind(t)' = Kind(t)
  BY <1>7 DEF Kind
<1>9. Plan(t)'
  <2>1. Rest(Kind(t), job[t].steps)'
    BY <1>3, <1>7, <1>8
  <2>2. Keyed(Kind(t), Len(job[t].steps))' => job'[t].key \in MasterKeys
    BY <1>3, <1>7, <1>8
  <2> QED  BY <2>1, <2>2, <1>1, <1>7, <1>8 DEF Plan
<1>10. ~Idle(t)'
  BY <1>3, <1>7, NoJobIsJob DEF Idle
<1>11. Handler(t)'
  BY <1>3, <1>7, <1>9, <1>10 DEF Handler
<1>12. Handlers'
  BY <1>4, <1>5, <1>11, OneHandler
<1> QED  BY <1>3, <1>7, <1>8, <1>10, <1>12

LEMMA GoOnHandlers ==
  ASSUME Handlers, NEW t \in Threads, ~Idle(t), GoOn(t),
         Len(job[t].steps) = 1 \/ Keyed(Kind(t), Len(job[t].steps)) \/ ~Keyed(Kind(t), Len(job[t].steps) - 1)
  PROVE  /\ Handlers' /\ (Idle(t)' <=> Len(job[t].steps) = 1)
         /\ ~Idle(t)' =>
              /\ job'[t].user = job[t].user /\ job'[t].pass = job[t].pass /\ job'[t].new = job[t].new
              /\ job'[t].n = job[t].n /\ job'[t].key = job[t].key /\ job'[t].steps = Tail(job[t].steps)
              /\ Kind(t)' = Kind(t) /\ Len(job'[t].steps) = Len(job[t].steps) - 1
<1>1. job[t] \in Jobs /\ Plan(t)
  BY DEF Handlers, Handler
<1>2. CASE Len(job[t].steps) = 1
  <2>1. Throw(t)
    BY <1>2 DEF GoOn, Throw, Handlers
  <2> QED  BY <1>2, <2>1, ThrowHandlers
<1>3. CASE Len(job[t].steps) # 1
  <2>1. job' = [job EXCEPT ![t].steps = Tail(@), ![t].key = job[t].key]
    <3> DEFINE b == Len(job[t].steps) = 1
               j == [job[t] EXCEPT !.steps = Tail(@)]
    <3>0. job \in [Threads -> Jobs]
      BY DEF Handlers
    <3>1. job' = [job EXCEPT ![t] = IF b THEN NoJob ELSE j]
      BY DEF GoOn
    <3>2. ~b
      BY <1>3
    <3>3. j = [job[t] EXCEPT !.steps = Tail(@), !.key = job[t].key]
      BY <1>1, SameKey
    <3> HIDE DEF b, j
    <3>4. job' = [job EXCEPT ![t] = j]
      BY <3>1, <3>2
    <3> QED  BY <3>0, <3>3, <3>4
  <2>2. job[t].key \in MasterKeys \cup {None}
    BY <1>1 DEF Jobs
  <2>3. Keyed(Kind(t), Len(job[t].steps) - 1) => job[t].key \in MasterKeys
    BY <1>1, <1>3 DEF Plan
  <2> QED  BY <1>3, <2>1, <2>2, <2>3, GoOnWithKey
<1> QED  BY <1>2, <1>3

LEMMA StartHandlers ==
  ASSUME Handlers, NEW t \in Threads, NEW u \in Users \cup {None}, NEW p \in Passphrases \cup {None},
         NEW new \in Passphrases \cup {None}, NEW n \in Numbers, NEW steps, NEW k,
         Start(t, u, p, new, n, steps), Rest(k, steps),
         k = IF t = "worker" THEN "register"
             ELSE IF u = None THEN "logout"
             ELSE IF new # None THEN "change"
             ELSE IF n = 0 THEN "login" ELSE "setUp",
         k # "logout" => u # None /\ p # None,
         ~Keyed(k, Len(steps))
  PROVE  /\ Handlers' /\ ~Idle(t)'
         /\ job'[t].user = u /\ job'[t].pass = p /\ job'[t].new = new /\ job'[t].n = n
         /\ job'[t].key = None /\ job'[t].steps = steps /\ Kind(t)' = k
<1> DEFINE j == [user |-> u, pass |-> p, new |-> new, n |-> n, key |-> None, steps |-> steps]
<1>1. steps \in Seq(Steps) /\ steps # << >>
  BY RestHead
<1>2. j \in Jobs
  BY <1>1 DEF Jobs
<1>3. job' = [job EXCEPT ![t] = j]
  BY DEF Start
<1>4. job'[t] = j
  BY <1>3 DEF Handlers
<1>5. /\ job'[t].user = u /\ job'[t].pass = p /\ job'[t].new = new /\ job'[t].n = n
      /\ job'[t].key = None /\ job'[t].steps = steps
  BY <1>4
<1>6. Kind(t)' = k
  BY <1>5 DEF Kind
<1>7. ~Idle(t)'
  BY <1>1, <1>5, NoJobIsJob DEF Idle
<1>8. Plan(t)'
  BY <1>5, <1>6 DEF Plan
<1>9. Handler(t)'
  BY <1>1, <1>5, <1>7, <1>8 DEF Handler
<1>10. Handlers'
  BY <1>2, <1>3, <1>9, OneHandler
<1> QED  BY <1>5, <1>6, <1>7, <1>10

-----------------------------------------------------------------------------
(* The types.                                                              *)

TypeInv == TypeOK /\ Handlers

(* The file of a user, and the row of a kind in it.                        *)
FileOK(f) == f \in Files \cup {None} /\ (f # None /\ f.key = None => f = EmptyFile)

OpenOK == open # None => open.user \in Users /\ open.key \in MasterKeys /\ db[open.user] \in Files

LEMMA TypesOf ==
  ASSUME TypeInv
  PROVE  /\ Handlers /\ OpenOK
         /\ db \in [Users -> Files \cup {None}] /\ \A u \in Users : FileOK(db[u])
<1>1. TypeOK
  BY DEF TypeInv
<1>2. db \in [Users -> Files \cup {None}]
  BY <1>1 DEF TypeOK
<1>3. \A u \in Users : FileOK(db[u])
  BY <1>1, <1>2 DEF TypeOK, FileOK
<1>4. open # None => open \in Handles /\ db[open.user] # None
  BY <1>1 DEF TypeOK
<1>5. OpenOK
  BY <1>2, <1>4 DEF OpenOK, Handles
<1> QED  BY <1>2, <1>3, <1>5 DEF TypeInv

LEMMA EmptyFileIsFile == FileOK(EmptyFile) /\ EmptyFile \in Files /\ EmptyFile # None
<1>1. EmptyFile \in Files
  BY DEF EmptyFile, Files
<1> QED  BY <1>1, NoneIsNone DEF FileOK

(* The types hold after a step on the files, the open one and the handlers. *)
LEMMA FileTypes ==
  ASSUME TypeInv, Handlers', NEW u \in Users, NEW f, db' = [db EXCEPT ![u] = f], FileOK(f), f # None,
         open' = open,
         UNCHANGED <<salt, kek, session, ratchets, inside, server, drawn, mishaps>>,
         told' \in [Users -> Passphrases \cup {None}]
  PROVE  TypeInv'
<1>1. TypeOK
  BY DEF TypeInv
<1>2. db' \in [Users -> Files \cup {None}]
  BY <1>1 DEF TypeOK, FileOK
<1>3. ASSUME NEW v \in Users, db'[v] # None, db'[v].key = None PROVE db'[v] = EmptyFile
  BY <1>1, <1>3 DEF TypeOK, FileOK
<1>4. open' # None => db'[open'.user] # None
  BY <1>1 DEF TypeOK, Handles
<1>5. \A t \in Threads : Idle(t)' <=> job'[t].steps = << >>
  BY DEF Handlers, Handler
<1>6. job' \in [Threads -> Jobs]
  BY DEF Handlers
<1>7. TypeOK'
  BY <1>1, <1>2, <1>3, <1>4, <1>5, <1>6 DEF TypeOK, server
<1> QED  BY <1>7 DEF TypeInv

LEMMA RestTypes ==
  ASSUME TypeInv, Handlers', UNCHANGED <<db, open>>,
         salt' \in [Users -> Numbers \cup {None}], kek' \in Numbers \cup {None},
         session' \in Tokens \cup {None}, ratchets' \subseteq Users, inside' \in BOOLEAN,
         identities' \in [Users -> Numbers \cup {None}], devices' \in [Users -> SUBSET Numbers],
         told' \in [Users -> Passphrases \cup {None}], drawn' \in Numbers, mishaps' \in 0 .. MaxMishaps
  PROVE  TypeInv'
<1>1. TypeOK
  BY DEF TypeInv
<1>2. \A t \in Threads : Idle(t)' <=> job'[t].steps = << >>
  BY DEF Handlers, Handler
<1>3. job' \in [Threads -> Jobs]
  BY DEF Handlers
<1>4. TypeOK'
  BY <1>1, <1>2, <1>3 DEF TypeOK
<1> QED  BY <1>4 DEF TypeInv

(* A file with a key stays one when a row is saved in it.                  *)
LEMMA RowTypes ==
  ASSUME NEW f \in Files, f.key # None, NEW g,
         \/ \E r \in KekRows : g = [f EXCEPT !.kek = r]
         \/ \E r \in KeyRows : g = [f EXCEPT !.identity = r] \/ g = [f EXCEPT !.device = r]
         \/ \E k \in MasterKeys : g = [f EXCEPT !.key = k]
  PROVE  FileOK(g) /\ g # None /\ g.key # None
<1>1. g \in Files /\ g.key # None
  BY NoneIsNone DEF Files
<1> QED  BY <1>1, NoneIsNone DEF FileOK

LEMMA KeyTypes ==
  ASSUME NEW f, FileOK(f), f # None, NEW k \in MasterKeys,
         NEW g, g = [f EXCEPT !.key = IF @ = None THEN k ELSE @]
  PROVE  FileOK(g) /\ g # None
<1>1. f \in Files
  BY DEF FileOK
<1>2. g \in Files /\ g.key # None
  BY <1>1, NoneIsNone DEF Files
<1> QED  BY <1>2, NoneIsNone DEF FileOK

LEMMA RestOf ==
  ASSUME TypeInv
  PROVE  /\ salt \in [Users -> Numbers \cup {None}] /\ kek \in Numbers \cup {None}
         /\ session \in Tokens \cup {None} /\ ratchets \subseteq Users /\ inside \in BOOLEAN
         /\ identities \in [Users -> Numbers \cup {None}] /\ devices \in [Users -> SUBSET Numbers]
         /\ told \in [Users -> Passphrases \cup {None}] /\ drawn \in Numbers
         /\ mishaps \in 0 .. MaxMishaps
BY DEF TypeInv, TypeOK

LEMMA DrawTypes == ASSUME TypeInv, Draw PROVE drawn + 1 \in Numbers /\ drawn' \in Numbers
BY Bounds, RestOf DEF Draw, Numbers

LEMMA MasterKeyTypes ==
  ASSUME NEW s \in Numbers, NEW p \in Passphrases
  PROVE  MasterKey(s, p) \in MasterKeys
BY DEF MasterKey, MasterKeys

LEMMA ProcessEndsTypes ==
  ASSUME TypeInv, ProcessEnds, mishaps' \in 0 .. MaxMishaps
  PROVE  TypeInv'
<1>1. Handlers'
  BY StopHandlers DEF ProcessEnds
<1>2. TypeOK
  BY DEF TypeInv
<1>3. \A t \in Threads : Idle(t)' <=> job'[t].steps = << >>
  BY <1>1 DEF Handlers, Handler
<1>4. job' \in [Threads -> Jobs]
  BY <1>1 DEF Handlers
<1>5. TypeOK'
  BY <1>2, <1>3, <1>4 DEF TypeOK, ProcessEnds, files, server
<1> QED  BY <1>1, <1>5 DEF TypeInv

LEMMA StartTypes ==
  ASSUME TypeInv, NEW u \in Users, NEW p \in Passphrases,
         StartRegister(u, p) \/ StartSetUpDevice(u, p) \/ StartLogin(u, p)
  PROVE  TypeInv'
<1>1. Handlers
  BY DEF TypeInv
<1>2. u # None /\ p # None /\ None \in Passphrases \cup {None} /\ "gui" # "worker"
  BY NoneIsNone
<1>3. "gui" \in Threads /\ "worker" \in Threads
  BY DEF Threads
<1>4. CASE StartRegister(u, p)
  <2> DEFINE r == RegisterUser \o RegisterFirstDevice \o LoginUser
  <2>1. Draw /\ Start("worker", u, p, None, drawn + 1, r)
    BY <1>4 DEF StartRegister
  <2>2. Rest("register", r) /\ Len(r) = 16
    BY LoginRest DEF Whole
  <2>3. ~Keyed("register", 16)
    BY DEF Keyed
  <2> HIDE DEF r
  <2>4. drawn + 1 \in Numbers /\ drawn' \in Numbers
    BY <2>1, DrawTypes
  <2>5. Handlers'
    BY <1>1, <1>2, <1>3, <2>1, <2>2, <2>3, <2>4, StartHandlers
  <2> QED  BY <1>4, <2>4, <2>5, RestOf, RestTypes DEF StartRegister, files, memory, server
<1>5. CASE StartSetUpDevice(u, p)
  <2> DEFINE r == SetUpClient \o << "saveDevice" >> \o LoginUser
  <2>1. Draw /\ Start("gui", u, p, None, drawn + 1, r)
    BY <1>5 DEF StartSetUpDevice
  <2>2. Rest("setUp", r) /\ Len(r) = 13
    BY LoginRest DEF Whole
  <2>3. ~Keyed("setUp", 13)
    BY DEF Keyed
  <2> HIDE DEF r
  <2>4. drawn + 1 \in Numbers /\ drawn' \in Numbers /\ drawn + 1 # 0
    BY <2>1, DrawTypes, RestOf DEF Numbers
  <2>5. Handlers'
    BY <1>1, <1>2, <1>3, <2>1, <2>2, <2>3, <2>4, StartHandlers
  <2>6. devices' \in [Users -> SUBSET Numbers] /\ told' \in [Users -> Passphrases \cup {None}]
    BY <1>5, <2>4, RestOf DEF StartSetUpDevice
  <2> QED  BY <1>5, <2>4, <2>5, <2>6, RestOf, RestTypes DEF StartSetUpDevice, files, memory
<1>6. CASE StartLogin(u, p)
  <2>1. Start("gui", u, p, None, 0, LoginUser)
    BY <1>6 DEF StartLogin
  <2>2. Rest("login", LoginUser) /\ Len(LoginUser) = 7
    BY LoginRest DEF Whole
  <2>3. ~Keyed("login", 7) /\ 0 \in Numbers
    BY Bounds DEF Keyed, Numbers
  <2>5. Handlers'
    BY <1>1, <1>2, <1>3, <2>1, <2>2, <2>3, StartHandlers
  <2> QED  BY <1>6, <2>5, RestOf, RestTypes DEF StartLogin, files, memory, server
<1> QED  BY <1>4, <1>5, <1>6

LEMMA StartInsideTypes ==
  ASSUME TypeInv, StartLogout \/ \E p, new \in Passphrases : StartChange(p, new)
  PROVE  TypeInv'
<1>1. Handlers
  BY DEF TypeInv
<1>2. "gui" # "worker" /\ "gui" \in Threads
  BY DEF Threads
<1>3. ASSUME NEW p \in Passphrases, NEW new \in Passphrases, StartChange(p, new) PROVE TypeInv'
  <2>1. Draw /\ Start("gui", open.user, p, new, drawn + 1, Change) /\ open # None
    BY <1>3 DEF StartChange
  <2>2. open.user \in Users /\ open.user # None /\ p # None /\ new # None
    BY <2>1, TypesOf, NoneIsNone DEF OpenOK
  <2>3. Rest("change", Change) /\ Len(Change) = 3 /\ ~Keyed("change", 3)
    BY ChangeRest DEF Whole, Keyed
  <2>4. drawn + 1 \in Numbers /\ drawn' \in Numbers
    BY <2>1, DrawTypes
  <2>5. Handlers'
    BY <1>1, <1>2, <2>1, <2>2, <2>3, <2>4, StartHandlers
  <2> QED  BY <1>3, <2>4, <2>5, RestOf, RestTypes DEF StartChange, files, memory, server
<1>4. CASE StartLogout
  <2>1. Start("gui", None, None, None, 0, << "logout" >>)
    BY <1>4 DEF StartLogout
  <2>2. Rest("logout", << "logout" >>) /\ Len(<< "logout" >>) = 1 /\ ~Keyed("logout", 1)
    BY ChangeRest DEF Whole, Keyed
  <2>3. 0 \in Numbers
    BY Bounds DEF Numbers
  <2>4. Handlers'
    <3> DEFINE l == << "logout" >>
    <3> HIDE DEF l
    <3>1. Start("gui", None, None, None, 0, l) /\ Rest("logout", l) /\ ~Keyed("logout", Len(l))
      BY <2>1, <2>2 DEF l
    <3> QED  BY <1>1, <1>2, <2>3, <3>1, StartHandlers
  <2> QED  BY <1>4, <2>4, RestOf, RestTypes DEF StartLogout, files, memory, server
<1> QED  BY <1>3, <1>4

LEMMA GoesOn ==
  ASSUME Handlers, NEW t \in Threads, NEW a, AtStep(t, a), a \notin {"saveSalt", "derive"},
         GoOn(t) \/ Throw(t)
  PROVE  Handlers'
<1>1. /\ ~Idle(t) /\ Len(job[t].steps) \in Nat /\ Len(job[t].steps) > 0
      /\ Place(Kind(t), Len(job[t].steps) - 1, a)
  BY AtFacts
<1>2. CASE Throw(t)
  BY <1>2, ThrowHandlers
<1>3. CASE GoOn(t)
  <2>1. Len(job[t].steps) = 1 \/ Keyed(Kind(t), Len(job[t].steps)) \/ ~Keyed(Kind(t), Len(job[t].steps) - 1)
    <3> DEFINE k == Kind(t)
               n == Len(job[t].steps)
    <3> HIDE DEF k, n
    <3>1. n \in Nat /\ n > 0 /\ Place(k, n - 1, a)
      BY <1>1 DEF k, n
    <3>2. n = 1 \/ Keyed(k, n) \/ ~Keyed(k, n - 1)
      BY <3>1 DEF Place, Keyed
    <3> QED  BY <3>2 DEF k, n
  <2> QED  BY <1>1, <1>3, <2>1, GoOnHandlers
<1> QED  BY <1>2, <1>3

LEMMA HasKey ==
  ASSUME Handlers, NEW t \in Threads, NEW a, AtStep(t, a),
         a \notin {"saveSalt", "derive", "rekey", "saveNewSalt", "saveNewKek", "logout"}
  PROVE  job[t].key \in MasterKeys /\ Kind(t) \in {"register", "setUp", "login"}
<1> DEFINE k == Kind(t)
           n == Len(job[t].steps)
<1>1. n \in Nat /\ n > 0 /\ Place(k, n - 1, a) /\ Plan(t)
  BY AtFacts
<1>2. Keyed(k, n) => job[t].key \in MasterKeys
  BY <1>1 DEF Plan
<1> HIDE DEF k, n
<1>3. Keyed(k, n) /\ k \in {"register", "setUp", "login"}
  BY <1>1 DEF Place, Keyed
<1> QED  BY <1>2, <1>3 DEF k

LEMMA HasNew ==
  ASSUME Handlers, NEW t \in Threads, NEW a, AtStep(t, a), a \in {"rekey", "saveNewSalt", "saveNewKek"}
  PROVE  job[t].new \in Passphrases /\ Kind(t) = "change"
<1> DEFINE k == Kind(t)
           n == Len(job[t].steps)
<1>1. n \in Nat /\ n > 0 /\ Place(k, n - 1, a) /\ Plan(t)
  BY AtFacts
<1>2. k = "change" => job[t].new \in Passphrases
  BY <1>1 DEF Plan
<1> HIDE DEF k, n
<1>3. k = "change"
  BY <1>1 DEF Place
<1> QED  BY <1>2, <1>3 DEF k

LEMMA SaltTypes ==
  ASSUME TypeInv, NEW t \in Threads, SaveSalt(t) \/ Derive(t)
  PROVE  TypeInv'
<1>1. Handlers
  BY DEF TypeInv
<1>2. ASSUME NEW a \in {"saveSalt", "derive"}, AtStep(t, a), NEW s \in Numbers,
             job' = [job EXCEPT ![t].steps = Tail(@), ![t].key = MasterKey(s, job[t].pass)]
      PROVE  Handlers'
  <2>1. ~Idle(t) /\ job[t].pass \in Passphrases
    BY <1>1, <1>2, AtFacts
  <2>2. Len(job[t].steps) # 1
    <3>1. Place(Kind(t), Len(job[t].steps) - 1, a)
      BY <1>1, <1>2, AtFacts
    <3> QED  BY <3>1 DEF Place
  <2>3. MasterKey(s, job[t].pass) \in MasterKeys
    BY <2>1, MasterKeyTypes
  <2> QED  BY <1>1, <1>2, <2>1, <2>2, <2>3, GoOnWithKey
<1>3. CASE SaveSalt(t)
  <2>1. AtStep(t, "saveSalt")
    BY <1>3 DEF SaveSalt
  <2>2. job[t].user \in Users /\ job[t].n \in Numbers
    BY <1>1, <2>1, AtFacts DEF Jobs
  <2>3. Handlers'
    BY <1>2, <1>3, <2>1, <2>2 DEF SaveSalt
  <2>4. salt' \in [Users -> Numbers \cup {None}]
    BY <1>3, <2>2, RestOf DEF SaveSalt
  <2> QED  BY <1>3, <2>3, <2>4, RestOf, RestTypes DEF SaveSalt, memory, server
<1>4. CASE Derive(t)
  <2>1. AtStep(t, "derive")
    BY <1>4 DEF Derive
  <2>2. Handlers'
    <3>1. CASE salt[job[t].user] = None /\ Throw(t)
      BY <1>1, <3>1, ThrowHandlers
    <3>2. CASE /\ salt[job[t].user] # None
               /\ job' = [job EXCEPT ![t].steps = Tail(@),
                                     ![t].key = MasterKey(salt[job[t].user], job[t].pass)]
      <4>1. salt[job[t].user] \in Numbers
        BY <1>1, <2>1, <3>2, AtFacts, RestOf
      <4> QED  BY <1>2, <2>1, <3>2, <4>1
    <3> QED  BY <1>4, <3>1, <3>2 DEF Derive
  <2> QED  BY <1>4, <2>2, RestOf, RestTypes DEF Derive, files, memory, server
<1> QED  BY <1>3, <1>4

LEMMA InitializeTypes ==
  ASSUME TypeInv, NEW t \in Threads, Initialize(t)
  PROVE  TypeInv'
<1> DEFINE u == job[t].user
           k == job[t].key
<1>1. Handlers /\ AtStep(t, "initialize") /\ (GoOn(t) \/ Throw(t))
  BY DEF TypeInv, Initialize
<1>2. u \in Users /\ k \in MasterKeys
  BY <1>1, AtFacts, HasKey
<1>3. Handlers'
  BY <1>1, GoesOn
<1>4. CASE UNCHANGED <<open, db>>
  BY <1>3, <1>4, RestOf, RestTypes DEF Initialize, server
<1>5. CASE /\ open' = [user |-> u, key |-> k]
           /\ db' = [db EXCEPT ![u] = AfterOpening(@)]
  <2>1. TypeOK
    BY DEF TypeInv
  <2>2. FileOK(AfterOpening(db[u])) /\ AfterOpening(db[u]) # None
    BY <1>2, TypesOf, EmptyFileIsFile DEF AfterOpening
  <2>3. /\ db' \in [Users -> Files \cup {None}] /\ db'[u] = AfterOpening(db[u])
        /\ \A v \in Users : v # u => db'[v] = db[v]
    BY <1>2, <1>5, <2>1, <2>2 DEF TypeOK, FileOK
  <2>4. ASSUME NEW v \in Users, db'[v] # None, db'[v].key = None PROVE db'[v] = EmptyFile
    BY <2>1, <2>2, <2>3, <2>4 DEF TypeOK, FileOK
  <2>5. open' \in Handles /\ db'[open'.user] # None
    BY <1>2, <1>5, <2>2, <2>3 DEF Handles
  <2>6. \A r \in Threads : Idle(r)' <=> job'[r].steps = << >>
    BY <1>3 DEF Handlers, Handler
  <2>7. job' \in [Threads -> Jobs]
    BY <1>3 DEF Handlers
  <2>8. TypeOK'
    BY <2>1, <2>3, <2>4, <2>5, <2>6, <2>7 DEF TypeOK, Initialize, server
  <2> QED  BY <1>3, <2>8 DEF TypeInv
<1> QED  BY <1>4, <1>5 DEF Initialize

(* A row saved in the open file.                                           *)
LEMMA SaveRowTypes ==
  ASSUME TypeInv, Handlers', NEW label \in {"kek", "identity", "device"}, NEW row,
         label = "kek" => row \in KekRows, label # "kek" => row \in KeyRows,
         \/ /\ open # None /\ db[open.user].key # None
            /\ db' = [db EXCEPT ![open.user][label] = row]
         \/ db' = db,
         UNCHANGED <<salt, memory, server, drawn, mishaps>>,
         told' \in [Users -> Passphrases \cup {None}]
  PROVE  TypeInv'
<1>1. CASE db' = db
  BY <1>1, RestOf, RestTypes DEF memory, server
<1>2. CASE /\ open # None /\ db[open.user].key # None
           /\ db' = [db EXCEPT ![open.user][label] = row]
  <2> DEFINE f == db[open.user]
             g == [f EXCEPT ![label] = row]
  <2>1. open.user \in Users /\ f \in Files /\ f.key # None
    BY <1>2, TypesOf DEF OpenOK
  <2>2. db' = [db EXCEPT ![open.user] = g]
    BY <1>2
  <2>3. \/ label = "kek" /\ g = [f EXCEPT !.kek = row]
        \/ label = "identity" /\ g = [f EXCEPT !.identity = row]
        \/ label = "device" /\ g = [f EXCEPT !.device = row]
    OBVIOUS
  <2> HIDE DEF f, g
  <2>4. FileOK(g) /\ g # None
    BY <2>1, <2>3, RowTypes
  <2> QED  BY <2>1, <2>2, <2>4, FileTypes DEF memory
<1> QED  BY <1>1, <1>2

LEMMA SavesTypes ==
  ASSUME TypeInv, NEW t \in Threads, SaveKek(t) \/ SaveIdentity(t) \/ SaveDevice(t) \/ SaveNewKek(t)
  PROVE  TypeInv'
<1>1. Handlers /\ told \in [Users -> Passphrases \cup {None}] /\ kek \in Numbers \cup {None}
  BY RestOf DEF TypeInv
<1>2. job[t] \in Jobs /\ job[t].n \in Numbers
  BY <1>1 DEF Handlers, Jobs
<1>3. CASE SaveKek(t)
  <2> DEFINE row == [kek |-> job[t].n, under |-> job[t].key]
  <2>1. AtStep(t, "saveKek") /\ SaveRow(t, "kek", row)
    BY <1>3 DEF SaveKek
  <2>2. row \in KekRows
    BY <1>1, <1>2, <2>1, HasKey DEF KekRows
  <2> HIDE DEF row
  <2>3. Handlers'
    BY <1>1, <2>1, GoesOn DEF SaveRow
  <2> QED  BY <1>1, <1>3, <2>1, <2>2, <2>3, SaveRowTypes DEF SaveKek, SaveRow
<1>4. CASE SaveIdentity(t)
  <2> DEFINE row == NewKeyPair(t)
  <2>1. /\ AtStep(t, "saveIdentity")
        /\ \/ kek # None /\ SaveRow(t, "identity", row)
           \/ kek = None /\ Throw(t) /\ UNCHANGED db
    BY <1>4, Zenon DEF SaveIdentity
  <2>2. kek # None => row \in KeyRows
    BY <1>1, <1>2 DEF KeyRows, NewKeyPair
  <2> HIDE DEF row
  <2>3. Handlers'
    BY <1>1, <2>1, GoesOn DEF SaveRow
  <2>4. CASE kek # None /\ SaveRow(t, "identity", row)
    BY <1>1, <1>4, <2>2, <2>3, <2>4, SaveRowTypes DEF SaveIdentity, SaveRow
  <2>5. CASE UNCHANGED db
    BY <1>4, <2>3, <2>5, RestOf, RestTypes DEF SaveIdentity, memory, server
  <2> QED  BY <2>1, <2>4, <2>5
<1>5. CASE SaveDevice(t)
  <2> DEFINE row == NewKeyPair(t)
  <2>1. /\ AtStep(t, "saveDevice")
        /\ \/ kek # None /\ SaveRow(t, "device", row)
           \/ kek = None /\ Throw(t) /\ UNCHANGED db
    BY <1>5, Zenon DEF SaveDevice
  <2>2. kek # None => row \in KeyRows
    BY <1>1, <1>2 DEF KeyRows, NewKeyPair
  <2> HIDE DEF row
  <2>3. Handlers'
    BY <1>1, <2>1, GoesOn DEF SaveRow
  <2>4. CASE kek # None /\ SaveRow(t, "device", row)
    BY <1>1, <1>5, <2>2, <2>3, <2>4, SaveRowTypes DEF SaveDevice, SaveRow
  <2>5. CASE UNCHANGED db
    BY <1>5, <2>3, <2>5, RestOf, RestTypes DEF SaveDevice, memory, server
  <2> QED  BY <2>1, <2>4, <2>5
<1>6. CASE SaveNewKek(t)
  <2> DEFINE row == [kek |-> kek, under |-> MasterKey(job[t].n, job[t].new)]
  <2>1. /\ AtStep(t, "saveNewKek")
        /\ \/ kek # None /\ SaveRow(t, "kek", row)
           \/ kek = None /\ Throw(t) /\ UNCHANGED db
    BY <1>6, Zenon DEF SaveNewKek
  <2>2. job[t].new \in Passphrases /\ job[t].user \in Users
    BY <1>1, <2>1, HasNew, AtFacts
  <2>3. kek # None => row \in KekRows
    BY <1>1, <1>2, <2>2, MasterKeyTypes DEF KekRows
  <2> HIDE DEF row
  <2>4. Handlers'
    BY <1>1, <2>1, GoesOn DEF SaveRow
  <2>5. told' \in [Users -> Passphrases \cup {None}]
    BY <1>1, <1>6, <2>2 DEF SaveNewKek
  <2>6. CASE kek # None /\ SaveRow(t, "kek", row)
    BY <1>1, <1>6, <2>3, <2>4, <2>5, <2>6, SaveRowTypes DEF SaveNewKek, SaveRow
  <2>7. CASE UNCHANGED db
    BY <1>6, <2>4, <2>5, <2>7, RestOf, RestTypes DEF SaveNewKek, memory, server
  <2> QED  BY <2>1, <2>6, <2>7
<1> QED  BY <1>3, <1>4, <1>5, <1>6

(* A key set in the open file.                                             *)
LEMMA KeyingTypes ==
  ASSUME TypeInv, NEW t \in Threads, InitSchema(t) \/ Rekey(t)
  PROVE  TypeInv'
<1>1. Handlers /\ told \in [Users -> Passphrases \cup {None}]
  BY RestOf DEF TypeInv
<1>2. job[t] \in Jobs /\ job[t].n \in Numbers
  BY <1>1 DEF Handlers, Jobs
<1>3. CASE InitSchema(t)
  <2>1. Handlers'
    BY <1>1, <1>3, GoesOn DEF InitSchema
  <2>2. CASE open # None /\ db' = [db EXCEPT ![open.user].key = IF @ = None THEN open.key ELSE @]
    <3> DEFINE f == db[open.user]
               g == [f EXCEPT !.key = IF @ = None THEN open.key ELSE @]
    <3>1. open.user \in Users /\ open.key \in MasterKeys /\ FileOK(f) /\ f # None
      BY <2>2, TypesOf, NoneIsNone DEF OpenOK
    <3>2. db' = [db EXCEPT ![open.user] = g]
      BY <2>2
    <3>3. g = [f EXCEPT !.key = IF @ = None THEN open.key ELSE @]
      OBVIOUS
    <3> HIDE DEF f, g
    <3>4. FileOK(g) /\ g # None
      BY <3>1, <3>3, KeyTypes
    <3> QED  BY <1>1, <1>3, <2>1, <3>1, <3>2, <3>4, FileTypes DEF InitSchema, memory
  <2>3. CASE UNCHANGED db
    BY <1>3, <2>1, <2>3, RestOf, RestTypes DEF InitSchema, memory, server
  <2> QED  BY <1>3, <2>2, <2>3 DEF InitSchema
<1>4. CASE Rekey(t)
  <2> DEFINE k == MasterKey(job[t].n, job[t].new)
  <2>1. Handlers' /\ AtStep(t, "rekey")
    BY <1>1, <1>4, GoesOn DEF Rekey
  <2>2. k \in MasterKeys
    BY <1>1, <1>2, <2>1, HasNew, MasterKeyTypes
  <2>3. CASE /\ open # None /\ db[open.user].key = MasterKey(salt[job[t].user], job[t].pass)
             /\ salt[job[t].user] # None
             /\ db' = [db EXCEPT ![open.user].key = k]
    <3> DEFINE f == db[open.user]
               g == [f EXCEPT !.key = k]
    <3>1. open.user \in Users /\ f \in Files
      BY <2>3, TypesOf DEF OpenOK
    <3>2. MasterKey(salt[job[t].user], job[t].pass) \in MasterKeys
      BY <1>1, <2>1, <2>3, AtFacts, RestOf, MasterKeyTypes
    <3>3. f.key # None
      BY <2>3, <3>2, NoneIsNone
    <3>4. db' = [db EXCEPT ![open.user] = g]
      BY <2>3
    <3>5. g = [f EXCEPT !.key = k]
      OBVIOUS
    <3> HIDE DEF f, g, k
    <3>6. FileOK(g) /\ g # None
      BY <2>2, <3>1, <3>3, <3>5, RowTypes
    <3> QED  BY <1>1, <1>4, <2>1, <3>1, <3>4, <3>6, FileTypes DEF Rekey, memory
  <2>4. CASE UNCHANGED db
    BY <1>4, <2>1, <2>4, RestOf, RestTypes DEF Rekey, memory, server
  <2> QED  BY <1>4, <2>3, <2>4 DEF Rekey
<1> QED  BY <1>3, <1>4

(* The steps on the server and in memory.                                  *)
LEMMA OtherTypes ==
  ASSUME TypeInv, NEW t \in Threads,
         \/ SetKek(t) \/ PostUser(t) \/ PostDevice(t) \/ LoadKek(t) \/ Authenticate(t)
         \/ LoadRatchets(t) \/ PostKeys(t) \/ Enter(t) \/ SaveNewSalt(t) \/ Logout(t)
  PROVE  TypeInv'
<1>1. Handlers
  BY DEF TypeInv
<1>2. job[t] \in Jobs /\ job[t].n \in Numbers
  BY <1>1 DEF Handlers, Jobs
<1>3. CASE SetKek(t)
  <2>1. Handlers'
    BY <1>1, <1>3, GoesOn DEF SetKek
  <2> QED  BY <1>2, <1>3, <2>1, RestOf, RestTypes DEF SetKek, files, server
<1>4. CASE PostUser(t)
  <2>1. Handlers' /\ job[t].user \in Users
    BY <1>1, <1>4, GoesOn, AtFacts DEF PostUser
  <2>2. identities' \in [Users -> Numbers \cup {None}]
    BY <1>2, <1>4, <2>1, RestOf DEF PostUser
  <2> QED  BY <1>4, <2>1, <2>2, RestOf, RestTypes DEF PostUser, files, memory
<1>5. CASE PostDevice(t)
  <2>1. Handlers'
    BY <1>1, <1>5, GoesOn DEF PostDevice
  <2>2. devices' \in [Users -> SUBSET Numbers]
    <3>1. CASE UNCHANGED devices
      BY <3>1, RestOf
    <3>2. ASSUME NEW owners, devices' = [u \in Users |-> devices[u] \cup IF u \in owners THEN {job[t].n} ELSE {}]
          PROVE  devices' \in [Users -> SUBSET Numbers]
      <4>1. ASSUME NEW u \in Users PROVE (devices[u] \cup IF u \in owners THEN {job[t].n} ELSE {}) \in SUBSET Numbers
        BY <1>2, RestOf
      <4> QED  BY <3>2, <4>1
    <3> QED  BY <1>5, <3>1, <3>2 DEF PostDevice
  <2> QED  BY <1>5, <2>1, <2>2, RestOf, RestTypes DEF PostDevice, files, memory
<1>6. CASE LoadKek(t)
  <2>1. Handlers'
    BY <1>1, <1>6, GoesOn DEF LoadKek
  <2>2. kek' \in Numbers \cup {None}
    <3>1. CASE UNCHANGED kek
      BY <3>1, RestOf
    <3>2. CASE KekRow # None /\ kek' = KekRow.kek
      <4>1. open # None /\ db[open.user] \in Files
        BY <3>2, TypesOf DEF KekRow, OpenOK
      <4>2. KekRow \in KekRows
        BY <3>2, <4>1 DEF KekRow, Files
      <4> QED  BY <3>2, <4>2 DEF KekRows
    <3> QED  BY <1>6, <3>1, <3>2 DEF LoadKek, KekOpens
  <2> QED  BY <1>6, <2>1, <2>2, RestOf, RestTypes DEF LoadKek, files, server
<1>7. CASE Authenticate(t)
  <2>1. Handlers' /\ job[t].user \in Users /\ job[t].pass \in Passphrases
    BY <1>1, <1>7, GoesOn, AtFacts DEF Authenticate
  <2>2. session' \in Tokens \cup {None}
    BY <1>7, <2>1, RestOf DEF Authenticate, Tokens
  <2> QED  BY <1>7, <2>1, <2>2, RestOf, RestTypes DEF Authenticate, files, server
<1>8. CASE LoadRatchets(t)
  <2>1. Handlers'
    BY <1>1, <1>8, GoesOn DEF LoadRatchets
  <2>2. ratchets' \subseteq Users
    BY <1>8, TypesOf, RestOf DEF LoadRatchets, OpenOK
  <2> QED  BY <1>8, <2>1, <2>2, RestOf, RestTypes DEF LoadRatchets, files, server
<1>9. CASE PostKeys(t)
  <2>1. Handlers'
    BY <1>1, <1>9, GoesOn DEF PostKeys
  <2> QED  BY <1>9, <2>1, RestOf, RestTypes DEF PostKeys, files, memory, server
<1>10. CASE Enter(t)
  <2>1. Handlers' /\ job[t].user \in Users /\ job[t].pass \in Passphrases
    BY <1>1, <1>10, GoesOn, AtFacts DEF Enter
  <2>2. told' \in [Users -> Passphrases \cup {None}]
    BY <1>10, <2>1, RestOf DEF Enter
  <2> QED  BY <1>10, <2>1, <2>2, RestOf, RestTypes DEF Enter, files, server
<1>11. CASE SaveNewSalt(t)
  <2>1. Handlers' /\ job[t].user \in Users
    BY <1>1, <1>11, GoesOn, AtFacts DEF SaveNewSalt
  <2>2. salt' \in [Users -> Numbers \cup {None}]
    BY <1>2, <1>11, <2>1, RestOf DEF SaveNewSalt
  <2> QED  BY <1>11, <2>1, <2>2, RestOf, RestTypes DEF SaveNewSalt, memory, server
<1>12. CASE Logout(t)
  <2>1. Handlers'
    BY <1>1, <1>12, GoesOn DEF Logout
  <2>2. \A r \in Threads : Idle(r)' <=> job'[r].steps = << >>
    BY <2>1 DEF Handlers, Handler
  <2>3. job' \in [Threads -> Jobs] /\ TypeOK
    BY <2>1 DEF Handlers, TypeInv
  <2>4. TypeOK'
    BY <1>12, <2>2, <2>3 DEF TypeOK, Logout, AfterLogout, files, server
  <2> QED  BY <2>1, <2>4 DEF TypeInv
<1> QED  BY <1>3, <1>4, <1>5, <1>6, <1>7, <1>8, <1>9, <1>10, <1>11, <1>12

LEMMA EndsTypes ==
  ASSUME TypeInv, Quit \/ Crash \/ \E t \in Threads : LogoutThrows(t) \/ Fails(t)
  PROVE  TypeInv'
<1>1. Mishap => mishaps' \in 0 .. MaxMishaps
  BY RestOf, Bounds DEF Mishap
<1>2. CASE Quit \/ Crash \/ \E t \in Threads : LogoutThrows(t)
  BY <1>1, <1>2, RestOf, ProcessEndsTypes DEF Quit, Crash, LogoutThrows
<1>3. ASSUME NEW t \in Threads, Fails(t) PROVE TypeInv'
  <2>1. CASE ProcessEnds
    BY <1>1, <1>3, <2>1, ProcessEndsTypes DEF Fails
  <2>2. CASE Throw(t) /\ UNCHANGED <<files, memory, server, told, drawn>>
    <3>1. Handlers'
      BY <2>2, ThrowHandlers DEF TypeInv
    <3> QED  BY <1>1, <1>3, <2>2, <3>1, RestOf, RestTypes DEF Fails, files, memory, server
  <2> QED  BY <1>3, <2>1, <2>2 DEF Fails
<1> QED  BY <1>2, <1>3

LEMMA StutterTypes == ASSUME TypeInv, UNCHANGED vars PROVE TypeInv'
<1>1. Handlers'
  BY DEF TypeInv, Handlers, Handler, Idle, Plan, Kind, vars
<1> QED  BY <1>1, RestOf, RestTypes DEF vars, files, memory, server

LEMMA TypesStay == TypeInv /\ [Next]_vars => TypeInv'
<1> SUFFICES ASSUME TypeInv, [Next]_vars PROVE TypeInv'
  OBVIOUS
<1>1. ASSUME NEW t \in Threads, Step(t) PROVE TypeInv'
  BY <1>1, SaltTypes, InitializeTypes, SavesTypes, KeyingTypes, OtherTypes, EndsTypes DEF Step
<1> QED  BY <1>1, StartTypes, StartInsideTypes, EndsTypes, StutterTypes DEF Next

LEMMA TypesStart == Init => TypeInv
<1> SUFFICES ASSUME Init PROVE TypeInv
  OBVIOUS
<1>1. job \in [Threads -> Jobs] /\ \A t \in Threads : job[t] = NoJob
  BY NoJobIsJob DEF Init
<1>2. Handlers
  BY <1>1, NoJobIsJob DEF Handlers, Handler, Idle
<1>3. 0 \in Numbers /\ 0 \in 0 .. MaxMishaps
  BY Bounds DEF Numbers
<1>4. identities \in [Users -> Numbers \cup {None}]
  BY <1>3 DEF Init
<1>5. devices \in [Users -> SUBSET Numbers]
  BY <1>3 DEF Init
<1>6. TypeOK
  BY <1>1, <1>3, <1>4, <1>5, NoJobIsJob DEF Init, TypeOK, Idle
<1> QED  BY <1>2, <1>6 DEF TypeInv

(* The variables keep their types, whatever interleaves, fails or crashes:  *)
(* a file without a key has no rows, and the open database has a file.     *)
THEOREM TypesAlways == Spec => []TypeOK
<1>1. TypeInv => TypeOK
  BY DEF TypeInv
<1> QED  BY <1>1, TypesStart, TypesStay, PTL DEF Spec

-----------------------------------------------------------------------------
(* When users do the usual and nothing fails or crashes, one handler runs   *)
(* at a time, and every step of it finds what the one before it has left.  *)

Orderly == Habits = {} /\ MaxMishaps = 0

Left(t) == Len(job[t].steps)
SettingUp(t) == ~Idle(t) /\ Kind(t) \in {"register", "setUp"}
LoggingIn(t) == ~Idle(t) /\ Kind(t) \in {"register", "setUp", "login"} /\ Left(t) <= 7
ChangingBy(t) == ~Idle(t) /\ Kind(t) = "change"
Key(t) == MasterKey(job[t].n, job[t].pass)
NewKey(t) == MasterKey(job[t].n, job[t].new)

OneAtATime == \A t, r \in Threads : ~Idle(t) /\ ~Idle(r) => t = r

(* The parts of Works(v, p) that no passphrase is needed for.              *)
Kept(v) ==
  /\ identities[v] # None /\ salt[v] # None
  /\ db[v] # None /\ db[v].key # None /\ db[v].kek # None /\ db[v].device # None
  /\ db[v].device.under = db[v].kek.kek
  /\ db[v].device.pair \in devices[v]

Settled(v) ==
  /\ told[v] # None => Kept(v) /\ (Works(v, told[v]) \/ Changing(v))
  /\ told[v] = None => \/ salt[v] = None /\ db[v] = None
                      \/ \E t \in Threads : SettingUp(t) /\ job[t].user = v

(* Every KEK was drawn for one user, and its row is not under a new key.   *)
Drawn ==
  /\ \A v \in Users : db[v] # None /\ db[v].kek # None =>
        db[v].kek.kek <= drawn /\ db[v].kek.under.salt <= drawn
  /\ \A v, w \in Users :
        /\ db[v] # None /\ db[v].kek # None /\ db[w] # None /\ db[w].kek # None
        /\ db[v].kek.kek = db[w].kek.kek
        => v = w

Locked == open = None /\ kek = None /\ session = None
LetIn ==
  /\ open # None /\ session # None /\ session.user = open.user
  /\ told[open.user] # None /\ kek = db[open.user].kek.kek

Doors ==
  /\ Quiet /\ ~inside => Locked
  /\ inside => LetIn /\ \A t \in Threads : ~Idle(t) => Kind(t) \in {"change", "logout"}
  /\ \A t \in Threads : ~Idle(t) /\ Kind(t) \in {"change", "logout"} => inside

(* A client is being set up, and has not come to the login: the steps to go *)
(* to it and through it, counted as if the server were not asked.          *)
ToGo(t) == IF t = "worker" THEN Left(t) - 3 ELSE Left(t)

SetUp(t) ==
  LET u == job[t].user
      n == job[t].n
  IN  /\ told[u] = None /\ n = drawn /\ drawn > 0 /\ session = None
      /\ t = "worker" => identities[u] = IF Left(t) > 9 THEN None ELSE n
      /\ t = "gui" => identities[u] # None /\ n \in devices[u]
      /\ ToGo(t) >= 12 => Locked /\ db[u] = None
      /\ ToGo(t) < 13 => salt[u] = n /\ job[t].key = Key(t)
      /\ ToGo(t) < 12 => open # None /\ open.user = u /\ open.key = Key(t) /\ db[u] # None
      /\ ToGo(t) \in {10, 11} => kek = None
      /\ ToGo(t) = 11 => db[u] = EmptyFile
      /\ ToGo(t) < 11 => db[u].key = Key(t)
      /\ ToGo(t) < 10 => kek = n
      /\ ToGo(t) > 8 => \A v \in Users : db[v] # None /\ db[v].kek # None => db[v].kek.kek < n
      /\ ToGo(t) <= 8 => db[u].kek = [kek |-> n, under |-> Key(t)]
      /\ t = "worker" /\ Left(t) < 11 => db[u].identity = [pair |-> n, under |-> n]
      /\ t = "worker" /\ Left(t) = 8 => db[u].device = [pair |-> n, under |-> n]

(* A user is being let in, and the passphrase is right.                    *)
Login(t) ==
  LET u == job[t].user
  IN  /\ Works(u, job[t].pass) /\ identities[u] # None
      /\ told[u] \in {None, job[t].pass}
      /\ open # None /\ open.user = u
      /\ Left(t) < 7 => job[t].key = MasterKey(salt[u], job[t].pass)
      /\ kek = db[u].kek.kek \/ (Left(t) > 4 /\ kek = None)
      /\ session = IF Left(t) > 3 THEN None ELSE [user |-> u, pass |-> job[t].pass]

(* A user has asked to be let in, and the passphrase may be wrong.         *)
Knock(t) ==
  LET u == job[t].user
  IN  /\ Locked
      /\ Left(t) = 6 => salt[u] # None /\ job[t].key = MasterKey(salt[u], job[t].pass)

InChange(t) ==
  LET u == job[t].user
  IN  /\ open # None /\ open.user = u /\ told[u] # None
      /\ job[t].n = drawn /\ drawn > 0 /\ db[u].kek.under.salt < job[t].n
      /\ Left(t) = 3 => Works(u, told[u])
      /\ Left(t) < 3 => db[u].key = NewKey(t)
      /\ Left(t) < 2 => salt[u] = job[t].n

Stage(t) ==
  /\ SettingUp(t) /\ Left(t) > 7 => SetUp(t)
  /\ SettingUp(t) /\ Left(t) <= 7 => Login(t) /\ told[job[t].user] = None
  /\ ~Idle(t) /\ Kind(t) = "login" =>
       IF Left(t) > 5 THEN Knock(t) ELSE Login(t) /\ told[job[t].user] = job[t].pass
  /\ ChangingBy(t) => InChange(t)

Inv ==
  /\ TypeInv /\ OneAtATime /\ Drawn /\ Doors
  /\ \A v \in Users : Settled(v)
  /\ \A t \in Threads : Stage(t)

-----------------------------------------------------------------------------
(* One handler at a time.                                                  *)

(* u's secrets are as u was told, and u has none when told nothing.        *)
Plain(v) ==
  /\ told[v] # None => Kept(v) /\ Works(v, told[v])
  /\ told[v] = None => salt[v] = None /\ db[v] = None

Same(v) ==
  /\ told'[v] = told[v] /\ salt'[v] = salt[v] /\ db'[v] = db[v]
  /\ devices[v] \subseteq devices'[v] /\ (identities[v] # None => identities'[v] # None)

LEMMA PlainStays == ASSUME NEW v \in Users, Plain(v), Same(v) PROVE Plain(v)'
BY DEF Plain, Same, Kept, Works

LEMMA PlainSettled == ASSUME NEW v \in Users, Plain(v)' PROVE Settled(v)'
BY DEF Plain, Settled

LEMMA ThreadsAre == Threads = {"gui", "worker"} /\ "gui" # "worker"
BY DEF Threads

LEMMA IdleFacts ==
  ASSUME NEW t, Idle(t)
  PROVE  job[t].user = None /\ job[t].new = None /\ job[t].n = 0 /\ job[t].steps = << >>
BY NoJobIsJob DEF Idle

LEMMA OthersPlain ==
  ASSUME Inv, NEW v \in Users, \A t \in Threads : Idle(t) \/ job[t].user # v
  PROVE  Plain(v)
<1>1. Settled(v) /\ v # None
  BY NoneIsNone DEF Inv
<1>2. ~Changing(v)
  BY <1>1, IdleFacts, ThreadsAre DEF Changing
<1>3. ~\E t \in Threads : SettingUp(t) /\ job[t].user = v
  BY DEF SettingUp
<1> QED  BY <1>1, <1>2, <1>3 DEF Settled, Plain

LEMMA LoginPlain ==
  ASSUME Inv, NEW t \in Threads, ~Idle(t), Kind(t) = "login"
  PROVE  Plain(job[t].user) /\ t = "gui" /\ job[t].new = None /\ job[t].user \in Users
<1> DEFINE u == job[t].user
<1>1. t = "gui" /\ job[t].new = None /\ u # None
  BY ThreadsAre DEF Kind
<1>2. u \in Users
  BY <1>1 DEF Inv, TypeInv, Handlers, Jobs
<1>3. Settled(u) /\ ~Changing(u)
  BY <1>1, <1>2 DEF Inv, Changing
<1>4. ~\E r \in Threads : SettingUp(r) /\ job[r].user = u
  <2> SUFFICES ASSUME NEW r \in Threads, SettingUp(r) PROVE FALSE
    OBVIOUS
  <2>1. r = t
    BY DEF SettingUp, Inv, OneAtATime
  <2> QED  BY <2>1 DEF SettingUp
<1>5. Plain(u)
  BY <1>3, <1>4 DEF Settled, Plain
<1> QED  BY <1>1, <1>2, <1>5

(* Only t's job changes.                                                   *)
Only(t) == \A r \in Threads : r # t => Idle(r) /\ Idle(r)'

LEMMA BusyOnly ==
  ASSUME Inv, NEW t \in Threads, ~Idle(t), NEW j, job' = [job EXCEPT ![t] = j]
  PROVE  Only(t) /\ job'[t] = j
<1>1. job \in [Threads -> Jobs]
  BY DEF Inv, TypeInv, Handlers
<1>2. \A r \in Threads : r # t => Idle(r)
  BY DEF Inv, OneAtATime
<1> QED  BY <1>1, <1>2 DEF Only, Idle

LEMMA OnlyInv ==
  ASSUME Inv, NEW t \in Threads, Only(t), TypeInv', Drawn', Doors',
         \A v \in Users : Settled(v)', Stage(t)'
  PROVE  Inv'
<1>1. OneAtATime'
  BY DEF Only, OneAtATime
<1>2. ASSUME NEW r \in Threads PROVE Stage(r)'
  BY DEF Only, Stage, SettingUp, ChangingBy
<1> QED  BY <1>1, <1>2 DEF Inv

LEMMA SameDrawn ==
  ASSUME Inv, db' = db, drawn' \in Nat, drawn' >= drawn
  PROVE  Drawn'
<1>1. Drawn /\ drawn \in Nat /\ TypeInv
  BY RestOf, Bounds DEF Inv, Numbers
<1>2. ASSUME NEW v \in Users, db[v] # None, db[v].kek # None PROVE db[v].kek.kek \in Nat /\ db[v].kek.under.salt \in Nat
  <2>1. db[v] \in Files
    BY <1>1, <1>2, TypesOf
  <2> QED  BY <1>2, <2>1, Bounds DEF Files, KekRows, MasterKeys, Numbers
<1> QED  BY <1>1, <1>2 DEF Drawn

(* A handler that lets in goes on, and touches the secrets of its own user *)
(* only.                                                                   *)
Goes(t) ==
  /\ ~Idle(t) /\ ~Idle(t)' /\ Only(t)
  /\ job'[t].user = job[t].user /\ job'[t].pass = job[t].pass /\ job'[t].new = job[t].new
  /\ job'[t].n = job[t].n /\ Kind(t)' = Kind(t) /\ Left(t)' = Left(t) - 1

LEMMA OthersSettled ==
  ASSUME Inv, NEW t \in Threads, NEW u, Only(t), Idle(t) \/ job[t].user = u,
         \A v \in Users : v # u => Same(v)
  PROVE  \A v \in Users : v # u => Settled(v)'
<1> SUFFICES ASSUME NEW v \in Users, v # u PROVE Settled(v)'
  OBVIOUS
<1>1. \A r \in Threads : Idle(r) \/ job[r].user # v
  BY DEF Only
<1>2. Plain(v) /\ Same(v)
  BY <1>1, OthersPlain
<1> QED  BY <1>2, PlainStays, PlainSettled

LEMMA SettingUpSettled ==
  ASSUME NEW t \in Threads, NEW u, SettingUp(t)', job'[t].user = u, told'[u] = None
  PROVE  Settled(u)'
BY DEF Settled

LEMMA OutsideDoors ==
  ASSUME NEW t \in Threads, ~Idle(t)', Kind(t)' \notin {"change", "logout"}, Only(t), ~inside'
  PROVE  Doors'
BY DEF Doors, Quiet, Only

LEMMA LettingIn ==
  ASSUME Inv, NEW t \in Threads, ~Idle(t), Kind(t) \notin {"change", "logout"}
  PROVE  ~inside
BY DEF Inv, Doors

(* Where the handler at a step is.                                         *)
LEMMA Where ==
  ASSUME Inv, NEW t \in Threads, NEW a, AtStep(t, a)
  PROVE  /\ ~Idle(t) /\ Left(t) \in Nat /\ Left(t) > 0 /\ Place(Kind(t), Left(t) - 1, a)
         /\ (Kind(t) = "register" <=> t = "worker") /\ (t = "gui" \/ t = "worker")
         /\ a # "logout" => job[t].user \in Users /\ job[t].pass \in Passphrases
         /\ job[t].n \in Numbers /\ Handlers
<1>1. Handlers
  BY DEF Inv, TypeInv
<1>2. job[t].n \in Numbers
  BY <1>1 DEF Handlers, Jobs
<1>3. (Kind(t) = "register" <=> t = "worker") /\ (t = "gui" \/ t = "worker")
  BY ThreadsAre DEF Kind
<1> QED  BY <1>1, <1>2, <1>3, AtFacts DEF Left

LEMMA Proceeds ==
  ASSUME Inv, NEW t \in Threads, NEW a, AtStep(t, a), a \notin {"saveSalt", "derive"},
         GoOn(t), Left(t) # 1
  PROVE  Goes(t) /\ job'[t].key = job[t].key
<1>1. /\ Handlers /\ ~Idle(t) /\ Left(t) \in Nat /\ Left(t) > 0 /\ Place(Kind(t), Left(t) - 1, a)
  BY Where
<1>2. Left(t) = 1 \/ Keyed(Kind(t), Left(t)) \/ ~Keyed(Kind(t), Left(t) - 1)
  <2> DEFINE k == Kind(t)
             n == Left(t)
  <2> HIDE DEF k, n
  <2>1. n \in Nat /\ n > 0 /\ Place(k, n - 1, a)
    BY <1>1 DEF k, n
  <2>2. n = 1 \/ Keyed(k, n) \/ ~Keyed(k, n - 1)
    BY <2>1 DEF Place, Keyed
  <2> QED  BY <2>2 DEF k, n
<1>3. /\ ~Idle(t)'
      /\ job'[t].user = job[t].user /\ job'[t].pass = job[t].pass /\ job'[t].new = job[t].new
      /\ job'[t].n = job[t].n /\ job'[t].key = job[t].key
      /\ Kind(t)' = Kind(t) /\ Left(t)' = Left(t) - 1
  BY <1>1, <1>2, GoOnHandlers DEF Left
<1>4. Only(t)
  <2> DEFINE j == IF Len(job[t].steps) = 1 THEN NoJob ELSE [job[t] EXCEPT !.steps = Tail(job[t].steps)]
  <2>1. job' = [job EXCEPT ![t] = j]
    BY DEF GoOn
  <2> HIDE DEF j
  <2> QED  BY <1>1, <2>1, BusyOnly
<1> QED  BY <1>1, <1>3, <1>4 DEF Goes

LEMMA Ends ==
  ASSUME Inv, NEW t \in Threads, ~Idle(t), Throw(t) \/ (GoOn(t) /\ Left(t) = 1)
  PROVE  Idle(t)' /\ Only(t) /\ Quiet'
<1>1. job' = [job EXCEPT ![t] = NoJob]
  BY DEF Throw, GoOn, Left
<1>2. Only(t) /\ job'[t] = NoJob
  BY <1>1, BusyOnly
<1> QED  BY <1>2 DEF Only, Quiet, Idle

(* A handler that lets in has taken a step.                                *)
LEMMA LetsIn ==
  ASSUME Inv, NEW t \in Threads, Goes(t), Kind(t) \notin {"change", "logout"},
         TypeInv', Drawn', inside' = inside, told' = told, Stage(t)',
         NEW u \in Users, u = job[t].user,
         \A v \in Users : Same(v) \/ (SettingUp(t) /\ v = u)
  PROVE  Inv'
<1>1. ~Idle(t) /\ ~Idle(t)' /\ Only(t) /\ Kind(t)' = Kind(t) /\ job'[t].user = u
  BY DEF Goes
<1>2. Doors'
  BY <1>1, LettingIn, OutsideDoors
<1>3. \A v \in Users : v # u => Settled(v)'
  <2>1. \A w \in Users : w # u => Same(w)
    OBVIOUS
  <2> QED  BY <1>1, <2>1, OthersSettled
<1>4. Settled(u)'
  <2>1. CASE SettingUp(t)
    <3>1. Left(t) \in Nat
      BY <1>1, RestHead DEF Inv, TypeInv, Handlers, Handler, Plan, Left
    <3>2. told[u] = None
      <4>1. Stage(t)
        BY DEF Inv
      <4>2. CASE Left(t) > 7
        BY <2>1, <4>1, <4>2 DEF Stage, SetUp
      <4>3. CASE Left(t) <= 7
        BY <2>1, <4>1, <4>3 DEF Stage
      <4> QED  BY <3>1, <4>2, <4>3
    <3>3. SettingUp(t)'
      BY <1>1, <2>1 DEF SettingUp
    <3> QED  BY <1>1, <3>2, <3>3, SettingUpSettled
  <2>2. CASE ~SettingUp(t)
    <3>1. Kind(t) = "login"
      BY <1>1, <2>2 DEF SettingUp, Kind
    <3>2. Plain(u)
      BY <1>1, <3>1, LoginPlain
    <3>3. Plain(u)'
      BY <2>2, <3>2, PlainStays
    <3> QED  BY <3>3, PlainSettled
  <2> QED  BY <2>1, <2>2
<1>5. ASSUME NEW v \in Users PROVE Settled(v)'
  BY <1>3, <1>4
<1> QED  BY <1>1, <1>2, <1>5, OnlyInv

(* A handler has come to its end.                                          *)
LEMMA QuietInv ==
  ASSUME Quiet', TypeInv', Drawn', \A v \in Users : Settled(v)',
         IF inside' THEN LetIn' ELSE Locked'
  PROVE  Inv'
<1>1. OneAtATime'
  BY DEF OneAtATime, Quiet
<1>2. Doors'
  BY DEF Doors, Quiet
<1>3. \A t \in Threads : Stage(t)'
  BY DEF Stage, SettingUp, ChangingBy, Quiet
<1> QED  BY <1>1, <1>2, <1>3 DEF Inv

LEMMA ProceedsWithKey ==
  ASSUME Inv, NEW t \in Threads, ~Idle(t), Left(t) # 1, NEW k \in MasterKeys,
         job' = [job EXCEPT ![t].steps = Tail(@), ![t].key = k]
  PROVE  Goes(t) /\ job'[t].key = k
<1>1. Handlers
  BY DEF Inv, TypeInv
<1>2. /\ ~Idle(t)'
      /\ job'[t].user = job[t].user /\ job'[t].pass = job[t].pass /\ job'[t].new = job[t].new
      /\ job'[t].n = job[t].n /\ job'[t].key = k
      /\ Kind(t)' = Kind(t) /\ Left(t)' = Left(t) - 1
  BY <1>1, GoOnWithKey DEF Left
<1>3. Only(t)
  <2> DEFINE j == [job[t] EXCEPT !.steps = Tail(@), !.key = k]
  <2>1. job' = [job EXCEPT ![t] = j]
    BY <1>1 DEF Handlers
  <2> HIDE DEF j
  <2> QED  BY <2>1, BusyOnly
<1> QED  BY <1>2, <1>3 DEF Goes

(* What a client that is being set up goes on with.                        *)
LEMMA InSetUp ==
  ASSUME Inv, NEW t \in Threads, NEW a, AtStep(t, a),
         a \in {"saveSalt", "initSchema", "setKek", "saveKek", "saveIdentity", "postUser",
                "saveDevice", "postDevice"}
  PROVE  SettingUp(t) /\ SetUp(t) /\ Left(t) > 7
<1>1. ~Idle(t) /\ Left(t) \in Nat /\ Place(Kind(t), Left(t) - 1, a)
  BY Where
<1>2. Kind(t) \in {"register", "setUp"} /\ Left(t) > 7
  <2> DEFINE k == Kind(t)
             n == Left(t)
  <2> HIDE DEF k, n
  <2>1. n \in Nat /\ Place(k, n - 1, a)
    BY <1>1 DEF k, n
  <2>2. k \in {"register", "setUp"} /\ n > 7
    BY <2>1 DEF Place
  <2> QED  BY <2>2 DEF k, n
<1> QED  BY <1>1, <1>2 DEF Inv, Stage, SettingUp

LEMMA StillSetsUp ==
  ASSUME NEW t \in Threads, SettingUp(t), Goes(t), SetUp(t)', Left(t)' > 7, Left(t)' \in Nat
  PROVE  Stage(t)'
<1>1. SettingUp(t)' /\ Kind(t)' \in {"register", "setUp"}
  BY DEF SettingUp, Goes
<1> QED  BY <1>1 DEF Stage, ChangingBy

(* The facts about a handler that do not change.                           *)
LEMMA GoesFacts ==
  ASSUME NEW t \in Threads, Goes(t), Left(t) \in Nat, Left(t) > 3
  PROVE  /\ job'[t].user = job[t].user /\ job'[t].n = job[t].n /\ Key(t)' = Key(t)
         /\ NewKey(t)' = NewKey(t) /\ Left(t)' = Left(t) - 1 /\ ToGo(t)' = ToGo(t) - 1
         /\ Left(t)' \in Nat
BY DEF Goes, Key, NewKey, ToGo

LEMMA SaveSaltInv ==
  ASSUME Inv, TypeInv', NEW t \in Threads, SaveSalt(t)
  PROVE  Inv'
<1>1. AtStep(t, "saveSalt")
  BY DEF SaveSalt
<1>2. SettingUp(t) /\ SetUp(t) /\ Left(t) > 7
  BY <1>1, InSetUp
<1>3. ~Idle(t) /\ Left(t) \in Nat /\ Left(t) # 1 /\ ToGo(t) = 13 /\ job[t].user \in Users
  <2>1. Place(Kind(t), Left(t) - 1, "saveSalt") /\ (Kind(t) = "register" <=> t = "worker") /\ Left(t) \in Nat
    BY <1>1, Where
  <2>2. ToGo(t) = 13
    BY <2>1 DEF Place, ToGo
  <2> QED  BY <1>1, <1>2, <2>1, <2>2, Where
<1>4. Key(t) \in MasterKeys
  BY <1>1, Where, MasterKeyTypes DEF Key
<1>5. Goes(t) /\ job'[t].key = Key(t)
  BY <1>3, <1>4, ProceedsWithKey DEF SaveSalt, Key
<1>6. PICK u \in Users : u = job[t].user
  BY <1>3
<1>7. /\ salt'[u] = job[t].n /\ \A v \in Users : v # u => salt'[v] = salt[v]
  BY <1>6, RestOf DEF SaveSalt, Inv
<1>8. UNCHANGED <<db, open, kek, session, inside, identities, devices, told, drawn>>
  BY DEF SaveSalt, memory, server
<1>9. SetUp(t)'
  <2>1. /\ job'[t].user = u /\ job'[t].n = job[t].n /\ Key(t)' = Key(t) /\ ToGo(t)' = 12
        /\ Left(t)' = Left(t) - 1
    BY <1>2, <1>3, <1>5, <1>6, GoesFacts
  <2>2. /\ told[u] = None /\ job[t].n = drawn /\ drawn > 0 /\ session = None
        /\ t = "worker" => identities[u] = None
        /\ t = "gui" => identities[u] # None /\ job[t].n \in devices[u]
        /\ Locked /\ db[u] = None
        /\ \A v \in Users : db[v] # None /\ db[v].kek # None => db[v].kek.kek < job[t].n
    BY <1>2, <1>3, <1>6 DEF SetUp, ToGo
  <2>3. t = "worker" => Left(t)' = 15
    BY <1>3, <2>1 DEF ToGo
  <2> QED  BY <1>5, <1>7, <1>8, <2>1, <2>2, <2>3 DEF SetUp, Locked
<1>10. Stage(t)'
  BY <1>2, <1>3, <1>5, <1>9, GoesFacts, StillSetsUp DEF ToGo
<1>11. Drawn'
  BY <1>8, SameDrawn, RestOf DEF Numbers, Inv
<1>12. \A v \in Users : Same(v) \/ (SettingUp(t) /\ v = u)
  BY <1>2, <1>7, <1>8 DEF Same
<1> QED  BY <1>2, <1>5, <1>6, <1>8, <1>10, <1>11, <1>12, LetsIn DEF SettingUp

LEMMA DrawnBut ==
  ASSUME Drawn, drawn' = drawn, NEW u \in Users, \A v \in Users : v # u => db'[v] = db[v],
         db'[u] # None /\ db'[u].kek # None =>
           \/ db[u] # None /\ db[u].kek # None /\ db'[u].kek = db[u].kek
           \/ /\ db'[u].kek.kek <= drawn /\ db'[u].kek.under.salt <= drawn
              /\ \A v \in Users : v # u /\ db[v] # None /\ db[v].kek # None =>
                    db[v].kek.kek # db'[u].kek.kek
  PROVE  Drawn'
BY DEF Drawn

(* Setting up goes from ToGo = m + 1 to ToGo = m.                          *)
LEMMA SetUpGoes ==
  ASSUME Inv, TypeInv', Drawn', NEW t \in Threads, SettingUp(t), Goes(t), Left(t) \in Nat, Left(t) > 8,
         NEW u \in Users, u = job[t].user, SetUp(t)',
         inside' = inside, told' = told,
         \A v \in Users : v # u => Same(v)
  PROVE  Inv'
<1>1. Stage(t)'
  BY StillSetsUp, GoesFacts
<1>2. \A v \in Users : Same(v) \/ (SettingUp(t) /\ v = u)
  OBVIOUS
<1> QED  BY <1>1, <1>2, LetsIn DEF SettingUp

LEMMA InitializeSetUp ==
  ASSUME Inv, TypeInv', NEW t \in Threads, Initialize(t), SettingUp(t), Left(t) > 7
  PROVE  Inv'
<1>1. AtStep(t, "initialize")
  BY DEF Initialize
<1>2. SetUp(t)
  BY DEF Inv, Stage
<1>3. ~Idle(t) /\ Left(t) \in Nat /\ Left(t) > 8 /\ ToGo(t) = 12 /\ job[t].user \in Users
  <2>1. Place(Kind(t), Left(t) - 1, "initialize") /\ (Kind(t) = "register" <=> t = "worker") /\ Left(t) \in Nat
    BY <1>1, Where
  <2>2. ToGo(t) = 12
    BY <2>1 DEF Place, ToGo
  <2> QED  BY <1>1, <2>1, <2>2, Where DEF ToGo
<1>4. PICK u \in Users : u = job[t].user
  BY <1>3
<1>5. /\ told[u] = None /\ job[t].n = drawn /\ drawn > 0 /\ session = None
      /\ t = "worker" => identities[u] = None
      /\ t = "gui" => identities[u] # None /\ job[t].n \in devices[u]
      /\ open = None /\ kek = None /\ db[u] = None /\ salt[u] = job[t].n /\ job[t].key = Key(t)
      /\ \A v \in Users : db[v] # None /\ db[v].kek # None => db[v].kek.kek < job[t].n
  BY <1>2, <1>3, <1>4 DEF SetUp, ToGo, Locked
<1>6. GoOn(t) /\ open' = [user |-> u, key |-> Key(t)] /\ db' = [db EXCEPT ![u] = EmptyFile]
  BY <1>4, <1>5 DEF Initialize, Fits, AfterOpening
<1>7. Goes(t) /\ job'[t].key = Key(t)
  BY <1>1, <1>3, <1>5, <1>6, Proceeds
<1>8. db'[u] = EmptyFile /\ \A v \in Users : v # u => db'[v] = db[v]
  BY <1>4, <1>6, TypesOf DEF Inv
<1>9. UNCHANGED <<salt, kek, session, inside, identities, devices, told, drawn>>
  BY DEF Initialize, server
<1>10. EmptyFile # None /\ EmptyFile.kek = None
  BY EmptyFileIsFile DEF EmptyFile
<1>11. open' # None
  BY <1>3, <1>4, <1>6, NoneIsNone, MasterKeyTypes, <1>1, Where DEF Key, Handles
<1>12. SetUp(t)'
  <2>1. /\ job'[t].user = u /\ job'[t].n = job[t].n /\ Key(t)' = Key(t) /\ ToGo(t)' = 11
        /\ Left(t)' = Left(t) - 1
    BY <1>3, <1>4, <1>7, GoesFacts
  <2>2. t = "worker" => Left(t)' = 14
    BY <1>3, <2>1 DEF ToGo
  <2>3. \A v \in Users : db'[v] # None /\ db'[v].kek # None => db'[v].kek.kek < job[t].n
    BY <1>5, <1>8, <1>10
  <2>4. open'.user = u /\ open'.key = Key(t)'
    BY <1>6, <2>1
  <2> HIDE <1>6
  <2> QED  BY <1>5, <1>7, <1>8, <1>9, <1>10, <1>11, <2>1, <2>2, <2>3, <2>4 DEF SetUp
<1>13. Drawn'
  BY <1>8, <1>9, <1>10, DrawnBut DEF Inv
<1>14. \A v \in Users : v # u => Same(v)
  BY <1>8, <1>9 DEF Same
<1> QED  BY <1>3, <1>4, <1>7, <1>9, <1>12, <1>13, <1>14, SetUpGoes

LEMMA InitSchemaInv ==
  ASSUME Inv, TypeInv', NEW t \in Threads, InitSchema(t)
  PROVE  Inv'
<1>1. AtStep(t, "initSchema")
  BY DEF InitSchema
<1>2. SettingUp(t) /\ SetUp(t)
  BY <1>1, InSetUp
<1>3. ~Idle(t) /\ Left(t) \in Nat /\ Left(t) > 8 /\ ToGo(t) = 11 /\ job[t].user \in Users
  <2>1. Place(Kind(t), Left(t) - 1, "initSchema") /\ (Kind(t) = "register" <=> t = "worker") /\ Left(t) \in Nat
    BY <1>1, Where
  <2>2. ToGo(t) = 11
    BY <2>1 DEF Place, ToGo
  <2> QED  BY <1>1, <2>1, <2>2, Where DEF ToGo
<1>4. PICK u \in Users : u = job[t].user
  BY <1>3
<1>5. /\ told[u] = None /\ job[t].n = drawn /\ drawn > 0 /\ session = None
      /\ t = "worker" => identities[u] = None
      /\ t = "gui" => identities[u] # None /\ job[t].n \in devices[u]
      /\ open # None /\ open.user = u /\ open.key = Key(t) /\ kek = None /\ db[u] = EmptyFile
      /\ salt[u] = job[t].n /\ job[t].key = Key(t)
      /\ \A v \in Users : db[v] # None /\ db[v].kek # None => db[v].kek.kek < job[t].n
  BY <1>2, <1>3, <1>4 DEF SetUp, ToGo
<1>6. GoOn(t) /\ db' = [db EXCEPT ![u] = [EmptyFile EXCEPT !.key = Key(t)]]
  <2>1. GoOn(t) /\ db' = [db EXCEPT ![open.user].key = IF @ = None THEN open.key ELSE @]
    BY <1>5 DEF InitSchema
  <2>2. EmptyFile.key = None
    BY DEF EmptyFile
  <2> QED  BY <1>5, <2>1, <2>2, TypesOf DEF Inv
<1>7. Goes(t) /\ job'[t].key = Key(t)
  BY <1>1, <1>3, <1>5, <1>6, Proceeds
<1>8. /\ db'[u].key = Key(t) /\ db'[u].kek = None /\ \A v \in Users : v # u => db'[v] = db[v]
  BY <1>4, <1>6, TypesOf DEF Inv, EmptyFile
<1>9. UNCHANGED <<salt, open, kek, session, inside, identities, devices, told, drawn>>
  BY DEF InitSchema, memory, server
<1>10. db'[u] # None
  BY <1>5, <1>9, TypesOf DEF TypeInv, TypeOK
<1>12. SetUp(t)'
  <2>1. /\ job'[t].user = u /\ job'[t].n = job[t].n /\ Key(t)' = Key(t) /\ ToGo(t)' = 10
        /\ Left(t)' = Left(t) - 1
    BY <1>3, <1>4, <1>7, GoesFacts
  <2>2. t = "worker" => Left(t)' = 13
    BY <1>3, <2>1 DEF ToGo
  <2>3. \A v \in Users : db'[v] # None /\ db'[v].kek # None => db'[v].kek.kek < job[t].n
    BY <1>5, <1>8
  <2> HIDE <1>6
  <2> QED  BY <1>5, <1>7, <1>8, <1>9, <1>10, <2>1, <2>2, <2>3 DEF SetUp
<1>13. Drawn'
  BY <1>8, <1>9, DrawnBut DEF Inv
<1>14. \A v \in Users : v # u => Same(v)
  BY <1>8, <1>9 DEF Same
<1> QED  BY <1>2, <1>3, <1>4, <1>7, <1>9, <1>12, <1>13, <1>14, SetUpGoes

LEMMA SetKekInv ==
  ASSUME Inv, TypeInv', NEW t \in Threads, SetKek(t)
  PROVE  Inv'
<1>1. AtStep(t, "setKek") /\ GoOn(t)
  BY DEF SetKek
<1>2. SettingUp(t) /\ SetUp(t)
  BY <1>1, InSetUp
<1>3. ~Idle(t) /\ Left(t) \in Nat /\ Left(t) > 8 /\ ToGo(t) = 10 /\ job[t].user \in Users
  <2>1. Place(Kind(t), Left(t) - 1, "setKek") /\ (Kind(t) = "register" <=> t = "worker") /\ Left(t) \in Nat
    BY <1>1, Where
  <2>2. ToGo(t) = 10
    BY <2>1 DEF Place, ToGo
  <2> QED  BY <1>1, <2>1, <2>2, Where DEF ToGo
<1>4. PICK u \in Users : u = job[t].user
  BY <1>3
<1>5. /\ told[u] = None /\ job[t].n = drawn /\ drawn > 0 /\ session = None
      /\ t = "worker" => identities[u] = None
      /\ t = "gui" => identities[u] # None /\ job[t].n \in devices[u]
      /\ open # None /\ open.user = u /\ open.key = Key(t) /\ db[u] # None /\ db[u].key = Key(t)
      /\ salt[u] = job[t].n /\ job[t].key = Key(t)
      /\ \A v \in Users : db[v] # None /\ db[v].kek # None => db[v].kek.kek < job[t].n
  BY <1>2, <1>3, <1>4 DEF SetUp, ToGo
<1>7. Goes(t) /\ job'[t].key = Key(t)
  BY <1>1, <1>3, <1>5, Proceeds
<1>9. /\ UNCHANGED <<salt, db, open, session, inside, identities, devices, told, drawn>>
      /\ kek' = job[t].n
  BY DEF SetKek, files, server
<1>12. SetUp(t)'
  <2>1. /\ job'[t].user = u /\ job'[t].n = job[t].n /\ Key(t)' = Key(t) /\ ToGo(t)' = 9
        /\ Left(t)' = Left(t) - 1
    BY <1>3, <1>4, <1>7, GoesFacts
  <2>2. t = "worker" => Left(t)' = 12
    BY <1>3, <2>1 DEF ToGo
  <2> QED  BY <1>5, <1>7, <1>9, <2>1, <2>2 DEF SetUp
<1>13. Drawn'
  BY <1>9, SameDrawn, RestOf DEF Numbers, Inv
<1>14. \A v \in Users : v # u => Same(v)
  BY <1>9 DEF Same
<1> QED  BY <1>2, <1>3, <1>4, <1>7, <1>9, <1>12, <1>13, <1>14, SetUpGoes

(* A row has been saved for u.                                             *)
LEMMA RowSaved ==
  ASSUME TypeInv, TypeInv', open' = open, open # None, NEW u \in Users, u = open.user,
         NEW label \in {"kek", "identity", "device"}, NEW row, NEW t,
         SaveRow(t, label, row), db[u].key # None
  PROVE  /\ GoOn(t) /\ db'[u] # None /\ db'[u].key = db[u].key
         /\ db'[u].kek = IF label = "kek" THEN row ELSE db[u].kek
         /\ db'[u].identity = IF label = "identity" THEN row ELSE db[u].identity
         /\ db'[u].device = IF label = "device" THEN row ELSE db[u].device
         /\ \A v \in Users : v # u => db'[v] = db[v]
<1>1. db'[u] # None
  BY DEF TypeInv, TypeOK
<1>2. db \in [Users -> Files \cup {None}] /\ db[u] \in Files
  BY TypesOf DEF OpenOK
<1>3. GoOn(t) /\ db' = [db EXCEPT ![u] = [db[u] EXCEPT ![label] = row]]
  BY DEF SaveRow
<1>4. db'[u] = [db[u] EXCEPT ![label] = row] /\ \A v \in Users : v # u => db'[v] = db[v]
  BY <1>2, <1>3
<1>5. \/ label = "kek" /\ db'[u] = [db[u] EXCEPT !.kek = row]
      \/ label = "identity" /\ db'[u] = [db[u] EXCEPT !.identity = row]
      \/ label = "device" /\ db'[u] = [db[u] EXCEPT !.device = row]
  BY <1>4
<1> HIDE <1>3, <1>4
<1>6. /\ db'[u].key = db[u].key
      /\ db'[u].kek = IF label = "kek" THEN row ELSE db[u].kek
      /\ db'[u].identity = IF label = "identity" THEN row ELSE db[u].identity
      /\ db'[u].device = IF label = "device" THEN row ELSE db[u].device
  BY <1>2, <1>5 DEF Files
<1> QED  BY <1>1, <1>3, <1>4, <1>6

LEMMA SaveKekInv ==
  ASSUME Inv, TypeInv', NEW t \in Threads, SaveKek(t)
  PROVE  Inv'
<1>1. AtStep(t, "saveKek")
  BY DEF SaveKek
<1>2. SettingUp(t) /\ SetUp(t)
  BY <1>1, InSetUp
<1>3. ~Idle(t) /\ Left(t) \in Nat /\ Left(t) > 8 /\ ToGo(t) = 9 /\ job[t].user \in Users
  <2>1. Place(Kind(t), Left(t) - 1, "saveKek") /\ (Kind(t) = "register" <=> t = "worker") /\ Left(t) \in Nat
    BY <1>1, Where
  <2>2. ToGo(t) = 9
    BY <2>1 DEF Place, ToGo
  <2> QED  BY <1>1, <2>1, <2>2, Where DEF ToGo
<1>4. PICK u \in Users : u = job[t].user
  BY <1>3
<1>5. /\ told[u] = None /\ job[t].n = drawn /\ drawn > 0 /\ session = None
      /\ t = "worker" => identities[u] = None
      /\ t = "gui" => identities[u] # None /\ job[t].n \in devices[u]
      /\ open # None /\ open.user = u /\ open.key = Key(t) /\ db[u] # None /\ db[u].key = Key(t)
      /\ salt[u] = job[t].n /\ job[t].key = Key(t) /\ kek = job[t].n
      /\ \A v \in Users : db[v] # None /\ db[v].kek # None => db[v].kek.kek < job[t].n
  BY <1>2, <1>3, <1>4 DEF SetUp, ToGo
<1>6. PICK row : row = [kek |-> job[t].n, under |-> Key(t)]
  OBVIOUS
<1>7. Key(t) # None /\ Key(t).salt = job[t].n
  BY <1>1, Where, MasterKeyTypes, NoneIsNone DEF Key, MasterKey
<1>8. GoOn(t) /\ SaveRow(t, "kek", row)
  BY <1>5, <1>6, <1>7 DEF SaveKek, SaveRow
<1>9. Goes(t) /\ job'[t].key = Key(t)
  BY <1>1, <1>3, <1>5, <1>8, Proceeds
<1>10. UNCHANGED <<salt, open, kek, session, inside, identities, devices, told, drawn>>
  BY DEF SaveKek, memory, server
<1>11. /\ db'[u] # None /\ db'[u].key = Key(t) /\ db'[u].kek = row
       /\ \A v \in Users : v # u => db'[v] = db[v]
  <2>1. TypeInv /\ open' = open /\ open # None /\ u = open.user /\ db[u].key # None /\ "kek" \in {"kek", "identity", "device"}
    BY <1>5, <1>7, <1>10 DEF Inv
  <2>2. /\ db'[u] # None /\ db'[u].key = db[u].key
        /\ db'[u].kek = IF "kek" = "kek" THEN row ELSE db[u].kek
        /\ db'[u].identity = IF "kek" = "identity" THEN row ELSE db[u].identity
        /\ \A v \in Users : v # u => db'[v] = db[v]
    BY <1>8, <2>1, RowSaved
  <2> QED  BY <1>5, <2>2
<1> HIDE <1>8
<1>12. SetUp(t)'
  <2>1. /\ job'[t].user = u /\ job'[t].n = job[t].n /\ Key(t)' = Key(t) /\ ToGo(t)' = 8
        /\ Left(t)' = Left(t) - 1
    BY <1>3, <1>4, <1>9, GoesFacts
  <2>2. t = "worker" => Left(t)' = 11
    BY <1>3, <2>1 DEF ToGo
  <2> QED  BY <1>5, <1>6, <1>9, <1>10, <1>11, <2>1, <2>2 DEF SetUp
<1>13. Drawn'
  <2>1. row.kek = drawn /\ row.under.salt = drawn /\ drawn \in Nat
    BY <1>5, <1>6, <1>7, RestOf DEF Inv, Numbers
  <2>2. \A v \in Users : v # u /\ db[v] # None /\ db[v].kek # None => db[v].kek.kek # row.kek
    <3> SUFFICES ASSUME NEW v \in Users, db[v] # None, db[v].kek # None PROVE db[v].kek.kek # row.kek
      OBVIOUS
    <3>1. db[v].kek.kek < drawn
      BY <1>5
    <3>2. db[v].kek.kek \in Nat
      BY TypesOf DEF Inv, Files, KekRows, Numbers
    <3> QED  BY <2>1, <3>1, <3>2
  <2> QED  BY <1>10, <1>11, <2>1, <2>2, DrawnBut DEF Inv
<1>14. \A v \in Users : v # u => Same(v)
  BY <1>10, <1>11 DEF Same
<1> QED  BY <1>2, <1>3, <1>4, <1>9, <1>10, <1>12, <1>13, <1>14, SetUpGoes

LEMMA SaveIdentityInv ==
  ASSUME Inv, TypeInv', NEW t \in Threads, SaveIdentity(t)
  PROVE  Inv'
<1>1. AtStep(t, "saveIdentity")
  BY DEF SaveIdentity
<1>2. SettingUp(t) /\ SetUp(t)
  BY <1>1, InSetUp
<1>3. t = "worker" /\ ~Idle(t) /\ Left(t) = 11 /\ ToGo(t) = 8 /\ job[t].user \in Users
  <2>1. Place(Kind(t), Left(t) - 1, "saveIdentity") /\ (Kind(t) = "register" <=> t = "worker") /\ Left(t) \in Nat
    BY <1>1, Where
  <2>2. Kind(t) = "register" /\ Left(t) = 11
    BY <2>1 DEF Place
  <2> QED  BY <1>1, <2>1, <2>2, Where DEF ToGo
<1>4. PICK u \in Users : u = job[t].user
  BY <1>3
<1>5. /\ told[u] = None /\ job[t].n = drawn /\ drawn > 0 /\ session = None
      /\ identities[u] = None
      /\ open # None /\ open.user = u /\ open.key = Key(t) /\ db[u] # None /\ db[u].key = Key(t)
      /\ salt[u] = job[t].n /\ job[t].key = Key(t) /\ kek = job[t].n
      /\ db[u].kek = [kek |-> job[t].n, under |-> Key(t)]
  BY <1>2, <1>3, <1>4 DEF SetUp
<1>6. PICK row : row = [pair |-> job[t].n, under |-> job[t].n]
  OBVIOUS
<1>7. Key(t) # None /\ kek # None
  BY <1>1, <1>5, Where, MasterKeyTypes, NoneIsNone DEF Key
<1>8. GoOn(t) /\ SaveRow(t, "identity", row)
  <2>1. SaveRow(t, "identity", NewKeyPair(t))
    BY <1>7, Zenon DEF SaveIdentity
  <2> QED  BY <1>5, <1>6, <1>7, <2>1 DEF SaveRow, NewKeyPair
<1>9. Goes(t) /\ job'[t].key = Key(t)
  BY <1>1, <1>3, <1>5, <1>8, Proceeds
<1>10. UNCHANGED <<salt, open, kek, session, inside, identities, devices, told, drawn>>
  BY DEF SaveIdentity, memory, server
<1>11. /\ db'[u] # None /\ db'[u].key = Key(t) /\ db'[u].kek = db[u].kek /\ db'[u].identity = row
       /\ \A v \in Users : v # u => db'[v] = db[v]
  <2>1. TypeInv /\ open' = open /\ open # None /\ u = open.user /\ db[u].key # None /\ "identity" \in {"kek", "identity", "device"}
    BY <1>5, <1>7, <1>10 DEF Inv
  <2>2. /\ db'[u] # None /\ db'[u].key = db[u].key
        /\ db'[u].kek = IF "identity" = "kek" THEN row ELSE db[u].kek
        /\ db'[u].identity = IF "identity" = "identity" THEN row ELSE db[u].identity
        /\ \A v \in Users : v # u => db'[v] = db[v]
    BY <1>8, <2>1, RowSaved
  <2> QED  BY <1>5, <2>2
<1> HIDE <1>8
<1>12. SetUp(t)'
  <2>1. /\ job'[t].user = u /\ job'[t].n = job[t].n /\ Key(t)' = Key(t) /\ ToGo(t)' = 7
        /\ Left(t)' = 10
    BY <1>3, <1>4, <1>9, GoesFacts
  <2> QED  BY <1>3, <1>5, <1>6, <1>9, <1>10, <1>11, <2>1 DEF SetUp
<1>13. Drawn'
  BY <1>5, <1>10, <1>11, DrawnBut DEF Inv
<1>14. \A v \in Users : v # u => Same(v)
  BY <1>10, <1>11 DEF Same
<1> QED  BY <1>2, <1>3, <1>4, <1>9, <1>10, <1>12, <1>13, <1>14, SetUpGoes

LEMMA PostUserInv ==
  ASSUME Inv, TypeInv', NEW t \in Threads, PostUser(t)
  PROVE  Inv'
<1>1. AtStep(t, "postUser")
  BY DEF PostUser
<1>2. SettingUp(t) /\ SetUp(t)
  BY <1>1, InSetUp
<1>3. t = "worker" /\ ~Idle(t) /\ Left(t) = 10 /\ ToGo(t) = 7 /\ job[t].user \in Users
  <2>1. Place(Kind(t), Left(t) - 1, "postUser") /\ (Kind(t) = "register" <=> t = "worker") /\ Left(t) \in Nat
    BY <1>1, Where
  <2>2. Kind(t) = "register" /\ Left(t) = 10
    BY <2>1 DEF Place
  <2> QED  BY <1>1, <2>1, <2>2, Where DEF ToGo
<1>4. PICK u \in Users : u = job[t].user
  BY <1>3
<1>5. /\ told[u] = None /\ job[t].n = drawn /\ drawn > 0 /\ session = None
      /\ identities[u] = None
      /\ open # None /\ open.user = u /\ open.key = Key(t) /\ db[u] # None /\ db[u].key = Key(t)
      /\ salt[u] = job[t].n /\ job[t].key = Key(t) /\ kek = job[t].n
      /\ db[u].kek = [kek |-> job[t].n, under |-> Key(t)]
      /\ db[u].identity = [pair |-> job[t].n, under |-> job[t].n]
  BY <1>2, <1>3, <1>4 DEF SetUp
<1>6. GoOn(t) /\ identities' = [identities EXCEPT ![u] = job[t].n]
  BY <1>4, <1>5 DEF PostUser
<1>7. identities'[u] = job[t].n /\ \A v \in Users : v # u => identities'[v] = identities[v]
  BY <1>6, RestOf DEF Inv
<1>9. Goes(t) /\ job'[t].key = Key(t)
  BY <1>1, <1>3, <1>5, <1>6, Proceeds
<1>10. UNCHANGED <<salt, db, open, kek, session, inside, devices, told, drawn>>
  BY DEF PostUser, memory, files
<1>12. SetUp(t)'
  <2>1. /\ job'[t].user = u /\ job'[t].n = job[t].n /\ Key(t)' = Key(t) /\ ToGo(t)' = 6
        /\ Left(t)' = 9
    BY <1>3, <1>4, <1>9, GoesFacts
  <2> QED  BY <1>3, <1>5, <1>7, <1>9, <1>10, <2>1 DEF SetUp
<1>13. Drawn'
  BY <1>10, SameDrawn, RestOf DEF Numbers, Inv
<1>14. \A v \in Users : v # u => Same(v)
  BY <1>7, <1>10 DEF Same
<1> QED  BY <1>2, <1>3, <1>4, <1>9, <1>10, <1>12, <1>13, <1>14, SetUpGoes

(* A client has been set up, and its handler comes to the login.           *)
LEMMA SetUpEnds ==
  ASSUME Inv, TypeInv', Drawn', NEW t \in Threads, SettingUp(t), Goes(t), Left(t) = 8,
         NEW u \in Users, u = job[t].user, Login(t)', told[u] = None,
         inside' = inside, told' = told,
         \A v \in Users : v # u => Same(v)
  PROVE  Inv'
<1>1. SettingUp(t)' /\ Left(t)' = 7 /\ Kind(t)' \in {"register", "setUp"} /\ job'[t].user = u
  BY DEF SettingUp, Goes
<1>2. Stage(t)'
  BY <1>1 DEF Stage, ChangingBy
<1>3. \A v \in Users : Same(v) \/ (SettingUp(t) /\ v = u)
  OBVIOUS
<1> QED  BY <1>2, <1>3, LetsIn DEF SettingUp

LEMMA SaveDeviceInv ==
  ASSUME Inv, TypeInv', NEW t \in Threads, SaveDevice(t)
  PROVE  Inv'
<1>1. AtStep(t, "saveDevice")
  BY DEF SaveDevice
<1>2. SettingUp(t) /\ SetUp(t)
  BY <1>1, InSetUp
<1>3. /\ \/ t = "worker" /\ Left(t) = 9 /\ ToGo(t) = 6
         \/ t = "gui" /\ Left(t) = 8 /\ ToGo(t) = 8
      /\ ~Idle(t) /\ job[t].user \in Users
  <2>1. /\ Place(Kind(t), Left(t) - 1, "saveDevice") /\ (Kind(t) = "register" <=> t = "worker") /\ Left(t) \in Nat
        /\ (t = "gui" \/ t = "worker")
    BY <1>1, Where
  <2>2. (t = "worker" /\ Left(t) = 9) \/ (t = "gui" /\ Left(t) = 8)
    <3> DEFINE k == Kind(t)
               n == Left(t)
    <3> HIDE DEF k, n
    <3>1. n \in Nat /\ Place(k, n - 1, "saveDevice") /\ (k = "register" <=> t = "worker") /\ (t = "gui" \/ t = "worker")
      BY <2>1 DEF k, n
    <3>2. (k = "register" /\ n = 9) \/ (k = "setUp" /\ n = 8)
      BY <3>1 DEF Place
    <3> QED  BY <3>1, <3>2 DEF n
  <2> QED  BY <1>1, <2>1, <2>2, Where, ThreadsAre DEF ToGo
<1>4. PICK u \in Users : u = job[t].user
  BY <1>3
<1>5. /\ told[u] = None /\ job[t].n = drawn /\ drawn > 0 /\ session = None
      /\ t = "worker" => identities[u] = job[t].n
      /\ t = "gui" => identities[u] # None /\ job[t].n \in devices[u]
      /\ open # None /\ open.user = u /\ open.key = Key(t) /\ db[u] # None /\ db[u].key = Key(t)
      /\ salt[u] = job[t].n /\ job[t].key = Key(t) /\ kek = job[t].n
      /\ db[u].kek = [kek |-> job[t].n, under |-> Key(t)]
      /\ t = "worker" => db[u].identity = [pair |-> job[t].n, under |-> job[t].n]
  BY <1>2, <1>3, <1>4 DEF SetUp
<1>6. PICK row : row = [pair |-> job[t].n, under |-> job[t].n]
  OBVIOUS
<1>7. Key(t) # None /\ kek # None
  BY <1>1, <1>5, Where, MasterKeyTypes, NoneIsNone DEF Key
<1>8. GoOn(t) /\ SaveRow(t, "device", row)
  <2>1. SaveRow(t, "device", NewKeyPair(t))
    BY <1>7, Zenon DEF SaveDevice
  <2> QED  BY <1>5, <1>6, <1>7, <2>1 DEF SaveRow, NewKeyPair
<1>9. Goes(t) /\ job'[t].key = Key(t)
  BY <1>1, <1>3, <1>5, <1>8, Proceeds
<1>10. UNCHANGED <<salt, open, kek, session, inside, identities, devices, told, drawn>>
  BY DEF SaveDevice, memory, server
<1>11. /\ db'[u] # None /\ db'[u].key = Key(t) /\ db'[u].kek = db[u].kek
       /\ db'[u].identity = db[u].identity /\ db'[u].device = row
       /\ \A v \in Users : v # u => db'[v] = db[v]
  <2>1. TypeInv /\ open' = open /\ open # None /\ u = open.user /\ db[u].key # None /\ "device" \in {"kek", "identity", "device"}
    BY <1>5, <1>7, <1>10 DEF Inv
  <2>2. /\ db'[u] # None /\ db'[u].key = db[u].key
        /\ db'[u].kek = IF "device" = "kek" THEN row ELSE db[u].kek
        /\ db'[u].identity = IF "device" = "identity" THEN row ELSE db[u].identity
        /\ db'[u].device = IF "device" = "device" THEN row ELSE db[u].device
        /\ \A v \in Users : v # u => db'[v] = db[v]
    BY <1>8, <2>1, RowSaved
  <2> QED  BY <1>5, <2>2
<1> HIDE <1>8
<1>12. Drawn'
  BY <1>5, <1>10, <1>11, DrawnBut DEF Inv
<1>13. \A v \in Users : v # u => Same(v)
  BY <1>10, <1>11 DEF Same
<1>14. job'[t].user = u /\ job'[t].n = job[t].n /\ Key(t)' = Key(t) /\ Left(t)' = Left(t) - 1 /\ ToGo(t)' = ToGo(t) - 1
  BY <1>3, <1>4, <1>9, GoesFacts
<1>15. CASE t = "worker"
  <2>1. SetUp(t)'
    BY <1>3, <1>5, <1>6, <1>9, <1>10, <1>11, <1>14, <1>15 DEF SetUp
  <2> QED  BY <1>2, <1>3, <1>4, <1>9, <1>10, <1>12, <1>13, <1>15, <2>1, SetUpGoes
<1>16. CASE t = "gui"
  <2>1. job'[t].pass = job[t].pass /\ Key(t) = MasterKey(job[t].n, job[t].pass)
    BY <1>9 DEF Goes, Key
  <2>2. Works(u, job[t].pass)'
    <3>1. job[t].n # None /\ row # None
      BY <1>1, <1>6, Where, NoneIsNone DEF KeyRows
    <3>2. db[u].kek # None /\ db[u].kek.under = Key(t) /\ db[u].kek.kek = job[t].n
      BY <1>1, <1>5, Where, MasterKeyTypes, NoneIsNone DEF KekRows, Key
    <3> QED  BY <1>5, <1>6, <1>10, <1>11, <1>16, <2>1, <3>1, <3>2 DEF Works
  <2>3. Login(t)'
    BY <1>3, <1>5, <1>10, <1>11, <1>14, <1>16, <2>1, <2>2 DEF Login
  <2> QED  BY <1>2, <1>3, <1>4, <1>5, <1>9, <1>10, <1>12, <1>13, <1>16, <2>3, SetUpEnds
<1> QED  BY <1>3, <1>15, <1>16

LEMMA PostDeviceInv ==
  ASSUME Inv, TypeInv', NEW t \in Threads, PostDevice(t)
  PROVE  Inv'
<1>1. AtStep(t, "postDevice")
  BY DEF PostDevice
<1>2. SettingUp(t) /\ SetUp(t)
  BY <1>1, InSetUp
<1>3. t = "worker" /\ ~Idle(t) /\ Left(t) = 8 /\ ToGo(t) = 5 /\ job[t].user \in Users
  <2>1. Place(Kind(t), Left(t) - 1, "postDevice") /\ (Kind(t) = "register" <=> t = "worker") /\ Left(t) \in Nat
    BY <1>1, Where
  <2>2. Kind(t) = "register" /\ Left(t) = 8
    BY <2>1 DEF Place
  <2> QED  BY <1>1, <2>1, <2>2, Where DEF ToGo
<1>4. PICK u \in Users : u = job[t].user
  BY <1>3
<1>5. /\ told[u] = None /\ job[t].n = drawn /\ drawn > 0 /\ session = None
      /\ identities[u] = job[t].n
      /\ open # None /\ open.user = u /\ open.key = Key(t) /\ db[u] # None /\ db[u].key = Key(t)
      /\ salt[u] = job[t].n /\ job[t].key = Key(t) /\ kek = job[t].n
      /\ db[u].kek = [kek |-> job[t].n, under |-> Key(t)]
      /\ db[u].identity = [pair |-> job[t].n, under |-> job[t].n]
      /\ db[u].device = [pair |-> job[t].n, under |-> job[t].n]
  BY <1>2, <1>3, <1>4 DEF SetUp
<1>6. Key(t) # None /\ job[t].n # None /\ job[t].n \in Numbers
  BY <1>1, Where, MasterKeyTypes, NoneIsNone DEF Key
<1>7. db[u].kek # None /\ db[u].identity # None /\ db[u].device # None
  <2>1. Key(t) \in MasterKeys
    BY <1>1, Where, MasterKeyTypes DEF Key
  <2> QED  BY <1>5, <1>6, <2>1, NoneIsNone DEF KekRows, KeyRows
<1>8. Decrypted("identity") = job[t].n
  BY <1>5, <1>6, <1>7 DEF Decrypted
<1>9. PICK owners : owners = {v \in Users : job[t].n # None /\ identities[v] = job[t].n}
  OBVIOUS
<1>10. /\ GoOn(t)
       /\ devices' = [v \in Users |-> devices[v] \cup IF v \in owners THEN {job[t].n} ELSE {}]
  <2>1. u \in owners
    BY <1>5, <1>6, <1>9
  <2> QED  BY <1>8, <1>9, <2>1 DEF PostDevice
<1>11. job[t].n \in devices'[u] /\ \A v \in Users : devices[v] \subseteq devices'[v]
  BY <1>5, <1>6, <1>9, <1>10
<1>12. Goes(t) /\ job'[t].key = Key(t)
  BY <1>1, <1>3, <1>5, <1>10, Proceeds
<1>13. UNCHANGED <<salt, db, open, kek, session, inside, identities, told, drawn>>
  BY DEF PostDevice, memory, files
<1>14. Drawn'
  BY <1>13, SameDrawn, RestOf DEF Numbers, Inv
<1>15. \A v \in Users : v # u => Same(v)
  BY <1>11, <1>13 DEF Same
<1>16. Login(t)'
  <2>1. job'[t].user = u /\ job'[t].pass = job[t].pass /\ Left(t)' = 7 /\ Key(t) = MasterKey(job[t].n, job[t].pass)
    BY <1>3, <1>4, <1>12 DEF Goes, Key
  <2>2. Works(u, job[t].pass)'
    BY <1>5, <1>6, <1>7, <1>11, <1>13, <2>1 DEF Works
  <2> QED  BY <1>5, <1>6, <1>13, <2>1, <2>2 DEF Login
<1> QED  BY <1>2, <1>3, <1>4, <1>5, <1>12, <1>13, <1>14, <1>15, <1>16, SetUpEnds

-----------------------------------------------------------------------------
(* Logging in.                                                             *)

(* What u has been told when the passphrase is known to be right.          *)
Told(t) ==
  \/ SettingUp(t) /\ told[job[t].user] = None
  \/ ~SettingUp(t) /\ told[job[t].user] = job[t].pass

LEMMA InLogin ==
  ASSUME Inv, NEW t \in Threads, NEW a, AtStep(t, a),
         a \in {"loadKek", "authenticate", "loadRatchets", "postKeys", "enter"}
  PROVE  /\ Login(t) /\ Told(t) /\ Kind(t) \notin {"change", "logout"}
         /\ Left(t) = CASE a = "loadKek" -> 5 [] a = "authenticate" -> 4 [] a = "loadRatchets" -> 3
                        [] a = "postKeys" -> 2 [] a = "enter" -> 1
<1>1. ~Idle(t) /\ Left(t) \in Nat /\ Place(Kind(t), Left(t) - 1, a)
  BY Where
<1>2. /\ Kind(t) \in {"register", "setUp", "login"}
      /\ Left(t) = CASE a = "loadKek" -> 5 [] a = "authenticate" -> 4 [] a = "loadRatchets" -> 3
                     [] a = "postKeys" -> 2 [] a = "enter" -> 1
  <2> DEFINE k == Kind(t)
             n == Left(t)
  <2> HIDE DEF k, n
  <2>1. n \in Nat /\ Place(k, n - 1, a)
    BY <1>1 DEF k, n
  <2>2. /\ k \in {"register", "setUp", "login"}
        /\ n = CASE a = "loadKek" -> 5 [] a = "authenticate" -> 4 [] a = "loadRatchets" -> 3
                  [] a = "postKeys" -> 2 [] a = "enter" -> 1
    BY <2>1 DEF Place
  <2> QED  BY <2>2 DEF k, n
<1>3. Left(t) <= 5
  BY <1>2
<1>4. Login(t) /\ Told(t)
  <2>1. Stage(t)
    BY DEF Inv
  <2>2. CASE Kind(t) = "login"
    <3>1. ~SettingUp(t)
      BY <2>2 DEF SettingUp
    <3> QED  BY <1>1, <1>3, <2>1, <2>2, <3>1 DEF Stage, Told
  <2>3. CASE Kind(t) # "login"
    <3>1. SettingUp(t)
      BY <1>1, <1>2, <2>3 DEF SettingUp
    <3> QED  BY <1>1, <1>3, <2>1, <3>1 DEF Stage, Told
  <2> QED  BY <2>2, <2>3
<1> QED  BY <1>2, <1>4

LEMMA LoginGoes ==
  ASSUME Inv, TypeInv', NEW t \in Threads, Goes(t), Kind(t) \in {"register", "setUp", "login"},
         Left(t) \in Nat, Left(t) <= IF SettingUp(t) THEN 7 ELSE 6, NEW u \in Users, u = job[t].user,
         Told(t), Login(t)', UNCHANGED <<salt, db, inside, identities, devices, told, drawn>>
  PROVE  Inv'
<1>1. /\ ~Idle(t)' /\ Kind(t)' = Kind(t) /\ job'[t].user = u /\ job'[t].pass = job[t].pass
      /\ Left(t)' = Left(t) - 1 /\ ~Idle(t)
  BY DEF Goes
<1>2. SettingUp(t)' <=> SettingUp(t)
  BY <1>1 DEF SettingUp
<1>3. Stage(t)'
  <2>1. ~ChangingBy(t)'
    BY <1>1 DEF ChangingBy
  <2>2. CASE SettingUp(t)
    <3>1. told'[u] = None /\ Left(t)' <= 7 /\ Kind(t)' # "login"
      BY <1>1, <2>2 DEF Told, SettingUp
    <3> QED  BY <1>1, <2>1, <3>1 DEF Stage
  <2>3. CASE ~SettingUp(t)
    <3>1. told'[u] = job[t].pass /\ Kind(t)' = "login" /\ ~SettingUp(t)'
      BY <1>1, <1>2, <2>3 DEF Told, SettingUp
    <3>2. ~(Left(t)' > 5)
      BY <1>1, <2>3
    <3> QED  BY <1>1, <2>1, <3>1, <3>2 DEF Stage
  <2> QED  BY <2>2, <2>3
<1>4. Drawn'
  BY SameDrawn, RestOf DEF Numbers, Inv
<1>5. \A v \in Users : Same(v)
  BY DEF Same
<1> QED  BY <1>1, <1>3, <1>4, <1>5, LetsIn

(* Nothing is let in: the handler throws, and all is as it was.            *)
LEMMA KnockFails ==
  ASSUME Inv, TypeInv', NEW t \in Threads, ~Idle(t), Kind(t) = "login", Knock(t), Throw(t),
         UNCHANGED <<files, memory, server, told, drawn>>
  PROVE  Inv'
<1>1. Idle(t)' /\ Only(t) /\ Quiet'
  BY Ends
<1>2. Drawn'
  BY SameDrawn, RestOf DEF Numbers, Inv, files
<1>3. \A v \in Users : Same(v)
  BY DEF Same, files, server
<1>4. PICK u \in Users : u = job[t].user /\ Plain(u)
  BY LoginPlain
<1>5. \A v \in Users : v # u => Settled(v)'
  BY <1>1, <1>3, <1>4, OthersSettled
<1>6. Settled(u)'
  BY <1>3, <1>4, PlainStays, PlainSettled
<1>7. \A v \in Users : Settled(v)'
  BY <1>5, <1>6
<1>8. ~inside' /\ Locked'
  BY LettingIn DEF Knock, Locked, memory
<1> QED  BY <1>1, <1>2, <1>7, <1>8, QuietInv

LEMMA DeriveInv ==
  ASSUME Inv, TypeInv', NEW t \in Threads, Derive(t)
  PROVE  Inv'
<1>1. AtStep(t, "derive")
  BY DEF Derive
<1>2. ~Idle(t) /\ Kind(t) \in {"register", "setUp", "login"} /\ Left(t) = 7 /\ job[t].user \in Users
  <2>1. ~Idle(t) /\ Left(t) \in Nat /\ Place(Kind(t), Left(t) - 1, "derive") /\ job[t].user \in Users
    BY <1>1, Where
  <2> DEFINE k == Kind(t)
             n == Left(t)
  <2> HIDE DEF k, n
  <2>2. n \in Nat /\ Place(k, n - 1, "derive")
    BY <2>1 DEF k, n
  <2>3. k \in {"register", "setUp", "login"} /\ n = 7
    BY <2>2 DEF Place
  <2> QED  BY <2>1, <2>3 DEF k, n
<1>3. PICK u \in Users : u = job[t].user
  BY <1>2
<1>4. UNCHANGED <<salt, db, open, kek, session, inside, identities, devices, told, drawn>>
  BY DEF Derive, files, memory, server
<1>5. ASSUME salt[u] # None, job' = [job EXCEPT ![t].steps = Tail(@), ![t].key = MasterKey(salt[u], job[t].pass)]
      PROVE  Goes(t) /\ job'[t].key = MasterKey(salt[u], job[t].pass)
  <2>1. MasterKey(salt[u], job[t].pass) \in MasterKeys
    BY <1>1, <1>5, Where, RestOf, MasterKeyTypes DEF Inv
  <2>2. PICK k \in MasterKeys : k = MasterKey(salt[u], job[t].pass)
    BY <2>1
  <2>3. job' = [job EXCEPT ![t].steps = Tail(@), ![t].key = k]
    BY <1>5, <2>2
  <2>4. Left(t) # 1
    BY <1>2
  <2> QED  BY <1>2, <2>2, <2>3, <2>4, ProceedsWithKey
<1>6. CASE SettingUp(t)
  <2>1. Login(t) /\ Told(t)
    BY <1>2, <1>6 DEF Inv, Stage, Told
  <2>2. salt[u] # None
    BY <1>3, <2>1 DEF Login, Works
  <2>3. Goes(t) /\ job'[t].key = MasterKey(salt[u], job[t].pass)
    BY <1>3, <1>5, <2>2 DEF Derive
  <2>4. /\ job'[t].user = u /\ job'[t].pass = job[t].pass /\ Left(t)' = 6
    BY <1>2, <1>3, <2>3 DEF Goes
  <2>5. Works(u, job[t].pass)'
    BY <1>3, <1>4, <2>1, <2>4 DEF Login, Works
  <2>6. Login(t)'
    BY <1>2, <1>3, <1>4, <2>1, <2>3, <2>4, <2>5 DEF Login
  <2> QED  BY <1>2, <1>3, <1>4, <1>6, <2>1, <2>3, <2>6, LoginGoes
<1>7. CASE ~SettingUp(t)
  <2>1. Kind(t) = "login"
    BY <1>2, <1>7 DEF SettingUp
  <2>2. Knock(t)
    BY <1>2, <2>1 DEF Inv, Stage
  <2>3. CASE Throw(t)
    BY <1>2, <2>1, <2>2, <2>3, KnockFails DEF Derive
  <2>4. CASE salt[u] # None /\ job' = [job EXCEPT ![t].steps = Tail(@), ![t].key = MasterKey(salt[u], job[t].pass)]
    <3>1. Goes(t) /\ job'[t].key = MasterKey(salt[u], job[t].pass)
      BY <1>5, <2>4
    <3>2. /\ job'[t].user = u /\ job'[t].pass = job[t].pass /\ Left(t)' = 6 /\ Kind(t)' = "login" /\ ~Idle(t)'
      BY <1>2, <1>3, <2>1, <3>1 DEF Goes
    <3>3. Knock(t)'
      BY <1>3, <1>4, <2>2, <2>4, <3>1, <3>2 DEF Knock, Locked
    <3>4. Stage(t)'
      BY <3>2, <3>3 DEF Stage, SettingUp, ChangingBy
    <3>5. Drawn'
      BY <1>4, SameDrawn, RestOf DEF Numbers, Inv
    <3>6. \A v \in Users : Same(v)
      BY <1>4 DEF Same
    <3> QED  BY <1>3, <1>4, <2>1, <3>1, <3>4, <3>5, <3>6, LetsIn
  <2> QED  BY <1>3, <2>3, <2>4 DEF Derive
<1> QED  BY <1>6, <1>7

LEMMA MasterKeyIs ==
  ASSUME NEW s, NEW p, NEW r, NEW q
  PROVE  MasterKey(s, p) = MasterKey(r, q) <=> s = r /\ p = q
BY DEF MasterKey

(* The file of a user who has been told a passphrase opens with that one,   *)
(* and with no other.                                                      *)
LEMMA InitializeKnock ==
  ASSUME Inv, TypeInv', NEW t \in Threads, Initialize(t), ~SettingUp(t)
  PROVE  Inv'
<1>1. AtStep(t, "initialize")
  BY DEF Initialize
<1>2. ~Idle(t) /\ Kind(t) = "login" /\ Left(t) = 6 /\ job[t].user \in Users
  <2>1. ~Idle(t) /\ Left(t) \in Nat /\ Place(Kind(t), Left(t) - 1, "initialize") /\ job[t].user \in Users
    BY <1>1, Where
  <2> DEFINE k == Kind(t)
             n == Left(t)
  <2>2. k \notin {"register", "setUp"}
    BY <2>1 DEF SettingUp
  <2> HIDE DEF k, n
  <2>3. n \in Nat /\ Place(k, n - 1, "initialize")
    BY <2>1 DEF k, n
  <2>4. k = "login" /\ n = 6
    BY <2>2, <2>3 DEF Place
  <2> QED  BY <2>1, <2>4 DEF k, n
<1>3. PICK u \in Users : u = job[t].user /\ Plain(u)
  BY <1>2, LoginPlain
<1>4. Locked /\ salt[u] # None /\ job[t].key = MasterKey(salt[u], job[t].pass)
  BY <1>2, <1>3 DEF Inv, Stage, Knock
<1>5. /\ told[u] # None /\ Works(u, told[u]) /\ identities[u] # None
      /\ db[u] # None /\ db[u].key = MasterKey(salt[u], told[u]) /\ db[u].key # None
  BY <1>3, <1>4 DEF Plain, Kept, Works
<1>6. UNCHANGED <<salt, kek, session, inside, identities, devices, told, drawn>>
  BY DEF Initialize, server
<1>7. CASE job[t].pass = told[u]
  <2>1. Fits(u, job[t].key)
    BY <1>4, <1>5, <1>7 DEF Fits
  <2>2. GoOn(t) /\ open' = [user |-> u, key |-> job[t].key] /\ db' = [db EXCEPT ![u] = db[u]]
    BY <1>3, <1>4, <1>5, <2>1 DEF Initialize, AfterOpening, Locked
  <2>3. db' = db
    BY <2>2, TypesOf DEF Inv
  <2>4. Goes(t) /\ job'[t].key = job[t].key
    BY <1>1, <1>2, <2>2, Proceeds
  <2>5. open' # None /\ open'.user = u
    BY <1>1, <1>3, <2>2, HasKey, NoneIsNone DEF Handles, Inv, TypeInv
  <2>6. /\ job'[t].user = u /\ job'[t].pass = job[t].pass /\ Left(t)' = 5
    BY <1>2, <1>3, <2>4 DEF Goes
  <2>7. Works(u, job[t].pass)'
    BY <1>5, <1>6, <1>7, <2>3, <2>6 DEF Works
  <2>8. Login(t)'
    BY <1>4, <1>5, <1>6, <1>7, <2>3, <2>4, <2>5, <2>6, <2>7 DEF Login, Locked
  <2> QED  BY <1>2, <1>3, <1>6, <1>7, <2>3, <2>4, <2>8, LoginGoes DEF Told
<1>8. CASE job[t].pass # told[u]
  <2>1. ~Fits(u, job[t].key)
    BY <1>4, <1>5, <1>8, MasterKeyIs DEF Fits
  <2>2. Throw(t) /\ UNCHANGED <<open, db>>
    BY <1>3, <1>4, <2>1 DEF Initialize, Locked
  <2>3. Knock(t)
    BY <1>2 DEF Inv, Stage
  <2>4. UNCHANGED <<files, memory, server, told, drawn>>
    BY <2>2 DEF Initialize, files, memory
  <2> QED  BY <1>2, <2>2, <2>3, <2>4, KnockFails
<1> QED  BY <1>7, <1>8

LEMMA InitializeInv ==
  ASSUME Inv, TypeInv', NEW t \in Threads, Initialize(t)
  PROVE  Inv'
<1>1. AtStep(t, "initialize")
  BY DEF Initialize
<1>2. ~Idle(t) /\ Left(t) \in Nat /\ Place(Kind(t), Left(t) - 1, "initialize") /\ job[t].user \in Users
  BY <1>1, Where
<1>3. CASE SettingUp(t) /\ Left(t) <= 7
  <2>1. Left(t) = 6 /\ Kind(t) \in {"register", "setUp", "login"}
    BY <1>2, <1>3 DEF Place, SettingUp
  <2>2. Login(t) /\ Told(t)
    BY <1>3 DEF Inv, Stage, Told
  <2>3. PICK u \in Users : u = job[t].user
    BY <1>2
  <2>4. GoOn(t) /\ UNCHANGED <<open, db>>
    BY <2>2 DEF Initialize, Login
  <2>5. Goes(t) /\ job'[t].key = job[t].key
    BY <1>1, <2>1, <2>4, Proceeds
  <2>6. UNCHANGED <<salt, kek, session, inside, identities, devices, told, drawn>>
    BY DEF Initialize, server
  <2>7. /\ job'[t].user = u /\ job'[t].pass = job[t].pass /\ Left(t)' = 5
    BY <2>1, <2>3, <2>5 DEF Goes
  <2>8. Works(u, job[t].pass)'
    BY <2>2, <2>3, <2>4, <2>6, <2>7 DEF Login, Works
  <2>9. Login(t)'
    BY <2>1, <2>2, <2>3, <2>4, <2>5, <2>6, <2>7, <2>8 DEF Login
  <2> QED  BY <1>3, <2>1, <2>2, <2>3, <2>4, <2>5, <2>6, <2>9, LoginGoes
<1> QED  BY <1>2, <1>3, InitializeSetUp, InitializeKnock

LEMMA LoadKekInv ==
  ASSUME Inv, TypeInv', NEW t \in Threads, LoadKek(t)
  PROVE  Inv'
<1>1. AtStep(t, "loadKek")
  BY DEF LoadKek
<1>2. Login(t) /\ Told(t) /\ Kind(t) \in {"register", "setUp", "login"} /\ Left(t) = 5
  BY <1>1, InLogin, HasKey DEF Inv, TypeInv
<1>3. PICK u \in Users : u = job[t].user
  BY <1>1, Where
<1>4. /\ Works(u, job[t].pass) /\ identities[u] # None /\ told[u] \in {None, job[t].pass}
      /\ open # None /\ open.user = u /\ job[t].key = MasterKey(salt[u], job[t].pass)
      /\ session = None
  BY <1>2, <1>3 DEF Login
<1>5. KekRow = db[u].kek /\ KekOpens(job[t].key)
  BY <1>4 DEF KekOpens, KekRow, Works
<1>6. GoOn(t) /\ kek' = db[u].kek.kek
  BY <1>5 DEF LoadKek
<1>7. Goes(t) /\ job'[t].key = job[t].key
  BY <1>1, <1>2, <1>6, Proceeds
<1>8. UNCHANGED <<salt, db, open, session, inside, identities, devices, told, drawn>>
  BY DEF LoadKek, files, server
<1>9. /\ job'[t].user = u /\ job'[t].pass = job[t].pass /\ Left(t)' = 4
  BY <1>2, <1>3, <1>7 DEF Goes
<1>10. Works(u, job[t].pass)'
  BY <1>4, <1>8, <1>9 DEF Works
<1>11. Login(t)'
  BY <1>4, <1>6, <1>7, <1>8, <1>9, <1>10 DEF Login
<1> QED  BY <1>2, <1>3, <1>7, <1>8, <1>11, LoginGoes

(* The device key comes out of the database with the KEK that is loaded.   *)
LEMMA DeviceKeyReads ==
  ASSUME NEW u \in Users, NEW p, Works(u, p), p \in Passphrases, TypeInv,
         open # None, open.user = u, kek = db[u].kek.kek
  PROVE  Decrypted("device") = db[u].device.pair /\ Decrypted("device") \in devices[u] /\ Decrypted("device") # None
<1>1. salt[u] \in Numbers
  BY RestOf DEF Works
<1>2. db[u].key # None
  BY <1>1, MasterKeyTypes, NoneIsNone DEF Works
<1>3. db[u].device.under = kek /\ db[u].device # None
  BY DEF Works
<1>4. Decrypted("device") = db[u].device.pair
  BY <1>2, <1>3 DEF Decrypted
<1>5. db[u].device.pair \in devices[u]
  BY DEF Works
<1>6. db[u].device.pair \in Numbers
  BY <1>5, RestOf
<1> QED  BY <1>4, <1>5, <1>6, NoneIsNone

LEMMA AuthenticateInv ==
  ASSUME Inv, TypeInv', NEW t \in Threads, Authenticate(t)
  PROVE  Inv'
<1>1. AtStep(t, "authenticate")
  BY DEF Authenticate
<1>2. Login(t) /\ Told(t) /\ Kind(t) \in {"register", "setUp", "login"} /\ Left(t) = 4
  BY <1>1, InLogin, HasKey DEF Inv, TypeInv
<1>3. PICK u \in Users : u = job[t].user
  BY <1>1, Where
<1>4. /\ Works(u, job[t].pass) /\ identities[u] # None /\ told[u] \in {None, job[t].pass}
      /\ open # None /\ open.user = u /\ job[t].key = MasterKey(salt[u], job[t].pass)
      /\ kek = db[u].kek.kek
  BY <1>2, <1>3 DEF Login
<1>5. Decrypted("device") \in devices[u]
  BY <1>1, <1>4, Where, DeviceKeyReads DEF Inv
<1>6. GoOn(t) /\ session' = [user |-> u, pass |-> job[t].pass]
  BY <1>3, <1>5 DEF Authenticate
<1>7. Goes(t) /\ job'[t].key = job[t].key
  BY <1>1, <1>2, <1>6, Proceeds
<1>8. UNCHANGED <<salt, db, open, kek, inside, identities, devices, told, drawn>>
  BY DEF Authenticate, files, server
<1>9. /\ job'[t].user = u /\ job'[t].pass = job[t].pass /\ Left(t)' = 3
  BY <1>2, <1>3, <1>7 DEF Goes
<1>10. Works(u, job[t].pass)'
  BY <1>4, <1>8, <1>9 DEF Works
<1>11. Login(t)'
  BY <1>4, <1>6, <1>7, <1>8, <1>9, <1>10 DEF Login
<1> QED  BY <1>2, <1>3, <1>7, <1>8, <1>11, LoginGoes

LEMMA LoadRatchetsInv ==
  ASSUME Inv, TypeInv', NEW t \in Threads, LoadRatchets(t) \/ PostKeys(t)
  PROVE  Inv'
<1>1. PICK a \in {"loadRatchets", "postKeys"} : AtStep(t, a)
  BY DEF LoadRatchets, PostKeys
<1>2. Login(t) /\ Told(t) /\ Kind(t) \in {"register", "setUp", "login"} /\ Left(t) \in {2, 3}
  BY <1>1, InLogin, HasKey DEF Inv, TypeInv
<1>3. PICK u \in Users : u = job[t].user
  BY <1>1, Where
<1>4. /\ Works(u, job[t].pass) /\ identities[u] # None /\ told[u] \in {None, job[t].pass}
      /\ open # None /\ open.user = u /\ job[t].key = MasterKey(salt[u], job[t].pass)
      /\ kek = db[u].kek.kek /\ session = [user |-> u, pass |-> job[t].pass]
  BY <1>2, <1>3 DEF Login
<1>5. CanRequest
  <2>1. session # None
    BY <1>1, <1>4, Where, NoneIsNone DEF Tokens
  <2> QED  BY <1>1, <1>4, <2>1, Where, DeviceKeyReads DEF Inv, CanRequest
<1>6. GoOn(t)
  BY <1>4, <1>5 DEF LoadRatchets, PostKeys
<1>7. Goes(t) /\ job'[t].key = job[t].key
  BY <1>1, <1>2, <1>6, Proceeds
<1>8. UNCHANGED <<salt, db, open, kek, session, inside, identities, devices, told, drawn>>
  BY DEF LoadRatchets, PostKeys, files, memory, server
<1>9. /\ job'[t].user = u /\ job'[t].pass = job[t].pass /\ Left(t)' \in {1, 2}
  BY <1>2, <1>3, <1>7 DEF Goes
<1>10. Works(u, job[t].pass)'
  BY <1>4, <1>8, <1>9 DEF Works
<1>11. Login(t)'
  BY <1>4, <1>7, <1>8, <1>9, <1>10 DEF Login
<1> QED  BY <1>2, <1>3, <1>7, <1>8, <1>11, LoginGoes

LEMMA EnterInv ==
  ASSUME Inv, TypeInv', NEW t \in Threads, Enter(t)
  PROVE  Inv'
<1>1. AtStep(t, "enter") /\ GoOn(t)
  BY DEF Enter
<1>2. Login(t) /\ Left(t) = 1 /\ ~Idle(t)
  BY <1>1, InLogin, Where
<1>3. PICK u \in Users : u = job[t].user
  BY <1>1, Where
<1>4. PICK p \in Passphrases : p = job[t].pass /\ p # None
  BY <1>1, Where, NoneIsNone
<1>5. /\ Works(u, p) /\ identities[u] # None
      /\ open # None /\ open.user = u /\ kek = db[u].kek.kek
      /\ session = [user |-> u, pass |-> p]
  BY <1>2, <1>3, <1>4 DEF Login
<1>6. Idle(t)' /\ Only(t) /\ Quiet'
  BY <1>1, <1>2, Ends
<1>7. /\ UNCHANGED <<salt, db, open, kek, session, identities, devices, drawn>>
      /\ inside' = TRUE /\ told' = [told EXCEPT ![u] = p]
  BY <1>3, <1>4 DEF Enter, files, server
<1>8. told'[u] = p /\ \A v \in Users : v # u => told'[v] = told[v]
  BY <1>7, RestOf DEF Inv
<1>9. Drawn'
  BY <1>7, SameDrawn, RestOf DEF Numbers, Inv
<1>10. \A v \in Users : v # u => Settled(v)'
  <2>1. \A v \in Users : v # u => Same(v)
    BY <1>7, <1>8 DEF Same
  <2> QED  BY <1>3, <1>6, <2>1, OthersSettled
<1>11. Plain(u)'
  <2>1. Works(u, p)'
    BY <1>5, <1>7 DEF Works
  <2>2. Kept(u)'
    <3>1. db[u].key # None
      BY <1>5, RestOf, MasterKeyTypes, NoneIsNone DEF Inv, Works
    <3> QED  BY <1>5, <1>7, <3>1 DEF Works, Kept
  <2> QED  BY <1>4, <1>8, <2>1, <2>2 DEF Plain
<1>12. \A v \in Users : Settled(v)'
  BY <1>10, <1>11, PlainSettled
<1>13. LetIn'
  <2>1. session # None
    BY <1>4, <1>5, NoneIsNone DEF Tokens
  <2> QED  BY <1>4, <1>5, <1>7, <1>8, <2>1 DEF LetIn
<1> QED  BY <1>6, <1>7, <1>9, <1>12, <1>13, QuietInv

-----------------------------------------------------------------------------
(* Changing the passphrase, logging out and leaving.                       *)

LEMMA InAChange ==
  ASSUME Inv, NEW t \in Threads, NEW a, AtStep(t, a), a \in {"rekey", "saveNewSalt", "saveNewKek"}
  PROVE  /\ t = "gui" /\ Kind(t) = "change" /\ inside /\ LetIn /\ InChange(t)
         /\ Left(t) = CASE a = "rekey" -> 3 [] a = "saveNewSalt" -> 2 [] a = "saveNewKek" -> 1
         /\ job[t].new \in Passphrases /\ job[t].new # None
         /\ \A u \in Users : u = job[t].user => told[u] # None /\ Kept(u)
<1>1. /\ ~Idle(t) /\ Left(t) \in Nat /\ Place(Kind(t), Left(t) - 1, a)
      /\ (Kind(t) = "register" <=> t = "worker") /\ (t = "gui" \/ t = "worker")
  BY Where
<1>2. /\ Kind(t) = "change"
      /\ Left(t) = CASE a = "rekey" -> 3 [] a = "saveNewSalt" -> 2 [] a = "saveNewKek" -> 1
  <2> DEFINE k == Kind(t)
             n == Left(t)
  <2> HIDE DEF k, n
  <2>1. n \in Nat /\ Place(k, n - 1, a)
    BY <1>1 DEF k, n
  <2>2. /\ k = "change"
        /\ n = CASE a = "rekey" -> 3 [] a = "saveNewSalt" -> 2 [] a = "saveNewKek" -> 1
    BY <2>1 DEF Place
  <2> QED  BY <2>2 DEF k, n
<1>3. t = "gui"
  BY <1>1, <1>2
<1>4. inside /\ LetIn /\ InChange(t)
  BY <1>1, <1>2 DEF Inv, Doors, Stage, ChangingBy
<1>5. job[t].new \in Passphrases /\ job[t].new # None
  BY HasNew, NoneIsNone DEF Inv, TypeInv
<1>6. ASSUME NEW u \in Users, u = job[t].user PROVE told[u] # None /\ Kept(u)
  <2>1. told[u] # None
    BY <1>4, <1>6 DEF InChange
  <2> QED  BY <2>1 DEF Inv, Settled
<1> QED  BY <1>2, <1>3, <1>4, <1>5, <1>6

LEMMA ChangeGoes ==
  ASSUME Inv, TypeInv', Drawn', NEW t \in Threads, t = "gui", Kind(t) = "change", Goes(t),
         job[t].new # None, NEW u \in Users, u = job[t].user, Kept(u)', InChange(t)', LetIn',
         inside, inside', told' = told, told[u] # None, \A v \in Users : v # u => Same(v)
  PROVE  Inv'
<1>1. /\ ~Idle(t)' /\ Only(t) /\ Kind(t)' = "change" /\ job'[t].user = u /\ job'[t].new # None
  BY DEF Goes
<1>2. \A v \in Users : v # u => Settled(v)'
  BY <1>1, OthersSettled
<1>3. Settled(u)'
  BY <1>1 DEF Settled, Changing
<1>4. \A v \in Users : Settled(v)'
  BY <1>2, <1>3
<1>5. Doors'
  <2>1. ASSUME NEW r \in Threads, ~Idle(r)' PROVE Kind(r)' \in {"change", "logout"}
    BY <1>1, <2>1 DEF Only
  <2> QED  BY <2>1 DEF Doors
<1>6. Stage(t)'
  BY <1>1 DEF Stage, SettingUp
<1> QED  BY <1>1, <1>4, <1>5, <1>6, OnlyInv

LEMMA RekeyInv ==
  ASSUME Inv, TypeInv', NEW t \in Threads, Rekey(t)
  PROVE  Inv'
<1>1. AtStep(t, "rekey")
  BY DEF Rekey
<1>2. /\ t = "gui" /\ Kind(t) = "change" /\ inside /\ LetIn /\ InChange(t) /\ Left(t) = 3
      /\ job[t].new # None /\ ~Idle(t)
  BY <1>1, InAChange, Where
<1>3. PICK u \in Users : u = job[t].user
  BY <1>1, Where
<1>4. /\ told[u] # None /\ Kept(u) /\ Works(u, told[u])
      /\ open # None /\ open.user = u /\ job[t].n = drawn /\ drawn > 0
      /\ db[u].kek.under.salt < job[t].n /\ session # None /\ session.user = u /\ kek = db[u].kek.kek
  BY <1>1, <1>2, <1>3, InAChange DEF InChange, LetIn
<1>5. UNCHANGED <<salt, open, kek, session, inside, identities, devices, told, drawn>>
  BY DEF Rekey, memory, server
<1>6. CASE GoOn(t) /\ db' = [db EXCEPT ![open.user].key = NewKey(t)]
  <2>1. Goes(t) /\ job'[t].key = job[t].key
    BY <1>1, <1>2, <1>6, Proceeds
  <2>2. db \in [Users -> Files \cup {None}] /\ db[u] \in Files /\ db'[u] # None
    BY <1>3, <1>4, <1>5, TypesOf DEF Inv, OpenOK, TypeInv, TypeOK
  <2>3. /\ db'[u].key = NewKey(t) /\ db'[u].kek = db[u].kek /\ db'[u].device = db[u].device
        /\ \A v \in Users : v # u => db'[v] = db[v]
    BY <1>4, <1>6, <2>2 DEF Files
  <2> HIDE <1>6
  <2>4. NewKey(t) # None
    BY <1>1, Where, InAChange, MasterKeyTypes, NoneIsNone DEF NewKey
  <2>5. Kept(u)'
    BY <1>4, <1>5, <2>2, <2>3, <2>4 DEF Kept
  <2>6. job'[t].user = u /\ job'[t].n = job[t].n /\ Left(t)' = 2 /\ NewKey(t)' = NewKey(t)
    BY <1>2, <1>3, <2>1 DEF Goes, NewKey
  <2>7. InChange(t)'
    BY <1>4, <1>5, <2>3, <2>6 DEF InChange
  <2>8. LetIn'
    BY <1>4, <1>5, <2>3 DEF LetIn
  <2>9. Drawn'
    BY <1>4, <1>5, <2>3, DrawnBut DEF Inv, Kept
  <2>10. \A v \in Users : v # u => Same(v)
    BY <1>5, <2>3 DEF Same
  <2> QED  BY <1>2, <1>3, <1>4, <1>5, <2>1, <2>5, <2>7, <2>8, <2>9, <2>10, ChangeGoes
<1>7. CASE Throw(t) /\ UNCHANGED db
  <2>1. Idle(t)' /\ Only(t) /\ Quiet'
    BY <1>2, <1>7, Ends
  <2>2. \A v \in Users : Same(v)
    BY <1>5, <1>7 DEF Same
  <2>3. \A v \in Users : v # u => Settled(v)'
    BY <1>3, <2>1, <2>2, OthersSettled
  <2>4. Settled(u)'
    <3>1. Plain(u)
      BY <1>4 DEF Plain
    <3> QED  BY <2>2, <3>1, PlainStays, PlainSettled
  <2>5. \A v \in Users : Settled(v)'
    BY <2>3, <2>4
  <2>6. Drawn'
    BY <1>5, <1>7, SameDrawn, RestOf DEF Numbers, Inv
  <2>7. LetIn'
    BY <1>4, <1>5, <1>7 DEF LetIn
  <2> QED  BY <1>2, <1>5, <2>1, <2>5, <2>6, <2>7, QuietInv
<1> QED  BY <1>6, <1>7 DEF Rekey, NewKey

LEMMA SaveNewSaltInv ==
  ASSUME Inv, TypeInv', NEW t \in Threads, SaveNewSalt(t)
  PROVE  Inv'
<1>1. AtStep(t, "saveNewSalt") /\ GoOn(t)
  BY DEF SaveNewSalt
<1>2. /\ t = "gui" /\ Kind(t) = "change" /\ inside /\ LetIn /\ InChange(t) /\ Left(t) = 2
      /\ job[t].new # None /\ ~Idle(t)
  BY <1>1, InAChange, Where
<1>3. PICK u \in Users : u = job[t].user
  BY <1>1, Where
<1>4. /\ told[u] # None /\ Kept(u) /\ open # None /\ open.user = u /\ job[t].n = drawn /\ drawn > 0
      /\ db[u].kek.under.salt < job[t].n /\ db[u].key = NewKey(t)
  BY <1>1, <1>2, <1>3, InAChange DEF InChange
<1>5. /\ UNCHANGED <<db, open, kek, session, inside, identities, devices, told, drawn>>
      /\ salt' = [salt EXCEPT ![u] = job[t].n]
  BY <1>3 DEF SaveNewSalt, memory, server
<1>6. salt'[u] = job[t].n /\ \A v \in Users : v # u => salt'[v] = salt[v]
  BY <1>5, RestOf DEF Inv
<1>7. Goes(t) /\ job'[t].key = job[t].key
  BY <1>1, <1>2, Proceeds
<1>8. job'[t].user = u /\ job'[t].n = job[t].n /\ Left(t)' = 1 /\ NewKey(t)' = NewKey(t)
  BY <1>2, <1>3, <1>7 DEF Goes, NewKey
<1>9. Kept(u)'
  <2>1. job[t].n # None
    BY <1>1, Where, NoneIsNone
  <2> QED  BY <1>4, <1>5, <1>6, <2>1 DEF Kept
<1>10. InChange(t)'
  BY <1>4, <1>5, <1>6, <1>8 DEF InChange
<1>11. LetIn'
  BY <1>2, <1>5 DEF LetIn
<1>12. Drawn'
  BY <1>5, SameDrawn, RestOf DEF Numbers, Inv
<1>13. \A v \in Users : v # u => Same(v)
  BY <1>5, <1>6 DEF Same
<1> QED  BY <1>2, <1>3, <1>4, <1>5, <1>7, <1>9, <1>10, <1>11, <1>12, <1>13, ChangeGoes

(* What the last step of a change leaves.                                  *)
Changed(t, u) ==
  /\ inside /\ inside' /\ session # None /\ session.user = u
  /\ Idle(t)' /\ Only(t) /\ Quiet'
  /\ UNCHANGED <<salt, open, kek, session, identities, devices, drawn>>
  /\ told'[u] = job[t].new /\ told' = [told EXCEPT ![u] = job[t].new]
  /\ db'[u] # None /\ db'[u].key = db[u].key /\ db'[u].kek = [kek |-> kek, under |-> NewKey(t)]
  /\ db'[u].device = db[u].device
  /\ \A v \in Users : v # u => db'[v] = db[v]

LEMMA SaveNewKekDoes ==
  ASSUME Inv, TypeInv', NEW t \in Threads, SaveNewKek(t), NEW u \in Users, u = job[t].user
  PROVE  Changed(t, u)
<1>1. AtStep(t, "saveNewKek")
  BY DEF SaveNewKek
<1>2. /\ t = "gui" /\ Kind(t) = "change" /\ inside /\ LetIn /\ InChange(t) /\ Left(t) = 1
      /\ job[t].new # None /\ ~Idle(t) /\ job[t].new \in Passphrases
  BY <1>1, InAChange, Where
<1>3. /\ told[u] # None /\ Kept(u) /\ open # None /\ open.user = u
      /\ db[u].kek.under.salt < job[t].n /\ session # None /\ session.user = u /\ kek = db[u].kek.kek
  BY <1>1, <1>2, InAChange DEF InChange, LetIn
<1>4. PICK row : row = [kek |-> kek, under |-> NewKey(t)]
  OBVIOUS
<1>5. kek # None
  <2>1. db[u].kek \in KekRows
    BY <1>3, TypesOf DEF Inv, Files, Kept
  <2> QED  BY <1>3, <2>1, NoneIsNone DEF KekRows
<1>6. SaveRow(t, "kek", row)
  BY <1>4, <1>5, Zenon DEF SaveNewKek, NewKey
<1>7. UNCHANGED <<salt, open, kek, session, inside, identities, devices, drawn>>
  BY DEF SaveNewKek, memory, server
<1>8. /\ GoOn(t) /\ db'[u] # None /\ db'[u].key = db[u].key /\ db'[u].kek = row
      /\ db'[u].device = db[u].device /\ \A v \in Users : v # u => db'[v] = db[v]
  <2>1. TypeInv /\ open' = open /\ u = open.user /\ db[u].key # None /\ "kek" \in {"kek", "identity", "device"}
    BY <1>3, <1>7 DEF Inv, Kept
  <2>2. /\ GoOn(t) /\ db'[u] # None /\ db'[u].key = db[u].key
        /\ db'[u].kek = IF "kek" = "kek" THEN row ELSE db[u].kek
        /\ db'[u].device = IF "kek" = "device" THEN row ELSE db[u].device
        /\ \A v \in Users : v # u => db'[v] = db[v]
    BY <1>3, <1>6, <2>1, RowSaved
  <2> QED  BY <2>2
<1>9. db' # db
  <2>1. NewKey(t).salt = job[t].n /\ row.under.salt = job[t].n /\ job[t].n \in Nat
    BY <1>1, <1>4, Where DEF NewKey, MasterKey, Numbers
  <2> QED  BY <1>3, <1>8, <2>1
<1>10. told' = [told EXCEPT ![u] = job[t].new]
  BY <1>9 DEF SaveNewKek
<1>11. told'[u] = job[t].new
  BY <1>10, RestOf DEF Inv
<1>12. Idle(t)' /\ Only(t) /\ Quiet'
  BY <1>2, <1>8, Ends
<1> QED  BY <1>2, <1>3, <1>4, <1>7, <1>8, <1>10, <1>11, <1>12 DEF Changed

LEMMA SaveNewKekInv ==
  ASSUME Inv, TypeInv', NEW t \in Threads, SaveNewKek(t)
  PROVE  Inv'
<1>1. AtStep(t, "saveNewKek")
  BY DEF SaveNewKek
<1>2. /\ LetIn /\ InChange(t) /\ Left(t) = 1 /\ job[t].new # None /\ job[t].new \in Passphrases
  BY <1>1, InAChange
<1>3. PICK u \in Users : u = job[t].user
  BY <1>1, Where
<1>4. /\ told[u] # None /\ Kept(u) /\ open # None /\ open.user = u /\ job[t].n = drawn
      /\ db[u].key = NewKey(t) /\ salt[u] = job[t].n /\ kek = db[u].kek.kek
  BY <1>1, <1>2, <1>3, InAChange DEF InChange, LetIn
<1>5. Changed(t, u)
  BY <1>3, SaveNewKekDoes
<1>6. PICK p \in Passphrases : p = job[t].new /\ p # None
  BY <1>2
<1>7. db'[u].kek.kek = kek /\ db'[u].kek.under = NewKey(t) /\ NewKey(t) = MasterKey(salt[u], p) /\ NewKey(t).salt = drawn
  BY <1>4, <1>5, <1>6 DEF Changed, NewKey, MasterKey
<1>8. told'[u] = p /\ \A v \in Users : v # u => told'[v] = told[v]
  BY <1>5, <1>6, RestOf DEF Changed, Inv
<1>9. Drawn'
  <2>1. db[u].kek.kek <= drawn /\ \A v \in Users : v # u /\ db[v] # None /\ db[v].kek # None => db[v].kek.kek # kek
    BY <1>4 DEF Inv, Drawn, Kept
  <2>2. drawn \in Nat
    BY RestOf DEF Inv, Numbers
  <2>3. /\ db'[u].kek.kek <= drawn /\ db'[u].kek.under.salt <= drawn
        /\ \A v \in Users : v # u /\ db[v] # None /\ db[v].kek # None => db[v].kek.kek # db'[u].kek.kek
    BY <1>4, <1>7, <2>1, <2>2
  <2>4. drawn' = drawn /\ \A v \in Users : v # u => db'[v] = db[v]
    BY <1>5 DEF Changed
  <2> QED  BY <2>3, <2>4, DrawnBut DEF Inv
<1>10. \A v \in Users : v # u => Settled(v)'
  <2>1. \A v \in Users : v # u => Same(v)
    BY <1>5, <1>8 DEF Same, Changed
  <2> QED  BY <1>3, <1>5, <2>1, OthersSettled DEF Changed
<1>11. Plain(u)'
  <2>1. db'[u].kek # None
    <3>1. TypeInv
      BY DEF Inv
    <3>2. [kek |-> kek, under |-> NewKey(t)] \in KekRows
      BY <1>1, <1>2, <1>4, <3>1, TypesOf, Where, MasterKeyTypes DEF KekRows, Files, Kept, NewKey
    <3> QED  BY <1>5, <3>2, NoneIsNone DEF Changed
  <2>2. Works(u, p)'
    BY <1>4, <1>5, <1>7, <2>1 DEF Works, Kept, Changed
  <2>3. Kept(u)'
    BY <1>4, <1>5, <1>7, <2>1 DEF Kept, Changed
  <2> QED  BY <1>6, <1>8, <2>2, <2>3 DEF Plain
<1>12. \A v \in Users : Settled(v)'
  BY <1>10, <1>11, PlainSettled
<1>13. LetIn'
  BY <1>2, <1>4, <1>5, <1>6, <1>7, <1>8 DEF LetIn, Changed
<1> QED  BY <1>5, <1>9, <1>12, <1>13, QuietInv DEF Changed

(* Nobody's secrets are being changed, and the doors are shut.             *)
LEMMA ShutInv ==
  ASSUME Inv, TypeInv', \A t \in Threads : Idle(t) \/ job[t].user = None,
         Quiet', ~inside', Locked', UNCHANGED <<files, server, told, drawn>>
  PROVE  Inv'
<1>1. Drawn'
  BY SameDrawn, RestOf DEF Numbers, Inv, files
<1>2. ASSUME NEW v \in Users PROVE Settled(v)'
  <2>1. \A t \in Threads : Idle(t) \/ job[t].user # v
    BY NoneIsNone
  <2>2. Plain(v) /\ Same(v)
    BY <2>1, OthersPlain DEF Same, files, server
  <2> QED  BY <2>2, PlainStays, PlainSettled
<1> QED  BY <1>1, <1>2, QuietInv

LEMMA AtLogout ==
  ASSUME Inv, NEW t \in Threads, AtStep(t, "logout")
  PROVE  /\ Left(t) = 1 /\ ~Idle(t) /\ inside /\ LetIn
         /\ \A r \in Threads : Idle(r) \/ job[r].user = None
<1>1. /\ ~Idle(t) /\ Left(t) \in Nat /\ Place(Kind(t), Left(t) - 1, "logout")
      /\ (Kind(t) = "register" <=> t = "worker") /\ (t = "gui" \/ t = "worker")
  BY Where
<1>2. Kind(t) = "logout" /\ Left(t) = 1
  <2> DEFINE k == Kind(t)
             n == Left(t)
  <2> HIDE DEF k, n
  <2>1. n \in Nat /\ Place(k, n - 1, "logout")
    BY <1>1 DEF k, n
  <2>2. k = "logout" /\ n = 1
    BY <2>1 DEF Place
  <2> QED  BY <2>2 DEF k, n
<1>3. job[t].user = None
  BY <1>1, <1>2 DEF Kind
<1>4. \A r \in Threads : Idle(r) \/ job[r].user = None
  BY <1>1, <1>3 DEF Inv, OneAtATime
<1>5. inside /\ LetIn
  BY <1>1, <1>2 DEF Inv, Doors
<1> QED  BY <1>1, <1>2, <1>4, <1>5

LEMMA LogoutInv ==
  ASSUME Inv, TypeInv', NEW t \in Threads, Logout(t)
  PROVE  Inv'
<1>1. AtStep(t, "logout") /\ GoOn(t) /\ ~inside' /\ Locked'
  BY DEF Logout, AfterLogout, Locked
<1>2. Quiet'
  BY <1>1, AtLogout, Ends
<1>3. UNCHANGED <<files, server, told, drawn>>
  BY DEF Logout
<1> QED  BY <1>1, <1>2, <1>3, AtLogout, ShutInv

LEMMA ProcessEndsInv ==
  ASSUME Inv, TypeInv', ProcessEnds, \A t \in Threads : Idle(t) \/ job[t].user = None
  PROVE  Inv'
<1>1. Quiet' /\ ~inside' /\ Locked' /\ UNCHANGED <<files, server, told, drawn>>
  BY DEF ProcessEnds, Quiet, Idle, Locked
<1> QED  BY <1>1, ShutInv

LEMMA QuitInv ==
  ASSUME Inv, TypeInv', Quit \/ \E t \in Threads : LogoutThrows(t)
  PROVE  Inv'
<1>1. CASE Quit
  BY <1>1, ProcessEndsInv DEF Quit, Quiet
<1>2. ASSUME NEW t \in Threads, LogoutThrows(t) PROVE Inv'
  BY <1>2, AtLogout, ProcessEndsInv DEF LogoutThrows
<1> QED  BY <1>1, <1>2

-----------------------------------------------------------------------------
(* The handlers start.                                                     *)

LEMMA NoMishap == ASSUME TypeInv, Orderly PROVE ~Mishap
BY RestOf DEF Orderly, Mishap

LEMMA QuietPlain ==
  ASSUME Inv, Quiet, NEW v \in Users
  PROVE  Plain(v)
BY OthersPlain DEF Quiet

(* What has started for u.                                                 *)
Started(t, k, u, p, new, n, m) ==
  /\ Only(t) /\ ~Idle(t)' /\ Kind(t)' = k /\ Left(t)' = m
  /\ job'[t].user = u /\ job'[t].pass = p /\ job'[t].new = new /\ job'[t].n = n

LEMMA Starts ==
  ASSUME Inv, Quiet, NEW t \in Threads, NEW u \in Users \cup {None}, NEW p \in Passphrases \cup {None},
         NEW new \in Passphrases \cup {None}, NEW n \in Numbers, NEW steps, NEW k, NEW m,
         Start(t, u, p, new, n, steps), Whole(k, steps, m),
         k = IF t = "worker" THEN "register"
             ELSE IF u = None THEN "logout"
             ELSE IF new # None THEN "change"
             ELSE IF n = 0 THEN "login" ELSE "setUp"
  PROVE  Started(t, k, u, p, new, n, m)
<1>1. Handlers /\ Rest(k, steps) /\ Len(steps) = m
  BY DEF Inv, TypeInv, Whole
<1>2. /\ ~Idle(t)'
      /\ job'[t].user = u /\ job'[t].pass = p /\ job'[t].new = new /\ job'[t].n = n
      /\ job'[t].steps = steps /\ Kind(t)' = k
  <2>1. job'[t] = [user |-> u, pass |-> p, new |-> new, n |-> n, key |-> None, steps |-> steps]
    BY <1>1 DEF Start, Handlers
  <2>2. /\ job'[t].user = u /\ job'[t].pass = p /\ job'[t].new = new /\ job'[t].n = n
        /\ job'[t].steps = steps
    BY <2>1
  <2>3. ~Idle(t)'
    BY <1>1, <2>2, RestHead, NoJobIsJob DEF Idle
  <2> QED  BY <2>2, <2>3 DEF Kind
<1>3. Only(t)
  BY <1>1 DEF Start, Handlers, Only, Quiet, Idle
<1> QED  BY <1>1, <1>2, <1>3 DEF Started, Left

LEMMA StartSettingUp ==
  ASSUME Inv, TypeInv', Quiet, ~inside, ~inside', NEW t \in Threads, NEW u \in Users, NEW p, NEW m, NEW k,
         Started(t, k, u, p, None, drawn + 1, m),
         \/ t = "worker" /\ k = "register" /\ m = 16 /\ identities[u] = None /\ devices' = devices
         \/ t = "gui" /\ k = "setUp" /\ m = 13 /\ identities[u] # None /\ db[u] = None /\ drawn + 1 \in devices'[u],
         \A v \in Users : devices[v] \subseteq devices'[v],
         drawn' = drawn + 1, told' = told,
         UNCHANGED <<files, open, kek, session, identities>>
  PROVE  Inv'
<1>1. drawn \in Nat
  BY RestOf DEF Inv, Numbers
<1>2. Plain(u)
  BY QuietPlain
<1>3. told[u] = None /\ salt[u] = None /\ db[u] = None
  BY <1>2 DEF Plain, Kept
<1>4. Locked
  BY DEF Inv, Doors
<1>5. SettingUp(t)' /\ Only(t) /\ ~Idle(t)' /\ job'[t].user = u /\ Left(t)' = m /\ Kind(t)' = k
  BY DEF Started, SettingUp
<1>6. Drawn'
  BY <1>1, SameDrawn DEF files
<1>7. \A v \in Users : v # u => Settled(v)'
  <2>1. \A v \in Users : v # u => Same(v)
    BY DEF Same, files
  <2> QED  BY <1>5, <2>1, OthersSettled DEF Quiet
<1>8. Settled(u)'
  BY <1>3, <1>5, SettingUpSettled
<1>9. \A v \in Users : Settled(v)'
  BY <1>7, <1>8
<1>10. Doors'
  BY <1>5, OutsideDoors
<1>11. \A v \in Users : db[v] # None /\ db[v].kek # None => db[v].kek.kek < drawn + 1
  <2> SUFFICES ASSUME NEW v \in Users, db[v] # None, db[v].kek # None PROVE db[v].kek.kek < drawn + 1
    OBVIOUS
  <2>1. db[v].kek.kek <= drawn
    BY DEF Inv, Drawn
  <2>2. db[v].kek.kek \in Nat
    BY TypesOf DEF Inv, Files, KekRows, Numbers
  <2> QED  BY <1>1, <2>1, <2>2
<1>12. ToGo(t)' = 13
  BY <1>5, ThreadsAre DEF ToGo
<1>13. SetUp(t)'
  <2>1. t = "worker" => Left(t)' = 16 /\ identities[u] = None
    BY <1>5, ThreadsAre
  <2>2. t = "gui" => identities[u] # None /\ drawn + 1 \in devices'[u]
    BY ThreadsAre
  <2>3. job'[t].n = drawn + 1 /\ drawn + 1 > 0
    BY <1>1 DEF Started
  <2> QED  BY <1>3, <1>4, <1>5, <1>11, <1>12, <2>1, <2>2, <2>3 DEF SetUp, Locked, files
<1>14. Stage(t)'
  <2>1. Left(t)' > 7 /\ Left(t)' \in Nat /\ Kind(t)' \in {"register", "setUp"}
    BY <1>5
  <2> QED  BY <1>13, <2>1 DEF Stage, ChangingBy
<1> QED  BY <1>5, <1>6, <1>9, <1>10, <1>14, OnlyInv

LEMMA StartRegisterInv ==
  ASSUME Inv, TypeInv', Orderly, NEW u \in Users, NEW p \in Passphrases, StartRegister(u, p)
  PROVE  Inv'
<1> DEFINE r == RegisterUser \o RegisterFirstDevice \o LoginUser
<1>1. Draw /\ Start("worker", u, p, None, drawn + 1, r)
  BY DEF StartRegister
<1>2. Whole("register", r, 16)
  BY LoginRest
<1> HIDE DEF r
<1>3. Quiet /\ ~inside /\ identities[u] = None
  BY ThreadsAre DEF StartRegister, Outside, Quiet, Orderly
<1>4. drawn + 1 \in Numbers /\ u # None /\ p # None /\ "worker" \in Threads
  BY <1>1, DrawTypes, NoneIsNone, ThreadsAre DEF Inv
<1>5. Started("worker", "register", u, p, None, drawn + 1, 16)
  BY <1>1, <1>2, <1>3, <1>4, Starts
<1>6. drawn' = drawn + 1 /\ UNCHANGED <<files, open, kek, session, inside, identities, devices, told>>
  BY <1>1 DEF StartRegister, Draw, memory, server
<1> QED  BY <1>3, <1>4, <1>5, <1>6, StartSettingUp

LEMMA StartSetUpDeviceInv ==
  ASSUME Inv, TypeInv', Orderly, NEW u \in Users, NEW p \in Passphrases, StartSetUpDevice(u, p)
  PROVE  Inv'
<1> DEFINE r == SetUpClient \o << "saveDevice" >> \o LoginUser
<1>1. Draw /\ Start("gui", u, p, None, drawn + 1, r)
  BY DEF StartSetUpDevice
<1>2. Whole("setUp", r, 13)
  BY LoginRest
<1> HIDE DEF r
<1>3. Quiet /\ ~inside /\ identities[u] # None /\ db[u] = None
  BY ThreadsAre DEF StartSetUpDevice, Outside, Quiet, Orderly
<1>4. drawn + 1 \in Numbers /\ drawn + 1 # 0 /\ u # None /\ p # None /\ "gui" \in Threads /\ "gui" # "worker"
  BY <1>1, DrawTypes, NoneIsNone, ThreadsAre, RestOf DEF Inv, Numbers
<1>5. Started("gui", "setUp", u, p, None, drawn + 1, 13)
  BY <1>1, <1>2, <1>3, <1>4, Starts
<1>6. /\ drawn' = drawn + 1 /\ UNCHANGED <<files, open, kek, session, inside, identities>>
      /\ devices' = [devices EXCEPT ![u] = @ \cup {drawn + 1}] /\ told' = [told EXCEPT ![u] = None]
  BY <1>1 DEF StartSetUpDevice, Draw, memory
<1>7. told' = told
  <2>1. told[u] = None
    BY <1>3, QuietPlain DEF Plain, Kept
  <2> QED  BY <1>6, <2>1, RestOf DEF Inv
<1>8. drawn + 1 \in devices'[u] /\ \A v \in Users : devices[v] \subseteq devices'[v]
  BY <1>6, RestOf DEF Inv
<1> QED  BY <1>3, <1>4, <1>5, <1>6, <1>7, <1>8, StartSettingUp

LEMMA StartLoginInv ==
  ASSUME Inv, TypeInv', Orderly, NEW u \in Users, NEW p \in Passphrases, StartLogin(u, p)
  PROVE  Inv'
<1>1. Start("gui", u, p, None, 0, LoginUser)
  BY DEF StartLogin
<1>2. Whole("login", LoginUser, 7)
  BY LoginRest
<1>3. Quiet /\ ~inside
  BY ThreadsAre DEF StartLogin, Outside, Quiet, Orderly
<1>4. 0 \in Numbers /\ u # None /\ p # None /\ "gui" \in Threads /\ "gui" # "worker"
  BY NoneIsNone, ThreadsAre, Bounds DEF Numbers
<1>5. Started("gui", "login", u, p, None, 0, 7)
  BY <1>1, <1>2, <1>3, <1>4, Starts
<1>6. UNCHANGED <<files, memory, server, told, drawn>>
  BY DEF StartLogin
<1>7. Locked /\ Locked'
  BY <1>3, <1>6 DEF Inv, Doors, Locked, memory
<1>8. Drawn'
  BY <1>6, SameDrawn, RestOf DEF Inv, Numbers, files
<1>9. \A v \in Users : Settled(v)'
  <2> SUFFICES ASSUME NEW v \in Users PROVE Settled(v)'
    OBVIOUS
  <2>1. Plain(v) /\ Same(v)
    BY <1>3, <1>6, QuietPlain DEF Same, files, server
  <2> QED  BY <2>1, PlainStays, PlainSettled
<1>10. Doors'
  BY <1>3, <1>4, <1>5, <1>6, OutsideDoors DEF Started, memory
<1>11. Stage("gui")'
  BY <1>5, <1>7 DEF Started, Stage, SettingUp, ChangingBy, Knock, Locked
<1> QED  BY <1>4, <1>5, <1>8, <1>9, <1>10, <1>11, OnlyInv DEF Started

LEMMA StartInsideInv ==
  ASSUME Inv, TypeInv', Orderly, StartLogout \/ \E p, new \in Passphrases : StartChange(p, new)
  PROVE  Inv'
<1>1. /\ "gui" \in Threads /\ "gui" # "worker" /\ inside /\ Idle("gui")
  BY ThreadsAre DEF StartLogout, StartChange, Quiet
<1>2. LetIn
  BY <1>1 DEF Inv, Doors
<1>3. Quiet
  <2>1. Idle("worker")
    <3>1. ~Idle("worker") => Kind("worker") \in {"change", "logout"}
      BY <1>1, ThreadsAre DEF Inv, Doors
    <3> QED  BY <3>1 DEF Kind
  <2> QED  BY <1>1, <2>1, ThreadsAre DEF Quiet
<1>4. UNCHANGED <<files, memory, server, told>> /\ drawn' \in Nat /\ drawn' >= drawn /\ drawn \in Nat
  BY RestOf DEF StartLogout, StartChange, Draw, Inv, Numbers
<1>5. LetIn' /\ inside'
  BY <1>1, <1>2, <1>4 DEF LetIn, memory, files
<1>6. Drawn'
  BY <1>4, SameDrawn DEF files
<1>7. ASSUME NEW v \in Users PROVE Plain(v)' /\ Settled(v)'
  <2>1. Plain(v) /\ Same(v)
    BY <1>3, <1>4, QuietPlain DEF Same, files, server
  <2> QED  BY <2>1, PlainStays, PlainSettled
<1>8. ASSUME NEW k \in {"change", "logout"}, Only("gui"), ~Idle("gui")', Kind("gui")' = k
      PROVE  Doors'
  <2>1. ASSUME NEW r \in Threads, ~Idle(r)' PROVE Kind(r)' \in {"change", "logout"}
    BY <1>8, <2>1 DEF Only
  <2>2. ~Quiet'
    BY <1>1, <1>8 DEF Quiet
  <2> QED  BY <1>5, <2>1, <2>2 DEF Doors
<1>9. CASE StartLogout
  <2> DEFINE l == << "logout" >>
  <2>1. Start("gui", None, None, None, 0, l)
    BY <1>9 DEF StartLogout
  <2>2. Whole("logout", l, 1) /\ 0 \in Numbers
    BY ChangeRest, Bounds DEF Numbers
  <2> HIDE DEF l
  <2>3. Started("gui", "logout", None, None, None, 0, 1)
    BY <1>1, <1>3, <2>1, <2>2, Starts
  <2>4. Stage("gui")'
    BY <2>3 DEF Started, Stage, SettingUp, ChangingBy
  <2> QED  BY <1>1, <1>6, <1>7, <1>8, <2>3, <2>4, OnlyInv DEF Started
<1>10. ASSUME NEW p \in Passphrases, NEW new \in Passphrases, StartChange(p, new) PROVE Inv'
  <2>1. PICK u \in Users : open # None /\ u = open.user
    BY <1>10, TypesOf DEF StartChange, OpenOK, Inv
  <2>2. Draw /\ Start("gui", u, p, new, drawn + 1, Change)
    BY <1>10, <2>1 DEF StartChange
  <2>3. Whole("change", Change, 3) /\ drawn + 1 \in Numbers
    BY <2>2, ChangeRest, DrawTypes DEF Inv
  <2>4. u # None /\ p # None /\ new # None
    BY NoneIsNone
  <2>5. Started("gui", "change", u, p, new, drawn + 1, 3)
    BY <1>1, <1>3, <2>2, <2>3, <2>4, Starts
  <2>6. told'[u] # None /\ Works(u, told[u])'
    <3>1. told'[u] # None
      BY <1>2, <1>4, <2>1 DEF LetIn
    <3> QED  BY <1>4, <1>7, <3>1 DEF Plain
  <2>7. db[u].kek.under.salt < drawn + 1
    <3>1. db[u] # None /\ db[u].kek # None
      BY <1>4, <2>6 DEF Works, files
    <3>2. db[u].kek.under.salt <= drawn
      BY <3>1 DEF Inv, Drawn
    <3>3. db[u].kek.under.salt \in Nat
      BY <3>1, TypesOf DEF Inv, Files, KekRows, MasterKeys, Numbers
    <3> QED  BY <1>4, <3>2, <3>3
  <2>8. InChange("gui")'
    <3>1. drawn' = drawn + 1 /\ drawn + 1 > 0
      BY <1>4, <2>2 DEF Draw
    <3>2. open' = open /\ db' = db /\ told' = told /\ Works(u, told[u])'
      BY <1>4, <2>6 DEF memory, files
    <3> QED  BY <2>1, <2>5, <2>6, <2>7, <3>1, <3>2 DEF Started, InChange
  <2>9. Stage("gui")'
    BY <2>5, <2>8 DEF Started, Stage, SettingUp, ChangingBy
  <2> QED  BY <1>1, <1>6, <1>7, <1>8, <2>5, <2>9, OnlyInv DEF Started
<1> QED  BY <1>9, <1>10

-----------------------------------------------------------------------------
LEMMA InvStarts == Init => Inv
<1> SUFFICES ASSUME Init PROVE Inv
  OBVIOUS
<1>1. TypeInv
  BY TypesStart
<1>2. \A t \in Threads : Idle(t)
  BY DEF Init, Idle
<1>3. Drawn
  BY DEF Init, Drawn
<1>4. Locked /\ ~inside
  BY DEF Init, Locked
<1>5. Doors
  BY <1>2, <1>4 DEF Doors
<1>6. \A v \in Users : Settled(v)
  BY DEF Init, Settled
<1>7. \A t \in Threads : Stage(t)
  BY <1>2 DEF Stage, SettingUp, ChangingBy
<1> QED  BY <1>1, <1>2, <1>3, <1>5, <1>6, <1>7 DEF Inv, OneAtATime

LEMMA StutterInv ==
  ASSUME Inv, UNCHANGED vars
  PROVE  Inv'
<1>1. TypeInv'
  BY StutterTypes DEF Inv
<1>2. Drawn' /\ OneAtATime' /\ Doors'
  BY DEF vars, files, memory, Inv, Drawn, OneAtATime, Doors, Quiet, Idle, Kind, Locked, LetIn
<1>3. \A v \in Users : Settled(v)'
  BY DEF vars, files, server, Inv, Settled, Kept, Works, Changing, SettingUp, Idle, Kind
<1>4. ASSUME NEW t \in Threads PROVE Stage(t)'
  <2>1. Stage(t)
    BY DEF Inv
  <2>2. /\ job' = job /\ salt' = salt /\ db' = db /\ open' = open /\ kek' = kek /\ session' = session
        /\ identities' = identities /\ devices' = devices /\ told' = told /\ drawn' = drawn
    BY DEF vars, files, memory, server
  <2>3. (SetUp(t) <=> SetUp(t)') /\ (Login(t) <=> Login(t)') /\ (Knock(t) <=> Knock(t)') /\ (InChange(t) <=> InChange(t)')
    BY <2>2 DEF SetUp, Login, Knock, InChange, Locked, Works, ToGo, Left, Key, NewKey
  <2> QED  BY <2>1, <2>2, <2>3 DEF Stage, SettingUp, ChangingBy, Left, Idle, Kind
<1> QED  BY <1>1, <1>2, <1>3, <1>4 DEF Inv

LEMMA InvStays ==
  ASSUME Orderly, Inv, [Next]_vars
  PROVE  Inv'
<1>1. TypeInv'
  BY TypesStay DEF Inv
<1>2. ASSUME NEW t \in Threads, Step(t) PROVE Inv'
  <2>1. ~Fails(t)
    BY NoMishap DEF Fails, Inv
  <2> QED  BY <1>1, <1>2, <2>1, SaveSaltInv, InitializeInv, InitSchemaInv, SetKekInv, SaveKekInv,
              SaveIdentityInv, PostUserInv, SaveDeviceInv, PostDeviceInv, DeriveInv, LoadKekInv,
              AuthenticateInv, LoadRatchetsInv, EnterInv, RekeyInv, SaveNewSaltInv,
              SaveNewKekInv, LogoutInv, QuitInv DEF Step
<1>3. ~Crash
  BY NoMishap DEF Crash, Inv
<1> QED  BY <1>1, <1>2, <1>3, StartRegisterInv, StartSetUpDeviceInv, StartLoginInv,
            StartInsideInv, QuitInv, StutterInv DEF Next

(* When users do the usual and nothing fails, one handler runs at a time,   *)
(* and each of its steps finds what it needs.                              *)
THEOREM InvAlways == Orderly => (Spec => []Inv)
<1>1. ASSUME Orderly PROVE Spec => []Inv
  <2>1. Inv /\ [Next]_vars => Inv'
    BY <1>1, InvStays
  <2> QED  BY <2>1, InvStarts, PTL DEF Spec
<1> QED  BY <1>1

(* Then the passphrase a user was last told to have succeeded with would    *)
(* log in again after a restart.                                           *)
THEOREM ToldPassphraseAlwaysWorks == Orderly => (Spec => []ToldPassphraseWorks)
<1>1. Inv => ToldPassphraseWorks
  BY DEF Inv, Settled, ToldPassphraseWorks
<1>2. ASSUME Orderly PROVE Spec => []ToldPassphraseWorks
  <2>1. Spec => []Inv
    BY <1>2, InvAlways
  <2> QED  BY <1>1, <2>1, PTL
<1> QED  BY <1>2

-----------------------------------------------------------------------------
(* The machine is a safe: every step of Vault is one of Safe or none.       *)

Who == IF inside /\ session # None THEN session.user ELSE None
Shown == IF inside \/ Quiet THEN Exposed ELSE {}

LEMMA OnlyOneExposed ==
  ASSUME Inv, LetIn
  PROVE  Exposed = {open.user} /\ open.user \in Users
<1>1. open.user \in Users /\ open # None /\ session # None /\ session.user = open.user
  BY TypesOf DEF LetIn, OpenOK, Inv
<1>2. PICK u \in Users : u = open.user
  BY <1>1
<1>3. Kept(u) /\ kek = db[u].kek.kek
  BY <1>2 DEF LetIn, Inv, Settled
<1>4. ASSUME NEW w \in Users, kek # None, db[w] # None, db[w].kek # None, db[w].kek.kek = kek PROVE w = u
  BY <1>3, <1>4 DEF Inv, Drawn, Kept
<1>5. \A w \in Users : w \in Exposed <=> w = u
  BY <1>1, <1>2, <1>4 DEF Exposed
<1>6. Exposed \subseteq Users
  BY DEF Exposed
<1> QED  BY <1>2, <1>5, <1>6

(* Who is inside, and whose secrets are in memory.                         *)
LEMMA WhoIs ==
  Inv => /\ inside => Who = open.user /\ Shown = {open.user} /\ open.user \in Users
         /\ ~inside => Who = None /\ Shown = {}
<1> SUFFICES ASSUME Inv
             PROVE  /\ inside => Who = open.user /\ Shown = {open.user} /\ open.user \in Users
                    /\ ~inside => Who = None /\ Shown = {}
  OBVIOUS
<1>1. CASE inside
  <2>1. LetIn
    BY <1>1 DEF Inv, Doors
  <2> QED  BY <1>1, <2>1, OnlyOneExposed DEF Who, Shown, LetIn
<1>2. CASE ~inside
  <2>1. Quiet => Exposed = {}
    BY <1>2 DEF Inv, Doors, Locked, Exposed
  <2> QED  BY <1>2, <2>1 DEF Who, Shown
<1> QED  BY <1>1, <1>2

LEMMA WhoIsNext ==
  Inv' => /\ inside' => Who' = open'.user /\ Shown' = {open'.user} /\ open'.user \in Users
          /\ ~inside' => Who' = None /\ Shown' = {}
<1>1. (Inv => /\ inside => Who = open.user /\ Shown = {open.user} /\ open.user \in Users
              /\ ~inside => Who = None /\ Shown = {})'
  BY WhoIs, PTL
<1> QED  BY <1>1

(* What a step is to the safe.                                             *)
SafeIsLetIn(u, p) ==
  /\ Who = None /\ told[u] \in {None, p} /\ told' = [told EXCEPT ![u] = p]
  /\ Who' = u /\ Shown' = {u}
SafeIsChanged(p) ==
  /\ Who # None /\ told' = [told EXCEPT ![Who] = p] /\ Who' = Who /\ Shown' = Shown
SafeIsLocked == Who' = None /\ Shown' = {} /\ told' = told
SafeRests == told' = told /\ Who' = Who /\ Shown' = Shown
SafeSteps ==
  \/ \E u \in Users, p \in Passphrases : SafeIsLetIn(u, p)
  \/ \E p \in Passphrases : SafeIsChanged(p)
  \/ SafeIsLocked
  \/ SafeRests

LEMMA NothingToTheSafe ==
  ASSUME Inv, Inv', told' = told, inside' = inside, inside => open' = open
  PROVE  SafeRests
<1>1. /\ inside => Who = open.user /\ Shown = {open.user}
      /\ ~inside => Who = None /\ Shown = {}
  BY WhoIs
<1>2. /\ inside' => Who' = open'.user /\ Shown' = {open'.user}
      /\ ~inside' => Who' = None /\ Shown' = {}
  BY WhoIsNext
<1> QED  BY <1>1, <1>2, RestOf DEF SafeRests, Inv

LEMMA LockedSafe ==
  ASSUME Inv', ~inside', told' = told
  PROVE  SafeIsLocked
<1>1. ~inside' => Who' = None /\ Shown' = {}
  BY WhoIsNext
<1> QED  BY <1>1 DEF SafeIsLocked

LEMMA EnterIsLetIn ==
  ASSUME Inv, Inv', NEW t \in Threads, Enter(t)
  PROVE  SafeSteps
<1>1. AtStep(t, "enter") /\ inside' /\ open' = open /\ ~Idle(t)
  BY Where DEF Enter
<1>2. Login(t) /\ Kind(t) \notin {"change", "logout"}
  BY <1>1, InLogin
<1>3. PICK u \in Users, p \in Passphrases : u = job[t].user /\ p = job[t].pass
  BY <1>1, Where
<1>4. told[u] \in {None, p} /\ open.user = u
  BY <1>2, <1>3 DEF Login
<1>5. ~inside
  BY <1>1, <1>2, LettingIn
<1>6. Who = None
  BY <1>5, WhoIs
<1>7. inside' => Who' = open'.user /\ Shown' = {open'.user}
  BY WhoIsNext
<1>8. told' = [told EXCEPT ![u] = p]
  BY <1>3 DEF Enter
<1>9. SafeIsLetIn(u, p)
  BY <1>1, <1>4, <1>6, <1>7, <1>8 DEF SafeIsLetIn
<1> QED  BY <1>9 DEF SafeSteps

LEMMA SaveNewKekIsChange ==
  ASSUME Inv, Inv', NEW t \in Threads, SaveNewKek(t)
  PROVE  SafeSteps
<1>1. AtStep(t, "saveNewKek")
  BY DEF SaveNewKek
<1>2. PICK u \in Users : u = job[t].user
  BY <1>1, Where
<1>3. Changed(t, u)
  BY <1>2, SaveNewKekDoes DEF Inv
<1>4. job[t].new \in Passphrases /\ LetIn
  BY <1>1, InAChange
<1>5. /\ inside /\ inside' /\ open' = open /\ session # None /\ session.user = u
      /\ told' = [told EXCEPT ![u] = job[t].new]
  BY <1>3 DEF Changed
<1>6. Who = u /\ open.user = u /\ Shown = {u}
  BY <1>4, <1>5, WhoIs DEF Who, LetIn
<1>7. inside' => Who' = open'.user /\ Shown' = {open'.user}
  BY WhoIsNext
<1>8. u # None
  BY NoneIsNone
<1>9. PICK p \in Passphrases : p = job[t].new
  BY <1>4
<1>10. SafeIsChanged(p)
  BY <1>5, <1>6, <1>7, <1>8, <1>9 DEF SafeIsChanged
<1> QED  BY <1>10 DEF SafeSteps

LEMMA StepOfTheSafe ==
  ASSUME Inv, Inv', NEW t \in Threads, Step(t), ~Fails(t)
  PROVE  SafeSteps
<1>1. CASE Enter(t)
  BY <1>1, EnterIsLetIn
<1>2. CASE SaveNewKek(t)
  BY <1>2, SaveNewKekIsChange
<1>3. CASE Logout(t) \/ LogoutThrows(t)
  <2>1. ~inside' /\ told' = told
    BY <1>3 DEF Logout, LogoutThrows, ProcessEnds
  <2> QED  BY <2>1, LockedSafe DEF SafeSteps
<1>4. CASE Initialize(t)
  <2>1. AtStep(t, "initialize") /\ told' = told /\ inside' = inside
    BY <1>4 DEF Initialize
  <2>2. ~inside
    BY <2>1, HasKey, LettingIn, Where DEF Inv, TypeInv
  <2> QED  BY <2>1, <2>2, NothingToTheSafe DEF SafeSteps
<1>5. CASE \/ SaveSalt(t) \/ InitSchema(t) \/ SetKek(t) \/ SaveKek(t) \/ SaveIdentity(t) \/ PostUser(t)
           \/ SaveDevice(t) \/ PostDevice(t) \/ Derive(t) \/ LoadKek(t) \/ Authenticate(t)
           \/ LoadRatchets(t) \/ PostKeys(t) \/ Rekey(t) \/ SaveNewSalt(t)
  <2>1. told' = told /\ inside' = inside /\ open' = open
    BY <1>5 DEF SaveSalt, InitSchema, SetKek, SaveKek, SaveIdentity, PostUser, SaveDevice, PostDevice,
                Derive, LoadKek, Authenticate, LoadRatchets, PostKeys, Rekey, SaveNewSalt, memory
  <2> QED  BY <2>1, NothingToTheSafe DEF SafeSteps
<1> QED  BY <1>1, <1>2, <1>3, <1>4, <1>5 DEF Step

LEMMA NextOfTheSafe ==
  ASSUME Orderly, Inv, Inv', [Next]_vars
  PROVE  SafeSteps
<1>1. ASSUME NEW t \in Threads, Step(t) PROVE SafeSteps
  <2>1. ~Fails(t)
    BY NoMishap DEF Fails, Inv
  <2> QED  BY <1>1, <2>1, StepOfTheSafe
<1>2. ASSUME NEW u \in Users, NEW p \in Passphrases, StartSetUpDevice(u, p) PROVE SafeSteps
  <2>1. Quiet /\ ~inside /\ db[u] = None /\ inside' = inside /\ told' = [told EXCEPT ![u] = None]
    BY <1>2, ThreadsAre DEF StartSetUpDevice, Outside, Quiet, Orderly, memory
  <2>2. told[u] = None
    BY <2>1, QuietPlain DEF Plain, Kept
  <2>3. told' = told
    BY <2>1, <2>2, RestOf DEF Inv
  <2> QED  BY <2>1, <2>3, NothingToTheSafe DEF SafeSteps
<1>3. CASE \/ \E u \in Users, p \in Passphrases : StartRegister(u, p) \/ StartLogin(u, p)
           \/ \E p, new \in Passphrases : StartChange(p, new)
           \/ StartLogout \/ UNCHANGED vars
  <2>1. told' = told /\ inside' = inside /\ open' = open
    BY <1>3 DEF StartRegister, StartLogin, StartChange, StartLogout, vars, memory
  <2> QED  BY <2>1, NothingToTheSafe DEF SafeSteps
<1>4. CASE Quit
  <2>1. ~inside' /\ told' = told
    BY <1>4 DEF Quit, ProcessEnds
  <2> QED  BY <2>1, LockedSafe DEF SafeSteps
<1>5. ~Crash
  BY NoMishap DEF Crash, Inv
<1> QED  BY <1>1, <1>2, <1>3, <1>4, <1>5 DEF Next

(* When users do the usual and nothing fails, the machine is a safe: it     *)
(* lets in one user at a time, with the passphrase that user was last told  *)
(* to have succeeded with, and its memory holds the secrets of nobody else. *)
THEOREM MachineIsASafe == Orderly => (Spec => ImplementsSafe)
<1>1. Init => TheSafe!Init
  <2> SUFFICES ASSUME Init PROVE TheSafe!Init
    OBVIOUS
  <2>1. Inv /\ ~inside /\ told = [u \in Users |-> None]
    BY InvStarts DEF Init
  <2>2. Who = None /\ Shown = {}
    BY <2>1, WhoIs
  <2> QED  BY <2>1, <2>2 DEF TheSafe!Init, Who, Shown
<1>2. SafeSteps => [TheSafe!Next]_TheSafe!vars
  <2>1. SafeSteps =>
          \/ \E u \in Users, p \in Passphrases : TheSafe!LetIn(u, p)
          \/ \E p \in Passphrases : TheSafe!Change(p)
          \/ TheSafe!Lock
          \/ UNCHANGED TheSafe!vars
    BY DEF SafeSteps, SafeIsLetIn, SafeIsChanged, SafeIsLocked, SafeRests, Who, Shown,
           TheSafe!LetIn, TheSafe!Change, TheSafe!Lock, TheSafe!vars
  <2> QED  BY <2>1 DEF TheSafe!Next
<1>3. ASSUME Orderly PROVE Spec => ImplementsSafe
  <2>1. Inv /\ [Next]_vars => Inv'
    BY <1>3, InvStays
  <2>2. Inv /\ Inv' /\ [Next]_vars => [TheSafe!Next]_TheSafe!vars
    BY <1>2, <1>3, NextOfTheSafe
  <2> QED  BY <1>1, <2>1, <2>2, InvStarts, PTL DEF Spec, ImplementsSafe, TheSafe!Spec
<1> QED  BY <1>3
=============================================================================
