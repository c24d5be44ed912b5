-------------------------- MODULE FileSharingProofs --------------------------
(***************************************************************************)
(* Proofs about FileSharing, for any users and devices, any number of      *)
(* files and of failures.                                                  *)
(*                                                                         *)
(* What the runs check is not inductive.  Inv adds what a handler may have *)
(* left and what it holds at each step (Plan, Own), that a KEK which was   *)
(* drawn and not sent is nowhere but in its job (Drawn, Unsent), that      *)
(* nothing is known of a file before its upload (Births), which devices    *)
(* messages about a file travel to (Travels), what the send window may     *)
(* take for granted (Asked) and what the sender's row is worth (Managed).  *)
(***************************************************************************)
EXTENDS FileSharing, Integers, FiniteSetTheorems, TLAPS

-----------------------------------------------------------------------------
(* What a handler may have left: a file is shared (sent, or access to it   *)
(* managed), a code is shown, messages are read, files are deleted and     *)
(* listed.                                                                 *)

Follows(k, a, b) ==
  \/ /\ k = "share"
     /\ \/ a = "upload" /\ b \in {"bundles", "post"}
        \/ a = "revoke" /\ b = "updateKey"
        \/ a = "updateKey" /\ b = "bundles"
        \/ a = "bundles" /\ b = "post"
        \/ a = "post" /\ b = "report"
        \/ a = "row" /\ b = "key"
        \/ a = "key" /\ b \in {"row", "report"}
  \/ /\ k = "show"
     /\ \/ a = "handshakes" /\ b = "bundles"
        \/ a = "bundles" /\ b \in {"code", "dashboardCode"}
  \/ /\ k = "read"
     /\ \/ a = "handshakes" /\ b = "messages"
        \/ a = "row" /\ b = "key"
        \/ a = "key" /\ b = "nextMessage"
  \/ /\ k = "delete"
     /\ \/ a = "deleteFile" /\ b = "deleteRow"
        \/ a = "deleteRow" /\ b = "list"

Lasts(k, a) ==
  \/ k = "share" /\ a \in {"post", "key", "report"}
  \/ k = "show" /\ a \in {"code", "dashboardCode"}
  \/ k = "read" /\ a \in {"messages", "nextMessage"}
  \/ k = "delete" /\ a = "list"

Kinds == {"share", "show", "read", "delete"}

Last(s) == s[Len(s)]
Path(k, s) ==
  /\ s \in Seq(Steps) /\ s # << >>
  /\ \A i \in 1 .. Len(s) - 1 : Follows(k, s[i], s[i + 1])
  /\ Lasts(k, Last(s))

Is(d, k) == Path(k, todo[d])
At(d, steps) == Head(todo[d]) \in steps
Sharing(d, steps) == Is(d, "share") /\ At(d, steps)

Unsent == {"upload", "revoke", "updateKey", "bundles", "post"}   \* the KEK was not sent
Saving == {"row", "key", "report"}

Full(j) == j.file \in Files /\ j.kek \in Keys /\ j.user \in Users

(* What the handler is about, and what it holds, at each of them.          *)
Plan(d) ==
  /\ Idle(d) \/ \E k \in Kinds : Is(d, k)
  /\ Idle(d) => job[d] = NoJob
  /\ batch[d] # << >> => Is(d, "read") /\ Last(todo[d]) = "nextMessage"
  /\ Is(d, "share") => Full(job[d]) /\ job[d].sender
  /\ ~Is(d, "share") => ~job[d].sender /\ ~job[d].manage
  /\ Sharing(d, {"upload"}) => ~job[d].manage
  /\ Is(d, "read") => (Full(job[d]) \/ (job[d] = NoJob /\ ~At(d, {"row", "key"})))
  /\ Is(d, "read") /\ Last(todo[d]) = "messages" => job[d] = NoJob
  /\ Is(d, "delete") => job[d].kek = None /\ (job[d].file \in Files \/ At(d, {"list"}))
  /\ Is(d, "show") => job[d].kek = None /\ job[d].file = None /\ job[d].user \in Users

-----------------------------------------------------------------------------
(* A file is unborn until it is uploaded: nothing is known of it.          *)
Unborn(f) ==
  \/ f > drawn
  \/ \E d \in Devices : Sharing(d, {"upload"}) /\ job[d].file = f

Nothing(f) ==
  /\ file[f] = None /\ shutOut[f] = {}
  /\ \A d \in Devices :
       /\ row[d][f] = None
       /\ \A i \in DOMAIN Coming(d) : Coming(d)[i].file # f
       /\ job[d].file = f => Sharing(d, {"upload"})
  /\ \A d, e \in Devices : job[d].file = f /\ job[e].file = f => d = e

Births == \A f \in Files : Unborn(f) => Nothing(f)

(* A KEK that was drawn and not sent is nowhere but in its job.            *)
Drawn ==
  /\ \A d \in Devices, f \in Files : row[d][f] # None => row[d][f].kek <= drawn
  /\ \A d \in Devices : \A i \in DOMAIN Coming(d) : Coming(d)[i].kek <= drawn
  /\ \A d \in Devices : job[d].kek # None => job[d].kek <= drawn
  /\ \A d \in Devices : job[d].file # None => job[d].file <= drawn
Fresh(d) ==
  Sharing(d, Unsent) =>
    /\ \A e \in Devices, f \in Files : row[e][f] # None => row[e][f].kek # job[d].kek
    /\ \A e \in Devices : \A i \in DOMAIN Coming(e) : Coming(e)[i].kek # job[d].kek
    /\ \A e \in Devices : job[e].kek = job[d].kek => e = d

(* What the server and the device have while the device shares a file, or  *)
(* deletes one.                                                            *)
Born(d) ==
  \/ Sharing(d, (Unsent \cup Saving) \ {"upload"})
  \/ Is(d, "delete") /\ At(d, {"deleteFile"})
Own(d) ==
  LET j == job[d]
      f == j.file
  IN  /\ Born(d) => file[f] # None /\ file[f].by = d
      /\ Is(d, "delete") /\ At(d, {"deleteRow", "list"}) /\ f # None => file[f] = None
      /\ Sharing(d, {"updateKey", "bundles", "post"}) => file[f].access = {}
      /\ Sharing(d, {"bundles", "post"} \cup Saving) => file[f].sealed.under = j.kek
      /\ Is(d, "share") /\ row[d][f] # None => row[d][f].user = j.user
      /\ Sharing(d, Saving) => file[f].access \subseteq {j.user}
      /\ Sharing(d, {"key"}) => row[d][f] # None /\ row[d][f].kek = j.kek
      /\ Sharing(d, {"report"}) /\ file[f].access # {} =>
           row[d][f] # None /\ row[d][f].keyed /\ row[d][f].kek = j.kek

(* The row that a key is saved for is there.                               *)
Keyable(d) == AtStep(d, "key") => row[d][job[d].file] # None

(* The sent window shows what it can manage, or has just deleted.          *)
Shows(d) ==
  \A f \in shown[d] :
    \/ file[f] # None /\ file[f].by = d
    \/ Is(d, "delete") /\ At(d, {"deleteRow", "list"}) /\ job[d].file = f

(* A file comes from a device to devices that device knows.                *)
Travels(d) ==
  \A i \in DOMAIN Coming(d) :
    file[Coming(d)[i].file] # None => d \in known[file[Coming(d)[i].file].by]

Owned(f) ==
  file[f] # None => file[f].owner = UserOf[file[f].by] /\ file[f].owner \notin shutOut[f]

(* Whose devices the send window may take to be known.                     *)
Knows(d, u) == DevicesOf(u, d) \subseteq known[d]
Expected(d) == codeFor[d] \in {None, job[d].user}
Asked(d) ==
  mishaps = 0 =>
    /\ fetched[d] => codeFor[d] # None /\ Knows(d, codeFor[d])
    /\ Is(d, "show") /\ At(d, {"code"}) => Knows(d, job[d].user)
    /\ Is(d, "share") /\ Last(todo[d]) = "report" /\ Expected(d) =>
         /\ At(d, {"upload"}) /\ todo[d][2] = "post" => Knows(d, job[d].user)
         /\ At(d, {"post"}) => Knows(d, job[d].user)
         /\ At(d, Saving) /\ DevicesOf(job[d].user, d) # {}
              => job[d].user \in file[job[d].file].access

(* The row of the sender is enough to manage the file.                     *)
Managed(f) ==
  mishaps = 0 /\ file[f] # None =>
    LET d == file[f].by
    IN  job[d].file # f /\ file[f].access \ {file[f].owner} # {} =>
          /\ row[d][f] # None /\ row[d][f].keyed /\ row[d][f].kek = file[f].sealed.under
          /\ file[f].access \ {file[f].owner} \subseteq {row[d][f].user}

Inv ==
  /\ TypeOK /\ Births /\ Drawn /\ ShutOutHaveNoKey /\ NewestMessageFits
  /\ \A d \in Devices :
       Plan(d) /\ Fresh(d) /\ Own(d) /\ Keyable(d) /\ Shows(d) /\ Travels(d) /\ Asked(d)
  /\ \A f \in Files : Owned(f) /\ Managed(f)

-----------------------------------------------------------------------------
(* Paths.                                                                  *)

LEMMA PathIsSeq ==
  ASSUME NEW k, NEW s, Path(k, s)
  PROVE  /\ s \in Seq(Steps) /\ s # << >> /\ Len(s) \in Nat /\ Len(s) > 0
         /\ DOMAIN s = 1 .. Len(s) /\ Head(s) = s[1] /\ Head(s) \in Steps
BY DEF Path

LEMMA PathKind ==
  ASSUME NEW k \in Kinds, NEW l \in Kinds, NEW s, Path(k, s), Path(l, s)
  PROVE  k = l
BY DEF Path, Lasts, Kinds

LEMMA NotEmpty ==
  ASSUME NEW S, NEW t \in Seq(S)
  PROVE  /\ Len(t) > 0 => t # << >> /\ Head(t) = t[1]
         /\ Len(t) = 0 => t = << >>
OBVIOUS

LEMMA PathEnds ==
  ASSUME NEW k, NEW s, Path(k, s), Len(s) = 1
  PROVE  Tail(s) = << >> /\ Last(s) = Head(s) /\ Lasts(k, Head(s))
<1>1. s \in Seq(Steps) /\ s # << >> /\ Head(s) = s[1] /\ Last(s) = s[1]
  BY PathIsSeq DEF Last
<1>2. Tail(s) \in Seq(Steps) /\ Len(Tail(s)) = 0
  BY <1>1
<1>3. Tail(s) = << >>
  BY <1>2, NotEmpty
<1>4. Lasts(k, Last(s))
  BY DEF Path
<1> QED  BY <1>1, <1>3, <1>4

LEMMA PathGoesOn ==
  ASSUME NEW k, NEW s, Path(k, s), Len(s) # 1
  PROVE  /\ Path(k, Tail(s)) /\ Tail(s) # << >>
         /\ Follows(k, Head(s), Head(Tail(s)))
         /\ Last(Tail(s)) = Last(s) /\ Head(Tail(s)) = s[2]
<1> DEFINE t == Tail(s)
           n == Len(s)
<1>0. s \in Seq(Steps) /\ n \in Nat /\ n > 0 /\ Head(s) = s[1]
  BY PathIsSeq
<1>1. s \in Seq(Steps) /\ n \in Nat /\ n > 1 /\ Head(s) = s[1]
  BY <1>0
<1>2. t \in Seq(Steps) /\ Len(t) = n - 1
  BY <1>1
<1>3. \A i \in 1 .. n - 1 : t[i] = s[i + 1]
  BY <1>1
<1>4. t # << >> /\ Head(t) = t[1]
  <2>1. Len(t) > 0
    BY <1>1, <1>2
  <2> QED  BY <2>1, <1>2, NotEmpty
<1>5. \A i \in 1 .. n - 1 : Follows(k, s[i], s[i + 1])
  BY DEF Path
<1>6. Lasts(k, Last(s)) /\ Last(s) = s[n]
  BY DEF Path, Last
<1> HIDE DEF t, n
<1>7. t[1] = s[2]
  BY <1>1, <1>3
<1>8. ASSUME NEW i \in 1 .. Len(t) - 1 PROVE Follows(k, t[i], t[i + 1])
  <2> DEFINE x == i + 1
  <2>1. i \in 1 .. n - 1 /\ x \in 1 .. n - 1
    BY <1>1, <1>2
  <2> HIDE DEF x
  <2>2. t[i] = s[x] /\ t[x] = s[x + 1]
    BY <2>1, <1>3 DEF x
  <2>3. Follows(k, s[x], s[x + 1])
    BY <2>1, <1>5
  <2> QED  BY <2>2, <2>3 DEF x
<1>9. Last(t) = s[n]
  <2>1. n - 1 \in 1 .. n - 1 /\ (n - 1) + 1 = n
    BY <1>1
  <2>2. t[n - 1] = s[n]
    BY <2>1, <1>3
  <2> QED  BY <2>2, <1>2 DEF Last
<1>10. Path(k, t)
  BY <1>2, <1>4, <1>6, <1>8, <1>9 DEF Path
<1>11. Follows(k, s[1], s[2])
  BY <1>1, <1>5
<1> QED  BY <1>1, <1>4, <1>6, <1>7, <1>9, <1>10, <1>11 DEF t

(* A path is put in front of a path.                                       *)
Chain(k, a) ==
  /\ a \in Seq(Steps) /\ a # << >>
  /\ \A i \in 1 .. Len(a) - 1 : Follows(k, a[i], a[i + 1])

Joins(k, a, t) == Chain(k, a) /\ Path(k, t) /\ Follows(k, Last(a), Head(t))
Joined(k, a, t) == Path(k, a \o t) /\ Head(a \o t) = Head(a) /\ Last(a \o t) = Last(t)

LEMMA PathAppends ==
  ASSUME NEW k, NEW a, NEW t, Joins(k, a, t)
  PROVE  Joined(k, a, t)
<1>0. Chain(k, a) /\ Path(k, t) /\ Follows(k, Last(a), Head(t))
  BY DEF Joins
<1> DEFINE s == a \o t
<1> DEFINE m == Len(a)
           n == Len(t)
<1>1. t \in Seq(Steps) /\ t # << >> /\ a \in Seq(Steps) /\ a # << >>
  BY <1>0, PathIsSeq DEF Chain
<1>2. m \in Nat /\ m > 0 /\ n \in Nat /\ n > 0
  BY <1>1
<1>3. s \in Seq(Steps) /\ Len(s) = m + n
  BY <1>1
<1>4. \A i \in 1 .. m : s[i] = a[i]
  BY <1>1, <1>2
<1>5. \A i \in 1 .. n : s[m + i] = t[i]
  BY <1>1, <1>2
<1>6. Head(t) = t[1] /\ Head(a) = a[1] /\ Last(a) = a[m] /\ Last(t) = t[n]
  BY <1>1, <1>2 DEF Last
<1>7. Follows(k, a[m], t[1])
  BY <1>0, <1>6
<1>8. \A i \in 1 .. n - 1 : Follows(k, t[i], t[i + 1])
  BY <1>0 DEF Path
<1>9. \A i \in 1 .. m - 1 : Follows(k, a[i], a[i + 1])
  BY <1>0 DEF Chain
<1> HIDE DEF m, n, s
<1>10. s # << >> /\ Head(s) = a[1]
  BY <1>2, <1>3, <1>4
<1>11. ASSUME NEW i \in 1 .. Len(s) - 1 PROVE Follows(k, s[i], s[i + 1])
  <2>1. CASE i < m
    <3> DEFINE x == i + 1
    <3>1. i \in 1 .. m - 1 /\ i \in 1 .. m /\ x \in 1 .. m
      BY <2>1, <1>2, <1>3
    <3>2. s[i] = a[i] /\ s[x] = a[x]
      BY <3>1, <1>4
    <3> QED  BY <3>1, <3>2, <1>9
  <2>2. CASE i = m
    <3>1. 1 \in 1 .. n /\ m \in 1 .. m
      BY <2>2, <1>2, <1>3
    <3>2. s[m + 1] = t[1] /\ s[m] = a[m]
      BY <3>1, <1>4, <1>5
    <3> QED  BY <2>2, <3>2, <1>7
  <2>3. CASE i > m
    <3> DEFINE y == i - m
               z == (i - m) + 1
    <3>1. y \in 1 .. n - 1 /\ y \in 1 .. n /\ z \in 1 .. n /\ m + y = i /\ m + z = i + 1
      BY <2>3, <1>2, <1>3
    <3>2. s[m + y] = t[y] /\ s[m + z] = t[z]
      BY <3>1, <1>5
    <3>3. Follows(k, t[y], t[y + 1])
      BY <3>1, <1>8
    <3> QED  BY <3>1, <3>2, <3>3
  <2> QED  BY <2>1, <2>2, <2>3, <1>2
<1>12. Last(s) = t[n]
  <2>1. n \in 1 .. n
    BY <1>2
  <2> QED  BY <2>1, <1>3, <1>5 DEF Last
<1>13. Lasts(k, Last(s))
  BY <1>0, <1>6, <1>12 DEF Path
<1>14. Path(k, s)
  BY <1>3, <1>10, <1>11, <1>13 DEF Path
<1> QED  BY <1>6, <1>10, <1>12, <1>14 DEF s, Joined

-----------------------------------------------------------------------------
(* The messages on their way to a device.                                  *)

LEMMA ComingIsSeq ==
  ASSUME TypeOK, NEW d \in Devices, Plan(d)
  PROVE  /\ Taken(d) \in Seq(Messages) /\ batch[d] \in Seq(Messages) /\ mailbox[d] \in Seq(Messages)
         /\ Coming(d) \in Seq(Messages)
<1>1. batch[d] \in Seq(Messages) /\ mailbox[d] \in Seq(Messages)
  BY DEF TypeOK
<1>2. ~job[d].sender /\ job[d].kek # None => Full(job[d])
  BY DEF Plan, NoJob, Kinds
<1>3. Taken(d) \in Seq(Messages)
  <2>1. CASE ~job[d].sender /\ job[d].kek # None
    <3>1. [file |-> job[d].file, kek |-> job[d].kek, user |-> job[d].user] \in Messages
      BY <2>1, <1>2 DEF Full, Messages
    <3> QED  BY <3>1, <2>1 DEF Taken
  <2>2. CASE ~(~job[d].sender /\ job[d].kek # None)
    BY <2>2 DEF Taken
  <2> QED  BY <2>1, <2>2
<1>4. Coming(d) \in Seq(Messages)
  BY <1>1, <1>3 DEF Coming
<1> QED  BY <1>1, <1>3, <1>4

LEMMA MessageOf ==
  ASSUME NEW s \in Seq(Messages), NEW i \in DOMAIN s
  PROVE  s[i] \in Messages /\ s[i].file \in Files /\ s[i].kek \in Keys /\ s[i].user \in Users
<1>1. s[i] \in Messages
  OBVIOUS
<1> QED  BY <1>1 DEF Messages

LEMMA NoneNoKey == None \notin Keys
BY NoneIsNone DEF Keys, Files

Suffix(t, s) == \E a \in Seq(Messages) : s = a \o t

LEMMA SuffixIndex ==
  ASSUME NEW t \in Seq(Messages), NEW s, Suffix(t, s)
  PROVE  \E n \in Nat : /\ DOMAIN s = 1 .. n + Len(t)
                        /\ \A i \in 1 .. Len(t) : s[n + i] = t[i]
<1>1. PICK a \in Seq(Messages) : s = a \o t
  BY DEF Suffix
<1>2. Len(a) \in Nat /\ Len(t) \in Nat /\ DOMAIN s = 1 .. Len(a) + Len(t)
  BY <1>1
<1>3. \A i \in 1 .. Len(t) : s[Len(a) + i] = t[i]
  BY <1>1
<1> QED  BY <1>2, <1>3

LEMMA SuffixComes ==
  ASSUME NEW t \in Seq(Messages), NEW s, Suffix(t, s), NEW i \in DOMAIN t
  PROVE  \E j \in DOMAIN s : s[j] = t[i]
<1>1. PICK n \in Nat : /\ DOMAIN s = 1 .. n + Len(t)
                       /\ \A k \in 1 .. Len(t) : s[n + k] = t[k]
  BY SuffixIndex
<1>2. Len(t) \in Nat /\ i \in 1 .. Len(t)
  OBVIOUS
<1>3. n + i \in 1 .. n + Len(t)
  BY <1>2
<1> QED  BY <1>1, <1>2, <1>3

LEMMA SuffixLatest ==
  ASSUME NEW t \in Seq(Messages), NEW s, Suffix(t, s), NEW f, NEW kek, Latest(s, f, kek)
  PROVE  Latest(t, f, kek)
<1>1. PICK n \in Nat : /\ DOMAIN s = 1 .. n + Len(t)
                       /\ \A k \in 1 .. Len(t) : s[n + k] = t[k]
  BY SuffixIndex
<1>2. Len(t) \in Nat /\ DOMAIN t = 1 .. Len(t)
  OBVIOUS
<1>3. SUFFICES ASSUME NEW i \in 1 .. Len(t), t[i].file = f,
                      \A j \in 1 .. Len(t) : j > i => t[j].file # f
               PROVE  t[i].kek = kek
  BY <1>2 DEF Latest
<1> DEFINE x == n + i
<1>4. x \in 1 .. n + Len(t) /\ s[x] = t[i]
  BY <1>1, <1>2
<1>5. ASSUME NEW j \in 1 .. n + Len(t), j > x PROVE s[j].file # f
  <2> DEFINE y == j - n
  <2>1. y \in 1 .. Len(t) /\ y > i /\ n + y = j
    BY <1>2, <1>5
  <2>2. s[n + y] = t[y] /\ t[y].file # f
    BY <2>1, <1>1, <1>3
  <2> QED  BY <2>1, <2>2
<1> HIDE DEF x
<1>6. s[x].kek = kek
  BY <1>1, <1>3, <1>4, <1>5 DEF Latest
<1> QED  BY <1>4, <1>6

LEMMA AppendComes ==
  ASSUME NEW s \in Seq(Messages), NEW m \in Messages, NEW u, u = Append(s, m), NEW i \in DOMAIN u
  PROVE  u[i] = m \/ \E j \in DOMAIN s : s[j] = u[i]
<1>1. Len(s) \in Nat /\ DOMAIN s = 1 .. Len(s) /\ i \in 1 .. Len(s) + 1
  OBVIOUS
<1>2. CASE i = Len(s) + 1
  BY <1>2
<1>3. CASE i \in 1 .. Len(s)
  BY <1>1, <1>3
<1> QED  BY <1>1, <1>2, <1>3

LEMMA AppendLatest ==
  ASSUME NEW s \in Seq(Messages), NEW m \in Messages, NEW u, u = Append(s, m), NEW f, NEW kek,
         IF m.file = f THEN m.kek = kek ELSE Latest(s, f, kek)
  PROVE  Latest(u, f, kek)
<1> DEFINE n == Len(s)
<1>1. n \in Nat /\ DOMAIN s = 1 .. n /\ DOMAIN u = 1 .. n + 1 /\ u[n + 1] = m
  OBVIOUS
<1>2. \A i \in 1 .. n : u[i] = s[i]
  OBVIOUS
<1> HIDE DEF n
<1>3. SUFFICES ASSUME NEW i \in 1 .. n + 1, u[i].file = f,
                      \A j \in 1 .. n + 1 : j > i => u[j].file # f
               PROVE  u[i].kek = kek
  BY <1>1 DEF Latest
<1>4. CASE i = n + 1
  BY <1>1, <1>3, <1>4
<1>5. CASE i # n + 1
  <2>1. i \in 1 .. n /\ n + 1 > i /\ n + 1 \in 1 .. n + 1
    BY <1>1, <1>5
  <2>2. m.file # f
    BY <2>1, <1>1, <1>3
  <2>3. \A j \in 1 .. n : j > i => s[j].file # f
    <3>1. \A j \in 1 .. n : j \in 1 .. n + 1
      BY <1>1
    <3> QED  BY <3>1, <1>2, <1>3
  <2>4. s[i].kek = kek
    BY <2>1, <2>2, <2>3, <1>1, <1>2, <1>3 DEF Latest
  <2> QED  BY <2>1, <2>4, <1>2
<1> QED  BY <1>4, <1>5

LEMMA ConcatAppend ==
  ASSUME NEW a \in Seq(Messages), NEW b \in Seq(Messages), NEW m \in Messages
  PROVE  a \o Append(b, m) = Append(a \o b, m)
OBVIOUS

LEMMA ConcatEmpty ==
  ASSUME NEW S, NEW a \in Seq(S)
  PROVE  << >> \o a = a /\ a \o << >> = a
OBVIOUS

LEMMA ConcatAssoc ==
  ASSUME NEW a \in Seq(Messages), NEW b \in Seq(Messages), NEW c \in Seq(Messages)
  PROVE  (a \o b) \o c = a \o (b \o c)
OBVIOUS

-----------------------------------------------------------------------------
(* Steps that change neither a file at the server nor a row: what is on    *)
(* its way is read, lost or left.                                          *)

Jobs == [file : Files \cup {None}, kek : Keys \cup {None}, user : Users \cup {None},
         sender : BOOLEAN, manage : BOOLEAN]

Lefts(d, t, j) == todo' = [todo EXCEPT ![d] = t] /\ job' = [job EXCEPT ![d] = j]

Others(d) ==
  \A e \in Devices : e # d =>
    /\ todo'[e] = todo[e] /\ job'[e] = job[e] /\ row'[e] = row[e] /\ known'[e] = known[e]
    /\ batch'[e] = batch[e]
    /\ fetched'[e] = fetched[e] /\ shown'[e] = shown[e] /\ codeFor'[e] = codeFor[e]

Less == \A e \in Devices : Coming(e)' \in Seq(Messages) /\ Suffix(Coming(e)', Coming(e))

Calm(d) ==
  /\ file' = file /\ row' = row /\ shutOut' = shutOut
  /\ mishaps' = 0 => mishaps = 0
  /\ Others(d) /\ known[d] \subseteq known'[d]
  /\ Less

Quiet(d) == Calm(d) /\ drawn' = drawn

(* More generally: only what the job of d is about changes, and the KEK of   *)
(* the job gets into messages and rows only when it is being sent.         *)
Moves(d) ==
  /\ drawn' = drawn /\ Others(d)
  /\ \A f \in Files : f # job[d].file =>
       file'[f] = file[f] /\ shutOut'[f] = shutOut[f] /\ row'[d][f] = row[d][f]
  /\ \A f \in Files : row'[d][f] # None =>
       \/ row[d][f] # None /\ row'[d][f].kek = row[d][f].kek
       \/ row'[d][f].kek = job[d].kek /\ job[d].kek # None /\ ~Sharing(d, Unsent)'
  /\ \A e \in Devices : \A i \in DOMAIN Coming(e)' :
       \/ \E k \in DOMAIN Coming(e) : Coming(e)[k] = Coming(e)'[i]
       \/ /\ Coming(e)'[i].file = job[d].file /\ Coming(e)'[i].kek = job[d].kek
          /\ job[d].kek # None /\ ~Sharing(d, Unsent)'

(* What the job of d may be after such a step.                             *)
Keeps(d) ==
  /\ \/ job'[d].kek \in {None, job[d].kek}
     \/ \E i \in DOMAIN Coming(d) : Coming(d)[i].kek = job'[d].kek
  /\ ~Sharing(d, {"upload"})'
  /\ \A f \in Files : job'[d].file = f => job[d].file = f \/ ~Unborn(f)
  /\ Sharing(d, Unsent)' => Sharing(d, Unsent) /\ job'[d] = job[d]

(* What such a step of d has to establish for d itself.                    *)
Proper(d) ==
  /\ Plan(d)' /\ Own(d)' /\ Keyable(d)' /\ Shows(d)' /\ Asked(d)'
  /\ \A f \in Files : file[f] # None /\ file[f].by = d => Managed(f)'

LEMMA QuietMoves ==
  ASSUME NEW d \in Devices, Quiet(d)
  PROVE  Moves(d)
<1>1. file' = file /\ row' = row /\ shutOut' = shutOut /\ drawn' = drawn /\ Others(d)
  BY DEF Quiet, Calm
<1>2. ASSUME NEW e \in Devices, NEW i \in DOMAIN Coming(e)'
      PROVE  \E k \in DOMAIN Coming(e) : Coming(e)[k] = Coming(e)'[i]
  <2>1. Coming(e)' \in Seq(Messages) /\ Suffix(Coming(e)', Coming(e))
    BY DEF Quiet, Calm, Less
  <2> QED  BY <2>1, SuffixComes
<1> QED  BY <1>1, <1>2 DEF Moves

LEMMA MovesBirths ==
  ASSUME Inv, NEW d \in Devices, Moves(d), Keeps(d)
  PROVE  Births'
<1>1. SUFFICES ASSUME NEW f \in Files, Unborn(f)' PROVE Nothing(f)'
  BY DEF Births
<1>2. Unborn(f) /\ job[d].file # f
  <2>1. f \in Nat /\ drawn \in Nat /\ f # None
    BY NoneIsNone, Bounds DEF Files, Inv, TypeOK
  <2>2. CASE f > drawn'
    <3>1. f > drawn
      BY <2>2 DEF Moves
    <3> QED  BY <2>1, <3>1 DEF Inv, Drawn, Unborn
  <2>3. CASE \E e \in Devices : Sharing(e, {"upload"})' /\ job'[e].file = f
    <3>1. PICK e \in Devices : Sharing(e, {"upload"})' /\ job'[e].file = f
      BY <2>3
    <3>2. e # d
      BY <3>1 DEF Keeps
    <3>3. todo'[e] = todo[e] /\ job'[e] = job[e]
      BY <3>2 DEF Moves, Others
    <3>4. Sharing(e, {"upload"}) /\ job[e].file = f
      BY <3>1, <3>3 DEF Sharing, Is, At
    <3>5. Unborn(f)
      BY <3>4 DEF Unborn
    <3>6. Nothing(f)
      BY <3>5 DEF Inv, Births
    <3> QED  BY <3>2, <3>4, <3>5, <3>6 DEF Nothing
  <2> QED  BY <1>1, <2>2, <2>3 DEF Unborn
<1>3. Nothing(f)
  BY <1>2 DEF Inv, Births
<1>4. job'[d].file # f
  BY <1>2 DEF Keeps
<1>5. ASSUME NEW e \in Devices
      PROVE  /\ row'[e][f] = None
             /\ \A i \in DOMAIN Coming(e)' : Coming(e)'[i].file # f
             /\ job'[e].file = f => Sharing(e, {"upload"})' /\ e # d /\ job[e].file = f
  <2>1. row'[e][f] = None
    <3>1. row'[e][f] = row[e][f]
      BY <1>2 DEF Moves, Others
    <3> QED  BY <1>3, <3>1 DEF Nothing
  <2>2. ASSUME NEW i \in DOMAIN Coming(e)' PROVE Coming(e)'[i].file # f
    <3>1. \/ \E k \in DOMAIN Coming(e) : Coming(e)[k] = Coming(e)'[i]
          \/ Coming(e)'[i].file = job[d].file
      BY DEF Moves
    <3> QED  BY <3>1, <1>2, <1>3 DEF Nothing
  <2>3. ASSUME job'[e].file = f PROVE Sharing(e, {"upload"})' /\ e # d /\ job[e].file = f
    <3>1. e # d
      BY <2>3, <1>4
    <3>2. todo'[e] = todo[e] /\ job'[e] = job[e]
      BY <3>1 DEF Moves, Others
    <3>3. Sharing(e, {"upload"})
      BY <3>2, <2>3, <1>3 DEF Nothing
    <3> QED  BY <3>1, <3>2, <3>3, <2>3 DEF Sharing, Is, At
  <2> QED  BY <2>1, <2>2, <2>3
<1>6. file'[f] = None /\ shutOut'[f] = {}
  BY <1>2, <1>3 DEF Moves, Nothing
<1>7. \A e, g \in Devices : job'[e].file = f /\ job'[g].file = f => e = g
  BY <1>3, <1>5 DEF Nothing
<1> QED  BY <1>5, <1>6, <1>7 DEF Nothing

LEMMA MovesDrawn ==
  ASSUME Inv, NEW d \in Devices, TypeOK', Moves(d), Keeps(d)
  PROVE  Drawn'
<1>1. Drawn /\ drawn' = drawn
  BY DEF Inv, Moves
<1>2. ASSUME NEW e \in Devices, NEW f \in Files, row'[e][f] # None PROVE row'[e][f].kek <= drawn'
  <2>1. CASE e = d
    BY <2>1, <1>1, <1>2 DEF Drawn, Moves
  <2>2. CASE e # d
    BY <2>2, <1>1, <1>2 DEF Drawn, Moves, Others
  <2> QED  BY <2>1, <2>2
<1>3. ASSUME NEW e \in Devices, NEW i \in DOMAIN Coming(e)' PROVE Coming(e)'[i].kek <= drawn'
  <2>1. \/ \E k \in DOMAIN Coming(e) : Coming(e)[k] = Coming(e)'[i]
        \/ Coming(e)'[i].kek = job[d].kek /\ job[d].kek # None
    BY DEF Moves
  <2> QED  BY <2>1, <1>1 DEF Drawn
<1>4. ASSUME NEW e \in Devices, job'[e].kek # None PROVE job'[e].kek <= drawn'
  <2>1. CASE e = d
    BY <2>1, <1>1, <1>4 DEF Drawn, Keeps
  <2>2. CASE e # d
    BY <2>2, <1>1, <1>4 DEF Drawn, Others, Moves
  <2> QED  BY <2>1, <2>2
<1>5. ASSUME NEW e \in Devices, job'[e].file # None PROVE job'[e].file <= drawn'
  <2>1. CASE e = d
    <3> DEFINE f == job'[d].file
    <3>1. f \in Files
      BY <2>1, <1>5 DEF TypeOK
    <3>2. f = job[d].file \/ ~(f > drawn)
      BY <3>1 DEF Keeps, Unborn
    <3>3. f \in Nat /\ drawn \in Nat
      BY <3>1, Bounds DEF Files, Inv, TypeOK
    <3> QED  BY <2>1, <1>1, <1>5, <3>2, <3>3 DEF Drawn
  <2>2. CASE e # d
    BY <2>2, <1>1, <1>5 DEF Drawn, Others, Moves
  <2> QED  BY <2>1, <2>2
<1> QED  BY <1>2, <1>3, <1>4, <1>5 DEF Drawn

LEMMA MovesFresh ==
  ASSUME Inv, NEW d \in Devices, Moves(d), Keeps(d), NEW e \in Devices
  PROVE  Fresh(e)'
<1>1. SUFFICES ASSUME Sharing(e, Unsent)'
               PROVE  /\ \A g \in Devices, f \in Files : row'[g][f] # None => row'[g][f].kek # job'[e].kek
                      /\ \A g \in Devices : \A i \in DOMAIN Coming(g)' : Coming(g)'[i].kek # job'[e].kek
                      /\ \A g \in Devices : job'[g].kek = job'[e].kek => g = e
  BY DEF Fresh
<1>2. Sharing(e, Unsent) /\ job'[e] = job[e]
  <2>1. CASE e = d
    BY <1>1, <2>1 DEF Keeps
  <2>2. CASE e # d
    <3>1. todo'[e] = todo[e] /\ job'[e] = job[e]
      BY <2>2 DEF Moves, Others
    <3> QED  BY <3>1, <1>1 DEF Sharing, Is, At
  <2> QED  BY <2>1, <2>2
<1>3. /\ \A g \in Devices, f \in Files : row[g][f] # None => row[g][f].kek # job[e].kek
      /\ \A g \in Devices : \A i \in DOMAIN Coming(g) : Coming(g)[i].kek # job[e].kek
      /\ \A g \in Devices : job[g].kek = job[e].kek => g = e
  BY <1>2 DEF Inv, Fresh
<1>4. ~Sharing(d, Unsent)' => job[d].kek # job'[e].kek
  BY <1>1, <1>2, <1>3
<1>5. ASSUME NEW g \in Devices, NEW i \in DOMAIN Coming(g)' PROVE Coming(g)'[i].kek # job'[e].kek
  <2>1. \/ \E k \in DOMAIN Coming(g) : Coming(g)[k] = Coming(g)'[i]
        \/ Coming(g)'[i].kek = job[d].kek /\ ~Sharing(d, Unsent)'
    BY DEF Moves
  <2> QED  BY <2>1, <1>2, <1>3, <1>4
<1>6. ASSUME NEW g \in Devices, job'[g].kek = job'[e].kek PROVE g = e
  <2>1. job[e].kek # None
    <3>1. Full(job[e])
      BY <1>2 DEF Inv, Plan, Sharing
    <3> QED  BY <3>1, NoneNoKey DEF Full
  <2>2. CASE g = d /\ g # e
    BY <2>1, <2>2, <1>2, <1>3, <1>6 DEF Keeps
  <2>3. CASE g # d /\ g # e
    BY <2>3, <1>2, <1>3, <1>6 DEF Moves, Others
  <2> QED  BY <2>2, <2>3
<1>7. ASSUME NEW g \in Devices, NEW f \in Files, row'[g][f] # None PROVE row'[g][f].kek # job'[e].kek
  <2>1. CASE g = d
    <3>1. \/ row[d][f] # None /\ row'[d][f].kek = row[d][f].kek
          \/ row'[d][f].kek = job[d].kek /\ ~Sharing(d, Unsent)'
      BY <2>1, <1>7 DEF Moves
    <3> QED  BY <2>1, <3>1, <1>2, <1>3, <1>4
  <2>2. CASE g # d
    BY <2>2, <1>2, <1>3, <1>7 DEF Moves, Others
  <2> QED  BY <2>1, <2>2
<1> QED  BY <1>5, <1>6, <1>7

RowFits(e, f) ==
  file[f] # None /\ UserOf[e] \in shutOut[f] /\ row[e][f] # None
    => row[e][f].kek # file[f].sealed.under

LEMMA LessMessages ==
  ASSUME Inv, NEW d \in Devices, Less, Others(d), known[d] \subseteq known'[d],
         file' = file, shutOut' = shutOut,
         \A e \in Devices, f \in Files :
           row'[e][f] = row[e][f] \/ RowFits(e, f)'
  PROVE  ShutOutHaveNoKey' /\ NewestMessageFits' /\ \A e \in Devices : Travels(e)'
<1>1. file' = file /\ shutOut' = shutOut
  OBVIOUS
<1>2. ASSUME NEW e \in Devices PROVE Coming(e)' \in Seq(Messages) /\ Suffix(Coming(e)', Coming(e))
  BY DEF Less
<1>3. ASSUME NEW e \in Devices, NEW i \in DOMAIN Coming(e)'
      PROVE \E j \in DOMAIN Coming(e) : Coming(e)[j] = Coming(e)'[i]
  BY <1>2, SuffixComes
<1>4. ASSUME NEW e \in Devices, NEW f \in Files, file[f] # None, UserOf[e] \in shutOut[f]
      PROVE  /\ row[e][f] # None => row[e][f].kek # file[f].sealed.under
             /\ \A i \in DOMAIN Coming(e)' :
                  Coming(e)'[i].file = f => Coming(e)'[i].kek # file[f].sealed.under
  <2>1. /\ row[e][f] # None => row[e][f].kek # file[f].sealed.under
        /\ \A i \in DOMAIN Coming(e) :
                  Coming(e)[i].file = f => Coming(e)[i].kek # file[f].sealed.under
    BY <1>4 DEF Inv, ShutOutHaveNoKey
  <2> QED  BY <2>1, <1>3
<1>5. ShutOutHaveNoKey'
  <2>1. ASSUME NEW e \in Devices, NEW f \in Files PROVE RowFits(e, f)'
    <3>1. CASE row'[e][f] = row[e][f]
      BY <3>1, <1>1, <1>4 DEF RowFits
    <3> QED  BY <3>1
  <2> QED  BY <2>1, <1>1, <1>4 DEF ShutOutHaveNoKey, RowFits
<1>6. ASSUME NEW e \in Devices, NEW f \in Files, file[f] # None, UserOf[e] \in file[f].access
      PROVE  Latest(Coming(e)', f, file[f].sealed.under)
  <2>1. Latest(Coming(e), f, file[f].sealed.under)
    BY <1>6 DEF Inv, NewestMessageFits
  <2> QED  BY <2>1, <1>2, SuffixLatest
<1>7. NewestMessageFits'
  BY <1>1, <1>6 DEF NewestMessageFits
<1>8. ASSUME NEW e \in Devices PROVE Travels(e)'
  <2>1. SUFFICES ASSUME NEW i \in DOMAIN Coming(e)', file[Coming(e)'[i].file] # None
                 PROVE  e \in known'[file[Coming(e)'[i].file].by]
    BY <1>1 DEF Travels
  <2>2. PICK j \in DOMAIN Coming(e) : Coming(e)[j] = Coming(e)'[i]
    BY <1>3
  <2> DEFINE f == Coming(e)[j].file
             b == file[f].by
  <2>3. e \in known[b]
    BY <2>1, <2>2 DEF Inv, Travels
  <2>4. f \in Files
    <3>1. Coming(e) \in Seq(Messages)
      BY ComingIsSeq DEF Inv
    <3> QED  BY <3>1, MessageOf
  <2>5. b \in Devices
    BY <2>1, <2>2, <2>4 DEF Inv, TypeOK, Stored
  <2>6. known[b] \subseteq known'[b]
    BY <2>5 DEF Others
  <2> QED  BY <2>2, <2>3, <2>6
<1> QED  BY <1>5, <1>7, <1>8

LEMMA QuietMessages ==
  ASSUME Inv, NEW d \in Devices, Calm(d)
  PROVE  ShutOutHaveNoKey' /\ NewestMessageFits' /\ \A e \in Devices : Travels(e)'
<1>1. \A e \in Devices, f \in Files : row'[e][f] = row[e][f]
  BY DEF Calm
<1>2. Less /\ Others(d) /\ known[d] \subseteq known'[d] /\ file' = file /\ shutOut' = shutOut
  BY DEF Calm
<1> QED  BY <1>1, <1>2, LessMessages

LEMMA OthersStay ==
  ASSUME Inv, NEW d \in Devices, Others(d), file' = file, mishaps' = 0 => mishaps = 0,
         NEW e \in Devices, e # d
  PROVE  Plan(e)' /\ Own(e)' /\ Keyable(e)' /\ Shows(e)' /\ Asked(e)'
<1>1. /\ todo'[e] = todo[e] /\ job'[e] = job[e] /\ row'[e] = row[e] /\ known'[e] = known[e]
      /\ batch'[e] = batch[e]
      /\ fetched'[e] = fetched[e] /\ shown'[e] = shown[e] /\ codeFor'[e] = codeFor[e]
  BY DEF Others
<1>2. file' = file /\ (mishaps' = 0 => mishaps = 0)
  OBVIOUS
<1>3. Plan(e)'
  BY <1>1 DEF Inv, Plan, Idle, Is, Sharing, At
<1>4. Own(e)'
  BY <1>1, <1>2 DEF Inv, Own, Born, Is, Sharing, At
<1>5. Keyable(e)' /\ Shows(e)'
  BY <1>1, <1>2 DEF Inv, Keyable, AtStep, Idle, Shows, Is, At
<1>6. Asked(e)'
  BY <1>1, <1>2 DEF Inv, Asked, Knows, Expected, Is, At
<1> QED  BY <1>3, <1>4, <1>5, <1>6

LEMMA QuietOthers ==
  ASSUME Inv, NEW d \in Devices, Calm(d), NEW e \in Devices, e # d
  PROVE  Plan(e)' /\ Own(e)' /\ Keyable(e)' /\ Shows(e)' /\ Asked(e)'
BY OthersStay DEF Calm

LEMMA QuietFiles ==
  ASSUME Inv, NEW d \in Devices, Calm(d), NEW f \in Files
  PROVE  /\ Owned(f)'
         /\ file[f] # None /\ file[f].by # d => Managed(f)'
<1>1. file' = file /\ shutOut' = shutOut /\ row' = row /\ (mishaps' = 0 => mishaps = 0)
  BY DEF Calm
<1>2. Owned(f)'
  BY <1>1 DEF Inv, Owned
<1>3. ASSUME file[f] # None, file[f].by # d PROVE Managed(f)'
  <2>1. file[f].by \in Devices
    BY <1>3 DEF Inv, TypeOK, Stored
  <2>2. job'[file[f].by] = job[file[f].by]
    BY <2>1, <1>3 DEF Calm, Others
  <2> QED  BY <2>2, <1>1 DEF Inv, Managed
<1> QED  BY <1>2, <1>3

LEMMA QuietInv ==
  ASSUME Inv, NEW d \in Devices, TypeOK', Quiet(d), Keeps(d), Proper(d)
  PROVE  Inv'
<1>0. Calm(d) /\ Moves(d)
  BY QuietMoves DEF Quiet
<1>1. ASSUME NEW e \in Devices
      PROVE  (Plan(e) /\ Fresh(e) /\ Own(e) /\ Keyable(e) /\ Shows(e) /\ Travels(e) /\ Asked(e))'
  BY <1>0, QuietOthers, MovesFresh, QuietMessages DEF Proper
<1>2. ASSUME NEW f \in Files PROVE (Owned(f) /\ Managed(f))'
  <2>1. file[f] = None => Managed(f)'
    BY DEF Managed, Quiet, Calm
  <2> QED  BY <2>1, <1>0, QuietFiles DEF Proper
<1> QED  BY <1>0, <1>1, <1>2, MovesBirths, MovesDrawn, QuietMessages DEF Inv

-----------------------------------------------------------------------------
(* The handler of a device goes on, or ends.                               *)

LEMMA NoJobIsJob ==
  /\ NoJob \in Jobs /\ NoJob.kek = None /\ NoJob.file = None /\ NoJob.user = None
  /\ ~NoJob.sender /\ ~NoJob.manage
BY DEF NoJob, Jobs

LEMMA LeftsTypes ==
  ASSUME TypeOK, NEW d \in Devices, NEW t \in Seq(Steps), NEW j \in Jobs, Lefts(d, t, j)
  PROVE  /\ todo' \in [Devices -> Seq(Steps)] /\ job' \in [Devices -> Jobs]
         /\ todo'[d] = t /\ job'[d] = j
         /\ \A e \in Devices : e # d => todo'[e] = todo[e] /\ job'[e] = job[e]
BY DEF TypeOK, Lefts, Jobs

LEMMA GoOnLefts ==
  ASSUME TypeOK, NEW d \in Devices, ~Idle(d), GoOn(d, << >>)
  PROVE  /\ Tail(todo[d]) \in Seq(Steps) /\ job[d] \in Jobs
         /\ Lefts(d, Tail(todo[d]), IF Tail(todo[d]) = << >> THEN NoJob ELSE job[d])
<1>1. todo \in [Devices -> Seq(Steps)] /\ job \in [Devices -> Jobs]
  BY DEF TypeOK, Jobs
<1>2. todo[d] \in Seq(Steps) /\ todo[d] # << >> /\ job[d] \in Jobs
  BY <1>1 DEF Idle
<1>3. Tail(todo[d]) \in Seq(Steps)
  BY <1>2
<1>4. << >> \o Tail(todo[d]) = Tail(todo[d])
  BY <1>3, ConcatEmpty
<1>5. todo' = [todo EXCEPT ![d] = Tail(todo[d])]
  BY <1>4 DEF GoOn
<1>6. todo'[d] = Tail(todo[d])
  BY <1>1, <1>5
<1>7. job' = [job EXCEPT ![d] = IF todo'[d] = << >> THEN NoJob ELSE job[d]]
  BY DEF GoOn
<1> QED  BY <1>2, <1>3, <1>5, <1>6, <1>7 DEF Lefts

LEMMA GoOnTypes ==
  ASSUME TypeOK, NEW d \in Devices, ~Idle(d), GoOn(d, << >>)
  PROVE  /\ todo' \in [Devices -> Seq(Steps)] /\ job' \in [Devices -> Jobs]
         /\ todo'[d] = Tail(todo[d])
         /\ job'[d] = IF Tail(todo[d]) = << >> THEN NoJob ELSE job[d]
         /\ \A e \in Devices : e # d => todo'[e] = todo[e] /\ job'[e] = job[e]
<1> DEFINE t == Tail(todo[d])
           j == IF t = << >> THEN NoJob ELSE job[d]
<1>1. t \in Seq(Steps) /\ job[d] \in Jobs /\ Lefts(d, t, j)
  BY GoOnLefts
<1>2. j \in Jobs
  BY <1>1, NoJobIsJob
<1> HIDE DEF t, j
<1>3. /\ todo' \in [Devices -> Seq(Steps)] /\ job' \in [Devices -> Jobs]
      /\ todo'[d] = t /\ job'[d] = j
      /\ \A e \in Devices : e # d => todo'[e] = todo[e] /\ job'[e] = job[e]
  BY <1>1, <1>2, LeftsTypes
<1> QED  BY <1>3 DEF t, j

LEMMA NotOnPath == ASSUME NEW k PROVE ~Path(k, << >>)
BY DEF Path

(* The kind of what d has left.                                            *)
LEMMA PlanKind ==
  ASSUME Inv, NEW d \in Devices, ~Idle(d)
  PROVE  /\ todo[d] \in Seq(Steps) /\ todo[d] # << >>
         /\ \E k \in Kinds : Is(d, k) /\ \A l \in Kinds : Is(d, l) => l = k
<1>1. PICK k \in Kinds : Is(d, k)
  BY DEF Inv, Plan
<1>2. \A l \in Kinds : Is(d, l) => l = k
  BY <1>1, PathKind DEF Is
<1> QED  BY <1>1, <1>2, PathIsSeq DEF Is

(* After a step that is not the last.                                      *)
LEMMA NextStep ==
  ASSUME Inv, NEW d \in Devices, ~Idle(d), NEW t, t = Tail(todo[d]), t # << >>,
         NEW k \in Kinds, Is(d, k)
  PROVE  /\ Path(k, t) /\ Follows(k, Head(todo[d]), Head(t)) /\ Last(t) = Last(todo[d])
         /\ Head(t) = todo[d][2]
         /\ \A l \in Kinds : Path(l, t) => l = k
<1>1. Len(todo[d]) # 1
  BY PathEnds DEF Is
<1>2. Path(k, t) /\ Follows(k, Head(todo[d]), Head(t)) /\ Last(t) = Last(todo[d]) /\ Head(t) = todo[d][2]
  BY <1>1, PathGoesOn DEF Is
<1> QED  BY <1>2, PathKind

(* After the last step.                                                    *)
LEMMA LastStep ==
  ASSUME Inv, NEW d \in Devices, ~Idle(d), Tail(todo[d]) = << >>, NEW k \in Kinds, Is(d, k)
  PROVE  Last(todo[d]) = Head(todo[d]) /\ Lasts(k, Head(todo[d]))
<1>1. Len(todo[d]) = 1
  BY PathGoesOn DEF Is
<1> QED  BY <1>1, PathEnds DEF Is

LEMMA GoOnPlan ==
  ASSUME Inv, NEW d \in Devices, ~Idle(d), GoOn(d, << >>), batch'[d] = batch[d],
         Tail(todo[d]) = << >> => batch[d] = << >>
  PROVE  Plan(d)'
<1> DEFINE t == Tail(todo[d])
<1>1. /\ todo'[d] = t
      /\ job'[d] = IF t = << >> THEN NoJob ELSE job[d]
  BY GoOnTypes DEF Inv
<1>2. CASE t = << >>
  <2>1. todo'[d] = << >> /\ job'[d] = NoJob /\ batch'[d] = << >>
    BY <1>1, <1>2
  <2>2. \A k : ~Is(d, k)'
    BY <2>1, NotOnPath DEF Is
  <2> QED  BY <2>1, <2>2, NoJobIsJob DEF Plan, Idle, Sharing
<1>3. CASE t # << >>
  <2>1. PICK k \in Kinds : Is(d, k) /\ \A l \in Kinds : Is(d, l) => l = k
    BY PlanKind
  <2>2. Path(k, t) /\ Follows(k, Head(todo[d]), Head(t)) /\ Last(t) = Last(todo[d])
    BY <1>3, <2>1, NextStep
  <2>3. \A l \in Kinds : Path(l, t) => l = k
    BY <1>3, <2>1, NextStep
  <2> HIDE DEF t
  <2>4. job'[d] = job[d] /\ Is(d, k)' /\ (\A l \in Kinds : Is(d, l)' => l = k)
    BY <1>1, <1>3, <2>2, <2>3 DEF Is
  <2>5. Head(todo'[d]) = Head(t) /\ Last(todo'[d]) = Last(todo[d]) /\ ~Idle(d)'
    BY <1>1, <1>3, <2>2 DEF Idle
  <2>6. Plan(d)
    BY DEF Inv
  <2>7. /\ batch'[d] # << >> => Is(d, "read")' /\ Last(todo'[d]) = "nextMessage"
        /\ Is(d, "share")' => Full(job'[d]) /\ job'[d].sender
        /\ ~Is(d, "share")' => ~job'[d].sender /\ ~job'[d].manage
    BY <2>1, <2>4, <2>5, <2>6 DEF Plan, Kinds
  <2>8. ~Sharing(d, {"upload"})'
    BY <2>2, <2>4, <2>5 DEF Sharing, At, Follows, Kinds
  <2>9. Is(d, "read")' => (Full(job'[d]) \/ (job'[d] = NoJob /\ ~At(d, {"row", "key"})'))
    <3>1. SUFFICES ASSUME k = "read"
                   PROVE Full(job'[d]) \/ (job'[d] = NoJob /\ ~At(d, {"row", "key"})')
      BY <2>4 DEF Kinds
    <3>2. Full(job[d]) \/ (job[d] = NoJob /\ ~At(d, {"row", "key"}))
      BY <2>1, <2>6, <3>1 DEF Plan
    <3> QED  BY <2>2, <2>4, <2>5, <3>1, <3>2 DEF At, Follows
  <2>10. Is(d, "read")' /\ Last(todo'[d]) = "messages" => job'[d] = NoJob
    BY <2>1, <2>4, <2>5, <2>6 DEF Plan, Kinds
  <2>11. Is(d, "delete")' => job'[d].kek = None /\ (job'[d].file \in Files \/ At(d, {"list"})')
    <3>1. SUFFICES ASSUME k = "delete"
                   PROVE  job[d].kek = None /\ (job[d].file \in Files \/ At(d, {"list"})')
      BY <2>4 DEF Kinds
    <3>2. job[d].kek = None /\ (job[d].file \in Files \/ At(d, {"list"}))
      BY <2>1, <2>6, <3>1 DEF Plan
    <3> QED  BY <2>2, <2>5, <3>1, <3>2 DEF At, Follows
  <2>12. Is(d, "show")' => job'[d].kek = None /\ job'[d].file = None /\ job'[d].user \in Users
    BY <2>1, <2>4, <2>6 DEF Plan, Kinds
  <2>13. Idle(d)' \/ \E l \in Kinds : Is(d, l)'
    BY <2>4
  <2> QED  BY <2>5, <2>7, <2>8, <2>9, <2>10, <2>11, <2>12, <2>13 DEF Plan
<1> QED  BY <1>2, <1>3

-----------------------------------------------------------------------------
(* What is left on its way.                                                *)

LEMMA SuffixParts ==
  ASSUME NEW a \in Seq(Messages), NEW b \in Seq(Messages), NEW c \in Seq(Messages)
  PROVE  /\ Suffix((a \o b) \o c, (a \o b) \o c)
         /\ Suffix((<< >> \o b) \o c, (a \o b) \o c)
         /\ Suffix((<< >> \o << >>) \o c, (a \o b) \o c)
         /\ Suffix((<< >> \o << >>) \o << >>, (a \o b) \o c)
<1>1. a \o b \in Seq(Messages) /\ (a \o b) \o c \in Seq(Messages) /\ << >> \in Seq(Messages)
  OBVIOUS
<1>2. << >> \o b = b /\ << >> \o << >> = << >> /\ << >> \o c = c /\ << >> \o ((a \o b) \o c) = (a \o b) \o c
  BY <1>1, ConcatEmpty
<1>3. ((a \o b) \o c) \o << >> = (a \o b) \o c
  BY <1>1, ConcatEmpty
<1>4. (a \o b) \o c = a \o (b \o c)
  BY ConcatAssoc
<1>5. Suffix((a \o b) \o c, (a \o b) \o c)
  BY <1>1, <1>2 DEF Suffix
<1>6. Suffix((<< >> \o b) \o c, (a \o b) \o c)
  BY <1>2, <1>4 DEF Suffix
<1>7. Suffix((<< >> \o << >>) \o c, (a \o b) \o c)
  BY <1>1, <1>2 DEF Suffix
<1>8. Suffix((<< >> \o << >>) \o << >>, (a \o b) \o c)
  BY <1>1, <1>2, <1>3 DEF Suffix
<1> QED  BY <1>5, <1>6, <1>7, <1>8

LEMMA ComingOthers ==
  ASSUME Inv, NEW e \in Devices, job'[e] = job[e], batch'[e] = batch[e], mailbox'[e] = mailbox[e]
  PROVE  Taken(e)' = Taken(e) /\ Coming(e)' = Coming(e)
         /\ Coming(e)' \in Seq(Messages) /\ Suffix(Coming(e)', Coming(e))
<1>1. Taken(e)' = Taken(e)
  BY DEF Taken
<1>2. Coming(e)' = Coming(e)
  BY <1>1 DEF Coming
<1>3. Taken(e) \in Seq(Messages) /\ batch[e] \in Seq(Messages) /\ mailbox[e] \in Seq(Messages)
      /\ Coming(e) \in Seq(Messages)
  BY ComingIsSeq DEF Inv
<1>4. Suffix(Coming(e), Coming(e))
  BY <1>3, SuffixParts DEF Coming
<1> QED  BY <1>1, <1>2, <1>3, <1>4

(* The job ends or goes on; the batch ends or goes on.                     *)
LEMMA ComingLess ==
  ASSUME Inv, NEW d \in Devices, job'[d] \in {NoJob, job[d]}, mailbox'[d] = mailbox[d],
         batch'[d] = batch[d] \/ (batch'[d] = << >> /\ job'[d] = NoJob)
  PROVE  Coming(d)' \in Seq(Messages) /\ Suffix(Coming(d)', Coming(d))
<1>1. Taken(d) \in Seq(Messages) /\ batch[d] \in Seq(Messages) /\ mailbox[d] \in Seq(Messages)
  BY ComingIsSeq DEF Inv
<1>2. CASE job'[d] = job[d] /\ batch'[d] = batch[d]
  BY <1>2, ComingOthers
<1>3. CASE job'[d] = NoJob
  <2>1. Taken(d)' = << >>
    BY <1>3, NoJobIsJob DEF Taken
  <2>2. CASE batch'[d] = batch[d]
    <3>1. Coming(d)' = (<< >> \o batch[d]) \o mailbox[d]
      BY <2>1, <2>2 DEF Coming
    <3>2. Coming(d)' \in Seq(Messages)
      BY <3>1, <1>1
    <3> QED  BY <3>1, <3>2, <1>1, SuffixParts DEF Coming
  <2>3. CASE batch'[d] = << >>
    <3>1. Coming(d)' = (<< >> \o << >>) \o mailbox[d]
      BY <2>1, <2>3 DEF Coming
    <3>2. Coming(d)' \in Seq(Messages)
      BY <3>1, <1>1
    <3> QED  BY <3>1, <3>2, <1>1, SuffixParts DEF Coming
  <2> QED  BY <2>2, <2>3
<1> QED  BY <1>2, <1>3

-----------------------------------------------------------------------------
(* What a job may be, and what the device has, after such a step.          *)

LEMMA ComingBorn ==
  ASSUME Inv, NEW d \in Devices, NEW i \in DOMAIN Coming(d)
  PROVE  ~Unborn(Coming(d)[i].file)
<1>1. Coming(d)[i].file \in Files
  BY ComingIsSeq, MessageOf DEF Inv
<1> QED  BY <1>1 DEF Inv, Births, Nothing

LEMMA EndKeeps ==
  ASSUME NEW d \in Devices, todo'[d] = << >>, job'[d] = NoJob
  PROVE  Keeps(d)
<1>1. ~Is(d, "share")'
  BY NotOnPath DEF Is
<1>2. \A f \in Files : job'[d].file # f
  BY NoJobIsJob, NoneIsNone
<1> QED  BY <1>1, <1>2, NoJobIsJob DEF Keeps, Sharing

LEMMA GoOnKeeps ==
  ASSUME Inv, NEW d \in Devices, ~Idle(d), GoOn(d, << >>)
  PROVE  Keeps(d)
<1> DEFINE t == Tail(todo[d])
<1>1. todo'[d] = t /\ job'[d] = IF t = << >> THEN NoJob ELSE job[d]
  BY GoOnTypes DEF Inv
<1>2. CASE t = << >>
  BY <1>1, <1>2, EndKeeps
<1>3. CASE t # << >>
  <2>1. PICK k \in Kinds : Is(d, k)
    BY PlanKind
  <2>2. Follows(k, Head(todo[d]), Head(t)) /\ (\A l \in Kinds : Path(l, t) => l = k)
    BY <1>3, <2>1, NextStep
  <2> HIDE DEF t
  <2>3. job'[d] = job[d] /\ todo'[d] = t
    BY <1>1, <1>3
  <2>5. \A f \in Files : job'[d].file = f => job[d].file = f
    BY <2>3
  <2>6. ~Sharing(d, {"upload"})'
    BY <2>2, <2>3 DEF Sharing, Is, At, Follows, Kinds
  <2>7. Sharing(d, Unsent)' => Sharing(d, Unsent)
    <3>1. SUFFICES ASSUME Path("share", t), Head(t) \in Unsent PROVE Sharing(d, Unsent)
      BY <2>3 DEF Sharing, Is, At
    <3>2. k = "share"
      BY <2>2, <3>1 DEF Kinds
    <3>3. Head(todo[d]) \in Unsent
      BY <2>2, <3>1, <3>2 DEF Follows, Unsent
    <3> QED  BY <2>1, <3>2, <3>3 DEF Sharing, At
  <2> QED  BY <2>3, <2>5, <2>6, <2>7 DEF Keeps
<1> QED  BY <1>2, <1>3

KnowsNext(d, u) == DevicesOf(u, d) \subseteq known'[d]

(* The handler is at its end.                                              *)
LEMMA EndProper ==
  ASSUME Inv, NEW d \in Devices, Quiet(d),
         todo'[d] = << >>, job'[d] = NoJob, batch'[d] = << >>,
         \A f \in shown'[d] : file[f] # None /\ file[f].by = d,
         mishaps' = 0 /\ fetched'[d] => codeFor'[d] # None /\ KnowsNext(d, codeFor'[d]),
         \A f \in Files :
           mishaps' = 0 /\ file[f] # None /\ file[f].by = d /\ job[d].file = f
             /\ file[f].access \ {file[f].owner} # {} =>
             /\ row[d][f] # None /\ row[d][f].keyed /\ row[d][f].kek = file[f].sealed.under
             /\ file[f].access \ {file[f].owner} \subseteq {row[d][f].user}
  PROVE  Proper(d)
<1>1. \A k : ~Is(d, k)'
  BY NotOnPath DEF Is
<1>2. Idle(d)'
  BY DEF Idle
<1>3. Plan(d)'
  BY <1>1, <1>2, NoJobIsJob DEF Plan, Sharing
<1>4. Own(d)' /\ Keyable(d)'
  BY <1>1, <1>2 DEF Own, Keyable, Sharing, Born, AtStep
<1>5. file' = file /\ row' = row
  BY DEF Quiet, Calm
<1>6. Shows(d)'
  BY <1>5 DEF Shows
<1>7. Asked(d)'
  BY <1>1 DEF Asked, Knows, KnowsNext
<1>8. ASSUME NEW f \in Files, file[f] # None, file[f].by = d PROVE Managed(f)'
  <2>1. CASE job[d].file = f
    BY <2>1, <1>5, <1>8 DEF Managed
  <2>2. CASE job[d].file # f
    <3>1. Managed(f) /\ (mishaps' = 0 => mishaps = 0)
      BY DEF Inv, Quiet, Calm
    <3> QED  BY <2>2, <3>1, <1>5, <1>8 DEF Managed
  <2> QED  BY <2>1, <2>2
<1> QED  BY <1>3, <1>4, <1>6, <1>7, <1>8 DEF Proper

(* The handler goes on from handshakes or bundles.                         *)
LEMMA MidProper ==
  ASSUME Inv, NEW d \in Devices, Quiet(d), ~Idle(d), GoOn(d, << >>), Tail(todo[d]) # << >>,
         AtStep(d, "handshakes") \/ AtStep(d, "bundles"),
         batch'[d] = batch[d], shown'[d] = shown[d], fetched'[d] = fetched[d], codeFor'[d] = codeFor[d],
         mishaps' = 0 /\ AtStep(d, "bundles") => KnowsNext(d, job[d].user)
  PROVE  Proper(d)
<1> DEFINE t == Tail(todo[d])
           h == Head(todo[d])
<1>1. todo'[d] = t /\ job'[d] = job[d]
  BY GoOnTypes DEF Inv
<1>2. PICK k \in Kinds : Is(d, k)
  BY PlanKind
<1>3. /\ Path(k, t) /\ Follows(k, h, Head(t)) /\ Last(t) = Last(todo[d])
      /\ (\A l \in Kinds : Path(l, t) => l = k)
  BY <1>2, NextStep
<1>4. Plan(d)'
  BY GoOnPlan
<1>5. h \in {"handshakes", "bundles"}
  BY DEF AtStep
<1> HIDE DEF t, h
<1>6. Is(d, k)' /\ (\A l \in Kinds : Is(d, l)' => l = k) /\ Head(todo'[d]) = Head(t) /\ Last(todo'[d]) = Last(todo[d])
  BY <1>1, <1>3 DEF Is
<1>7. Head(t) \in {"bundles", "post", "code", "dashboardCode", "messages"}
  BY <1>3, <1>5 DEF Follows
<1>8. Is(d, "share")' => Is(d, "share") /\ h = "bundles" /\ Head(t) = "post"
  BY <1>2, <1>3, <1>5, <1>6 DEF Follows, Kinds
<1>9. Head(t) \in {"post", "code", "dashboardCode"} => h = "bundles"
  BY <1>3, <1>5 DEF Follows
<1>10. ~(Is(d, "delete") \/ Is(d, "delete")')
  <2>1. k # "delete"
    BY <1>3, <1>5 DEF Follows
  <2>2. \A l \in Kinds : Is(d, l) => l = k
    BY <1>2, PathKind DEF Is
  <2> QED  BY <2>1, <2>2, <1>6 DEF Kinds
<1>11. file' = file /\ row' = row /\ (mishaps' = 0 => mishaps = 0) /\ known[d] \subseteq known'[d]
  BY DEF Quiet, Calm
<1>12. Own(d)'
  <2>1. CASE ~Is(d, "share")'
    BY <2>1, <1>10 DEF Own, Sharing, Born
  <2>2. CASE Is(d, "share")'
    <3>1. Sharing(d, {"bundles"})
      BY <2>2, <1>8 DEF Sharing, At, h
    <3>2. Own(d)
      BY DEF Inv
    <3>3. /\ file[job[d].file] # None /\ file[job[d].file].by = d
          /\ file[job[d].file].access = {}
          /\ file[job[d].file].sealed.under = job[d].kek
          /\ row[d][job[d].file] # None => row[d][job[d].file].user = job[d].user
      BY <3>1, <3>2 DEF Own, Born, Sharing, At, Unsent
    <3>4. Head(todo'[d]) = "post"
      BY <2>2, <1>6, <1>8
    <3> QED  BY <3>3, <3>4, <1>1, <1>10, <1>11 DEF Own, Sharing, At, Saving
  <2> QED  BY <2>1, <2>2
<1>13. Keyable(d)'
  BY <1>6, <1>7 DEF Keyable, AtStep
<1>14. Shows(d)'
  BY <1>10, <1>11 DEF Inv, Shows
<1>15. Asked(d)'
  <2>1. SUFFICES ASSUME mishaps' = 0 PROVE
          /\ fetched'[d] => codeFor'[d] # None /\ KnowsNext(d, codeFor'[d])
          /\ Is(d, "show")' /\ Head(todo'[d]) \in {"code"} => KnowsNext(d, job'[d].user)
          /\ Is(d, "share")' /\ Last(todo'[d]) = "report" /\ Expected(d)' =>
               /\ Head(todo'[d]) # "upload"
               /\ Head(todo'[d]) = "post" => KnowsNext(d, job'[d].user)
               /\ Head(todo'[d]) \notin Saving
    BY DEF Asked, At, Knows, KnowsNext, Saving, Expected
  <2>2. fetched'[d] => codeFor'[d] # None /\ KnowsNext(d, codeFor'[d])
    BY <2>1, <1>11 DEF Inv, Asked, Knows, KnowsNext
  <2>3. Head(todo'[d]) \in {"post", "code"} => KnowsNext(d, job'[d].user)
    <3>1. h = "bundles" => KnowsNext(d, job[d].user)
      BY <2>1 DEF AtStep, h
    <3> QED  BY <3>1, <1>1, <1>6, <1>9 DEF KnowsNext
  <2> QED  BY <2>2, <2>3, <1>6, <1>7 DEF Saving
<1>16. ASSUME NEW f \in Files, file[f] # None, file[f].by = d PROVE Managed(f)'
  <2>1. Managed(f)
    BY DEF Inv
  <2> QED  BY <2>1, <1>1, <1>11, <1>16 DEF Managed
<1> QED  BY <1>4, <1>12, <1>13, <1>14, <1>15, <1>16 DEF Proper

-----------------------------------------------------------------------------
(* The steps after which a handler goes on, or ends, with the same files,  *)
(* rows and messages.                                                      *)

Side(d) ==
  /\ known' \in [Devices -> SUBSET Devices] /\ (\A e \in Devices : e \notin known'[e])
  /\ fetched' \in [Devices -> BOOLEAN] /\ shown' \in [Devices -> SUBSET Files]
  /\ codeFor' \in [Devices -> Users \cup {None}]
  /\ mishaps' \in 0 .. MaxMishaps /\ (mishaps' = 0 => mishaps = 0)
  /\ known[d] \subseteq known'[d]
  /\ \A e \in Devices : e # d =>
       /\ known'[e] = known[e] /\ fetched'[e] = fetched[e] /\ shown'[e] = shown[e]
       /\ codeFor'[e] = codeFor[e]

LEMMA SideSame ==
  ASSUME TypeOK, NEW d \in Devices, UNCHANGED <<known, window>>,
         mishaps' \in 0 .. MaxMishaps, mishaps' = 0 => mishaps = 0
  PROVE  Side(d)
BY DEF TypeOK, Side, window

LEMMA MishapCounts ==
  ASSUME TypeOK, Mishap \/ mishaps' = mishaps
  PROVE  /\ mishaps' \in 0 .. MaxMishaps /\ (mishaps' = 0 => mishaps = 0)
         /\ Mishap => mishaps' # 0
BY Bounds DEF TypeOK, Mishap

LEMMA QuietTypes ==
  ASSUME Inv, NEW d \in Devices, Side(d),
         file' = file, row' = row, shutOut' = shutOut, drawn' = drawn,
         todo' \in [Devices -> Seq(Steps)], job' \in [Devices -> Jobs],
         mailbox' \in [Devices -> Seq(Messages)], batch' \in [Devices -> Seq(Messages)]
  PROVE  TypeOK'
BY DEF Inv, TypeOK, Side, Jobs

LEMMA GoOnQuiet ==
  ASSUME Inv, NEW d \in Devices, ~Idle(d), GoOn(d, << >>), ~AtStep(d, "upload"),
         file' = file, mailbox' = mailbox, row' = row, batch' = batch, shutOut' = shutOut,
         drawn' = drawn, Side(d)
  PROVE  TypeOK' /\ Quiet(d) /\ Keeps(d)
<1>1. TypeOK
  BY DEF Inv
<1>2. /\ todo' \in [Devices -> Seq(Steps)] /\ job' \in [Devices -> Jobs]
      /\ \A e \in Devices : e # d => todo'[e] = todo[e] /\ job'[e] = job[e]
      /\ job'[d] \in {NoJob, job[d]}
  BY <1>1, GoOnTypes
<1>3. mailbox \in [Devices -> Seq(Messages)] /\ batch \in [Devices -> Seq(Messages)]
  BY <1>1 DEF TypeOK
<1>4. TypeOK'
  BY <1>2, <1>3, QuietTypes
<1>5. ASSUME NEW e \in Devices PROVE Coming(e)' \in Seq(Messages) /\ Suffix(Coming(e)', Coming(e))
  <2>1. CASE e = d
    BY <2>1, <1>2, ComingLess
  <2>2. CASE e # d
    BY <2>2, <1>2, ComingOthers
  <2> QED  BY <2>1, <2>2
<1>6. Quiet(d)
  BY <1>2, <1>5 DEF Quiet, Calm, Less, Others, Side
<1> QED  BY <1>4, <1>6, GoOnKeeps

(* The message a device is keeping is on its way to it.                    *)
LEMMA TakenComes ==
  ASSUME Inv, NEW d \in Devices, Is(d, "read"), Full(job[d])
  PROVE  /\ \E i \in DOMAIN Coming(d) :
              /\ Coming(d)[i].file = job[d].file /\ Coming(d)[i].kek = job[d].kek
         /\ file[job[d].file] # None => file[job[d].file].by # d
<1> DEFINE m == [file |-> job[d].file, kek |-> job[d].kek, user |-> job[d].user]
           s == Coming(d)
<1>1. job[d].kek # None /\ ~job[d].sender
  <2>1. ~Is(d, "share")
    BY PathKind DEF Is, Kinds
  <2> QED  BY <2>1, NoneNoKey DEF Inv, Plan, Full
<1>2. Taken(d) = << m >>
  BY <1>1 DEF Taken
<1>3. m \in Messages
  BY DEF Full, Messages
<1>4. batch[d] \in Seq(Messages) /\ mailbox[d] \in Seq(Messages) /\ s \in Seq(Messages)
  BY ComingIsSeq DEF Inv
<1>5. s = (<< m >> \o batch[d]) \o mailbox[d]
  BY <1>2 DEF Coming
<1>6. 1 \in DOMAIN s /\ s[1] = m
  <2> HIDE DEF m
  <2>1. << m >> \in Seq(Messages) /\ Len(<< m >>) = 1 /\ << m >>[1] = m
    BY <1>3
  <2> DEFINE c == << m >> \o batch[d]
  <2>2. c \in Seq(Messages) /\ Len(c) > 0 /\ c[1] = m
    BY <2>1, <1>4
  <2>3. s = c \o mailbox[d]
    BY <1>5
  <2> HIDE DEF c
  <2>4. (c \o mailbox[d])[1] = c[1] /\ 1 \in DOMAIN (c \o mailbox[d])
    BY <2>2, <1>4
  <2> QED  BY <2>2, <2>3, <2>4
<1>7. m.file = job[d].file /\ m.kek = job[d].kek
  OBVIOUS
<1> HIDE DEF m
<1>8. ASSUME file[job[d].file] # None PROVE file[job[d].file].by # d
  <2>1. d \in known[file[job[d].file].by]
    BY <1>6, <1>7, <1>8 DEF Inv, Travels
  <2> QED  BY <2>1 DEF Inv, TypeOK
<1> QED  BY <1>6, <1>7, <1>8

(* The file of a job of the sender has nobody with access, if it is his.   *)
Unshared(d) ==
  \A f \in Files : job[d].file = f /\ file[f] # None /\ file[f].by = d => file[f].access = {}

LEMMA ShownStay ==
  ASSUME Inv, NEW d \in Devices, ~(Is(d, "delete") /\ At(d, {"deleteRow", "list"})), NEW f \in shown[d]
  PROVE  file[f] # None /\ file[f].by = d
BY DEF Inv, Shows

LEMMA EndsInv ==
  ASSUME Inv, NEW d \in Devices, Throw(d) \/ ProcessEnds(d),
         file' = file, mailbox' = mailbox, row' = row, known' = known, shutOut' = shutOut,
         drawn' = drawn, Mishap \/ (mishaps' = mishaps /\ Unshared(d))
  PROVE  Inv'
<1>1. TypeOK /\ Plan(d) /\ Shows(d) /\ Asked(d)
  BY DEF Inv
<1>2. /\ mishaps' \in 0 .. MaxMishaps /\ (mishaps' = 0 => mishaps = 0)
      /\ mishaps' = 0 => Unshared(d)
  BY <1>1, MishapCounts
<1>3. todo' = [todo EXCEPT ![d] = << >>] /\ job' = [job EXCEPT ![d] = NoJob]
  BY DEF Throw, ProcessEnds
<1>4. /\ todo' \in [Devices -> Seq(Steps)] /\ job' \in [Devices -> Jobs]
      /\ todo'[d] = << >> /\ job'[d] = NoJob
      /\ \A e \in Devices : e # d => todo'[e] = todo[e] /\ job'[e] = job[e]
  <2>1. << >> \in Seq(Steps) /\ Lefts(d, << >>, NoJob)
    BY <1>3 DEF Lefts
  <2> QED  BY <2>1, <1>1, NoJobIsJob, LeftsTypes
<1>5. CASE ProcessEnds(d)
  <2>1. /\ batch' = [batch EXCEPT ![d] = << >>] /\ fetched' = [fetched EXCEPT ![d] = FALSE]
        /\ codeFor' = [codeFor EXCEPT ![d] = None] /\ shown' = [shown EXCEPT ![d] = {}]
    BY <1>5 DEF ProcessEnds
  <2>2. /\ batch \in [Devices -> Seq(Messages)] /\ mailbox \in [Devices -> Seq(Messages)]
        /\ fetched \in [Devices -> BOOLEAN] /\ codeFor \in [Devices -> Users \cup {None}]
        /\ shown \in [Devices -> SUBSET Files]
        /\ known \in [Devices -> SUBSET Devices] /\ (\A e \in Devices : e \notin known[e])
    BY <1>1 DEF TypeOK
  <2>3. /\ batch' \in [Devices -> Seq(Messages)] /\ batch'[d] = << >>
        /\ \A e \in Devices : e # d => batch'[e] = batch[e]
    BY <2>1, <2>2
  <2>4. Side(d) /\ shown'[d] = {} /\ fetched'[d] = FALSE
    BY <2>1, <2>2, <1>2 DEF Side
  <2>5. TypeOK'
    BY <1>4, <2>2, <2>3, <2>4, QuietTypes
  <2>6. ASSUME NEW e \in Devices PROVE Coming(e)' \in Seq(Messages) /\ Suffix(Coming(e)', Coming(e))
    <3>1. CASE e = d
      BY <3>1, <1>4, <2>3, ComingLess
    <3>2. CASE e # d
      BY <3>2, <1>4, <2>3, ComingOthers
    <3> QED  BY <3>1, <3>2
  <2>7. Quiet(d)
    BY <1>2, <1>4, <2>3, <2>4, <2>6 DEF Quiet, Calm, Less, Others, Side
  <2>8. Proper(d)
    BY <1>2, <1>4, <2>3, <2>4, <2>7, EndProper DEF Unshared
  <2> QED  BY <1>4, <2>5, <2>7, <2>8, EndKeeps, QuietInv
<1>6. CASE ~ProcessEnds(d)
  <2>1. job[d].manage /\ UNCHANGED <<batch, window>>
    BY <1>6 DEF Throw
  <2>2. batch \in [Devices -> Seq(Messages)] /\ mailbox \in [Devices -> Seq(Messages)]
    BY <1>1 DEF TypeOK
  <2>3. Side(d) /\ shown'[d] = shown[d] /\ fetched'[d] = fetched[d] /\ codeFor'[d] = codeFor[d]
    BY <2>1, <1>1, <1>2, SideSame DEF window
  <2>4. TypeOK'
    BY <1>4, <2>1, <2>2, <2>3, QuietTypes
  <2>5. Is(d, "share") /\ ~Is(d, "delete") /\ ~Is(d, "read")
    <3>1. Is(d, "share")
      BY <2>1, <1>1 DEF Plan
    <3> QED  BY <3>1, PathKind DEF Is, Kinds
  <2>6. batch'[d] = << >>
    BY <2>1, <2>5, <1>1 DEF Plan
  <2>7. ASSUME NEW e \in Devices PROVE Coming(e)' \in Seq(Messages) /\ Suffix(Coming(e)', Coming(e))
    <3>1. CASE e = d
      BY <3>1, <1>4, <2>1, ComingLess
    <3>2. CASE e # d
      BY <3>2, <1>4, <2>1, ComingOthers
    <3> QED  BY <3>1, <3>2
  <2>8. Quiet(d)
    BY <1>2, <1>4, <2>1, <2>3, <2>7 DEF Quiet, Calm, Less, Others, Side
  <2>9. \A f \in shown'[d] : file[f] # None /\ file[f].by = d
    BY <2>3, <2>5, ShownStay
  <2>10. mishaps' = 0 /\ fetched'[d] => codeFor'[d] # None /\ KnowsNext(d, codeFor'[d])
    BY <2>3, <1>1, <1>2 DEF Asked, Knows, KnowsNext
  <2>11. Proper(d)
    BY <1>2, <1>4, <2>6, <2>8, <2>9, <2>10, EndProper DEF Unshared
  <2> QED  BY <1>4, <2>4, <2>8, <2>11, EndKeeps, QuietInv
<1> QED  BY <1>5, <1>6

-----------------------------------------------------------------------------
(* Steps that ask the server or the user, or report.                       *)

(* From its head, what d is at.                                            *)
LEMMA AtIs ==
  ASSUME Inv, NEW d \in Devices, NEW s, AtStep(d, s), NEW k \in Kinds, Is(d, k)
  PROVE  /\ ~Idle(d) /\ Head(todo[d]) = s
         /\ \A l \in Kinds : Is(d, l) => l = k
         /\ Tail(todo[d]) = << >> => Lasts(k, s) /\ Last(todo[d]) = s
         /\ Tail(todo[d]) # << >> => Follows(k, s, Head(Tail(todo[d])))
<1>1. ~Idle(d) /\ Head(todo[d]) = s
  BY DEF AtStep
<1>2. \A l \in Kinds : Is(d, l) => l = k
  BY PathKind DEF Is
<1>3. Tail(todo[d]) = << >> => Lasts(k, s) /\ Last(todo[d]) = s
  BY <1>1, LastStep
<1>4. Tail(todo[d]) # << >> => Follows(k, s, Head(Tail(todo[d])))
  BY <1>1, NextStep
<1> QED  BY <1>1, <1>2, <1>3, <1>4

(* A step that is never the last.                                          *)
LEMMA NotLast ==
  ASSUME Inv, NEW d \in Devices, NEW s, AtStep(d, s),
         s \in {"upload", "bundles", "handshakes", "revoke", "updateKey", "deleteFile", "deleteRow", "row"}
  PROVE  Tail(todo[d]) # << >>
<1>1. PICK k \in Kinds : Is(d, k)
  BY PlanKind DEF AtStep
<1> QED  BY <1>1, AtIs DEF Lasts

(* A step that is always the last.                                         *)
LEMMA AlwaysLast ==
  ASSUME Inv, NEW d \in Devices, NEW s, AtStep(d, s),
         s \in {"report", "code", "dashboardCode", "messages", "list", "nextMessage"}
  PROVE  Tail(todo[d]) = << >>
<1>1. PICK k \in Kinds : Is(d, k)
  BY PlanKind DEF AtStep
<1> QED  BY <1>1, AtIs DEF Follows

(* Which steps belong to which kind alone.                                 *)
LEMMA StepKind ==
  ASSUME Inv, NEW d \in Devices, NEW s, AtStep(d, s)
  PROVE  /\ s \in {"upload", "revoke", "updateKey", "post", "report"} => Is(d, "share")
         /\ s \in {"code", "dashboardCode"} => Is(d, "show")
         /\ s \in {"messages", "nextMessage"} => Is(d, "read")
         /\ s \in {"deleteFile", "deleteRow", "list"} => Is(d, "delete")
         /\ s = "bundles" => Is(d, "share") \/ Is(d, "show")
         /\ s \in {"row", "key"} => Is(d, "share") \/ Is(d, "read")
         /\ s = "handshakes" => Is(d, "show") \/ Is(d, "read")
<1>1. PICK k \in Kinds : Is(d, k)
  BY PlanKind DEF AtStep
<1>2. Lasts(k, s) \/ \E b : Follows(k, s, b)
  BY <1>1, AtIs
<1>3. k \in {"share", "show", "read", "delete"}
  BY DEF Kinds
<1> QED  BY <1>1, <1>2, <1>3 DEF Follows, Lasts

LEMMA NotBoth ==
  ASSUME NEW d
  PROVE  /\ Is(d, "share") => ~Is(d, "show") /\ ~Is(d, "read") /\ ~Is(d, "delete")
         /\ Is(d, "show") => ~Is(d, "read") /\ ~Is(d, "delete")
         /\ Is(d, "read") => ~Is(d, "delete")
BY PathKind DEF Is, Kinds

(* Nothing of the batch is left where the handler ends with anything else. *)
LEMMA NoBatch ==
  ASSUME Inv, NEW d \in Devices, Idle(d) \/ ~Is(d, "read") \/ AtStep(d, "messages")
  PROVE  batch[d] = << >>
<1>1. AtStep(d, "messages") => Last(todo[d]) = "messages"
  BY StepKind, AlwaysLast, AtIs DEF Kinds
<1>2. Idle(d) => ~Is(d, "read")
  BY NotOnPath DEF Idle, Is
<1> QED  BY <1>1, <1>2 DEF Inv, Plan

LEMMA SameCounts ==
  ASSUME Inv, NEW d \in Devices, UNCHANGED <<counts>>
  PROVE  drawn' = drawn /\ mishaps' \in 0 .. MaxMishaps /\ (mishaps' = 0 => mishaps = 0)
BY DEF Inv, TypeOK, counts

LEMMA BundlesInv ==
  ASSUME Inv, NEW d \in Devices, Bundles(d)
  PROVE  Inv'
<1> DEFINE new == DevicesOf(job[d].user, d) \ known[d]
<1>1. AtStep(d, "bundles") /\ ~Idle(d) /\ GoOn(d, << >>) /\ known' = [known EXCEPT ![d] = @ \cup new]
  BY DEF Bundles, AtStep
<1>2. /\ file' = file /\ mailbox' = mailbox /\ row' = row /\ batch' = batch /\ shutOut' = shutOut
      /\ UNCHANGED <<window>> /\ UNCHANGED <<counts>>
  BY DEF Bundles, server
<1>3. new \subseteq Devices \ {d} /\ DevicesOf(job[d].user, d) \subseteq known[d] \cup new
  BY DEF DevicesOf
<1> HIDE DEF new
<1>4. /\ known \in [Devices -> SUBSET Devices] /\ (\A e \in Devices : e \notin known[e])
      /\ fetched \in [Devices -> BOOLEAN] /\ codeFor \in [Devices -> Users \cup {None}]
      /\ shown \in [Devices -> SUBSET Files]
  BY DEF Inv, TypeOK
<1>5. Side(d) /\ known'[d] = known[d] \cup new
      /\ fetched'[d] = fetched[d] /\ shown'[d] = shown[d] /\ codeFor'[d] = codeFor[d]
  BY <1>1, <1>2, <1>3, <1>4, SameCounts DEF Side, window
<1>6. TypeOK' /\ Quiet(d) /\ Keeps(d)
  BY <1>1, <1>2, <1>5, SameCounts, GoOnQuiet DEF AtStep
<1>7. KnowsNext(d, job[d].user)
  BY <1>3, <1>5 DEF KnowsNext
<1>8. Proper(d)
  BY <1>1, <1>2, <1>5, <1>6, <1>7, NotLast, MidProper
<1> QED  BY <1>6, <1>8, QuietInv

LEMMA NoBundlesInv ==
  ASSUME Inv, NEW d \in Devices, NoBundles(d)
  PROVE  Inv'
<1>1. AtStep(d, "bundles") /\ ~Idle(d) /\ DevicesOf(job[d].user, d) \subseteq known[d]
  BY DEF NoBundles, AtStep
<1>2. /\ file' = file /\ mailbox' = mailbox /\ row' = row /\ shutOut' = shutOut /\ known' = known
      /\ drawn' = drawn /\ mishaps' = mishaps /\ UNCHANGED <<counts>>
  BY DEF NoBundles, server, counts
<1>3. CASE GoOn(d, << >>) /\ UNCHANGED <<window, batch>>
  <2>1. Side(d)
    BY <1>2, <1>3, SideSame, SameCounts DEF Inv
  <2>2. TypeOK' /\ Quiet(d) /\ Keeps(d)
    BY <1>1, <1>2, <1>3, <2>1, GoOnQuiet DEF AtStep
  <2>3. Proper(d)
    BY <1>1, <1>2, <1>3, <2>2, NotLast, MidProper DEF KnowsNext, window
  <2> QED  BY <2>2, <2>3, QuietInv
<1>4. CASE Throw(d)
  <2>1. Unshared(d)
    <3>1. CASE Is(d, "share")
      <4>1. file[job[d].file].access = {}
        BY <1>1, <3>1 DEF Inv, Own, Sharing, At, AtStep
      <4> QED  BY <4>1 DEF Unshared
    <3>2. CASE Is(d, "show")
      <4>1. job[d].file = None
        BY <3>2 DEF Inv, Plan
      <4> QED  BY <4>1, NoneIsNone DEF Unshared
    <3> QED  BY <1>1, <3>1, <3>2, StepKind
  <2> QED  BY <1>2, <1>4, <2>1, EndsInv
<1> QED  BY <1>3, <1>4 DEF NoBundles

LEMMA ReportInv ==
  ASSUME Inv, NEW d \in Devices, Report(d)
  PROVE  Inv'
<1>1. AtStep(d, "report") /\ ~Idle(d) /\ GoOn(d, << >>)
  BY DEF Report, AtStep
<1>2. /\ file' = file /\ mailbox' = mailbox /\ row' = row /\ batch' = batch /\ shutOut' = shutOut
      /\ known' = known /\ shown' = shown /\ UNCHANGED <<counts>>
      /\ fetched' = [fetched EXCEPT ![d] = FALSE] /\ codeFor' = [codeFor EXCEPT ![d] = None]
  BY DEF Report, server, FetchedAfterReport
<1>3. /\ known \in [Devices -> SUBSET Devices] /\ (\A e \in Devices : e \notin known[e])
      /\ fetched \in [Devices -> BOOLEAN] /\ codeFor \in [Devices -> Users \cup {None}]
      /\ shown \in [Devices -> SUBSET Files]
  BY DEF Inv, TypeOK
<1>4. Side(d) /\ fetched'[d] = FALSE /\ shown'[d] = shown[d]
  BY <1>2, <1>3, SameCounts DEF Side
<1>5. TypeOK' /\ Quiet(d) /\ Keeps(d)
  BY <1>1, <1>2, <1>4, SameCounts, GoOnQuiet DEF AtStep
<1>6. Is(d, "share") /\ ~Is(d, "delete") /\ batch[d] = << >> /\ Tail(todo[d]) = << >>
  BY <1>1, StepKind, NotBoth, NoBatch, AlwaysLast
<1>7. todo'[d] = << >> /\ job'[d] = NoJob /\ batch'[d] = << >>
  BY <1>1, <1>2, <1>6, GoOnTypes DEF Inv
<1>8. \A f \in shown'[d] : file[f] # None /\ file[f].by = d
  BY <1>4, <1>6, ShownStay
<1>9. ASSUME NEW f \in Files, file[f] # None, job[d].file = f, file[f].access \ {file[f].owner} # {}
      PROVE  /\ row[d][f] # None /\ row[d][f].keyed /\ row[d][f].kek = file[f].sealed.under
             /\ file[f].access \ {file[f].owner} \subseteq {row[d][f].user}
  <2>1. Sharing(d, {"report"}) /\ Sharing(d, Saving) /\ Sharing(d, {"bundles", "post"} \cup Saving)
    BY <1>1, <1>6 DEF Sharing, At, AtStep, Saving
  <2>2. Own(d)
    BY DEF Inv
  <2>3. /\ file[f].sealed.under = job[d].kek /\ file[f].access \subseteq {job[d].user}
        /\ row[d][f] # None => row[d][f].user = job[d].user
    BY <1>6, <1>9, <2>1, <2>2 DEF Own
  <2>4. row[d][f] # None /\ row[d][f].keyed /\ row[d][f].kek = job[d].kek
    BY <1>9, <2>1, <2>2 DEF Own
  <2> QED  BY <2>3, <2>4
<1>10. Proper(d)
  BY <1>4, <1>5, <1>7, <1>8, <1>9, EndProper
<1> QED  BY <1>5, <1>10, QuietInv

LEMMA ShowJob ==
  ASSUME Inv, NEW d \in Devices, Is(d, "show")
  PROVE  /\ job[d].file = None /\ job[d].user \in Users /\ Unshared(d)
         /\ \A f \in Files : job[d].file # f
BY NoneIsNone DEF Inv, Plan, Unshared

LEMMA ShowCodeInv ==
  ASSUME Inv, NEW d \in Devices, ShowCode(d)
  PROVE  Inv'
<1>1. AtStep(d, "code") /\ ~Idle(d)
  BY DEF ShowCode, AtStep
<1>2. /\ file' = file /\ mailbox' = mailbox /\ row' = row /\ shutOut' = shutOut
      /\ known' = known /\ UNCHANGED <<counts>> /\ drawn' = drawn /\ mishaps' = mishaps
  BY DEF ShowCode, server, counts
<1>3. Is(d, "show") /\ ~Is(d, "delete") /\ batch[d] = << >> /\ Tail(todo[d]) = << >>
  BY <1>1, StepKind, NotBoth, NoBatch, AlwaysLast
<1>4. CASE ProcessEnds(d)
  BY <1>2, <1>3, <1>4, ShowJob, EndsInv
<1>5. CASE /\ fetched' = [fetched EXCEPT ![d] = TRUE]
           /\ codeFor' = [codeFor EXCEPT ![d] = job[d].user]
           /\ GoOn(d, << >>) /\ UNCHANGED <<shown, batch>>
  <2>1. /\ known \in [Devices -> SUBSET Devices] /\ (\A e \in Devices : e \notin known[e])
        /\ fetched \in [Devices -> BOOLEAN] /\ codeFor \in [Devices -> Users \cup {None}]
        /\ shown \in [Devices -> SUBSET Files]
    BY DEF Inv, TypeOK
  <2>2. job[d].user \in Users
    BY <1>3, ShowJob
  <2>3. Side(d) /\ codeFor'[d] = job[d].user /\ shown'[d] = shown[d]
    BY <1>2, <1>5, <2>1, <2>2, SameCounts DEF Side
  <2>4. TypeOK' /\ Quiet(d) /\ Keeps(d)
    BY <1>1, <1>2, <1>5, <2>3, GoOnQuiet DEF AtStep
  <2>5. todo'[d] = << >> /\ job'[d] = NoJob /\ batch'[d] = << >>
    BY <1>1, <1>3, <1>5, GoOnTypes DEF Inv
  <2>6. \A f \in shown'[d] : file[f] # None /\ file[f].by = d
    BY <1>3, <2>3, ShownStay
  <2>7. mishaps' = 0 => KnowsNext(d, job[d].user)
    BY <1>1, <1>2, <1>3 DEF Inv, Asked, At, AtStep, Knows, KnowsNext
  <2>8. Proper(d)
    BY <1>3, <2>2, <2>3, <2>4, <2>5, <2>6, <2>7, NoneIsNone, ShowJob, EndProper
  <2> QED  BY <2>4, <2>8, QuietInv
<1> QED  BY <1>4, <1>5 DEF ShowCode

(* The last step of a handler, when it leaves the windows as they are.     *)
LEMMA LastGoOnInv ==
  ASSUME Inv, NEW d \in Devices, ~Idle(d), GoOn(d, << >>), Tail(todo[d]) = << >>,
         file' = file, mailbox' = mailbox, row' = row, batch' = batch, shutOut' = shutOut,
         known' = known, UNCHANGED <<window>>, UNCHANGED <<counts>>,
         batch[d] = << >>, ~Is(d, "delete"), Unshared(d)
  PROVE  Inv'
<1>1. Side(d) /\ shown'[d] = shown[d] /\ fetched'[d] = fetched[d] /\ codeFor'[d] = codeFor[d]
  BY SideSame, SameCounts DEF Inv, window
<1>2. ~AtStep(d, "upload")
  BY NotLast
<1>3. TypeOK' /\ Quiet(d) /\ Keeps(d)
  BY <1>1, <1>2, SameCounts, GoOnQuiet
<1>4. todo'[d] = << >> /\ job'[d] = NoJob /\ batch'[d] = << >>
  BY GoOnTypes DEF Inv
<1>5. \A f \in shown'[d] : file[f] # None /\ file[f].by = d
  BY <1>1, ShownStay
<1>6. mishaps' = 0 /\ fetched'[d] => codeFor'[d] # None /\ KnowsNext(d, codeFor'[d])
  BY <1>1, SameCounts DEF Inv, Asked, Knows, KnowsNext
<1>7. Proper(d)
  BY <1>3, <1>4, <1>5, <1>6, EndProper DEF Unshared
<1> QED  BY <1>3, <1>7, QuietInv

LEMMA ShowCodeOnDashboardInv ==
  ASSUME Inv, NEW d \in Devices, ShowCodeOnDashboard(d)
  PROVE  Inv'
<1>1. AtStep(d, "dashboardCode") /\ ~Idle(d)
  BY DEF ShowCodeOnDashboard, AtStep
<1>2. /\ file' = file /\ mailbox' = mailbox /\ row' = row /\ shutOut' = shutOut
      /\ known' = known /\ UNCHANGED <<counts>> /\ drawn' = drawn /\ mishaps' = mishaps
  BY DEF ShowCodeOnDashboard, server, counts
<1>3. Is(d, "show") /\ ~Is(d, "delete") /\ batch[d] = << >> /\ Tail(todo[d]) = << >>
  BY <1>1, StepKind, NotBoth, NoBatch, AlwaysLast
<1>4. Unshared(d)
  BY <1>3, ShowJob
<1>5. CASE ProcessEnds(d)
  BY <1>2, <1>4, <1>5, EndsInv
<1>6. CASE GoOn(d, << >>) /\ UNCHANGED <<window, batch>>
  BY <1>1, <1>2, <1>3, <1>4, <1>6, LastGoOnInv
<1> QED  BY <1>5, <1>6 DEF ShowCodeOnDashboard

(* A device does not read about its own files.                             *)
LEMMA ReadUnshared ==
  ASSUME Inv, NEW d \in Devices, Is(d, "read")
  PROVE  Unshared(d)
<1>1. CASE Full(job[d])
  BY <1>1, TakenComes DEF Unshared
<1>2. CASE job[d] = NoJob
  BY <1>2, NoJobIsJob, NoneIsNone DEF Unshared
<1> QED  BY <1>1, <1>2 DEF Inv, Plan

LEMMA NoMoreMessagesInv ==
  ASSUME Inv, NEW d \in Devices, NoMoreMessages(d)
  PROVE  Inv'
<1>1. AtStep(d, "nextMessage") /\ ~Idle(d) /\ batch[d] = << >> /\ GoOn(d, << >>)
  BY DEF NoMoreMessages, AtStep
<1>2. /\ file' = file /\ mailbox' = mailbox /\ row' = row /\ shutOut' = shutOut
      /\ known' = known /\ UNCHANGED <<window>> /\ UNCHANGED <<counts>> /\ batch' = batch
  BY DEF NoMoreMessages, server
<1>3. Is(d, "read") /\ ~Is(d, "delete") /\ Tail(todo[d]) = << >>
  BY <1>1, StepKind, NotBoth, AlwaysLast
<1> QED  BY <1>1, <1>2, <1>3, ReadUnshared, LastGoOnInv

LEMMA CannotOpenInv ==
  ASSUME Inv, NEW d \in Devices, CannotOpen(d)
  PROVE  Inv'
<1>1. AtStep(d, "nextMessage") /\ Throw(d)
  BY DEF CannotOpen
<1>2. /\ file' = file /\ mailbox' = mailbox /\ row' = row /\ known' = known /\ shutOut' = shutOut
      /\ drawn' = drawn /\ mishaps' = mishaps
  BY DEF CannotOpen, server, counts
<1>3. Unshared(d)
  BY <1>1, StepKind, ReadUnshared
<1> QED  BY <1>1, <1>2, <1>3, EndsInv

LEMMA FailsInv ==
  ASSUME Inv, NEW d \in Devices, Fails(d) \/ Crash(d)
  PROVE  Inv'
<1>1. Mishap /\ (Throw(d) \/ ProcessEnds(d))
  BY DEF Fails, Crash
<1>2. /\ file' = file /\ mailbox' = mailbox /\ row' = row /\ known' = known /\ shutOut' = shutOut
      /\ drawn' = drawn
  BY DEF Fails, Crash, server
<1> QED  BY <1>1, <1>2, EndsInv

LEMMA ListInv ==
  ASSUME Inv, NEW d \in Devices, List(d)
  PROVE  Inv'
<1>1. AtStep(d, "list") /\ ~Idle(d) /\ GoOn(d, << >>)
  BY DEF List, AtStep
<1>2. /\ file' = file /\ mailbox' = mailbox /\ row' = row /\ batch' = batch /\ shutOut' = shutOut
      /\ known' = known /\ fetched' = fetched /\ codeFor' = codeFor /\ UNCHANGED <<counts>>
      /\ shown' = [shown EXCEPT ![d] = Sent(d)]
  BY DEF List, server
<1>3. /\ known \in [Devices -> SUBSET Devices] /\ (\A e \in Devices : e \notin known[e])
      /\ fetched \in [Devices -> BOOLEAN] /\ codeFor \in [Devices -> Users \cup {None}]
      /\ shown \in [Devices -> SUBSET Files]
  BY DEF Inv, TypeOK
<1>4. Sent(d) \subseteq Files
  BY DEF Sent
<1>5. Side(d) /\ shown'[d] = Sent(d) /\ fetched'[d] = fetched[d] /\ codeFor'[d] = codeFor[d]
  BY <1>2, <1>3, <1>4, SameCounts DEF Side
<1>6. TypeOK' /\ Quiet(d) /\ Keeps(d)
  BY <1>1, <1>2, <1>5, SameCounts, GoOnQuiet DEF AtStep
<1>7. Is(d, "delete") /\ ~Is(d, "read") /\ batch[d] = << >> /\ Tail(todo[d]) = << >>
  BY <1>1, StepKind, NotBoth, NoBatch, AlwaysLast
<1>8. todo'[d] = << >> /\ job'[d] = NoJob /\ batch'[d] = << >>
  BY <1>1, <1>2, <1>7, GoOnTypes DEF Inv
<1>9. ASSUME NEW f \in Sent(d) PROVE file[f] # None /\ file[f].by = d
  <2>1. f \in Files /\ file[f] # None /\ row[d][f] # None /\ row[d][f].sender
    BY DEF Sent, Opens, Recipients
  <2>2. row[d][f].sender = (file[f].by = d)
    BY <2>1 DEF Inv, TypeOK
  <2> QED  BY <2>1, <2>2
<1>10. \A f \in Files : job[d].file = f => file[f] = None
  BY <1>1, <1>7, NoneIsNone DEF Inv, Own, At, AtStep
<1>11. mishaps' = 0 /\ fetched'[d] => codeFor'[d] # None /\ KnowsNext(d, codeFor'[d])
  BY <1>2, <1>5, SameCounts DEF Inv, Asked, Knows, KnowsNext
<1>12. Proper(d)
  BY <1>5, <1>6, <1>8, <1>9, <1>10, <1>11, EndProper
<1> QED  BY <1>6, <1>12, QuietInv

LEMMA HandshakesInv ==
  ASSUME Inv, NEW d \in Devices, Handshakes(d)
  PROVE  Inv'
<1> DEFINE new == {e \in Devices : d \in known[e]}
<1>1. AtStep(d, "handshakes") /\ ~Idle(d) /\ GoOn(d, << >>) /\ known' = [known EXCEPT ![d] = @ \cup new]
  BY DEF Handshakes, AtStep
<1>2. /\ file' = file /\ mailbox' = mailbox /\ row' = row /\ batch' = batch /\ shutOut' = shutOut
      /\ UNCHANGED <<window>> /\ UNCHANGED <<counts>>
  BY DEF Handshakes, server
<1>3. /\ known \in [Devices -> SUBSET Devices] /\ (\A e \in Devices : e \notin known[e])
      /\ fetched \in [Devices -> BOOLEAN] /\ codeFor \in [Devices -> Users \cup {None}]
      /\ shown \in [Devices -> SUBSET Files]
  BY DEF Inv, TypeOK
<1>4. new \subseteq Devices \ {d}
  BY <1>3
<1> HIDE DEF new
<1>5. Side(d) /\ fetched'[d] = fetched[d] /\ shown'[d] = shown[d] /\ codeFor'[d] = codeFor[d]
  BY <1>1, <1>2, <1>3, <1>4, SameCounts DEF Side, window
<1>6. TypeOK' /\ Quiet(d) /\ Keeps(d)
  BY <1>1, <1>2, <1>5, SameCounts, GoOnQuiet DEF AtStep
<1>7. ~AtStep(d, "bundles")
  BY <1>1 DEF AtStep
<1>8. Proper(d)
  BY <1>1, <1>2, <1>5, <1>6, <1>7, NotLast, MidProper
<1> QED  BY <1>6, <1>8, QuietInv

-----------------------------------------------------------------------------
(* Reading messages.                                                       *)

LEMMA HeadTail ==
  ASSUME NEW b \in Seq(Messages), b # << >>
  PROVE  /\ Head(b) \in Messages /\ Tail(b) \in Seq(Messages)
         /\ << Head(b) >> \o Tail(b) = b
OBVIOUS

LEMMA ReadingEnds ==
  /\ << "nextMessage" >> \in Seq(Steps) /\ << "nextMessage" >> # << >>
  /\ Path("read", << "nextMessage" >>)
  /\ Head(<< "nextMessage" >>) = "nextMessage" /\ Last(<< "nextMessage" >>) = "nextMessage"
<1> DEFINE s == << "nextMessage" >>
<1>1. s \in Seq(Steps) /\ s # << >> /\ Len(s) = 1 /\ s[1] = "nextMessage" /\ Head(s) = "nextMessage"
  BY DEF Steps
<1> HIDE DEF s
<1>2. Last(s) = "nextMessage" /\ Lasts("read", Last(s))
  BY <1>1 DEF Last, Lasts
<1>3. Path("read", s)
  BY <1>1, <1>2 DEF Path
<1> QED  BY <1>1, <1>2, <1>3 DEF s

LEMMA FetchMessagesInv ==
  ASSUME Inv, NEW d \in Devices, FetchMessages(d)
  PROVE  Inv'
<1> DEFINE t == << "nextMessage" >>
<1>0. t \in Seq(Steps) /\ t # << >> /\ Path("read", t) /\ Head(t) = "nextMessage" /\ Last(t) = "nextMessage"
  BY ReadingEnds
<1>1. AtStep(d, "messages") /\ ~Idle(d) /\ GoOn(d, << "nextMessage" >>)
      /\ batch' = [batch EXCEPT ![d] = mailbox[d]] /\ mailbox' = [mailbox EXCEPT ![d] = << >>]
  BY DEF FetchMessages, AtStep
<1>2. /\ file' = file /\ row' = row /\ shutOut' = shutOut /\ known' = known
      /\ UNCHANGED <<window>> /\ UNCHANGED <<counts>>
  BY DEF FetchMessages
<1>3. Is(d, "read") /\ ~Is(d, "delete") /\ Tail(todo[d]) = << >> /\ batch[d] = << >>
      /\ Last(todo[d]) = "messages"
  BY <1>1, StepKind, NotBoth, NoBatch, AlwaysLast, AtIs DEF Kinds
<1>4. job[d] = NoJob
  BY <1>3 DEF Inv, Plan
<1>5. TypeOK
  BY DEF Inv
<1>6. Lefts(d, t, NoJob)
  <2>1. << "nextMessage" >> \o << >> = t
    BY <1>0, ConcatEmpty
  <2>2. todo' = [todo EXCEPT ![d] = t]
    BY <1>1, <1>3, <2>1 DEF GoOn
  <2>3. job' = [job EXCEPT ![d] = NoJob]
    BY <1>1, <1>4 DEF GoOn
  <2> QED  BY <2>2, <2>3 DEF Lefts
<1> HIDE DEF t
<1>7. /\ todo' \in [Devices -> Seq(Steps)] /\ job' \in [Devices -> Jobs]
      /\ todo'[d] = t /\ job'[d] = NoJob
      /\ \A e \in Devices : e # d => todo'[e] = todo[e] /\ job'[e] = job[e]
  BY <1>0, <1>5, <1>6, NoJobIsJob, LeftsTypes
<1>8. /\ batch \in [Devices -> Seq(Messages)] /\ mailbox \in [Devices -> Seq(Messages)]
      /\ mailbox[d] \in Seq(Messages)
  BY <1>5 DEF TypeOK
<1>9. /\ batch' \in [Devices -> Seq(Messages)] /\ mailbox' \in [Devices -> Seq(Messages)]
      /\ batch'[d] = mailbox[d] /\ mailbox'[d] = << >>
      /\ \A e \in Devices : e # d => batch'[e] = batch[e] /\ mailbox'[e] = mailbox[e]
  <2>1. << >> \in Seq(Messages)
    OBVIOUS
  <2> QED  BY <2>1, <1>1, <1>8
<1>10. Side(d) /\ shown'[d] = shown[d] /\ fetched'[d] = fetched[d] /\ codeFor'[d] = codeFor[d]
  BY <1>2, <1>5, SideSame, SameCounts DEF window
<1>11. TypeOK'
  BY <1>2, <1>7, <1>9, <1>10, SameCounts, QuietTypes
<1>12. ASSUME NEW e \in Devices PROVE Coming(e)' \in Seq(Messages) /\ Suffix(Coming(e)', Coming(e))
  <2>1. CASE e = d
    <3>1. Taken(d)' = << >> /\ Taken(d) = << >>
      BY <1>4, <1>7, NoJobIsJob DEF Taken
    <3>2. Coming(d)' = (<< >> \o mailbox[d]) \o << >>
      BY <1>9, <3>1 DEF Coming
    <3>3. Coming(d) = (<< >> \o << >>) \o mailbox[d]
      BY <1>3, <3>1 DEF Coming
    <3>4. Coming(d)' = mailbox[d]
      BY <3>2, <1>8, ConcatEmpty
    <3>5. Coming(d) = mailbox[d]
      <4>1. << >> \o << >> = << >>
        BY ConcatEmpty
      <4> QED  BY <4>1, <3>3, <1>8, ConcatEmpty
    <3>6. << >> \in Seq(Messages) /\ << >> \o mailbox[d] = mailbox[d]
      BY <1>8, ConcatEmpty
    <3> QED  BY <2>1, <3>4, <3>5, <3>6, <1>8 DEF Suffix
  <2>2. CASE e # d
    BY <2>2, <1>7, <1>9, ComingOthers
  <2> QED  BY <2>1, <2>2
<1>13. Quiet(d)
  BY <1>2, <1>7, <1>9, <1>10, <1>12, SameCounts DEF Quiet, Calm, Less, Others, Side
<1>14. /\ Is(d, "read")' /\ ~Is(d, "share")' /\ ~Is(d, "show")' /\ ~Is(d, "delete")'
       /\ ~Idle(d)' /\ Head(todo'[d]) = "nextMessage" /\ Last(todo'[d]) = "nextMessage"
  BY <1>0, <1>7, PathKind DEF Is, Kinds, Idle
<1>15. Keeps(d)
  BY <1>7, <1>14, NoJobIsJob, NoneIsNone DEF Keeps, Sharing
<1>16. Plan(d)'
  BY <1>7, <1>14, NoJobIsJob DEF Plan, Sharing, At, Kinds
<1>17. Own(d)' /\ Keyable(d)'
  BY <1>14 DEF Own, Born, Sharing, Keyable, AtStep
<1>18. Shows(d)'
  BY <1>2, <1>3, <1>10, ShownStay DEF Shows
<1>19. Asked(d)'
  BY <1>2, <1>10, <1>14, SameCounts DEF Inv, Asked, Knows
<1>20. ASSUME NEW f \in Files PROVE Managed(f)'
  <2>1. job' = job
    BY <1>4, <1>5, <1>6 DEF Lefts, TypeOK
  <2> QED  BY <2>1, <1>2, SameCounts DEF Inv, Managed
<1> QED  BY <1>11, <1>13, <1>15, <1>16, <1>17, <1>18, <1>19, <1>20, QuietInv DEF Proper

LEMMA OpenMessageInv ==
  ASSUME Inv, NEW d \in Devices, OpenMessage(d)
  PROVE  Inv'
<1> DEFINE m == Head(batch[d])
           rest == Tail(batch[d])
           j == [file |-> m.file, kek |-> m.kek, user |-> m.user, sender |-> FALSE, manage |-> FALSE]
           t == << "row", "key" >> \o todo[d]
<1>1. AtStep(d, "nextMessage") /\ ~Idle(d) /\ batch[d] # << >>
      /\ todo' = [todo EXCEPT ![d] = t] /\ job' = [job EXCEPT ![d] = j]
      /\ batch' = [batch EXCEPT ![d] = rest]
  BY DEF OpenMessage, AtStep
<1>2. /\ file' = file /\ mailbox' = mailbox /\ row' = row /\ shutOut' = shutOut /\ known' = known
      /\ UNCHANGED <<window>> /\ UNCHANGED <<counts>>
  BY DEF OpenMessage, server
<1>3. Is(d, "read") /\ ~Is(d, "delete") /\ Last(todo[d]) = "nextMessage" /\ Head(todo[d]) = "nextMessage"
  BY <1>1, StepKind, NotBoth, AlwaysLast, AtIs DEF Kinds
<1>4. TypeOK
  BY DEF Inv
<1>5. /\ batch \in [Devices -> Seq(Messages)] /\ mailbox \in [Devices -> Seq(Messages)]
      /\ batch[d] \in Seq(Messages) /\ mailbox[d] \in Seq(Messages) /\ Taken(d) \in Seq(Messages)
  BY <1>4, ComingIsSeq DEF TypeOK, Inv
<1>6. m \in Messages /\ rest \in Seq(Messages) /\ << m >> \o rest = batch[d]
  BY <1>1, <1>5, HeadTail
<1>7. m.file \in Files /\ m.kek \in Keys /\ m.user \in Users
      /\ m = [file |-> m.file, kek |-> m.kek, user |-> m.user]
  BY <1>6 DEF Messages
<1>8. /\ t \in Seq(Steps) /\ t # << >> /\ Path("read", t)
      /\ Head(t) = "row" /\ Last(t) = "nextMessage"
  <2> DEFINE a == << "row", "key" >>
  <2>1. a \in Seq(Steps) /\ a # << >> /\ Len(a) = 2 /\ a[1] = "row" /\ a[2] = "key"
    BY DEF Steps, Throws
  <2>2. Path("read", todo[d]) /\ todo[d] # << >>
    BY <1>1, <1>3 DEF Is, Idle
  <2>3. t = a \o todo[d]
    OBVIOUS
  <2> HIDE DEF a
  <2>4. Chain("read", a) /\ Last(a) = "key" /\ Head(a) = "row"
    BY <2>1 DEF Chain, Follows, Last
  <2>5. Follows("read", Last(a), Head(todo[d]))
    BY <2>4, <1>3 DEF Follows
  <2> HIDE DEF t
  <2>6. Path("read", t) /\ Head(t) = "row" /\ Last(t) = Last(todo[d])
    <3>1. Joins("read", a, todo[d])
      BY <2>2, <2>4, <2>5 DEF Joins
    <3>2. Joined("read", a, todo[d])
      BY <3>1, PathAppends
    <3> QED  BY <3>2, <2>3, <2>4 DEF Joined
  <2> QED  BY <2>1, <2>6, <1>3, PathIsSeq
<1>9. j \in Jobs /\ Full(j) /\ ~j.sender /\ ~j.manage /\ j.kek = m.kek /\ j.file = m.file /\ j.user = m.user
  BY <1>7 DEF Jobs, Full
<1> HIDE DEF j, t, rest, m
<1>10. /\ todo' \in [Devices -> Seq(Steps)] /\ job' \in [Devices -> Jobs]
       /\ todo'[d] = t /\ job'[d] = j
       /\ \A e \in Devices : e # d => todo'[e] = todo[e] /\ job'[e] = job[e]
  BY <1>1, <1>4, <1>8, <1>9, LeftsTypes DEF Lefts
<1>11. /\ batch' \in [Devices -> Seq(Messages)] /\ mailbox' \in [Devices -> Seq(Messages)]
       /\ batch'[d] = rest
       /\ \A e \in Devices : e # d => batch'[e] = batch[e] /\ mailbox'[e] = mailbox[e]
  BY <1>1, <1>2, <1>5, <1>6
<1>12. Side(d) /\ shown'[d] = shown[d] /\ fetched'[d] = fetched[d] /\ codeFor'[d] = codeFor[d]
  BY <1>2, <1>4, SideSame, SameCounts DEF window
<1>13. TypeOK'
  BY <1>2, <1>10, <1>11, <1>12, SameCounts, QuietTypes
<1>14. Coming(d)' \in Seq(Messages) /\ Suffix(Coming(d)', Coming(d))
       /\ 1 \in DOMAIN Coming(d)' /\ Coming(d)'[1] = m
  <2>1. Taken(d)' = << m >>
    <3>1. j.kek # None
      BY <1>7, <1>9, NoneNoKey
    <3> QED  BY <3>1, <1>7, <1>9, <1>10 DEF Taken
  <2>2. Coming(d)' = batch[d] \o mailbox[d]
    BY <2>1, <1>2, <1>6, <1>11 DEF Coming
  <2>3. << >> \o batch[d] = batch[d]
    BY <1>5, ConcatEmpty
  <2>4. Suffix(Coming(d)', Coming(d))
    BY <2>2, <2>3, <1>5, SuffixParts DEF Coming
  <2>5. Coming(d)' \in Seq(Messages)
    BY <2>2, <1>5
  <2>6. batch[d][1] = m /\ Len(batch[d]) > 0
    BY <1>1, <1>5 DEF m
  <2>7. (batch[d] \o mailbox[d])[1] = batch[d][1] /\ 1 \in DOMAIN (batch[d] \o mailbox[d])
    BY <2>6, <1>5
  <2> QED  BY <2>2, <2>4, <2>5, <2>6, <2>7
<1>15. ASSUME NEW e \in Devices PROVE Coming(e)' \in Seq(Messages) /\ Suffix(Coming(e)', Coming(e))
  <2>1. CASE e = d
    BY <2>1, <1>14
  <2>2. CASE e # d
    BY <2>2, <1>10, <1>11, ComingOthers
  <2> QED  BY <2>1, <2>2
<1>16. Quiet(d)
  BY <1>2, <1>10, <1>11, <1>12, <1>15, SameCounts DEF Quiet, Calm, Less, Others, Side
<1>17. PICK i \in DOMAIN Coming(d) : Coming(d)[i] = m
  BY <1>14, SuffixComes
<1>18. /\ Is(d, "read")' /\ ~Is(d, "share")' /\ ~Is(d, "show")' /\ ~Is(d, "delete")'
       /\ ~Idle(d)' /\ Head(todo'[d]) = "row" /\ Last(todo'[d]) = "nextMessage"
  BY <1>8, <1>10, PathKind DEF Is, Kinds, Idle
<1>19. Keeps(d)
  <2>1. ~Unborn(m.file)
    BY <1>17, ComingBorn
  <2>2. \E k \in DOMAIN Coming(d) : Coming(d)[k].kek = job'[d].kek
    BY <1>9, <1>10, <1>17
  <2> QED  BY <2>1, <2>2, <1>9, <1>10, <1>18 DEF Keeps, Sharing
<1>20. Plan(d)'
  BY <1>9, <1>10, <1>18 DEF Plan, Sharing, Kinds
<1>21. Own(d)' /\ Keyable(d)'
  BY <1>18 DEF Own, Born, Sharing, Keyable, AtStep
<1>22. Shows(d)'
  BY <1>2, <1>3, <1>12, ShownStay DEF Shows
<1>23. Asked(d)'
  BY <1>2, <1>12, <1>18, SameCounts DEF Inv, Asked, Knows
<1>24. ASSUME NEW f \in Files, file[f] # None, file[f].by = d PROVE Managed(f)'
  <2>1. CASE job[d].file = f
    <3>1. file[f].access = {}
      BY <2>1, <1>3, <1>24, ReadUnshared DEF Unshared
    <3> QED  BY <3>1, <1>2, <1>24 DEF Managed
  <2>2. CASE job[d].file # f
    BY <2>2, <1>2, <1>24, SameCounts DEF Inv, Managed
  <2> QED  BY <2>1, <2>2
<1> QED  BY <1>13, <1>16, <1>19, <1>20, <1>21, <1>22, <1>23, <1>24, QuietInv DEF Proper

LEMMA AnswerLostInv ==
  ASSUME Inv, NEW d \in Devices, AnswerLost(d)
  PROVE  Inv'
<1>1. GoOn(d, << >>) /\ Mishap
      /\ \/ (AtStep(d, "bundles") \/ AtStep(d, "handshakes")) /\ mailbox' = mailbox
         \/ AtStep(d, "messages") /\ mailbox' \in {mailbox, [mailbox EXCEPT ![d] = << >>]}
  BY DEF AnswerLost
<1>2. /\ file' = file /\ row' = row /\ batch' = batch /\ shutOut' = shutOut
      /\ known' = known /\ UNCHANGED <<window>> /\ drawn' = drawn
  BY DEF AnswerLost
<1>3. /\ mishaps' \in 0 .. MaxMishaps /\ (mishaps' = 0 => mishaps = 0) /\ mishaps' # 0
  BY <1>1, MishapCounts DEF Inv
<1>4. Side(d) /\ shown'[d] = shown[d] /\ fetched'[d] = fetched[d] /\ codeFor'[d] = codeFor[d]
  BY <1>2, <1>3, SideSame DEF Inv, window
<1>5. CASE (AtStep(d, "bundles") \/ AtStep(d, "handshakes")) /\ mailbox' = mailbox
  <2>1. ~Idle(d) /\ ~AtStep(d, "upload") /\ Tail(todo[d]) # << >>
    BY <1>5, NotLast DEF AtStep
  <2>2. TypeOK' /\ Quiet(d) /\ Keeps(d)
    BY <1>1, <1>2, <1>4, <1>5, <2>1, GoOnQuiet
  <2>3. Proper(d)
    BY <1>1, <1>2, <1>3, <1>4, <1>5, <2>1, <2>2, MidProper
  <2> QED  BY <2>2, <2>3, QuietInv
<1>6. CASE AtStep(d, "messages") /\ mailbox' \in {mailbox, [mailbox EXCEPT ![d] = << >>]}
  <2>1. Is(d, "read") /\ ~Is(d, "delete") /\ Tail(todo[d]) = << >> /\ batch[d] = << >> /\ ~Idle(d)
    BY <1>6, StepKind, NotBoth, NoBatch, AlwaysLast DEF AtStep
  <2>2. /\ todo' \in [Devices -> Seq(Steps)] /\ job' \in [Devices -> Jobs]
        /\ todo'[d] = << >> /\ job'[d] = NoJob
        /\ \A e \in Devices : e # d => todo'[e] = todo[e] /\ job'[e] = job[e]
    BY <1>1, <2>1, GoOnTypes DEF Inv
  <2>3. batch \in [Devices -> Seq(Messages)] /\ mailbox \in [Devices -> Seq(Messages)]
    BY DEF Inv, TypeOK
  <2>4. /\ mailbox' \in [Devices -> Seq(Messages)]
        /\ mailbox'[d] \in {mailbox[d], << >>}
        /\ \A e \in Devices : e # d => mailbox'[e] = mailbox[e]
    <3>1. << >> \in Seq(Messages)
      OBVIOUS
    <3> QED  BY <1>6, <2>3, <3>1
  <2>5. TypeOK'
    BY <1>2, <1>4, <2>2, <2>3, <2>4, QuietTypes
  <2>6. ASSUME NEW e \in Devices PROVE Coming(e)' \in Seq(Messages) /\ Suffix(Coming(e)', Coming(e))
    <3>1. CASE e # d
      BY <3>1, <1>2, <2>2, <2>4, ComingOthers
    <3>2. CASE e = d /\ mailbox'[d] = mailbox[d]
      BY <3>2, <1>2, <2>2, ComingLess
    <3>3. CASE e = d /\ mailbox'[d] = << >>
      <4>1. Taken(d) \in Seq(Messages) /\ mailbox[d] \in Seq(Messages) /\ batch[d] \in Seq(Messages)
        BY ComingIsSeq DEF Inv
      <4>2. Taken(d)' = << >>
        BY <2>2, NoJobIsJob DEF Taken
      <4>3. Coming(d)' = (<< >> \o << >>) \o << >>
        BY <4>2, <3>3, <1>2, <2>1 DEF Coming
      <4>4. << >> \o << >> = << >> /\ << >> \in Seq(Messages)
        BY ConcatEmpty
      <4> QED  BY <3>3, <4>1, <4>3, <4>4, SuffixParts DEF Coming
    <3> QED  BY <3>1, <3>2, <3>3, <2>4
  <2>7. Quiet(d)
    BY <1>2, <1>3, <1>4, <2>2, <2>6 DEF Quiet, Calm, Less, Others, Side
  <2>8. \A f \in shown'[d] : file[f] # None /\ file[f].by = d
    BY <1>4, <2>1, ShownStay
  <2>9. Proper(d)
    BY <1>2, <1>3, <2>1, <2>2, <2>7, <2>8, EndProper
  <2> QED  BY <2>2, <2>5, <2>7, <2>9, EndKeeps, QuietInv
<1> QED  BY <1>1, <1>5, <1>6

-----------------------------------------------------------------------------
(* What the user starts, without a draw.                                   *)

LEMMA TripleIsPath ==
  ASSUME NEW k, NEW a \in Steps, NEW b \in Steps, NEW c \in Steps,
         Follows(k, a, b), Follows(k, b, c), Lasts(k, c)
  PROVE  /\ Path(k, << a, b, c >>) /\ Head(<< a, b, c >>) = a /\ Last(<< a, b, c >>) = c
         /\ << a, b, c >> \in Seq(Steps) /\ << a, b, c >> # << >>
<1> DEFINE s == << a, b, c >>
<1>1. s \in Seq(Steps) /\ s # << >> /\ Len(s) = 3 /\ s[1] = a /\ s[2] = b /\ s[3] = c /\ Head(s) = a
  OBVIOUS
<1> HIDE DEF s
<1>2. \A i \in 1 .. Len(s) - 1 : Follows(k, s[i], s[i + 1])
  <2>1. \A i \in 1 .. Len(s) - 1 : i = 1 \/ i = 2
    BY <1>1
  <2> QED  BY <2>1, <1>1
<1>3. Last(s) = c
  BY <1>1 DEF Last
<1> QED  BY <1>1, <1>2, <1>3 DEF Path, s

LEMMA PairIsPath ==
  ASSUME NEW k, NEW a \in Steps, NEW b \in Steps, Follows(k, a, b), Lasts(k, b)
  PROVE  /\ Path(k, << a, b >>) /\ Head(<< a, b >>) = a /\ Last(<< a, b >>) = b
         /\ << a, b >> \in Seq(Steps) /\ << a, b >> # << >>
<1> DEFINE s == << a, b >>
<1>1. s \in Seq(Steps) /\ s # << >> /\ Len(s) = 2 /\ s[1] = a /\ s[2] = b /\ Head(s) = a
  OBVIOUS
<1> HIDE DEF s
<1>2. \A i \in 1 .. Len(s) - 1 : Follows(k, s[i], s[i + 1])
  <2>1. \A i \in 1 .. Len(s) - 1 : i = 1
    BY <1>1
  <2> QED  BY <2>1, <1>1
<1>3. Last(s) = b
  BY <1>1 DEF Last
<1> QED  BY <1>1, <1>2, <1>3 DEF Path, s

LEMMA SingleIsPath ==
  ASSUME NEW k, NEW a \in Steps, Lasts(k, a)
  PROVE  /\ Path(k, << a >>) /\ Head(<< a >>) = a /\ Last(<< a >>) = a
         /\ << a >> \in Seq(Steps) /\ << a >> # << >>
<1> DEFINE s == << a >>
<1>1. s \in Seq(Steps) /\ s # << >> /\ Len(s) = 1 /\ s[1] = a /\ Head(s) = a
  OBVIOUS
<1> HIDE DEF s
<1>2. \A i \in 1 .. Len(s) - 1 : Follows(k, s[i], s[i + 1])
  BY <1>1
<1>3. Last(s) = a
  BY <1>1 DEF Last
<1> QED  BY <1>1, <1>2, <1>3 DEF Path, s

LEMMA StartQuiet ==
  ASSUME Inv, NEW d \in Devices, Idle(d), NEW k \in Kinds, k # "share",
         NEW t, Path(k, t), Head(t) \notin {"row", "key", "code", "deleteRow"},
         NEW j \in Jobs, Lefts(d, t, j),
         j.kek = None, ~j.sender, ~j.manage,
         k = "show" => j.file = None /\ j.user \in Users,
         k = "read" => j = NoJob,
         k = "delete" => \/ Head(t) = "list" /\ j.file = None
                         \/ Head(t) = "deleteFile" /\ j.file \in shown[d],
         file' = file, mailbox' = mailbox, row' = row, batch' = batch, shutOut' = shutOut,
         known' = known, UNCHANGED <<window>>, UNCHANGED <<counts>>
  PROVE  Inv'
<1>1. TypeOK /\ Plan(d)
  BY DEF Inv
<1>2. t \in Seq(Steps) /\ t # << >>
  BY PathIsSeq
<1>3. /\ todo' \in [Devices -> Seq(Steps)] /\ job' \in [Devices -> Jobs]
      /\ todo'[d] = t /\ job'[d] = j
      /\ \A e \in Devices : e # d => todo'[e] = todo[e] /\ job'[e] = job[e]
  BY <1>1, <1>2, LeftsTypes
<1>4. job[d] = NoJob /\ batch[d] = << >> /\ ~Is(d, "delete")
  BY <1>1, NoBatch, NotOnPath DEF Plan, Idle, Is
<1>5. Side(d) /\ shown'[d] = shown[d] /\ fetched'[d] = fetched[d] /\ codeFor'[d] = codeFor[d]
  BY <1>1, SideSame, SameCounts DEF window
<1>6. batch \in [Devices -> Seq(Messages)] /\ mailbox \in [Devices -> Seq(Messages)]
  BY <1>1 DEF TypeOK
<1>7. TypeOK'
  BY <1>3, <1>5, <1>6, SameCounts, QuietTypes
<1>8. ASSUME NEW e \in Devices PROVE Coming(e)' \in Seq(Messages) /\ Suffix(Coming(e)', Coming(e))
  <2>1. CASE e = d
    <3>1. Taken(d)' = Taken(d)
      BY <1>3, <1>4, NoJobIsJob DEF Taken
    <3>2. Coming(d)' = Coming(d)
      BY <3>1 DEF Coming
    <3>3. Coming(d) \in Seq(Messages) /\ Suffix(Coming(d), Coming(d))
      BY ComingOthers, ComingIsSeq, SuffixParts DEF Inv, Coming
    <3> QED  BY <2>1, <3>2, <3>3
  <2>2. CASE e # d
    BY <2>2, <1>3, ComingOthers
  <2> QED  BY <2>1, <2>2
<1>9. Quiet(d)
  BY <1>3, <1>5, <1>8, SameCounts DEF Quiet, Calm, Less, Others, Side
<1>10. Is(d, k)' /\ (\A l \in Kinds : Is(d, l)' => l = k) /\ ~Idle(d)' /\ Head(todo'[d]) = Head(t)
  BY <1>2, <1>3, PathKind DEF Is, Idle
<1>11. j.file \in shown[d] => j.file \in Files /\ file[j.file] # None /\ file[j.file].by = d
  BY <1>1, <1>4, ShownStay DEF TypeOK
<1>12. j.file = None \/ j.file \in shown[d]
  BY NoJobIsJob DEF Kinds
<1>13. ~Is(d, "share")'
  BY <1>10 DEF Kinds
<1>14. Keeps(d)
  <2>1. \A f \in Files : j.file = f => ~Unborn(f)
    BY <1>11, <1>12, NoneIsNone DEF Inv, Births, Nothing
  <2> QED  BY <2>1, <1>3, <1>13 DEF Keeps, Sharing
<1>15. Plan(d)'
  <2>1. k = "delete" => j.file \in Files \/ Head(t) = "list"
    BY <1>11
  <2>2. batch'[d] = << >>
    BY <1>4
  <2> QED  BY <2>1, <2>2, <1>3, <1>10, <1>13 DEF Plan, Kinds, Sharing, At
<1>16. Own(d)'
  <2>1. k = "delete" /\ Head(t) = "deleteFile" => file[j.file] # None /\ file[j.file].by = d
    BY <1>11
  <2>2. Is(d, "delete")' => k = "delete"
    BY <1>10 DEF Kinds
  <2>3. k = "delete" /\ Head(t) = "list" => j.file = None
    OBVIOUS
  <2> QED  BY <2>1, <2>2, <2>3, <1>3, <1>10, <1>13 DEF Own, Born, Sharing, At
<1>17. Keyable(d)'
  BY <1>10 DEF Keyable, AtStep
<1>18. Shows(d)'
  BY <1>4, <1>5, ShownStay DEF Shows
<1>19. Asked(d)'
  BY <1>1, <1>5, <1>10, <1>13, SameCounts DEF Inv, Asked, Knows, At
<1>20. ASSUME NEW f \in Files PROVE Managed(f)'
  <2>1. Managed(f) /\ (mishaps' = 0 => mishaps = 0)
    BY SameCounts DEF Inv
  <2>2. job[d].file # f
    BY <1>4, NoJobIsJob, NoneIsNone
  <2>3. file[f] # None => file[f].by \in Devices
    BY <1>1 DEF TypeOK, Stored
  <2> QED  BY <2>1, <2>2, <2>3, <1>3 DEF Managed
<1> QED  BY <1>7, <1>9, <1>14, <1>15, <1>16, <1>17, <1>18, <1>19, <1>20, QuietInv DEF Proper

LEMMA UserJob ==
  ASSUME NEW u \in Users, NEW j, j = [NoJob EXCEPT !.user = u]
  PROVE  j \in Jobs /\ j.kek = None /\ j.file = None /\ j.user = u /\ ~j.sender /\ ~j.manage
BY DEF NoJob, Jobs

LEMMA FileJob ==
  ASSUME NEW f \in Files, NEW j, j = [NoJob EXCEPT !.file = f]
  PROVE  j \in Jobs /\ j.kek = None /\ j.file = f /\ ~j.sender /\ ~j.manage
BY DEF NoJob, Jobs

LEMMA StartShowInv ==
  ASSUME Inv, NEW d \in Devices, NEW u \in Typed, StartShowCode(d, u) \/ StartShowCodeOnDashboard(d, u)
  PROVE  Inv'
<1> DEFINE j == [NoJob EXCEPT !.user = u]
<1>1. PICK c \in {"code", "dashboardCode"} :
        /\ Idle(d) /\ todo' = [todo EXCEPT ![d] = << "handshakes", "bundles", c >>]
        /\ job' = [job EXCEPT ![d] = j]
  BY DEF StartShowCode, StartShowCodeOnDashboard
<1>2. /\ file' = file /\ mailbox' = mailbox /\ row' = row /\ batch' = batch /\ shutOut' = shutOut
      /\ known' = known /\ UNCHANGED <<window>> /\ UNCHANGED <<counts>>
  BY DEF StartShowCode, StartShowCodeOnDashboard, server
<1>3. u \in Users
  BY InputsAssumption
<1> DEFINE t == << "handshakes", "bundles", c >>
<1>4. Path("show", t) /\ Head(t) = "handshakes"
  <2>1. "handshakes" \in Steps /\ "bundles" \in Steps /\ c \in Steps
    BY DEF Steps
  <2>2. Follows("show", "handshakes", "bundles") /\ Follows("show", "bundles", c) /\ Lasts("show", c)
    BY DEF Follows, Lasts
  <2> QED  BY <2>1, <2>2, TripleIsPath
<1>5. Lefts(d, t, j)
  BY <1>1 DEF Lefts
<1> HIDE DEF j, t
<1>6. j \in Jobs /\ j.kek = None /\ j.file = None /\ j.user \in Users /\ ~j.sender /\ ~j.manage
  BY <1>3, UserJob DEF j
<1>7. Idle(d) /\ "show" \in Kinds
  BY <1>1 DEF Kinds
<1> QED  BY <1>2, <1>4, <1>5, <1>6, <1>7, StartQuiet

LEMMA IdleKeepsJob ==
  ASSUME Inv, NEW d \in Devices, Idle(d), job' = job, NEW t, todo' = [todo EXCEPT ![d] = t]
  PROVE  Lefts(d, t, NoJob)
BY DEF Inv, Plan, TypeOK, Lefts

LEMMA StartRefreshInv ==
  ASSUME Inv, NEW d \in Devices, StartRefresh(d)
  PROVE  Inv'
<1> DEFINE t == << "handshakes", "messages" >>
<1>1. Path("read", t) /\ Head(t) = "handshakes"
  <2>1. "handshakes" \in Steps /\ "messages" \in Steps
    BY DEF Steps
  <2>2. Follows("read", "handshakes", "messages") /\ Lasts("read", "messages")
    BY DEF Follows, Lasts
  <2> QED  BY <2>1, <2>2, PairIsPath
<1>2. Idle(d) /\ "read" \in Kinds /\ Lefts(d, t, NoJob)
  BY IdleKeepsJob DEF StartRefresh, Kinds
<1>3. /\ file' = file /\ mailbox' = mailbox /\ row' = row /\ batch' = batch /\ shutOut' = shutOut
      /\ known' = known /\ UNCHANGED <<window>> /\ UNCHANGED <<counts>>
  BY DEF StartRefresh, server
<1> HIDE DEF t
<1> QED  BY <1>1, <1>2, <1>3, NoJobIsJob, StartQuiet

LEMMA StartListInv ==
  ASSUME Inv, NEW d \in Devices, StartList(d)
  PROVE  Inv'
<1> DEFINE t == << "list" >>
<1>1. Path("delete", t) /\ Head(t) = "list"
  <2>1. "list" \in Steps /\ Lasts("delete", "list")
    BY DEF Steps, Throws, Lasts
  <2> QED  BY <2>1, SingleIsPath
<1>2. Idle(d) /\ "delete" \in Kinds /\ Lefts(d, t, NoJob)
  BY IdleKeepsJob DEF StartList, Kinds
<1>3. /\ file' = file /\ mailbox' = mailbox /\ row' = row /\ batch' = batch /\ shutOut' = shutOut
      /\ known' = known /\ UNCHANGED <<window>> /\ UNCHANGED <<counts>>
  BY DEF StartList, server
<1> HIDE DEF t
<1> QED  BY <1>1, <1>2, <1>3, NoJobIsJob, StartQuiet

LEMMA StartDeleteInv ==
  ASSUME Inv, NEW d \in Devices, NEW f \in Files, StartDelete(d, f)
  PROVE  Inv'
<1> DEFINE t == << "deleteFile", "deleteRow", "list" >>
           j == [NoJob EXCEPT !.file = f]
<1>1. Path("delete", t) /\ Head(t) = "deleteFile"
  <2>1. "deleteFile" \in Steps /\ "deleteRow" \in Steps /\ "list" \in Steps
    BY DEF Steps, Throws
  <2>2. Follows("delete", "deleteFile", "deleteRow") /\ Follows("delete", "deleteRow", "list")
        /\ Lasts("delete", "list")
    BY DEF Follows, Lasts
  <2> QED  BY <2>1, <2>2, TripleIsPath
<1>2. Idle(d) /\ "delete" \in Kinds /\ Lefts(d, t, j) /\ f \in shown[d]
  BY DEF StartDelete, Kinds, Lefts
<1>3. /\ file' = file /\ mailbox' = mailbox /\ row' = row /\ batch' = batch /\ shutOut' = shutOut
      /\ known' = known /\ UNCHANGED <<window>> /\ UNCHANGED <<counts>>
  BY DEF StartDelete, server
<1> HIDE DEF t, j
<1>4. j \in Jobs /\ j.kek = None /\ j.file = f /\ ~j.sender /\ ~j.manage
  BY FileJob DEF j
<1> QED  BY <1>1, <1>2, <1>3, <1>4, StartQuiet

-----------------------------------------------------------------------------
(* What the user starts, with a draw.                                      *)

LEMMA DrawInv ==
  ASSUME Inv, NEW d \in Devices, Idle(d), drawn < MaxDraws, drawn' = drawn + 1,
         NEW t, Path("share", t), NEW j \in Jobs, Lefts(d, t, j),
         Full(j), j.sender, j.kek = drawn',
         file' = file, mailbox' = mailbox, row' = row, batch' = batch, shutOut' = shutOut,
         known' = known, UNCHANGED <<window>>, mishaps' = mishaps,
         \/ /\ Head(t) = "upload" /\ Last(t) = "report" /\ ~j.manage /\ j.file = drawn'
            /\ t[2] = "post" => fetched[d]
         \/ /\ Head(t) = "revoke" /\ Last(t) = "post" /\ j.file \in shown[d]
            /\ row[d][j.file] # None => row[d][j.file].user = j.user
  PROVE  Inv'
<1>1. TypeOK /\ Drawn /\ Births /\ t \in Seq(Steps) /\ t # << >>
  BY PathIsSeq DEF Inv
<1>2. /\ todo' \in [Devices -> Seq(Steps)] /\ job' \in [Devices -> Jobs]
      /\ todo'[d] = t /\ job'[d] = j
      /\ \A e \in Devices : e # d => todo'[e] = todo[e] /\ job'[e] = job[e]
  BY <1>1, LeftsTypes
<1>3. job[d] = NoJob /\ batch[d] = << >>
  BY NoBatch DEF Inv, Plan
<1>4. drawn \in Nat /\ drawn' \in Nat /\ drawn' > drawn /\ drawn' \in 0 .. MaxDraws
  BY <1>1, Bounds DEF TypeOK
<1>5. fetched' = fetched /\ shown' = shown /\ codeFor' = codeFor
  BY DEF window
<1>6. TypeOK'
  BY <1>1, <1>2, <1>4, <1>5 DEF TypeOK, Jobs
<1>7. ASSUME NEW e \in Devices
      PROVE  Coming(e)' = Coming(e) /\ Coming(e)' \in Seq(Messages) /\ Suffix(Coming(e)', Coming(e))
  <2>1. Taken(e)' = Taken(e)
    <3>1. CASE e = d
      BY <3>1, <1>2, <1>3, NoJobIsJob DEF Taken
    <3>2. CASE e # d
      BY <3>2, <1>2 DEF Taken
    <3> QED  BY <3>1, <3>2
  <2>2. Coming(e)' = Coming(e)
    BY <2>1 DEF Coming
  <2>3. /\ Taken(e) \in Seq(Messages) /\ batch[e] \in Seq(Messages) /\ mailbox[e] \in Seq(Messages)
        /\ Coming(e) \in Seq(Messages)
    BY ComingIsSeq DEF Inv
  <2>4. Suffix(Coming(e), Coming(e))
    BY <2>3, SuffixParts DEF Coming
  <2> QED  BY <2>2, <2>3, <2>4
<1>8. Calm(d)
  BY <1>2, <1>5, <1>7 DEF Calm, Less, Others
<1>9. j.file \in Files /\ j.kek \in Keys /\ j.user \in Users
  BY DEF Full
<1>10. \/ Head(t) = "upload" /\ j.file = drawn' /\ Unborn(j.file) /\ Nothing(j.file)
       \/ Head(t) = "revoke" /\ j.file <= drawn /\ file[j.file] # None /\ file[j.file].by = d
  <2>1. CASE Head(t) = "upload" /\ j.file = drawn'
    BY <2>1, <1>1, <1>4, <1>9 DEF Births, Unborn
  <2>2. CASE Head(t) = "revoke" /\ j.file \in shown[d]
    <3>1. ~Is(d, "delete")
      BY NotOnPath DEF Idle, Is
    <3>2. file[j.file] # None /\ file[j.file].by = d
      BY <2>2, <3>1, ShownStay
    <3>3. ~(j.file > drawn)
      BY <3>2, <1>1, <1>9 DEF Births, Unborn, Nothing
    <3> QED  BY <2>2, <3>2, <3>3, <1>4, <1>9 DEF Files
  <2> QED  BY <2>1, <2>2
<1>11. \A e \in Devices, f \in Files : job[e].file = f => f <= drawn
  BY <1>1, NoneIsNone DEF Drawn
<1>12. Births'
  <2>1. SUFFICES ASSUME NEW f \in Files, Unborn(f)' PROVE Nothing(f)'
    BY DEF Births
  <2>2. f \in Nat
    BY Bounds DEF Files
  <2>3. Unborn(f)
    <3>1. CASE f > drawn'
      BY <3>1, <2>2, <1>4 DEF Unborn
    <3>2. CASE \E e \in Devices : Sharing(e, {"upload"})' /\ job'[e].file = f
      <4>1. PICK e \in Devices : Sharing(e, {"upload"})' /\ job'[e].file = f
        BY <3>2
      <4>2. CASE e = d
        <5>1. Head(t) = "upload" /\ j.file = f
          BY <4>1, <4>2, <1>2 DEF Sharing, At
        <5> QED  BY <5>1, <1>10
      <4>3. CASE e # d
        BY <4>1, <4>3, <1>2 DEF Unborn, Sharing, Is, At
      <4> QED  BY <4>2, <4>3
    <3> QED  BY <2>1, <3>1, <3>2 DEF Unborn
  <2>4. Nothing(f)
    BY <2>3, <1>1 DEF Births
  <2>5. j.file = f => Head(t) = "upload" /\ f > drawn
    BY <2>4, <1>4, <1>10 DEF Nothing
  <2>6. ASSUME NEW e \in Devices, job'[e].file = f
        PROVE  Sharing(e, {"upload"})' /\ (e = d \/ (f <= drawn /\ job[e].file = f))
    <3>1. CASE e = d
      BY <3>1, <2>5, <2>6, <1>2 DEF Sharing, Is, At
    <3>2. CASE e # d
      <4>1. Sharing(e, {"upload"})
        BY <3>2, <2>6, <2>4, <1>2 DEF Nothing
      <4> QED  BY <4>1, <3>2, <2>6, <1>2, <1>11 DEF Sharing, Is, At
    <3> QED  BY <3>1, <3>2
  <2>7. ASSUME NEW e \in Devices, NEW g \in Devices, job'[e].file = f, job'[g].file = f PROVE e = g
    <3>1. job'[d].file = f => f > drawn
      BY <2>5, <1>2
    <3>2. CASE e = d \/ g = d
      <4>1. ~(f <= drawn)
        BY <3>1, <3>2, <2>7, <2>2, <1>4
      <4> QED  BY <4>1, <2>6, <2>7
    <3>3. CASE e # d /\ g # d
      BY <3>3, <2>7, <2>4, <1>2 DEF Nothing
    <3> QED  BY <3>2, <3>3
  <2>8. file'[f] = None /\ shutOut'[f] = {}
    BY <2>4 DEF Nothing
  <2>9. ASSUME NEW e \in Devices
        PROVE  row'[e][f] = None /\ \A i \in DOMAIN Coming(e)' : Coming(e)'[i].file # f
    BY <2>4, <1>7 DEF Nothing
  <2> QED  BY <2>6, <2>7, <2>8, <2>9 DEF Nothing
<1>13. Drawn'
  <2>1. \A e \in Devices, f \in Files : row[e][f] # None => row[e][f].kek \in Nat
    BY <1>1, Bounds DEF TypeOK, Rows, Keys
  <2>2. \A e \in Devices, f \in Files : row'[e][f] # None => row'[e][f].kek <= drawn'
    BY <2>1, <1>1, <1>4 DEF Drawn
  <2>3. ASSUME NEW e \in Devices, NEW i \in DOMAIN Coming(e)' PROVE Coming(e)'[i].kek <= drawn'
    <3>1. i \in DOMAIN Coming(e) /\ Coming(e)[i] = Coming(e)'[i] /\ Coming(e) \in Seq(Messages)
      BY <1>7
    <3>2. Coming(e)[i].kek \in Nat
      BY <3>1, MessageOf, Bounds DEF Keys
    <3> QED  BY <3>1, <3>2, <1>1, <1>4 DEF Drawn
  <2>4. ASSUME NEW e \in Devices
        PROVE  /\ job'[e].kek # None => job'[e].kek <= drawn'
               /\ job'[e].file # None => job'[e].file <= drawn'
    <3>1. CASE e = d
      <4>1. drawn' <= drawn' /\ (j.file <= drawn => j.file <= drawn')
        BY <1>4, <1>9, Bounds DEF Files
      <4> QED  BY <3>1, <4>1, <1>2, <1>10
    <3>2. CASE e # d
      <4>1. job'[e] = job[e] /\ job[e] \in Jobs
        BY <3>2, <1>1, <1>2 DEF TypeOK, Jobs
      <4>2. /\ job[e].kek # None => job[e].kek \in Nat
            /\ job[e].file # None => job[e].file \in Nat
        BY <4>1, Bounds DEF Jobs, Files, Keys
      <4> QED  BY <4>1, <4>2, <1>1, <1>4 DEF Drawn
    <3> QED  BY <3>1, <3>2
  <2> QED  BY <2>2, <2>3, <2>4 DEF Drawn
<1>14. ASSUME NEW e \in Devices PROVE Fresh(e)'
  <2>1. SUFFICES ASSUME Sharing(e, Unsent)'
                 PROVE  /\ \A g \in Devices, f \in Files : row'[g][f] # None => row'[g][f].kek # job'[e].kek
                        /\ \A g \in Devices : \A i \in DOMAIN Coming(g)' : Coming(g)'[i].kek # job'[e].kek
                        /\ \A g \in Devices : job'[g].kek = job'[e].kek => g = e
    BY DEF Fresh
  <2>2. CASE e = d
    <3>1. job'[e].kek = drawn' /\ ~(drawn' <= drawn)
      BY <2>2, <1>2, <1>4
    <3>2. \A g \in Devices : g # d => job'[g].kek # drawn'
      BY <3>1, <1>1, <1>2, <1>4, <1>9, NoneNoKey DEF Drawn
    <3>3. \A g \in Devices, f \in Files : row'[g][f] # None => row'[g][f].kek # drawn'
      BY <3>1, <1>1 DEF Drawn
    <3>4. \A g \in Devices : \A i \in DOMAIN Coming(g)' : Coming(g)'[i].kek # drawn'
      BY <3>1, <1>1, <1>7 DEF Drawn
    <3> QED  BY <2>2, <3>1, <3>2, <3>3, <3>4
  <2>3. CASE e # d
    <3>1. todo'[e] = todo[e] /\ job'[e] = job[e]
      BY <2>3, <1>2
    <3>2. Sharing(e, Unsent)
      BY <3>1, <2>1 DEF Sharing, Is, At
    <3>3. Full(job[e])
      BY <3>2 DEF Inv, Plan, Sharing
    <3>4. job[e].kek # None /\ job[e].kek <= drawn /\ job[e].kek \in Nat
      BY <3>3, <1>1, NoneNoKey, Bounds DEF Full, Drawn, Keys
    <3>5. job'[d].kek # job'[e].kek
      BY <3>1, <3>4, <1>2, <1>4
    <3>6. /\ \A g \in Devices, f \in Files : row[g][f] # None => row[g][f].kek # job[e].kek
          /\ \A g \in Devices : \A i \in DOMAIN Coming(g) : Coming(g)[i].kek # job[e].kek
          /\ \A g \in Devices : job[g].kek = job[e].kek => g = e
      BY <3>2 DEF Inv, Fresh
    <3>7. \A g \in Devices : job'[g].kek = job'[e].kek => g = e
      <4>1. SUFFICES ASSUME NEW g \in Devices, job'[g].kek = job'[e].kek PROVE g = e
        OBVIOUS
      <4>2. g # d
        BY <4>1, <3>5
      <4> QED  BY <4>1, <4>2, <3>1, <3>6, <1>2
    <3>8. \A g \in Devices : \A i \in DOMAIN Coming(g)' : Coming(g)'[i].kek # job'[e].kek
      BY <3>1, <3>6, <1>7
    <3> QED  BY <3>1, <3>6, <3>7, <3>8
  <2> QED  BY <2>2, <2>3
<1>15. Is(d, "share")' /\ ~Idle(d)' /\ ~Is(d, "delete")' /\ ~Is(d, "read")' /\ ~Is(d, "show")'
  BY <1>1, <1>2, PathKind DEF Is, Idle, Kinds
<1>16. Plan(d)'
  <2>1. ~Sharing(d, {"upload"})' \/ ~job'[d].manage
    BY <1>2, <1>10 DEF Sharing, At
  <2> QED  BY <2>1, <1>2, <1>3, <1>15 DEF Plan, Kinds
<1>17. Own(d)'
  <2>1. CASE Head(t) = "upload" /\ Nothing(j.file)
    <3>1. row[d][j.file] = None
      BY <2>1 DEF Nothing
    <3> QED  BY <2>1, <3>1, <1>2, <1>15 DEF Own, Born, Sharing, At, Saving, Unsent
  <2>2. CASE Head(t) = "revoke" /\ file[j.file] # None /\ file[j.file].by = d
    BY <2>2, <1>2, <1>15 DEF Own, Born, Sharing, At, Saving, Unsent
  <2> QED  BY <2>1, <2>2, <1>10
<1>18. Keyable(d)'
  BY <1>2, <1>10 DEF Keyable, AtStep
<1>19. Shows(d)'
  <2>1. \A f \in shown[d] : file[f] # None /\ file[f].by = d
    <3>1. ~Is(d, "delete")
      BY NotOnPath DEF Idle, Is
    <3> QED  BY <3>1, ShownStay
  <2> QED  BY <2>1, <1>5 DEF Shows
<1>20. Asked(d)'
  <2>1. SUFFICES ASSUME mishaps = 0
                 PROVE  /\ fetched[d] => codeFor[d] # None /\ Knows(d, codeFor[d])
                        /\ Last(t) = "report" /\ codeFor[d] \in {None, j.user} =>
                             (Head(t) = "upload" /\ t[2] = "post" => Knows(d, j.user))
    BY <1>2, <1>5, <1>10, <1>15 DEF Asked, At, Expected, Saving, Knows
  <2>2. fetched[d] => codeFor[d] # None /\ Knows(d, codeFor[d])
    BY <2>1 DEF Inv, Asked
  <2> QED  BY <2>2
<1>21. ASSUME NEW f \in Files PROVE Owned(f)' /\ Managed(f)'
  <2>1. Owned(f)' /\ (file[f] # None /\ file[f].by # d => Managed(f)')
    BY <1>8, QuietFiles
  <2>2. CASE file[f] # None /\ file[f].by = d
    <3>1. job[d].file # f
      BY <1>3, NoJobIsJob, NoneIsNone
    <3>2. Managed(f)
      BY DEF Inv
    <3> QED  BY <2>1, <2>2, <3>1, <3>2 DEF Managed
  <2>3. CASE file[f] = None
    BY <2>1, <2>3 DEF Managed
  <2> QED  BY <2>1, <2>2, <2>3
<1>22. ShutOutHaveNoKey' /\ NewestMessageFits' /\ \A e \in Devices : Travels(e)'
  BY <1>8, QuietMessages
<1>23. ASSUME NEW e \in Devices PROVE (Plan(e) /\ Own(e) /\ Keyable(e) /\ Shows(e) /\ Asked(e))'
  <2>1. CASE e = d
    BY <2>1, <1>16, <1>17, <1>18, <1>19, <1>20
  <2>2. CASE e # d
    BY <2>2, <1>8, QuietOthers
  <2> QED  BY <2>1, <2>2
<1> QED  BY <1>6, <1>12, <1>13, <1>14, <1>21, <1>22, <1>23 DEF Inv

LEMMA FourSteps ==
  ASSUME NEW x \in Steps, NEW y \in Steps, NEW z \in Steps, NEW w \in Steps,
         NEW t, t = << x >> \o << y, z >> \o << w >>
  PROVE  t \in Seq(Steps) /\ Len(t) = 4 /\ t[1] = x /\ t[2] = y /\ t[3] = z /\ t[4] = w
<1>0. << x >> \o << y, z >> \in Seq(Steps) /\ << w >> \in Seq(Steps)
  OBVIOUS
<1>1. PICK c \in Seq(Steps) : c = << x >> \o << y, z >>
  BY <1>0
<1>2. Len(c) = 3 /\ c[1] = x /\ c[2] = y /\ c[3] = z
  BY <1>1
<1>3. PICK r \in Seq(Steps) : r = << w >>
  BY <1>0
<1>4. Len(r) = 1 /\ r[1] = w
  BY <1>3
<1>5. t = c \o r
  BY <1>1, <1>3
<1>6. t \in Seq(Steps) /\ Len(t) = 4 /\ (\A i \in 1 .. 3 : t[i] = c[i])
  BY <1>2, <1>4, <1>5
<1>7. \A i \in 1 .. 1 : t[3 + i] = r[i]
  BY <1>2, <1>4, <1>5
<1> QED  BY <1>2, <1>4, <1>6, <1>7

LEMMA StartSendInv ==
  ASSUME Inv, NEW d \in Devices, NEW u \in Typed, StartSend(d, u)
  PROVE  Inv'
<1> DEFINE b == ~fetched[d]
           a == AllowAccess(b)
           t == << "upload" >> \o a \o << "report" >>
           j == [file |-> drawn', kek |-> drawn', user |-> u, sender |-> TRUE, manage |-> FALSE]
<1>1. /\ Idle(d) /\ drawn < MaxDraws /\ drawn' = drawn + 1
      /\ todo' = [todo EXCEPT ![d] = t] /\ job' = [job EXCEPT ![d] = j]
  BY DEF StartSend, Draw
<1>2. /\ file' = file /\ mailbox' = mailbox /\ row' = row /\ batch' = batch /\ shutOut' = shutOut
      /\ known' = known /\ UNCHANGED <<window>> /\ mishaps' = mishaps
  BY DEF StartSend, server
<1>3. drawn' \in Files /\ drawn' \in Keys /\ u \in Users
  BY <1>1, InputsAssumption, Bounds DEF Inv, TypeOK, Files, Keys
<1>4. j \in Jobs /\ Full(j) /\ j.sender /\ ~j.manage /\ j.kek = drawn' /\ j.file = drawn'
  BY <1>3 DEF Jobs, Full
<1>5. Path("share", t) /\ Head(t) = "upload" /\ Last(t) = "report" /\ (t[2] = "post" => fetched[d])
  <2>0. "upload" \in Steps /\ "report" \in Steps /\ "bundles" \in Steps /\ "post" \in Steps
    BY DEF Steps, Throws
  <2>1. CASE b
    <3>1. a = << "bundles", "post" >>
      BY <2>1 DEF AllowAccess
    <3>2. t \in Seq(Steps) /\ Len(t) = 4 /\ t[1] = "upload" /\ t[2] = "bundles" /\ t[3] = "post" /\ t[4] = "report"
      <4>1. t = << "upload" >> \o << "bundles", "post" >> \o << "report" >>
        BY <3>1
      <4> HIDE DEF t
      <4> QED  BY <4>1, <2>0, FourSteps
    <3>3. t # << >> /\ Head(t) = "upload" /\ Last(t) = "report"
      BY <3>2, NotEmpty DEF Last
    <3> HIDE DEF t
    <3>4. \A i \in 1 .. Len(t) - 1 : Follows("share", t[i], t[i + 1])
      <4>1. \A i \in 1 .. Len(t) - 1 : i = 1 \/ i = 2 \/ i = 3
        BY <3>2
      <4> QED  BY <4>1, <3>2 DEF Follows
    <3> QED  BY <3>2, <3>3, <3>4 DEF Path, Lasts
  <2>2. CASE ~b
    <3>1. a = << "post" >>
      BY <2>2 DEF AllowAccess
    <3>2. t \in Seq(Steps) /\ Len(t) = 3 /\ t[1] = "upload" /\ t[2] = "post" /\ t[3] = "report"
      BY <3>1, <2>0
    <3>3. t # << >> /\ Head(t) = "upload" /\ Last(t) = "report"
      BY <3>2, NotEmpty DEF Last
    <3> HIDE DEF t
    <3>4. \A i \in 1 .. Len(t) - 1 : Follows("share", t[i], t[i + 1])
      <4>1. \A i \in 1 .. Len(t) - 1 : i = 1 \/ i = 2
        BY <3>2
      <4> QED  BY <4>1, <3>2 DEF Follows
    <3> QED  BY <2>2, <3>2, <3>3, <3>4 DEF Path, Lasts
  <2> QED  BY <2>1, <2>2
<1>6. Lefts(d, t, j)
  BY <1>1 DEF Lefts
<1> HIDE DEF t, j
<1> QED  BY <1>1, <1>2, <1>4, <1>5, <1>6, DrawInv

LEMMA StartManageInv ==
  ASSUME Inv, NEW d \in Devices, NEW f \in Files, StartManage(d, f)
  PROVE  Inv'
<1>1. PICK u \in Recipients(d, f) :
        job' = [job EXCEPT ![d] = [file |-> f, kek |-> drawn', user |-> u, sender |-> TRUE, manage |-> TRUE]]
  BY DEF StartManage
<1> DEFINE t == RefreshAccess
           j == [file |-> f, kek |-> drawn', user |-> u, sender |-> TRUE, manage |-> TRUE]
<1>2. /\ Idle(d) /\ f \in shown[d] /\ drawn < MaxDraws /\ drawn' = drawn + 1
      /\ todo' = [todo EXCEPT ![d] = t] /\ job' = [job EXCEPT ![d] = j]
  BY <1>1 DEF StartManage, Draw
<1>3. /\ file' = file /\ mailbox' = mailbox /\ row' = row /\ batch' = batch /\ shutOut' = shutOut
      /\ known' = known /\ UNCHANGED <<window>> /\ mishaps' = mishaps
  BY DEF StartManage, server
<1>4. drawn' \in Keys /\ u \in Users /\ row[d][f].user = u
  <2>1. u \in Users /\ row[d][f].user = u
    BY DEF Recipients
  <2>2. drawn' \in Keys
    BY <1>2, Bounds DEF Inv, TypeOK, Keys
  <2> QED  BY <2>1, <2>2
<1>5. j \in Jobs /\ Full(j) /\ j.sender /\ j.kek = drawn' /\ j.file = f /\ j.user = u
  BY <1>4 DEF Jobs, Full
<1>6. Path("share", t) /\ Head(t) = "revoke" /\ Last(t) = "post"
  <2>0. "revoke" \in Steps /\ "updateKey" \in Steps /\ "bundles" \in Steps /\ "post" \in Steps
    BY DEF Steps, Throws
  <2>1. t = << "revoke", "updateKey" >> \o << "bundles", "post" >>
    BY DEF RefreshAccess, AllowAccess
  <2>2. t \in Seq(Steps) /\ Len(t) = 4 /\ t[1] = "revoke" /\ t[2] = "updateKey" /\ t[3] = "bundles" /\ t[4] = "post"
    BY <2>0, <2>1
  <2>3. t # << >> /\ Head(t) = "revoke" /\ Last(t) = "post"
    BY <2>2, NotEmpty DEF Last
  <2> HIDE DEF t
  <2>4. \A i \in 1 .. Len(t) - 1 : Follows("share", t[i], t[i + 1])
    <3>1. \A i \in 1 .. Len(t) - 1 : i = 1 \/ i = 2 \/ i = 3
      BY <2>2
    <3> QED  BY <3>1, <2>2 DEF Follows
  <2> QED  BY <2>2, <2>3, <2>4 DEF Path, Lasts
<1>7. Lefts(d, t, j)
  BY <1>2 DEF Lefts
<1> HIDE DEF t, j
<1> QED  BY <1>2, <1>3, <1>4, <1>5, <1>6, <1>7, DrawInv

-----------------------------------------------------------------------------
(* Steps that change a row.                                                *)

LEMMA RowInv ==
  ASSUME Inv, NEW d \in Devices, NEW s \in {"row", "key", "deleteRow"}, AtStep(d, s), GoOn(d, << >>),
         NEW f \in Files, f = job[d].file, NEW r \in Rows \cup {None},
         row' = [row EXCEPT ![d][f] = r],
         file' = file, mailbox' = mailbox, batch' = batch, shutOut' = shutOut, known' = known,
         UNCHANGED <<window>>, UNCHANGED <<counts>>,
         Tail(todo[d]) = << >> => ~Is(d, "read"),
         s = "row" => r # None,
         r # None => \/ r.kek = job[d].kek /\ job[d].kek # None
                     \/ row[d][f] # None /\ r.kek = row[d][f].kek,
         r # None /\ file[f] # None => r.sender = (file[f].by = d),
         r # None /\ file[f] # None /\ UserOf[d] \in shutOut[f] => r.kek # file[f].sealed.under,
         Own(d)',
         file[f] # None /\ file[f].by = d => Managed(f)'
  PROVE  Inv'
<1>1. TypeOK /\ ~Idle(d) /\ Head(todo[d]) = s
  BY DEF Inv, AtStep
<1>2. /\ todo' \in [Devices -> Seq(Steps)] /\ job' \in [Devices -> Jobs]
      /\ todo'[d] = Tail(todo[d])
      /\ job'[d] = IF Tail(todo[d]) = << >> THEN NoJob ELSE job[d]
      /\ \A e \in Devices : e # d => todo'[e] = todo[e] /\ job'[e] = job[e]
  BY <1>1, GoOnTypes
<1>3. drawn' = drawn /\ mishaps' = mishaps /\ fetched' = fetched /\ shown' = shown /\ codeFor' = codeFor
  BY DEF counts, window
<1>4. row \in [Devices -> [Files -> Rows \cup {None}]]
  BY <1>1 DEF TypeOK
<1>5. /\ row' \in [Devices -> [Files -> Rows \cup {None}]]
      /\ row'[d][f] = r
      /\ \A g \in Files : g # f => row'[d][g] = row[d][g]
      /\ \A e \in Devices : e # d => row'[e] = row[e]
  BY <1>4
<1>6. \A e \in Devices, g \in Files :
        row'[e][g] # None /\ file'[g] # None => row'[e][g].sender = (file'[g].by = e)
  <2>1. SUFFICES ASSUME NEW e \in Devices, NEW g \in Files, row'[e][g] # None, file[g] # None
                 PROVE  row'[e][g].sender = (file[g].by = e)
    OBVIOUS
  <2>2. CASE e = d /\ g = f
    BY <2>1, <2>2, <1>5
  <2>3. CASE ~(e = d /\ g = f)
    <3>1. row'[e][g] = row[e][g]
      BY <2>3, <1>5
    <3> QED  BY <2>1, <3>1, <1>1 DEF TypeOK
  <2> QED  BY <2>2, <2>3
<1>7. TypeOK'
  BY <1>1, <1>2, <1>3, <1>5, <1>6 DEF TypeOK, Jobs
<1>8. ASSUME NEW e \in Devices PROVE Coming(e)' \in Seq(Messages) /\ Suffix(Coming(e)', Coming(e))
  <2>1. CASE e = d
    BY <2>1, <1>2, ComingLess
  <2>2. CASE e # d
    BY <2>2, <1>2, ComingOthers
  <2> QED  BY <2>1, <2>2
<1>9. Others(d) /\ Less
  BY <1>2, <1>3, <1>5, <1>8 DEF Others, Less
<1>10. Keeps(d)
  BY <1>1, GoOnKeeps
<1>11. ~Sharing(d, Unsent)'
  <2>1. ~At(d, Unsent)
    BY <1>1 DEF At, Unsent
  <2> QED  BY <2>1, <1>10 DEF Keeps, Sharing
<1>12. Moves(d)
  <2>1. ASSUME NEW e \in Devices, NEW i \in DOMAIN Coming(e)'
        PROVE  \E k \in DOMAIN Coming(e) : Coming(e)[k] = Coming(e)'[i]
    BY <1>8, SuffixComes
  <2>2. ASSUME NEW g \in Files, row'[d][g] # None
        PROVE  \/ row[d][g] # None /\ row'[d][g].kek = row[d][g].kek
               \/ row'[d][g].kek = job[d].kek /\ job[d].kek # None /\ ~Sharing(d, Unsent)'
    BY <2>2, <1>5, <1>11
  <2>3. \A g \in Files : g # job[d].file =>
          file'[g] = file[g] /\ shutOut'[g] = shutOut[g] /\ row'[d][g] = row[d][g]
    BY <1>5
  <2> QED  BY <2>1, <2>2, <2>3, <1>3, <1>9 DEF Moves
<1>13. ShutOutHaveNoKey' /\ NewestMessageFits' /\ \A e \in Devices : Travels(e)'
  <2>1. RowFits(d, f)'
    BY <1>5 DEF RowFits
  <2>2. \A e \in Devices, g \in Files : row'[e][g] = row[e][g] \/ RowFits(e, g)'
    BY <2>1, <1>5
  <2> QED  BY <2>2, <1>9, LessMessages
<1>14. PICK k \in Kinds : Is(d, k) /\ \A l \in Kinds : Is(d, l) => l = k
  BY <1>1, PlanKind
<1> DEFINE t == Tail(todo[d])
<1>15. /\ t # << >> => /\ Is(d, k)' /\ (\A l \in Kinds : Is(d, l)' => l = k) /\ ~Idle(d)'
                       /\ Head(todo'[d]) = Head(t) /\ Last(todo'[d]) = Last(todo[d])
                       /\ Follows(k, s, Head(t)) /\ job'[d] = job[d]
       /\ t = << >> => Idle(d)' /\ ~Is(d, "share")' /\ ~Is(d, "show")' /\ ~Is(d, "delete")' /\ Lasts(k, s)
  <2>1. CASE t # << >>
    <3>1. Path(k, t) /\ Follows(k, s, Head(t)) /\ Last(t) = Last(todo[d]) /\ (\A l \in Kinds : Path(l, t) => l = k)
      BY <2>1, <1>1, <1>14, NextStep
    <3> HIDE DEF t
    <3>2. todo'[d] = t /\ job'[d] = job[d]
      BY <2>1, <1>2 DEF t
    <3> QED  BY <2>1, <3>1, <3>2 DEF Is, Idle
  <2>2. CASE t = << >>
    <3>1. todo'[d] = << >>
      BY <2>2, <1>2
    <3>2. Lasts(k, s)
      BY <2>2, <1>1, <1>14, LastStep
    <3> QED  BY <2>2, <3>1, <3>2, NotOnPath DEF Idle, Is
  <2> QED  BY <2>1, <2>2
<1>16. Plan(d)'
  <2>1. t = << >> => batch[d] = << >>
    BY NoBatch
  <2> QED  BY <2>1, <1>1, GoOnPlan
<1> HIDE DEF t
<1>17. Keyable(d)'
  <2>1. SUFFICES ASSUME ~Idle(d)', Head(todo'[d]) = "key" PROVE row'[d][job'[d].file] # None
    BY DEF Keyable, AtStep
  <2>2. s = "row" /\ job'[d] = job[d]
    BY <2>1, <1>15 DEF Follows
  <2> QED  BY <2>2, <1>5
<1>18. Shows(d)'
  <2>1. CASE k = "delete"
    <3>1. t # << >> /\ s = "deleteRow" /\ Head(t) = "list"
      BY <2>1, <1>15 DEF Follows, Lasts
    <3>2. Is(d, "delete")' /\ At(d, {"deleteRow", "list"})' /\ job'[d] = job[d]
      BY <2>1, <3>1, <1>15 DEF At
    <3>3. Shows(d)
      BY DEF Inv
    <3> QED  BY <3>2, <3>3, <1>3 DEF Shows
  <2>2. CASE k # "delete"
    <3>1. ~Is(d, "delete")
      BY <2>2, <1>14 DEF Kinds
    <3> QED  BY <3>1, <1>3, ShownStay DEF Shows
  <2> QED  BY <2>1, <2>2
<1>19. Asked(d)'
  <2>1. Asked(d)
    BY DEF Inv
  <2>2. ~(Is(d, "show")' /\ At(d, {"code"})')
    BY <1>15 DEF At, Follows, Kinds
  <2>3. Is(d, "share")' => /\ Is(d, "share") /\ At(d, Saving) /\ job'[d] = job[d]
                           /\ Last(todo'[d]) = Last(todo[d]) /\ Head(todo'[d]) \in {"key", "row", "report"}
    <3>1. SUFFICES ASSUME Is(d, "share")'
                   PROVE  t # << >> /\ k = "share" /\ s \in Saving /\ Head(t) \in {"key", "row", "report"}
      BY <1>1, <1>14, <1>15 DEF At
    <3>2. t # << >> /\ k = "share"
      BY <3>1, <1>15 DEF Kinds
    <3>3. Follows("share", s, Head(t))
      BY <3>2, <1>15
    <3> QED  BY <3>2, <3>3 DEF Follows, Saving
  <2> QED  BY <2>1, <2>2, <2>3, <1>3 DEF Asked, Knows, Expected, At, Saving
<1>20. ASSUME NEW g \in Files PROVE Owned(g)' /\ Managed(g)'
  <2>1. Owned(g) /\ Managed(g)
    BY DEF Inv
  <2>2. Owned(g)'
    BY <2>1 DEF Owned
  <2>3. CASE file[g] = None
    BY <2>2, <2>3 DEF Managed
  <2>4. CASE file[g] # None /\ file[g].by # d
    <3>1. file[g].by \in Devices
      BY <2>4, <1>1 DEF TypeOK, Stored
    <3>2. job'[file[g].by] = job[file[g].by] /\ row'[file[g].by] = row[file[g].by]
      BY <2>4, <3>1, <1>2, <1>5
    <3> QED  BY <2>1, <2>2, <2>4, <3>2, <1>3 DEF Managed
  <2>5. CASE file[g] # None /\ file[g].by = d /\ g # f
    <3>1. job[d].file # g /\ row'[d][g] = row[d][g]
      BY <2>5, <1>5
    <3> QED  BY <2>1, <2>2, <2>5, <3>1, <1>3 DEF Managed
  <2>6. CASE file[g] # None /\ file[g].by = d /\ g = f
    BY <2>2, <2>6
  <2> QED  BY <2>3, <2>4, <2>5, <2>6
<1>21. ASSUME NEW e \in Devices
       PROVE  (Plan(e) /\ Own(e) /\ Keyable(e) /\ Shows(e) /\ Asked(e))'
  <2>1. CASE e = d
    BY <2>1, <1>16, <1>17, <1>18, <1>19
  <2>2. CASE e # d
    BY <2>2, <1>3, <1>9, OthersStay
  <2> QED  BY <2>1, <2>2
<1> QED  BY <1>7, <1>10, <1>12, <1>13, <1>20, <1>21, MovesBirths, MovesDrawn, MovesFresh DEF Inv

LEMMA RowJob ==
  ASSUME Inv, NEW d \in Devices, AtStep(d, "row") \/ AtStep(d, "key")
  PROVE  /\ Is(d, "share") \/ Is(d, "read")
         /\ Full(job[d]) /\ job[d].kek # None
         /\ \E f \in Files : f = job[d].file
<1>1. Is(d, "share") \/ Is(d, "read")
  BY StepKind
<1>2. At(d, {"row", "key"})
  BY DEF AtStep, At
<1>3. Full(job[d])
  BY <1>1, <1>2 DEF Inv, Plan
<1> QED  BY <1>1, <1>3, NoneNoKey DEF Full

LEMMA SaveRowInv ==
  ASSUME Inv, NEW d \in Devices, SaveRow(d)
  PROVE  Inv'
<1>0. PICK f \in Files : f = job[d].file
  BY RowJob DEF SaveRow
<1> DEFINE r == Row(d)
<1>1. AtStep(d, "row") /\ GoOn(d, << >>) /\ row' = [row EXCEPT ![d][f] = r]
  BY <1>0 DEF SaveRow
<1>2. /\ file' = file /\ mailbox' = mailbox /\ batch' = batch /\ shutOut' = shutOut /\ known' = known
      /\ UNCHANGED <<window>> /\ UNCHANGED <<counts>>
  BY DEF SaveRow, server
<1>3. Is(d, "share") \/ Is(d, "read")
  BY <1>1, RowJob
<1>4. TypeOK /\ Plan(d) /\ Own(d) /\ Owned(f) /\ ~Idle(d)
  BY <1>1 DEF Inv, AtStep
<1>5. Full(job[d]) /\ f \in Files /\ job[d].kek # None
  BY <1>1, RowJob
<1>6. r.kek = job[d].kek /\ r.user = job[d].user /\ r.sender = job[d].sender
  BY DEF Row
<1>7. r \in Rows /\ r # None
  <2>1. job[d].sender \in BOOLEAN
    BY <1>4 DEF TypeOK
  <2>2. r \in Rows
    BY <2>1, <1>5 DEF Row, Rows, Full
  <2> QED  BY <2>2, NoneIsNone
<1>8. Tail(todo[d]) # << >>
  BY <1>1, NotLast
<1>9. PICK k \in {"share", "read"} : Is(d, k)
  BY <1>3
<1>10. /\ todo'[d] = Tail(todo[d]) /\ job'[d] = job[d]
       /\ Path(k, Tail(todo[d])) /\ Head(Tail(todo[d])) = "key"
       /\ \A l \in Kinds : Path(l, Tail(todo[d])) => l = k
  <2>1. todo'[d] = Tail(todo[d]) /\ job'[d] = job[d]
    BY <1>1, <1>4, <1>8, GoOnTypes
  <2>2. k \in Kinds
    BY DEF Kinds
  <2>3. /\ Path(k, Tail(todo[d])) /\ Follows(k, Head(todo[d]), Head(Tail(todo[d])))
        /\ \A l \in Kinds : Path(l, Tail(todo[d])) => l = k
    BY <1>4, <1>8, <1>9, <2>2, NextStep
  <2>4. Head(todo[d]) = "row"
    BY <1>1 DEF AtStep
  <2> QED  BY <2>1, <2>3, <2>4 DEF Follows
<1>11. ASSUME file[f] # None
       PROVE  r.sender = (file[f].by = d) /\ (UserOf[d] \in shutOut[f] => r.kek # file[f].sealed.under)
  <2>1. CASE Is(d, "share")
    <3>1. file[f].by = d /\ job[d].sender
      <4>1. Sharing(d, Saving)
        BY <2>1, <1>1 DEF Sharing, At, AtStep, Saving
      <4> QED  BY <2>1, <4>1, <1>0, <1>4 DEF Own, Born, Sharing, At, Saving, Unsent, Plan
    <3>2. UserOf[d] \notin shutOut[f]
      BY <3>1, <1>4, <1>11 DEF Owned
    <3> QED  BY <3>1, <3>2, <1>4, <1>6 DEF TypeOK
  <2>2. CASE Is(d, "read")
    <3>1. ~job[d].sender /\ job[d].sender \in BOOLEAN
      BY <2>2, <1>4, NotBoth DEF Plan, TypeOK
    <3>2. file[f].by # d
      BY <2>2, <1>0, <1>5, <1>11, TakenComes
    <3>3. PICK i \in DOMAIN Coming(d) : Coming(d)[i].file = f /\ Coming(d)[i].kek = job[d].kek
      BY <2>2, <1>0, <1>5, TakenComes
    <3>4. UserOf[d] \in shutOut[f] => job[d].kek # file[f].sealed.under
      BY <3>3, <1>5, <1>11 DEF Inv, ShutOutHaveNoKey
    <3> QED  BY <3>1, <3>2, <3>4, <1>6
  <2> QED  BY <1>3, <2>1, <2>2
<1>12. row'[d][f] = r
  BY <1>1, <1>4, <1>5 DEF TypeOK
<1>13. Own(d)'
  <2>1. CASE k = "read"
    <3>1. ~Is(d, "share")' /\ ~Is(d, "delete")'
      BY <2>1, <1>10 DEF Is, Kinds
    <3> QED  BY <3>1 DEF Own, Born, Sharing
  <2>2. CASE k = "share"
    <3>1. Is(d, "share") /\ At(d, Saving) /\ ~At(d, Unsent)
      BY <2>2, <1>1, <1>9 DEF At, AtStep, Saving, Unsent
    <3>2. file[f] # None /\ file[f].by = d /\ file[f].sealed.under = job[d].kek /\ file[f].access \subseteq {job[d].user}
      BY <3>1, <1>0, <1>4 DEF Own, Born, Sharing, At, Saving, Unsent
    <3>3. Is(d, "share")' /\ ~Is(d, "delete")' /\ Head(todo'[d]) = "key"
      BY <2>2, <1>10 DEF Is, Kinds
    <3> HIDE DEF r
    <3>4. job'[d].file = f /\ job'[d].kek = job[d].kek /\ job'[d].user = job[d].user
      BY <1>0, <1>10
    <3> QED  BY <3>2, <3>3, <3>4, <1>2, <1>6, <1>7, <1>12 DEF Own, Born, Sharing, At, Saving, Unsent
  <2> QED  BY <2>1, <2>2
<1>14. file[f] # None /\ file[f].by = d => Managed(f)'
  BY <1>0, <1>2, <1>10 DEF Managed
<1> HIDE DEF r
<1>15. "row" \in {"row", "key", "deleteRow"} /\ r \in Rows \cup {None}
  BY <1>7
<1>16. r # None => \/ r.kek = job[d].kek /\ job[d].kek # None
                   \/ row[d][f] # None /\ r.kek = row[d][f].kek
  BY <1>5, <1>6
<1>17. /\ r # None /\ file[f] # None => r.sender = (file[f].by = d)
       /\ r # None /\ file[f] # None /\ UserOf[d] \in shutOut[f] => r.kek # file[f].sealed.under
  BY <1>11
<1> QED  BY <1>0, <1>1, <1>2, <1>7, <1>8, <1>13, <1>14, <1>15, <1>16, <1>17, RowInv

LEMMA SaveKeyInv ==
  ASSUME Inv, NEW d \in Devices, SaveKey(d)
  PROVE  Inv'
<1>0. PICK f \in Files : f = job[d].file
  BY RowJob DEF SaveKey
<1> DEFINE r == [row[d][f] EXCEPT !.keyed = TRUE]
<1>1. AtStep(d, "key") /\ GoOn(d, << >>) /\ row' = [row EXCEPT ![d][f] = r]
  BY <1>0 DEF SaveKey
<1>2. /\ file' = file /\ mailbox' = mailbox /\ batch' = batch /\ shutOut' = shutOut /\ known' = known
      /\ UNCHANGED <<window>> /\ UNCHANGED <<counts>>
  BY DEF SaveKey, server
<1>3. Is(d, "share") \/ Is(d, "read")
  BY <1>1, RowJob
<1>4. TypeOK /\ Plan(d) /\ Own(d) /\ Keyable(d) /\ ~Idle(d) /\ At(d, {"key"})
  BY <1>1 DEF Inv, AtStep, At
<1>5. Full(job[d]) /\ f \in Files /\ job[d].kek # None
  BY <1>1, RowJob
<1>6. row[d][f] # None /\ row[d][f] \in Rows
  BY <1>0, <1>1, <1>4, <1>5 DEF Keyable, TypeOK
<1>7. /\ r \in Rows /\ r # None /\ r.keyed
      /\ r.kek = row[d][f].kek /\ r.user = row[d][f].user /\ r.sender = row[d][f].sender
  <2>1. /\ r \in Rows /\ r.keyed
        /\ r.kek = row[d][f].kek /\ r.user = row[d][f].user /\ r.sender = row[d][f].sender
    BY <1>6 DEF Rows
  <2> QED  BY <2>1, NoneIsNone
<1>8. /\ r.sender = row[d][f].sender
      /\ file[f] # None => r.sender = (file[f].by = d)
      /\ file[f] # None /\ UserOf[d] \in shutOut[f] => r.kek # file[f].sealed.under
  BY <1>4, <1>5, <1>6, <1>7 DEF TypeOK, Inv, ShutOutHaveNoKey
<1>9. row'[d][f] = r
  BY <1>1, <1>4, <1>5 DEF TypeOK
<1> DEFINE t == Tail(todo[d])
<1>10. todo'[d] = t /\ job'[d] = IF t = << >> THEN NoJob ELSE job[d]
  BY <1>1, <1>4, GoOnTypes
<1>11. PICK k \in {"share", "read"} : Is(d, k)
  BY <1>3
<1>12. /\ t # << >> => /\ Path(k, t) /\ Head(t) \in {"row", "report", "nextMessage"}
                       /\ \A l \in Kinds : Path(l, t) => l = k
       /\ t = << >> => k = "share"
  <2>1. k \in Kinds /\ Head(todo[d]) = "key"
    BY <1>1 DEF Kinds, AtStep
  <2>2. t # << >> => /\ Path(k, t) /\ Follows(k, Head(todo[d]), Head(t))
                     /\ \A l \in Kinds : Path(l, t) => l = k
    BY <1>4, <1>11, <2>1, NextStep
  <2>3. t = << >> => Lasts(k, Head(todo[d]))
    BY <1>4, <1>11, <2>1, LastStep
  <2> QED  BY <2>1, <2>2, <2>3 DEF Follows, Lasts
<1>13. k = "share" => /\ file[f] # None /\ file[f].by = d /\ file[f].sealed.under = job[d].kek
                      /\ file[f].access \subseteq {job[d].user}
                      /\ row[d][f].kek = job[d].kek /\ row[d][f].user = job[d].user
  BY <1>0, <1>4, <1>6, <1>11 DEF Own, Born, Sharing, At, Saving, Unsent
<1> HIDE DEF t
<1>14. Own(d)'
  <2>1. CASE t = << >>
    <3>1. \A l : ~Is(d, l)'
      BY <2>1, <1>10, NotOnPath DEF Is
    <3> QED  BY <3>1 DEF Own, Born, Sharing
  <2>2. CASE t # << >> /\ k = "read"
    <3>1. ~Is(d, "share")' /\ ~Is(d, "delete")'
      BY <2>2, <1>10, <1>12 DEF Is, Kinds
    <3> QED  BY <3>1 DEF Own, Born, Sharing
  <2>3. CASE t # << >> /\ k = "share"
    <3>1. /\ file[f] # None /\ file[f].by = d /\ file[f].sealed.under = job[d].kek
          /\ file[f].access \subseteq {job[d].user}
          /\ r.kek = job[d].kek /\ r.user = job[d].user
      BY <2>3, <1>7, <1>13
    <3>2. Is(d, "share")' /\ ~Is(d, "delete")' /\ Head(todo'[d]) \in {"row", "report", "nextMessage"}
      BY <2>3, <1>10, <1>12 DEF Is, Kinds
    <3>3. job'[d].file = f /\ job'[d].kek = job[d].kek /\ job'[d].user = job[d].user
      BY <2>3, <1>0, <1>10
    <3> HIDE DEF r
    <3> QED  BY <3>1, <3>2, <3>3, <1>2, <1>7, <1>9 DEF Own, Born, Sharing, At, Saving, Unsent
  <2> QED  BY <2>1, <2>2, <2>3
<1>15. file[f] # None /\ file[f].by = d => Managed(f)'
  <2>1. SUFFICES ASSUME file[f] # None, file[f].by = d PROVE Managed(f)'
    OBVIOUS
  <2>2. k = "share"
    <3>1. ~Is(d, "read")
      BY <2>1, <1>0, <1>5, TakenComes
    <3> QED  BY <3>1, <1>11
  <2>3. r.keyed /\ r.kek = file[f].sealed.under /\ file[f].access \ {file[f].owner} \subseteq {r.user} /\ r # None
    BY <2>2, <1>7, <1>13
  <2> HIDE DEF r
  <2> QED  BY <2>1, <2>3, <1>2, <1>9 DEF Managed
<1>16. Tail(todo[d]) = << >> => ~Is(d, "read")
  BY <1>11, <1>12, NotBoth DEF t
<1> HIDE DEF r
<1>17. "key" \in {"row", "key", "deleteRow"} /\ r \in Rows \cup {None}
  BY <1>7
<1>18. r # None => \/ r.kek = job[d].kek /\ job[d].kek # None
                   \/ row[d][f] # None /\ r.kek = row[d][f].kek
  BY <1>6, <1>7
<1>19. /\ r # None /\ file[f] # None => r.sender = (file[f].by = d)
       /\ r # None /\ file[f] # None /\ UserOf[d] \in shutOut[f] => r.kek # file[f].sealed.under
  BY <1>8
<1> QED  BY <1>0, <1>1, <1>2, <1>7, <1>14, <1>15, <1>16, <1>17, <1>18, <1>19, RowInv

LEMMA DeleteRowInv ==
  ASSUME Inv, NEW d \in Devices, DeleteRow(d)
  PROVE  Inv'
<1> DEFINE f == job[d].file
<1>1. AtStep(d, "deleteRow") /\ ~Idle(d) /\ GoOn(d, << >>) /\ row' = [row EXCEPT ![d][f] = None]
  BY DEF DeleteRow, AtStep
<1>2. /\ file' = file /\ mailbox' = mailbox /\ batch' = batch /\ shutOut' = shutOut /\ known' = known
      /\ UNCHANGED <<window>> /\ UNCHANGED <<counts>>
  BY DEF DeleteRow, server
<1>3. Is(d, "delete") /\ At(d, {"deleteRow", "list"}) /\ ~At(d, {"list"})
  BY <1>1, StepKind DEF AtStep, At
<1>4. f \in Files /\ file[f] = None
  BY <1>3, NoneIsNone DEF Inv, Plan, Own
<1>5. Tail(todo[d]) # << >>
  BY <1>1, NotLast
<1>6. todo'[d] = Tail(todo[d]) /\ job'[d] = job[d]
  BY <1>1, <1>5, GoOnTypes DEF Inv
<1>7. "delete" \in Kinds
  BY DEF Kinds
<1>8. /\ Path("delete", Tail(todo[d])) /\ Follows("delete", Head(todo[d]), Head(Tail(todo[d])))
      /\ \A l \in Kinds : Path(l, Tail(todo[d])) => l = "delete"
  BY <1>1, <1>3, <1>5, <1>7, NextStep
<1>9. ~Is(d, "share")' /\ Head(todo'[d]) = "list"
  BY <1>1, <1>6, <1>8 DEF Is, Kinds, Follows, AtStep
<1>10. Own(d)'
  BY <1>2, <1>4, <1>6, <1>9 DEF Own, Born, Sharing, At
<1> HIDE DEF f
<1>11. "deleteRow" \in {"row", "key", "deleteRow"} /\ f = job[d].file /\ None \in Rows \cup {None}
  BY DEF f
<1> QED  BY <1>1, <1>2, <1>4, <1>5, <1>10, <1>11, RowInv

-----------------------------------------------------------------------------
(* Steps that change a file at the server.                                 *)

LEMMA SharingJob ==
  ASSUME Inv, NEW d \in Devices, Is(d, "share")
  PROVE  /\ Full(job[d]) /\ job[d].sender /\ job[d].kek # None
         /\ ~Is(d, "show") /\ ~Is(d, "read") /\ ~Is(d, "delete")
         /\ \E f \in Files : f = job[d].file
<1>1. Full(job[d]) /\ job[d].sender
  BY DEF Inv, Plan
<1> QED  BY <1>1, NoneNoKey, NotBoth DEF Full

(* No two devices are about to change the same file.                       *)
LEMMA Apart ==
  ASSUME Inv, NEW d \in Devices, NEW f \in Files, f = job[d].file,
         Sharing(d, {"upload"}) \/ Born(d),
         NEW e \in Devices, e # d, Is(e, "share") \/ Is(e, "delete")
  PROVE  job[e].file # f
<1>1. SUFFICES ASSUME job[e].file = f PROVE FALSE
  OBVIOUS
<1>2. Own(e) /\ Plan(e) /\ Own(d) /\ todo[e] \in Seq(Steps) /\ (Sharing(e, {"upload"}) => Nothing(f))
  BY <1>1 DEF Inv, TypeOK, Births, Unborn
<1>3. CASE Sharing(d, {"upload"})
  <2>1. Nothing(f)
    BY <1>3 DEF Inv, Births, Unborn
  <2> QED  BY <2>1, <1>1 DEF Nothing
<1>4. CASE Born(d)
  <2>1. file[f] # None /\ file[f].by = d
    BY <1>2, <1>4 DEF Own
  <2>2. CASE Is(e, "share")
    <3>1. CASE Sharing(e, {"upload"})
      BY <3>1, <2>1, <1>2 DEF Nothing
    <3>2. CASE ~Sharing(e, {"upload"})
      <4>1. \E b : Follows("share", Head(todo[e]), b) \/ Lasts("share", Head(todo[e]))
        <5>1. ~Idle(e)
          BY <2>2, NotOnPath DEF Is, Idle
        <5>2. AtStep(e, Head(todo[e])) /\ "share" \in Kinds
          BY <5>1 DEF AtStep, Kinds
        <5> QED  BY <5>2, <2>2, AtIs
      <4>2. Head(todo[e]) \in (Unsent \cup Saving)
        BY <4>1 DEF Follows, Lasts, Unsent, Saving
      <4>3. Born(e)
        BY <4>2, <3>2, <2>2 DEF Born, Sharing, At
      <4> QED  BY <4>3, <2>1, <1>1, <1>2 DEF Own
    <3> QED  BY <3>1, <3>2
  <2>3. CASE Is(e, "delete")
    <3>1. \E b : Follows("delete", Head(todo[e]), b) \/ Lasts("delete", Head(todo[e]))
      <4>1. ~Idle(e)
        BY <2>3, NotOnPath DEF Is, Idle
      <4>2. AtStep(e, Head(todo[e])) /\ "delete" \in Kinds
        BY <4>1 DEF AtStep, Kinds
      <4> QED  BY <4>2, <2>3, AtIs
    <3>2. At(e, {"deleteFile"}) \/ At(e, {"deleteRow", "list"})
      BY <3>1 DEF Follows, Lasts, At
    <3> QED  BY <3>2, <2>1, <2>3, <1>1, <1>2, NoneIsNone DEF Own, Born
  <2> QED  BY <2>2, <2>3
<1> QED  BY <1>3, <1>4

NoKey(e, f) ==
  file[f] # None /\ UserOf[e] \in shutOut[f] =>
    /\ row[e][f] # None => row[e][f].kek # file[f].sealed.under
    /\ \A i \in DOMAIN Coming(e) :
         Coming(e)[i].file = f => Coming(e)[i].kek # file[f].sealed.under
Fits(e, f) ==
  file[f] # None /\ UserOf[e] \in file[f].access => Latest(Coming(e), f, file[f].sealed.under)
Reaches(e, f) ==
  \A i \in DOMAIN Coming(e) : Coming(e)[i].file = f /\ file[f] # None => e \in known[file[f].by]

About(f) == \A e \in Devices : NoKey(e, f) /\ Fits(e, f) /\ Reaches(e, f)

LatestStays(f) ==
  \A e \in Devices, g \in Files : \A kek :
    g # f /\ Latest(Coming(e), g, kek) => Latest(Coming(e)', g, kek)

LEMMA FileInv ==
  ASSUME Inv, NEW d \in Devices, NEW f \in Files, f = job[d].file,
         Sharing(d, {"upload"}) \/ Born(d),
         TypeOK', Moves(d), Keeps(d),
         row' = row, known' = known, mishaps' = mishaps, UNCHANGED <<window>>,
         About(f)', LatestStays(f), \A e \in Devices : Coming(e)' \in Seq(Messages),
         Plan(d)', Own(d)', Keyable(d)', Shows(d)', Asked(d)', Owned(f)', Managed(f)'
  PROVE  Inv'
<1>1. TypeOK /\ Others(d) /\ (\A g \in Files : g # f => file'[g] = file[g] /\ shutOut'[g] = shutOut[g])
  BY DEF Inv, Moves
<1>2. fetched' = fetched /\ shown' = shown /\ codeFor' = codeFor
  BY DEF window
<1>3. ASSUME NEW e \in Devices, NEW i \in DOMAIN Coming(e)', Coming(e)'[i].file # f
      PROVE  \E k \in DOMAIN Coming(e) : Coming(e)[k] = Coming(e)'[i]
  BY <1>3 DEF Moves
<1>4. ASSUME NEW g \in Files, g # f PROVE About(g)'
  <2>1. file'[g] = file[g] /\ shutOut'[g] = shutOut[g]
    BY <1>1, <1>4
  <2>2. SUFFICES ASSUME NEW e \in Devices PROVE (NoKey(e, g) /\ Fits(e, g) /\ Reaches(e, g))'
    BY DEF About
  <2>3. NoKey(e, g)'
    <3>1. SUFFICES ASSUME file[g] # None, UserOf[e] \in shutOut[g]
                   PROVE  /\ row[e][g] # None => row[e][g].kek # file[g].sealed.under
                          /\ \A i \in DOMAIN Coming(e)' :
                               Coming(e)'[i].file = g => Coming(e)'[i].kek # file[g].sealed.under
      BY <2>1 DEF NoKey
    <3>2. /\ row[e][g] # None => row[e][g].kek # file[g].sealed.under
          /\ \A i \in DOMAIN Coming(e) :
               Coming(e)[i].file = g => Coming(e)[i].kek # file[g].sealed.under
      BY <3>1 DEF Inv, ShutOutHaveNoKey
    <3> QED  BY <3>2, <1>3, <1>4
  <2>4. Fits(e, g)'
    <3>1. SUFFICES ASSUME file[g] # None, UserOf[e] \in file[g].access
                   PROVE  Latest(Coming(e)', g, file[g].sealed.under)
      BY <2>1 DEF Fits
    <3>2. Latest(Coming(e), g, file[g].sealed.under)
      BY <3>1 DEF Inv, NewestMessageFits
    <3> QED  BY <3>2, <1>4 DEF LatestStays
  <2>5. Reaches(e, g)'
    <3>1. SUFFICES ASSUME NEW i \in DOMAIN Coming(e)', Coming(e)'[i].file = g, file[g] # None
                   PROVE  e \in known[file[g].by]
      BY <2>1 DEF Reaches
    <3>2. PICK k \in DOMAIN Coming(e) : Coming(e)[k] = Coming(e)'[i]
      BY <3>1, <1>3, <1>4
    <3> QED  BY <3>1, <3>2 DEF Inv, Travels
  <2> QED  BY <2>3, <2>4, <2>5
<1>5. \A g \in Files : About(g)'
  BY <1>4
<1>6. ShutOutHaveNoKey' /\ NewestMessageFits'
  BY <1>5 DEF About, NoKey, Fits, ShutOutHaveNoKey, NewestMessageFits
<1>7. ASSUME NEW e \in Devices PROVE Travels(e)'
  <2>1. SUFFICES ASSUME NEW i \in DOMAIN Coming(e)', file'[Coming(e)'[i].file] # None
                 PROVE  e \in known'[file'[Coming(e)'[i].file].by]
    BY DEF Travels
  <2>2. PICK g \in Files : g = Coming(e)'[i].file
    BY MessageOf
  <2>3. Reaches(e, g)'
    BY <1>5 DEF About
  <2> QED  BY <2>1, <2>2, <2>3 DEF Reaches
<1>8. ASSUME NEW e \in Devices, e # d
      PROVE  Plan(e)' /\ Own(e)' /\ Keyable(e)' /\ Shows(e)' /\ Asked(e)'
  <2>1. todo'[e] = todo[e] /\ job'[e] = job[e] /\ batch'[e] = batch[e]
    BY <1>1, <1>8 DEF Others
  <2>2. Plan(e)'
    BY <2>1 DEF Inv, Plan, Idle, Is, Sharing, At
  <2>3. Keyable(e)'
    BY <2>1 DEF Inv, Keyable, AtStep, Idle
  <2>4. Is(e, "share") \/ Is(e, "delete") => job[e].file # f
    BY <1>8, Apart
  <2>5. Is(e, "share") => job[e].file \in Files
    BY SharingJob
  <2>6. job[e].file \in Files \cup {None}
    BY <1>1 DEF TypeOK
  <2>7. (Is(e, "share") \/ Is(e, "delete")) /\ job[e].file # None => file'[job[e].file] = file[job[e].file]
    BY <2>4, <2>6, <1>1
  <2>8. Is(e, "share") \/ Born(e) => file'[job[e].file] = file[job[e].file]
    <3>1. Is(e, "delete") /\ At(e, {"deleteFile"}) => job[e].file \in Files
      <4>1. Is(e, "delete") /\ At(e, {"deleteFile"}) => ~At(e, {"list"})
        BY DEF At
      <4> QED  BY <4>1 DEF Inv, Plan
    <3> QED  BY <3>1, <2>5, <2>7, NoneIsNone DEF Born, Sharing
  <2>9. Own(e)
    BY DEF Inv
  <2>10. Own(e)'
    <3>1. Born(e)' <=> Born(e)
      BY <2>1 DEF Born, Sharing, Is, At
    <3>2. (Is(e, "share")' <=> Is(e, "share")) /\ (Is(e, "delete")' <=> Is(e, "delete"))
          /\ \A steps : At(e, steps)' <=> At(e, steps)
      BY <2>1 DEF Is, At
    <3> QED  BY <3>1, <3>2, <2>1, <2>7, <2>8, <2>9 DEF Own, Sharing
  <2>11. Shows(e)'
    <3>1. SUFFICES ASSUME NEW g \in shown[e]
                   PROVE  \/ file'[g] # None /\ file'[g].by = e
                          \/ Is(e, "delete")' /\ At(e, {"deleteRow", "list"})' /\ job'[e].file = g
      BY <1>2 DEF Shows
    <3>2. \/ file[g] # None /\ file[g].by = e
          \/ Is(e, "delete") /\ At(e, {"deleteRow", "list"}) /\ job[e].file = g
      BY DEF Inv, Shows
    <3>3. CASE Is(e, "delete") /\ At(e, {"deleteRow", "list"}) /\ job[e].file = g
      BY <3>3, <2>1 DEF Is, At
    <3>4. CASE file[g] # None /\ file[g].by = e
      <4>1. g \in Files
        BY <1>1 DEF TypeOK
      <4>2. file[f] = None \/ file[f].by = d
        <5>1. Sharing(d, {"upload"}) => file[f] = None
          BY DEF Inv, Births, Unborn, Nothing
        <5>2. Born(d) => file[f].by = d
          BY DEF Inv, Own
        <5> QED  BY <5>1, <5>2
      <4> QED  BY <3>4, <4>1, <4>2, <1>1, <1>8
    <3> QED  BY <3>2, <3>3, <3>4
  <2>12. Asked(e)'
    <3>1. Asked(e)
      BY DEF Inv
    <3> QED  BY <3>1, <2>1, <2>8, <1>2 DEF Asked, Knows, Expected, Is, At
  <2> QED  BY <2>2, <2>3, <2>10, <2>11, <2>12
<1>9. ASSUME NEW g \in Files PROVE Owned(g)' /\ Managed(g)'
  <2>1. CASE g = f
    BY <2>1
  <2>2. CASE g # f
    <3>1. file'[g] = file[g] /\ shutOut'[g] = shutOut[g]
      BY <2>2, <1>1
    <3>2. Owned(g) /\ Managed(g)
      BY DEF Inv
    <3>3. file[g] # None => file[g].by \in Devices
      BY <1>1 DEF TypeOK, Stored
    <3>4. file[g] # None => (job'[file[g].by].file # g => job[file[g].by].file # g)
      BY <2>2, <3>3, <1>1 DEF Others
    <3> QED  BY <3>1, <3>2, <3>4 DEF Owned, Managed
  <2> QED  BY <2>1, <2>2
<1> QED  BY <1>6, <1>7, <1>8, <1>9, MovesBirths, MovesDrawn, MovesFresh DEF Inv

(* d changes file f to v, and who is shut out from it to w.                *)
Changes(d, s, f, v, w) ==
  /\ AtStep(d, s) /\ GoOn(d, << >>) /\ f = job[d].file
  /\ file' = [file EXCEPT ![f] = v] /\ shutOut' = [shutOut EXCEPT ![f] = w]
  /\ mailbox' = mailbox /\ row' = row /\ known' = known /\ batch' = batch
  /\ UNCHANGED <<window>> /\ UNCHANGED <<counts>>
  /\ s = "deleteFile" <=> v = None
  /\ v # None => v.by = d /\ v.owner = UserOf[d] /\ UserOf[d] \notin w /\ v.access = {}
  /\ s \in {"upload", "updateKey"} => v.sealed.under = job[d].kek
  /\ s = "revoke" => v.sealed = file[f].sealed /\ w = shutOut[f]

LEMMA FileStep ==
  ASSUME Inv, NEW d \in Devices, NEW s \in {"upload", "revoke", "updateKey", "deleteFile"},
         NEW f \in Files, NEW v \in Stored \cup {None}, NEW w \in SUBSET Users,
         Changes(d, s, f, v, w)
  PROVE  Inv'
<1>0. /\ AtStep(d, s) /\ GoOn(d, << >>) /\ f = job[d].file
      /\ file' = [file EXCEPT ![f] = v] /\ shutOut' = [shutOut EXCEPT ![f] = w]
      /\ mailbox' = mailbox /\ row' = row /\ known' = known /\ batch' = batch
      /\ UNCHANGED <<window>> /\ UNCHANGED <<counts>>
      /\ s = "deleteFile" <=> v = None
      /\ v # None => v.by = d /\ v.owner = UserOf[d] /\ UserOf[d] \notin w /\ v.access = {}
      /\ s \in {"upload", "updateKey"} => v.sealed.under = job[d].kek
      /\ s = "revoke" => v.sealed = file[f].sealed /\ w = shutOut[f]
  BY DEF Changes
<1> USE <1>0
<1>1. TypeOK /\ ~Idle(d) /\ Head(todo[d]) = s /\ Own(d) /\ Plan(d)
  BY DEF Inv, AtStep
<1>2. Tail(todo[d]) # << >>
  BY NotLast
<1>3. /\ todo' \in [Devices -> Seq(Steps)] /\ job' \in [Devices -> Jobs]
      /\ todo'[d] = Tail(todo[d]) /\ job'[d] = job[d]
      /\ \A e \in Devices : e # d => todo'[e] = todo[e] /\ job'[e] = job[e]
  BY <1>1, <1>2, GoOnTypes
<1>4. drawn' = drawn /\ mishaps' = mishaps /\ fetched' = fetched /\ shown' = shown /\ codeFor' = codeFor
  BY DEF counts, window
<1>5. s = "deleteFile" \/ Is(d, "share")
  BY StepKind
<1>6. PICK k \in {"share", "delete"} : Is(d, k) /\ (k = "delete" <=> s = "deleteFile")
  BY <1>5, StepKind, NotBoth
<1>7. k \in Kinds /\ (\A l \in Kinds : Is(d, l) => l = k)
  BY <1>6, PathKind DEF Is, Kinds
<1>8. /\ Is(d, k)' /\ (\A l \in Kinds : Is(d, l)' => l = k) /\ Follows(k, s, Head(todo'[d]))
      /\ Last(todo'[d]) = Last(todo[d]) /\ Head(todo'[d]) = todo[d][2]
  <2> DEFINE t == Tail(todo[d])
  <2>1. Path(k, t) /\ Follows(k, s, Head(t)) /\ Last(t) = Last(todo[d]) /\ (\A l \in Kinds : Path(l, t) => l = k)
        /\ Head(t) = todo[d][2]
    BY <1>1, <1>2, <1>6, <1>7, NextStep
  <2>2. todo'[d] = t
    BY <1>3
  <2> HIDE DEF t
  <2> QED  BY <2>1, <2>2 DEF Is
<1>9. Sharing(d, {"upload"}) \/ Born(d)
  BY <1>1, <1>6 DEF Sharing, At, Born, Unsent
<1>10. s = "upload" => Nothing(f)
  BY <1>1, <1>6 DEF Inv, Births, Unborn, Sharing, At
<1>11. s # "upload" => file[f] # None /\ file[f].by = d
  BY <1>1, <1>6 DEF Own, Born, Sharing, At, Unsent
<1>12. /\ file' \in [Files -> Stored \cup {None}] /\ file'[f] = v
       /\ shutOut' \in [Files -> SUBSET Users] /\ shutOut'[f] = w
       /\ \A g \in Files : g # f => file'[g] = file[g] /\ shutOut'[g] = shutOut[g]
  BY <1>1 DEF TypeOK
<1>13. \A e \in Devices, g \in Files :
         row'[e][g] # None /\ file'[g] # None => row'[e][g].sender = (file'[g].by = e)
  <2>1. SUFFICES ASSUME NEW e \in Devices, NEW g \in Files, row[e][g] # None, file'[g] # None
                 PROVE  row[e][g].sender = (file'[g].by = e)
    OBVIOUS
  <2>2. CASE g = f
    <3>1. file[f] # None /\ file[f].by = d
      BY <2>1, <2>2, <1>10, <1>11 DEF Nothing
    <3>2. row[e][f].sender = (file[f].by = e)
      BY <2>1, <2>2, <3>1, <1>1 DEF TypeOK
    <3> QED  BY <2>1, <2>2, <3>1, <3>2, <1>12
  <2>3. CASE g # f
    BY <2>1, <2>3, <1>1, <1>12 DEF TypeOK
  <2> QED  BY <2>2, <2>3
<1>14. TypeOK'
  BY <1>1, <1>3, <1>4, <1>12, <1>13 DEF TypeOK, Jobs
<1>15. ASSUME NEW e \in Devices PROVE Coming(e)' = Coming(e) /\ Coming(e)' \in Seq(Messages)
  BY <1>3, ComingOthers
<1>16. Others(d)
  BY <1>3, <1>4 DEF Others
<1>17. Moves(d)
  BY <1>4, <1>12, <1>15, <1>16 DEF Moves
<1>18. Keeps(d)
  BY <1>1, GoOnKeeps
<1>19. Plan(d)'
  BY <1>1, <1>2, GoOnPlan
<1>20. About(f)'
  <2>1. SUFFICES ASSUME NEW e \in Devices, v # None PROVE (NoKey(e, f) /\ Fits(e, f) /\ Reaches(e, f))'
    BY <1>12 DEF About, NoKey, Fits, Reaches
  <2>2. NoKey(e, f)'
    <3>1. CASE s \in {"upload", "updateKey"}
      <4>1. Sharing(d, Unsent)
        BY <3>1, <1>1, <1>6 DEF Sharing, At, Unsent
      <4>2. /\ \A g \in Devices, h \in Files : row[g][h] # None => row[g][h].kek # job[d].kek
            /\ \A g \in Devices : \A i \in DOMAIN Coming(g) : Coming(g)[i].kek # job[d].kek
        BY <4>1 DEF Inv, Fresh
      <4> QED  BY <3>1, <4>2, <1>12, <1>15 DEF NoKey
    <3>2. CASE s = "revoke"
      <4>1. NoKey(e, f)
        BY DEF Inv, ShutOutHaveNoKey, NoKey
      <4> QED  BY <3>2, <4>1, <1>11, <1>12, <1>15 DEF NoKey
    <3> QED  BY <2>1, <3>1, <3>2
  <2>3. Fits(e, f)'
    BY <2>1, <1>12 DEF Fits
  <2>4. Reaches(e, f)'
    <3>1. s = "upload" => \A i \in DOMAIN Coming(e) : Coming(e)[i].file # f
      BY <1>10 DEF Nothing
    <3>2. s # "upload" => Reaches(e, f)
      BY DEF Inv, Travels, Reaches
    <3> QED  BY <2>1, <3>1, <3>2, <1>11, <1>12, <1>15 DEF Reaches
  <2> QED  BY <2>2, <2>3, <2>4
<1>21. LatestStays(f)
  BY <1>15 DEF LatestStays
<1>22. Head(todo'[d]) \in {"bundles", "post", "updateKey", "deleteRow"}
       /\ (Head(todo'[d]) = "deleteRow" <=> s = "deleteFile")
       /\ (Head(todo'[d]) \in {"bundles", "post"} => s \in {"upload", "updateKey"})
       /\ (Head(todo'[d]) = "post" => s = "upload")
  BY <1>6, <1>8 DEF Follows
<1>23. Own(d)'
  <2>1. CASE s = "deleteFile"
    <3>1. ~Is(d, "share")' /\ Head(todo'[d]) = "deleteRow"
      BY <2>1, <1>6, <1>8, <1>22 DEF Kinds
    <3> QED  BY <2>1, <3>1, <1>3, <1>12 DEF Own, Born, Sharing, At
  <2>2. CASE s # "deleteFile"
    <3>1. ~Is(d, "delete")' /\ Is(d, "share") /\ k = "share"
      BY <2>2, <1>6, <1>8 DEF Kinds
    <3>2. row[d][f] # None => row[d][f].user = job[d].user
      BY <3>1, <1>1 DEF Own
    <3>3. v # None /\ v.by = d /\ v.access = {}
      BY <2>2
    <3> QED  BY <3>1, <3>2, <3>3, <1>3, <1>12, <1>22 DEF Own, Born, Sharing, At, Saving, Unsent
  <2> QED  BY <2>1, <2>2
<1>24. Keyable(d)'
  BY <1>22 DEF Keyable, AtStep
<1>25. Shows(d)'
  <2>1. ~(Is(d, "delete") /\ At(d, {"deleteRow", "list"}))
    BY <1>1 DEF At
  <2>2. SUFFICES ASSUME NEW g \in shown[d]
                 PROVE  \/ file'[g] # None /\ file'[g].by = d
                        \/ Is(d, "delete")' /\ At(d, {"deleteRow", "list"})' /\ job'[d].file = g
    BY <1>4 DEF Shows
  <2>3. file[g] # None /\ file[g].by = d /\ g \in Files
    BY <2>1, <1>1, ShownStay DEF TypeOK
  <2>4. CASE g = f /\ s = "deleteFile"
    BY <2>4, <1>3, <1>6, <1>8, <1>22 DEF At
  <2>5. CASE g = f /\ s # "deleteFile"
    BY <2>5, <1>12
  <2>6. CASE g # f
    BY <2>3, <2>6, <1>12
  <2> QED  BY <2>4, <2>5, <2>6
<1>26. Asked(d)'
  <2>1. SUFFICES ASSUME mishaps = 0
                 PROVE  /\ fetched[d] => codeFor[d] # None /\ Knows(d, codeFor[d])
                        /\ Is(d, "share") /\ Last(todo[d]) = "report" /\ Expected(d)
                             /\ Head(todo'[d]) = "post" => Knows(d, job[d].user)
    <3>1. (Is(d, "share")' => Is(d, "share")) /\ ~(Is(d, "show")' /\ At(d, {"code"})')
      BY <1>6, <1>8, <1>22 DEF Kinds, At
    <3> QED  BY <3>1, <1>3, <1>4, <1>8, <1>22 DEF Asked, Expected, Knows, At, Saving
  <2>2. Asked(d)
    BY DEF Inv
  <2>3. Head(todo'[d]) = "post" => At(d, {"upload"}) /\ todo[d][2] = "post"
    BY <1>1, <1>8, <1>22 DEF At
  <2> QED  BY <2>1, <2>2, <2>3 DEF Asked
<1>27. Owned(f)'
  BY <1>12 DEF Owned
<1>28. Managed(f)'
  BY <1>3, <1>12 DEF Managed
<1> QED  BY <1>4, <1>9, <1>14, <1>15, <1>17, <1>18, <1>19, <1>20, <1>21, <1>23, <1>24, <1>25, <1>26,
            <1>27, <1>28, FileInv

LEMMA UploadInv ==
  ASSUME Inv, NEW d \in Devices, Upload(d)
  PROVE  Inv'
<1>1. AtStep(d, "upload") /\ Is(d, "share")
  BY StepKind DEF Upload
<1>2. PICK f \in Files : f = job[d].file
  BY <1>1, SharingJob
<1> DEFINE v == [owner |-> UserOf[d], by |-> d, content |-> job[d].kek,
                 sealed |-> [key |-> job[d].kek, under |-> job[d].kek], access |-> {}]
<1>3. GoOn(d, << >>) /\ file' = [file EXCEPT ![f] = v]
  BY <1>2 DEF Upload
<1>4. /\ mailbox' = mailbox /\ row' = row /\ batch' = batch /\ shutOut' = shutOut /\ known' = known
      /\ UNCHANGED <<window>> /\ UNCHANGED <<counts>>
  BY DEF Upload
<1>5. job[d].kek \in Keys /\ UserOf[d] \in Users
  BY <1>1, SharingJob, UserOfAssumption DEF Full
<1>6. v \in Stored /\ v # None
  <2>1. v \in Stored
    BY <1>5 DEF Stored
  <2> QED  BY <2>1, NoneIsNone
<1>7. v.by = d /\ v.owner = UserOf[d] /\ v.access = {} /\ v.sealed.under = job[d].kek
  OBVIOUS
<1>8. shutOut[f] = {} /\ shutOut' = [shutOut EXCEPT ![f] = {}]
  <2>1. Nothing(f)
    BY <1>1, <1>2 DEF Inv, Births, Unborn, Sharing, At, AtStep
  <2>2. shutOut \in [Files -> SUBSET Users] /\ shutOut[f] = {}
    BY <2>1 DEF Inv, TypeOK, Nothing
  <2>3. shutOut = [shutOut EXCEPT ![f] = {}]
    BY <2>2
  <2> QED  BY <2>2, <2>3, <1>4
<1> HIDE DEF v
<1> DEFINE w == shutOut[f]
<1>9. w \in SUBSET Users /\ UserOf[d] \notin w /\ shutOut' = [shutOut EXCEPT ![f] = w]
  BY <1>8
<1> HIDE DEF w
<1>10. Changes(d, "upload", f, v, w)
  BY <1>1, <1>2, <1>3, <1>4, <1>6, <1>7, <1>9 DEF Changes
<1> QED  BY <1>6, <1>9, <1>10, FileStep

LEMMA RevokeInv ==
  ASSUME Inv, NEW d \in Devices, Revoke(d)
  PROVE  Inv'
<1>1. AtStep(d, "revoke") /\ Is(d, "share")
  BY StepKind DEF Revoke
<1>2. PICK f \in Files : f = job[d].file
  BY <1>1, SharingJob
<1> DEFINE v == [file[f] EXCEPT !.access = {}]
<1>3. GoOn(d, << >>) /\ file' = [file EXCEPT ![f] = v]
  BY <1>2 DEF Revoke
<1>4. /\ mailbox' = mailbox /\ row' = row /\ batch' = batch /\ shutOut' = shutOut /\ known' = known
      /\ UNCHANGED <<window>> /\ UNCHANGED <<counts>>
  BY DEF Revoke
<1>5. file[f] # None /\ file[f].by = d /\ file[f] \in Stored
  <2>1. Born(d)
    BY <1>1 DEF Born, Sharing, At, AtStep, Unsent
  <2>2. file[f] # None /\ file[f].by = d
    BY <2>1, <1>2 DEF Inv, Own
  <2> QED  BY <2>2 DEF Inv, TypeOK
<1>6. file[f].owner = UserOf[d] /\ UserOf[d] \notin shutOut[f]
  BY <1>5 DEF Inv, Owned
<1>7. v \in Stored /\ v # None
  <2>1. v \in Stored
    BY <1>5 DEF Stored
  <2> QED  BY <2>1, NoneIsNone
<1>8. v.by = d /\ v.owner = UserOf[d] /\ v.access = {} /\ v.sealed = file[f].sealed
  BY <1>5, <1>6 DEF Stored
<1> DEFINE w == shutOut[f]
<1>9. w \in SUBSET Users /\ shutOut' = [shutOut EXCEPT ![f] = w]
  BY <1>4 DEF Inv, TypeOK
<1>10. w = shutOut[f] /\ UserOf[d] \notin w
  BY <1>6
<1> HIDE DEF v, w
<1>11. Changes(d, "revoke", f, v, w)
  BY <1>1, <1>2, <1>3, <1>4, <1>7, <1>8, <1>9, <1>10 DEF Changes
<1> QED  BY <1>7, <1>9, <1>11, FileStep

LEMMA UpdateKeyInv ==
  ASSUME Inv, NEW d \in Devices, UpdateKey(d)
  PROVE  Inv'
<1>1. AtStep(d, "updateKey") /\ Is(d, "share")
  BY StepKind DEF UpdateKey
<1>2. PICK f \in Files : f = job[d].file
  BY <1>1, SharingJob
<1> DEFINE v == [file[f] EXCEPT !.sealed = Resealed(d)]
           w == Users \ {UserOf[d]}
<1>3. GoOn(d, << >>) /\ file' = [file EXCEPT ![f] = v] /\ shutOut' = [shutOut EXCEPT ![f] = w]
  BY <1>2 DEF UpdateKey
<1>4. /\ mailbox' = mailbox /\ row' = row /\ batch' = batch /\ known' = known
      /\ UNCHANGED <<window>> /\ UNCHANGED <<counts>>
  BY DEF UpdateKey
<1>5. file[f] # None /\ file[f].by = d /\ file[f] \in Stored /\ file[f].access = {}
  <2>1. Born(d) /\ Sharing(d, {"updateKey", "bundles", "post"})
    BY <1>1 DEF Born, Sharing, At, AtStep, Unsent
  <2>2. file[f] # None /\ file[f].by = d /\ file[f].access = {}
    BY <2>1, <1>2 DEF Inv, Own
  <2> QED  BY <2>2 DEF Inv, TypeOK
<1>6. file[f].owner = UserOf[d]
  BY <1>5 DEF Inv, Owned
<1>7. Resealed(d) \in [key : Keys, under : Keys] /\ Resealed(d).under = job[d].kek
  BY <1>1, SharingJob DEF Resealed, Full
<1>8. v \in Stored /\ v # None
  <2>1. v \in Stored
    BY <1>5, <1>7 DEF Stored
  <2> QED  BY <2>1, NoneIsNone
<1>9. v.by = d /\ v.owner = UserOf[d] /\ v.access = {} /\ v.sealed.under = job[d].kek
  BY <1>5, <1>6, <1>7 DEF Stored
<1>10. w \in SUBSET Users /\ UserOf[d] \notin w
  OBVIOUS
<1> HIDE DEF v, w
<1>11. Changes(d, "updateKey", f, v, w)
  BY <1>1, <1>2, <1>3, <1>4, <1>8, <1>9, <1>10 DEF Changes
<1> QED  BY <1>8, <1>10, <1>11, FileStep

LEMMA DeleteFileInv ==
  ASSUME Inv, NEW d \in Devices, DeleteFile(d)
  PROVE  Inv'
<1>1. AtStep(d, "deleteFile") /\ Is(d, "delete")
  BY StepKind DEF DeleteFile
<1>2. PICK f \in Files : f = job[d].file
  BY <1>1 DEF Inv, Plan, At, AtStep
<1>3. GoOn(d, << >>) /\ file' = [file EXCEPT ![f] = None]
  BY <1>2 DEF DeleteFile
<1>4. /\ mailbox' = mailbox /\ row' = row /\ batch' = batch /\ shutOut' = shutOut /\ known' = known
      /\ UNCHANGED <<window>> /\ UNCHANGED <<counts>>
  BY DEF DeleteFile
<1> DEFINE w == shutOut[f]
<1>5. w \in SUBSET Users /\ shutOut' = [shutOut EXCEPT ![f] = w]
  BY <1>4 DEF Inv, TypeOK
<1> HIDE DEF w
<1>6. Changes(d, "deleteFile", f, None, w)
  BY <1>1, <1>2, <1>3, <1>4, <1>5 DEF Changes
<1> QED  BY <1>5, <1>6, FileStep

-----------------------------------------------------------------------------
(* The KEK is sent.                                                        *)

LEMMA SavesPath ==
  ASSUME NEW n \in Nat
  PROVE  /\ n = 0 => Saves(n) = << >>
         /\ n > 0 => /\ Chain("share", Saves(n)) /\ Path("share", Saves(n))
                     /\ Head(Saves(n)) = "row" /\ Last(Saves(n)) = "key"
<1> DEFINE m == 2 * n
           s == Saves(n)
<1>1. m \in Nat /\ \A i \in 1 .. m : i % 2 \in {0, 1}
  OBVIOUS
<1>2. \A i \in 1 .. m : s[i] = IF i % 2 = 1 THEN "row" ELSE "key"
  BY DEF Saves
<1>3. "row" \in Steps /\ "key" \in Steps
  BY DEF Steps, Throws
<1>4. s \in [1 .. m -> Steps]
  BY <1>3 DEF Saves
<1>5. s \in Seq(Steps) /\ Len(s) = m
  BY <1>1, <1>4
<1>6. n = 0 => s = << >>
  BY <1>5, NotEmpty
<1>7. ASSUME n > 0
      PROVE  Chain("share", s) /\ Path("share", s) /\ Head(s) = "row" /\ Last(s) = "key"
  <2>1. 1 \in 1 .. m /\ m \in 1 .. m /\ 1 % 2 = 1 /\ m % 2 = 0
    BY <1>7
  <2>2. s # << >> /\ Head(s) = s[1]
    BY <1>5, <1>7, NotEmpty
  <2>3. s[1] = "row" /\ s[m] = "key"
    BY <2>1, <1>2
  <2>4. ASSUME NEW i \in 1 .. m - 1 PROVE Follows("share", s[i], s[i + 1])
    <3> DEFINE k == i + 1
    <3>1. i \in 1 .. m /\ k \in 1 .. m /\ (i % 2 = 1 <=> k % 2 # 1)
      BY <1>1
    <3>2. (s[i] = "row" /\ s[k] = "key") \/ (s[i] = "key" /\ s[k] = "row")
      BY <3>1, <1>2
    <3> QED  BY <3>2 DEF Follows
  <2> HIDE DEF s, m
  <2>5. Chain("share", s)
    BY <2>2, <2>4, <1>5 DEF Chain
  <2>6. Last(s) = "key"
    BY <2>3, <1>5 DEF Last
  <2>7. Path("share", s)
    BY <2>2, <2>4, <2>6, <1>5 DEF Path, Lasts
  <2> QED  BY <2>2, <2>3, <2>5, <2>6, <2>7
<1> QED  BY <1>6, <1>7

LEMMA SavesThen ==
  ASSUME NEW n \in Nat, n > 0, NEW r, Path("share", r), Head(r) = "report"
  PROVE  /\ Path("share", Saves(n) \o r) /\ Head(Saves(n) \o r) = "row"
         /\ Last(Saves(n) \o r) = Last(r)
<1>1. /\ Chain("share", Saves(n)) /\ Head(Saves(n)) = "row" /\ Last(Saves(n)) = "key"
  BY SavesPath
<1>2. Follows("share", Last(Saves(n)), Head(r))
  BY <1>1 DEF Follows
<1>3. Joins("share", Saves(n), r)
  BY <1>1, <1>2 DEF Joins
<1>4. Joined("share", Saves(n), r)
  BY <1>3, PathAppends
<1> QED  BY <1>1, <1>4 DEF Joined

LEMMA PostNobodyInv ==
  ASSUME Inv, NEW d \in Devices, Post(d), DevicesOf(job[d].user, d) \cap known[d] = {}
  PROVE  Inv'
<1>1. AtStep(d, "post") /\ ~Idle(d) /\ Is(d, "share")
  BY StepKind DEF Post, AtStep
<1>2. PICK f \in Files : f = job[d].file
  BY <1>1, SharingJob
<1>3. GoOn(d, << >>)
  <2>1. Cardinality({}) = 0
    BY FS_EmptySet
  <2>2. GoOn(d, Saves(0))
    BY <2>1 DEF Post
  <2> QED  BY <2>2, SavesPath
<1>4. /\ file' = file /\ row' = row /\ batch' = batch /\ shutOut' = shutOut
      /\ known' = known /\ UNCHANGED <<window>> /\ UNCHANGED <<counts>>
  BY DEF Post
<1>5. mailbox' = mailbox
  <2>1. mailbox' = [e \in Devices |-> mailbox[e]]
    BY DEF Post
  <2>2. mailbox \in [Devices -> Seq(Messages)]
    BY DEF Inv, TypeOK
  <2> QED  BY <2>1, <2>2
<1>6. TypeOK /\ Plan(d) /\ Own(d) /\ Asked(d)
  BY DEF Inv
<1>7. Side(d)
  BY <1>4, <1>6, SideSame, SameCounts
<1>8. TypeOK' /\ Quiet(d) /\ Keeps(d)
  <2>1. ~AtStep(d, "upload")
    BY <1>1 DEF AtStep
  <2> QED  BY <2>1, <1>1, <1>3, <1>4, <1>5, <1>7, GoOnQuiet, SameCounts
<1>9. /\ file[f] # None /\ file[f].by = d /\ file[f].access = {} /\ file[f].sealed.under = job[d].kek
      /\ row[d][f] # None => row[d][f].user = job[d].user
  <2>1. Born(d) /\ Sharing(d, {"updateKey", "bundles", "post"}) /\ Sharing(d, {"bundles", "post"} \cup Saving)
    BY <1>1 DEF Born, Sharing, At, AtStep, Unsent
  <2> QED  BY <2>1, <1>1, <1>2, <1>6 DEF Own
<1>10. batch[d] = << >> /\ ~Is(d, "delete") /\ ~Is(d, "read")
  BY <1>1, SharingJob, NoBatch
<1>11. \A g \in shown[d] : file[g] # None /\ file[g].by = d
  BY <1>10, ShownStay
<1>12. shown' = shown /\ fetched' = fetched /\ codeFor' = codeFor /\ mishaps' = mishaps
  BY <1>4 DEF window, counts
<1>13. mishaps = 0 /\ fetched[d] => codeFor[d] # None /\ Knows(d, codeFor[d])
  BY <1>6 DEF Asked
<1>14. Proper(d)
  <2>1. CASE Tail(todo[d]) = << >>
    <3>1. todo'[d] = << >> /\ job'[d] = NoJob
      BY <2>1, <1>1, <1>3, <1>6, GoOnTypes
    <3>2. batch'[d] = << >>
      BY <1>4, <1>10
    <3>3. \A g \in shown'[d] : file[g] # None /\ file[g].by = d
      BY <1>11, <1>12
    <3>4. mishaps' = 0 /\ fetched'[d] => codeFor'[d] # None /\ KnowsNext(d, codeFor'[d])
      BY <1>4, <1>12, <1>13 DEF Knows, KnowsNext
    <3> QED  BY <3>1, <3>2, <3>3, <3>4, <1>2, <1>8, <1>9, EndProper
  <2>2. CASE Tail(todo[d]) # << >>
    <3> DEFINE t == Tail(todo[d])
    <3>1. todo'[d] = t /\ job'[d] = job[d]
      BY <2>2, <1>1, <1>3, <1>6, GoOnTypes
    <3>2. "share" \in Kinds
      BY DEF Kinds
    <3>3. /\ Path("share", t) /\ Follows("share", Head(todo[d]), Head(t)) /\ Last(t) = Last(todo[d])
          /\ (\A l \in Kinds : Path(l, t) => l = "share")
      BY <2>2, <3>2, <1>1, NextStep
    <3>4. Plan(d)'
      BY <2>2, <1>1, <1>3, <1>4, GoOnPlan
    <3> HIDE DEF t
    <3>5. Head(t) = "report"
      BY <3>3, <1>1 DEF Follows, AtStep
    <3>6. Is(d, "share")' /\ ~Is(d, "show")' /\ ~Is(d, "delete")' /\ Head(todo'[d]) = "report"
          /\ Last(todo'[d]) = Last(todo[d])
      BY <3>1, <3>3, <3>5 DEF Is, Kinds
    <3>7. Own(d)'
      BY <3>1, <3>6, <1>2, <1>4, <1>9 DEF Own, Born, Sharing, At, Saving, Unsent
    <3>8. Keyable(d)'
      BY <3>6 DEF Keyable, AtStep
    <3>9. Shows(d)'
      BY <1>4, <1>11, <1>12 DEF Shows
    <3>10. Asked(d)'
      <4>1. SUFFICES ASSUME mishaps = 0, Last(todo[d]) = "report", Expected(d)
                     PROVE  DevicesOf(job[d].user, d) = {}
        BY <3>1, <3>6, <1>4, <1>12, <1>13 DEF Asked, Expected, Knows, At
      <4>2. Knows(d, job[d].user)
        BY <4>1, <1>1, <1>6 DEF Asked, At, AtStep
      <4> QED  BY <4>2 DEF Knows
    <3>11. ASSUME NEW g \in Files, file[g] # None, file[g].by = d PROVE Managed(g)'
      <4>1. Managed(g)
        BY DEF Inv
      <4> QED  BY <4>1, <3>1, <1>4, <1>12, <3>11 DEF Managed
    <3> QED  BY <3>4, <3>7, <3>8, <3>9, <3>10, <3>11 DEF Proper
  <2> QED  BY <2>1, <2>2
<1> QED  BY <1>8, <1>14, QuietInv

LEMMA PostInv ==
  ASSUME Inv, NEW d \in Devices, Post(d), DevicesOf(job[d].user, d) \cap known[d] # {}
  PROVE  Inv'
<1> DEFINE to == DevicesOf(job[d].user, d) \cap known[d]
           u == job[d].user
           kek == job[d].kek
<1>1. AtStep(d, "post") /\ ~Idle(d) /\ Is(d, "share") /\ TypeOK /\ Plan(d) /\ Own(d) /\ Shows(d) /\ Asked(d)
  BY StepKind DEF Post, AtStep, Inv
<1>2. PICK f \in Files : f = job[d].file
  BY <1>1, SharingJob
<1> DEFINE m == [file |-> f, kek |-> kek, user |-> UserOf[d]]
           v == [file[f] EXCEPT !.access = @ \cup {u}]
           w == shutOut[f] \ {u}
           n == Cardinality(to)
<1>3. /\ row' = row /\ batch' = batch /\ known' = known /\ UNCHANGED <<window>> /\ UNCHANGED <<counts>>
  BY DEF Post
<1>4. /\ mailbox' = [e \in Devices |-> IF e \in to THEN Append(mailbox[e], m) ELSE mailbox[e]]
      /\ file' = [file EXCEPT ![f] = v] /\ shutOut' = [shutOut EXCEPT ![f] = w]
      /\ GoOn(d, Saves(n))
  BY <1>2 DEF Post
<1>5. Full(job[d]) /\ job[d].sender /\ kek \in Keys /\ kek # None /\ u \in Users
      /\ ~Is(d, "show") /\ ~Is(d, "read") /\ ~Is(d, "delete")
  BY <1>1, SharingJob DEF Full
<1>6. /\ file[f] # None /\ file[f].by = d /\ file[f].access = {} /\ file[f].sealed.under = kek
      /\ row[d][f] # None => row[d][f].user = u
  <2>1. Born(d) /\ Sharing(d, {"updateKey", "bundles", "post"}) /\ Sharing(d, {"bundles", "post"} \cup Saving)
    BY <1>1 DEF Born, Sharing, At, AtStep, Unsent
  <2> QED  BY <2>1, <1>1, <1>2 DEF Own
<1>7. /\ v \in Stored /\ v # None /\ v.by = d /\ v.access = {u} /\ v.sealed.under = kek
      /\ v.owner = file[f].owner
  <2>1. file[f] \in Stored
    BY <1>1, <1>6 DEF TypeOK
  <2>2. /\ v \in Stored /\ v.by = d /\ v.access = {u} /\ v.sealed.under = kek
        /\ v.owner = file[f].owner
    BY <2>1, <1>5, <1>6 DEF Stored
  <2> QED  BY <2>2, NoneIsNone
<1>8. m \in Messages /\ m.file = f /\ m.kek = kek
  <2>1. UserOf[d] \in Users
    BY UserOfAssumption
  <2> QED  BY <2>1, <1>5 DEF Messages
<1>9. n \in Nat /\ n > 0
  <2>1. IsFiniteSet(to)
    BY FiniteDevices, FS_Subset DEF DevicesOf
  <2>2. n \in Nat
    BY <2>1, FS_CardinalityType
  <2>3. n # 0
    BY <2>1, FS_EmptySet
  <2> QED  BY <2>2, <2>3
<1>10. \A e \in Devices : e \in to <=> e # d /\ UserOf[e] = u /\ e \in known[d]
  BY DEF DevicesOf
<1> HIDE DEF to, u, kek, m, v, w, n
<1>11. /\ file' \in [Files -> Stored \cup {None}] /\ file'[f] = v
       /\ shutOut' \in [Files -> SUBSET Users] /\ shutOut'[f] = w /\ w \subseteq shutOut[f] /\ u \notin w
       /\ \A g \in Files : g # f => file'[g] = file[g] /\ shutOut'[g] = shutOut[g]
  BY <1>1, <1>4, <1>7 DEF TypeOK, w
<1>12. /\ mailbox' \in [Devices -> Seq(Messages)]
       /\ \A e \in Devices : e \in to => mailbox'[e] = Append(mailbox[e], m)
       /\ \A e \in Devices : e \notin to => mailbox'[e] = mailbox[e]
  BY <1>1, <1>4, <1>8 DEF TypeOK
<1> DEFINE t == Saves(n) \o Tail(todo[d])
<1>13. /\ t \in Seq(Steps) /\ t # << >> /\ Path("share", t) /\ Head(t) = "row"
       /\ Last(todo[d]) = "report" => Last(t) = "report"
       /\ Last(t) = "report" => Last(todo[d]) = "report"
  <2>1. /\ Chain("share", Saves(n)) /\ Path("share", Saves(n))
        /\ Head(Saves(n)) = "row" /\ Last(Saves(n)) = "key"
    BY <1>9, SavesPath
  <2>2. "share" \in Kinds /\ Head(todo[d]) = "post"
    BY <1>1 DEF Kinds, AtStep
  <2>3. CASE Tail(todo[d]) = << >>
    <3>1. Saves(n) \in Seq(Steps)
      BY <2>1 DEF Chain
    <3>2. t = Saves(n)
      BY <2>3, <3>1, ConcatEmpty
    <3>3. Last(todo[d]) = "post"
      BY <2>2, <2>3, <1>1, LastStep
    <3> HIDE DEF t
    <3> QED  BY <2>1, <3>2, <3>3, PathIsSeq
  <2>4. CASE Tail(todo[d]) # << >>
    <3>1. /\ Path("share", Tail(todo[d])) /\ Follows("share", Head(todo[d]), Head(Tail(todo[d])))
          /\ Last(Tail(todo[d])) = Last(todo[d])
      BY <2>2, <2>4, <1>1, NextStep
    <3>2. Head(Tail(todo[d])) = "report"
      BY <3>1, <2>2 DEF Follows
    <3>3. /\ Path("share", t) /\ Head(t) = "row" /\ Last(t) = Last(Tail(todo[d]))
      BY <3>1, <3>2, <1>9, SavesThen
    <3> HIDE DEF t
    <3> QED  BY <3>1, <3>3, PathIsSeq
  <2> QED  BY <2>3, <2>4
<1> HIDE DEF t
<1>14. /\ todo' \in [Devices -> Seq(Steps)] /\ job' \in [Devices -> Jobs]
       /\ todo'[d] = t /\ job'[d] = job[d]
       /\ \A e \in Devices : e # d => todo'[e] = todo[e] /\ job'[e] = job[e]
  <2>1. todo \in [Devices -> Seq(Steps)] /\ job \in [Devices -> Jobs]
    BY <1>1 DEF TypeOK, Jobs
  <2>2. todo' = [todo EXCEPT ![d] = t]
    BY <1>4 DEF GoOn, t
  <2>3. todo'[d] = t
    BY <2>1, <2>2
  <2>4. job' = [job EXCEPT ![d] = job[d]]
    BY <2>3, <1>4, <1>13 DEF GoOn
  <2>5. Lefts(d, t, job[d]) /\ job[d] \in Jobs
    BY <2>1, <2>2, <2>4 DEF Lefts
  <2> QED  BY <2>5, <1>1, <1>13, LeftsTypes
<1>15. drawn' = drawn /\ mishaps' = mishaps /\ fetched' = fetched /\ shown' = shown /\ codeFor' = codeFor
  BY <1>3 DEF counts, window
<1>16. \A e \in Devices, g \in Files :
         row'[e][g] # None /\ file'[g] # None => row'[e][g].sender = (file'[g].by = e)
  <2>1. SUFFICES ASSUME NEW e \in Devices, NEW g \in Files, row[e][g] # None, file'[g] # None
                 PROVE  row[e][g].sender = (file'[g].by = e)
    BY <1>3
  <2>2. file[g] # None /\ file'[g].by = file[g].by
    BY <2>1, <1>6, <1>7, <1>11
  <2> QED  BY <2>1, <2>2, <1>1 DEF TypeOK
<1>17. TypeOK'
  BY <1>1, <1>3, <1>11, <1>12, <1>14, <1>15, <1>16 DEF TypeOK, Jobs
<1>18. ASSUME NEW e \in Devices
       PROVE  /\ Coming(e) \in Seq(Messages) /\ Coming(e)' \in Seq(Messages)
              /\ e \in to => Coming(e)' = Append(Coming(e), m)
              /\ e \notin to => Coming(e)' = Coming(e)
  <2>1. /\ Taken(e) \in Seq(Messages) /\ batch[e] \in Seq(Messages) /\ mailbox[e] \in Seq(Messages)
        /\ Coming(e) \in Seq(Messages)
    BY ComingIsSeq DEF Inv
  <2>2. job'[e] = job[e]
    BY <1>14
  <2>3. Taken(e)' = Taken(e)
    BY <2>2 DEF Taken
  <2>4. Taken(e) \o batch[e] \in Seq(Messages)
    BY <2>1
  <2>5. CASE e \in to
    <3>1. Coming(e)' = (Taken(e) \o batch[e]) \o Append(mailbox[e], m)
      BY <2>3, <2>5, <1>3, <1>12 DEF Coming
    <3>2. Coming(e)' = Append(Coming(e), m)
      BY <3>1, <2>1, <2>4, <1>8, ConcatAppend DEF Coming
    <3> QED  BY <3>2, <2>1, <2>5, <1>8
  <2>6. CASE e \notin to
    <3>1. Coming(e)' = Coming(e)
      BY <2>3, <2>6, <1>3, <1>12 DEF Coming
    <3> QED  BY <3>1, <2>1, <2>6
  <2> QED  BY <2>5, <2>6
<1>19. ASSUME NEW e \in Devices, NEW i \in DOMAIN Coming(e)'
       PROVE  \/ \E k \in DOMAIN Coming(e) : Coming(e)[k] = Coming(e)'[i]
              \/ e \in to /\ Coming(e)'[i] = m
  <2>1. CASE e \in to
    <3>1. PICK s \in Seq(Messages) : s = Coming(e)
      BY <1>18
    <3>2. PICK x \in Seq(Messages) : x = Coming(e)' /\ x = Append(s, m)
      BY <2>1, <3>1, <1>18
    <3>3. i \in DOMAIN x
      BY <3>2
    <3>4. x[i] = m \/ \E k \in DOMAIN s : s[k] = x[i]
      BY <3>2, <3>3, <1>8, AppendComes
    <3> QED  BY <2>1, <3>1, <3>2, <3>4
  <2>2. CASE e \notin to
    BY <2>2, <1>18
  <2> QED  BY <2>1, <2>2
<1>20. Is(d, "share")' /\ ~Is(d, "show")' /\ ~Is(d, "read")' /\ ~Is(d, "delete")' /\ Head(todo'[d]) = "row" /\ ~Idle(d)'
  BY <1>13, <1>14, PathKind DEF Is, Idle, Kinds
<1>21. ~Sharing(d, Unsent)' /\ ~Sharing(d, {"upload"})'
  BY <1>20 DEF Sharing, At, Unsent
<1>22. Others(d)
  BY <1>3, <1>14, <1>15 DEF Others
<1>23. Moves(d)
  <2>1. ASSUME NEW e \in Devices, NEW i \in DOMAIN Coming(e)'
        PROVE  \/ \E k \in DOMAIN Coming(e) : Coming(e)[k] = Coming(e)'[i]
               \/ /\ Coming(e)'[i].file = job[d].file /\ Coming(e)'[i].kek = job[d].kek
                  /\ job[d].kek # None /\ ~Sharing(d, Unsent)'
    BY <1>2, <1>5, <1>8, <1>19, <1>21 DEF kek
  <2> QED  BY <2>1, <1>2, <1>3, <1>11, <1>15, <1>22 DEF Moves
<1>24. Keeps(d)
  BY <1>14, <1>21 DEF Keeps
<1>25. LatestStays(f)
  <2>1. SUFFICES ASSUME NEW e \in Devices, NEW g \in Files, NEW q, g # f, Latest(Coming(e), g, q)
                 PROVE  Latest(Coming(e)', g, q)
    BY DEF LatestStays
  <2>2. CASE e \in to
    BY <2>1, <2>2, <1>8, <1>18, AppendLatest
  <2>3. CASE e \notin to
    BY <2>1, <2>3, <1>18
  <2> QED  BY <2>2, <2>3
<1>26. About(f)'
  <2>1. SUFFICES ASSUME NEW e \in Devices PROVE (NoKey(e, f) /\ Fits(e, f) /\ Reaches(e, f))'
    BY DEF About
  <2>2. \A k \in DOMAIN Coming(e) : Coming(e)[k].file = f => e \in known[d]
    BY <1>6 DEF Inv, Travels
  <2>3. NoKey(e, f)'
    <3>1. SUFFICES ASSUME UserOf[e] \in w
                   PROVE  /\ row[e][f] # None => row[e][f].kek # kek
                          /\ \A i \in DOMAIN Coming(e)' : Coming(e)'[i].file = f => Coming(e)'[i].kek # kek
      BY <1>3, <1>7, <1>11 DEF NoKey
    <3>2. e \notin to /\ UserOf[e] \in shutOut[f]
      BY <3>1, <1>10, <1>11
    <3>3. Coming(e)' = Coming(e)
      BY <3>2, <1>18
    <3> QED  BY <3>2, <3>3, <1>6 DEF Inv, ShutOutHaveNoKey
  <2>4. Fits(e, f)'
    <3>1. SUFFICES ASSUME UserOf[e] = u PROVE Latest(Coming(e)', f, kek)
      BY <1>7, <1>11 DEF Fits
    <3>2. CASE e \in to
      BY <3>2, <1>8, <1>18, AppendLatest
    <3>3. CASE e \notin to
      <4>1. d \notin known[d]
        BY <1>1 DEF TypeOK
      <4>2. e \notin known[d]
        BY <3>1, <3>3, <4>1, <1>10
      <4> QED  BY <4>2, <2>2, <3>3, <1>18 DEF Latest
    <3> QED  BY <3>2, <3>3
  <2>5. Reaches(e, f)'
    <3>1. SUFFICES ASSUME NEW i \in DOMAIN Coming(e)', Coming(e)'[i].file = f PROVE e \in known[d]
      BY <1>3, <1>7, <1>11 DEF Reaches
    <3> QED  BY <3>1, <2>2, <1>10, <1>19
  <2> QED  BY <2>3, <2>4, <2>5
<1>27. Plan(d)'
  <2>1. batch'[d] = << >>
    BY <1>3, <1>5, NoBatch
  <2> QED  BY <2>1, <1>5, <1>14, <1>20, <1>21 DEF Plan, Kinds
<1>28. Own(d)'
  <2>1. job'[d].file = f /\ job'[d].kek = kek /\ job'[d].user = u
    BY <1>2, <1>14 DEF kek, u
  <2> QED  BY <2>1, <1>3, <1>6, <1>7, <1>11, <1>20 DEF Own, Born, Sharing, At, Saving, Unsent
<1>29. Keyable(d)'
  BY <1>20 DEF Keyable, AtStep
<1>30. Shows(d)'
  <2>1. \A g \in shown[d] : file[g] # None /\ file[g].by = d /\ g \in Files
    BY <1>1, <1>5, ShownStay DEF TypeOK
  <2> QED  BY <2>1, <1>7, <1>11, <1>15 DEF Shows
<1>31. Asked(d)'
  <2>1. job'[d].file = f /\ job'[d].user = u /\ u \in file'[f].access
    BY <1>2, <1>7, <1>11, <1>14 DEF u
  <2>2. mishaps = 0 /\ fetched[d] => codeFor[d] # None /\ Knows(d, codeFor[d])
    BY <1>1 DEF Asked
  <2> QED  BY <2>1, <2>2, <1>3, <1>15, <1>20 DEF Asked, Knows, At
<1>32. Owned(f)'
  BY <1>6, <1>7, <1>11 DEF Inv, Owned
<1>33. Managed(f)'
  BY <1>2, <1>7, <1>11, <1>14 DEF Managed
<1>34. Born(d) /\ \A e \in Devices : Coming(e)' \in Seq(Messages)
  BY <1>1, <1>18 DEF Born, Sharing, At, AtStep, Unsent
<1> QED  BY <1>2, <1>3, <1>15, <1>17, <1>23, <1>24, <1>25, <1>26, <1>27, <1>28, <1>29, <1>30, <1>31,
            <1>32, <1>33, <1>34, FileInv

-----------------------------------------------------------------------------
(* The invariant is inductive.                                             *)

LEMMA InitInv ==
  ASSUME Init
  PROVE  Inv
<1>1. /\ \A f \in Files : file[f] = None /\ shutOut[f] = {}
      /\ \A d \in Devices, f \in Files : row[d][f] = None
      /\ drawn = 0 /\ mishaps = 0
  BY DEF Init
<1>2. ASSUME NEW d \in Devices
      PROVE  /\ Idle(d) /\ job[d] = NoJob /\ batch[d] = << >> /\ mailbox[d] = << >>
             /\ known[d] = {} /\ fetched[d] = FALSE /\ shown[d] = {} /\ codeFor[d] = None
  BY DEF Init, Idle
<1>3. ASSUME NEW d \in Devices
      PROVE  /\ job[d].file = None /\ job[d].kek = None /\ ~job[d].sender /\ ~job[d].manage
             /\ \A k : ~Is(d, k)
  <2>1. job[d].file = None /\ job[d].kek = None /\ ~job[d].sender /\ ~job[d].manage
    BY <1>2, NoJobIsJob
  <2>2. \A k : ~Is(d, k)
    BY <1>2, NotOnPath DEF Is, Idle
  <2> QED  BY <2>1, <2>2
<1>4. ASSUME NEW d \in Devices PROVE DOMAIN Coming(d) = {}
  <2>1. Taken(d) = << >>
    BY <1>3 DEF Taken
  <2>2. Coming(d) = (<< >> \o << >>) \o << >>
    BY <2>1, <1>2 DEF Coming
  <2>3. << >> \in Seq(Messages)
    OBVIOUS
  <2>4. << >> \o << >> = << >>
    BY <2>3, ConcatEmpty
  <2>5. Coming(d) = << >>
    BY <2>2, <2>4
  <2> QED  BY <2>5
<1>5. TypeOK
  <2>1. NoJob \in Jobs
    BY DEF NoJob, Jobs
  <2>2. << >> \in Seq(Messages) /\ << >> \in Seq(Steps)
    OBVIOUS
  <2>3. 0 \in 0 .. MaxDraws /\ 0 \in 0 .. MaxMishaps
    BY Bounds
  <2>4. /\ file \in [Files -> Stored \cup {None}] /\ shutOut \in [Files -> SUBSET Users]
        /\ row \in [Devices -> [Files -> Rows \cup {None}]]
        /\ known \in [Devices -> SUBSET Devices] /\ fetched \in [Devices -> BOOLEAN]
        /\ shown \in [Devices -> SUBSET Files] /\ codeFor \in [Devices -> Users \cup {None}]
    BY DEF Init
  <2>5. /\ mailbox \in [Devices -> Seq(Messages)] /\ batch \in [Devices -> Seq(Messages)]
        /\ todo \in [Devices -> Seq(Steps)]
    BY <2>2 DEF Init
  <2>6. job \in [Devices -> Jobs]
    BY <2>1 DEF Init
  <2> QED  BY <2>3, <2>4, <2>5, <2>6, <1>1, <1>2 DEF TypeOK, Jobs
<1>6. Births
  <2> SUFFICES ASSUME NEW f \in Files PROVE Nothing(f)
    BY DEF Births
  <2>1. \A d \in Devices : job[d].file # f
    <3>1. f # None
      BY NoneIsNone
    <3> QED  BY <3>1, <1>3
  <2> QED  BY <2>1, <1>1, <1>4 DEF Nothing
<1>7. Drawn
  BY <1>1, <1>3, <1>4 DEF Drawn
<1>8. ShutOutHaveNoKey /\ NewestMessageFits
  BY <1>1 DEF ShutOutHaveNoKey, NewestMessageFits
<1>9. ASSUME NEW d \in Devices
      PROVE  Plan(d) /\ Fresh(d) /\ Own(d) /\ Keyable(d) /\ Shows(d) /\ Travels(d) /\ Asked(d)
  <2>1. Plan(d)
    BY <1>2, <1>3 DEF Plan, Sharing
  <2>2. Fresh(d) /\ Own(d) /\ Keyable(d)
    BY <1>2, <1>3 DEF Fresh, Own, Keyable, Sharing, Born, AtStep
  <2>3. Shows(d) /\ Travels(d) /\ Asked(d)
    BY <1>2, <1>3, <1>4 DEF Shows, Travels, Asked
  <2> QED  BY <2>1, <2>2, <2>3
<1>10. ASSUME NEW f \in Files PROVE Owned(f) /\ Managed(f)
  BY <1>1 DEF Owned, Managed
<1> QED  BY <1>5, <1>6, <1>7, <1>8, <1>9, <1>10 DEF Inv

LEMMA StutterInv ==
  ASSUME Inv, UNCHANGED vars
  PROVE  Inv'
<1>1. /\ file' = file /\ mailbox' = mailbox /\ row' = row /\ known' = known /\ fetched' = fetched
      /\ shown' = shown /\ todo' = todo /\ job' = job /\ batch' = batch /\ codeFor' = codeFor
      /\ shutOut' = shutOut /\ drawn' = drawn /\ mishaps' = mishaps
  BY DEF vars, server, window, counts
<1>2. \A d : /\ Coming(d)' = Coming(d) /\ Idle(d)' = Idle(d)
             /\ \A k : Is(d, k)' = Is(d, k)
             /\ \A s : At(d, s)' = At(d, s)
             /\ \A s : Sharing(d, s)' = Sharing(d, s)
             /\ \A s : AtStep(d, s)' = AtStep(d, s)
             /\ Born(d)' = Born(d) /\ Expected(d)' = Expected(d)
             /\ \A u : Knows(d, u)' = Knows(d, u)
  BY <1>1 DEF Coming, Taken, Idle, Is, At, Sharing, AtStep, Born, Expected, Knows
<1>3. TypeOK'
  BY <1>1 DEF Inv, TypeOK
<1>4. Births'
  BY <1>1, <1>2 DEF Inv, Births, Unborn, Nothing
<1>5. Drawn'
  BY <1>1, <1>2 DEF Inv, Drawn
<1>6. ShutOutHaveNoKey' /\ NewestMessageFits'
  BY <1>1, <1>2 DEF Inv, ShutOutHaveNoKey, NewestMessageFits
<1>7. ASSUME NEW d \in Devices
      PROVE  (Plan(d) /\ Fresh(d) /\ Own(d) /\ Keyable(d) /\ Shows(d) /\ Travels(d) /\ Asked(d))'
  <2>1. Plan(d)' /\ Fresh(d)'
    BY <1>1, <1>2 DEF Inv, Plan, Fresh
  <2>2. Own(d)' /\ Keyable(d)' /\ Shows(d)'
    BY <1>1, <1>2 DEF Inv, Own, Keyable, Shows
  <2>3. Travels(d)' /\ Asked(d)'
    BY <1>1, <1>2 DEF Inv, Travels, Asked
  <2> QED  BY <2>1, <2>2, <2>3
<1>8. ASSUME NEW f \in Files PROVE Owned(f)' /\ Managed(f)'
  BY <1>1 DEF Inv, Owned, Managed
<1> QED  BY <1>3, <1>4, <1>5, <1>6, <1>7, <1>8 DEF Inv

LEMMA NextInv ==
  ASSUME Inv, [Next]_vars
  PROVE  Inv'
<1>1. CASE UNCHANGED vars
  BY <1>1, StutterInv
<1>2. ASSUME NEW d \in Devices, NEW u \in Typed,
             StartSend(d, u) \/ StartShowCode(d, u) \/ StartShowCodeOnDashboard(d, u)
      PROVE  Inv'
  BY <1>2, StartSendInv, StartShowInv
<1>3. ASSUME NEW d \in Devices, NEW f \in Files, StartManage(d, f) \/ StartDelete(d, f)
      PROVE  Inv'
  BY <1>3, StartManageInv, StartDeleteInv
<1>4. ASSUME NEW d \in Devices, StartRefresh(d) \/ StartList(d) PROVE Inv'
  BY <1>4, StartRefreshInv, StartListInv
<1>5. ASSUME NEW d \in Devices, Step(d) PROVE Inv'
  <2>1. CASE Upload(d) \/ Bundles(d) \/ NoBundles(d)
    BY <2>1, UploadInv, BundlesInv, NoBundlesInv
  <2>2. CASE Post(d)
    BY <2>2, PostInv, PostNobodyInv
  <2>3. CASE Report(d) \/ ShowCode(d) \/ ShowCodeOnDashboard(d)
    BY <2>3, ReportInv, ShowCodeInv, ShowCodeOnDashboardInv
  <2>4. CASE SaveRow(d) \/ SaveKey(d)
    BY <2>4, SaveRowInv, SaveKeyInv
  <2>5. CASE Revoke(d) \/ UpdateKey(d)
    BY <2>5, RevokeInv, UpdateKeyInv
  <2>6. CASE DeleteFile(d) \/ DeleteRow(d) \/ List(d)
    BY <2>6, DeleteFileInv, DeleteRowInv, ListInv
  <2>7. CASE Handshakes(d) \/ FetchMessages(d) \/ NoMoreMessages(d)
    BY <2>7, HandshakesInv, FetchMessagesInv, NoMoreMessagesInv
  <2>8. CASE OpenMessage(d) \/ CannotOpen(d)
    BY <2>8, OpenMessageInv, CannotOpenInv
  <2>9. CASE AnswerLost(d) \/ Fails(d)
    BY <2>9, AnswerLostInv, FailsInv
  <2> QED  BY <1>5, <2>1, <2>2, <2>3, <2>4, <2>5, <2>6, <2>7, <2>8, <2>9 DEF Step
<1>6. ASSUME NEW d \in Devices, Crash(d) PROVE Inv'
  BY <1>6, FailsInv
<1> QED  BY <1>1, <1>2, <1>3, <1>4, <1>5, <1>6 DEF Next

-----------------------------------------------------------------------------
(* The inductive invariant of sending, managing, reading and deleting.     *)
THEOREM Inductive == Spec => []Inv
<1>1. Inv /\ [Next]_vars => Inv'
  BY NextInv
<1> QED  BY InitInv, <1>1, PTL DEF Spec

(* The type invariant, for any users, devices, files and failures.         *)
THEOREM TypesAlways == Spec => []TypeOK
<1>1. Inv => TypeOK
  BY DEF Inv
<1> QED  BY <1>1, Inductive, PTL

(* Whoever has not been sent the KEK since it was replaced has it neither  *)
(* in a row nor on its way, whatever step of refresh_access fails.         *)
THEOREM ShutOutStayOut == Spec => []ShutOutHaveNoKey
<1>1. Inv => ShutOutHaveNoKey
  BY DEF Inv
<1> QED  BY <1>1, Inductive, PTL

(* The last message on its way about a file someone has access to brings   *)
(* the KEK under which the server keeps the file.                          *)
THEOREM NewestFits == Spec => []NewestMessageFits
<1>1. Inv => NewestMessageFits
  BY DEF Inv
<1> QED  BY <1>1, Inductive, PTL

(* Where nothing failed, who has access is listed in the dialog, and the   *)
(* sent window lists the file until its keys are replaced.                 *)
THEOREM SenderManages == Spec => []ManageableBySender
<1>1. Inv => ManageableBySender
  <2> SUFFICES ASSUME Inv, mishaps = 0, NEW f \in Files, file[f] # None,
                      job[file[f].by].file # f, NEW u \in file[f].access \ {file[f].owner}
               PROVE  /\ u \in Recipients(file[f].by, f)
                      /\ file[f].sealed.key = file[f].content => f \in Sent(file[f].by)
    BY DEF ManageableBySender
  <2>1. PICK d \in Devices : d = file[f].by
    BY DEF Inv, TypeOK, Stored
  <2>2. u \in Users /\ file[f].owner = UserOf[d]
    BY <2>1 DEF Inv, TypeOK, Stored, Owned
  <2>3. Managed(f)
    BY DEF Inv
  <2>4. /\ row[d][f] # None /\ row[d][f].keyed /\ row[d][f].kek = file[f].sealed.under
        /\ file[f].access \ {file[f].owner} \subseteq {row[d][f].user}
    BY <2>1, <2>3 DEF Managed
  <2>5. row[d][f].sender /\ row[d][f].user = u
    BY <2>1, <2>4 DEF Inv, TypeOK
  <2>6. u \in Recipients(d, f)
    BY <2>2, <2>4, <2>5 DEF Recipients
  <2>7. file[f].sealed.key = file[f].content => Opens(d, f)
    BY <2>4 DEF Opens, Kek
  <2> QED  BY <2>1, <2>6, <2>7 DEF Sent
<1> QED  BY <1>1, Inductive, PTL

LEMMA MishapsStay ==
  ASSUME Inv, [Next]_vars, mishaps' = 0
  PROVE  mishaps = 0
<1>1. mishaps \in Nat
  BY DEF Inv, TypeOK
<1>2. CASE UNCHANGED vars
  BY <1>2 DEF vars, counts
<1>3. ASSUME NEW e \in Devices, Step(e)
      PROVE  mishaps' = mishaps \/ mishaps' = mishaps + 1
  BY <1>3 DEF Step, Upload, Bundles, NoBundles, Post, Report, ShowCode, ShowCodeOnDashboard,
              SaveRow, SaveKey, DeleteRow, Revoke, UpdateKey, DeleteFile, List, Handshakes,
              FetchMessages, NoMoreMessages, OpenMessage, CannotOpen, AnswerLost, Fails, Mishap,
              counts
<1>4. ASSUME NEW e \in Devices, NEW u \in Typed,
             StartSend(e, u) \/ StartShowCode(e, u) \/ StartShowCodeOnDashboard(e, u)
      PROVE  mishaps' = mishaps
  BY <1>4 DEF StartSend, StartShowCode, StartShowCodeOnDashboard, counts
<1>5. ASSUME NEW e \in Devices, NEW f \in Files, StartManage(e, f) \/ StartDelete(e, f)
      PROVE  mishaps' = mishaps
  BY <1>5 DEF StartManage, StartDelete, counts
<1>6. ASSUME NEW e \in Devices, StartRefresh(e) \/ StartList(e) \/ Crash(e)
      PROVE  mishaps' = mishaps \/ mishaps' = mishaps + 1
  BY <1>6 DEF StartRefresh, StartList, Crash, Mishap, counts
<1>7. mishaps' = mishaps \/ mishaps' = mishaps + 1
  BY <1>2, <1>3, <1>4, <1>5, <1>6 DEF Next
<1> QED  BY <1>1, <1>7

(* If the send window reports success and nothing failed, the recipient    *)
(* has access, unless the code of someone else was shown before.           *)
THEOREM ReportsAreTrue == Spec => ReportIsTrue
<1>1. ASSUME Inv, [Next]_vars, NEW d \in Devices, AtStep(d, "report"), mishaps' = 0,
             codeFor[d] \in {None, job[d].user}, DevicesOf(job[d].user, d) # {}
      PROVE  job[d].user \in file[job[d].file].access
  <2>1. mishaps = 0
    BY <1>1, MishapsStay
  <2>2. Is(d, "share") /\ Head(todo[d]) = "report" /\ ~Idle(d)
    BY <1>1, StepKind DEF AtStep
  <2>3. Tail(todo[d]) = << >>
    <3>1. SUFFICES ASSUME Tail(todo[d]) # << >> PROVE FALSE
      OBVIOUS
    <3>2. Follows("share", Head(todo[d]), Head(Tail(todo[d])))
      BY <1>1, <3>1, <2>2, NextStep DEF Kinds
    <3> QED  BY <3>2, <2>2 DEF Follows
  <2>4. Last(todo[d]) = "report"
    BY <1>1, <2>2, <2>3, LastStep DEF Kinds
  <2>5. At(d, Saving) /\ Expected(d)
    BY <1>1, <2>2 DEF At, Saving, Expected
  <2> QED  BY <1>1, <2>1, <2>2, <2>4, <2>5 DEF Inv, Asked
<1>2. Inv /\ [Next]_vars =>
        [ \A d \in Devices :
            LET j == job[d]
            IN  AtStep(d, "report") /\ Idle(d)' /\ mishaps' = 0
                /\ codeFor[d] \in {None, j.user} /\ DevicesOf(j.user, d) # {}
                  => j.user \in file[j.file].access ]_vars
  BY <1>1
<1> QED  BY <1>2, Inductive, PTL DEF Spec, ReportIsTrue

=============================================================================
