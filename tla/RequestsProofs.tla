---------------------------- MODULE RequestsProofs ----------------------------
(***************************************************************************)
(* Requests implements Call, for any set of calls.                         *)
(*                                                                         *)
(* What a caller concludes from a text has to be true of the server: the   *)
(* invariant says what the texts tell.  Part of an answer can only come    *)
(* from a server that has decided, and a text that got through             *)
(* parse_json_response only from one that has accepted.                    *)
(***************************************************************************)
EXTENDS Requests, TLAPS

Answered(c) ==
  call[c].got \in {"half a line", "half an answer", "an answer"}
    => server[c] \in {"accepted", "refused"}

Accepted(c) == call[c].step \in {"use", "returned"} => server[c] = "accepted"

NotMade(c) == At(c, "unmade") => call[c].to = None

Unasked(c) ==
  call[c].step \in {"unmade", "sign", "connect", "write"} => server[c] = "unasked"

WasRead(c) == At(c, "returned") /\ call[c].to \in Reading => call[c].got = "an answer"

Told(c) == Answered(c) /\ Accepted(c) /\ NotMade(c) /\ Unasked(c) /\ WasRead(c)

OneCall == \A c, d \in Calls : UnderWay(c) /\ UnderWay(d) /\ call[c].by = call[d].by => c = d

Types ==
  /\ call \in [Calls -> CallRecords]
  /\ server \in [Calls -> {"unasked", "asked", "accepted", "refused"}]
  /\ token \in BOOLEAN
  /\ mishaps \in 0 .. MaxMishaps

Inv == Types /\ OneCall /\ \A c \in Calls : Told(c)

LEMMA InvTypeOK == Inv => TypeOK
BY DEF Inv, Types, OneCall, Told, Unasked, WasRead, TypeOK

-----------------------------------------------------------------------------
LEMMA InitInv == Init => Inv
<1> SUFFICES ASSUME Init PROVE Inv
  OBVIOUS
<1>1. Types
  <2>1. Unmade \in CallRecords
    BY DEF Unmade, CallRecords, Ended
  <2>2. token \in BOOLEAN
    BY Zenon DEF Init
  <2>3. mishaps \in 0 .. MaxMishaps
    BY Bounds DEF Init
  <2> QED  BY <2>1, <2>2, <2>3 DEF Types, Init
<1>2. ASSUME NEW c \in Calls
      PROVE  /\ call[c].step = "unmade" /\ call[c].to = None /\ call[c].got = None
             /\ server[c] = "unasked"
  BY DEF Init, Unmade
<1>3. OneCall
  BY <1>2 DEF OneCall, UnderWay, Ended
<1>4. ASSUME NEW c \in Calls PROVE Told(c)
  BY <1>2, NoneAssumption
     DEF Told, Answered, Accepted, NotMade, Unasked, WasRead, At, Texts
<1> QED  BY <1>1, <1>3, <1>4 DEF Inv

-----------------------------------------------------------------------------
(* What a move leaves of the records.                                      *)

Steps == Ended \cup {"sign", "connect", "write", "read", "parse", "use"}

LEMMA GoToFields ==
  ASSUME Types, NEW c \in Calls, NEW s \in Steps, GoTo(c, s)
  PROVE  /\ call' \in [Calls -> CallRecords]
         /\ \A d \in Calls :
               /\ call'[d].by = call[d].by /\ call'[d].to = call[d].to
               /\ call'[d].got = call[d].got
               /\ call'[d].step = IF d = c THEN s ELSE call[d].step
<1>1. ASSUME NEW d \in Calls PROVE call[d] \in CallRecords
  BY DEF Types
<1>2. ASSUME NEW d \in Calls
      PROVE call'[d] = IF d = c THEN [call[d] EXCEPT !.step = s] ELSE call[d]
  BY DEF Types, GoTo
<1>3. ASSUME NEW d \in Calls
      PROVE  /\ call'[d] \in CallRecords
             /\ call'[d].by = call[d].by /\ call'[d].to = call[d].to
             /\ call'[d].got = call[d].got
             /\ call'[d].step = IF d = c THEN s ELSE call[d].step
  BY <1>1, <1>2 DEF CallRecords, Steps
<1>4. call' = [d \in Calls |-> call'[d]]
  BY DEF Types, GoTo
<1> QED  BY <1>3, <1>4

LEMMA ParseWhatFields ==
  ASSUME Types, NEW c \in Calls, NEW got \in Texts, ParseWhat(c, got)
  PROVE  /\ call' \in [Calls -> CallRecords]
         /\ \A d \in Calls :
               /\ call'[d].by = call[d].by /\ call'[d].to = call[d].to
               /\ call'[d].got = IF d = c THEN got ELSE call[d].got
               /\ call'[d].step = IF d = c THEN "parse" ELSE call[d].step
<1>1. ASSUME NEW d \in Calls PROVE call[d] \in CallRecords
  BY DEF Types
<1>2. ASSUME NEW d \in Calls
      PROVE call'[d] = IF d = c THEN [call[d] EXCEPT !.step = "parse", !.got = got]
                       ELSE call[d]
  BY DEF Types, ParseWhat
<1>3. ASSUME NEW d \in Calls
      PROVE  /\ call'[d] \in CallRecords
             /\ call'[d].by = call[d].by /\ call'[d].to = call[d].to
             /\ call'[d].got = IF d = c THEN got ELSE call[d].got
             /\ call'[d].step = IF d = c THEN "parse" ELSE call[d].step
  BY <1>1, <1>2 DEF CallRecords
<1>4. call' = [d \in Calls |-> call'[d]]
  BY DEF Types, ParseWhat
<1> QED  BY <1>3, <1>4

LEMMA EndFields ==
  ASSUME Types, ProcessEnds
  PROVE  /\ call' \in [Calls -> CallRecords]
         /\ \A d \in Calls :
               /\ call'[d].by = call[d].by /\ call'[d].to = call[d].to
               /\ call'[d].got = call[d].got
               /\ call'[d].step = IF UnderWay(d) THEN "failed" ELSE call[d].step
<1>1. ASSUME NEW d \in Calls PROVE call[d] \in CallRecords
  BY DEF Types
<1>2. ASSUME NEW d \in Calls
      PROVE call'[d] = IF UnderWay(d) THEN [call[d] EXCEPT !.step = "failed"] ELSE call[d]
  BY DEF ProcessEnds
<1>3. ASSUME NEW d \in Calls
      PROVE  /\ call'[d] \in CallRecords
             /\ call'[d].by = call[d].by /\ call'[d].to = call[d].to
             /\ call'[d].got = call[d].got
             /\ call'[d].step = IF UnderWay(d) THEN "failed" ELSE call[d].step
  BY <1>1, <1>2 DEF CallRecords, Ended
<1>4. call' = [d \in Calls |-> call'[d]]
  BY DEF ProcessEnds
<1> QED  BY <1>3, <1>4

-----------------------------------------------------------------------------
(* A handler only goes on with calls that are under way.                   *)
LEMMA MoveKeepsInv ==
  ASSUME Inv, call' \in [Calls -> CallRecords],
         server' = server, token' \in BOOLEAN, mishaps' \in 0 .. MaxMishaps,
         \A d \in Calls : /\ call'[d].by = call[d].by
                          /\ call'[d].step = call[d].step \/ UnderWay(d),
         \A d \in Calls : Told(d)'
  PROVE  Inv'
<1>1. Types'
  BY DEF Inv, Types
<1>2. ASSUME NEW d \in Calls, UnderWay(d)' PROVE UnderWay(d)
  BY <1>2 DEF UnderWay
<1>3. OneCall'
  BY <1>2 DEF Inv, OneCall
<1> QED  BY <1>1, <1>3 DEF Inv

LEMMA EndKeepsInv ==
  ASSUME Inv, ProcessEnds, server' = server, mishaps' \in 0 .. MaxMishaps
  PROVE  Inv'
<1>1. Types
  BY DEF Inv
<1>2. ASSUME NEW d \in Calls PROVE Told(d)'
  <2>1. /\ (call[d].step)' = IF UnderWay(d) THEN "failed" ELSE call[d].step
        /\ (call[d].got)' = call[d].got /\ (call[d].to)' = call[d].to
        /\ server'[d] = server[d]
    BY <1>1, EndFields
  <2>2. Told(d)
    BY DEF Inv
  <2>3. CASE UnderWay(d)
    BY <2>1, <2>2, <2>3 DEF Told, Answered, Accepted, NotMade, Unasked, WasRead, At
  <2>4. CASE ~UnderWay(d)
    BY <2>1, <2>2, <2>4 DEF Told, Answered, Accepted, NotMade, Unasked, WasRead, At
  <2> QED  BY <2>3, <2>4
<1>3. token' \in BOOLEAN
  BY Zenon DEF ProcessEnds
<1> QED  BY <1>1, <1>2, <1>3, EndFields, MoveKeepsInv

LEMMA StepKeepsInv ==
  ASSUME Inv, NEW c \in Calls, UnderWay(c), NEW s, GoTo(c, s),
         s \in {"connect", "write", "use", "returned", "empty", "failed"},
         s \in {"connect", "write"} => server[c] = "unasked",
         s \in {"use", "returned"} => server[c] = "accepted",
         s = "returned" /\ call[c].to \in Reading => call[c].got = "an answer",
         server' = server, token' \in BOOLEAN, mishaps' \in 0 .. MaxMishaps
  PROVE  Inv'
<1>1. Types /\ s \in Steps
  BY DEF Inv, Steps, Ended
<1>2. ASSUME NEW d \in Calls PROVE Told(d)'
  <2>1. CASE d = c
    <3>1. /\ call'[c].step = s /\ call'[c].got = call[c].got /\ call'[c].to = call[c].to
          /\ server'[c] = server[c]
      BY <1>1, GoToFields
    <3>2. Answered(c)
      BY DEF Inv, Told
    <3>3. Answered(c)' /\ Accepted(c)' /\ NotMade(c)' /\ Unasked(c)'
      BY <3>1, <3>2 DEF Answered, Accepted, NotMade, Unasked, At
    <3>4. WasRead(c)'
      BY <3>1 DEF WasRead, At
    <3> QED  BY <2>1, <3>3, <3>4 DEF Told
  <2>2. CASE d # c
    <3>1. /\ call'[d].step = call[d].step /\ call'[d].got = call[d].got
          /\ call'[d].to = call[d].to /\ server'[d] = server[d]
      BY <1>1, <2>2, GoToFields
    <3>2. Told(d)
      BY DEF Inv
    <3> QED  BY <3>1, <3>2 DEF Told, Answered, Accepted, NotMade, Unasked, WasRead, At
  <2> QED  BY <2>1, <2>2
<1> QED  BY <1>1, <1>2, GoToFields, MoveKeepsInv

LEMMA TextKeepsInv ==
  ASSUME Inv, NEW c \in Calls, UnderWay(c), NEW got \in Texts, ParseWhat(c, got),
         got \in {"half a line", "half an answer", "an answer"}
           => server[c] \in {"accepted", "refused"},
         server' = server, token' = token, mishaps' \in 0 .. MaxMishaps
  PROVE  Inv'
<1>1. Types /\ token' \in BOOLEAN
  BY DEF Inv, Types
<1>2. ASSUME NEW d \in Calls PROVE Told(d)'
  <2>1. CASE d = c
    <3>1. /\ (call[c].step)' = "parse" /\ (call[c].got)' = got
          /\ server'[c] = server[c]
      BY <1>1, ParseWhatFields
    <3>2. Answered(c)' /\ Accepted(c)' /\ NotMade(c)' /\ Unasked(c)' /\ WasRead(c)'
      BY <3>1 DEF Answered, Accepted, NotMade, Unasked, WasRead, At
    <3> QED  BY <2>1, <3>2 DEF Told
  <2>2. CASE d # c
    <3>1. /\ (call[d].step)' = call[d].step /\ (call[d].got)' = call[d].got
          /\ (call[d].to)' = call[d].to /\ server'[d] = server[d]
      BY <1>1, <2>2, ParseWhatFields
    <3>2. Told(d)
      BY DEF Inv
    <3> QED  BY <3>1, <3>2 DEF Told, Answered, Accepted, NotMade, Unasked, WasRead, At
  <2> QED  BY <2>1, <2>2
<1> QED  BY <1>1, <1>2, ParseWhatFields, MoveKeepsInv

LEMMA ThrowKeepsInv ==
  ASSUME Inv, NEW c \in Calls, UnderWay(c), Throws(c),
         server' = server, mishaps' \in 0 .. MaxMishaps
  PROVE  Inv'
<1>1. token \in BOOLEAN
  BY DEF Inv, Types
<1>2. CASE GoTo(c, "empty") /\ UNCHANGED token
  BY <1>1, <1>2, StepKeepsInv
<1>3. CASE GoTo(c, "failed") /\ UNCHANGED token
  BY <1>1, <1>3, StepKeepsInv
<1>4. CASE ProcessEnds
  BY <1>4, EndKeepsInv
<1> QED  BY <1>2, <1>3, <1>4, Zenon DEF Throws

LEMMA MishapCounts ==
  ASSUME Types, Mishap \/ mishaps' = mishaps
  PROVE  mishaps' \in 0 .. MaxMishaps
BY Bounds DEF Types, Mishap

-----------------------------------------------------------------------------
LEMMA MakeKeepsInv ==
  ASSUME Inv, NEW t \in Threads, NEW e \in Endpoints, NEW c \in Calls, Make(t, e, c)
  PROVE  Inv'
<1> DEFINE made == [by |-> t, to |-> e, step |-> IF e \in Authenticated THEN "sign" ELSE "connect",
                    got |-> None]
<1>1. call \in [Calls -> CallRecords]
  BY DEF Inv, Types
<1>2. made \in CallRecords
  BY DEF CallRecords
<1>3. call' = [call EXCEPT ![c] = made]
  BY DEF Make
<1>4. /\ made.by = t /\ made.to = e /\ made.got = None
      /\ made.step \in {"sign", "connect"}
  OBVIOUS
<1>5. server[c] = "unasked"
  BY DEF Inv, Told, Unasked, Make, At
<1> HIDE DEF made
<1>6. call' \in [Calls -> CallRecords]
  BY <1>1, <1>2, <1>3
<1>7. ASSUME NEW d \in Calls PROVE call'[d] = IF d = c THEN made ELSE call[d]
  BY <1>1, <1>3
<1>8. Types'
  BY <1>6 DEF Inv, Types, Make
<1>9. ASSUME NEW d \in Calls PROVE Told(d)'
  <2>1. Told(d) /\ server'[d] = server[d]
    BY DEF Inv, Make
  <2>2. CASE d = c
    BY <2>1, <2>2, <1>4, <1>5, <1>7, NoneAssumption
       DEF Told, Answered, Accepted, NotMade, Unasked, WasRead, At, Texts
  <2>3. CASE d # c
    <3>1. call'[d] = call[d]
      BY <2>3, <1>7
    <3> QED  BY <2>1, <3>1 DEF Told, Answered, Accepted, NotMade, Unasked, WasRead, At
  <2> QED  BY <2>2, <2>3
<1>10. ASSUME NEW d \in Calls, NEW x \in Calls, UnderWay(d)', UnderWay(x)',
              (call[d].by)' = (call[x].by)'
       PROVE d = x
  <2>1. \A y \in Calls : UnderWay(y) => call[y].by # t
    BY DEF Make
  <2>2. CASE d # c /\ x # c
    BY <1>7, <1>10, <2>2 DEF Inv, OneCall, UnderWay
  <2>3. CASE d = c /\ x # c
    BY <1>4, <1>7, <1>10, <2>1, <2>3 DEF UnderWay
  <2>4. CASE d # c /\ x = c
    BY <1>4, <1>7, <1>10, <2>1, <2>4 DEF UnderWay
  <2> QED  BY <2>2, <2>3, <2>4
<1>11. OneCall'
  BY <1>10 DEF OneCall
<1> QED  BY <1>8, <1>9, <1>11 DEF Inv

LEMMA AnswerKeepsInv ==
  ASSUME Inv, NEW c \in Calls, Answer(c)
  PROVE  Inv'
<1>1. PICK r \in {"accepted", "refused"} : server' = [server EXCEPT ![c] = r]
  BY DEF Answer
<1>2. server \in [Calls -> {"unasked", "asked", "accepted", "refused"}] /\ server[c] = "asked"
  BY DEF Inv, Types, Answer
<1>3. Types' /\ OneCall'
  <2>1. server' \in [Calls -> {"unasked", "asked", "accepted", "refused"}]
    BY <1>1, <1>2
  <2> QED  BY <2>1 DEF Inv, Types, OneCall, UnderWay, Answer
<1>4. ASSUME NEW d \in Calls PROVE Told(d)'
  <2>1. Told(d) /\ call' = call
    BY DEF Inv, Answer
  <2>2. CASE d = c
    <3>1. server'[d] \in {"accepted", "refused"}
      BY <1>1, <1>2, <2>2
    <3> QED
      BY <1>2, <2>1, <2>2, <3>1
         DEF Told, Answered, Accepted, NotMade, Unasked, WasRead, At
  <2>3. CASE d # c
    <3>1. server'[d] = server[d]
      BY <1>1, <1>2, <2>3
    <3> QED
      BY <2>1, <3>1 DEF Told, Answered, Accepted, NotMade, Unasked, WasRead, At
  <2> QED  BY <2>2, <2>3
<1> QED  BY <1>3, <1>4 DEF Inv

-----------------------------------------------------------------------------
(* What a text that got through parse_json_response says.                  *)
LEMMA ParsedIsAccepted ==
  ASSUME Inv, NEW c \in Calls, HasStatusLine(c), ~IsError(c)
  PROVE  server[c] = "accepted"
BY DEF Inv, Told, Answered, HasStatusLine, IsError

LEMMA NextInv == Inv /\ [Next]_vars => Inv'
<1> SUFFICES ASSUME Inv, [Next]_vars PROVE Inv'
  OBVIOUS
<1>1. Types
  BY DEF Inv
<1>2. ASSUME NEW c \in Calls, Sign(c) PROVE Inv'
  <2>1. UnderWay(c) /\ server[c] = "unasked"
    BY <1>2 DEF Sign, At, UnderWay, Ended, Inv, Told, Unasked
  <2>2. mishaps' \in 0 .. MaxMishaps
    BY <1>1, <1>2 DEF Sign, Types
  <2>3. CASE GoTo(c, "connect") /\ UNCHANGED token
    BY <1>1, <1>2, <2>1, <2>2, <2>3, StepKeepsInv DEF Sign, Types
  <2>4. CASE Throws(c)
    BY <1>2, <2>1, <2>2, <2>4, ThrowKeepsInv DEF Sign
  <2> QED  BY <1>2, <2>3, <2>4 DEF Sign
<1>3. ASSUME NEW c \in Calls, Connect(c) PROVE Inv'
  <2>1. UnderWay(c) /\ server[c] = "unasked"
    BY <1>3 DEF Connect, At, UnderWay, Ended, Inv, Told, Unasked
  <2>2. mishaps' \in 0 .. MaxMishaps
    BY <1>1, <1>3, MishapCounts DEF Connect
  <2>3. CASE GoTo(c, "write")
    BY <1>1, <1>3, <2>1, <2>2, <2>3, StepKeepsInv DEF Connect, Types
  <2>4. CASE ParseWhat(c, "an excuse")
    BY <1>3, <2>1, <2>2, <2>4, TextKeepsInv DEF Connect, Texts
  <2> QED  BY <1>3, <2>3, <2>4 DEF Connect
<1>4. ASSUME NEW c \in Calls, Write(c) PROVE Inv'
  <2>1. UnderWay(c)
    BY <1>4 DEF Write, At, UnderWay, Ended
  <2>2. mishaps' \in 0 .. MaxMishaps
    BY <1>1, <1>4, MishapCounts DEF Write
  <2>3. CASE GoTo(c, "read") /\ server' = [server EXCEPT ![c] = "asked"] /\ UNCHANGED token
    <3>1. server \in [Calls -> {"unasked", "asked", "accepted", "refused"}]
      BY <1>1 DEF Types
    <3>2. server' \in [Calls -> {"unasked", "asked", "accepted", "refused"}]
      BY <2>3, <3>1
    <3>3. "read" \in Steps
      BY DEF Steps
    <3>4. Types'
      BY <1>1, <2>2, <2>3, <3>2, <3>3, GoToFields DEF Types
    <3>5. ASSUME NEW d \in Calls
          PROVE  /\ (call[d].by)' = call[d].by
                 /\ UnderWay(d)' => UnderWay(d)
      BY <1>1, <2>1, <2>3, <3>3, GoToFields DEF UnderWay
    <3>6. OneCall'
      BY <3>5 DEF Inv, OneCall
    <3>7. ASSUME NEW d \in Calls PROVE Told(d)'
      <4>1. Told(d)
        BY DEF Inv
      <4>2. CASE d = c
        <5>1. server[c] = "unasked"
          BY <4>1, <4>2, <1>4 DEF Told, Unasked, Write, At
        <5>2. (call[c].step)' = "read" /\ (call[c].got)' = call[c].got
          BY <1>1, <2>3, <3>3, GoToFields
        <5> QED
          BY <4>1, <4>2, <5>1, <5>2
             DEF Told, Answered, Accepted, NotMade, Unasked, WasRead, At
      <4>3. CASE d # c
        <5>1. /\ (call[d].step)' = call[d].step /\ (call[d].got)' = call[d].got
              /\ (call[d].to)' = call[d].to
          BY <1>1, <2>3, <3>3, <4>3, GoToFields
        <5>2. server'[d] = server[d]
          BY <2>3, <3>1, <4>3
        <5> QED
          BY <4>1, <5>1, <5>2 DEF Told, Answered, Accepted, NotMade, Unasked, WasRead, At
      <4> QED  BY <4>2, <4>3
    <3> QED  BY <3>4, <3>6, <3>7 DEF Inv
  <2>4. CASE ParseWhat(c, "nothing") /\ UNCHANGED <<server, token>>
    BY <2>1, <2>2, <2>4, TextKeepsInv DEF Texts
  <2>5. CASE ProcessEnds /\ UNCHANGED server
    BY <2>2, <2>5, EndKeepsInv
  <2> QED  BY <1>4, <2>3, <2>4, <2>5 DEF Write
<1>5. ASSUME NEW c \in Calls, ReadWhole(c) PROVE Inv'
  BY <1>1, <1>5, TextKeepsInv, MishapCounts DEF ReadWhole, At, UnderWay, Ended, Texts
<1>6. ASSUME NEW c \in Calls, ReadCut(c) PROVE Inv'
  <2>1. UnderWay(c) /\ server' = server /\ token' = token
    BY <1>6 DEF ReadCut, At, UnderWay, Ended
  <2>2. mishaps' \in 0 .. MaxMishaps
    BY <1>1, <1>6, MishapCounts DEF ReadCut
  <2>3. CASE ParseWhat(c, "nothing")
    BY <2>1, <2>2, <2>3, TextKeepsInv DEF Texts
  <2>4. CASE /\ server[c] \in {"accepted", "refused"}
             /\ \E got \in {"half a line", "half an answer"} : ParseWhat(c, got)
    BY <2>1, <2>2, <2>4, TextKeepsInv DEF Texts
  <2> QED  BY <1>6, <2>3, <2>4 DEF ReadCut
<1>7. ASSUME NEW c \in Calls, Parse(c) PROVE Inv'
  <2>1. UnderWay(c) /\ server' = server
    BY <1>7 DEF Parse, At, UnderWay, Ended
  <2>2. mishaps' \in 0 .. MaxMishaps
    BY <1>1, <1>7 DEF Parse, Types
  <2>3. CASE HasStatusLine(c) /\ ~IsError(c) /\ GoTo(c, "use") /\ UNCHANGED token
    BY <1>1, <2>1, <2>2, <2>3, ParsedIsAccepted, StepKeepsInv DEF Types
  <2>4. CASE Throws(c)
    BY <2>1, <2>2, <2>4, ThrowKeepsInv
  <2> QED  BY <1>7, <2>3, <2>4 DEF Parse
<1>8. ASSUME NEW c \in Calls, Use(c) PROVE Inv'
  <2>1. UnderWay(c) /\ server' = server /\ server[c] = "accepted"
    BY <1>8 DEF Use, At, UnderWay, Ended, Inv, Told, Accepted
  <2>2. mishaps' \in 0 .. MaxMishaps
    BY <1>1, <1>8 DEF Use, Types
  <2>3. CASE CanUse(c) /\ GoTo(c, "returned")
             /\ token' = (call[c].to = "authenticate" \/ (token /\ call[c].to # "logout"))
    <3>1. token' \in BOOLEAN
      BY <2>3, Zenon
    <3> QED  BY <2>1, <2>2, <2>3, <3>1, StepKeepsInv DEF CanUse
  <2>4. CASE Throws(c)
    BY <2>1, <2>2, <2>4, ThrowKeepsInv
  <2> QED  BY <1>8, <2>3, <2>4, Zenon DEF Use
<1>9. ASSUME Crash PROVE Inv'
  BY <1>1, <1>9, EndKeepsInv, MishapCounts DEF Crash
<1>10. CASE UNCHANGED vars
  BY <1>10 DEF vars, Inv, Types, OneCall, Told, Answered, Accepted, NotMade, Unasked,
               WasRead, At, UnderWay
<1> QED
  BY <1>2, <1>3, <1>4, <1>5, <1>6, <1>7, <1>8, <1>9, <1>10, MakeKeepsInv, AnswerKeepsInv
     DEF Next

(* The strengthened invariant holds in every reachable state.              *)
THEOREM Invariant == Spec => []Inv
<1>1. Inv /\ [Next]_vars => Inv'
  BY NextInv
<1> QED  BY <1>1, InitInv, PTL DEF Spec

(* Type correctness, with what TypeOK says of the server and the threads.  *)
THEOREM TypeCorrect == Spec => []TypeOK
BY Invariant, InvTypeOK, PTL

-----------------------------------------------------------------------------
(* What a step of a request is for Call: the state it shows, and the two   *)
(* sets, change as one of Call's actions has it, or not at all.            *)

Shown(c) == IF UnderWay(c) THEN "waiting" ELSE call[c].step

LEMMA InitShows == Init => TheCalls!Init
<1> SUFFICES ASSUME Init PROVE TheCalls!Init
  OBVIOUS
<1>1. ASSUME NEW c \in Calls
      PROVE  /\ Shown(c) = "unmade" /\ call[c].to \notin Backlog /\ server[c] # "accepted"
  BY NoneAssumption DEF Init, Unmade, Shown, UnderWay, Ended, Backlog, Endpoints
<1> QED  BY <1>1 DEF TheCalls!Init, Shown

LEMMA ShowsBecome ==
  ASSUME NEW S, NEW s, \A d \in Calls : Shown(d)' = IF d \in S THEN s ELSE Shown(d)
  PROVE  TheCalls!Become(S, s)
BY DEF TheCalls!Become, Shown

LEMMA ShowsNothing ==
  ASSUME \A d \in Calls : /\ Shown(d)' = Shown(d)
                          /\ (call[d].to)' = call[d].to
                          /\ (server[d] = "accepted")' = (server[d] = "accepted")
  PROVE  UNCHANGED TheCalls!vars
BY DEF TheCalls!vars, Shown

(* A call that goes on is waiting before and after.                        *)
LEMMA StepShowsNothing ==
  ASSUME Types, NEW c \in Calls, UnderWay(c), NEW s \in Steps \ Ended, GoTo(c, s),
         \A d \in Calls : (server[d] = "accepted")' = (server[d] = "accepted")
  PROVE  UNCHANGED TheCalls!vars
<1>1. s \in Steps
  OBVIOUS
<1> QED  BY <1>1, GoToFields, ShowsNothing DEF Shown, UnderWay

LEMMA TextShowsNothing ==
  ASSUME Types, NEW c \in Calls, UnderWay(c), NEW got \in Texts, ParseWhat(c, got),
         server' = server
  PROVE  UNCHANGED TheCalls!vars
BY ParseWhatFields, ShowsNothing DEF Shown, UnderWay, Ended

LEMMA EndShows ==
  ASSUME Types, NEW c \in Calls, UnderWay(c), NEW s \in {"returned", "empty", "failed"},
         GoTo(c, s), server' = server
  PROVE  /\ TheCalls!Become({c}, s) /\ c \in TheCalls!Waiting
         /\ UNCHANGED {d \in Calls : server[d] = "accepted"}
         /\ UNCHANGED {d \in Calls : call[d].to \in Backlog}
<1>1. s \in Steps /\ s \in Ended
  BY DEF Steps, Ended
<1>2. \A d \in Calls : Shown(d)' = IF d \in {c} THEN s ELSE Shown(d)
  BY <1>1, GoToFields DEF Shown, UnderWay
<1>3. UNCHANGED {d \in Calls : call[d].to \in Backlog}
  BY <1>1, GoToFields
<1> QED  BY <1>2, <1>3, ShowsBecome DEF TheCalls!Waiting

LEMMA ProcessEndShows ==
  ASSUME Types, ProcessEnds, server' = server
  PROVE  TheCalls!Next
<1>1. PICK W \in SUBSET Calls : W = {d \in Calls : UnderWay(d)}
  OBVIOUS
<1>2. \A d \in Calls : Shown(d)' = IF d \in W THEN "failed" ELSE Shown(d)
  BY <1>1, EndFields DEF Shown, UnderWay, Ended
<1>3. TheCalls!Become(W, "failed")
  BY <1>2, ShowsBecome
<1>4. W \subseteq TheCalls!Waiting
  BY <1>1 DEF TheCalls!Waiting
<1>5. UNCHANGED {d \in Calls : call[d].to \in Backlog}
  BY EndFields
<1>6. TheCalls!Fail(W)
  BY <1>3, <1>4, <1>5 DEF TheCalls!Fail
<1> QED  BY <1>6 DEF TheCalls!Next

LEMMA ThrowShows ==
  ASSUME Types, NEW c \in Calls, UnderWay(c), Throws(c), server' = server
  PROVE  TheCalls!Next
<1>1. CASE call[c].to \in Backlog /\ GoTo(c, "empty")
  <2>1. TheCalls!Empty(c)
    BY <1>1, EndShows DEF TheCalls!Empty
  <2> QED  BY <2>1 DEF TheCalls!Next
<1>2. CASE GoTo(c, "failed")
  <2>1. TheCalls!Fail({c})
    BY <1>2, EndShows DEF TheCalls!Fail
  <2> QED  BY <2>1 DEF TheCalls!Next
<1>3. CASE ProcessEnds
  BY <1>3, ProcessEndShows
<1> QED  BY <1>1, <1>2, <1>3 DEF Throws

LEMMA MakeShows ==
  ASSUME Inv, NEW t \in Threads, NEW e \in Endpoints, NEW c \in Calls, Make(t, e, c)
  PROVE  TheCalls!Next
<1> DEFINE made == [by |-> t, to |-> e, step |-> IF e \in Authenticated THEN "sign" ELSE "connect",
                    got |-> None]
           B == {d \in Calls : call[d].to \in Backlog}
<1>1. ASSUME NEW d \in Calls PROVE call'[d] = IF d = c THEN made ELSE call[d]
  BY DEF Make, Inv, Types
<1>2. made.to = e /\ made.step \notin Ended
  BY DEF Ended
<1>3. call[c].step = "unmade" /\ call[c].to = None
  BY DEF Inv, Told, NotMade, Make, At
<1> HIDE DEF made
<1>4. \A d \in Calls : Shown(d)' = IF d \in {c} THEN "waiting" ELSE Shown(d)
  BY <1>1, <1>2 DEF Shown, UnderWay
<1>5. B' \in {B, B \cup {c}}
  <2>1. None \notin Backlog
    BY NoneAssumption DEF Backlog, Endpoints
  <2>2. CASE e \in Backlog
    <3>1. B' = B \cup {c}
      BY <1>1, <1>2, <2>2
    <3> QED  BY <3>1
  <2>3. CASE e \notin Backlog
    <3>1. B' = B
      BY <1>1, <1>2, <1>3, <2>1, <2>3
    <3> QED  BY <3>1
  <2> QED  BY <2>2, <2>3
<1>6. Shown(c) = "unmade" /\ UNCHANGED {d \in Calls : server[d] = "accepted"}
  BY <1>3 DEF Shown, UnderWay, Ended, Make
<1>7. TheCalls!Make(c)
  BY <1>4, <1>5, <1>6, ShowsBecome DEF TheCalls!Make, Shown
<1> QED  BY <1>7 DEF TheCalls!Next

LEMMA AnswerShows ==
  ASSUME Inv, NEW c \in Calls, Answer(c)
  PROVE  TheCalls!Next \/ UNCHANGED TheCalls!vars
<1> DEFINE A == {d \in Calls : server[d] = "accepted"}
<1>1. PICK r \in {"accepted", "refused"} : server' = [server EXCEPT ![c] = r]
  BY DEF Answer
<1>2. server \in [Calls -> {"unasked", "asked", "accepted", "refused"}] /\ server[c] = "asked"
  BY DEF Inv, Types, Answer
<1>3. call' = call
  BY DEF Answer
<1>4. CASE r = "accepted"
  <2>1. A' = A \cup {c} /\ c \notin A
    BY <1>1, <1>2, <1>4
  <2>2. Shown(c) \in {"waiting", "empty", "failed"}
    BY <1>2 DEF Inv, Told, Unasked, Accepted, Shown, UnderWay, Ended
  <2>3. TheCalls!Act(c)
    BY <1>3, <2>1, <2>2 DEF TheCalls!Act, Shown, UnderWay
  <2> QED  BY <2>3 DEF TheCalls!Next
<1>5. CASE r = "refused"
  <2>1. ASSUME NEW d \in Calls
        PROVE (server[d] = "accepted")' = (server[d] = "accepted")
    BY <1>1, <1>2, <1>5
  <2> QED  BY <1>3, <2>1, ShowsNothing DEF Shown, UnderWay
<1> QED  BY <1>4, <1>5

LEMMA WriteShowsNothing ==
  ASSUME Inv, NEW c \in Calls, At(c, "write"), GoTo(c, "read"),
         server' = [server EXCEPT ![c] = "asked"]
  PROVE  UNCHANGED TheCalls!vars
<1>1. /\ server \in [Calls -> {"unasked", "asked", "accepted", "refused"}]
      /\ server[c] = "unasked" /\ UnderWay(c)
  BY DEF Inv, Types, Told, Unasked, At, UnderWay, Ended
<1>2. ASSUME NEW d \in Calls
      PROVE (server[d] = "accepted")' = (server[d] = "accepted")
  BY <1>1
<1>3. Types /\ "read" \in Steps \ Ended
  BY DEF Inv, Steps, Ended
<1> QED  BY <1>1, <1>2, <1>3, StepShowsNothing

LEMMA StepImplements == Inv /\ [Next]_vars => [TheCalls!Next]_(TheCalls!vars)
<1> SUFFICES ASSUME Inv, [Next]_vars PROVE TheCalls!Next \/ UNCHANGED TheCalls!vars
  OBVIOUS
<1>1. Types
  BY DEF Inv
<1>2. {"connect", "write", "use"} \subseteq Steps \ Ended
  BY DEF Steps, Ended
<1>3. ASSUME NEW c \in Calls, Sign(c) PROVE TheCalls!Next \/ UNCHANGED TheCalls!vars
  <2>1. UnderWay(c) /\ server' = server
    BY <1>3 DEF Sign, At, UnderWay, Ended
  <2> QED  BY <1>1, <1>2, <1>3, <2>1, StepShowsNothing, ThrowShows DEF Sign
<1>4. ASSUME NEW c \in Calls, Connect(c) PROVE UNCHANGED TheCalls!vars
  <2>1. UnderWay(c) /\ server' = server
    BY <1>4 DEF Connect, At, UnderWay, Ended
  <2>2. "an excuse" \in Texts
    BY DEF Texts
  <2> QED  BY <1>1, <1>2, <1>4, <2>1, <2>2, StepShowsNothing, TextShowsNothing DEF Connect
<1>5. ASSUME NEW c \in Calls, Write(c) PROVE TheCalls!Next \/ UNCHANGED TheCalls!vars
  <2>1. UnderWay(c) /\ At(c, "write")
    BY <1>5 DEF Write, At, UnderWay, Ended
  <2>2. "nothing" \in Texts
    BY DEF Texts
  <2> QED
    BY <1>1, <1>5, <2>1, <2>2, WriteShowsNothing, TextShowsNothing, ProcessEndShows DEF Write
<1>6. ASSUME NEW c \in Calls, ReadWhole(c) \/ ReadCut(c) PROVE UNCHANGED TheCalls!vars
  <2>1. UnderWay(c) /\ server' = server
    BY <1>6 DEF ReadWhole, ReadCut, At, UnderWay, Ended
  <2>2. \E got \in Texts : ParseWhat(c, got)
    BY <1>6 DEF ReadWhole, ReadCut, Texts
  <2> QED  BY <1>1, <2>1, <2>2, TextShowsNothing
<1>7. ASSUME NEW c \in Calls, Parse(c) PROVE TheCalls!Next \/ UNCHANGED TheCalls!vars
  <2>1. UnderWay(c) /\ server' = server
    BY <1>7 DEF Parse, At, UnderWay, Ended
  <2> QED  BY <1>1, <1>2, <1>7, <2>1, StepShowsNothing, ThrowShows DEF Parse
<1>8. ASSUME NEW c \in Calls, Use(c) PROVE TheCalls!Next
  <2>1. UnderWay(c) /\ server' = server /\ server[c] = "accepted"
    BY <1>8 DEF Use, At, UnderWay, Ended, Inv, Told, Accepted
  <2>2. CASE GoTo(c, "returned")
    <3>1. TheCalls!Return(c)
      BY <1>1, <2>1, <2>2, EndShows DEF TheCalls!Return
    <3> QED  BY <3>1 DEF TheCalls!Next
  <2>3. CASE Throws(c)
    BY <1>1, <2>1, <2>3, ThrowShows
  <2> QED  BY <1>8, <2>2, <2>3 DEF Use
<1>9. ASSUME Crash PROVE TheCalls!Next
  BY <1>1, <1>9, ProcessEndShows DEF Crash
<1>10. CASE UNCHANGED vars
  BY <1>10, ShowsNothing DEF vars, Shown, UnderWay
<1> QED
  BY <1>3, <1>4, <1>5, <1>6, <1>7, <1>8, <1>9, <1>10, MakeShows, AnswerShows DEF Next

(* A call that returns has been accepted and acted on exactly once,        *)
(* whatever the connection did: Requests implements Call.                  *)
THEOREM RequestsImplementCalls == Spec => ImplementsCall
<1>1. Init => TheCalls!Init
  BY InitShows
<1>2. Inv /\ [Next]_vars => [TheCalls!Next]_(TheCalls!vars)
  BY StepImplements
<1> QED  BY <1>1, <1>2, Invariant, PTL DEF Spec, ImplementsCall, TheCalls!Spec
=============================================================================
