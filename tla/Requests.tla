------------------------------- MODULE Requests -------------------------------
(***************************************************************************)
(* A request to the server, from the endpoint that makes it to what the    *)
(* endpoint does with the answer.                                          *)
(*                                                                         *)
(* HTTPSClient's get and post do not report failures: they return a text   *)
(* that says what went wrong in place of an answer, or as much of an       *)
(* answer as there was when the connection ended.  Telling these from an   *)
(* answer is left to parse_json_response, which looks at the first line,   *)
(* and to the endpoint, which looks at the data or does not.               *)
(*                                                                         *)
(* The GUI thread, the registration worker and the thread that asks for a  *)
(* device each make one call at a time, through a client of its own.  The  *)
(* token is shared.  API_HOST is configured, and the server's status lines *)
(* are complete.                                                           *)
(***************************************************************************)
EXTENDS Naturals

CONSTANTS
  Calls,          \* the calls made
  None,
  MaxMishaps      \* bound: connections refused, not trusted or lost

ASSUME Bounds == MaxMishaps \in Nat

Threads == {"gui", "worker", "ping"}

(* The endpoints, by what tells them apart here.                           *)
Endpoints ==
  {"isUserRegistered", "registerUser", "isDeviceRegistered", "authenticate",
   "updateKeybundle", "logout", "incomingMessages", "getDevices", "sendMessage"}

(* Those that sign, and send the token.                                    *)
Authenticated ==
  Endpoints \ {"isUserRegistered", "registerUser", "isDeviceRegistered", "authenticate"}

(* Those that use what the server has sent.                                *)
Reading ==
  {"isUserRegistered", "isDeviceRegistered", "authenticate", "incomingMessages", "getDevices"}

(* get_messages, like get_handshake_backlog, catches every failure and     *)
(* takes it for nothing to fetch.                                          *)
Backlog == {"incomingMessages"}

(* The slots and the thread functions that catch what a call throws.       *)
Caught ==
  {"isUserRegistered", "registerUser", "isDeviceRegistered", "authenticate", "updateKeybundle"}

OnWorker == {"registerUser", "authenticate", "updateKeybundle"}
OnPing == {"isDeviceRegistered"}

(* What HTTPSClient may have returned: an answer, some of one, nothing, or  *)
(* a text like "Socket connection failed".                                 *)
Texts == {"nothing", "an excuse", "half a line", "half an answer", "an answer"}

ASSUME NoneAssumption == None \notin Threads \cup Endpoints \cup Texts

VARIABLES
  call,     \* call[c]: [by, to, step, got], the thread, the endpoint, what it is at
            \* and what it has got in place of an answer
  server,   \* server[c]: "unasked", "asked", "accepted" or "refused"
  token,    \* SessionTokenManager: a token is set
  mishaps

vars == <<call, server, token, mishaps>>

Ended == {"unmade", "returned", "empty", "failed"}
Unmade == [by |-> None, to |-> None, step |-> "unmade", got |-> None]

Init ==
  /\ call = [c \in Calls |-> Unmade]
  /\ server = [c \in Calls |-> "unasked"]
  /\ token = FALSE
  /\ mishaps = 0

-----------------------------------------------------------------------------
At(c, s) == call[c].step = s
UnderWay(c) == call[c].step \notin Ended
GoTo(c, s) == call' = [call EXCEPT ![c].step = s]
ParseWhat(c, got) == call' = [call EXCEPT ![c].step = "parse", ![c].got = got]

Mishap == mishaps < MaxMishaps /\ mishaps' = mishaps + 1

ProcessEnds ==
  /\ call' = [c \in Calls |-> IF UnderWay(c) THEN [call[c] EXCEPT !.step = "failed"]
                              ELSE call[c]]
  /\ token' = FALSE

(* The call throws.  What no slot catches ends the process.                *)
Throws(c) ==
  \/ call[c].to \in Backlog /\ GoTo(c, "empty") /\ UNCHANGED token
  \/ call[c].to \in Caught /\ GoTo(c, "failed") /\ UNCHANGED token
  \/ call[c].to \notin Backlog \cup Caught /\ ProcessEnds

-----------------------------------------------------------------------------
Make(t, e, c) ==
  /\ At(c, "unmade")
  /\ \A d \in Calls : UnderWay(d) => call[d].by # t
  /\ t = "worker" => e \in OnWorker
  /\ t = "ping" <=> e \in OnPing
  /\ call' = [call EXCEPT ![c] =
       [by |-> t, to |-> e, step |-> IF e \in Authenticated THEN "sign" ELSE "connect",
        got |-> None]]
  /\ UNCHANGED <<server, token, mishaps>>

(* generate_post_headers, generate_get_headers.                            *)
Sign(c) ==
  /\ At(c, "sign")
  /\ \/ token /\ GoTo(c, "connect") /\ UNCHANGED token
     \/ ~token /\ Throws(c)
  /\ UNCHANGED <<server, mishaps>>

(* create_socket, SSL_connect and SSL_get_verify_result.                   *)
Connect(c) ==
  /\ At(c, "connect")
  /\ \/ GoTo(c, "write") /\ UNCHANGED mishaps
     \/ ParseWhat(c, "an excuse") /\ Mishap
  /\ UNCHANGED <<server, token>>

(* SSL_write.  Its result is not looked at; when the server has closed the *)
(* connection, the signal SIGPIPE may end the process.                     *)
Write(c) ==
  /\ At(c, "write")
  /\ \/ GoTo(c, "read") /\ server' = [server EXCEPT ![c] = "asked"] /\ UNCHANGED <<token, mishaps>>
     \/ ParseWhat(c, "nothing") /\ Mishap /\ UNCHANGED <<server, token>>
     \/ ProcessEnds /\ Mishap /\ UNCHANGED server

(* The server: it has the request, whether the caller still waits or not.  *)
Answer(c) ==
  /\ server[c] = "asked"
  /\ \E r \in {"accepted", "refused"} : server' = [server EXCEPT ![c] = r]
  /\ UNCHANGED <<call, token, mishaps>>

(* SSL_read, until the connection ends, however it ends.                   *)
ReadWhole(c) ==
  /\ At(c, "read") /\ server[c] \in {"accepted", "refused"}
  /\ ParseWhat(c, "an answer")
  /\ UNCHANGED <<server, token, mishaps>>

ReadCut(c) ==
  /\ At(c, "read")
  /\ \/ ParseWhat(c, "nothing")
     \/ /\ server[c] \in {"accepted", "refused"}
        /\ \E got \in {"half a line", "half an answer"} : ParseWhat(c, got)
  /\ Mishap
  /\ UNCHANGED <<server, token>>

(* Mutant: a text without a line break is parsed as well. *)
HasStatusLineAny(c) == call[c].got # "nothing"

(* parse_json_response: the text is not empty, and its first line ends.    *)
HasStatusLine(c) == call[c].got \in {"half an answer", "an answer"}

(* The status is 400 or more.                                              *)
IsError(c) == HasStatusLine(c) /\ server[c] = "refused"

Parse(c) ==
  /\ At(c, "parse")
  /\ \/ HasStatusLine(c) /\ ~IsError(c) /\ GoTo(c, "use") /\ UNCHANGED token
     \/ (~HasStatusLine(c) \/ IsError(c)) /\ Throws(c)
  /\ UNCHANGED <<server, mishaps>>

(* Mutant: half an answer is as good as a whole one. *)
CanUseAny(c) == TRUE

(* What of the answer there is does not parse as JSON if it was cut, and   *)
(* becomes a text: no array of messages, and no field can be taken from it. *)
CanUse(c) == call[c].to \in Reading => call[c].got = "an answer"

(* post_authenticate's caller sets the token, logout clears it.            *)
Use(c) ==
  /\ At(c, "use")
  /\ \/ /\ CanUse(c) /\ GoTo(c, "returned")
        /\ token' = (call[c].to = "authenticate" \/ (token /\ call[c].to # "logout"))
     \/ ~CanUse(c) /\ Throws(c)
  /\ UNCHANGED <<server, mishaps>>

Crash ==
  /\ \E c \in Calls : UnderWay(c)
  /\ ProcessEnds /\ Mishap /\ UNCHANGED server

Next ==
  \/ \E t \in Threads, e \in Endpoints, c \in Calls : Make(t, e, c)
  \/ \E c \in Calls :
        \/ Sign(c) \/ Connect(c) \/ Write(c) \/ Answer(c) \/ ReadWhole(c) \/ ReadCut(c)
        \/ Parse(c) \/ Use(c)
  \/ Crash

Spec == Init /\ [][Next]_vars

-----------------------------------------------------------------------------
CallRecords ==
  [ by : Threads \cup {None}, to : Endpoints \cup {None},
    step : Ended \cup {"sign", "connect", "write", "read", "parse", "use"},
    got : Texts \cup {None} ]

(* Type invariant.  Besides the types: only a written request is known to  *)
(* the server, a thread is in one call at most, and no call returns with   *)
(* what was to be read from its answer missing.                            *)
TypeOK ==
  /\ call \in [Calls -> CallRecords]
  /\ server \in [Calls -> {"unasked", "asked", "accepted", "refused"}]
  /\ token \in BOOLEAN
  /\ mishaps \in 0 .. MaxMishaps
  /\ \A c \in Calls :
        call[c].step \in {"unmade", "sign", "connect", "write"} => server[c] = "unasked"
  /\ \A c, d \in Calls : UnderWay(c) /\ UnderWay(d) /\ call[c].by = call[d].by => c = d
  /\ \A c \in Calls :
        At(c, "returned") /\ call[c].to \in Reading => call[c].got = "an answer"

(* Whatever happens on the way, a call that returns has been accepted by   *)
(* the server and acted on once: neither a text that stands for a failed   *)
(* connection, nor half of an answer, nor a refusal is taken for success.  *)
(* A call that fails may have been acted on, or may be later.              *)
TheCalls == INSTANCE Call WITH
  backlogs <- {c \in Calls : call[c].to \in Backlog},
  state <- [c \in Calls |-> IF UnderWay(c) THEN "waiting" ELSE call[c].step],
  acted <- {c \in Calls : server[c] = "accepted"}

ImplementsCall == TheCalls!Spec
=============================================================================
