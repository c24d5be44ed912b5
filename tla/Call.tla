---------------------------------- MODULE Call ----------------------------------
(***************************************************************************)
(* What the components that talk to the server take for granted about a    *)
(* request: the server acts on it at most once; a call returns normally    *)
(* only if the server has accepted and acted; a call that fails has been   *)
(* acted on or has not, and may still be.  A call of a backlog does not    *)
(* fail: it comes back empty.                                              *)
(***************************************************************************)
CONSTANT Calls

VARIABLES
  state,    \* state[c]: "unmade", "waiting", "returned", "empty" or "failed"
  acted,    \* the calls the server has accepted and acted on
  backlogs  \* the calls that fetch what is waiting at the server

vars == <<state, acted, backlogs>>

Init ==
  /\ state = [c \in Calls |-> "unmade"]
  /\ acted = {}
  /\ backlogs = {}

Become(S, s) == state' = [c \in Calls |-> IF c \in S THEN s ELSE state[c]]
Waiting == {c \in Calls : state[c] = "waiting"}

Make(c) ==
  /\ state[c] = "unmade" /\ Become({c}, "waiting")
  /\ backlogs' \in {backlogs, backlogs \cup {c}}
  /\ UNCHANGED acted

Act(c) ==
  /\ state[c] \in {"waiting", "empty", "failed"} /\ c \notin acted
  /\ acted' = acted \cup {c}
  /\ UNCHANGED <<state, backlogs>>

Return(c) ==
  /\ c \in Waiting \cap acted /\ Become({c}, "returned")
  /\ UNCHANGED <<acted, backlogs>>

Empty(c) ==
  /\ c \in Waiting \cap backlogs /\ Become({c}, "empty")
  /\ UNCHANGED <<acted, backlogs>>

(* When the process ends, every call that is waiting fails.                *)
Fail(S) ==
  /\ S \subseteq Waiting /\ Become(S, "failed")
  /\ UNCHANGED <<acted, backlogs>>

Next ==
  \/ \E c \in Calls : Make(c) \/ Act(c) \/ Return(c) \/ Empty(c)
  \/ \E S \in SUBSET Calls : Fail(S)

Spec == Init /\ [][Next]_vars
=============================================================================
