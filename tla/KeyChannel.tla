----------------------------- MODULE KeyChannel -----------------------------
(***************************************************************************)
(* What a ratchet session promises its two devices, without saying how:    *)
(* each device uses message keys nobody has used before, and the other     *)
(* device obtains the key of a message at most once, in any order, and it  *)
(* is the sender's key.  Messages may be lost: nothing is owed.            *)
(***************************************************************************)
EXTENDS Naturals, Sequences

CONSTANTS Alice, Bob, Keys

VARIABLES used,      \* used[p]: the keys device p has sent messages under, in order
          obtained,  \* obtained[p]: [n, key] for the keys device p has recovered
          recovered  \* recovered[p]: how often device p has recovered a key

channelVars == <<used, obtained, recovered>>

Ends == {Alice, Bob}
Other(p) == IF p = Alice THEN Bob ELSE Alice

UsedKeys(p) == {used[p][n] : n \in DOMAIN used[p]}

Init ==
  /\ used = [p \in Ends |-> << >>]
  /\ obtained = [p \in Ends |-> {}]
  /\ recovered = [p \in Ends |-> 0]

Use(p) ==
  /\ \E k \in Keys \ (UsedKeys(Alice) \cup UsedKeys(Bob)) :
        used' = [used EXCEPT ![p] = Append(@, k)]
  /\ UNCHANGED <<obtained, recovered>>

Obtain(p) ==
  /\ \E n \in DOMAIN used[Other(p)] :
        /\ \A g \in obtained[p] : g.n # n
        /\ obtained' = [obtained EXCEPT ![p] = @ \cup {[n |-> n, key |-> used[Other(p)][n]]}]
  /\ recovered' = [recovered EXCEPT ![p] = @ + 1]
  /\ UNCHANGED used

Next == \E p \in Ends : Use(p) \/ Obtain(p)

Spec == Init /\ [][Next]_channelVars
=============================================================================
