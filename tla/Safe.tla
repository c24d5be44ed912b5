---------------------------------- MODULE Safe ----------------------------------
(***************************************************************************)
(* What the machine promises its users: a safe with a compartment for      *)
(* each, of which one at most is open, to its user, and opened only with   *)
(* the passphrase that this user has last been told is the right one.      *)
(***************************************************************************)
CONSTANTS Users, Passphrases, None

VARIABLES
  told,    \* told[u]: the passphrase u has been told works, or None
  inside,  \* who has been let in
  open     \* whose compartments are open

vars == <<told, inside, open>>

Init ==
  /\ told = [u \in Users |-> None]
  /\ inside = None
  /\ open = {}

(* The first passphrase of a user is whatever the user makes it.           *)
LetIn(u, p) ==
  /\ inside = None /\ told[u] \in {None, p}
  /\ told' = [told EXCEPT ![u] = p]
  /\ inside' = u
  /\ open' = {u}

Change(p) ==
  /\ inside # None
  /\ told' = [told EXCEPT ![inside] = p]
  /\ UNCHANGED <<inside, open>>

Lock ==
  /\ inside' = None
  /\ open' = {}
  /\ UNCHANGED told

Next ==
  \/ \E u \in Users, p \in Passphrases : LetIn(u, p)
  \/ \E p \in Passphrases : Change(p)
  \/ Lock

Spec == Init /\ [][Next]_vars
=============================================================================
