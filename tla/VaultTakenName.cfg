SPECIFICATION Spec
CONSTANTS
  Users = {alice, bob}
  Passphrases = {p1, p2}
  None = None
  Habits = {"takenNames"}
  MaxDraws = 2
  MaxMishaps = 0
INVARIANT ToldPassphraseWorks
