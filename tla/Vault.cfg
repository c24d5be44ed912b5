SPECIFICATION Spec
CONSTANTS
  Users = {alice, bob}
  Passphrases = {p1, p2}
  None = None
  Habits = {}
  MaxDraws = 4
  MaxMishaps = 0
SYMMETRY Symmetry
INVARIANTS TypeOK ToldPassphraseWorks
PROPERTIES ImplementsSafe
