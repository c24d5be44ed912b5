SPECIFICATION Spec
CONSTANTS
  Users = {alice, bob}
  Passphrases = {p1, p2}
  None = None
  Habits = {"takenNames", "loginMeanwhile", "backingOut"}
  MaxDraws = 3
  MaxMishaps = 1
SYMMETRY Symmetry
VIEW WithoutRatchets
PROPERTIES OnlyToldPassphraseLogsIn
