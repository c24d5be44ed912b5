\* Two peers and three logins, with one mishap anywhere.
SPECIFICATION FairSpec
CONSTANTS
  Peers = {Bob, Carol}
  Owner = Alice
  Batch = 2
  MaxAge = 1
  MaxLogins = 3
  MaxMishaps = 1
  Nothing = Nothing
INVARIANTS TypeOK SavedBeforeAdvertised SecretsAgree
PROPERTIES RepairedAfterMaxAge EventuallyAnswered
CHECK_DEADLOCK FALSE
