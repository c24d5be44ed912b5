\* Two users, two device registrations, one failed handler.
SPECIFICATION FairSpec
CONSTANTS
  Users = {Alice, Bob}
  None = None
  Dashboards = {"received", "sendFile"}
  MaxAttempts = 1
  MaxKeys = 2
  MaxMishaps = 1
INVARIANTS TypeOK OneWindow InsideIffLoggedIn AddingHasTheMachine
PROPERTIES AddingEnds
