SPECIFICATION FairSpec
CONSTANTS
  Alice = Alice
  Bob = Bob
  Senders = {Alice}
  MaxSends = 3
  MaxMishaps = 0
PROPERTIES EventuallyKept
