SPECIFICATION Spec
CONSTANTS
  Alice = Alice
  Bob = Bob
  A = A
  B = B
  C = C
  Users = {Alice, Bob}
  Devices = {A, B}
  UserOf <- UserOfTwo
  Senders = {A}
  Typed = {Alice, Bob}
  None = None
  MaxDraws = 2
  MaxMishaps = 2
INVARIANTS TypeOK ShutOutHaveNoKey NewestMessageFits
PROPERTIES ReportIsTrue
