SPECIFICATION Spec
CONSTANTS
  Alice = Alice
  Bob = Bob
  A = A
  B = B
  C = C
  Users = {Alice, Bob}
  Devices = {A, B, C}
  UserOf <- UserOfThree
  Senders = {A}
  Typed = {Bob}
  None = None
  MaxDraws = 2
  MaxMishaps = 0
SYMMETRY Symmetry
INVARIANTS NewestMessageFits ManageableBySender
