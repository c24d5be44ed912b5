\* One handshake, three messages each way, any order, loss and duplication.
SPECIFICATION Spec
CONSTANTS
  Alice = alice
  Bob = bob
  MaxSends = 3
  MaxKeys = 3
INVARIANTS
  TypeOK
  KeyAgreement
  NoKeyReuse
  SkippedExact
  Deliverable
PROPERTIES
  ImplementsKeyChannel
