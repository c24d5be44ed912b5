SPECIFICATION Spec
CONSTANTS
  Alice = Alice
  Bob = Bob
  Senders = {Alice, Bob}
  MaxSends = 2
  MaxMishaps = 1
SYMMETRY Symmetry
INVARIANTS TypeOK NoKeyReuse RestartSafe ForwardSecrecyAtRest HandshakeBeforeMessage SoleSessionReadable
