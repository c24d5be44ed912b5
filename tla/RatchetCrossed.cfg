\* Both devices are initiators: four messages each way, four key pairs each.
SPECIFICATION CrossedSpec
CONSTANTS
  Alice = alice
  Bob = bob
  MaxSends = 4
  MaxKeys = 4
INVARIANTS
  NoKeyReuse
  ForwardSecrecy
  HealsOnReply
  CurrentChainServed
