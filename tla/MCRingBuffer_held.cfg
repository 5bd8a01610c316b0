CONSTANTS
  PoolSize = 6
  Byte <- MCByte
  Blocks <- MCBlocks
SPECIFICATION Spec
PROPERTY ForcedBlockIsHeld
