CONSTANTS
  WindowSlots = 3
  MaxSeq = 8
SPECIFICATION InboundSpec
INVARIANT
  WindowExact
PROPERTY
  ImplementsAntiReplay
