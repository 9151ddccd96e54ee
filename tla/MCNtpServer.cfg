CONSTANTS
  a = a
  b = b
  Addr <- Peers
  Slots = 1
  SlotLife = 1
  HourMod = 3
  MaxTime = 8
  InFlight = 2
  ArrivalInReply = FALSE
SPECIFICATION Spec
SYMMETRY Symmetry
INVARIANTS HardTxOfLastReply PairedWhenValid
PROPERTIES KeepsSlots
