SPECIFICATION RFairSpec
CONSTANTS
  Programs <- AllTypes
  Writes = 2
INVARIANTS EveryIdKnown TwiceOnlyOnCycle SameStructure CyclesBroken OperandsRead SameForward
PROPERTY RoundTripEnds
\* nothing happens after the last write or a failed assertion
CHECK_DEADLOCK FALSE
