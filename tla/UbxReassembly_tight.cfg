SPECIFICATION Spec
CONSTANTS
  Wires <- MCWires
  MinTotal <- MCMinTotal
  MaxTotal <- MCMaxTotal
  MaxChunk <- MCMaxChunk
  Cap <- MCTightCap
INVARIANTS
  TypeOK
  DeliveredInOrder
  NothingSkipped
  PromptDelivery
  NoOverflowWhenFits
PROPERTIES
  ScanTerminates
  ImplementsChannel
\* The finite stream ends: the device may stop sending.
CHECK_DEADLOCK FALSE
