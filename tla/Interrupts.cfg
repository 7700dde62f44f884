SPECIFICATION Spec
CONSTANTS
  Thread <- MCThread
  Main = "main"
  Code <- MCCode
  R0 = {0, 4, 5}
INVARIANTS NoInstructionLostOrRepeated AddressIsAtFault
