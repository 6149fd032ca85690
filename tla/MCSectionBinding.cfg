\* Every section of a few keys in both casings, and every index dict of three.
CONSTANTS
  Fields <- MCFields
  Sections <- MCSections
  Requests <- MCRequests
  Numeral <- MCNumeral
  OddDigits = {"2sup"}
  Depth = 4
SPECIFICATION Spec
INVARIANTS
  BoundAsDeclared
  InstanceIdGenerated
  HostReadings
