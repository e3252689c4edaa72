CONSTANTS
  Pass = {p1, p2}
  Second = p2
  Serves <- AllAndSecond
  NoPass = none
  First <- OneOfEach
  MaxActions = 5
  MaxDisturbed = 1
SPECIFICATION Spec
INVARIANTS
  TypeOK
  DocumentsWhileSteady
PROPERTIES
  LostIsForEver
