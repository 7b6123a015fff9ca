SPECIFICATION Spec
CONSTANTS
  G = 1
  VALUE_MAX = 2
  FLASH = 1
  Steps = {1}
  Groups = {0, 1}
  Payload = {2, 3}
  MaxSweeps = 1
PROPERTY
  OtherGroupUntouched
