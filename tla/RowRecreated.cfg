SPECIFICATION Spec
CONSTANTS
  Serves = {s1}
  MaxLogins = 1
  MaxFlights = 1
PROPERTY NoRowRecreated
CHECK_DEADLOCK FALSE
