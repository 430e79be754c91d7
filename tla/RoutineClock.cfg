SPECIFICATION ClockSpec
CONSTANTS
  Scans = {w1, w2}
  Instants = {1, 2, 3}
  Grace = 1
  Ttl = 2
  MaxNow = 4
  MaxRestarts = 1
  MaxFires = 2
INVARIANTS
  FiresOnce
  NoInstantSkipped
CHECK_DEADLOCK FALSE
