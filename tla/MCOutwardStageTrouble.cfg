CONSTANTS
  Staff = {ann, bob}
  System = System
  Actions = {CONFIRMED, REJECTED}
  None = None
  Handlers = {h1, h2}
  Timers = {t1, t2}
  MaxTrouble = 1
  MaxFaults = 1
SPECIFICATION Spec
INVARIANT OnlyCheckersFile
