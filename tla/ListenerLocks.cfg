SPECIFICATION Spec
CONSTANTS
  Threads = {t1, t2}
  Nobody = Nobody
  Manager = Manager
  Listeners = {l1}
  Broadcasters = {b1, b2}
  Calls = {"CheckIn", "StartListening", "StopListening", "StartSpec", "StopSpec"}
  MaxManagers = 1
PROPERTIES CallsReturn
CHECK_DEADLOCK FALSE
