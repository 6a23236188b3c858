SPECIFICATION Spec
CONSTANTS
  Hosts = {h1, h2}
  Vm = {v1, v2, v3}
  Handlers = {j1, j2}
  MaxIdx = 1
  NoVm = NoVm
  NoHost = NoHost
  NoTap = NoTap
  NoHandler = NoHandler
  Faults = {"hangup", "boot", "plumb", "metadata", "pause", "network",
            "receive", "uffd", "load"}
SYMMETRY Symmetry
INVARIANTS TypeOK AtMostOneRunning RegisteredIsWhole
PROPERTIES KeepsCustody LeavesNothingBehind
CHECK_DEADLOCK FALSE
