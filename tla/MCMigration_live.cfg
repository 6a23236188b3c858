SPECIFICATION FairSpec
CONSTANTS
  Hosts = {h1, h2}
  Vm = {v1, v2, v3}
  Handlers = {j1, j2}
  MaxIdx <- NoIdx
  NoVm = NoVm
  NoHost = NoHost
  NoTap = NoTap
  NoHandler = NoHandler
  Faults = {"hangup", "load"}
PROPERTIES PortIsFreed HandlersAnswer
CHECK_DEADLOCK FALSE
