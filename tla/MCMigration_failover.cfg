SPECIFICATION FairSpec
CONSTANTS
  Hosts = {h1, h2}
  Vm = {v1, v2}
  Handlers = {j1, j2}
  MaxIdx = 0
  NoVm = NoVm
  NoHost = NoHost
  NoTap = NoTap
  NoHandler = NoHandler
  Faults = {}
PROPERTIES CompletesOrResumes
CHECK_DEADLOCK FALSE
