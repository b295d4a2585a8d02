\* The poller's assertion: a server unregisters between SCAN and GET.
SPECIFICATION Spec
CONSTANTS
  Servers = {s1, s2}
  Clients = {c1}
  None = None
  MaxCount = 1
  MaxStrays = 1
  MaxErrors = 1
SYMMETRY Symmetry
INVARIANT ScannedKeysExist
