\* Two game servers that come, go and crash while a client looks for a room.
SPECIFICATION Spec
CONSTANTS
  Servers = {s1, s2}
  Clients = {c1}
  None = None
  MaxCount = 1
  MaxStrays = 0
  MaxErrors = 1
SYMMETRY Symmetry
INVARIANTS
  TypeOK
  SettledServersAreListed
  
  KeysOutliveOnlyKills
 
