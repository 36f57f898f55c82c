SPECIFICATION StreamSpec
CONSTANTS
  Tasks = {p, c}
  Children = {c}
  Hooked = {}
  Clients = {}
  Nobody = Nobody
  MaxTurns = 0
  MaxStops = 0
  Subs = {s1}
  Capacity = 1
CHECK_DEADLOCK FALSE
INVARIANT
  EndedStreamsAreTerminal
