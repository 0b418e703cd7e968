SPECIFICATION FairSpec
CONSTANTS
  s1 = s1  s2 = s2  srv = srv  udp = udp  kid = kid  job = job  cw = cw
  p1 = p1  p2 = p2  b1 = b1  b2 = b2
  Emitter <- MCEmitter
  Socket = {s1}
  Server = {srv}
  Udp = {udp}
  Child = {kid}
  Worker = {cw}
  Spawned = {job}
  Port = {p1, p2}
  Peer <- MCPeer
  Broadcast = {b1, b2}
  MaxCalls = 3
  MaxTasks = 1
  MaxArrivals = 1
INVARIANTS HandlesCounted StartedPortsDrain
PROPERTIES EventsInOrder ClosedMeansSilent  EndsAreHeard 
CHECK_DEADLOCK FALSE
