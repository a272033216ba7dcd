CONSTANTS
  Slots = {p1, p2, p3}
  init = p1
  p1 = p1
  p2 = p2
  p3 = p3
  CPUs = {c1}
  c1 = c1
  Nil = Nil
  MaxPid = 3
  KillArgs = {2}
SPECIFICATION FairSpec
PROPERTIES ZombieReaped KilledExits
