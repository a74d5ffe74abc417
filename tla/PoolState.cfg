CONSTANTS
  n1 = n1
  v1 = v1
  v2 = v2
  r1 = r1
  r2 = r2
  t1 = t1
  t2 = t2
  t3 = t3
  Nodes = {n1}
  Volumes = {v1, v2}
  Resvs = {r1, r2}
  Threads = {t1, t2, t3}
  None = None
  MaxSize = 2
  Capacities = {2, 3}
  ResvSize <- MCResvSize
  ResvOf <- MCResvOf
SPECIFICATION Spec
SYMMETRY MCSymmetry
INVARIANTS
  TypeOK
  ReservationYieldsToVolume
  FreeCoversVolumes
