CONSTANTS
  p1 = p1  p2 = p2  Z = Z  X = X  Y = Y  w1 = w1  w2 = w2
  lz = lz  lx = lx  ly = ly  sz = sz  sx1 = sx1  sx2 = sx2  sy = sy
  NoSeg = NoSeg  NoLink = NoLink  NoPerson = NoPerson
  Person = {p1, p2}
  Conflux = {Z, X, Y}
  Worker = {w1, w2}
  SegStats = {sz, sx1, sx2, sy}
  Link <- MC_Link
  LinkConflux <- MC_LinkConflux
  LinkSegs <- MC_LinkSegs
  WorkerCfx <- MC_WorkerCfx
  Chain <- MC_Chain
  SegSpace <- MC_SegSpace
  FlowOut <- MC_FlowOut
  TickLen = 3
  MaxFrame = 4
SPECIFICATION Spec
PROPERTY SegmentStatsOwnedByWorker
