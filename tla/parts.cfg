SPECIFICATION PartsSpec
CONSTANTS
  Threads = {t1, t2}
  WaitSetIds = {w1, w2}
  Conds = {c1, c2}
  Ctxs = {x1, x2}
  Slots = 1
  Bygone = {{w1}, {c1}}
  None = None
  Regs = {g1, g2, g3}
  Readers = {r1}
  Called = {"registerTypeSupport", "asZzddsDataWriter"}
  MaxSN = 6
  ReaderCount = 2
  WriterCount = 2
  Losable = {"sample", "outside"}
  MaxPart = 1
  MaxSets = 2
  Loose = {1}
SYMMETRY Symmetry
CHECK_DEADLOCK FALSE
INVARIANT FreedUntouched
INVARIANT ReleasedOnce
INVARIANT AttachedIsKept
INVARIANT Reclaimed
INVARIANT SleeperOwedNothing
INVARIANT HolderRuns
INVARIANT ActiveReadersLive
INVARIANT RegistrationsReclaimed
INVARIANT ClassCacheWhole
INVARIANT Coalesced
INVARIANT ContentExact
INVARIANT QueriesExact
INVARIANT GroupAtomic
