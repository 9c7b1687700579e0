\* Two processes, that create, mount, serve, unmount and are killed.  It ends when
\* no volume can be created and none was.
SPECIFICATION Spec
CONSTANTS
  p1 = p1  p2 = p2  base = base  new = new
  Procs <- Two
  Configs <- BothConfigs
  Base = base
  MaxVolumes = 2
  MaxNodes = 2
  MaxKills = 1
  MaxRefused = 1
SYMMETRY ProcSymmetry
INVARIANTS ConfigNamesVolume EntriesKept ViewsFresh
CHECK_DEADLOCK FALSE
