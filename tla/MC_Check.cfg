SPECIFICATION MCSpec
CONSTANTS
  Parallel <- MCParallel
  Breaks <- MCBreaks
  Layouts <- MCLayouts
  Paths <- MCPaths
  Thresholds = {0, 1, 4}
  MaxBroken = 1
  MaxFaults = 1
INVARIANTS
  TypeOK
  CoverageHonest
  ExitTellsAll
