SPECIFICATION Spec
CONSTANTS
  Runners = {"r1", "r2", "r3"}
  Drivers = {"scheduler", "worker"}
  DriverOf <- MixedDrivers
  RunIds = {i1, i2, i3}
  NoRun = NoRun
  NoDriver = NoDriver
  Lease = 2
  HostLimit = 2
  MaxTime = 4
SYMMETRY RunSymmetry
CHECK_DEADLOCK FALSE
INVARIANTS TypeOK HolderKeepsLease FenceSignalExact OneRunnerAtWork
PROPERTIES RunRowsTruthful
