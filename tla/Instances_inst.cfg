SPECIFICATION Spec
CONSTANTS
  Procs = {p1, p2}
  Faults = {"window", "save", "registry", "crash"}
SYMMETRY ProcSymmetry
INVARIANTS TypeOK OneDashboard SignalKept SettingsHold
