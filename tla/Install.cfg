\* Two installs on a host with two kernels; one module has another provider.
SPECIFICATION Spec
CONSTANTS
  Kernels = {k147, debian}
  Modules = {nvidia, uvm}
  Stages = {"rt", "gen2"}
  Backups = {b1, b2}
  Generic = {k147}
  Gen2Ready = {k147}
  Distro = {uvm}
  None = None
SYMMETRY BackupSymmetry
INVARIANTS TypeOK RollbackRestores InstalledAsAsked  BuiltWhole
