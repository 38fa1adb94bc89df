\* Two installs on a clean host.
SPECIFICATION Spec
CONSTANTS
  Kernels = {k147, debian}
  Modules = {nvidia}
  Stages = {"rt"}
  Backups = {b1, b2}
  Generic = {k147}
  Gen2Ready = {k147}
  Distro = {}
  None = None
INVARIANT PreviousPolicyRestored
