\* One run and one card are enough: the run is interrupted twice.
SPECIFICATION Spec
CONSTANTS
  Procs = {operator}
  Cards = {c1}
  Units = {service, socket}
  Free = Free
INVARIANT UdevRestoredAfterTermination
