\* One run beside one application.
SPECIFICATION Spec
CONSTANTS
  Procs = {operator}
  Cards = {c1}
  Units = {service, socket}
  Free = Free
PROPERTY RunningAppUndisturbed
