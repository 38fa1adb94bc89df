\* The unit and an operator at once, two cards, one socket beside the service.
SPECIFICATION FairSpec
CONSTANTS
  Procs = {boot, operator}
  Cards = {c1, c2}
  Units = {service, socket}
  Free = Free
INVARIANTS TypeOK UdevRestored PolicyKept ResetUndriven 
PROPERTIES ForeignServed RunsRunOut WindowKept RunsEnd
