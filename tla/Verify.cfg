SPECIFICATION Spec
CONSTANTS
  a = a
  b = b
  f = f
  Cards = {a, b, f}
  Cmp = {a, b}
  Instances = {0, 1, 2}
  Bus <- MCBus
  Minors <- MCMinors
  Answers <- MCAnswers
  MaxFaults = 1
  Rounds = 2
  None = None
INVARIANTS TypeOK PassIsComplete PassIsGen2
PROPERTIES AtomicReports VerificationEnds
