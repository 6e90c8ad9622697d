\* two alerts of a host, two runs at a time; a fault and two touches by analysts anywhere, or up
\* to two touches of alerts and two of cases, which suffice to close an alert that has a case,
\* open a second case from it, and take that one up and close it
CONSTANTS
  Alerts = {a1, a2}
  Concurrency = 2
  MaxRuns = 2
  MaxFaults = 1
  MaxTouches = 2
  MaxTroubles = 4
SYMMETRY AlertSymmetry
SPECIFICATION Spec
INVARIANTS
  CasesStayWhole
PROPERTIES
  FinalStays
\* analysts and senders may do nothing more
CHECK_DEADLOCK FALSE
