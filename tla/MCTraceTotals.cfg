SPECIFICATION AnalysisSpec
CONSTANTS
  g1 = g1  g2 = g2
  n1 = n1  n2 = n2
  GasNames = {g1, g2}
  Amounts = {600}
  SpanNames = {n1, n2}
  MaxEvents = 7
INVARIANT AnalysisTypeOK
INVARIANT TotalsExact
INVARIANT SelfExact
INVARIANT PanicsOnMalformed
INVARIANT SumListedFirst
SYMMETRY NamesSymmetry
CHECK_DEADLOCK FALSE
