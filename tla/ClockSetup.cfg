SPECIFICATION Spec
INVARIANTS
  CounterTellsTime
