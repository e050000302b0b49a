SPECIFICATION Spec
CONSTANT MaxInFlight = 3
INVARIANT IntervalCapped
