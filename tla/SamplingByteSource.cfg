SPECIFICATION Spec
CONSTANT MaxSamples = 8
INVARIANTS TypeOK EveryEdgeSampled
PROPERTIES SpansInOrder CursorsOnlyAdvance NoAssertionMissed ImplementsChipSelects NothingLostAtTheEnd
CHECK_DEADLOCK FALSE
