CONSTANTS
    Msg = {m1, m2, m3, m4}
    Demoting = {m1, m2}
SPECIFICATION Spec
INVARIANT TypeOK
PROPERTIES HandledInOrder EveryMessageHandled
CHECK_DEADLOCK FALSE
