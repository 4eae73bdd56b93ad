CONSTANTS
    Msg = {m1, m2, m3, m4}
    Demoting = {m1}
SPECIFICATION TimedSpec
PROPERTY NestedCallHandled
CHECK_DEADLOCK FALSE
