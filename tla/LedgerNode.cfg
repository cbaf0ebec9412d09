\* Three clients for two slots.
CONSTANTS
    Conn = {k1, k2, k3}
    MaxConnections = 2
SPECIFICATION FairSpec
CHECK_DEADLOCK FALSE
INVARIANTS TypeOK NoLostWakeup
PROPERTIES StopsUnlessBusy
