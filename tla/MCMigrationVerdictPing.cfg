SPECIFICATION Spec
CONSTANTS
    NextHops <- MCNextHops
    Hosts <- MCHosts
    Own = {"me"}
    Nets <- MCNets
    SmallNets = {"narrow"}
    NetOf <- MCNetOf
    Profiles <- MCProfiles
    MaxLost = 0
    Views <- PingViews
    Blocks <- PingBlocks
INVARIANT PingSkipIsNamed
CHECK_DEADLOCK FALSE
