SPECIFICATION Spec
CONSTANTS
    NextHops <- MCNextHops
    Hosts <- MCHosts
    Own = {"me"}
    Nets <- MCNets
    SmallNets = {"narrow"}
    NetOf <- MCNetOf
    Profiles <- MCProfiles
    MaxLost = 1
    Views <- MCViews
    Blocks <- MCBlocks
CHECK_DEADLOCK FALSE
INVARIANTS UnchangedIsEvidence FaultIsReported StableServiceNeverBlamed ChangeIsWarning DeactivationIsReported PortMeasuredOnce LostHostIsReported
