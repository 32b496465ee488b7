CONSTANTS
    s1 = s1  a1 = a1  a2 = a2  n1 = n1
    Absent = Absent
    Svcs <- MCSvcs
    Addrs <- MCAddrs
    PortNames <- MCPortNames
    PortNums <- MCPortNums
    NodePortSvcs = {}
    ExtIPSvcs = {}
    LBSvcs <- MCSvcs
    MaxEvents = 3
    MaxFailures = 0
    MaxRestarts = 0
    SliceIds = {1}
SPECIFICATION SliceSpec
INVARIANT SliceEndpointsInstalled
INVARIANT EndpointRulesInstalled
PROPERTY SliceRefinement
