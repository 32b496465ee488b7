CONSTANTS
    s1 = s1  s2 = s2  a1 = a1  a2 = a2  n1 = n1
    Absent = Absent
    Svcs <- MCSvcs
    Addrs <- MCAddrs
    PortNames <- MCPortNames
    PortNums <- MCPortNum
    NodePortSvcs = {}
    ExtIPSvcs = {}
    LBSvcs = {}
    MaxEvents = 3
    MaxFailures = 0
    MaxRestarts = 0
SPECIFICATION Spec
INVARIANT DeletedEndpointsForgotten
