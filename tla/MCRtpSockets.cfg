SPECIFICATION Spec
CONSTANTS
    c1 = c1
    c2 = c2
    Conns <- MCConns
    Fds <- MCFds
    PortMod = 8
    Reserved = 2
    Tries = 2
    MaxLocalIps = 1
SYMMETRY Symmetry
INVARIANTS
    DescriptorsAccounted
    InstancesOpen
    PortsPaired
