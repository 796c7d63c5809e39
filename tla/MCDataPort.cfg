CONSTANTS
    InfTime = 9
    Addrs = {0, 1, 2}
    Ports <- MCPorts
    MemLats = {0, 1, 3}
SPECIFICATION Spec
INVARIANTS
    LoadSeesStores
    DrainsInOrder
PROPERTIES
    RefusedIsServed
    ImplementsPort
