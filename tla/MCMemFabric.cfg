CONSTANTS
    InfTime = 20
    NHosts = 3
    Addrs <- MCAddrs
    Devices <- MCDevices
    AddrMap <- MCAddrMap
    DefaultDevice = "sdram"
    Latency <- MCLatency
    ReissueHosts = {1}
    freq_ratio = 2
    N_HOSTS = 2
    Banks = {0}
    Rows = {0, 1}
    REFRESH_PERIOD = 3
    PER_WORD = 2
    ACT_COST = 1
    PRE_COST = 1
    RD_BASE = 1
    WR_BASE = 0
    bst_len = 1
    Sdrams = {"sdram"}
    BankOf <- MCBankOf
    RowOf <- MCRowOf
    Traffic <- MCTraffic
SPECIFICATION FabricSpec
INVARIANTS
    StartedOnce
    WorkConserving
    RefreshOnTime
PROPERTIES
    PriorityRespected
    NotPreempted
    HostInOrder
    ServedUnlessOutranked
