SPECIFICATION FairSpec
CONSTANTS
    n1 = n1
    n2 = n2
    ip1 = ip1
    ip2 = ip2
    alpha = alpha
    beta = beta
    None = None
    Foreign = Foreign
    Network = {n1, n2}
    Bridge = {virbr0, virbr1}
    IP = {ip1, ip2}
    Host = {alpha, beta}
    Wanted <- MCWanted
    Mishap <- MCMishap
INVARIANTS
    TypeOK
    NothingLeaks
    BridgesDiffer
    StateTellsHosts
PROPERTIES
    UnchangedHostsStay
    DeletesSucceed
    EveryOperationEnds
