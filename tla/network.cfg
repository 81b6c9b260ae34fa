SPECIFICATION MCSpec
CONSTANTS
    h1 = h1
    h2 = h2
    g1 = g1
    g2 = g2
    h4 = h4
    p1 = p1
    p2 = p2
    Dialler = h1
    Acceptor = h2
    LocalSends <- MCLocalSends
    Closing = {h1, h2}
    LocalMaxBuffer = 1
    MaxRetries = 2
    Servers = {h1}
    Calls = {g1, g2}
    Asks <- MCAsks
    MaxRetryConnect = 2
    Direct = {h4}
    Proxied = {p1, p2}
    Proxy = proxy
    Measures <- MCMeasures
    Routers = {h1, h2}
    Sends <- MCSends
    Stopping = {h2}
    Impatient = {h1}
    MaxConns = 2
    MaxTimeouts = 1
    Senders = {g1, g2}
    Lengths = {1, 2, 3}
    MaxPacketSize = 2
    MaxSent = 3
    MaxDials = 2
    MaxStops = 2
    h3 = h3
    ByteBits = 3
    Generators <- MCGenerators
    StatKeys = {"f", "m"}
    Percentiles <- MCPercentiles
    Times = {1, 4}
    MaxStored = 3
    MaxCollects = 2
    TreeNodes = {1, 2, 3, 4}
    TopNode = 1
    ParentOf <- MCParentOf
    ServerOf <- MCServerOf
    CloseParent <- MCCloseParent
    MaxDoublings = 2
    MaxRuns = 2
    SimHosts = {1, 2}
    RunConfigs <- MCRunConfigs
    RunFiles <- MCRunFiles
    SimRanges <- MCSimRanges
    Lower <- MCLower
    Unquoted <- MCUnquoted

    
    
    
PROPERTIES
    
    LocalPromise
    TcpPromise
    WebPromise
    MonitorPromise
    SimulationPromise
    RunsPromise
CHECK_DEADLOCK FALSE
