SPECIFICATION Spec
CONSTANTS
    Clients <- MCClients
    Proxies <- MCProxies
    ClientXFF <- MCXFF
    ClientProto <- MCProto
    MaxHops = 3
    None = None
INVARIANTS
    OriginIsReal
    SchemeIsClients
