SPECIFICATION JobsSpec
CONSTANTS
    Workers = {1, 2}
    Tunnels = {1, 2, 3}
    MaxConns = 2
INVARIANTS
    JobsTypeOK
    OpenTunnelHasJob
PROPERTIES
    ClosedTunnelDrains
