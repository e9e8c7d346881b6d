\* Two loops; a dead, a lying and a full peer, corrupt files, a broken connection.
SPECIFICATION FairSpec
CONSTANTS
    a = a  b = b  dead = dead  liar = liar  full = full
    x = x  y = y  z = z
    Nodes = {a, b, dead, liar, full}
    Loopers = {a, b}
    Bodies = {x, y, z}
    Peers <- MCPeers
    Dead = {dead}
    Liars = {liar}
    Claims <- MCClaims
    Locked = {liar, full}
    Full = {full}
    ChainCap = 3
    FetchCap = 3
    PushCap = 2
    MaxBreaks = 1
    StartHolds <- MCHolds
INVARIANTS TypeOK
PROPERTIES OnlyCarries SyncedMeansUnion  Pushed
