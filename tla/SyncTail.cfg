\* A peer with one body more than a pull looks at.
SPECIFICATION FairSpec
CONSTANTS
    a = a  b = b  dead = dead  liar = liar  full = full
    x = x  y = y  z = z
    Nodes = {a, b}
    Loopers = {a}
    Bodies = {x, y, z}
    Peers <- PairPeers
    Dead = {}
    Liars = {}
    Claims = {}
    Locked = {}
    Full = {}
    ChainCap = 3
    FetchCap = 2
    PushCap = 2
    MaxBreaks = 0
    StartHolds <- TailHolds
PROPERTIES Pulled
