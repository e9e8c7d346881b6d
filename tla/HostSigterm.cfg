\* A serve that is told to stop while it starts.
SPECIFICATION Spec
CONSTANTS
    p1 = p1  p2 = p2  p3 = p3  Nobody = Nobody
    Id = {p1, p2, p3}
    CommandLines <- OneServe
    BytesOf <- MCBytes
    Address <- MCAddress
    Valid = {"a1", "a2", "a3"}
    OldServers = {"old"}
    OldReplies <- MCReplies
    ForeignCalls <- MCForeign
    StartHolds <- MCHolds
    StartPeers <- MCPeers
    Numerals <- MCNumerals
    DrainSlices = 2
    MaxDepth = 3
    AddressLen = 2
    MaxFrame = 80
    MaxBody = 24
    ChainMax = 5000
    TokenMin = 3
INVARIANTS OnlyKillLeaves
