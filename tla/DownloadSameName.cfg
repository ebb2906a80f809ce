\* One name downloaded twice, into two places.
CONSTANTS
    None = None
    j1 = j1
    j2 = j2
    j3 = j3
    n1 = n1
    n2 = n2
    d1 = d1
    d2 = d2
    d3 = d3
    fa = fa
    fb = fb
    honest = honest
    flaky = flaky
    stale = stale
    dying = dying
    Job = {j1, j2}
    Name = {n1, n2}
    Dest = {d1, d2}
    File = {fa, fb}
    Peer = {honest, flaky, stale, dying}
    MaxPieces = 2
    NameOf <- SameName
    DestOf <- TwoDests
    FileOf <- SameFile
    Size <- Sizes
    Listed <- FullTwice
    Seeders <- HonestPeers
    Answers <- Behaviour
    Healthy = {d1, d2}
SPECIFICATION Spec
CHECK_DEADLOCK FALSE
INVARIANTS
    CompleteIsWhole
