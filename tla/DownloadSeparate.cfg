\* A download with a name and a destination of its own, offered a useless, an
\* unreliable and an honest seeder; beside it two files of one name, from two
\* groups, downloaded into two places, one of them on a
\* disk where anything may fail.
CONSTANTS
    None = None
    j1 = j1
    j2 = j2
    j3 = j3
    n1 = n1
    n2 = n2
    d1 = d1
    d2 = d2
    d3 = d3
    fa = fa
    fb = fb
    honest = honest
    flaky = flaky
    stale = stale
    dying = dying
    Job = {j1, j2, j3}
    Name = {n1, n2}
    Dest = {d1, d2, d3}
    File = {fa, fb}
    Peer = {honest, flaky, stale, dying}
    MaxPieces = 2
    NameOf <- Names
    DestOf <- Dests
    FileOf <- Files
    Size <- Sizes
    Listed <- AllPieces
    Seeders <- MixedPeers
    Answers <- Behaviour
    Healthy = {d1, d2}
SPECIFICATION FairSpec
CONSTRAINT TwoAtATime
CHECK_DEADLOCK FALSE
INVARIANTS
    TypeOK
    VerifiedParts
    NotifiedHeld
    AloneIsWhole
    SeedsWhole
    NoSocketLeak
PROPERTIES
    IsTransfer
    WorkerEnds
    GoodSeederSuffices
