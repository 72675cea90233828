SPECIFICATION FairSpec
CONSTANTS
    h1 = h1
    h2 = h2
    u1 = u1
    u2 = u2
    g1 = g1
    g2 = g2
    timer = timer
    web1 = web1
    NoRow = NoRow
    Null = Null
    Empty = Empty
    Host = {h1, h2}
    User = {u1, u2}
    HostOf <- TwoHosts
    Run = {timer}
    Timer = timer
    MaxDraw = 2
    Grant = {g1}
INVARIANTS TypeOK QuietLinkSticks
PROPERTIES DailySync WorkingLinkSurvives
