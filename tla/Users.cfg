\* Two callers, each with transactions of its own or without, two addresses,
\* and no more connections than two.
SPECIFICATION FairSpec
CONSTANTS
    Caller = {p1, p2}
    MaxConn = 2
    Email = {a, b}
    MaxId = 2
    None = None
    Keep = Keep
    All = All
INVARIANT TypeOK
INVARIANT OneUserPerEmail
INVARIANT SignupsApart
PROPERTY CallerCommits
PROPERTY CallsEnd
