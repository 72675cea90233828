SPECIFICATION Spec
CONSTANTS
    None = None
    timer = timer
    web = web
    d1 = d1
    b1 = b1
    b2 = b2
    f1 = f1
    f2 = f2
    f3 = f3
    k1 = k1
    p1 = p1
    hoog = hoog
    Client = {timer, web}
    Timer = timer
    Division = {d1}
    Klant = {k1}
    Product = {p1}
    Factuur = {f1}
    BTW = {hoog}
    Bedrijf = {b1}
    DefaultDivision = d1
    Contains <- DistinctNumbers
    DivisionOf <- AllKnown
    BedrijfOf <- JointInvoices
    KlantOf <- OneKlant
    Regels <- SingleLine
SYMMETRY Clients
INVARIANTS AtMostOncePerClient NoNeedlessMasterData
