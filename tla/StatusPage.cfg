SPECIFICATION Spec
CONSTANTS
    b1 = b1
    b2 = b2
    d1 = d1
    d2 = d2
    v1 = v1
    v2 = v2
    v3 = v3
    hoog = hoog
    Blank = Blank
    None = None
    Bedrijf = {b1, b2}
    Division = {d1, d2}
    VAT = {v1, v2, v3}
    VATOf <- KnownAndUnknown
    VATNumber <- VATNumbers
    Visible <- OnlyItself
    DefaultDivision = d2
    BTW = {hoog}
INVARIANTS TypeOK ReadyIsTrue ErrorIsTrue ReadyIsShown
