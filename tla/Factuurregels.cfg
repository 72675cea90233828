SPECIFICATION Spec
CONSTANTS
    c1 = c1
    c2 = c2
    plain = plain
    nested = nested
    None = None
    Code = {c1, c2}
    Description <- Descriptions
    Percentage = {0, 21}
    Factuur = {plain, nested}
    Regels <- RegelsOf
    Lists <- AllLists
    Scale = 1000000
INVARIANTS TypeOK OkPageConverts CodeIsMarked WalkIsFlat AmountsAddUp
