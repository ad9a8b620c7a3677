SPECIFICATION StateSpec
CONSTANTS
    NK = 3
    Layers <- TheLayers
    Angstroms <- TheAngstroms
    Depths <- TheDepths
    Cells <- TheCells
    Halo <- TheHalo
    Beyond = "beyond"
    From <- TheFrom
INVARIANTS
    WalkIsTheHighest
    LayersFillTheColumn
    NoVanishedLayer
