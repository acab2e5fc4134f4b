CONSTANTS
    Ids = {o1, o2, o3}
    MaxPrice = 3
    MaxOrders = 3
    None = None
    Prices <- MCPrices
    Quantities <- MCQuantities

SPECIFICATION Spec

SYMMETRY IdSymmetry

INVARIANT EveryUnitIsAccountedFor
