SPECIFICATION Spec
CONSTANTS
    Calls = {c1, c2}
    Prices = {1, 2}
    Stocks = {1}
    MaxSkus = 3
    MaxGroups = 1
    MaxEdits = 3
    Mixes <- MCMixes
INVARIANTS
    CatalogIsSound

    
