\* A catalogue that is seeded, released with another price and seeded again; no
\* operator touches it.
CONSTANTS
    Runs = {r1}
    STORES = {cl}
    SKUS = {sku1, sku2}
    CURRENCIES = {CLP}
    PRICES = {100}
    RATES = {1}
    SCALE = 1
    Instants = {1}
    PCT_LIMIT = 1000
    Overlap = FALSE
    USD = {100, 110}
    MaxEdits = 0
    MaxRows = 2
    MaxFaults = 0
    currency <- OneCurrency
    RELEASES <- TwoReleases
SPECIFICATION Spec
PROPERTY SeedMatchesData
CHECK_DEADLOCK FALSE
