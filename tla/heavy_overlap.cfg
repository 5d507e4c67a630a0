\* Two runs of one day at once.
CONSTANTS
    Runs = {r1, r2}
    STORES = {cl}
    SKUS = {sku1}
    CURRENCIES = {CLP}
    PRICES = {100, 115}
    RATES = {1}
    SCALE = 1
    Instants = {1, 2}
    PCT_LIMIT = 1000
    Overlap = TRUE
    USD = {100}
    MaxEdits = 0
    MaxRows = 3
    MaxFaults = 0
    currency <- OneCurrency
    RELEASES <- OnePrice
SPECIFICATION Spec
SYMMETRY Symmetry
PROPERTY ReportMatchesAlerts
CHECK_DEADLOCK FALSE
