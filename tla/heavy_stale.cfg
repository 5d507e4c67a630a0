\* Two runs one after the other, and a catalogue that may be edited between them.
CONSTANTS
    Runs = {r1, r2}
    STORES = {cl}
    SKUS = {sku1}
    CURRENCIES = {CLP}
    PRICES = {100, 115}
    RATES = {1}
    SCALE = 1
    Instants = {1}
    PCT_LIMIT = 1000
    Overlap = FALSE
    USD = {100}
    MaxEdits = 1
    MaxRows = 2
    MaxFaults = 0
    currency <- OneCurrency
    RELEASES <- OnePrice
SPECIFICATION Spec
SYMMETRY Symmetry
PROPERTY OverwritesPrevious
CHECK_DEADLOCK FALSE
