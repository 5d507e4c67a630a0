\* Two runs that may overlap, three instants, a catalogue that is edited, a fault.
\* In USD the two prices at the two rates are 20, 21, 21.9 and 23: 0, 5, 9.5 and 15
\* percent above a canonical price of 20, 17 to 4 percent below one of 24, and
\* infinitely far from 0, which no percentage column holds.
CONSTANTS
    Runs = {r1, r2}
    STORES = {cl}
    SKUS = {sku1}
    CURRENCIES = {CLP}
    PRICES = {460, 483}
    RATES = {21, 23}
    SCALE = 483
    Instants = {1, 2, 3}
    PCT_LIMIT = 90
    Overlap = TRUE
    USD = {0, 20, 24}
    MaxEdits = 1
    MaxRows = 3
    MaxFaults = 1
    currency <- OneCurrency
    RELEASES <- OnePrice
SPECIFICATION Spec
SYMMETRY Symmetry
INVARIANTS TypeOK AlertsGrounded SeverityFits
PROPERTY RatesSettle
CHECK_DEADLOCK FALSE
