\* Three runs one after the other over two skus, rows arriving all the while,
\* one fault, a catalogue that is seeded, released and edited, percentages of
\* one product that do not fit though the average does.
CONSTANTS
    Runs = {r1, r2, r3}
    STORES = {cl}
    SKUS = {sku1, sku2}
    CURRENCIES = {CLP}
    PRICES = {100}
    RATES = {1, 2}
    SCALE = 2
    Instants = {1, 2}
    PCT_LIMIT = 50
    Overlap = FALSE
    USD = {100, 110}
    MaxEdits = 1
    MaxRows = 3
    MaxFaults = 1
    currency <- OneCurrency
    RELEASES <- TwoReleases
SPECIFICATION Spec
SYMMETRY Symmetry
PROPERTIES ReportMatchesAlerts LeftoversExplained NeverForgets CaptureAccepted
CHECK_DEADLOCK FALSE
