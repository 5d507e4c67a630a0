\* Three runs one after the other, a durable cache, an unknown sku, one fault.
CONSTANTS
    Runs = {r1, r2, r3}
    STORE_IDS = {cl}
    FX = FX
    SKUS = {sku1, sku2}
    Catalog = {sku1}
    QUOTE_CURRENCIES = {CLP}
    PRICES = {0, 100, 105}
    RATES = {1}
    PRODUCT_LISTS <- WithUnknownSku
    RATE_TABLES <- AnyRates
    drift_threshold_pct = 5
    PCT_LIMIT = 100
    RETRIES = 0
    CACHE_TTL = 2
    MINUTE = 2
    Overlap = FALSE
    CacheDurable = TRUE
    MaxTime = 4
    MaxFaults = 1
SPECIFICATION Spec
SYMMETRY Symmetry
INVARIANTS EventsBacked ExactUnlessLost
PROPERTIES ReplayIsNoop ImplementsLossyMonitor PastIsSettled
CHECK_DEADLOCK FALSE
