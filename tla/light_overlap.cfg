\* Two runs that may overlap, one store, a cache that may be lost, one fault.
CONSTANTS
    Runs = {r1, r2}
    STORE_IDS = {cl}
    FX = FX
    SKUS = {sku1}
    Catalog = {sku1}
    QUOTE_CURRENCIES = {CLP}
    PRICES = {100, 105}
    RATES = {1}
    PRODUCT_LISTS <- OnePrice
    RATE_TABLES <- AnyRates
    drift_threshold_pct = 5
    PCT_LIMIT = 1000000
    RETRIES = 0
    CACHE_TTL = 2
    MINUTE = 2
    Overlap = TRUE
    CacheDurable = FALSE
    MaxTime = 2
    MaxFaults = 1
SPECIFICATION Spec
SYMMETRY Symmetry
INVARIANTS TypeOK UniqueRows PersistedByStage EventsGrounded
PROPERTY FirstWriteWins
CHECK_DEADLOCK FALSE
