\* Two runs overlap across a minute boundary.
CONSTANTS
    Runs = {r1, r2}
    STORE_IDS = {cl}
    FX = FX
    SKUS = {sku1}
    Catalog = {sku1}
    QUOTE_CURRENCIES = {CLP}
    PRICES = {100, 105}
    RATES = {1}
    PRODUCT_LISTS <- OnePrice
    RATE_TABLES <- AnyRates
    drift_threshold_pct = 5
    PCT_LIMIT = 100
    RETRIES = 0
    CACHE_TTL = 2
    MINUTE = 2
    Overlap = TRUE
    CacheDurable = TRUE
    MaxTime = 3
    MaxFaults = 0
SPECIFICATION Spec
SYMMETRY Symmetry
INVARIANT ComparesWithPrior
CHECK_DEADLOCK FALSE
