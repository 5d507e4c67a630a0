\* One fault between the upserts, then a re-trigger.
CONSTANTS
    Runs = {r1, r2, r3}
    STORE_IDS = {cl}
    FX = FX
    SKUS = {sku1}
    Catalog = {sku1}
    QUOTE_CURRENCIES = {CLP}
    PRICES = {100, 105}
    RATES = {1}
    PRODUCT_LISTS <- WithUnknownSku
    RATE_TABLES <- AnyRates
    drift_threshold_pct = 5
    PCT_LIMIT = 100
    RETRIES = 0
    CACHE_TTL = 2
    MINUTE = 2
    Overlap = FALSE
    CacheDurable = TRUE
    MaxTime = 4
    MaxFaults = 1
SPECIFICATION Spec
SYMMETRY Symmetry
INVARIANT RerunsRepair
CHECK_DEADLOCK FALSE
