\* Two runs that take turns, fair scheduling, retries, no fault: all goes well.
CONSTANTS
    Runs = {r1, r2}
    STORE_IDS = {cl}
    FX = FX
    SKUS = {sku1}
    Catalog = {sku1}
    QUOTE_CURRENCIES = {CLP}
    PRICES = {100, 105}
    RATES = {1}
    PRODUCT_LISTS <- OnePrice
    RATE_TABLES <- AnyRates
    drift_threshold_pct = 5
    PCT_LIMIT = 1000000
    RETRIES = 1
    CACHE_TTL = 1
    MINUTE = 1
    Overlap = FALSE
    CacheDurable = TRUE
    MaxTime = 2
    MaxFaults = 0
SPECIFICATION FairSpec
PROPERTIES RunsEnd StepsRunOut FetchedIsStored ImplementsMonitor
CHECK_DEADLOCK FALSE
