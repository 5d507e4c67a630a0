\* The scheduled run and one manual run; seven ticks for the quarter of an hour.
CONSTANTS
    cron = c
    Runs = {c, m1}
    CRON = 7
    CACHE_TTL = 4
    PICKUP = 1
    LATENCY = 2
    RUNTIME = 1
    RETRIES = 1
    DAY = 14
    HEAVY_AT = 8
SPECIFICATION FairSpec
INVARIANTS TypeOK EveryTickSamples NeverBlindForLong DayIsClosed
PROPERTY KeepsSampling
