\* Two builds of two assets, three service workers and one tab.
SPECIFICATION Spec
CONSTANTS
    Asset = {app, decoder}
    Tab = {t1}
    MaxVersion = 2
    MaxWorkers = 3
    MaxCaches = 3
INVARIANTS
    ServedPagesMatch
PROPERTIES
    WorkingCacheKept
