SPECIFICATION Spec
CONSTANTS
    x = x y = y z = z
    Syncs = {cron}
    Results <- MCResults
    Cves = {1, 2, 3}
    Published <- MCPublished
    Severe = {1, 2}
    AiStrikes = {x, y, z}
    Genuine = {y, z}
    Typed = {x, y}
    Limits = {1, 2, 3}
    MaxPage = 4
    PrefixLimit = 2
INVARIANTS
    LatestNewestFirst
