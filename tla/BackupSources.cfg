SPECIFICATION SourcesSpec
CONSTANTS
    l1 = l1
    l2 = l2
    u1 = u1
    u2 = u2
    Cap = 3
    Links = {l1, l2}
    Foreign = "elsewhere"
    Users = {"owner", "router"}
    Excluded = {"router"}
    Urls = {u1, u2}
    Feeds <- MCFeeds
    Imports <- MCImports
    Kinds = {"backup-replace", "backup-refresh", "backup-remove", "backup-import", "backup-remove-manual",
             "auto", "refresh", "replace", "configure", "sync"}
    MaxOps = 2
    MaxTimers = 1
    MaxDays = 1
    MaxTroubles = 2
SYMMETRY Symmetry
CHECK_DEADLOCK FALSE
PROPERTIES EachKeepsItsPart OkMeansPublished LivingLinkIsKept
