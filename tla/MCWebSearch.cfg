SPECIFICATION Spec
CONSTANTS
    api = api
    scrape = scrape
    q1 = q1
    p1 = p1
    p2 = p2
    None = None
    Engines = {api, scrape}
    Queries = {q1}
    PageSet = {p1, p2}
    Priced = {api}
    Reading = {api}
    Restricted = {q1}
    Thin = {p1, p2}
    Banned = {}
    Configs <- Servers
    Replies <- Rows
    Limit = 2
    MaxPages = 1
    MaxCached = 1
    CacheTTL = 1
    PerHostDelay = 1
    CrawlDelay = 2
    Searches = {1, 2}
    MaxTime = 2
    MaxChanges = 1
INVARIANT ChargedWhatAnswered
INVARIANT AnsweredByItsEngines
INVARIANT PageReadsSpaced
CHECK_DEADLOCK FALSE
