----------------------------- MODULE WebSearch -----------------------------
(***************************************************************************)
(* Web search: an account's search reads its preferred engine, asks that   *)
(* engine or the configured ones, falls back to the local index when all   *)
(* of them fail, reads the pages of thin results, stores the answer in a   *)
(* cache and charges the account for the priced engines that answered.     *)
(*                                                                         *)
(* Searches run at the same time and share the cache, the robots policies  *)
(* and the slots of a host; a restart brings another configuration and     *)
(* leaves the account's preference, the index and the ledger.              *)
(*                                                                         *)
(* A query stands for its normalized text with its limit and filters.  All *)
(* pages are on one host, and every page matches every query in the index. *)
(* Robots policies do not expire: MaxTime is less than their hour.         *)
(***************************************************************************)
EXTENDS SearchAlgorithms

CONSTANTS
    Engines, Queries, PageSet,
    Priced,      \* the engines that charge for a query
    Reading,     \* DeepSeek engines: they return page text, and read pages
    Restricted,  \* the queries restricted to domains
    Thin,        \* the pages engines say little about
    Banned,      \* the pages the host's robots.txt rules out
    Configs,     \* the configurations: [order, prefer, crawl]
    Replies,     \* the rows an engine may reply with
    Limit, MaxPages, MaxCached, CacheTTL,
    PerHostDelay, CrawlDelay,
    Searches,    \* numbers of searches; each is made once
    MaxTime, MaxChanges,
    None

ASSUME SearchAssumption ==
    /\ Priced \cup Reading \subseteq Engines
    /\ Thin \cup Banned \subseteq PageSet
    /\ \A c \in Configs : c.order \in Seq(Engines) /\ c.order # <<>> /\ IsInjective(c.order)
    /\ Restricted \subseteq Queries
    /\ \A rows \in Replies : rows \in Seq(ToSet(rows)) /\ Pages(rows) \subseteq PageSet
    /\ {Limit, MaxPages, MaxCached, CacheTTL} \subseteq Nat \ {0}
    /\ {PerHostDelay, CrawlDelay, MaxTime, MaxChanges} \subseteq Nat
    /\ None \notin Engines \cup Nat

VARIABLES
    clock,
    config,      \* the running server's configuration
    preference,  \* the account's row: an engine, or None
    cache,       \* cached answers by key
    index,       \* pages of the local index
    robots,      \* the parsed robots.txt of the host, or None
    lastFetch,   \* the host's next free slot, None before the first
    search,      \* the searches
    fetch,       \* their reads of pages
    changes,     \* changes of the preference, and restarts
    ledger,      \* observer: the engines each search was charged for
    sent,        \* observer: when this process sent a direct request for a page
    answered     \* observer: the engines that answered each search live

observers == <<ledger, sent, answered>>
vars == <<clock, config, preference, cache, index, robots, lastFetch, search, fetch,
          changes, observers>>

Results(list, engine) == [i \in DOMAIN list |-> [page |-> list[i].page, by |-> engine]]

Reads == Searches \X PageSet

NoSearch == [at |-> "idle", query |-> None, wanted |-> <<>>, outcome |-> <<>>,
             texts |-> {}, results |-> <<>>, charges |-> {}, fallback |-> FALSE]
Lost     == [NoSearch EXCEPT !.at = "failed"]
Unasked  == [asked |-> FALSE, ok |-> FALSE, list |-> <<>>]
NoFetch  == [at |-> "none", delay |-> 0, slot |-> 0]
Read     == [NoFetch EXCEPT !.at = "read"]
Unread   == [NoFetch EXCEPT !.at = "failed"]

SearchStages == {"idle", "lookup", "query", "crawl", "charge", "done", "failed"}
FetchStages  == {"none", "robots", "policy", "host", "waiting", "read", "failed"}

TypeOK ==
    /\ clock \in 0..MaxTime
    /\ config \in Configs
    /\ preference \in Engines \cup {None}
    /\ index \subseteq PageSet
    /\ lastFetch \in Nat \cup {None}
    /\ \A s \in Searches :
        /\ search[s].at \in SearchStages
        /\ search[s].query \in Queries \cup {None}
        /\ search[s].texts \subseteq PageSet
        /\ Len(search[s].results) <= Limit
        /\ \A p \in PageSet : fetch[<<s, p>>].at \in FetchStages /\ fetch[<<s, p>>].slot \in Nat
    /\ changes \in 0..MaxChanges
    /\ ledger \in [Searches -> Seq(Engines)]
    /\ sent \in [Reads -> Nat \cup {None}]
    /\ answered \in [Searches -> SUBSET Engines]

Init ==
    /\ clock = 0
    /\ config \in Configs
    /\ preference \in {None} \cup ToSet(config.order)
    /\ cache = <<>>
    /\ index = {}
    /\ robots = None
    /\ lastFetch = None
    /\ search = [s \in Searches |-> NoSearch]
    /\ fetch = [r \in Reads |-> NoFetch]
    /\ changes = 0
    /\ ledger = [s \in Searches |-> <<>>]
    /\ sent = [r \in Reads |-> None]
    /\ answered = [s \in Searches |-> {}]

At(s, stage) == search[s].at = stage

-----------------------------------------------------------------------------
(* The account's choice, and the start of a search.                         *)

\* An empty or unknown preference keeps the configured set.
EnginesFor(preferred) ==
    IF preferred \in ToSet(config.order) THEN <<preferred>> ELSE config.order

Billed(preferred) == ToSet(EnginesFor(preferred)) \cap Priced # {}

SetWebSearchPreference(e) ==
    /\ changes < MaxChanges
    /\ e \in {None} \cup ToSet(config.order)
    /\ preference' = e
    /\ changes' = changes + 1
    /\ UNCHANGED <<clock, config, cache, index, robots, lastFetch, search, fetch, observers>>

\* The preference is read once.  A billed search may be refused: by the
\* blacklist, for want of a wallet, at a usage limit.
SearchWeb(s, q) ==
    /\ At(s, "idle")
    /\ \A t \in Searches : t < s => ~At(t, "idle")
    /\ \/ search' = [search EXCEPT ![s].at = "lookup", ![s].query = q,
                                   ![s].wanted = EnginesFor(preference)]
       \/ Billed(preference) /\ search' = [search EXCEPT ![s] = Lost]
    /\ UNCHANGED <<clock, config, preference, cache, index, robots, lastFetch, fetch,
                   changes, observers>>

-----------------------------------------------------------------------------
(* The cache.                                                               *)

\* Mutants: a key without the engines; a hit with the charges it was stored with.
KeyOfQuery(s) == <<search[s].query>>

CacheKey(s) == <<search[s].query, search[s].wanted>>

Expired(entry) == clock - entry.stored > CacheTTL

Without(key) == [k \in DOMAIN cache \ {key} |-> cache[k]]

ChargedHit(s) ==
    LET entry == cache[CacheKey(s)] IN
    search' = [search EXCEPT ![s].at = "charge",
                             ![s].results = entry.results,
                             ![s].charges = entry.charges,
                             ![s].fallback = entry.fallback]

\* A hit made no upstream call, so it is never billed.
Hit(s) ==
    LET entry == cache[CacheKey(s)] IN
    search' = [search EXCEPT ![s].at = "charge",
                             ![s].results = entry.results,
                             ![s].charges = {},
                             ![s].fallback = entry.fallback]

Get(s) ==
    /\ At(s, "lookup")
    /\ \/ /\ CacheKey(s) \in DOMAIN cache
          /\ ~Expired(cache[CacheKey(s)])
          /\ Hit(s)
          /\ UNCHANGED cache
       \/ /\ CacheKey(s) \in DOMAIN cache => Expired(cache[CacheKey(s)])
          /\ cache' = Without(CacheKey(s))
          /\ search' = [search EXCEPT ![s].at = "query",
                                      ![s].outcome = [i \in DOMAIN search[s].wanted |-> Unasked]]
    /\ UNCHANGED <<clock, config, preference, index, robots, lastFetch, fetch, changes, observers>>

\* At capacity the expired entries go, and the oldest one if none had expired.
Kept ==
    LET fresh  == {k \in DOMAIN cache : ~Expired(cache[k])}
        oldest == CHOOSE k \in fresh : \A l \in fresh : cache[k].stored <= cache[l].stored
    IN IF Cardinality(DOMAIN cache) < MaxCached THEN DOMAIN cache
       ELSE IF Cardinality(fresh) < MaxCached THEN fresh
       ELSE fresh \ {oldest}

CacheSet(s, results, charges, fallback) ==
    LET entry == [stored |-> clock, results |-> results, charges |-> charges, fallback |-> fallback]
    IN cache' = [k \in Kept \cup {CacheKey(s)} |-> IF k = CacheKey(s) THEN entry ELSE cache[k]]

-----------------------------------------------------------------------------
(* The engines: all at once, or in order until one has results.             *)


Asked(s) == {i \in DOMAIN search[s].wanted : search[s].outcome[i].asked}

Queried(s) ==
    \/ Asked(s) = DOMAIN search[s].wanted
    \/ config.prefer /\ \E i \in Asked(s) : search[s].outcome[i].list # <<>>

\* A request that fails, a status other than success and a bot wall are
\* failures, and so is a reply about something else.
Outcomes(s, e) ==
    {Failed} \cup {IF e \in Reading /\ search[s].query \in Restricted
                  THEN RestrictAndCollect(rows, Limit)
                  ELSE Collect(rows, Unusable(rows), Limit) : rows \in Replies}

EngineAnswers(s, i) ==
    /\ At(s, "query")
    /\ ~Queried(s)
    /\ i \in DOMAIN search[s].wanted \ Asked(s)
    /\ config.prefer => i = Cardinality(Asked(s)) + 1
    /\ LET e == search[s].wanted[i] IN
       \E o \in Outcomes(s, e) :
        /\ search' = [search EXCEPT
             ![s].outcome[i] = [asked |-> TRUE, ok |-> o.ok, list |-> Results(o.list, e)],
             ![s].texts = IF e \in Reading THEN @ \cup o.texts ELSE @]
        /\ answered' = IF o.ok THEN [answered EXCEPT ![s] = @ \cup {e}] ELSE answered
    /\ UNCHANGED <<clock, config, preference, cache, index, robots, lastFetch, fetch, changes,
                   ledger, sent>>

\* Every engine that answered without an error, an empty list included.
Succeeded(s) == {i \in Asked(s) : search[s].outcome[i].ok}

ChargesFor(s) == {e \in Priced : \E i \in Succeeded(s) : search[s].wanted[i] = e}

\* The top thin results whose text no engine returned.
Candidates(s, results) ==
    LET thin == SelectSeq(results, LAMBDA r : r.page \in Thin \ search[s].texts)
    IN Pages(SubSeq(thin, 1, Min({MaxPages, Len(thin)})))

Merge(s) ==
    /\ At(s, "query")
    /\ Queried(s)
    /\ Succeeded(s) # {}
    /\ LET lists   == [i \in DOMAIN search[s].outcome |->
                          IF i \in Succeeded(s) THEN search[s].outcome[i].list ELSE <<>>]
           results == MergeResults(lists, Limit)
       IN /\ search' = [search EXCEPT ![s].at = "crawl", ![s].outcome = <<>>,
                                      ![s].results = results, ![s].charges = ChargesFor(s)]
          /\ fetch' = [r \in Reads |->
                          IF config.crawl /\ r[1] = s /\ r[2] \in Candidates(s, results)
                          THEN [fetch[r] EXCEPT !.at = "robots"] ELSE fetch[r]]
    /\ UNCHANGED <<clock, config, preference, cache, index, robots, lastFetch, changes, observers>>

\* Every engine failed: the index answers, or the search fails.
SearchIndex(s) ==
    /\ At(s, "query")
    /\ Queried(s)
    /\ Succeeded(s) = {}
    /\ LET hits    == SetToSeq({[page |-> p] : p \in index})
           results == Results(SubSeq(hits, 1, Min({Limit, Len(hits)})), "index")
       IN \/ /\ index # {}
             /\ search' = [search EXCEPT ![s].at = "charge", ![s].outcome = <<>>,
                                         ![s].results = results, ![s].fallback = TRUE]
             /\ CacheSet(s, results, {}, TRUE)
          \/ /\ search' = [search EXCEPT ![s] = Lost]
             /\ UNCHANGED cache
    /\ UNCHANGED <<clock, config, preference, index, robots, lastFetch, fetch, changes, observers>>

-----------------------------------------------------------------------------
(* Reading the pages of thin results, all of a search at once.              *)

Policies == {[banned |-> Banned, delay |-> CrawlDelay], [banned |-> {}, delay |-> 0]}

\* A permitted page is read through the first configured engine that can;
\* without one, or when it fails, directly.
After(p, policy) ==
    LET by(stage) == [at |-> stage, delay |-> policy.delay, slot |-> 0] IN
    IF p \in policy.banned THEN {Unread}
    ELSE {by("host")} \cup (IF ToSet(config.order) \cap Reading # {} THEN {Read} ELSE {})

FetchStep(s, p, f) ==
    /\ fetch' = [fetch EXCEPT ![<<s, p>>] = f]
    /\ UNCHANGED <<clock, config, preference, cache, index, search, changes, ledger, answered>>

FetchAt(s, p, stage) == fetch[<<s, p>>].at = stage

LookupRobots(s, p) ==
    /\ FetchAt(s, p, "robots")
    /\ \/ robots = None /\ FetchStep(s, p, [NoFetch EXCEPT !.at = "policy"])
       \/ robots # None /\ \E f \in After(p, robots) : FetchStep(s, p, f)
    /\ UNCHANGED <<robots, lastFetch, sent>>

\* A robots.txt that cannot be read allows everything, and is kept as well.
\* The request for it takes no slot of the host: reads that find none kept may
\* each send one at once.
FetchRobots(s, p) ==
    /\ FetchAt(s, p, "policy")
    /\ \E policy \in Policies :
        /\ robots' = policy
        /\ \E f \in After(p, policy) : FetchStep(s, p, f)
    /\ UNCHANGED <<lastFetch, sent>>

\* Mutant: the site's delay stands in for the configured one.
WaitAsAsked(s, p) ==
    /\ FetchAt(s, p, "host")
    /\ LET slot == IF lastFetch = None THEN clock ELSE Max({clock, lastFetch})
       IN /\ FetchStep(s, p, [fetch[<<s, p>>] EXCEPT !.at = "waiting", !.slot = slot])
          /\ lastFetch' = slot + fetch[<<s, p>>].delay
    /\ UNCHANGED <<robots, sent>>

\* Takes the next free slot of the host, or none when there is no delay.
WaitForHost(s, p) ==
    /\ FetchAt(s, p, "host")
    /\ LET delay == Max({PerHostDelay, fetch[<<s, p>>].delay})
           slot  == IF lastFetch = None THEN clock ELSE Max({clock, lastFetch})
       IN IF delay = 0
          THEN /\ FetchStep(s, p, [fetch[<<s, p>>] EXCEPT !.at = "waiting", !.slot = clock])
               /\ UNCHANGED lastFetch
          ELSE /\ FetchStep(s, p, [fetch[<<s, p>>] EXCEPT !.at = "waiting", !.slot = slot])
               /\ lastFetch' = slot + delay
    /\ UNCHANGED <<robots, sent>>

\* The page arrives or does not.
DirectRead(s, p) ==
    /\ FetchAt(s, p, "waiting")
    /\ fetch[<<s, p>>].slot <= clock
    /\ sent' = [sent EXCEPT ![<<s, p>>] = clock]
    /\ \E f \in {Read, Unread} : FetchStep(s, p, f)
    /\ UNCHANGED <<robots, lastFetch>>

\* A caller that goes away ends the wait; the slot stays taken.
CancelWait(s, p) ==
    /\ FetchAt(s, p, "waiting")
    /\ FetchStep(s, p, Unread)
    /\ UNCHANGED <<robots, lastFetch, sent>>

-----------------------------------------------------------------------------
(* The end of a search.                                                     *)

ReadPages(s) == {p \in PageSet : FetchAt(s, p, "read")}

\* The answer is cached whether or not it is paid.
\* The pages are stored in one statement; the answer does not depend on it.
StoreAnswer(s) ==
    /\ At(s, "crawl")
    /\ \A p \in PageSet : fetch[<<s, p>>].at \in {"none", "read", "failed"}
    /\ search' = [search EXCEPT ![s].at = "charge", ![s].texts = {}]
    /\ \/ config.crawl /\ index' = index \cup search[s].texts \cup ReadPages(s)
       \/ UNCHANGED index
    /\ CacheSet(s, search[s].results, search[s].charges, FALSE)
    /\ fetch' = [r \in Reads |-> IF r[1] = s THEN NoFetch ELSE fetch[r]]
    /\ UNCHANGED <<clock, config, preference, robots, lastFetch, changes, observers>>

\* Engines are charged in the order they were asked in.
NextCharge(s) ==
    LET wanted == search[s].wanted
    IN wanted[Min({i \in DOMAIN wanted : wanted[i] \in search[s].charges})]

\* A charge that fails, with its row or without, loses the answer.
ChargeEngine(s) ==
    /\ At(s, "charge")
    /\ search[s].charges # {}
    /\ \E row, ok \in BOOLEAN :
        /\ ok => row
        /\ ledger' = IF row THEN [ledger EXCEPT ![s] = Append(@, NextCharge(s))] ELSE ledger
        /\ search' = IF ok THEN [search EXCEPT ![s].charges = @ \ {NextCharge(s)}]
                     ELSE [search EXCEPT ![s] = Lost]
    /\ UNCHANGED <<clock, config, preference, cache, index, robots, lastFetch, fetch, changes,
                   sent, answered>>

Deliver(s) ==
    /\ At(s, "charge")
    /\ search[s].charges = {}
    /\ search' = [search EXCEPT ![s].at = "done"]
    /\ UNCHANGED <<clock, config, preference, cache, index, robots, lastFetch, fetch, changes,
                   observers>>

-----------------------------------------------------------------------------
(* Time, and a restart with any configuration.                              *)

\* Timers fire on time: a wait that is over is not outrun by the clock.
Tick ==
    /\ clock < MaxTime
    /\ \A r \in Reads : fetch[r].at = "waiting" => fetch[r].slot > clock
    /\ clock' = clock + 1
    /\ UNCHANGED <<config, preference, cache, index, robots, lastFetch, search, fetch, changes,
                   observers>>

Restart ==
    /\ changes < MaxChanges
    /\ changes' = changes + 1
    /\ config' \in Configs
    /\ cache' = <<>>
    /\ robots' = None
    /\ lastFetch' = None
    /\ search' = [s \in Searches |-> IF At(s, "idle") \/ At(s, "done") THEN search[s]
                                     ELSE Lost]
    /\ fetch' = [r \in Reads |-> NoFetch]
    /\ sent' = [r \in Reads |-> None]
    /\ UNCHANGED <<clock, preference, index, ledger, answered>>

FetchNext(s, p) ==
    \/ LookupRobots(s, p) \/ FetchRobots(s, p)
    \/ WaitForHost(s, p) \/ DirectRead(s, p) \/ CancelWait(s, p)

SearchNext(s) ==
    \/ \E q \in Queries : SearchWeb(s, q)
    \/ Get(s)
    \/ \E i \in DOMAIN search[s].wanted : EngineAnswers(s, i)
    \/ Merge(s) \/ SearchIndex(s)
    \/ StoreAnswer(s) \/ ChargeEngine(s) \/ Deliver(s)

Next ==
    \/ \E e \in Engines \cup {None} : SetWebSearchPreference(e)
    \/ \E s \in Searches : SearchNext(s) \/ \E p \in PageSet : FetchNext(s, p)
    \/ Tick
    \/ Restart

Spec == Init /\ [][Next]_vars

-----------------------------------------------------------------------------
(* Properties.                                                              *)

\* A search is charged for the priced engines that answered it live and for
\* nothing else: not for an engine that failed or was not asked, not for an
\* answer of the cache or the index, not twice; and what it delivers is
\* charged in full.
ChargedWhatAnswered ==
    \A s \in Searches :
        /\ IsInjective(ledger[s])
        /\ ToSet(ledger[s]) \subseteq answered[s] \cap Priced
        /\ At(s, "done") => answered[s] \cap Priced \subseteq ToSet(ledger[s])

\* An account that keeps its searches on one engine is shown no result of
\* another one, though searches of all accounts share the cache; only the
\* index may stand in.
AnsweredByItsEngines ==
    \A s \in Searches :
        At(s, "done") /\ ~search[s].fallback
            => \A i \in DOMAIN search[s].results : search[s].results[i].by \in ToSet(search[s].wanted)

\* The pages this process itself reads of a host are asked for at least the
\* configured delay apart, whichever searches they belong to, and whatever
\* reading the robots.txt came to.  (The request for robots.txt is not a page
\* read, and is not among them.)
PageReadsSpaced ==
    \A r, t \in Reads :
        r # t /\ sent[r] # None /\ sent[t] # None
            => sent[r] >= sent[t] + PerHostDelay \/ sent[t] >= sent[r] + PerHostDelay
=============================================================================
