--------------------------- MODULE UpstreamRouter ---------------------------
(***************************************************************************)
(* Upstream selection and its hot reload, src/pingora-waf/src/upstream/:  *)
(* UpstreamRouter (router.rs), UpstreamManager (manager.rs) and the       *)
(* UpstreamUpdater service (update.rs).                                    *)
(*                                                                         *)
(* Request tasks take the published router (proxy.rs 147) and call        *)
(* pick_endpoint_and_edge_key: strip the port, resolve the host's CNAME   *)
(* (static table, or DNS with a cache and a chain walk that suspends at   *)
(* every lookup), extract the tenant with the router's regex and pick an  *)
(* upstream round-robin with the counter of the edge key.  The updater    *)
(* polls the mtime of upstream.yaml and swaps in a new router built by    *)
(* UpstreamRouter::new, which starts with an empty CNAME cache and empty  *)
(* round-robin counters.                                                   *)
(*                                                                         *)
(* Every router ever published is kept in sequences indexed by its        *)
(* generation, since a task keeps using the router it took.  The file's   *)
(* mtime grows with its version.                                           *)
(***************************************************************************)
EXTENDS Naturals, Sequences, FiniteSets

CONSTANTS
    Configs,      \* [0..MaxVersion -> UpstreamConfigFile or BadConfig]
    BadConfig,    \* a version that fails to parse or whose regex fails to compile
    Dns,          \* [DnsNames -> answer of a CNAME query]
    Flaky,        \* names whose lookup may fail (timeout, server error)
    HostHeaders,  \* Host header values, as their ':'-separated segments
    Digits,       \* segments made only of ASCII digits, the empty one included
    Lower(_),     \* ASCII lowercase of a name
    Captures(_, _), \* group 1 of regex re on a CNAME, or NoValue
    Tasks,        \* request tasks running concurrently
    MaxReqs,      \* bound on requests
    MaxTime,      \* bound on the clock (seconds)
    MaxVersion,   \* bound on edits of upstream.yaml
    NoValue,      \* Option::None
    NoEntry,      \* no cache entry for a name
    ResolveErr    \* resolve_cname returned Err

Versions == 0..MaxVersion
DnsNames == DOMAIN Dns

(* A Host header is given by its ':'-separated segments; Joined puts the *)
(* ':' back.                                                               *)
RECURSIVE Joined(_)
Joined(h) == IF Len(h) = 1 THEN h[1] ELSE Joined(SubSeq(h, 1, Len(h) - 1)) \o ":" \o h[Len(h)]

(* strip_port, router.rs 262-271: drop the part after the last ':' when it *)
(* is all ASCII digits (the empty part included).                          *)
StripPort(h) ==
    IF Len(h) > 1 /\ h[Len(h)] \in Digits THEN Joined(SubSeq(h, 1, Len(h) - 1)) ELSE Joined(h)

Names == DnsNames \cup {StripPort(h) : h \in HostHeaders}

(* The answer of resolver.lookup(cur, CNAME), router.rs 200-217: the first *)
(* CNAME record, NoRecordsFound, or records none of which is a CNAME:     *)
(* kind "cname" (with its target), "noRecords" or "noCname".              *)
Answer(n) == IF n \in DnsNames THEN Dns[n] ELSE [kind |-> "noRecords"]

DefaultOr(x, d) == IF x = NoValue THEN d ELSE x

(* UpstreamRouter::new, router.rs 59-113: static mode has no cache (ttl 0) *)
(* and a chain limit of 1; DNS mode defaults to 30 s and 5 hops, at least 1. *)
RouterOf(v) ==
    LET c == Configs[v] IN
    [ver |-> v, cfg |-> c,
     ttl |-> IF c.mode = "static" THEN 0 ELSE DefaultOr(c.ttl, 30),
     limit |-> IF c.mode = "static" THEN 1
               ELSE IF DefaultOr(c.limit, 5) < 1 THEN 1 ELSE DefaultOr(c.limit, 5)]

EmptyCache == [n \in Names |-> NoEntry]
RrKeys(v) == DOMAIN Configs[v].tenants \cup {"default"}
(* rr.entry(key).or_insert_with(0): a counter that was never touched is 0. *)
ZeroRr(v) == [k \in RrKeys(v) |-> 0]
(* The upstream list a pick draws from (history, for the properties). *)
Owners(v) == {<<"tenant", t>> : t \in DOMAIN Configs[v].tenants} \cup {<<"default">>}
ZeroServed(v) == [o \in Owners(v) |-> 0]

ASSUME Configs[0] # BadConfig
ASSUME \A n \in DnsNames : Dns[n].kind = "cname" => Dns[n].target \in DnsNames

VARIABLES
    file,       \* version of upstream.yaml on disk
    routers,    \* every router published, by generation
    rr,         \* per generation: the rr DashMap
    cache,      \* per generation: the cname_cache DashMap
    pub,        \* generation in the UpstreamManager's ArcSwap
    last,       \* the updater's last_mtime
    upc,        \* the updater: "idle" or "read" (between lines 57 and 60)
    now,        \* the clock
    task,       \* per task: idle, or suspended in resolve_cname_dns
    nreq,       \* requests so far
    served,     \* history: per generation and list, picks drawn from it
    lastPick    \* history: the last pick made

vars == <<file, routers, rr, cache, pub, last, upc, now, task, nreq, served, lastPick>>

Idle == [pc |-> "idle"]

TypeOK ==
    /\ file \in Versions
    /\ pub \in 1..Len(routers)
    /\ last \in Versions \cup {NoValue}
    /\ upc \in {"idle", "read"}
    /\ now \in 0..MaxTime
    /\ \A t \in Tasks : task[t].pc \in {"idle", "lookup"}
    /\ nreq \in 0..MaxReqs
    /\ Len(rr) = Len(routers) /\ Len(cache) = Len(routers) /\ Len(served) = Len(routers)

(* tenant_from_request_host 156-157 and pick_endpoint_and_edge_key        *)
(* 120-138 on a resolution result: the tenant is regex group 1 of the      *)
(* CNAME; a tenant of the map keys its own list, anything else the        *)
(* "default" list.  rr_pick 273-282 fetch_adds the counter of the edge key *)
(* and indexes the list modulo its length; an empty list falls back to    *)
(* default_upstreams[0], else "".  The history records the pick.          *)
Pick(g, hdr, res) ==
    LET c      == routers[g].cfg
        tenant == IF res \in {NoValue, ResolveErr} THEN NoValue ELSE Captures(c.regex, res)
        known  == tenant \in DOMAIN c.tenants
        key    == IF known THEN tenant ELSE "default"
        ups    == IF known THEN c.tenants[tenant] ELSE c.default
        owner  == IF known THEN <<"tenant", tenant>> ELSE <<"default">>
        n      == rr[g][key]
        up     == IF ups # <<>> THEN ups[(n % Len(ups)) + 1]
                  ELSE IF c.default # <<>> THEN c.default[1] ELSE ""
    IN /\ rr' = IF ups = <<>> THEN rr ELSE [rr EXCEPT ![g][key] = n + 1]
       /\ served' = [served EXCEPT ![g][owner] = @ + 1]
       /\ lastPick' = [gen |-> g, hdr |-> hdr, res |-> res, key |-> key, up |-> up,
                       k |-> served[g][owner]]

(* A request task: proxy.rs 147-148 take the published router and pick.    *)
(* Static mode resolves from the table without suspending (165).  DNS mode *)
(* returns an unexpired cache entry when the TTL is positive (170-176),    *)
(* else starts the chain walk at the host (197).                           *)
Request(t, h) ==
    LET g == pub
        r == routers[g]
        name == StripPort(h)
        e == cache[g][name]
    IN /\ task[t].pc = "idle"
       /\ nreq < MaxReqs
       /\ nreq' = nreq + 1
       /\ IF r.cfg.mode = "static"
          THEN /\ Pick(g, h, IF name \in DOMAIN r.cfg.hostToCname
                             THEN r.cfg.hostToCname[name] ELSE NoValue)
               /\ UNCHANGED task
          ELSE IF r.ttl > 0 /\ e # NoEntry /\ now <= e.exp
          THEN /\ Pick(g, h, e.val)
               /\ UNCHANGED task
          ELSE /\ task' = [task EXCEPT ![t] = [pc |-> "lookup", gen |-> g, hdr |-> h,
                                               name |-> name, cur |-> name, hop |-> 0]]
               /\ UNCHANGED <<rr, served, lastPick>>
       /\ UNCHANGED <<file, routers, cache, pub, last, upc, now>>

(* The end of resolve_cname 180-187: cache the result for cache_ttl when  *)
(* the TTL is positive, then pick.                                          *)
Resolved(t, res) ==
    LET s == task[t] IN
    /\ cache' = IF routers[s.gen].ttl > 0
                THEN [cache EXCEPT ![s.gen][s.name] = [exp |-> now + routers[s.gen].ttl, val |-> res]]
                ELSE cache
    /\ Pick(s.gen, s.hdr, res)
    /\ task' = [task EXCEPT ![t] = Idle]

(* Mutant: the self-reference test compares names case-sensitively. *)
LookupCaseSensitive(t) ==
    LET s == task[t]
        a == Answer(s.cur)
    IN /\ s.pc = "lookup"
       /\ \/ /\ s.cur \in Flaky
             /\ Pick(s.gen, s.hdr, ResolveErr)
             /\ task' = [task EXCEPT ![t] = Idle]
             /\ UNCHANGED cache
          \/ /\ a.kind # "cname"
             /\ Resolved(t, NoValue)
          \/ /\ a.kind = "cname"
             /\ IF a.target = s.cur THEN Resolved(t, s.cur)
                ELSE IF s.hop + 1 = routers[s.gen].limit THEN Resolved(t, a.target)
                ELSE /\ task' = [task EXCEPT ![t].cur = a.target, ![t].hop = s.hop + 1]
                     /\ UNCHANGED <<cache, rr, served, lastPick>>
       /\ UNCHANGED <<file, routers, pub, last, upc, now, nreq>>

(* Mutant: the for loop's range is not counted, so the walk only ends at *)
(* a self-reference or a name without a CNAME.                            *)
LookupNoHop(t) ==
    LET s == task[t]
        a == Answer(s.cur)
    IN /\ s.pc = "lookup"
       /\ \/ /\ s.cur \in Flaky
             /\ Pick(s.gen, s.hdr, ResolveErr)
             /\ task' = [task EXCEPT ![t] = Idle]
             /\ UNCHANGED cache
          \/ /\ a.kind # "cname"
             /\ Resolved(t, NoValue)
          \/ /\ a.kind = "cname"
             /\ IF Lower(a.target) = Lower(s.cur) THEN Resolved(t, s.cur)
                ELSE /\ task' = [task EXCEPT ![t].cur = a.target]
                     /\ UNCHANGED <<cache, rr, served, lastPick>>
       /\ UNCHANGED <<file, routers, pub, last, upc, now, nreq>>

(* One hop of resolve_cname_dns 199-228, resumed after its lookup: a      *)
(* resolver error other than NoRecordsFound propagates as Err, which       *)
(* tenant_from_request_host logs and treats as no tenant (148-154) and     *)
(* which is not cached; no record, or no CNAME among the records, resolves *)
(* to None; a CNAME equal to the current name up to ASCII case stops the   *)
(* walk at the current name; after cname_chain_limit hops the walk ends at *)
(* the last name reached.                                                   *)
Lookup(t) ==
    LET s == task[t]
        a == Answer(s.cur)
    IN /\ s.pc = "lookup"
       /\ \/ /\ s.cur \in Flaky
             /\ Pick(s.gen, s.hdr, ResolveErr)
             /\ task' = [task EXCEPT ![t] = Idle]
             /\ UNCHANGED cache
          \/ /\ a.kind # "cname"
             /\ Resolved(t, NoValue)
          \/ /\ a.kind = "cname"
             /\ IF Lower(a.target) = Lower(s.cur) THEN Resolved(t, s.cur)
                ELSE IF s.hop + 1 = routers[s.gen].limit THEN Resolved(t, a.target)
                ELSE /\ task' = [task EXCEPT ![t].cur = a.target, ![t].hop = s.hop + 1]
                     /\ UNCHANGED <<cache, rr, served, lastPick>>
       /\ UNCHANGED <<file, routers, pub, last, upc, now, nreq>>

(* The operator rewrites upstream.yaml; its mtime grows. *)
Edit ==
    /\ file < MaxVersion
    /\ file' = file + 1
    /\ UNCHANGED <<routers, rr, cache, pub, last, upc, now, task, nreq, served, lastPick>>

Tick ==
    /\ now < MaxTime
    /\ now' = now + 1
    /\ UNCHANGED <<file, routers, rr, cache, pub, last, upc, task, nreq, served, lastPick>>

(* Mutant: the tick skips a file one version newer than last_mtime. *)
UpdTickOffByOne ==
    /\ upc = "idle"
    /\ IF last # NoValue /\ last + 1 >= file
       THEN UNCHANGED <<last, upc>>
       ELSE /\ last' = file
            /\ upc' = "read"
    /\ UNCHANGED <<file, routers, rr, cache, pub, now, task, nreq, served, lastPick>>

(* A tick of UpstreamUpdater::start, update.rs 40-57: continue when        *)
(* last_mtime >= mtime, else record the mtime before reading the file.     *)
UpdTick ==
    /\ upc = "idle"
    /\ IF last # NoValue /\ last >= file
       THEN UNCHANGED <<last, upc>>
       ELSE /\ last' = file
            /\ upc' = "read"
    /\ UNCHANGED <<file, routers, rr, cache, pub, now, task, nreq, served, lastPick>>

(* update.rs 60-75 and UpstreamManager::swap: read the file as it is now,  *)
(* parse it and build a router; on success store it in the ArcSwap, with   *)
(* an empty cname_cache and rr map (router.rs 106, 110); on failure keep   *)
(* the old router.                                                          *)
UpdLoad ==
    /\ upc = "read"
    /\ upc' = "idle"
    /\ IF Configs[file] = BadConfig
       THEN UNCHANGED <<routers, rr, cache, pub, served>>
       ELSE /\ routers' = Append(routers, RouterOf(file))
            /\ rr' = Append(rr, ZeroRr(file))
            /\ cache' = Append(cache, EmptyCache)
            /\ served' = Append(served, ZeroServed(file))
            /\ pub' = Len(routers) + 1
    /\ UNCHANGED <<file, last, now, task, nreq, lastPick>>

(* main.rs 71-75: the router built from the file at startup; the updater  *)
(* starts with last_mtime = None (update.rs 31).                           *)
Init ==
    /\ file = 0
    /\ routers = <<RouterOf(0)>>
    /\ rr = <<ZeroRr(0)>>
    /\ cache = <<EmptyCache>>
    /\ served = <<ZeroServed(0)>>
    /\ pub = 1
    /\ last = NoValue
    /\ upc = "idle"
    /\ now = 0
    /\ task = [t \in Tasks |-> Idle]
    /\ nreq = 0
    /\ lastPick = NoValue

Next ==
    \/ Edit
    \/ Tick
    \/ UpdTick
    \/ UpdLoad
    \/ \E t \in Tasks :
        \/ \E h \in HostHeaders : Request(t, h)
        \/ Lookup(t)

(* The updater is a task woken by its interval ticker.  A request task    *)
(* suspended at resolver.lookup is woken when the answer or the resolver's *)
(* timeout (config dns.timeout_ms) arrives, so its next hop is weakly fair; *)
(* new requests need no fairness.                                          *)
Spec == Init /\ [][Next]_vars /\ WF_vars(UpdTick) /\ WF_vars(UpdLoad)
        /\ \A t \in Tasks : WF_vars(Lookup(t))

-----------------------------------------------------------------------------
(* The resolution spec 4.L step 2 describes: the static table; or follow  *)
(* CNAME records up to chain_limit hops, stopping at a name whose CNAME is *)
(* itself up to case, with none when a name has no CNAME.  "seen" is the   *)
(* set of names looked up on the way.                                      *)
RECURSIVE RefWalk(_, _)
RefWalk(cur, lim) ==
    LET a == Answer(cur) IN
    IF a.kind # "cname" THEN [res |-> NoValue, seen |-> {cur}]
    ELSE IF Lower(a.target) = Lower(cur) THEN [res |-> cur, seen |-> {cur}]
    ELSE IF lim = 1 THEN [res |-> a.target, seen |-> {cur}]
    ELSE LET w == RefWalk(a.target, lim - 1) IN [res |-> w.res, seen |-> w.seen \cup {cur}]

RefResolve(r, name) ==
    IF r.cfg.mode = "static"
    THEN [res |-> IF name \in DOMAIN r.cfg.hostToCname THEN r.cfg.hostToCname[name] ELSE NoValue,
          seen |-> {}]
    ELSE RefWalk(name, r.limit)

(* Spec 4.L and scenario 5: every pick, whether served from the cache or   *)
(* from a chain walk suspended across lookups while other tasks and a      *)
(* reload run, resolves the host as the reference does (or fails, when a   *)
(* name on its chain may time out), takes the tenant's edge key, and the   *)
(* k-th pick from a list of a router is its entry k mod length: the        *)
(* round-robin counter of the edge key counts exactly the picks from that  *)
(* list through that router.                                               *)
PickMatchesReference ==
    lastPick # NoValue =>
        LET r      == routers[lastPick.gen]
            c      == r.cfg
            ref    == RefResolve(r, StripPort(lastPick.hdr))
            tenant == IF lastPick.res \in {NoValue, ResolveErr} THEN NoValue
                      ELSE Captures(c.regex, lastPick.res)
            ups    == IF tenant \in DOMAIN c.tenants THEN c.tenants[tenant] ELSE c.default
        IN /\ \/ lastPick.res = ref.res
              \/ lastPick.res = ResolveErr /\ ref.seen \cap Flaky # {}
           /\ lastPick.key = IF tenant \in DOMAIN c.tenants THEN tenant ELSE "default"
           /\ lastPick.up = IF ups # <<>> THEN ups[(lastPick.k % Len(ups)) + 1]
                            ELSE IF c.default # <<>> THEN c.default[1] ELSE ""

(* Spec 4.L step 2 bounds the walk by chain_limit hops: a request task    *)
(* that starts a CNAME walk always gets its pick, even when the names of a *)
(* chain form a loop longer than one name, which the next == cur test of   *)
(* resolve_cname_dns does not see, and even when a lookup times out.  A   *)
(* task is idle or in the walk, so "always eventually idle" is the walk   *)
(* leading to idle.                                                        *)
LookupsComplete ==
    \A t \in Tasks : []<>(task[t].pc = "idle")

(* Spec 4.N: once upstream.yaml stops changing, the updater eventually    *)
(* publishes a router built from it, when it loads, and keeps it.          *)
UpdaterSettles ==
    <>[](Configs[file] # BadConfig => routers[pub].ver = file)
=============================================================================
