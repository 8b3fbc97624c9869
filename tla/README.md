# TLA+ models of pingora-waf

This directory holds TLA+ models of the concurrent and stateful parts of the
pingora-waf data plane (`src/pingora-waf/src`), the TLC configurations that
check them, and `PROJECT.json`. `PROJECT.json` lists the components, the runs,
the mutants, the map from each definition to the Rust lines it models, the
findings and the hazards.

## 1. The system

pingora-waf is a reverse proxy built on Pingora. A request goes through these
phases (`server/proxy.rs`):

1. **request_filter**
   - builds a `WafContext`;
   - picks an upstream through the `UpstreamRouter`;
   - runs the **enforcer**:
     - resolve the host's policy through the **domain matcher**;
     - run the **protection engine** on the policy's precise rules, then its
       base rules (match expressions, actions, and the **CC limiter** for
       rate-limit actions);
     - if the policy enables the WAF, run the **WAF engine**'s header phase.
       This returns a decision and the indices of rules whose body patterns
       are deferred.
   - A Block or Challenge ends the request with a response.
2. **request_body_filter / response_body_filter**: each chunk is scanned with
   the deferred rules' Aho-Corasick matchers, in a window made of the retained
   tail plus the chunk. The tail keeps `max_pattern_len - 1` bytes.
3. **upstream_peer and logging**: build the peer, write the access log.

Five background services poll files and publish immutable snapshots through
`ArcSwap`:

| service | polls | publishes | notes |
|---|---|---|---|
| `RuleUpdater` (`waf/update.rs`) | rules file mtime | `CompiledRuleset` into the `WafEngine` | |
| `UpstreamUpdater` (`upstream/update.rs`) | upstream.yaml mtime | a new `UpstreamRouter` | the new router has fresh rr counters and DNS cache |
| `DomainMapUpdater`, `PolicyDirUpdater` (`policy/update.rs`) | domain map mtime; policies directory signature | a `PolicyState` | both run the same `load_from_files`, then swap; the swapped state carries the CC limiter of the state it replaces |
| `CertUpdater` (`server/certs.rs`) | fingerprint of the cert tree | a cert `Snapshot` | the TLS SNI callback looks certs up in it |

State that outlives a request:

| state | code | reads and writes |
|---|---|---|
| CC limiter table | `DashMap<String, Entry>` | get-clone then insert per call |
| round-robin counters | `DashMap<String, AtomicUsize>` | `fetch_add` |
| CNAME cache | `DashMap` with expiry | |
| published snapshots | five `ArcSwap`s | swapped by the services above |
| per-request `ProxyCtx` | | `blocked`, deferred indices, tails |

What makes the system hard is the interaction between these pieces:

- request tasks of a multi-threaded runtime call the CC limiter on the same key
  concurrently;
- a request's phases see whatever snapshot is current when each phase runs;
- two updaters publish the same policy state;
- reloads race with file edits: the updaters record the mtime or signature
  before reading, and the cert store fingerprints after reading.

## 2. Modules

| module | models | state (VARIABLES) | actions |
|---|---|---|---|
| `CcLimiter` | `policy/cc.rs` `CcLimiter::check` | `table` (the DashMap), per-thread `pc`/`call` (a call between its get and its insert), a clock `now`, history `allowed` and `blockEnd` | `Tick`, `CheckRead` (lines 44-60 plus the state machine of 60-98 on the clone), `CheckWrite` (the insert and return of 65/88/97) |
| `CcLimiterRefinement` | the refinement mapping from `CcLimiter` to `CcLimiterAtomic` (`Pending`, `Linearized`, `ImplementsAtomic`) | those of `CcLimiter` | those of `CcLimiter` |
| `CcLimiterAtomic` | spec 4.C: the limiter with `check` as one atomic step per call | `table`, `now`, `calls` | `Tick`, `Check` |
| `RuleUpdater` | `waf/update.rs` `RuleUpdater::start` and the startup compile of `main.rs` | `file` (version on disk), `mtime`, `lastMtime`, `upc` (between the metadata read and the swap), `rsVer` (published ruleset) | `Edit`, `Stat` (lines 39-54), `CompileAndSwap` (56-64) |
| `BodyScan` | one request through `request_filter` and the two body filters, with `RuleUpdater` running beside it (`INSTANCE RuleUpdater`) | the variables of `RuleUpdater`, `pc` (phase), `reqRules`/`respRules`, `reqTail`/`respTail`, `blocked`, histories of the bytes seen and the phase that matched, `req` (`ctx.ctx`, the request's method and path), history `wafRan`, and the logging side: `action`, `status` (`decision_status`), `events` (security events), `written` (the block response) and `access` (the access record) | `UpdateRules` (a step of `RuleUpdater`), `RequestFilter`, `RequestBodyFilter`, `RequestBodyEnd`, `ResponseBodyFilter`, `ResponseEnd`, `Logging` |
| `WafRules` | `waf/rules/compiler.rs` (`compile_rule`, `compile`), `waf/rules/matcher.rs` (`AcMatcher`), `waf/engine.rs` (`eval_request_headers`) | none: operators used by `BodyScan` | none |
| `PolicyReload` | `policy/update.rs` (both updaters) and `PolicyManager::load_from_files` | file versions on disk, `published` (dm, pol, cc identity), per-updater `last` (mtime/signature), `pc`, `loaded`, `nextCc`, `shutdown` | `EditDomainMap`, `EditPolicies`, `ShutdownSignal`, `Tick`, `ReadDomainMap`, `ReadPolicies`, `Swap`, `Stop` |
| `CertStore` | `server/certs.rs`: `CertUpdater`, `load_snapshot`, `lookup` | `present` (the tree), `disk` (per file: version, torn), `snap` (published pairs and fingerprint), `lastFp`, `pc`, `accCert`/`accKey` (pairs read so far) | `WriteStart`, `WriteEnd`, `Tick`, `ReadCert`, `ReadKey`, `FinishLoad` |
| `Enforcer` | `waf/context.rs` and `waf/normalizer.rs` (the request context), `policy/domain_map.rs`, `policy/manager.rs` (`get_policy_for_host`), `policy/protection/*` (`eval`, `build_key`, `get_cookie_value`, `eval_rules`, `exec_action`), `policy/enforcer.rs` | `file` and `dm` (the domain map and the matcher built from it), `cc` (the CC table), `now`, `nreq`, `last` (the last decision) | `Tick`, `Request`, `ReloadDomainMap` |
| `UpstreamRouter` | `upstream/router.rs`, `upstream/manager.rs`, `upstream/update.rs` | `file`, `routers` (every router published, by generation), per generation `rr` and `cache`, `pub` (the ArcSwap), the updater's `last` and `upc`, `now`, per task `task` (a chain walk suspended at a lookup), histories `served` and `lastPick` | `Edit`, `Tick`, `UpdTick`, `UpdLoad`, `Request`, `Lookup` |

Each module has an `MC*` module that gives its constants values for TLC.

Notes on the modules:

- **`CcLimiter`**: operators `ReadEntry`, `BlockCheck`, `RollWindow`,
  `CountAndJudge` and `CheckStep` translate the state machine step by step.
  Time is whole seconds. `Instant::now()` is read once per call, as in the
  code. `Affinity` says which keys each task calls on.
  - **Refinement**: `CcLimiterAtomic` is the 4.C state machine with one
    atomic step per call. `CcLimiter` maps to it through `Linearized` (module `CcLimiterRefinement`, which `MCCcLimiter` extends): a
    call takes effect when it clones the entry, so a computed entry not yet
    inserted stands for its key's table entry. `ImplementsAtomic`
    (`Atomic!Spec` as a `PROPERTY`) holds when calls on one key do not
    overlap; `cc_race` shows what happens when they do.
- **`RuleUpdater`**: file contents are versions; a version compiles or not
  (`Compiles`). An edit gives the file a newer mtime, or, with
  `CoarseMtime`, the same one. The metadata read and the compile's read of
  the file are separate steps, so an edit can fall between them.
- **`BodyScan`**:
  - Bytes are letters of a two-letter alphabet; the matcher is
    case-insensitive, so a letter stands for a case-folded byte.
  - A rule of the rules file is a `WafRules` record of its `methods`,
    `path_prefix`, `uri_ac` and `body_ac` fields (`NoFilter` when left out)
    and its action; the engine holds `Compile` of it, which uppercases the
    method names. A request is a method and a normalized path from
    `Requests`; strings are sequences of characters and `Upper` is
    `to_ascii_uppercase`.
  - The enforcer's precise/base stage is abstracted to its three outcomes:
    terminal, WAF disabled, or the WAF engine.
  - `EvalRequestHeaders` (in `WafRules`) is a recursive operator over the
    compiled rule list, with the method, case-sensitive prefix and
    case-insensitive uri filters of `engine.rs` 47-61.
  - The published ruleset is `RuleUpdater`'s `rsVer`: the composition
    shares its variables, and the request's actions leave them unchanged.
  - A block (at header time, or in a body filter) sets `ctx.action`,
    `decision_status`, one security event (`log_event`) and the response
    written; `Logging` then builds the access record with the code's
    defaults (action "allow", status 200). A policy's block or challenge
    status comes from `Statuses`; the WAF engine's is 403
    (`action_to_decision`). A response-body block sets no status.
- **`PolicyReload`**:
  - The file contents are versions.
  - Loads fail for versions in `BadDm`/`BadPol`, and for pairs in `NoDefault`
    whose default policy is missing.
  - `load_from_files` reads the domain map and the policies directory at two
    different instants, so a reload is three steps: `ReadDomainMap`,
    `ReadPolicies` and `Swap`.
  - The CC limiter is an identity number: `CcLimiter::new()` hands out
    `nextCc`, and `Swap` replaces it by the published one, as
    `update.rs` 62 does. No property checks that: the code carries the
    limiter over in one assignment, which a property would only restate.
  - Each loop is a `select!` between the shutdown watch and the tick.
    `ShutdownSignal` changes the watch; `Stop` is the shutdown arm and is
    only enabled between ticks, since a reload runs to completion.
- **`CertStore`**:
  - Names are sequences of labels, so the code's split and join on '.' are
    exact. A fingerprint is the tree itself (the hash is taken to be
    injective).
  - Writing a file is two steps (`WriteStart` leaves it torn, `WriteEnd`
    completes it); `load_snapshot` reads one file per step, then
    fingerprints and publishes in `FinishLoad`.
  - `lookup` is an operator, checked on every tree made of seven
    directories (a constant evaluated once) and on every published snapshot.
- **`Enforcer`**:
  - A request arrives raw. Its host sources and path are token sequences
    ("." ":" "[" " " or a run of other characters; "/" or a segment name).
    `Context` builds the `WafContext`: `extract_host`'s precedence,
    `normalize_host` step by step, `normalize_path`'s slash collapsing.
  - One request is one atomic step: the whole `enforce_request_headers`,
    with every CC check it makes. The limiter is the `CcLimiter` module,
    instantiated per rule with `INSTANCE ... WITH`.
  - `match_policy_id` runs on a matcher built from the file in every
    `HashMap` iteration order (`Matchers`).
  - `matcher::eval` is a recursive operator; `eval_rules` a fold over the
    rule list. Regexes and the WAF engine's header decision are constant
    operators of the MC module.
- **`UpstreamRouter`**:
  - A request takes the published router and picks in one step unless it
    must walk the CNAME chain in DNS mode; each lookup of the walk is a
    step, so other requests and reloads run between hops.
  - DNS answers are constant; names in `Flaky` may fail with a resolver
    error, which is not cached and sends the request to the default list.
  - The tenant regex is a constant operator; `strip_port` is modelled on
    the ':'-separated segments of the header.
  - `LookupsComplete`: every chain walk ends, including the walk of the
    two-name loop www.x.com <-> t-7.pool.svc, which only the hop limit
    stops.

## 3. Runs

| run | cfg | expect | what it shows |
|---|---|---|---|
| cc_sequential | `CcLimiterSeq.cfg` | pass | Two tasks, each on its own key: check admits at most `max_requests` calls per window (`WindowAdmission`), every call made while the key is blocked gets a hit (`CallsDuringBlockAreHit`), and the get-clone-insert `check` implements the atomic limiter of spec 4.C (`ImplementsAtomic`). |
| cc_race | `CcLimiterRace.cfg` | violation | Two tasks on one key: a stale insert erases `blocked_until` and a call inside the block is admitted. |
| body_scan | `BodyScan.cfg` | pass | For four requests, the header phase gives the decision and deferred rules that spec 4.G, read as a statement about the rules file, gives for the file of the header-time snapshot (`HeaderPhaseMatchesReference`). The scan matches the reference over every chunking of up to 4 bytes while `RuleUpdater` reloads the rules file (`ScanMatchesReference`). The reference: block exactly when a deferred rule's pattern occurs in the body seen so far. The tail never exceeds the longest pattern less one byte (`TypeOK`). The file is rewritten twice, first half-written; once the edits stop, the engine publishes the file on disk (`RulesSettle`). A blocked request yields exactly one security event, and its access record has a block or challenge action and the status of the response written (200 when none was) (`AccessLogRecordsOutcome`). |
| body_leak | `BodyScanLeak.cfg` | violation | A chunk after a body match is passed on (`NothingPassedAfterBlock`). |
| body_stale_rules | `BodyScanStale.cfg` | violation | A rules reload that inserts a rule shifts the indices: a body containing the deferred rule's pattern is not blocked. |
| policy_reload | `PolicyReload.cfg` | pass | Whatever edits, failing loads and the two updaters interleave: the published state always loads (`PublishedLoadable`); after a shutdown signal both updaters return, a reload in progress first running to its end (`UpdatersStop`). |
| policy_reload_stale | `PolicyReloadStale.cfg` | violation | The two updaters swap out of order; both then skip every tick while the published policies are older than the files (`QuiescentIsCurrent`). |
| cert_reload | `CertReload.cfg` | pass | `lookup` returns the exact directory, else the longest matching wildcard suffix, else none, for every tree of seven directories, ten names and every published snapshot (`LookupMatchesReference`); under weak fairness of the updater, once writes stop `last_fp` settles on the tree's fingerprint (`UpdaterSettles`). |
| cert_reload_stale | `CertReloadStale.cfg` | violation | A cert/key pair replaced file by file during a load is published mismatched and never reloaded: the fingerprint is taken after the reads (`EventuallyCurrent`). |
| enforcer_decisions | `Enforcer.cfg` | pass | For every domain map of five entries in every iteration order, a host gets the exact entry, else the longest wildcard suffix, else the default (`DomainSpecificity`); over every three requests in three seconds the decision is the first terminal one of precise then base rules, else the WAF's, and the CC table changes exactly for the CC rules evaluated before it (`DecisionMatchesReference`). |
| upstream_pick | `UpstreamRouter.cfg` | pass | With two tasks interleaving chain walks, cache hits and reloads, every pick resolves the host as spec 4.L says, takes the tenant's edge key, and the k-th pick from a list is its entry k mod length (`PickMatchesReference`); the updater eventually publishes the router of the file on disk (`UpdaterSettles`); every task's chain walk ends (`LookupsComplete`). |
| enforcer_host_dot | `EnforcerHostDot.cfg` | violation | The host header `a.example.com.:443` is enforced with the default policy, not `a.example.com`'s: `normalize_host` strips the trailing dots before the port (`HostPolicyAsSpecified`). |

Every property of a passing run has a mutant in `PROJECT.json`. A mutant is a
plausible bug in the mapped code that TLC must catch, for example comparing the
count before the increment, or a tail one byte short.

### Bounds

- **CcLimiter**: `window = 2`, `max_requests = 2`, `block = 2`, clock 0..6,
  8 calls; two tasks on two keys (sequential run) or on one key (race). These bounds let a key be blocked, the block expire, and a window
  roll over within one behaviour.
- **BodyScan**:
  - Chunks of 1-2 bytes, at most 4 bytes per body (6 in the two violation
    runs); 4 bytes still let the 3-byte pattern straddle three chunks.
  - One policy status (429) besides the engine's 403, so the access record
    tells a policy block from a WAF block.
  - Three versions of the rules file, the second half-written, mtimes up
    to 2: every order of the two edits, the metadata reads and the compiles
    around the request's phases.
  - Patterns of length 3 (`aba`) and 2 (`bb`), so the tail is 2 bytes and a
    3-byte pattern can straddle up to three chunks.
  - Three rules, one per filter: `methods: [post]` (lower case in the
    file), `path_prefix: [/a]` and `uri_ac: [ab]`. Four requests (`POST
    /a`, `GET /Ab`, `POST /ab`, `GET /a`) reach every outcome: two rules
    deferred, one deferred, a block with or without deferred rules, and the
    prefix and uri filters disagreeing on case.
- **PolicyReload**:
  - Two edits of each file.
  - A failing version of each file, and a (domain map, policies) pair without
    the default policy.
  - Every failure branch is reached, and every interleaving of the two
    updaters with the edits.
- **CertStore**: two directories (one exact, one wildcard), each
  redeployed once, so a load can interleave with both writes of a pair.
  The lookup check ranges over all 128 trees of seven directories
  (exact, wildcard, nested wildcard, mixed case) and ten names.
- **Enforcer**: five domain map entries (an exact one, wildcards of three
  lengths, one naming a missing policy, the key "*."), every subset and
  order; eight hosts; four policies that use every match operator, key
  part and action; seven raw requests (a port, upper case, a space and a
  trailing dot in the host, `:authority` and URI authority sources, `//`
  in the path); three requests in three seconds, so a CC window fills,
  blocks and expires.
- **UpstreamRouter**: a static config (scenario 5), a DNS config (1 s
  cache, chain limit 2) and a broken file; a chain of two hops through a
  name that may time out, a self-loop up to case, a tenant with an empty
  list, a port to strip and one that is not digits; two tasks, three
  requests, clock to 2 s. Three requests give scenario 5's u1, u2, u1.
  The DNS table also has the two-name loop www.x.com <-> t-7.pool.svc.

### Fairness

- `CertStore`: weak fairness of the updater (its ticker fires forever) and
  of finishing a started write.
- `RuleUpdater` (and `BodyScan`, which runs it): weak fairness of `Stat`
  and `CompileAndSwap`. The tokio interval keeps ticking and each tick
  runs to completion; no fairness for the request or the edits.
- `UpstreamRouter`: weak fairness of the updater's tick and load, and of
  each task's lookup step: the resolver answers or fails within
  `dns.timeout_ms`, so a walk that has begun is not suspended forever.
  No fairness for new requests, which may never come.
- `PolicyReload`: weak fairness of the three steps of a started reload
  (blocking code inside the tick arm), and strong fairness of `Stop`.
  `tokio::select!` polls its ready branches in random order, so a shutdown
  branch that is ready at every select is not passed over forever, even
  while edits keep the tick arm busy and `Stop` is disabled in between.
- The other modules check safety only.

### Deadlock

- `CcLimiterSeq` and `BodyScan` set `CHECK_DEADLOCK FALSE`:
  - a request ends (`pc = "done"`);
  - the CC model stops when the call and clock bounds are reached.
- `PolicyReload` sets it too: after the shutdown both services have
  returned and, once the edits are used up, the process ends.
- `CertStore` and `UpstreamRouter` keep the deadlock
  check. An updater's tick is always enabled, and a tick with nothing new
  is the `continue` of its loop.
- `Enforcer` keeps it too: a reload of the domain map file is always
  enabled.

## 4. Plan

Done, in order of importance:

1. **CcLimiter**: the concurrent read-modify-write.
2. **BodyScan**: streaming scan, blocked handling, rule snapshots.
3. **PolicyReload**: the two policy updaters.
4. **CertStore**: the cert updater, `load_snapshot` and the SNI `lookup`.
5. **Enforcer**: the domain matcher, `get_policy_for_host`, the match
   expression evaluator, the protection engine with CC actions and the
   enforcer's precedence.
6. **UpstreamRouter**: `rr_pick`, static and DNS resolution with the cache,
   the router reload and the upstream updater.

7. **CcLimiterAtomic**: the abstract limiter, and the refinement.
8. **RuleUpdater**: the rules reload, composed with `BodyScan`.
9. **Request context**: `extract_host`, `normalize_host` and
   `normalize_path` in front of the `Enforcer`.
10. **Logging**: security events and the access record in `BodyScan`;
    termination of DNS chain walks; shutdown of the policy updaters.

11. **WAF engine header phase** (`WafRules`): `compile_rule` and
    `eval_request_headers` with the method, path and URI filters, checked
    against spec 4.G in `body_scan`.

Next:

12. **Router with enforcer**: the pick made before enforcement
    (`proxy.rs` 148), so blocked requests consume round-robin turns; DNS
    answers that change, to check how long the cache serves a stale CNAME.

Observed while modelling and kept out of the runs:

- With `CoarseMtime = TRUE` in `BodyScan.cfg`, TLC finds `RulesSettle`
  violated: a half-written rules file is compiled and fails, its completing
  write keeps the same mtime, and the old rules stay published.
- A DNS router reloaded from an unchanged `upstream.yaml` starts with an
  empty CNAME cache and new round-robin counters (`UpstreamRouter`'s
  `UpdLoad` builds them fresh, as `router.rs` 106-110 does), although spec
  section 9 says the cache survives rebuilds.

## 5. Not modelled

- Metrics, the block page, telemetry and the JSON form of log records:
  pure I/O. What `logging` and `log_event` record is modelled in
  `BodyScan`.
- `TokenBucket` and `upstream_hot_reload_loop`: no caller.
- `prune_older_than`: never called (a hazard listed in `PROJECT.json`).
- `build_peer`: a pure URL conversion with no state.
- Shutdown of `RuleUpdater`, `UpstreamUpdater`, `CertUpdater` and the
  metrics service: their loops have the shape checked in `PolicyReload`,
  and adding a shutdown to their modules would only repeat that check.
- The contents of YAML parsing and regex and Aho-Corasick matching, beyond
  "occurs in" (ignoring ASCII case). `header_regex` is compiled but no
  evaluation reads it; a bad pattern only makes a version fail to compile,
  which `RuleUpdater`'s `Compiles` covers.
