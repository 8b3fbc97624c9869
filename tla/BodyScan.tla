------------------------------ MODULE BodyScan ------------------------------
(***************************************************************************)
(* One proxied request through the WAF phases of                           *)
(* src/pingora-waf/src/server/proxy.rs, with the WAF ruleset hot-swapped   *)
(* concurrently by the rule updater (module RuleUpdater, waf/update.rs,    *)
(* publishing through waf/engine.rs swap_rules).                           *)
(*                                                                         *)
(* request_filter runs the enforcer; when the policy lets the request      *)
(* reach the WAF engine, eval_request_headers (waf/engine.rs) returns the  *)
(* indices of the rules whose body patterns are deferred to the body       *)
(* phase.  request_body_filter and response_body_filter then scan every    *)
(* chunk in a window formed by the retained tail and the chunk, and keep   *)
(* the last max_pattern_len - 1 bytes of the window as the next tail.      *)
(*                                                                         *)
(* Bytes are letters of a small alphabet (the matcher is ASCII case        *)
(* insensitive; the letters stand for case-folded bytes).  A rule of the   *)
(* rules file is a WafRules record: its methods, path_prefix, uri_ac and   *)
(* body_ac filters and its action; the engine holds its compiled form.     *)
(* A request is the method and normalized path of its WafContext.  The     *)
(* security events and the access log record that request_filter, the      *)
(* body filters and logging write are kept as the records log_event and    *)
(* logging build, without their text fields.                               *)
(***************************************************************************)
EXTENDS Naturals, Sequences, SequencesExt, WafRules

CONSTANTS
    Rulesets,    \* the successive contents of the rules file: sequences of rules
    Alphabet,    \* byte values
    MaxChunk,    \* longest body chunk
    MaxBody,     \* bytes per body
    Requests,    \* WafContext method and path of the requests a client may send
    Statuses,    \* statuses policies configure for block and challenge
    NoValue,     \* model value: Option::None
    Compiles, MaxMtime, CoarseMtime, NoMtime   \* of RuleUpdater

ASSUME /\ \A v \in DOMAIN Rulesets : \A i \in DOMAIN Rulesets[v] :
              Rulesets[v][i].body \in SUBSET Seq(Alphabet) \cup {NoFilter}
       /\ Len(Rulesets) >= 1

VARIABLES
    rsVer,       \* index in Rulesets of the snapshot the engine publishes
    pc,          \* "headers", "reqBody", "respBody" or "done"
    hdrVer,      \* history: snapshot the header phase evaluated
    reqRules,    \* ProxyCtx.req_body_rules
    respRules,   \* ProxyCtx.resp_body_rules
    reqTail,     \* ProxyCtx.req_tail
    respTail,    \* ProxyCtx.resp_tail
    blocked,     \* ProxyCtx.blocked
    reqSeen,     \* history: request body bytes the filter was given
    respSeen,    \* history: response body bytes the filter was given
    matchedIn,   \* history: phase whose scan matched, or "none"
    leaked,      \* history: a chunk was passed on after a body match
    action,      \* ProxyCtx.action
    status,      \* ProxyCtx.decision_status
    events,      \* security events written (obs.write_event)
    written,     \* history: status of the block response the proxy wrote
    access,      \* the access log record (obs.write_access), once logged
    req,         \* ProxyCtx.ctx: the request's WafContext, once built
    wafRan,      \* history: the enforcer handed the request to the WAF engine
    file, mtime, lastMtime, upc   \* the rules file and RuleUpdater

Upd == INSTANCE RuleUpdater

updVars == <<file, mtime, lastMtime, upc, rsVer>>
reqVars == <<pc, hdrVer, reqRules, respRules, reqTail, respTail,
             blocked, reqSeen, respSeen, matchedIn, leaked,
             action, status, events, written, access, req, wafRan>>
vars == <<updVars, reqVars>>

Chunks == UNION {[1..n -> Alphabet] : n \in 1..MaxChunk}

(* The ruleset the engine holds for version v of the rules file. *)
Rules(v) == Compile(Rulesets[v])

(* AcMatcher::max_pat_len (waf/rules/matcher.rs 12). *)
MaxPatLen(pats) ==
    IF pats = {} THEN 0
    ELSE CHOOSE n \in {Len(p) : p \in pats} : \A p \in pats : Len(p) <= n

(* Mutant: the tail is one byte shorter than it must be. *)
KeepLenShort(rule) ==
    IF rule.body = NoFilter THEN 0
    ELSE IF MaxPatLen(rule.body) <= 1 THEN 0 ELSE MaxPatLen(rule.body) - 2

(* CompiledRule::body_keep_len (engine.rs 85-90), saturating at zero. *)
KeepLen(rule) ==
    IF rule.body = NoFilter THEN 0
    ELSE IF MaxPatLen(rule.body) = 0 THEN 0 ELSE MaxPatLen(rule.body) - 1

(* CompiledRule::body_match (engine.rs 82-84): some pattern occurs in w   *)
(* (an empty pattern occurs in every window, as with Aho-Corasick).        *)
BodyMatch(rule, w) ==
    rule.body # NoFilter /\ \E p \in rule.body : p \in SubSeqs(w)

(* The rules the deferred indices name in snapshot rs; ruleset.rules.get   *)
(* skips an index past the end (proxy.rs 202, 212).                        *)
Named(rs, idxs) == {rs[idxs[j]] : j \in {j \in 1..Len(idxs) : idxs[j] <= Len(rs)}}

(* keep of proxy.rs 200-205 / 262-267. *)
Keep(rs, idxs) ==
    LET ks == {KeepLen(r) : r \in Named(rs, idxs)} \cup {0}
    IN CHOOSE k \in ks : \A j \in ks : j <= k

(* Mutant: the tail keeps the whole window. *)
NextTailUncut(tail, window, keep) == IF keep > 0 THEN window ELSE tail

(* The tail update of proxy.rs 236-242 / 294-300. *)
NextTail(tail, window, keep) ==
    IF keep > 0
    THEN IF Len(window) > keep THEN SubSeq(window, Len(window) - keep + 1, Len(window))
         ELSE window
    ELSE tail

(* The longest tail any published ruleset asks to retain. *)
MaxKeep ==
    LET ks == {KeepLen(r) : r \in UNION {Range(Rulesets[v]) : v \in 1..Len(Rulesets)}} \cup {0}
    IN CHOOSE k \in ks : \A j \in ks : j <= k

(* Types; the retained tails never exceed the longest body pattern less    *)
(* one byte (spec 4.K, bounded tail retention).                            *)
TypeOK ==
    /\ rsVer \in 1..Len(Rulesets) /\ hdrVer \in 1..Len(Rulesets)
    /\ pc \in {"headers", "reqBody", "respBody", "logging", "done"}
    /\ reqTail \in Seq(Alphabet) /\ respTail \in Seq(Alphabet)
    /\ Len(reqTail) <= MaxKeep /\ Len(respTail) <= MaxKeep
    /\ blocked \in BOOLEAN /\ leaked \in BOOLEAN
    /\ matchedIn \in {"none", "reqBody", "respBody"}
    /\ Len(reqSeen) <= MaxBody /\ Len(respSeen) <= MaxBody

Init ==
    /\ Upd!Init
    /\ hdrVer = 1 /\ pc = "headers"
    /\ reqRules = <<>> /\ respRules = <<>>
    /\ reqTail = <<>> /\ respTail = <<>>
    /\ blocked = FALSE /\ leaked = FALSE /\ matchedIn = "none"
    /\ reqSeen = <<>> /\ respSeen = <<>>
    /\ action = NoValue /\ status = NoValue /\ events = <<>>
    /\ written = NoValue /\ access = NoValue
    /\ req = NoValue /\ wafRan = FALSE

(* The rules file is edited, or RuleUpdater takes a step, while the       *)
(* request is in flight. *)
UpdateRules == Upd!Next /\ UNCHANGED reqVars

(* log_event, proxy.rs 105-124: the event's action, phase and status. *)
LogEvent(act, phase, st) == events' = Append(events, [action |-> act, phase |-> phase, status |-> st])

(* Decision of a WAF rule, action_to_decision (waf/engine.rs 94-108). *)
WafDecision(kind) == [kind |-> kind, status |-> IF kind = "allow" THEN NoValue ELSE 403]

(* request_filter, proxy.rs 135-183, with enforce_request_headers          *)
(* (policy/enforcer.rs 39-68) on the WafContext q it builds and keeps in   *)
(* ctx.ctx.  outcome: a precise or base rule was terminal (pd: its kind    *)
(* and configured status), the policy disables the WAF, or the WAF engine  *)
(* ran eval_request_headers on the snapshot it holds.  The decision's kind *)
(* becomes ctx.action; a terminal one sets blocked and decision_status,    *)
(* logs an event, writes the block page and ends the request (Ok(true)),   *)
(* which goes to logging.                                                  *)
RequestFilter ==
    /\ pc = "headers"
    /\ \E outcome \in {"policy", "wafOff", "waf"}, pd \in {"block", "challenge"} \X Statuses,
         q \in Requests :
        LET r == EvalRequestHeaders(Rules(rsVer), q)
            d == CASE outcome = "policy" -> [kind |-> pd[1], status |-> pd[2]]
                   [] outcome = "wafOff" -> WafDecision("allow")
                   [] OTHER              -> WafDecision(r.decision)
            terminal == d.kind \in {"block", "challenge"}
            deferred == IF outcome = "waf" THEN r.deferred ELSE <<>>
        IN /\ reqRules' = deferred
           /\ respRules' = deferred
           /\ action' = d.kind
           /\ blocked' = terminal
           /\ req' = q
           /\ wafRan' = (outcome = "waf")
           /\ IF terminal
              THEN /\ status' = d.status
                   /\ LogEvent(d.kind, "request_headers", d.status)
                   /\ written' = d.status
                   /\ pc' = "logging"
              ELSE /\ pc' = "reqBody"
                   /\ UNCHANGED <<status, events, written>>
    /\ hdrVer' = rsVer
    /\ UNCHANGED <<updVars, reqTail, respTail, reqSeen, respSeen, matchedIn, leaked, access>>

(* Mutant: the request-body block leaves decision_status unset, as the    *)
(* response-body block does.                                               *)
ReqBodyBlockNoStatus ==
    /\ blocked' = TRUE /\ action' = "block" /\ matchedIn' = "reqBody"
    /\ LogEvent("block", "request_body", 403)
    /\ written' = 403
    /\ UNCHANGED status

(* A request-body match, proxy.rs 214-230: blocked, action block, status   *)
(* 403, the event, and a 403 written to the client.                         *)
ReqBodyBlock ==
    /\ blocked' = TRUE /\ action' = "block" /\ matchedIn' = "reqBody"
    /\ status' = 403
    /\ LogEvent("block", "request_body", 403)
    /\ written' = 403

(* A response-body match, proxy.rs 276-289: blocked, action block and the  *)
(* event with status 0; decision_status is left unset and nothing written. *)
RespBodyBlock ==
    /\ blocked' = TRUE /\ action' = "block" /\ matchedIn' = "respBody"
    /\ LogEvent("block", "response_body", 0)

(* request_body_filter, proxy.rs 185-244, on a chunk c.  With blocked set  *)
(* or no deferred rule it returns at once and the chunk is passed on.      *)
(* On a match the chunk is dropped and the request blocked (ReqBodyBlock); *)
(* otherwise the tail is updated.                                           *)
RequestBodyFilter ==
    /\ pc = "reqBody"
    /\ Len(reqSeen) < MaxBody
    /\ \E c \in Chunks :
        /\ Len(reqSeen) + Len(c) <= MaxBody
        /\ reqSeen' = reqSeen \o c
        /\ IF blocked \/ reqRules = <<>>
           THEN /\ leaked' = (leaked \/ blocked)
                /\ UNCHANGED <<reqTail, blocked, matchedIn, action, status, events, written>>
           ELSE LET rs == Rules(rsVer)
                    window == reqTail \o c
                IN IF \E r \in Named(rs, reqRules) : BodyMatch(r, window)
                   THEN /\ ReqBodyBlock
                        /\ UNCHANGED <<reqTail, leaked>>
                   ELSE /\ reqTail' = NextTail(reqTail, window, Keep(rs, reqRules))
                        /\ UNCHANGED <<blocked, matchedIn, leaked, action, status, events, written>>
    /\ UNCHANGED <<updVars, pc, hdrVer, reqRules, respRules, respTail, respSeen, access, req, wafRan>>

(* The request body ends and the upstream response starts. *)
RequestBodyEnd ==
    /\ pc = "reqBody"
    /\ pc' = "respBody"
    /\ UNCHANGED <<updVars, hdrVer, reqRules, respRules, reqTail, respTail,
                   blocked, reqSeen, respSeen, matchedIn, leaked,
                   action, status, events, written, access, req, wafRan>>

(* response_body_filter, proxy.rs 246-303: the same scan on the response;  *)
(* a match truncates the response by dropping the chunk (RespBodyBlock).   *)
ResponseBodyFilter ==
    /\ pc = "respBody"
    /\ Len(respSeen) < MaxBody
    /\ \E c \in Chunks :
        /\ Len(respSeen) + Len(c) <= MaxBody
        /\ respSeen' = respSeen \o c
        /\ IF blocked \/ respRules = <<>>
           THEN /\ leaked' = (leaked \/ blocked)
                /\ UNCHANGED <<respTail, blocked, matchedIn, action, events>>
           ELSE LET rs == Rules(rsVer)
                    window == respTail \o c
                IN IF \E r \in Named(rs, respRules) : BodyMatch(r, window)
                   THEN /\ RespBodyBlock
                        /\ UNCHANGED <<respTail, leaked>>
                   ELSE /\ respTail' = NextTail(respTail, window, Keep(rs, respRules))
                        /\ UNCHANGED <<blocked, matchedIn, leaked, action, events>>
    /\ UNCHANGED <<updVars, pc, hdrVer, reqRules, respRules, reqTail, reqSeen,
                   status, written, access, req, wafRan>>

(* The upstream response ends. *)
ResponseEnd ==
    /\ pc = "respBody"
    /\ pc' = "logging"
    /\ UNCHANGED <<updVars, hdrVer, reqRules, respRules, reqTail, respTail,
                   blocked, reqSeen, respSeen, matchedIn, leaked,
                   action, status, events, written, access, req, wafRan>>

(* logging, proxy.rs 305-349: the access record takes ctx.action (default  *)
(* "allow") and decision_status (default 200).                             *)
Logging ==
    /\ pc = "logging"
    /\ pc' = "done"
    /\ access' = [action |-> IF action = NoValue THEN "allow" ELSE action,
                  status |-> IF status = NoValue THEN 200 ELSE status]
    /\ UNCHANGED <<updVars, hdrVer, reqRules, respRules, reqTail, respTail,
                   blocked, reqSeen, respSeen, matchedIn, leaked,
                   action, status, events, written, req, wafRan>>

Next ==
    \/ UpdateRules
    \/ RequestFilter
    \/ RequestBodyFilter
    \/ RequestBodyEnd
    \/ ResponseBodyFilter
    \/ ResponseEnd
    \/ Logging

(* RuleUpdater's ticks; the request itself may stop anywhere. *)
Spec == Init /\ [][Next]_vars
           /\ WF_vars(Upd!Stat /\ UNCHANGED reqVars)
           /\ WF_vars(Upd!CompileAndSwap /\ UNCHANGED reqVars)

-----------------------------------------------------------------------------
(* Some deferred rule of the header-time snapshot has a pattern in data. *)
HeaderTimeMatch(idxs, data) ==
    \E r \in Named(Rules(hdrVer), idxs) : BodyMatch(r, data)

(* Spec 4.K and 8 (streaming-boundary completeness, snapshot taken at      *)
(* request start): the request body scan blocks exactly when a body        *)
(* pattern of a rule deferred by the header phase occurs in the request    *)
(* body received so far, however the body was cut into chunks; and the     *)
(* response body scan, unless the request was already blocked, truncates   *)
(* exactly when such a pattern occurs in the response body.                *)
ScanMatchesReference ==
    /\ (matchedIn = "reqBody") <=> HeaderTimeMatch(reqRules, reqSeen)
    /\ (pc = "respBody" /\ matchedIn # "reqBody")
           => ((matchedIn = "respBody") <=> HeaderTimeMatch(respRules, respSeen))

(* Spec 4.G stated of the rules file rather than as a walk: a rule applies *)
(* to a request when it names the request's method (in any case: the       *)
(* context's method is uppercase, spec 4.C), some prefix of it begins the   *)
(* path, and some uri pattern of it occurs in the path ignoring case.       *)
AppliesTo(rule, q) ==
    /\ rule.methods = NoFilter \/ \E m \in rule.methods : UpperStr(m) = q.method
    /\ rule.pathPrefix = NoFilter
       \/ \E p \in rule.pathPrefix : Len(p) <= Len(q.path) /\ SubSeq(q.path, 1, Len(p)) = p
    /\ rule.uriAc = NoFilter
       \/ \E p \in rule.uriAc, i \in 0..Len(q.path) :
              i + Len(p) <= Len(q.path) /\ UpperStr(SubSeq(q.path, i + 1, i + Len(p))) = UpperStr(p)

(* The outcome spec 4.G describes: the first applying rule without body    *)
(* patterns decides (allow when there is none), and the applying body rules *)
(* before it are deferred, in file order.                                  *)
HeaderReference(ruleset, q) ==
    LET app   == {i \in DOMAIN ruleset : AppliesTo(ruleset[i], q)}
        final == {i \in app : ruleset[i].body = NoFilter}
        stop  == IF final = {} THEN Len(ruleset) + 1 ELSE Min(final)
    IN [decision |-> IF final = {} THEN "allow" ELSE ruleset[stop].action,
        deferred |-> SetToSortSeq({i \in app : i < stop}, <)]

(* Spec 4.G and 4.J: a request the enforcer hands to the WAF engine gets   *)
(* the header decision and the deferred body rules that the rules file of  *)
(* the snapshot taken at the request's start gives its method and path,    *)
(* however the file was rewritten and recompiled meanwhile; ctx.action     *)
(* keeps that decision until a body scan blocks.                           *)
HeaderPhaseMatchesReference ==
    wafRan =>
        LET ref == HeaderReference(Rulesets[hdrVer], req)
        IN /\ reqRules = ref.deferred /\ respRules = ref.deferred
           /\ matchedIn = "none" => action = ref.decision

(* Spec 4.K and scenario 8.3: after a body match the request "does not     *)
(* forward the remainder" and the response is truncated: no chunk reaches  *)
(* the other side once the filter has blocked.                             *)
NothingPassedAfterBlock == ~leaked

(* Spec 7 ("blocked requests are surfaced as an HTTP response with the     *)
(* configured status") and the observability interface of spec 6: every    *)
(* blocked request, whichever phase blocked it, has exactly one security   *)
(* event and an allowed one none, and the access record logging writes     *)
(* says block or challenge exactly for a blocked request and carries the   *)
(* status of the block response the proxy wrote (200 when it wrote none,   *)
(* as for a truncated response, whose client got the upstream's status).   *)
AccessLogRecordsOutcome ==
    /\ Len(events) = IF blocked THEN 1 ELSE 0
    /\ pc = "done" =>
          /\ (access.action \in {"block", "challenge"}) <=> blocked
          /\ access.status = IF written = NoValue THEN 200 ELSE written

(* RuleUpdater's promise (RuleUpdater!RulesSettle) while requests run:     *)
(* once the rules file stops changing, the engine publishes it whenever it *)
(* compiles.                                                               *)
RulesSettle == Upd!RulesSettle
=============================================================================
