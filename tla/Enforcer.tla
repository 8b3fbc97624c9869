------------------------------ MODULE Enforcer ------------------------------
(***************************************************************************)
(* The request-header decision pipeline of src/pingora-waf/src/policy:    *)
(*                                                                         *)
(*   domain_map.rs        DomainMatcher::from_file / match_policy_id      *)
(*   manager.rs           PolicyManager::get_policy_for_host              *)
(*   protection/*.rs      matcher::eval, build_key, get_cookie_value,     *)
(*                        ProtectionEngine::eval_rules / exec_action      *)
(*   enforcer.rs          PolicyEnforcer::enforce_request_headers         *)
(*   waf/context.rs       WafContext::from_session, extract_host,        *)
(*                        normalize_host                                   *)
(*   waf/normalizer.rs    Normalizer::normalize_path                       *)
(*                                                                         *)
(* with the CC limiter of cc.rs, taken from the CcLimiter module, as the  *)
(* state that outlives a request.  One request is one atomic step: the    *)
(* whole enforce_request_headers call with every limiter check it makes   *)
(* (CcLimiter shows what happens when two calls interleave).              *)
(*                                                                         *)
(* Host names and domain map keys are sequences of labels: the string     *)
(* "a.example.com" is <<"a", "example", "com">> and "" is <<"">>.  Labels *)
(* never contain a dot, so the string operations of the code (equality,   *)
(* ends_with(".suf"), byte length) are operations on label sequences.     *)
(* A request arrives raw: its host header, :authority and URI authority   *)
(* are sequences of tokens, each "." ":" "[" or " " or a run of other      *)
(* characters, and its path a sequence of "/" and segment names; the      *)
(* request context turns them into the label and path forms.              *)
(***************************************************************************)
EXTENDS Naturals, Sequences, SequencesExt, FiniteSets, TLC

CONSTANTS
    DomainFiles,   \* the domain map files that may be on disk: sets of [key, policy]
    DefaultPolicy, \* default_policy of the domain map file
    Policies,      \* the compiled policies: a function from policy id to [precise, base, waf]
    Hosts,         \* host strings match_policy_id may be asked about
    Requests,      \* the raw requests a client may send
    Digits,        \* the tokens made of ASCII digits only
    Lower(_),      \* to_ascii_lowercase / the case folding of eq_ignore_ascii_case
    WafDecision(_),\* WafEngine::eval_request_headers: the decision for a request
    MaxTime,       \* bound on the clock
    MaxReqs,       \* bound on the number of requests
    NoValue,       \* model value: an Option that is None
    NoBlock,       \* model value: blocked_until = None (CcLimiter)
    NoEntry        \* model value: key absent from the CC table (CcLimiter)

VARIABLES
    file,    \* the domain map file on disk
    dm,      \* the DomainMatcher of the published PolicyState
    now,     \* the clock (whole seconds)
    cc,      \* the CcLimiter's table
    nreq,    \* requests handled (bound)
    last     \* the last request: its input, the table before it, its result

vars == <<file, dm, now, cc, nreq, last>>

-----------------------------------------------------------------------------
(***************************************************************************)
(* The request context (waf/context.rs, waf/normalizer.rs).                *)
(***************************************************************************)
(* str::trim: whitespace off both ends. *)
Trim(t) ==
    LET keep == {i \in DOMAIN t : t[i] # " "}
    IN IF keep = {} THEN <<>> ELSE SubSeq(t, Min(keep), Max(keep))

(* trim_end_matches('.'). *)
TrimEndDots(t) ==
    LET keep == {i \in DOMAIN t : t[i] # "."}
    IN IF keep = {} THEN <<>> ELSE SubSeq(t, 1, Max(keep))

(* normalize_host, context.rs 68-82: trim, drop trailing dots, lowercase; *)
(* a bracketed literal is kept; otherwise the part after the last ':' is   *)
(* dropped when it is one or more digits.                                  *)
NormalizeHost(raw) ==
    LET t == TrimEndDots(Trim(raw))
        h == [i \in DOMAIN t |-> Lower(t[i])]
        colons == {i \in DOMAIN h : h[i] = ":"}
        i == IF colons = {} THEN 0 ELSE Max(colons)
    IN IF h # <<>> /\ h[1] = "[" THEN h
       ELSE IF i > 0 /\ i < Len(h) /\ \A j \in (i + 1)..Len(h) : h[j] \in Digits
       THEN SubSeq(h, 1, i - 1)
       ELSE h

(* The host string as labels: split at ".", the other tokens of a label    *)
(* concatenated ("" is <<"">>).                                            *)
Labels(t) ==
    FoldLeft(LAMBDA acc, x : IF x = "." THEN Append(acc, "")
                             ELSE [acc EXCEPT ![Len(acc)] = @ \o x],
             <<"">>, t)

(* extract_host, context.rs 43-63: the host header, else the authority    *)
(* header, else the URI authority; NoValue if none.                        *)
HostSource(r) ==
    IF r.hostHdr # NoValue THEN r.hostHdr
    ELSE IF r.authority # NoValue THEN r.authority
    ELSE r.uriAuth

(* extract_host, context.rs 65: the source normalized. *)
ExtractHost(r) ==
    LET h == HostSource(r) IN IF h = NoValue THEN NoValue ELSE Labels(NormalizeHost(h))

(* Normalizer::normalize_path, normalizer.rs 4-23: a '/' right after a     *)
(* '/' is dropped; an empty result is "/".  The result is given as the     *)
(* path form of the model: "/" starts a new chunk, a name extends it.      *)
NormalizePath(raw) ==
    LET out == SelectSeq([i \in DOMAIN raw |-> <<i, raw[i]>>],
                         LAMBDA p : ~(p[2] = "/" /\ p[1] > 1 /\ raw[p[1] - 1] = "/"))
        toks == IF out = <<>> THEN <<"/">> ELSE [i \in DOMAIN out |-> out[i][2]]
    IN FoldLeft(LAMBDA acc, x : IF x = "/" \/ acc = <<>> THEN Append(acc, x)
                                ELSE [acc EXCEPT ![Len(acc)] = @ \o x],
                <<>>, toks)

(* WafContext::from_session, context.rs 14-40, with the headers the        *)
(* protection rules read. *)
Context(r) ==
    [method |-> r.method, path |-> NormalizePath(r.path), host |-> ExtractHost(r),
     ip |-> r.ip, ua |-> r.ua, headers |-> r.headers]

-----------------------------------------------------------------------------
(***************************************************************************)
(* DomainMatcher (domain_map.rs).                                          *)
(***************************************************************************)
LowerName(n) == [i \in DOMAIN n |-> Lower(n[i])]

(* key.strip_prefix("*."): a wildcard key is "*" followed by more labels. *)
IsWild(key) == Len(key) >= 2 /\ key[1] = "*"

(* The byte length of the dotted string of a label sequence. *)
ByteLen(n) == FoldLeft(LAMBDA acc, l : acc + Len(l), Len(n) - 1, n)

(* Mutant: ascending instead of descending. *)
RECURSIVE InsertByLenAsc(_, _)
InsertByLenAsc(w, s) ==
    IF s = <<>> \/ ByteLen(w.suffix) <= ByteLen(Head(s).suffix)
    THEN <<w>> \o s
    ELSE <<Head(s)>> \o InsertByLenAsc(w, Tail(s))

(* Stable insertion by descending suffix length, for a right fold: an     *)
(* entry goes before every later entry that is not longer.                *)
RECURSIVE InsertByLen(_, _)
InsertByLen(w, s) ==
    IF s = <<>> \/ ByteLen(w.suffix) >= ByteLen(Head(s).suffix)
    THEN <<w>> \o s
    ELSE <<Head(s)>> \o InsertByLen(w, Tail(s))

(* from_file, lines 27-48, over the entries in the HashMap's iteration    *)
(* order o: lowercase each key; a later exact key overwrites an earlier   *)
(* one (insert); wildcard suffixes are pushed in order, then stably       *)
(* sorted longest first (sort_by).                                        *)
FromFile(o) ==
    LET low == [i \in DOMAIN o |-> [key |-> LowerName(o[i].key), policy |-> o[i].policy]]
        AddExact(acc, e) == IF IsWild(e.key) THEN acc ELSE (e.key :> e.policy) @@ acc
        ws  == SelectSeq(low, LAMBDA e : IsWild(e.key))
        wild == [i \in DOMAIN ws |-> [suffix |-> Tail(ws[i].key), policy |-> ws[i].policy]]
    IN [exact   |-> FoldLeft(AddExact, <<>>, low),
        wild    |-> FoldRight(InsertByLen, wild, <<>>),
        default |-> DefaultPolicy]

(* The matchers a file can give: one per iteration order of its entries  *)
(* (a HashMap's order depends on its random hasher seed).                 *)
Matchers(f) ==
    LET s == SetToSeq(f)
    IN {FromFile([i \in DOMAIN s |-> s[p[i]]]) : p \in Permutations(DOMAIN s)}

(* h == suf || h.ends_with(".suf") *)
SuffixMatches(suf, h) == h = suf \/ IsStrictSuffix(suf, h)

(* match_policy_id, lines 50-64. *)
MatchPolicyId(m, host) ==
    LET h == LowerName(host)
        i == SelectInSeq(m.wild, LAMBDA w : SuffixMatches(w.suffix, h))
    IN IF h \in DOMAIN m.exact THEN m.exact[h]
       ELSE IF i = 0 THEN m.default
       ELSE m.wild[i].policy

Fallback == [precise |-> <<>>, base |-> <<>>, waf |-> FALSE]

(* get_policy_for_host, manager.rs 43-60: the policy of id pid, else the  *)
(* default policy, else a rule-less policy with the WAF off.              *)
PolicyOf(pid, default) ==
    IF pid \in DOMAIN Policies THEN Policies[pid]
    ELSE IF default \in DOMAIN Policies THEN Policies[default]
    ELSE Fallback

GetPolicyForHost(m, host) == PolicyOf(MatchPolicyId(m, host), m.default)

-----------------------------------------------------------------------------
(***************************************************************************)
(* Match expressions (protection/matcher.rs) over a request q:            *)
(* [method, path, host, ip, ua, headers].  host, ip and ua may be NoValue; *)
(* path is a sequence of path tokens; headers maps every header name the   *)
(* rules mention to its value or NoValue (absent, or not visible ASCII:    *)
(* ReqHeaderView::get, enforcer.rs 16-18).  The value of "cookie" is the   *)
(* sequence of its ';'-separated pairs, trimmed, as [name, value].  A      *)
(* header_regex carries the set of values its regex matches.              *)
(***************************************************************************)
RECURSIVE Eval(_, _)
Eval(m, q) ==
    CASE m.op = "any"          -> TRUE
      [] m.op = "pathPrefix"   -> IsPrefix(m.prefix, q.path)
      [] m.op = "methodIn"     -> \E x \in m.methods : Lower(x) = Lower(q.method)
      [] m.op = "hostIn"       -> q.host # NoValue /\
                                  \E x \in m.hosts : LowerName(x) = LowerName(q.host)
      [] m.op = "headerExists" -> q.headers[m.name] # NoValue
      [] m.op = "headerEquals" -> q.headers[m.name] # NoValue /\ q.headers[m.name] = m.value
      [] m.op = "headerRegex"  -> q.headers[m.name] # NoValue /\ q.headers[m.name] \in m.matches
      [] m.op = "and"          -> \A i \in DOMAIN m.xs : Eval(m.xs[i], q)
      [] m.op = "or"           -> \E i \in DOMAIN m.xs : Eval(m.xs[i], q)
      [] m.op = "not"          -> ~Eval(m.x, q)

(* get_cookie_value, cookie.rs 1-21: the value of the first pair whose    *)
(* name equals name ignoring ASCII case (a pair without '=' has name      *)
(* NoValue and is skipped).                                                *)
GetCookieValue(pairs, name) ==
    LET i == SelectInSeq(pairs, LAMBDA c : c.name # NoValue /\ Lower(c.name) = Lower(name))
    IN IF i = 0 THEN NoValue ELSE pairs[i].value

OrEmpty(v) == IF v = NoValue THEN "" ELSE v

(* part_value, key.rs 21-42.  A key part is [kind] or [kind, name] for    *)
(* "header:<name>" / "cookie:<name>"; any other token has kind "other".   *)
PartValue(p, q) ==
    CASE p.kind = "client_ip"  -> IF q.ip = NoValue THEN "0.0.0.0" ELSE q.ip
      [] p.kind = "host"       -> IF q.host = NoValue THEN <<"">> ELSE q.host
      [] p.kind = "path"       -> q.path
      [] p.kind = "method"     -> q.method
      [] p.kind = "user_agent" -> OrEmpty(q.ua)
      [] p.kind = "header"     -> OrEmpty(q.headers[p.name])
      [] p.kind = "cookie"     -> IF q.headers["cookie"] = NoValue THEN ""
                                  ELSE OrEmpty(GetCookieValue(q.headers["cookie"], p.name))
      [] p.kind = "other"      -> ""

(* build_key, key.rs 6-19, and the table key "rule=<id>|<key_body>" of    *)
(* cc.rs 50.  The "p=v" segments joined by '|' are kept as the sequence   *)
(* of pairs they are built from: distinct sequences give distinct keys as *)
(* long as no value contains '|' or '=', which no modelled value does.    *)
CcKey(id, parts, q) == <<id, [i \in DOMAIN parts |-> <<parts[i], PartValue(parts[i], q)>>]>>

-----------------------------------------------------------------------------
(***************************************************************************)
(* ProtectionEngine (protection/engine.rs).  A rule is [id, match,        *)
(* action]; an action is [kind, status, reason] with kind "allow", "log",  *)
(* "block" or "challenge", or [kind |-> "cc", parts, window, max, block,   *)
(* onLimit] whose onLimit is a log, block or challenge action (compiled.rs *)
(* 116-121 admits no other).  A decision is [kind, status, rule, reason].  *)
(***************************************************************************)
AllRules == UNION {Range(p.precise) \cup Range(p.base) : p \in Range(Policies)}

CcKeys == {CcKey(r.id, r.action.parts, q) :
              r \in {x \in AllRules : x.action.kind = "cc"}, q \in {Context(x) : x \in Requests}}

(* The limiter of cc.rs with the parameters of a CC action a, on table    *)
(* tbl.                                                                    *)
Limiter(a, tbl) == INSTANCE CcLimiter WITH
    WindowSecs <- a.window, MaxRequests <- a.max, BlockSecs <- a.block,
    Threads <- {}, Keys <- DOMAIN tbl, Affinity <- {}, MaxCalls <- 0,
    table <- tbl, pc <- <<>>, call <- <<>>, calls <- 0, allowed <- <<>>, blockEnd <- <<>>

Allow == [kind |-> "allow", status |-> 0, rule |-> "", reason |-> <<>>]

(* Decision::is_terminal, waf/decision.rs 34-36. *)
IsTerminal(d) == d.kind \in {"block", "challenge"}

(* exec_action, lines 36-113: the decision of rule r's action and the     *)
(* limiter table after it.  A CC action runs CcLimiter::check on its key  *)
(* at time clk and, on a hit, its on_limit action with the reason         *)
(* "<hit>; <reason>".                                                      *)
ExecAction(r, q, tbl, clk) ==
    LET a == r.action IN
    CASE a.kind \in {"allow", "log"} -> [d |-> Allow, cc |-> tbl]
      [] a.kind \in {"block", "challenge"} ->
            [d |-> [kind |-> a.kind, status |-> a.status, rule |-> r.id, reason |-> <<a.reason>>],
             cc |-> tbl]
      [] a.kind = "cc" ->
            LET k   == CcKey(r.id, a.parts, q)
                res == Limiter(a, tbl)!CheckStep(Limiter(a, tbl)!ReadEntry(k, clk), clk)
                t2  == [tbl EXCEPT ![k] = res.e]
                o   == a.onLimit
            IN IF res.hit = "none" \/ o.kind = "log" THEN [d |-> Allow, cc |-> t2]
               ELSE [d |-> [kind |-> o.kind, status |-> o.status, rule |-> r.id,
                            reason |-> <<res.hit, o.reason>>],
                     cc |-> t2]

(* Mutant: the engine stops at the first rule whose matcher is true. *)
EvalRulesFirstMatch(rules, q, tbl, clk) ==
    LET Step(acc, r) ==
            IF acc.matched \/ ~Eval(r.match, q) THEN acc
            ELSE LET x == ExecAction(r, q, acc.cc, clk)
                 IN [d |-> x.d, cc |-> x.cc, matched |-> TRUE]
        res == FoldLeft(Step, [d |-> Allow, cc |-> tbl, matched |-> FALSE], rules)
    IN [d |-> res.d, cc |-> res.cc]

(* eval_rules, lines 13-34: run the action of every rule whose matcher is *)
(* true, in order, until one is terminal; Allow if none is.  Once a       *)
(* decision is terminal the later rules are neither matched nor run.      *)
EvalRules(rules, q, tbl, clk) ==
    LET Step(acc, r) ==
            IF IsTerminal(acc.d) \/ ~Eval(r.match, q) THEN acc
            ELSE ExecAction(r, q, acc.cc, clk)
    IN FoldLeft(Step, [d |-> Allow, cc |-> tbl], rules)

(* wctx.host.as_deref().unwrap_or(""), enforcer.rs 40. *)
HostOf(q) == IF q.host = NoValue THEN <<"">> ELSE q.host

(* enforce_request_headers, enforcer.rs 39-68: precise rules, then base   *)
(* rules, then, if the policy enables it, the WAF engine.  One load of    *)
(* the policy state serves both the policy and the limiter (lines 41, 46; *)
(* PolicyReload shows every reload carries the limiter over).             *)
EnforceRequestHeaders(m, q, tbl, clk) ==
    LET pol == GetPolicyForHost(m, HostOf(q))
        d1  == EvalRules(pol.precise, q, tbl, clk)
        d2  == EvalRules(pol.base, q, d1.cc, clk)
    IN IF IsTerminal(d1.d) THEN d1
       ELSE IF IsTerminal(d2.d) THEN d2
       ELSE IF ~pol.waf THEN [d |-> Allow, cc |-> d2.cc]
       ELSE [d |-> WafDecision(q), cc |-> d2.cc]

-----------------------------------------------------------------------------
ASSUME DefaultPolicy \in DOMAIN Policies

(* Rule ids are distinct within a policy, so its CC rules use distinct    *)
(* limiter keys.                                                           *)
ASSUME \A p \in Range(Policies) :
          LET L == p.precise \o p.base IN
          \A i, j \in DOMAIN L : L[i].id = L[j].id => i = j

TypeOK ==
    /\ file \in DomainFiles
    /\ now \in 0..MaxTime
    /\ DOMAIN cc = CcKeys
    /\ nreq \in 0..MaxReqs

(* main.rs 102-107: the policy state loaded at startup, with an empty     *)
(* limiter table.                                                          *)
Init ==
    /\ file \in DomainFiles
    /\ dm \in Matchers(file)
    /\ now = 0
    /\ cc = [k \in CcKeys |-> NoEntry]
    /\ nreq = 0
    /\ last = NoValue

(* The clock advances. *)
Tick ==
    /\ now < MaxTime
    /\ now' = now + 1
    /\ UNCHANGED <<file, dm, cc, nreq, last>>

(* request_filter, server/proxy.rs 135-183, up to the decision: the       *)
(* request context of the raw request raw is built and the enforcer       *)
(* decides it against the published domain matcher and the limiter table. *)
Request(raw) ==
    /\ nreq < MaxReqs
    /\ LET q == Context(raw)
           r == EnforceRequestHeaders(dm, q, cc, now)
       IN /\ cc' = r.cc
          /\ last' = [raw |-> raw, q |-> q, pre |-> cc, at |-> now, d |-> r.d]
    /\ nreq' = nreq + 1
    /\ UNCHANGED <<file, dm, now>>

(* DomainMapUpdater reloads the unchanged file (policy/update.rs 56-65,   *)
(* manager.rs 62-67): from_file over a fresh HashMap, whose iteration     *)
(* order is new.  The swap carries the limiter over.                       *)
ReloadDomainMap ==
    /\ dm' \in Matchers(file)
    /\ UNCHANGED <<file, now, cc, nreq, last>>

Next ==
    \/ Tick
    \/ \E raw \in Requests : Request(raw)
    \/ ReloadDomainMap

Spec == Init /\ [][Next]_vars

-----------------------------------------------------------------------------
(* The policy spec section 8 describes: the exact entry of the lowercased *)
(* host, else the wildcard entry of the longest (in bytes) suffix that     *)
(* matches, else the default.                                              *)
RefPolicyId(f, host) ==
    LET h  == LowerName(host)
        ex == {e \in f : ~IsWild(LowerName(e.key)) /\ LowerName(e.key) = h}
        ws == {e \in f : IsWild(LowerName(e.key)) /\ SuffixMatches(Tail(LowerName(e.key)), h)}
    IN IF ex # {} THEN (CHOOSE e \in ex : TRUE).policy
       ELSE IF ws = {} THEN DefaultPolicy
       ELSE (CHOOSE e \in ws : \A x \in ws : ByteLen(Tail(x.key)) <= ByteLen(Tail(e.key))).policy

(* Spec 4.H and 8 (domain matcher specificity): whatever order the        *)
(* HashMap of the domain map yields, match_policy_id picks the exact      *)
(* entry, else the longest matching wildcard suffix, else the default.    *)
DomainSpecificity == \A h \in Hosts : MatchPolicyId(dm, h) = RefPolicyId(file, h)

(* The decision spec 4.F/4.J and 8 (terminal precedence) describe for     *)
(* request q on table t: the rules precise ++ base in order; the first    *)
(* rule that matches and is terminal decides, and only the CC rules that  *)
(* match before it check the limiter; with none, the WAF engine if the    *)
(* policy enables it, else Allow.                                         *)
RefEnforce(q, t, clk) ==
    LET pol   == PolicyOf(RefPolicyId(file, HostOf(q)), DefaultPolicy)
        L     == pol.precise \o pol.base
        hit(i) == Eval(L[i].match, q)
        res(i) == EvalRules(<<L[i]>>, q, t, clk)   \* rule i on its own
        term  == {i \in DOMAIN L : hit(i) /\ IsTerminal(res(i).d)}
        stop  == IF term = {} THEN Len(L) ELSE Min(term)
        ccOf(k) == {i \in 1..stop : hit(i) /\ L[i].action.kind = "cc"
                                    /\ CcKey(L[i].id, L[i].action.parts, q) = k}
    IN [d  |-> IF term # {} THEN res(stop).d
               ELSE IF pol.waf THEN WafDecision(q) ELSE Allow,
        cc |-> [k \in DOMAIN t |-> IF ccOf(k) = {} THEN t[k]
                                 ELSE res(CHOOSE i \in ccOf(k) : TRUE).cc[k]]]

(* Spec 4.J and 8: enforce_request_headers returns the decision of the    *)
(* first terminal precise or base rule (preempting the WAF engine), and   *)
(* updates the limiter exactly for the CC rules evaluated before it.      *)
DecisionMatchesReference ==
    last # NoValue =>
        LET ref == RefEnforce(last.q, last.pre, last.at)
        IN last.d = ref.d /\ cc = ref.cc

(* The request host spec section 3 describes: lowercased, trailing dot    *)
(* stripped, port stripped for non-bracketed hosts, whatever order the     *)
(* dot and the port come in.                                               *)
SpecHost(r) ==
    LET h == HostSource(r) IN
    IF h = NoValue THEN NoValue ELSE Labels(TrimEndDots(NormalizeHost(h)))

(* Spec 3 and 8 (host normalization): the policy a request is enforced    *)
(* with is the domain map's policy for its normalized host, so a host     *)
(* written with a trailing dot, a port or in upper case gets the policy   *)
(* of the domain it names.  This is about normalize_host stripping the    *)
(* trailing dots before the port, and get_policy_for_host receiving what  *)
(* it leaves.                                                             *)
HostPolicyAsSpecified ==
    last # NoValue =>
        RefPolicyId(file, HostOf(last.q)) = RefPolicyId(file, HostOf([host |-> SpecHost(last.raw)]))

=============================================================================
