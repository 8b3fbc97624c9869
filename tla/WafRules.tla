------------------------------ MODULE WafRules ------------------------------
(***************************************************************************)
(* The WAF rules of src/pingora-waf/src/waf/rules and the header phase of  *)
(* waf/engine.rs, as operators:                                            *)
(*   rules/rule.rs      Rule, When, Action: one rule of the rules file     *)
(*   rules/compiler.rs  compile_rule, CompiledRuleset::compile             *)
(*   rules/matcher.rs   AcMatcher: ASCII case-insensitive Aho-Corasick     *)
(*   engine.rs          eval_request_headers                               *)
(*                                                                         *)
(* A string is a sequence of characters.  A rule is a record of its when   *)
(* fields, each NoFilter when the file leaves it out, and its action; the  *)
(* compiled rule has the same shape.  header_regex is compiled into        *)
(* _header_regex and never read by any evaluation: its one effect, a      *)
(* compile error on a bad pattern, is a version that does not compile in   *)
(* RuleUpdater.  Rule ids and the version string are left out.             *)
(***************************************************************************)
EXTENDS Naturals, Sequences, SequencesExt

CONSTANTS
    NoFilter,    \* model value: a when field left out (Option::None)
    Upper(_)     \* char::to_ascii_uppercase

(* str::to_ascii_uppercase. *)
UpperStr(s) == [i \in DOMAIN s |-> Upper(s[i])]

(* AcMatcher::is_match, matcher.rs 21-23, of a matcher built with          *)
(* ascii_case_insensitive(true) (matcher.rs 11-18): some pattern occurs in *)
(* the haystack, letters compared without case.                            *)
AcIsMatch(pats, hay) == \E p \in pats : UpperStr(p) \in SubSeqs(UpperStr(hay))

(* Mutant: the method names are kept as the file spells them. *)
CompileRuleKeepCase(r) == r

(* compile_rule, compiler.rs 44-73: the method names are uppercased, the   *)
(* prefixes kept, the uri and body patterns built into matchers.           *)
CompileRule(r) ==
    [r EXCEPT !.methods = IF @ = NoFilter THEN NoFilter ELSE {UpperStr(m) : m \in @}]

(* CompiledRuleset::compile, compiler.rs 26-36: every rule in file order   *)
(* (a parse or regex error is a version RuleUpdater's Compiles leaves out). *)
Compile(ruleset) == [i \in DOMAIN ruleset |-> CompileRule(ruleset[i])]

(* The filters of eval_request_headers, engine.rs 47-61: a rule is skipped *)
(* when its methods leave out the request's method, none of its prefixes   *)
(* begins the path (case-sensitive starts_with), or its uri matcher does   *)
(* not match the path bytes.                                               *)
Skipped(rule, ctx) ==
    \/ rule.methods # NoFilter /\ ctx.method \notin rule.methods
    \/ rule.pathPrefix # NoFilter /\ ~\E p \in rule.pathPrefix : IsPrefix(p, ctx.path)
    \/ rule.uriAc # NoFilter /\ ~AcIsMatch(rule.uriAc, ctx.path)

(* eval_request_headers, engine.rs 37-77, on snapshot rs: walk the rules   *)
(* in order; a skipped rule is passed over, a rule with body_ac has its    *)
(* index deferred (both lists get the same indices), and the first other   *)
(* rule decides with its action.  No deciding rule: allow.                 *)
EvalRequestHeaders(rs, ctx) ==
    LET RECURSIVE Walk(_, _)
        Walk(i, deferred) ==
            IF i > Len(rs) THEN [decision |-> "allow", deferred |-> deferred]
            ELSE IF Skipped(rs[i], ctx) THEN Walk(i + 1, deferred)
            ELSE IF rs[i].body # NoFilter THEN Walk(i + 1, Append(deferred, i))
            ELSE [decision |-> rs[i].action, deferred |-> deferred]
    IN Walk(1, <<>>)
=============================================================================
