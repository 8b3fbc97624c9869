------------------------------ MODULE MCBodyScan ------------------------------
(* Model-checking instances of BodyScan.                                   *)
EXTENDS BodyScan

(* Method names and paths, as characters.  The file spells a method in    *)
(* lower case; requests carry the uppercase names http::Method gives.      *)
GET  == <<"G", "E", "T">>
POST == <<"P", "O", "S", "T">>
post == <<"p", "o", "s", "t">>
MCUpper(c) == CASE c = "p" -> "P" [] c = "o" -> "O" [] c = "s" -> "S"
                [] c = "t" -> "T" [] c = "a" -> "A" [] OTHER -> c

(* POST /a, GET /Ab (an uppercase letter: path_prefix is case-sensitive,   *)
(* uri_ac is not), POST /ab and GET /a.                                    *)
MCRequests == {[method |-> POST, path |-> <<"/", "a">>],
               [method |-> GET, path |-> <<"/", "A", "b">>],
               [method |-> POST, path |-> <<"/", "a", "b">>],
               [method |-> GET, path |-> <<"/", "a">>]}

Rule(m, pfx, uri, body, act) ==
    [methods |-> m, pathPrefix |-> pfx, uriAc |-> uri, body |-> body, action |-> act]

(* Rules file with two body rules of pattern lengths 3 and 2 (keep = 2),   *)
(* one for POST (spelled post) and one under the prefix /a, and a plain    *)
(* rule on the uri pattern "ab" that decides in the header phase.          *)
RuleABA  == Rule({post}, NoFilter, NoFilter, {<<"a", "b", "a">>}, "block")
RuleBB   == Rule(NoFilter, {<<"/", "a">>}, NoFilter, {<<"b", "b">>}, "challenge")
RuleDeny == Rule(NoFilter, NoFilter, {<<"a", "b">>}, NoFilter, "block")
RulesV1  == <<RuleABA, RuleBB, RuleDeny>>

(* The rules file touched without a content change, then rewritten with a  *)
(* plain rule inserted at the top, which shifts every index by one.        *)
MCSameTwice == <<RulesV1, RulesV1>>
(* The rules file touched twice without a content change; the first write *)
(* leaves it half-written (version 2 does not compile).                    *)
MCSameThrice == <<RulesV1, RulesV1, RulesV1>>
MCShifted   == <<RulesV1, <<Rule(NoFilter, {<<"/", "A">>}, NoFilter, NoFilter, "allow"),
                           RuleABA, RuleBB, RuleDeny>> >>
=============================================================================
