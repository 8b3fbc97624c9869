----------------------------- MODULE MCEnforcer -----------------------------
(***************************************************************************)
(* Enforcer instantiated for TLC with the domain map and policies of the  *)
(* scenarios of spec section 8 (1: domain map; 2: CC per client_ip with a *)
(* block on the limit; 4: a precise POST /admin block over an allow-all   *)
(* base) and rules that reach every match operator, key part and action.  *)
(***************************************************************************)
EXTENDS Enforcer

MCLower(x) ==
    CASE x = "A"       -> "a"
      [] x = "EXAMPLE" -> "example"
      [] x = "FOO"     -> "foo"
      [] x = "POST"    -> "post"
      [] x = "GET"     -> "get"
      [] x = "SID"     -> "sid"
      [] OTHER         -> x

(* Domain map entries: scenario 1, a wildcard whose policy does not      *)
(* exist and the key "*." (empty suffix).                                 *)
EA   == [key |-> <<"a", "example", "com">>,      policy |-> "P1"]
EEx  == [key |-> <<"*", "example", "com">>,      policy |-> "P2"]
ECom == [key |-> <<"*", "com">>,                 policy |-> "P3"]
EB   == [key |-> <<"*", "b", "example", "com">>, policy |-> "PX"]
EDot == [key |-> <<"*", "">>,                    policy |-> "P3"]
(* Every domain map made of these entries. *)
MCFiles == SUBSET {EA, EEx, ECom, EB, EDot}

MCHosts ==
    {<<"a", "example", "com">>, <<"A", "EXAMPLE", "com">>, <<"b", "example", "com">>,
     <<"c", "b", "example", "com">>, <<"example", "com">>, <<"x", "com">>,
     <<"foo", "net">>, <<"">>}

Rule(id, m, a) == [id |-> id, match |-> m, action |-> a]
Act(kind, status, reason) == [kind |-> kind, status |-> status, reason |-> reason]
Cc(parts, w, m, b, onLimit) ==
    [kind |-> "cc", parts |-> parts, window |-> w, max |-> m, block |-> b, onLimit |-> onLimit]
AnyM == [op |-> "any"]

MCPolicies ==
  [p \in {"P1", "P2", "P3", "PD"} |->
    CASE p = "P1" ->
          [precise |-> <<Rule("deny", AnyM, Act("block", 403, "deny all"))>>,
           base |-> <<>>, waf |-> FALSE]
      [] p = "P2" ->
          [precise |-> <<Rule("bot-re", [op |-> "headerRegex", name |-> "x-bot", matches |-> {"2"}],
                              Act("block", 403, "bot"))>>,
           base |-> <<Rule("bot-log", [op |-> "headerExists", name |-> "x-bot"], Act("log", 0, "bot")),
                      Rule("bot-chal", [op |-> "headerEquals", name |-> "x-bot", value |-> "1"],
                           Act("challenge", 403, "bot")),
                      Rule("api-cc", [op |-> "pathPrefix", prefix |-> <<"/api">>],
                           Cc(<<[kind |-> "cookie", name |-> "SID"], [kind |-> "header", name |-> "x-bot"],
                                [kind |-> "user_agent"], [kind |-> "host"], [kind |-> "method"],
                                [kind |-> "path"], [kind |-> "other"]>>,
                              0, 1, 1, Act("challenge", 429, "slow")))>>,
           waf |-> TRUE]
      [] p = "P3" ->
          [precise |-> <<>>,
           base |-> <<Rule("ip-cc", [op |-> "not", x |-> [op |-> "hostIn", hosts |-> {<<"FOO", "net">>}]],
                           Cc(<<[kind |-> "client_ip"]>>, 1, 1, 1, Act("log", 0, "noisy"))),
                      Rule("allow", AnyM, Act("allow", 0, ""))>>,
           waf |-> FALSE]
      [] p = "PD" ->
          [precise |-> <<Rule("admin", [op |-> "and", xs |-> <<[op |-> "methodIn", methods |-> {"post"}],
                                                           [op |-> "pathPrefix", prefix |-> <<"/admin">>]>>],
                              Act("block", 403, "admin"))>>,
           base |-> <<Rule("allow-all", AnyM, Act("allow", 0, "")),
                      Rule("cc-ip", [op |-> "or", xs |-> <<[op |-> "hostIn", hosts |-> {}], AnyM>>],
                           Cc(<<[kind |-> "client_ip"]>>, 1, 2, 2, Act("block", 429, "rate")))>>,
           waf |-> TRUE]]

NoHeaders == [h \in {"x-bot", "cookie"} |-> NoValue]
(* A raw request: method, raw path, host header, :authority, URI          *)
(* authority, client address, user agent, headers. *)
Req(method, path, hostHdr, authority, uriAuth, ip, ua, hdrs) ==
    [method |-> method, path |-> path, hostHdr |-> hostHdr, authority |-> authority,
     uriAuth |-> uriAuth, ip |-> ip, ua |-> ua, headers |-> hdrs]

MCRequests ==
    { \* scenario 4: POST //admin//x to FOO.net:8080 is blocked by the precise rule
      Req("POST", <<"/", "/", "admin", "/", "/", "x">>, <<"FOO", ".", "net", ":", "8080">>,
          NoValue, NoValue, "ip1", "curl", NoHeaders),
      \* scenario 4 and 2: GET /admin/x (HTTP/2 :authority) passes to the WAF engine
      Req("GET", <<"/", "admin", "/", "x">>, NoValue, <<"foo", ".", "net">>, NoValue,
          "ip1", "sqlmap", NoHeaders),
      \* no host, no client address, no user agent; path "//"
      Req("GET", <<"/", "/">>, NoValue, NoValue, NoValue, NoValue, NoValue, NoHeaders),
      \* P2 by the URI authority: a bot header that is challenged
      Req("GET", <<"/", "api">>, NoValue, NoValue, <<"x", ".", "example", ".", "com">>, "ip2", "curl",
          [NoHeaders EXCEPT !["x-bot"] = "1",
                            !["cookie"] = <<[name |-> NoValue, value |-> "junk"],
                                            [name |-> "sid", value |-> "s1"],
                                            [name |-> "SID", value |-> "s2"]>>]),
      \* P2 by " x.example.com.": a bot header that reaches the CC rule
      Req("GET", <<"/", "api", "/", "v">>, <<" ", "x", ".", "example", ".", "com", ".">>,
          NoValue, NoValue, "ip2", "curl",
          [NoHeaders EXCEPT !["x-bot"] = "0", !["cookie"] = <<[name |-> "sid", value |-> "s1"]>>]),
      \* scenario 1: a.example.com gets P1
      Req("GET", <<"/">>, <<"a", ".", "example", ".", "com">>, NoValue, NoValue, "ip2", "curl", NoHeaders),
      \* P3 through *.com
      Req("GET", <<"/">>, <<"x", ".", "com">>, NoValue, NoValue, "ip1", "curl", NoHeaders) }

(* Scenario 1's host written as an absolute name with its port. *)
MCRequestsDotPort ==
    {Req("GET", <<"/">>, <<"a", ".", "example", ".", "com", ".", ":", "443">>, NoValue, NoValue,
         "ip2", "curl", NoHeaders)}
MCFilesScenario1 == {{EA, EEx}}

MCWafDecision(q) ==
    IF q.ua = "sqlmap"
    THEN [kind |-> "block", status |-> 403, rule |-> "waf-sqli", reason |-> <<"scanner">>]
    ELSE Allow
=============================================================================
