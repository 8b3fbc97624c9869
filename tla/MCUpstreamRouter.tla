------------------------- MODULE MCUpstreamRouter --------------------------
(***************************************************************************)
(* UpstreamRouter instantiated for TLC.  The static table of spec         *)
(* scenario 5 (api.customer.com -> t-42.pool.svc, regex ^t-(\d+)\.,       *)
(* tenant 42 -> [u1, u2], default [u0]), then the same routing over DNS    *)
(* with a two-hop chain through a name that may time out, a self-loop up  *)
(* to case, a two-name loop (www.x.com and t-7.pool.svc) and a tenant    *)
(* with no upstreams; then a file that fails to load.                      *)
(***************************************************************************)
EXTENDS UpstreamRouter, TLC

MCLower(n) == IF n = "LOOP.com" THEN "loop.com" ELSE n

(* ^t-(\d+)\. on the CNAMEs of the model. *)
MCCaptures(re, n) ==
    CASE n = "t-42.pool.svc" -> "42"
      [] n = "t-7.pool.svc"  -> "7"
      [] OTHER               -> NoValue

CName(n) == [kind |-> "cname", target |-> n]

MCDns ==
    ("api.customer.com" :> CName("edge.cdn.net")) @@
    ("edge.cdn.net"     :> CName("t-42.pool.svc")) @@
    ("t-42.pool.svc"    :> [kind |-> "noRecords"]) @@
    ("www.x.com"        :> CName("t-7.pool.svc")) @@
    ("t-7.pool.svc"     :> CName("www.x.com")) @@
    ("loop.com"         :> CName("LOOP.com")) @@
    ("LOOP.com"         :> [kind |-> "noRecords"])

Tenants == ("42" :> <<"u1", "u2">>) @@ ("7" :> <<>>)

StaticCfg ==
    [mode |-> "static", ttl |-> NoValue, limit |-> NoValue, regex |-> "t-digits",
     hostToCname |-> ("api.customer.com" :> "t-42.pool.svc") @@ ("www.x.com" :> "t-7.pool.svc"),
     tenants |-> Tenants, default |-> <<"u0">>]

DnsCfg ==
    [mode |-> "dns", ttl |-> 1, limit |-> 2, regex |-> "t-digits",
     hostToCname |-> <<>>, tenants |-> Tenants, default |-> <<"u0">>]

(* Scenario 5, then DNS, then a broken file. *)
MCConfigs == <<StaticCfg, DnsCfg, BadConfig>>
MCConfigsV == [v \in 0..2 |-> MCConfigs[v + 1]]

MCHostHeaders ==
    {<<"api.customer.com", "8080">>, <<"www.x.com">>, <<"loop.com">>}

MCDigits == {"8080", ""}
=============================================================================
