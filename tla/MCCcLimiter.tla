----------------------------- MODULE MCCcLimiter -----------------------------
(* Model-checking instance of CcLimiter: the scenario of spec section 8.2  *)
(* scaled down (max 2 requests per 2 s window, 2 s block) on one key.      *)
EXTENDS CcLimiterRefinement

CONSTANTS t1, t2, k1, k2

(* Two tasks, each calling on its own key: calls on k1 and k2 overlap,     *)
(* calls on one key do not. *)
MCThreadsSeq  == {t1, t2}
MCKeysSeq     == {k1, k2}
MCAffinitySeq == {<<t1, k1>>, <<t2, k2>>}
(* Two tasks calling on the same key. *)
MCThreadsRace  == {t1, t2}
MCKeysRace     == {k1}
MCAffinityRace == {<<t1, k1>>, <<t2, k1>>}

MCWindowSecs  == 2
MCMaxRequests == 2
MCBlockSecs   == 2
MCMaxTime     == 6
MCMaxCalls    == 8
=============================================================================
