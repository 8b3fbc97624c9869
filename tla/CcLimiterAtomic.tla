--------------------------- MODULE CcLimiterAtomic ---------------------------
(***************************************************************************)
(* What the CC limiter promises (spec section 4.C): a table of entries,   *)
(* one per key, and check as a single atomic step on the entry of its key *)
(* at the instant of the call.  The step is the five-step state machine    *)
(* of 4.C, written from its text: a blocked key is not counted; an expired *)
(* block or an elapsed window starts a new window with this call as its    *)
(* first; a call past max_requests blocks the key for block_secs.          *)
(* CcLimiter, where check reads a clone and inserts it later, is shown to  *)
(* implement this specification when calls on one key do not overlap.      *)
(***************************************************************************)
EXTENDS Naturals

CONSTANTS Keys, WindowSecs, MaxRequests, BlockSecs, MaxTime, MaxCalls, NoBlock, NoEntry

VARIABLES now, table, calls

Clamp(x) == IF x < 1 THEN 1 ELSE x

(* The entry after one call at time t on entry e (NoEntry: a new key). *)
Checked(e, t) ==
    LET cur     == IF e = NoEntry
                   THEN [windowStart |-> t, count |-> 0, blockedUntil |-> NoBlock, lastSeen |-> t]
                   ELSE e
        blocked == cur.blockedUntil # NoBlock /\ t < cur.blockedUntil
        fresh   == cur.blockedUntil # NoBlock \/ t >= cur.windowStart + Clamp(WindowSecs)
        n       == IF fresh THEN 1 ELSE cur.count + 1
    IN IF blocked
       THEN [cur EXCEPT !.lastSeen = t]
       ELSE [windowStart  |-> IF fresh THEN t ELSE cur.windowStart,
             count        |-> n,
             blockedUntil |-> IF n > Clamp(MaxRequests) THEN t + Clamp(BlockSecs) ELSE NoBlock,
             lastSeen     |-> t]

Init ==
    /\ now = 0
    /\ table = [k \in Keys |-> NoEntry]
    /\ calls = 0

Tick ==
    /\ now < MaxTime
    /\ now' = now + 1
    /\ UNCHANGED <<table, calls>>

Check(k) ==
    /\ calls < MaxCalls
    /\ table' = [table EXCEPT ![k] = Checked(table[k], now)]
    /\ calls' = calls + 1
    /\ UNCHANGED now

Next == Tick \/ \E k \in Keys : Check(k)

Spec == Init /\ [][Next]_<<now, table, calls>>
=============================================================================
