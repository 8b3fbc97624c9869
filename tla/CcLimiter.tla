------------------------------ MODULE CcLimiter ------------------------------
(***************************************************************************)
(* The CC (request-rate) limiter of src/pingora-waf/src/policy/cc.rs.      *)
(*                                                                         *)
(* CcLimiter::check reads the entry of its key out of the DashMap as a     *)
(* clone (line 53), runs the window/block state machine on the clone and   *)
(* writes it back with insert (lines 65, 88, 97).  The read and the write  *)
(* are two separate map operations: requests of the same key running on    *)
(* different runtime threads may interleave between them.  A call is       *)
(* therefore two actions, CheckRead and CheckWrite.                        *)
(*                                                                         *)
(* Time is a discrete clock of whole seconds; Instant::now() is read once  *)
(* at the start of the call (line 44), so a call can write back an entry   *)
(* computed from a clock value that is already stale.                      *)
(***************************************************************************)
EXTENDS Naturals, FiniteSets

CONSTANTS
    Threads,      \* request tasks that may call check concurrently
    Keys,         \* rate-limit keys "rule=<id>|<key_body>"
    Affinity,     \* pairs <<thread, key>>: the keys each thread's requests map to
    WindowSecs,   \* CcParams.window_secs as configured (may be 0)
    MaxRequests,  \* CcParams.max_requests as configured (may be 0)
    BlockSecs,    \* CcParams.block_secs as configured (may be 0)
    MaxTime,      \* bound on the clock
    MaxCalls,     \* bound on the number of calls
    NoBlock,      \* model value: blocked_until = None
    NoEntry       \* model value: key absent from the table

ASSUME /\ WindowSecs \in Nat /\ MaxRequests \in Nat /\ BlockSecs \in Nat
       /\ MaxTime \in Nat /\ MaxCalls \in Nat

VARIABLES
    now,       \* the clock
    table,     \* DashMap<String, Entry>
    pc,        \* per thread: "idle" or "computed" (between get and insert)
    call,      \* per thread: the call in progress or last completed
    calls,     \* number of calls begun (bound)
    allowed,   \* history: allowed[k][t] = calls on k at time t that got None
    blockEnd   \* history: latest blocked_until any call has set on k

vars == <<now, table, pc, call, calls, allowed, blockEnd>>

Time == 0..MaxTime

(* The clamps of check, lines 46-48: every parameter is at least 1. *)
AtLeastOne(x) == IF x < 1 THEN 1 ELSE x
window   == AtLeastOne(WindowSecs)
blockFor == AtLeastOne(BlockSecs)
maxReq   == AtLeastOne(MaxRequests)

(* A sequential limiter never counts past maxReq + 1: the call that       *)
(* exceeds blocks the key and blocked calls do not count.                  *)
Entry == [windowStart : Time, count : 0..(maxReq + 1),
          blockedUntil : (0..(MaxTime + blockFor)) \cup {NoBlock},
          lastSeen : Time]

Hit == {"none", "blocked", "exceeded"}

(* Instant::duration_since saturates at zero. *)
DurationSince(a, b) == IF a >= b THEN a - b ELSE 0

(* Lines 53-58: the cloned entry, or a fresh one for an absent key. *)
ReadEntry(k, t) ==
    IF table[k] = NoEntry
    THEN [windowStart |-> t, count |-> 0, blockedUntil |-> NoBlock, lastSeen |-> t]
    ELSE table[k]

(* Mutant: block expiry restarts the window but keeps the old count. *)
BlockCheckKeepCount(e, t) ==
    IF e.blockedUntil # NoBlock /\ t < e.blockedUntil
    THEN [e |-> e, stop |-> TRUE]
    ELSE IF e.blockedUntil # NoBlock
         THEN [e |-> [e EXCEPT !.blockedUntil = NoBlock, !.windowStart = t],
               stop |-> FALSE]
         ELSE [e |-> e, stop |-> FALSE]

(* Lines 62-75: the block check on the clone.  Returns the entry after it  *)
(* and whether the call ends here with a "cc blocked" hit.                 *)
BlockCheck(e, t) ==
    IF e.blockedUntil # NoBlock /\ t < e.blockedUntil
    THEN [e |-> e, stop |-> TRUE]
    ELSE IF e.blockedUntil # NoBlock
         THEN [e |-> [e EXCEPT !.blockedUntil = NoBlock, !.windowStart = t, !.count = 0],
               stop |-> FALSE]
         ELSE [e |-> e, stop |-> FALSE]

(* Lines 77-81: the window roll. *)
RollWindow(e, t) ==
    IF DurationSince(t, e.windowStart) >= window
    THEN [e EXCEPT !.windowStart = t, !.count = 0]
    ELSE e

(* Mutant: the limit compared with the count before the increment. *)
CountAndJudgeEarly(e, t) ==
    LET c == [e EXCEPT !.count = @ + 1] IN
    IF e.count > maxReq
    THEN [e |-> [c EXCEPT !.blockedUntil = t + blockFor], hit |-> "exceeded"]
    ELSE [e |-> c, hit |-> "none"]

(* Lines 83-98: count the call and block the key once it exceeds maxReq.   *)
(* Returns the entry to insert and the hit kind.                           *)
CountAndJudge(e, t) ==
    LET c == [e EXCEPT !.count = @ + 1] IN
    IF c.count > maxReq
    THEN [e |-> [c EXCEPT !.blockedUntil = t + blockFor], hit |-> "exceeded"]
    ELSE [e |-> c, hit |-> "none"]

(* Mutant: last_seen is not refreshed by the call (line 60 dropped). *)
CheckStepNoLastSeen(e, t) ==
    LET b == BlockCheck(e, t) IN
    IF b.stop
    THEN [e |-> b.e, hit |-> "blocked"]
    ELSE CountAndJudge(RollWindow(b.e, t), t)

(* The whole computation of check on a cloned entry e at time t (lines     *)
(* 60-98): the entry written back and the hit returned.                    *)
CheckStep(e, t) ==
    LET e1 == [e EXCEPT !.lastSeen = t]
        b  == BlockCheck(e1, t)
    IN IF b.stop
       THEN [e |-> b.e, hit |-> "blocked"]
       ELSE CountAndJudge(RollWindow(b.e, t), t)

TypeOK ==
    /\ now \in Time
    /\ table \in [Keys -> Entry \cup {NoEntry}]
    /\ pc \in [Threads -> {"idle", "computed"}]
    /\ calls \in 0..MaxCalls
    /\ allowed \in [Keys -> [Time -> 0..MaxCalls]]
    /\ blockEnd \in [Keys -> (0..(MaxTime + blockFor)) \cup {NoBlock}]

Init ==
    /\ now = 0
    /\ table = [k \in Keys |-> NoEntry]
    /\ pc = [t \in Threads |-> "idle"]
    /\ call = [t \in Threads |-> [key |-> CHOOSE k \in Keys : TRUE, at |-> 0,
                                  e |-> NoEntry, hit |-> "none", duringBlock |-> FALSE]]
    /\ calls = 0
    /\ allowed = [k \in Keys |-> [t \in Time |-> 0]]
    /\ blockEnd = [k \in Keys |-> NoBlock]

(* The clock advances. *)
Tick ==
    /\ now < MaxTime
    /\ now' = now + 1
    /\ UNCHANGED <<table, pc, call, calls, allowed, blockEnd>>

(* check, lines 44-98 up to the insert: take now, clone the entry of key k *)
(* out of the table and compute the entry to write back.  duringBlock      *)
(* records whether some call has already blocked k past this instant.      *)
CheckRead(th, k) ==
    /\ pc[th] = "idle"
    /\ <<th, k>> \in Affinity
    /\ calls < MaxCalls
    /\ LET r == CheckStep(ReadEntry(k, now), now) IN
       call' = [call EXCEPT ![th] =
                   [key |-> k, at |-> now, e |-> r.e, hit |-> r.hit,
                    duringBlock |-> blockEnd[k] # NoBlock /\ now < blockEnd[k]]]
    /\ pc' = [pc EXCEPT ![th] = "computed"]
    /\ calls' = calls + 1
    /\ UNCHANGED <<now, table, allowed, blockEnd>>

(* Mutant: the "exceeded" return path does not insert the blocked entry. *)
CheckWriteNoInsertOnExceeded(th) ==
    LET c == call[th] IN
    /\ pc[th] = "computed"
    /\ table' = IF c.hit = "exceeded" THEN table ELSE [table EXCEPT ![c.key] = c.e]
    /\ allowed' = IF c.hit = "none"
                  THEN [allowed EXCEPT ![c.key][c.at] = @ + 1]
                  ELSE allowed
    /\ blockEnd' = IF c.hit = "exceeded"
                   THEN [blockEnd EXCEPT ![c.key] = c.at + blockFor]
                   ELSE blockEnd
    /\ pc' = [pc EXCEPT ![th] = "idle"]
    /\ UNCHANGED <<now, call, calls>>

(* check, the insert at line 65, 88 or 97 and the return. *)
CheckWrite(th) ==
    LET c == call[th] IN
    /\ pc[th] = "computed"
    /\ table' = [table EXCEPT ![c.key] = c.e]
    /\ allowed' = IF c.hit = "none"
                  THEN [allowed EXCEPT ![c.key][c.at] = @ + 1]
                  ELSE allowed
    /\ blockEnd' = IF c.hit = "exceeded"
                   THEN [blockEnd EXCEPT ![c.key] = c.at + blockFor]
                   ELSE blockEnd
    /\ pc' = [pc EXCEPT ![th] = "idle"]
    /\ UNCHANGED <<now, call, calls>>

Next ==
    \/ Tick
    \/ \E th \in Threads, k \in Keys : CheckRead(th, k)
    \/ \E th \in Threads : CheckWrite(th)

Spec == Init /\ [][Next]_vars

-----------------------------------------------------------------------------
(* Calls on k admitted (check returned None) at clock values a..b. *)
AdmittedIn(k, a, b) ==
    LET RECURSIVE S(_)
        S(i) == IF i > b THEN 0 ELSE allowed[k][i] + S(i + 1)
    IN S(a)

(* Spec 4.C/8, CC monotonicity: once a call has blocked key k until U,     *)
(* every call on k that starts before U gets a hit.  This is what the      *)
(* blocked_until check of lines 63-68 promises, and what a stale insert    *)
(* of a clone read before the block was set (line 97) can undo.            *)
CallsDuringBlockAreHit ==
    \A th \in Threads :
        (pc[th] = "idle" /\ call[th].duringBlock) => call[th].hit # "none"

(* The limiter admits at most max_requests calls per window: the calls on  *)
(* k that got None since the window_start of k's entry number at most      *)
(* maxReq (count of line 84 against max_req of line 86).                   *)
WindowAdmission ==
    \A k \in Keys :
        table[k] # NoEntry =>
            AdmittedIn(k, table[k].windowStart, now) <= maxReq
=============================================================================
