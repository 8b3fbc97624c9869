------------------------- MODULE CcLimiterRefinement -------------------------
(***************************************************************************)
(* CcLimiter (policy/cc.rs) shown to implement CcLimiterAtomic, the       *)
(* limiter of spec 4.C whose check is one atomic step.                     *)
(***************************************************************************)
EXTENDS CcLimiter

(* The refinement mapping: a call takes effect at the instant it clones    *)
(* the entry, so an entry computed and not yet inserted stands for the     *)
(* table entry of its key.                                                  *)
Pending(k) == {th \in Threads : pc[th] = "computed" /\ call[th].key = k}
Linearized ==
    [k \in Keys |-> IF Pending(k) = {} THEN table[k] ELSE call[CHOOSE th \in Pending(k) : TRUE].e]

Atomic == INSTANCE CcLimiterAtomic WITH table <- Linearized

(* Spec 4.C: check behaves as one atomic step of the 4.C state machine on  *)
(* the entry of its key, at the instant of its Instant::now(), although    *)
(* it clones the entry (line 53) and inserts it back later (65, 88, 97)    *)
(* while calls on other keys and the clock move on.                        *)
ImplementsAtomic == Atomic!Spec
=============================================================================
