----------------------------- MODULE RuleUpdater -----------------------------
(***************************************************************************)
(* The WAF rule hot reload, src/pingora-waf/src/waf/update.rs.             *)
(*                                                                         *)
(* On every tick of its interval RuleUpdater stats the rules file; when    *)
(* the mtime is not newer than the last one it recorded it continues;      *)
(* otherwise it records the mtime, compiles the file and, when that        *)
(* succeeds, swaps the new ruleset into the engine (engine.rs swap_rules); *)
(* a compile error is logged and the old ruleset stays.  An operator (or a *)
(* deploy tool) rewrites the file meanwhile; the file can change between   *)
(* the metadata read and the compile's read of the contents.               *)
(*                                                                         *)
(* File contents are versions 1..Len(Rulesets): version v compiles to      *)
(* Rulesets[v] when v \in Compiles (a half-written or invalid file does    *)
(* not).  An edit gives the file a newer mtime, or, when CoarseMtime, an   *)
(* mtime in the same timestamp granule as the previous write.              *)
(***************************************************************************)
EXTENDS Naturals, Sequences

CONSTANTS
    Rulesets,     \* what each version of the rules file compiles to
    Compiles,     \* versions that compile_from_file accepts
    MaxMtime,     \* bound on the file's mtime
    CoarseMtime,  \* TRUE: two writes may share one mtime
    NoMtime       \* model value: last_mtime = None

ASSUME /\ Compiles \subseteq 1..Len(Rulesets)
       /\ 1 \in Compiles            \* main.rs 132: startup fails otherwise
       /\ CoarseMtime \in BOOLEAN

VARIABLES
    file,       \* version of the rules file on disk
    mtime,      \* its modification time
    lastMtime,  \* RuleUpdater's last_mtime
    upc,        \* "idle", or "compile" between the metadata read and the swap
    rsVer       \* version whose ruleset WafEngine publishes

updVars == <<file, mtime, lastMtime, upc, rsVer>>

(* main.rs 132-150: the ruleset compiled at startup, an updater that has   *)
(* recorded nothing yet.                                                   *)
Init ==
    /\ file = 1 /\ mtime = 0 /\ rsVer = 1
    /\ lastMtime = NoMtime /\ upc = "idle"

(* The rules file is rewritten. *)
Edit ==
    /\ file < Len(Rulesets)
    /\ \E m \in 0..MaxMtime :
          /\ m > mtime \/ (CoarseMtime /\ m = mtime)
          /\ mtime' = m
    /\ file' = file + 1
    /\ UNCHANGED <<lastMtime, upc, rsVer>>

(* Mutant: last_mtime = None is taken as "not newer" (unwrap_or(true)). *)
StatNoneSkips == lastMtime = NoMtime \/ lastMtime >= mtime

(* The early continue of update.rs 51-53. *)
Unchanged == lastMtime # NoMtime /\ lastMtime >= mtime

(* A tick, update.rs 39-54: read the metadata, continue when unchanged     *)
(* (a stuttering step), else record the mtime before compiling.           *)
Stat ==
    /\ upc = "idle"
    /\ ~Unchanged
    /\ lastMtime' = mtime
    /\ upc' = "compile"
    /\ UNCHANGED <<file, mtime, rsVer>>

(* update.rs 56-64: compile_from_file reads the file as it is now; on      *)
(* success swap_rules publishes it, on error the old ruleset stays.        *)
CompileAndSwap ==
    /\ upc = "compile"
    /\ rsVer' = IF file \in Compiles THEN file ELSE rsVer
    /\ upc' = "idle"
    /\ UNCHANGED <<file, mtime, lastMtime>>

Next == Edit \/ Stat \/ CompileAndSwap

(* The interval keeps ticking, and the task runs each tick to completion. *)
Fairness == WF_updVars(Stat) /\ WF_updVars(CompileAndSwap)

Spec == Init /\ [][Next]_updVars /\ Fairness

-----------------------------------------------------------------------------
(* Spec 4.N, "poll the file's modification time on a fixed tick; if       *)
(* strictly newer than the last observed, rebuild and atomically swap; on *)
(* parse/build failure, log and keep the old snapshot": once the edits    *)
(* stop, the engine publishes the rules file on disk whenever it compiles. *)
(* It fails if an edit falling between the metadata read, the last_mtime  *)
(* record and the compile's read of the file is never picked up, which is *)
(* what happens when a half-written file is compiled and its completing   *)
(* write keeps the same mtime.                                            *)
RulesSettle == <>[](file \in Compiles => rsVer = file)
=============================================================================
