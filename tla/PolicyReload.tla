---------------------------- MODULE PolicyReload ----------------------------
(***************************************************************************)
(* Hot reload of the policy state, src/pingora-waf/src/policy/update.rs    *)
(* and policy/manager.rs.                                                  *)
(*                                                                         *)
(* Two background services share one PolicyManager:                        *)
(*   DomainMapUpdater  polls the mtime of the domain map file;             *)
(*   PolicyDirUpdater  polls a signature of the policies directory.        *)
(* On a change either one records the new mtime/signature, runs            *)
(* PolicyManager::load_from_files (reads the domain map, then every        *)
(* policy file, then checks that the default policy exists) and, on        *)
(* success, swaps in the new state carrying the CC limiter of the state    *)
(* it replaces.  Both run as tasks of a multi-threaded runtime and         *)
(* load_from_files is blocking code, so the two can overlap.               *)
(*                                                                         *)
(* File contents are versions: the domain map file is at version dm, the   *)
(* policies directory at version pol.  Its mtime grows with dm; the        *)
(* directory signature is a function of pol (FNV collisions are ignored).  *)
(*                                                                         *)
(* Each loop is a tokio::select! between shutdown.changed() and the tick   *)
(* of the interval; the tick arm runs to completion (the load is blocking  *)
(* code), so a shutdown signalled during a reload is observed only when    *)
(* the loop next selects.                                                  *)
(***************************************************************************)
EXTENDS Naturals

CONSTANTS
    MaxVersion,  \* bound on edits of each file
    BadDm,       \* domain map versions that fail to parse
    BadPol,      \* policies versions with a file that fails to parse/compile
    NoDefault,   \* pairs <<dm, pol>> whose default policy is not in pol
    None         \* model value: last_mtime / last_sig = None

Versions == 0..MaxVersion
Updaters == {"domainMap", "policyDir"}

ASSUME /\ BadDm \subseteq Versions /\ BadPol \subseteq Versions
       /\ NoDefault \subseteq Versions \X Versions
       /\ 0 \notin BadDm /\ 0 \notin BadPol /\ <<0, 0>> \notin NoDefault

VARIABLES
    dmFile,     \* version of the domain map file on disk
    polFile,    \* version of the policies directory on disk
    published,  \* the PolicyState in the ArcSwap: [dm, pol, cc]
    last,       \* per updater: last_mtime or last_sig
    pc,         \* per updater: "idle", "readDm", "readPol", "swap"
    loaded,     \* per updater: what load_from_files has read so far
    nextCc,     \* identity the next CcLimiter::new() gets
    shutdown    \* the ShutdownWatch has changed

vars == <<dmFile, polFile, published, last, pc, loaded, nextCc, shutdown>>

(* True when the pair of file versions makes a loadable PolicyState. *)
Loadable(d, p) == d \notin BadDm /\ p \notin BadPol /\ <<d, p>> \notin NoDefault

(* What the updater polls: the mtime of the domain map (monotone in its    *)
(* version) or the signature of the policies directory.                    *)
Observed(u) == IF u = "domainMap" THEN dmFile ELSE polFile

(* The early "continue" of the tick: DomainMapUpdater skips when           *)
(* last_mtime >= mtime (update.rs 47), PolicyDirUpdater when               *)
(* last_sig = sig (update.rs 111).                                         *)
Unchanged(u) ==
    /\ last[u] # None
    /\ IF u = "domainMap" THEN last[u] >= Observed(u) ELSE last[u] = Observed(u)

TypeOK ==
    /\ dmFile \in Versions /\ polFile \in Versions
    /\ published \in [dm : Versions, pol : Versions, cc : Nat]
    /\ last \in [Updaters -> Versions \cup {None}]
    /\ pc \in [Updaters -> {"idle", "readDm", "readPol", "swap", "stopped"}]
    /\ shutdown \in BOOLEAN
    /\ loaded \in [Updaters -> [dm : Versions, pol : Versions, cc : Nat]]

(* main.rs 103-107: the initial load_from_files, with limiter 0. *)
Init ==
    /\ dmFile = 0 /\ polFile = 0
    /\ published = [dm |-> 0, pol |-> 0, cc |-> 0]
    /\ last = [u \in Updaters |-> None]
    /\ pc = [u \in Updaters |-> "idle"]
    /\ loaded = [u \in Updaters |-> [dm |-> 0, pol |-> 0, cc |-> 0]]
    /\ nextCc = 1
    /\ shutdown = FALSE

(* An operator rewrites the domain map file or a policy file. *)
EditDomainMap ==
    /\ dmFile < MaxVersion
    /\ dmFile' = dmFile + 1
    /\ UNCHANGED <<polFile, published, last, pc, loaded, nextCc, shutdown>>

EditPolicies ==
    /\ polFile < MaxVersion
    /\ polFile' = polFile + 1
    /\ UNCHANGED <<dmFile, published, last, pc, loaded, nextCc, shutdown>>

(* A tick of the interval (update.rs 35-50, 102-114): with no change it    *)
(* continues; otherwise it records the mtime/signature before loading.     *)
Tick(u) ==
    /\ pc[u] = "idle"
    /\ IF Unchanged(u)
       THEN UNCHANGED <<last, pc>>
       ELSE /\ last' = [last EXCEPT ![u] = Observed(u)]
            /\ pc' = [pc EXCEPT ![u] = "readDm"]
    /\ UNCHANGED <<dmFile, polFile, published, loaded, nextCc, shutdown>>

(* load_from_files, manager.rs 63-67: read and parse the domain map; a     *)
(* parse error ends the load (the updater logs and keeps the old state).   *)
ReadDomainMap(u) ==
    /\ pc[u] = "readDm"
    /\ IF dmFile \in BadDm
       THEN /\ pc' = [pc EXCEPT ![u] = "idle"]
            /\ UNCHANGED loaded
       ELSE /\ loaded' = [loaded EXCEPT ![u].dm = dmFile]
            /\ pc' = [pc EXCEPT ![u] = "readPol"]
    /\ UNCHANGED <<dmFile, polFile, published, last, nextCc, shutdown>>

(* Mutant: the default-policy check of load_from_files is missing. *)
ReadPoliciesNoDefaultCheck(u) ==
    /\ pc[u] = "readPol"
    /\ IF polFile \in BadPol
       THEN /\ pc' = [pc EXCEPT ![u] = "idle"]
            /\ UNCHANGED <<loaded, nextCc>>
       ELSE /\ loaded' = [loaded EXCEPT ![u].pol = polFile, ![u].cc = nextCc]
            /\ nextCc' = nextCc + 1
            /\ pc' = [pc EXCEPT ![u] = "swap"]
    /\ UNCHANGED <<dmFile, polFile, published, last, shutdown>>

(* load_from_files, manager.rs 69-84 and load_and_compile_policies_dir     *)
(* 88-115: read and compile every policy file, require the default policy  *)
(* and build the state with a fresh CcLimiter.                             *)
ReadPolicies(u) ==
    /\ pc[u] = "readPol"
    /\ IF polFile \in BadPol \/ <<loaded[u].dm, polFile>> \in NoDefault
       THEN /\ pc' = [pc EXCEPT ![u] = "idle"]
            /\ UNCHANGED <<loaded, nextCc>>
       ELSE /\ loaded' = [loaded EXCEPT ![u].pol = polFile, ![u].cc = nextCc]
            /\ nextCc' = nextCc + 1
            /\ pc' = [pc EXCEPT ![u] = "swap"]
    /\ UNCHANGED <<dmFile, polFile, published, last, shutdown>>

(* update.rs 56-65 / 120-129: merge the new matcher and policies with the  *)
(* CC limiter of the currently published state and swap.                   *)
Swap(u) ==
    /\ pc[u] = "swap"
    /\ published' = [loaded[u] EXCEPT !.cc = published.cc]
    /\ pc' = [pc EXCEPT ![u] = "idle"]
    /\ UNCHANGED <<dmFile, polFile, last, loaded, nextCc, shutdown>>

(* The server begins its graceful shutdown: the ShutdownWatch changes. *)
ShutdownSignal ==
    /\ ~shutdown
    /\ shutdown' = TRUE
    /\ UNCHANGED <<dmFile, polFile, published, last, pc, loaded, nextCc>>

(* Mutant: the shutdown arm logs but the loop goes on selecting. *)
StopNoReturn(u) ==
    /\ pc[u] = "idle"
    /\ shutdown
    /\ UNCHANGED vars

(* The shutdown arm of the select! (update.rs 30-34 / 96-100): log and     *)
(* return from start(); only taken between two ticks.                      *)
Stop(u) ==
    /\ pc[u] = "idle"
    /\ shutdown
    /\ pc' = [pc EXCEPT ![u] = "stopped"]
    /\ UNCHANGED <<dmFile, polFile, published, last, loaded, nextCc, shutdown>>

Next ==
    \/ EditDomainMap
    \/ EditPolicies
    \/ ShutdownSignal
    \/ \E u \in Updaters :
        \/ Tick(u)
        \/ ReadDomainMap(u)
        \/ ReadPolicies(u)
        \/ Swap(u)
        \/ Stop(u)

(* A started reload is synchronous code inside the tick arm and runs to    *)
(* its end (weak fairness).  tokio::select! polls its ready branches in a  *)
(* random order, so a shutdown branch that is ready at every select is     *)
(* not passed over forever, even while edits keep the tick arm busy        *)
(* (strong fairness).                                                      *)
Fairness ==
    \A u \in Updaters :
        /\ WF_vars(ReadDomainMap(u)) /\ WF_vars(ReadPolicies(u)) /\ WF_vars(Swap(u))
        /\ SF_vars(Stop(u))

Spec == Init /\ [][Next]_vars /\ Fairness

-----------------------------------------------------------------------------
(* Spec 7 ("the process never serves with half-loaded config") and 4.I:    *)
(* the published state is always built from a domain map and policies      *)
(* that parse and contain the default policy, whatever edits and reloads   *)
(* interleave.                                                             *)
PublishedLoadable == Loadable(published.dm, published.pol)

(* Spec 4.N: a reload supervisor swaps in what is on disk.  When both      *)
(* updaters are idle and neither sees a change to act on, the published    *)
(* state is the one the files on disk describe (when those load).          *)
QuiescentIsCurrent ==
    (/\ \A u \in Updaters : pc[u] = "idle" /\ Unchanged(u)
     /\ Loadable(dmFile, polFile))
        => published.dm = dmFile /\ published.pol = polFile

(* Spec 4.N: every supervisor observes the shutdown signal and terminates. *)
(* Once the ShutdownWatch changes, both updaters leave their loops, even   *)
(* one that is in the middle of a blocking reload or that keeps seeing     *)
(* new edits on its ticks.                                                 *)
UpdatersStop == shutdown ~> \A u \in Updaters : pc[u] = "stopped"
=============================================================================
