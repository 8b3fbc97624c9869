------------------------------ MODULE CertStore ------------------------------
(***************************************************************************)
(* The SNI certificate store and its updater, src/pingora-waf/src/server/  *)
(* certs.rs.                                                               *)
(*                                                                         *)
(* The store publishes a Snapshot (exact and wildcard maps of cert/key     *)
(* pairs and a fingerprint of the tree) through an ArcSwap.  The TLS SNI   *)
(* callback (server/listener.rs) looks a name up in the current snapshot.  *)
(* CertUpdater computes the tree fingerprint on every tick and, when it    *)
(* differs from last_fp, runs load_snapshot on a blocking thread: it reads *)
(* cert.pem then key.pem of every directory, one directory after another,  *)
(* and only then fingerprints the tree; the updater then sets last_fp to   *)
(* that fingerprint and swaps.  An operator replaces the two files of a    *)
(* directory one after the other, each write passing through a torn state  *)
(* in which the file does not parse.                                       *)
(*                                                                         *)
(* Names are sequences of labels ("a.Example.com." is <<"a", "Example",    *)
(* "com", "">>); the split on '.' and the join of the code are exact on    *)
(* this form.  A fingerprint is the state of the tree itself: the          *)
(* DefaultHasher over (path, size, mtime) is taken to be injective.        *)
(***************************************************************************)
EXTENDS Naturals, Sequences, FiniteSets

CONSTANTS
    Dirs,         \* directories under server/sni and server/wildcard: [kind, name]
    LookupDirs,   \* directories the lookup is checked over, in every combination
    Snis,         \* server names a client may offer
    LowerLabel(_),\* to_ascii_lowercase on a label
    MaxVersion,   \* bound on deployments per directory
    NoCert        \* model value: lookup returned None

Versions == 0..MaxVersion
Files == {"cert", "key"}

VARIABLES
    present,   \* the directories of the tree (fixed during a behaviour)
    disk,      \* disk[d][f]: version of file f of d and whether it is torn
    snap,      \* the published Snapshot: [pairs, fp]
    lastFp,    \* CertUpdater's last_fp
    pc,        \* CertUpdater: "idle" or "load"
    accCert,   \* load_pairs_from_subdirs: cert versions read so far
    accKey     \* load_pairs_from_subdirs: key versions read so far

vars == <<present, disk, snap, lastFp, pc, accCert, accKey>>

-----------------------------------------------------------------------------
(* normalize_name, certs.rs 237-241: trim_end_matches('.') removes every   *)
(* trailing dot (every trailing empty label), then lowercase.  The trim of *)
(* whitespace is left out: labels carry no whitespace.                     *)
NormalizeName(s) ==
    LET RECURSIVE Strip(_)
        Strip(t) == IF t # <<>> /\ t[Len(t)] = "" THEN Strip(SubSeq(t, 1, Len(t) - 1)) ELSE t
        u == Strip(s)
    IN [i \in 1..Len(u) |-> LowerLabel(u[i])]

(* The keys of the exact and wildcard maps of a snapshot loaded from the   *)
(* directories ds (load_snapshot, lines 162-163, key of lines 204-207).    *)
ExactKeys(ds)    == {NormalizeName(d.name) : d \in {d \in ds : d.kind = "sni"}}
WildcardKeys(ds) == {NormalizeName(d.name) : d \in {d \in ds : d.kind = "wildcard"}}

(* Directory names are distinct per kind once normalized (two names equal  *)
(* up to case would make a map key's pair depend on read_dir order).       *)
ASSUME \A d, e \in Dirs \cup LookupDirs :
          (d.kind = e.kind /\ NormalizeName(d.name) = NormalizeName(e.name)) => d = e

(* The directory whose pair a map entry holds. *)
DirOf(ds, kind, key) == CHOOSE d \in ds : d.kind = kind /\ NormalizeName(d.name) = key

(* Mutant: the wildcard loop also tries the whole name (i from 0). *)
LookupWholeName(ds, sni) ==
    LET name == NormalizeName(sni)
        n == Len(name)
        hits == {i \in 0..(n - 1) : SubSeq(name, i + 1, n) \in WildcardKeys(ds)}
    IN IF name \in ExactKeys(ds) THEN DirOf(ds, "sni", name)
       ELSE IF n < 2 \/ hits = {} THEN NoCert
       ELSE LET i == CHOOSE i \in hits : \A j \in hits : i <= j
            IN DirOf(ds, "wildcard", SubSeq(name, i + 1, n))

(* CertStore::lookup, lines 59-80: exact key first; then, for i = 1 ..    *)
(* parts-1 in order, the suffix parts[i..] as a wildcard key; the first    *)
(* hit wins.  Returns the directory whose pair is handed to the handshake. *)
Lookup(ds, sni) ==
    LET name == NormalizeName(sni)
        n == Len(name)
        hits == {i \in 1..(n - 1) : SubSeq(name, i + 1, n) \in WildcardKeys(ds)}
    IN IF name \in ExactKeys(ds) THEN DirOf(ds, "sni", name)
       ELSE IF n < 2 \/ hits = {} THEN NoCert
       ELSE LET i == CHOOSE i \in hits : \A j \in hits : i <= j
            IN DirOf(ds, "wildcard", SubSeq(name, i + 1, n))

-----------------------------------------------------------------------------
File == [v : Versions, torn : BOOLEAN]
Pair == [cert : Versions, key : Versions]

(* compute_fingerprint, lines 243-266: the tree as it is now. *)
Fingerprint == disk

(* The pairs a complete load would read from the tree as it is now. *)
OnDisk == [d \in present |-> [cert |-> disk[d].cert.v, key |-> disk[d].key.v]]

TypeOK ==
    /\ present \subseteq Dirs
    /\ disk \in [Dirs -> [Files -> File]]
    /\ snap.pairs \in [present -> Pair]
    /\ pc \in {"idle", "load"}
    /\ accCert \in [present -> Versions \cup {NoCert}]
    /\ accKey \in [present -> Versions \cup {NoCert}]

(* CertStore::load at startup (main.rs 155, certs.rs 46-51): the initial   *)
(* snapshot of an untouched tree, and last_fp = its fingerprint (line      *)
(* 110).                                                                   *)
Init ==
    /\ present \in SUBSET Dirs
    /\ disk = [d \in Dirs |-> [f \in Files |-> [v |-> 0, torn |-> FALSE]]]
    /\ snap = [pairs |-> [d \in present |-> [cert |-> 0, key |-> 0]], fp |-> disk]
    /\ lastFp = snap.fp
    /\ pc = "idle"
    /\ accCert = [d \in present |-> NoCert]
    /\ accKey = [d \in present |-> NoCert]

-----------------------------------------------------------------------------
(* An operator starts writing file f of d: the first file of a new         *)
(* deployment, or the second file catching up with the first.              *)
WriteBegin(d, f) ==
    LET other == CHOOSE g \in Files : g # f
        target == IF disk[d][f].v = disk[d][other].v THEN disk[d][f].v + 1
                  ELSE disk[d][other].v
    IN /\ d \in present
       /\ ~disk[d][f].torn /\ ~disk[d][other].torn
       /\ disk[d][f].v <= disk[d][other].v
       /\ target <= MaxVersion
       /\ disk' = [disk EXCEPT ![d][f] = [v |-> target, torn |-> TRUE]]
       /\ UNCHANGED <<present, snap, lastFp, pc, accCert, accKey>>

(* The write of f completes. *)
WriteEnd(d, f) ==
    /\ disk[d][f].torn
    /\ disk' = [disk EXCEPT ![d][f].torn = FALSE]
    /\ UNCHANGED <<present, snap, lastFp, pc, accCert, accKey>>

(* A tick of CertUpdater, lines 119-135: fingerprint the tree; unchanged,  *)
(* continue; changed, start load_snapshot (line 140).                      *)
Tick ==
    /\ pc = "idle"
    /\ IF Fingerprint = lastFp
       THEN UNCHANGED <<pc, accCert, accKey>>
       ELSE /\ pc' = "load"
            /\ accCert' = [d \in present |-> NoCert]
            /\ accKey' = [d \in present |-> NoCert]
    /\ UNCHANGED <<present, disk, snap, lastFp>>

(* A directory is half read: its cert has been read and not its key. *)
HalfRead == \E d \in present : accCert[d] # NoCert /\ accKey[d] = NoCert

(* load_pairs_from_subdirs, lines 215-216 and 220-221: read and parse      *)
(* cert.pem of the next directory (read_dir order is unspecified).  A torn *)
(* file fails to parse; the error ends load_snapshot and the updater logs  *)
(* it and keeps the old snapshot and last_fp (lines 146-148).              *)
ReadCert(d) ==
    /\ pc = "load" /\ ~HalfRead
    /\ accCert[d] = NoCert
    /\ IF disk[d].cert.torn
       THEN /\ pc' = "idle"
            /\ UNCHANGED <<accCert, accKey>>
       ELSE /\ accCert' = [accCert EXCEPT ![d] = disk[d].cert.v]
            /\ UNCHANGED <<pc, accKey>>
    /\ UNCHANGED <<present, disk, snap, lastFp>>

(* Lines 217-218 and 222-223: read and parse key.pem of the same directory. *)
ReadKey(d) ==
    /\ pc = "load"
    /\ accCert[d] # NoCert /\ accKey[d] = NoCert
    /\ IF disk[d].key.torn
       THEN /\ pc' = "idle"
            /\ UNCHANGED <<accCert, accKey>>
       ELSE /\ accKey' = [accKey EXCEPT ![d] = disk[d].key.v]
            /\ UNCHANGED <<pc, accCert>>
    /\ UNCHANGED <<present, disk, snap, lastFp>>

(* Mutant: the updater does not record the new fingerprint. *)
FinishLoadKeepFp ==
    /\ pc = "load"
    /\ \A d \in present : accKey[d] # NoCert
    /\ snap' = [pairs |-> [d \in present |-> [cert |-> accCert[d], key |-> accKey[d]]],
                fp |-> Fingerprint]
    /\ pc' = "idle"
    /\ UNCHANGED <<present, disk, lastFp, accCert, accKey>>

(* Every pair read: load_snapshot fingerprints the tree as it is now       *)
(* (line 165) and returns; the updater sets last_fp to that fingerprint    *)
(* and swaps the snapshot in (lines 141-143).                              *)
FinishLoad ==
    /\ pc = "load"
    /\ \A d \in present : accKey[d] # NoCert
    /\ snap' = [pairs |-> [d \in present |-> [cert |-> accCert[d], key |-> accKey[d]]],
                fp |-> Fingerprint]
    /\ lastFp' = Fingerprint
    /\ pc' = "idle"
    /\ UNCHANGED <<present, disk, accCert, accKey>>

Writer ==
    \E d \in Dirs, f \in Files : WriteBegin(d, f) \/ WriteEnd(d, f)

Updater ==
    \/ Tick
    \/ \E d \in present : ReadCert(d) \/ ReadKey(d)
    \/ FinishLoad

Next == Writer \/ Updater

(* The ticker fires for ever, so the updater takes a step whenever it can; *)
(* an operator who starts writing a file finishes it.                      *)
Fairness ==
    /\ WF_vars(Updater)
    /\ \A d \in Dirs, f \in Files : WF_vars(WriteEnd(d, f))

Spec == Init /\ [][Next]_vars /\ Fairness

-----------------------------------------------------------------------------
(* The directory of the wildcard key that is the longest proper suffix of  *)
(* the name, or none.                                                      *)
MostSpecificWildcard(ds, name) ==
    LET keys == {k \in WildcardKeys(ds) :
                    Len(k) < Len(name) /\ k = SubSeq(name, Len(name) - Len(k) + 1, Len(name))}
    IN IF keys = {} THEN NoCert
       ELSE DirOf(ds, "wildcard", CHOOSE k \in keys : \A j \in keys : Len(j) <= Len(k))

(* Spec 4.M and scenario 6: the certificate the handshake should get for   *)
(* a name: the one of the exact directory of the normalized name if there  *)
(* is one, else that of the most specific wildcard directory whose suffix  *)
(* is a proper suffix of the name, else none (the default certificate).    *)
RefLookup(ds, s) ==
    LET name == NormalizeName(s) IN
    IF name \in ExactKeys(ds) THEN DirOf(ds, "sni", name)
    ELSE MostSpecificWildcard(ds, name)

(* lookup agrees with RefLookup on every tree made of LookupDirs and every *)
(* offered name (a constant, evaluated once).                              *)
LookupTableOK == \A ds \in SUBSET LookupDirs, s \in Snis : Lookup(ds, s) = RefLookup(ds, s)

(* Spec 4.M and scenario 6: the SNI callback's lookup picks the reference  *)
(* certificate, on every tree made of LookupDirs and on the snapshot the   *)
(* updater has published, whatever reloads came before.                    *)
LookupMatchesReference ==
    /\ LookupTableOK
    /\ \A s \in Snis : Lookup(DOMAIN snap.pairs, s) = RefLookup(DOMAIN snap.pairs, s)

(* CertUpdater settles: once the tree stops changing, last_fp eventually   *)
(* equals its fingerprint for good, so the updater stops reloading.  A     *)
(* load that fails on a torn file leaves last_fp alone and is retried.     *)
UpdaterSettles == <>[](lastFp = Fingerprint)

(* Spec 4.N: on a change the cert store rebuilds the snapshot and          *)
(* publishes it.  Once the operator's writes are over, the published pairs *)
(* are eventually those on disk, for good.                                 *)
EventuallyCurrent == <>[](snap.pairs = OnDisk)
=============================================================================
