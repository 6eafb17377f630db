---------------------------- MODULE ArtifactStore ---------------------------
(***************************************************************************)
(* PersistenceStore (src/Persistence.cpp) at the level of files: a record  *)
(* is a .meta and a .bin file under a name made of id and generation (a    *)
(* slot), each written to a .tmp file that is renamed into place.          *)
(*                                                                         *)
(* One store() runs at a time (the fabric holds persistMutex_), recover()  *)
(* takes no lock and runs beside it, and the process may die between any   *)
(* two file operations.  A content stands for its own digest.              *)
(***************************************************************************)
EXTENDS Integers, FiniteSets

CONSTANTS
    Slots,     \* <<id, generation>> pairs that name files
    Keys,      \* compilation keys
    Contents,  \* executables
    None,      \* no file, no record, no slot
    Garbage,   \* bytes that decodeMeta() refuses
    MaxStores  \* bound on the number of different records stored

Records == [slot : Slots, key : Keys, content : Contents, invalidated : BOOLEAN]
TmpNames == Slots \X {"meta", "bin"}

ASSUME StoreAssumption ==
    /\ \A x \in {None, Garbage} : x \notin Slots /\ x \notin Contents /\ x \notin Records
    /\ None # Garbage
    /\ MaxStores \in Nat

VARIABLES
    meta,      \* slot -> metadata file: a record, Garbage or None
    bin,       \* slot -> content file
    tmp,       \* names of .tmp files: <<slot, "meta">> or <<slot, "bin">>
    wpc, wrec, \* the running store() or remove(): its position and its argument
    rpc,       \* the running recover(): its position
    dirty,     \* .tmp names its directory iterator has yet to visit
    todo,      \* slots list() returned and load() has not been called on
    loading,   \* the metadata load() decoded, while it reads the content
    valid, corrupted, invalidated,    \* its RecoveryResult
    (* history, read by no action *)
    begun,     \* records ever passed to store()
    acked,     \* slot -> record whose store() succeeded, until something else touches the slot
    quiet      \* nothing but recover() has run since it began

fileVars == <<meta, bin, tmp>>
storeVars == <<wpc, wrec>>
recoverVars == <<rpc, dirty, todo, loading, valid, corrupted, invalidated>>
storeHistory == <<begun, acked, quiet>>
diskVars == <<fileVars, storeVars, recoverVars, storeHistory>>

Storing == wpc \in {"writeMeta", "renameMeta", "writeBin", "renameBin"}

StoreTypeOK ==
    /\ meta \in [Slots -> Records \cup {Garbage, None}]
    /\ bin \in [Slots -> Contents \cup {None}]
    /\ tmp \in SUBSET TmpNames
    /\ wpc \in {"idle", "writeMeta", "renameMeta", "writeBin", "renameBin", "unlinkBin"}
    /\ wrec \in Records \cup Slots \cup {None}
    /\ rpc \in {"idle", "cleaning", "listing", "loading", "reading", "finished"}
    /\ dirty \in SUBSET TmpNames
    /\ todo \in SUBSET Slots
    /\ loading \in [slot : Slots, rec : Records] \cup {None}
    /\ valid \in SUBSET Records
    /\ corrupted \in SUBSET Slots
    /\ invalidated \in SUBSET Records
    /\ begun \in SUBSET Records
    /\ acked \in [Slots -> Records \cup {None}]
    /\ quiet \in BOOLEAN

StoreInit ==
    /\ meta = [s \in Slots |-> None]
    /\ bin = [s \in Slots |-> None]
    /\ tmp = {}
    /\ wpc = "idle" /\ wrec = None
    /\ rpc = "idle" /\ dirty = {} /\ todo = {} /\ loading = None
    /\ valid = {} /\ corrupted = {} /\ invalidated = {}
    /\ begun = {}
    /\ acked = [s \in Slots |-> None]
    /\ quiet = FALSE

-----------------------------------------------------------------------------
(* store(): metadata first, then content, each by temporary file and rename *)

StoreBegin(r) ==
    /\ wpc = "idle"
    /\ Cardinality(begun \cup {r}) <= MaxStores
    /\ wpc' = "writeMeta" /\ wrec' = r
    /\ begun' = begun \cup {r}
    /\ acked' = [acked EXCEPT ![r.slot] = None]
    /\ quiet' = FALSE
    /\ UNCHANGED <<fileVars, recoverVars>>

\* atomicWriteBytes() up to the rename; open truncates what an earlier run left.
WriteTmp(from, to, kind) ==
    /\ wpc = from
    /\ tmp' = tmp \cup {<<wrec.slot, kind>>}
    /\ wpc' = to
    /\ quiet' = FALSE
    /\ UNCHANGED <<meta, bin, wrec, recoverVars, begun, acked>>
WriteMetaTmp == WriteTmp("writeMeta", "renameMeta", "meta")
WriteBinTmp  == WriteTmp("writeBin", "renameBin", "bin")

RenameMeta ==
    /\ wpc = "renameMeta"
    /\ <<wrec.slot, "meta">> \in tmp
    /\ meta' = [meta EXCEPT ![wrec.slot] = wrec]
    /\ tmp' = tmp \ {<<wrec.slot, "meta">>}
    /\ wpc' = "writeBin"
    /\ quiet' = FALSE
    /\ UNCHANGED <<bin, wrec, recoverVars, begun, acked>>

\* Mutation: store() reports success without having moved the content into place.
AckWithoutRename ==
    /\ wpc = "renameBin"
    /\ acked' = [acked EXCEPT ![wrec.slot] = wrec]
    /\ wpc' = "idle" /\ wrec' = None
    /\ quiet' = FALSE
    /\ UNCHANGED <<fileVars, recoverVars, begun>>
RenameBin ==
    /\ wpc = "renameBin"
    /\ <<wrec.slot, "bin">> \in tmp
    /\ bin' = [bin EXCEPT ![wrec.slot] = wrec.content]
    /\ tmp' = tmp \ {<<wrec.slot, "bin">>}
    /\ acked' = [acked EXCEPT ![wrec.slot] = wrec]
    /\ wpc' = "idle" /\ wrec' = None
    /\ quiet' = FALSE
    /\ UNCHANGED <<meta, recoverVars, begun>>

\* A write or a rename fails, or the .tmp file is gone: PersistenceFailure, and
\* whatever has been written stays.
StoreFails ==
    /\ Storing
    /\ \/ UNCHANGED tmp
       \/ wpc = "writeMeta" /\ tmp' = tmp \cup {<<wrec.slot, "meta">>}
       \/ wpc = "writeBin"  /\ tmp' = tmp \cup {<<wrec.slot, "bin">>}
    /\ wpc' = "idle" /\ wrec' = None
    /\ quiet' = FALSE
    /\ UNCHANGED <<meta, bin, recoverVars, begun, acked>>

\* remove(): two unlinks, the errors of both ignored.
RemoveMeta(s) ==
    /\ wpc = "idle"
    /\ meta' \in {meta, [meta EXCEPT ![s] = None]}
    /\ acked' = [acked EXCEPT ![s] = None]
    /\ wpc' = "unlinkBin" /\ wrec' = s
    /\ quiet' = FALSE
    /\ UNCHANGED <<bin, tmp, recoverVars, begun>>
RemoveBin ==
    /\ wpc = "unlinkBin"
    /\ bin' \in {bin, [bin EXCEPT ![wrec] = None]}
    /\ wpc' = "idle" /\ wrec' = None
    /\ quiet' = FALSE
    /\ UNCHANGED <<meta, tmp, recoverVars, begun, acked>>

-----------------------------------------------------------------------------
(* load(): metadata, then content *)

\* Mutation: the content is taken without comparing its digest.
ContentPresent(s, m, b) == b # None /\ m.slot = s
\* Mutation: the name of the file is not compared with what it says.
DigestOnly(s, m, b) == b # None /\ b = m.content
\* The checks of load() after decodeMeta: content there, digest, identity.  The digest
\* is never empty (load() would skip it): compile() always fills it in.
ContentAgrees(s, m, b) == b # None /\ b = m.content /\ m.slot = s

Decodes(m) == m \notin {Garbage, None}

\* What load() answers when nothing else runs.
Loads(s) == Decodes(meta[s]) /\ ContentAgrees(s, meta[s], bin[s])

-----------------------------------------------------------------------------
(* recover() *)

RecoverBegin ==
    /\ rpc \in {"idle", "finished"}
    /\ rpc' = "cleaning" /\ dirty' = tmp
    /\ valid' = {} /\ corrupted' = {} /\ invalidated' = {}
    /\ quiet' = (wpc = "idle")
    /\ UNCHANGED <<fileVars, storeVars, todo, loading, begun, acked>>

\* Every .tmp the iterator meets goes, whoever wrote it; the iterator may or may
\* not meet those created after it started.
CleanTmp(f) ==
    /\ rpc = "cleaning"
    /\ f \in tmp
    /\ tmp' = tmp \ {f}
    /\ dirty' = dirty \ {f}
    /\ UNCHANGED <<meta, bin, storeVars, rpc, todo, loading, valid, corrupted, invalidated, storeHistory>>

\* Mutation: recovery goes straight to the records.
SkipCleaning ==
    /\ rpc = "cleaning"
    /\ rpc' = "listing" /\ dirty' = {}
    /\ UNCHANGED <<fileVars, storeVars, todo, loading, valid, corrupted, invalidated, storeHistory>>
CleanDone ==
    /\ rpc = "cleaning"
    /\ dirty \cap tmp = {}
    /\ rpc' = "listing" /\ dirty' = {}
    /\ UNCHANGED <<fileVars, storeVars, todo, loading, valid, corrupted, invalidated, storeHistory>>

\* list(): every .meta name, whatever is in it.
List ==
    /\ rpc = "listing"
    /\ todo' = {s \in Slots : meta[s] # None}
    /\ rpc' = "loading"
    /\ UNCHANGED <<fileVars, storeVars, dirty, loading, valid, corrupted, invalidated, storeHistory>>

LoadMeta(s) ==
    /\ rpc = "loading"
    /\ s \in todo
    /\ todo' = todo \ {s}
    /\ \/ /\ Decodes(meta[s])
          /\ loading' = [slot |-> s, rec |-> meta[s]]
          /\ rpc' = "reading"
          /\ UNCHANGED corrupted
       \/ /\ ~Decodes(meta[s])
          /\ corrupted' = corrupted \cup {s}
          /\ UNCHANGED <<loading, rpc>>
    /\ UNCHANGED <<fileVars, storeVars, dirty, valid, invalidated, storeHistory>>

\* The record under its name: contentBytes are what was read.
LoadBin ==
    LET s == loading.slot
        m == loading.rec
        r == [slot |-> s, key |-> m.key, content |-> bin[s], invalidated |-> m.invalidated] IN
    /\ rpc = "reading"
    /\ rpc' = "loading" /\ loading' = None
    /\ corrupted' = IF ContentAgrees(s, m, bin[s]) THEN corrupted ELSE corrupted \cup {s}
    /\ valid' = IF ContentAgrees(s, m, bin[s]) /\ ~m.invalidated THEN valid \cup {r} ELSE valid
    /\ invalidated' = IF ContentAgrees(s, m, bin[s]) /\ m.invalidated THEN invalidated \cup {r} ELSE invalidated
    /\ UNCHANGED <<fileVars, storeVars, dirty, todo, storeHistory>>

RecoverEnd ==
    /\ rpc = "loading"
    /\ todo = {}
    /\ rpc' = "finished"
    /\ UNCHANGED <<fileVars, storeVars, dirty, todo, loading, valid, corrupted, invalidated, storeHistory>>

-----------------------------------------------------------------------------
(* The environment *)

\* The process dies: its files stay as they are.
Crash ==
    /\ wpc # "idle" \/ rpc # "idle"
    /\ wpc' = "idle" /\ wrec' = None
    /\ rpc' = "idle" /\ dirty' = {} /\ todo' = {} /\ loading' = None
    /\ valid' = {} /\ corrupted' = {} /\ invalidated' = {}
    /\ quiet' = FALSE
    /\ UNCHANGED <<fileVars, begun, acked>>

Writing(s) == Storing /\ wrec.slot = s

\* Something outside the fabric damages a file at rest, or copies another over it.
Damage(s) ==
    /\ ~Writing(s)
    /\ \/ /\ meta[s] # None
          /\ \E m \in ({Garbage} \cup {meta[x] : x \in Slots}) \ {meta[s]} : meta' = [meta EXCEPT ![s] = m]
          /\ UNCHANGED bin
       \/ /\ bin[s] # None
          /\ \E c \in (Contents \cup {None}) \ {bin[s]} : bin' = [bin EXCEPT ![s] = c]
          /\ UNCHANGED meta
    /\ acked' = [acked EXCEPT ![s] = None]
    /\ quiet' = FALSE
    /\ UNCHANGED <<tmp, storeVars, recoverVars, begun>>

StoreStep == WriteMetaTmp \/ RenameMeta \/ WriteBinTmp \/ RenameBin \/ StoreFails
RecoverStep ==
    \/ RecoverBegin \/ CleanDone \/ List \/ LoadBin \/ RecoverEnd
    \/ \E f \in TmpNames : CleanTmp(f)
    \/ \E s \in Slots : LoadMeta(s)

StoreNext ==
    \/ \E r \in Records : StoreBegin(r)
    \/ \E s \in Slots : RemoveMeta(s) \/ Damage(s)
    \/ RemoveBin \/ StoreStep \/ RecoverStep \/ Crash

StoreSpec == StoreInit /\ [][StoreNext]_diskVars

-----------------------------------------------------------------------------
(* Properties *)

\* Whatever happened to the files and whenever the process died, a record that
\* recover() reports valid was passed to store() just so: its identity, key and
\* bytes belong together, and it was not stored as invalidated.
RecoveredIsAuthentic ==
    \A r \in valid : r \in begun /\ ~r.invalidated

\* A record whose store() succeeded can be loaded until its name is written again,
\* removed or damaged; crashes, failed writes of other records and recoveries
\* never cost it.
AckedIsDurable ==
    \A s \in Slots : acked[s] # None => Loads(s) /\ meta[s] = acked[s]

\* A recovery that ran undisturbed has removed every temporary file, and has
\* sorted every name on disk exactly by what load() says of it.
UndisturbedRecoveryIsExact ==
    rpc = "finished" /\ quiet =>
        /\ tmp = {}
        /\ {r.slot : r \in valid} = {s \in Slots : Loads(s) /\ ~meta[s].invalidated}
        /\ {r.slot : r \in invalidated} = {s \in Slots : Loads(s) /\ meta[s].invalidated}
        /\ corrupted = {s \in Slots : meta[s] # None /\ ~Loads(s)}

(* The inductive invariant behind these *)

\* The argument of the running store() or remove().
WriterSet ==
    /\ Storing => wrec \in begun /\ acked[wrec.slot] = None
    /\ wpc = "unlinkBin" => wrec \in Slots /\ acked[wrec] = None

\* Between its two renames a store() has its own metadata in place.
MetaFirst == wpc \in {"writeBin", "renameBin"} => meta[wrec.slot] = wrec

\* All metadata that decodes, on disk or in recover()'s hands, was passed to store().
MetaIsAuthentic ==
    /\ \A s \in Slots : Decodes(meta[s]) => meta[s] \in begun
    /\ rpc = "reading" => loading \in [slot : Slots, rec : begun]

\* Names recover() has sorted, among those that have metadata.
Sorted == {s \in Slots : meta[s] # None /\ s \notin todo /\ ~(rpc = "reading" /\ s = loading.slot)}

\* An undisturbed recover() works on what it found: the temporary files are those
\* it started with, and the result holds exactly the names it has dealt with.
RecoveryProgress == quiet =>
    /\ wpc = "idle"
    /\ rpc # "idle"
    /\ IF rpc = "cleaning" THEN tmp = dirty ELSE tmp = {}
    /\ IF rpc \in {"cleaning", "listing"} THEN valid = {} /\ invalidated = {} /\ corrupted = {}
       ELSE /\ \A s \in Slots : (s \in Sorted /\ Loads(s) /\ ~meta[s].invalidated) <=> \E r \in valid : r.slot = s
            /\ \A s \in Slots : (s \in Sorted /\ Loads(s) /\ meta[s].invalidated) <=> \E r \in invalidated : r.slot = s
            /\ \A s \in Slots : (s \in Sorted /\ ~Loads(s)) <=> s \in corrupted
            /\ \A s \in todo : meta[s] # None
    /\ rpc = "reading" => loading.rec = meta[loading.slot] /\ loading.slot \notin todo
    /\ rpc = "finished" => todo = {}

StoreInv ==
    /\ StoreTypeOK /\ WriterSet /\ MetaFirst /\ MetaIsAuthentic /\ RecoveryProgress
    /\ RecoveredIsAuthentic /\ AckedIsDurable
=============================================================================
