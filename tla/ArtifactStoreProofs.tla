------------------------ MODULE ArtifactStoreProofs -------------------------
(***************************************************************************)
(* Proofs about ArtifactStore: what recover() reports is authentic, a      *)
(* stored record is durable, and an undisturbed recovery is exact, for any *)
(* number of names, keys and contents.                                     *)
(***************************************************************************)
EXTENDS ArtifactStore, TLAPS

\* The store starts with an empty directory and nobody at work in it.
LEMMA StoreInvInit == StoreInit => StoreInv
  BY DEF StoreInit, StoreInv, StoreTypeOK, WriterSet, MetaFirst, MetaIsAuthentic, RecoveryProgress,
         RecoveredIsAuthentic, AckedIsDurable, Decodes, Storing, Records

\* None and Garbage are no metadata, and a record is neither.
LEMMA DecodesRecord ==
  ASSUME StoreTypeOK, NEW s \in Slots, Decodes(meta[s])
  PROVE  meta[s] \in Records
  BY DEF StoreTypeOK, Decodes

\* Every step of store(), remove(), recover() and the environment keeps the types.
LEMMA StoreTypeNext ==
  ASSUME StoreInv, [StoreNext]_diskVars
  PROVE  StoreTypeOK'
<1> USE DEF StoreTypeOK
<1>0. StoreTypeOK /\ WriterSet BY DEF StoreInv
<1>1. CASE UNCHANGED diskVars
  BY <1>0, <1>1 DEF diskVars, fileVars, storeVars, recoverVars, storeHistory
<1>2. ASSUME NEW r \in Records, StoreBegin(r) PROVE StoreTypeOK'
  <2>1. r.slot \in Slots BY DEF Records
  <2> QED BY <1>0, <1>2, <2>1 DEF StoreBegin, fileVars, recoverVars
<1>3. ASSUME NEW s \in Slots, RemoveMeta(s) PROVE StoreTypeOK'
  BY <1>0, <1>3 DEF RemoveMeta, recoverVars
<1>4. ASSUME NEW s \in Slots, Damage(s) PROVE StoreTypeOK'
  BY <1>0, <1>4 DEF Damage, storeVars, recoverVars
<1>5. CASE RemoveBin
  BY <1>0, <1>5 DEF RemoveBin, recoverVars, WriterSet
<1>6. CASE StoreStep
  <2>1. wrec \in Records /\ wrec.slot \in Slots /\ wrec.content \in Contents
    BY <1>0, <1>6 DEF StoreStep, WriteMetaTmp, WriteBinTmp, WriteTmp, RenameMeta, RenameBin,
                      StoreFails, Storing, WriterSet, Records
  <2>2. \A kind \in {"meta", "bin"} : <<wrec.slot, kind>> \in TmpNames
    BY <2>1 DEF TmpNames
  <2>3. CASE WriteMetaTmp BY <1>0, <2>2, <2>3 DEF WriteMetaTmp, WriteTmp, recoverVars
  <2>4. CASE WriteBinTmp BY <1>0, <2>2, <2>4 DEF WriteBinTmp, WriteTmp, recoverVars
  <2>5. CASE RenameMeta BY <1>0, <2>1, <2>5 DEF RenameMeta, recoverVars
  <2>6. CASE RenameBin BY <1>0, <2>1, <2>6 DEF RenameBin, recoverVars
  <2>7. CASE StoreFails BY <1>0, <2>2, <2>7 DEF StoreFails, recoverVars
  <2> QED BY <1>6, <2>3, <2>4, <2>5, <2>6, <2>7 DEF StoreStep
<1>7. CASE RecoverStep
  <2>1. CASE RecoverBegin BY <1>0, <2>1 DEF RecoverBegin, fileVars, storeVars
  <2>2. CASE CleanDone BY <1>0, <2>2 DEF CleanDone, fileVars, storeVars, storeHistory
  <2>3. CASE List BY <1>0, <2>3 DEF List, fileVars, storeVars, storeHistory
  <2>4. CASE LoadBin
    <3>1. loading \in [slot : Slots, rec : Records]
      BY <1>0, <2>4 DEF LoadBin, StoreInv, MetaIsAuthentic
    <3> DEFINE r == [slot |-> loading.slot, key |-> loading.rec.key, content |-> bin[loading.slot],
                    invalidated |-> loading.rec.invalidated]
    <3>2. ContentAgrees(loading.slot, loading.rec, bin[loading.slot]) => r = loading.rec
      BY <3>1 DEF ContentAgrees, Records
    <3>3. loading.slot \in Slots /\ loading.rec \in Records BY <3>1
    <3> QED BY <1>0, <2>4, <3>2, <3>3 DEF LoadBin, fileVars, storeVars, storeHistory
  <2>5. CASE RecoverEnd BY <1>0, <2>5 DEF RecoverEnd, fileVars, storeVars, storeHistory
  <2>6. ASSUME NEW f \in TmpNames, CleanTmp(f) PROVE StoreTypeOK'
    BY <1>0, <2>6 DEF CleanTmp, storeVars, storeHistory
  <2>7. ASSUME NEW s \in Slots, LoadMeta(s) PROVE StoreTypeOK'
    <3>1. Decodes(meta[s]) => meta[s] \in Records BY <1>0, DecodesRecord
    <3> QED BY <1>0, <2>7, <3>1 DEF LoadMeta, fileVars, storeVars, storeHistory
  <2> QED BY <1>7, <2>1, <2>2, <2>3, <2>4, <2>5, <2>6, <2>7 DEF RecoverStep
<1>8. CASE Crash
  BY <1>0, <1>8 DEF Crash, fileVars
<1> QED BY <1>1, <1>2, <1>3, <1>4, <1>5, <1>6, <1>7, <1>8 DEF StoreNext

\* The steps of recover() change no metadata, no content and nothing of a writer.
LEMMA RecoverKeepsFiles ==
  ASSUME RecoverStep
  PROVE  UNCHANGED <<meta, bin, storeVars, begun, acked>>
  BY DEF RecoverStep, RecoverBegin, CleanDone, List, LoadBin, RecoverEnd, CleanTmp, LoadMeta,
         fileVars, storeVars, storeHistory

\* A writer keeps its argument, which stays unacknowledged until it succeeds.
LEMMA WriterNext ==
  ASSUME StoreInv, [StoreNext]_diskVars
  PROVE  WriterSet' /\ MetaFirst'
<1> USE DEF WriterSet, MetaFirst, Storing
<1>0. StoreTypeOK /\ WriterSet /\ MetaFirst BY DEF StoreInv
<1>1. CASE UNCHANGED diskVars
  BY <1>0, <1>1 DEF diskVars, fileVars, storeVars, storeHistory
<1>2. ASSUME NEW r \in Records, StoreBegin(r) PROVE WriterSet' /\ MetaFirst'
  <2>1. r.slot \in Slots BY DEF Records
  <2> QED BY <1>0, <1>2, <2>1 DEF StoreBegin, StoreTypeOK
<1>3. ASSUME NEW s \in Slots, RemoveMeta(s) PROVE WriterSet' /\ MetaFirst'
  BY <1>0, <1>3 DEF RemoveMeta, StoreTypeOK
<1>4. ASSUME NEW s \in Slots, Damage(s) PROVE WriterSet' /\ MetaFirst'
  <2>1. Storing => wrec.slot # s /\ wrec.slot \in Slots
    BY <1>0, <1>4 DEF Damage, Writing, StoreTypeOK, Records
  <2>2. UNCHANGED <<wpc, wrec, begun>> /\ acked' = [acked EXCEPT ![s] = None]
    BY <1>4 DEF Damage, storeVars
  <2>3. \A x \in Slots : x # s => meta'[x] = meta[x]
    BY <1>0, <1>4 DEF Damage, StoreTypeOK
  <2>4. \A x \in Slots : acked[x] = None => acked'[x] = None
    BY <1>0, <2>2 DEF StoreTypeOK
  <2> QED BY <1>0, <2>1, <2>2, <2>3, <2>4
<1>5. CASE RemoveBin
  BY <1>5 DEF RemoveBin
<1>6. CASE StoreStep
  <2>1. wrec.slot \in Slots
    BY <1>0, <1>6 DEF StoreStep, WriteMetaTmp, WriteBinTmp, WriteTmp, RenameMeta, RenameBin,
                      StoreFails, StoreTypeOK, Records
  <2> QED BY <1>0, <1>6, <2>1 DEF StoreStep, WriteMetaTmp, WriteBinTmp, WriteTmp, RenameMeta,
                      RenameBin, StoreFails, StoreTypeOK
<1>7. CASE RecoverStep
  BY <1>0, <1>7, RecoverKeepsFiles DEF storeVars
<1>8. CASE Crash
  BY <1>8 DEF Crash
<1> QED BY <1>1, <1>2, <1>3, <1>4, <1>5, <1>6, <1>7, <1>8 DEF StoreNext

\* Metadata comes onto the disk by renames and copies only, so what decodes was stored.
LEMMA AuthenticNext ==
  ASSUME StoreInv, [StoreNext]_diskVars
  PROVE  MetaIsAuthentic' /\ RecoveredIsAuthentic'
<1> USE DEF MetaIsAuthentic, RecoveredIsAuthentic, Decodes
<1>0. StoreTypeOK /\ WriterSet /\ MetaIsAuthentic /\ RecoveredIsAuthentic BY DEF StoreInv
<1>1. CASE UNCHANGED diskVars
  BY <1>0, <1>1 DEF diskVars, fileVars, recoverVars, storeHistory
<1>2. ASSUME NEW r \in Records, StoreBegin(r) PROVE MetaIsAuthentic' /\ RecoveredIsAuthentic'
  BY <1>0, <1>2 DEF StoreBegin, fileVars, recoverVars
<1>3. ASSUME NEW s \in Slots, RemoveMeta(s) PROVE MetaIsAuthentic' /\ RecoveredIsAuthentic'
  BY <1>0, <1>3 DEF RemoveMeta, recoverVars, StoreTypeOK
<1>4. ASSUME NEW s \in Slots, Damage(s) PROVE MetaIsAuthentic' /\ RecoveredIsAuthentic'
  <2>1. UNCHANGED <<recoverVars, begun>> BY <1>4 DEF Damage
  <2>2. \A x \in Slots : meta'[x] \in {Garbage} \cup {meta[y] : y \in Slots}
    BY <1>0, <1>4 DEF Damage, StoreTypeOK
  <2> QED BY <1>0, <2>1, <2>2 DEF recoverVars
<1>5. CASE RemoveBin
  BY <1>0, <1>5 DEF RemoveBin, recoverVars
<1>6. CASE StoreStep
  <2>1. UNCHANGED <<recoverVars, begun>>
    BY <1>6 DEF StoreStep, WriteMetaTmp, WriteBinTmp, WriteTmp, RenameMeta, RenameBin, StoreFails
  <2>2. \A x \in Slots : meta'[x] = meta[x] \/ meta'[x] \in begun
    BY <1>0, <1>6 DEF StoreStep, WriteMetaTmp, WriteBinTmp, WriteTmp, RenameMeta, RenameBin,
                      StoreFails, StoreTypeOK, WriterSet, Storing
  <2> QED BY <1>0, <2>1, <2>2 DEF recoverVars
<1>7. CASE RecoverStep
  <2>1. UNCHANGED <<meta, begun>> BY <1>7, RecoverKeepsFiles
  <2>2. CASE RecoverBegin BY <1>0, <2>1, <2>2 DEF RecoverBegin
  <2>3. CASE CleanDone BY <1>0, <2>1, <2>3 DEF CleanDone
  <2>4. CASE List BY <1>0, <2>1, <2>4 DEF List
  <2>5. CASE LoadBin
    <3>1. loading.rec \in begun /\ loading.rec \in Records
      BY <1>0, <2>5 DEF LoadBin, StoreTypeOK
    <3> DEFINE r == [slot |-> loading.slot, key |-> loading.rec.key, content |-> bin[loading.slot],
                     invalidated |-> loading.rec.invalidated]
    <3>2. ContentAgrees(loading.slot, loading.rec, bin[loading.slot]) => r = loading.rec
      BY <3>1 DEF ContentAgrees, Records
    <3> QED BY <1>0, <2>1, <2>5, <3>1, <3>2 DEF LoadBin
  <2>6. CASE RecoverEnd BY <1>0, <2>1, <2>6 DEF RecoverEnd
  <2>7. ASSUME NEW f \in TmpNames, CleanTmp(f) PROVE MetaIsAuthentic' /\ RecoveredIsAuthentic'
    BY <1>0, <2>1, <2>7 DEF CleanTmp
  <2>8. ASSUME NEW s \in Slots, LoadMeta(s) PROVE MetaIsAuthentic' /\ RecoveredIsAuthentic'
    <3>1. CASE Decodes(meta[s]) BY <1>0, <2>1, <2>8, <3>1 DEF LoadMeta
    <3>2. CASE ~Decodes(meta[s]) BY <1>0, <2>1, <2>8, <3>2 DEF LoadMeta
    <3> QED BY <3>1, <3>2
  <2> QED BY <1>7, <2>2, <2>3, <2>4, <2>5, <2>6, <2>7, <2>8 DEF RecoverStep
<1>8. CASE Crash
  BY <1>0, <1>8 DEF Crash, fileVars
<1> QED BY <1>1, <1>2, <1>3, <1>4, <1>5, <1>6, <1>7, <1>8 DEF StoreNext

\* An acknowledged record has both files, and no step touches the files of its name
\* without withdrawing the acknowledgement first.
LEMMA DurableNext ==
  ASSUME StoreInv, [StoreNext]_diskVars
  PROVE  AckedIsDurable'
<1> USE DEF AckedIsDurable, Loads, ContentAgrees
<1>0. StoreTypeOK /\ WriterSet /\ MetaFirst /\ AckedIsDurable BY DEF StoreInv
<1>1. CASE UNCHANGED diskVars
  BY <1>0, <1>1 DEF diskVars, fileVars, storeHistory, Decodes
<1>2. ASSUME NEW r \in Records, StoreBegin(r) PROVE AckedIsDurable'
  <2>1. \A s \in Slots : acked'[s] # None => acked'[s] = acked[s]
    BY <1>0, <1>2 DEF StoreBegin, StoreTypeOK
  <2> QED BY <1>0, <1>2, <2>1 DEF StoreBegin, fileVars, Decodes
<1>3. ASSUME NEW x \in Slots, RemoveMeta(x) PROVE AckedIsDurable'
  BY <1>0, <1>3 DEF RemoveMeta, StoreTypeOK, Decodes
<1>4. ASSUME NEW x \in Slots, Damage(x) PROVE AckedIsDurable'
  BY <1>0, <1>4 DEF Damage, StoreTypeOK, Decodes
<1>5. CASE RemoveBin
  BY <1>0, <1>5 DEF RemoveBin, StoreTypeOK, WriterSet, Decodes
<1>6. CASE StoreStep
  <2>1. wrec \in Records /\ wrec.slot \in Slots /\ acked[wrec.slot] = None
    BY <1>0, <1>6 DEF StoreStep, WriteMetaTmp, WriteBinTmp, WriteTmp, RenameMeta, RenameBin,
                      StoreFails, StoreTypeOK, Records, WriterSet, Storing
  <2>2. CASE RenameBin
    <3>1. wrec \notin {Garbage, None} /\ wrec.content # None
      BY <2>1, StoreAssumption DEF Records
    <3> QED BY <1>0, <2>1, <2>2, <3>1 DEF RenameBin, MetaFirst, StoreTypeOK, Decodes
  <2>3. CASE RenameMeta BY <1>0, <2>1, <2>3 DEF RenameMeta, StoreTypeOK, Decodes
  <2>4. CASE WriteMetaTmp \/ WriteBinTmp \/ StoreFails
    BY <1>0, <2>4 DEF WriteMetaTmp, WriteBinTmp, WriteTmp, StoreFails, Decodes
  <2> QED BY <1>6, <2>2, <2>3, <2>4 DEF StoreStep
<1>7. CASE RecoverStep
  BY <1>0, <1>7, RecoverKeepsFiles DEF Decodes
<1>8. CASE Crash
  BY <1>0, <1>8 DEF Crash, fileVars, Decodes
<1> QED BY <1>1, <1>2, <1>3, <1>4, <1>5, <1>6, <1>7, <1>8 DEF StoreNext

\* Whatever disturbs a recovery clears quiet; the recovery's own steps move one name
\* at a time from todo into the result load() gives for it.
LEMMA ProgressNext ==
  ASSUME StoreInv, [StoreNext]_diskVars
  PROVE  RecoveryProgress'
<1>0. StoreTypeOK /\ MetaIsAuthentic /\ RecoveryProgress BY DEF StoreInv
<1>1. CASE UNCHANGED diskVars
  BY <1>0, <1>1 DEF diskVars, fileVars, storeVars, recoverVars, storeHistory,
                    RecoveryProgress, Sorted, Loads, Decodes, ContentAgrees
<1>2. ASSUME NEW r \in Records, StoreBegin(r) PROVE RecoveryProgress'
  BY <1>2 DEF StoreBegin, RecoveryProgress
<1>3. ASSUME NEW s \in Slots, RemoveMeta(s) \/ Damage(s) PROVE RecoveryProgress'
  BY <1>3 DEF RemoveMeta, Damage, RecoveryProgress
<1>4. CASE RemoveBin \/ StoreStep \/ Crash
  BY <1>4 DEF RemoveBin, StoreStep, WriteMetaTmp, WriteBinTmp, WriteTmp, RenameMeta, RenameBin,
              StoreFails, Crash, RecoveryProgress
<1>5. CASE RecoverStep
  <2> SUFFICES ASSUME quiet' PROVE RecoveryProgress' BY DEF RecoveryProgress
  <2>0. UNCHANGED <<meta, bin, wpc>> BY <1>5, RecoverKeepsFiles DEF storeVars
  <2>1. \A s \in Slots : Loads(s)' = Loads(s) BY <2>0 DEF Loads, Decodes, ContentAgrees
  <2>2. CASE RecoverBegin
    BY <2>0, <2>2 DEF RecoverBegin, RecoveryProgress, fileVars
  <2>3. CASE CleanDone
    BY <1>0, <2>0, <2>3 DEF CleanDone, RecoveryProgress, fileVars, storeHistory
  <2>4. CASE List
    <3>1. Sorted' = {} /\ valid' = {} /\ invalidated' = {} /\ corrupted' = {}
      BY <1>0, <2>0, <2>4 DEF List, RecoveryProgress, Sorted, storeHistory
    <3> QED BY <1>0, <2>0, <2>1, <2>4, <3>1 DEF List, RecoveryProgress, fileVars, storeHistory
  <2>5. CASE LoadBin
    <3> DEFINE x == loading.slot
    <3>1. quiet /\ rpc = "reading" /\ x \in Slots /\ loading.rec = meta[x] /\ x \notin todo
      BY <1>0, <2>5 DEF LoadBin, RecoveryProgress, MetaIsAuthentic, storeHistory
    <3>2. meta[x] \in Records /\ meta[x] # None
      BY <1>0, <3>1, StoreAssumption DEF MetaIsAuthentic, StoreTypeOK
    <3>3. Loads(x) <=> ContentAgrees(x, loading.rec, bin[x])
      BY <3>1, <3>2, StoreAssumption DEF Loads, Decodes
    <3>4. Sorted' = Sorted \cup {x} /\ x \notin Sorted
      BY <2>0, <2>5, <3>1, <3>2 DEF LoadBin, Sorted
    <3>5. /\ ~Loads(x) => corrupted' = corrupted \cup {x} /\ valid' = valid /\ invalidated' = invalidated
          /\ Loads(x) => corrupted' = corrupted
          /\ Loads(x) /\ meta[x].invalidated =>
                valid' = valid /\ \E r : r.slot = x /\ invalidated' = invalidated \cup {r}
          /\ Loads(x) /\ ~meta[x].invalidated =>
                invalidated' = invalidated /\ \E r : r.slot = x /\ valid' = valid \cup {r}
      <4> DEFINE r == [slot |-> x, key |-> loading.rec.key, content |-> bin[x],
                       invalidated |-> loading.rec.invalidated]
      <4>1. r.slot = x OBVIOUS
      <4> HIDE DEF r
      <4> QED BY <2>5, <3>1, <3>3, <4>1 DEF LoadBin, r
    <3>6. \A s \in Slots : (s \in Sorted' /\ Loads(s)' /\ ~meta'[s].invalidated) <=> \E r \in valid' : r.slot = s
      BY <1>0, <2>0, <2>1, <3>1, <3>4, <3>5 DEF RecoveryProgress
    <3>7. \A s \in Slots : (s \in Sorted' /\ Loads(s)' /\ meta'[s].invalidated) <=> \E r \in invalidated' : r.slot = s
      BY <1>0, <2>0, <2>1, <3>1, <3>4, <3>5 DEF RecoveryProgress
    <3>8. \A s \in Slots : (s \in Sorted' /\ ~Loads(s)') <=> s \in corrupted'
      BY <1>0, <2>0, <2>1, <3>1, <3>4, <3>5 DEF RecoveryProgress
    <3> QED BY <1>0, <2>0, <2>5, <3>1, <3>6, <3>7, <3>8 DEF LoadBin, RecoveryProgress, fileVars
  <2>6. CASE RecoverEnd
    <3>1. Sorted' = Sorted BY <2>0, <2>6 DEF RecoverEnd, Sorted
    <3> QED BY <1>0, <2>0, <2>1, <2>6, <3>1 DEF RecoverEnd, RecoveryProgress, fileVars, storeHistory
  <2>7. ASSUME NEW f \in TmpNames, CleanTmp(f) PROVE RecoveryProgress'
    BY <1>0, <2>0, <2>7 DEF CleanTmp, RecoveryProgress, storeHistory
  <2>8. ASSUME NEW x \in Slots, LoadMeta(x) PROVE RecoveryProgress'
    <3>1. quiet /\ rpc = "loading" /\ x \in todo /\ todo' = todo \ {x} /\ meta[x] # None
      BY <1>0, <2>8 DEF LoadMeta, RecoveryProgress, storeHistory
    <3>2. UNCHANGED <<tmp, valid, invalidated>> BY <2>8 DEF LoadMeta, fileVars
    <3>3. CASE Decodes(meta[x])
      <4>1. rpc' = "reading" /\ loading' = [slot |-> x, rec |-> meta[x]] /\ corrupted' = corrupted
        BY <2>8, <3>3 DEF LoadMeta
      <4>2. Sorted' = Sorted BY <2>0, <3>1, <4>1 DEF Sorted
      <4> QED BY <1>0, <2>0, <2>1, <3>1, <3>2, <4>1, <4>2 DEF RecoveryProgress
    <3>4. CASE ~Decodes(meta[x])
      <4>1. rpc' = "loading" /\ corrupted' = corrupted \cup {x}
        BY <2>8, <3>1, <3>4 DEF LoadMeta
      <4>2. Sorted' = Sorted \cup {x} /\ x \notin Sorted BY <2>0, <3>1, <4>1 DEF Sorted
      <4>3. ~Loads(x) BY <3>4 DEF Loads
      <4> QED BY <1>0, <2>0, <2>1, <3>1, <3>2, <4>1, <4>2, <4>3 DEF RecoveryProgress
    <3> QED BY <3>3, <3>4
  <2> QED BY <1>5, <2>2, <2>3, <2>4, <2>5, <2>6, <2>7, <2>8 DEF RecoverStep
<1> QED BY <1>1, <1>2, <1>3, <1>4, <1>5 DEF StoreNext

\* StoreInv holds in every reachable state of the store.
THEOREM StoreInvariance == StoreSpec => []StoreInv
<1>1. StoreInv /\ [StoreNext]_diskVars => StoreInv'
  BY StoreTypeNext, WriterNext, AuthenticNext, DurableNext, ProgressNext DEF StoreInv
<1> QED BY StoreInvInit, <1>1, PTL DEF StoreSpec

\* Whenever the process died and whatever happened to the files, recover() reports
\* as valid only records that were passed to store() just so and not as invalidated.
THEOREM RecoveryIsAuthentic == StoreSpec => []RecoveredIsAuthentic
<1>1. StoreInv => RecoveredIsAuthentic BY DEF StoreInv
<1> QED BY StoreInvariance, <1>1, PTL

\* A record whose store() returned success stays loadable across crashes, failures
\* and recoveries until its own name is stored again, removed or damaged.
THEOREM StoredRecordsSurvive == StoreSpec => []AckedIsDurable
<1>1. StoreInv => AckedIsDurable BY DEF StoreInv
<1> QED BY StoreInvariance, <1>1, PTL

\* A recovery nothing disturbed leaves no temporary file and reports every name on
\* disk exactly once, as load() judges it.
THEOREM RecoveryIsExact == StoreSpec => []UndisturbedRecoveryIsExact
<1>1. StoreInv => UndisturbedRecoveryIsExact
  <2> SUFFICES ASSUME StoreInv, rpc = "finished", quiet
               PROVE  /\ tmp = {}
                      /\ {r.slot : r \in valid} = {s \in Slots : Loads(s) /\ ~meta[s].invalidated}
                      /\ {r.slot : r \in invalidated} = {s \in Slots : Loads(s) /\ meta[s].invalidated}
                      /\ corrupted = {s \in Slots : meta[s] # None /\ ~Loads(s)}
    BY DEF UndisturbedRecoveryIsExact
  <2>1. StoreTypeOK /\ RecoveryProgress BY DEF StoreInv
  <2>2. \A s \in Slots : s \in Sorted <=> meta[s] # None BY <2>1 DEF RecoveryProgress, Sorted
  <2>3. \A s \in Slots : Loads(s) => meta[s] # None BY DEF Loads, Decodes
  <2>4. \A r \in valid \cup invalidated : r.slot \in Slots BY <2>1 DEF StoreTypeOK, Records
  <2>5. corrupted \in SUBSET Slots BY <2>1 DEF StoreTypeOK
  <2>6. tmp = {} BY <2>1 DEF RecoveryProgress
  <2>7. {r.slot : r \in valid} = {s \in Slots : Loads(s) /\ ~meta[s].invalidated}
    BY <2>1, <2>2, <2>3, <2>4 DEF RecoveryProgress
  <2>8. {r.slot : r \in invalidated} = {s \in Slots : Loads(s) /\ meta[s].invalidated}
    BY <2>1, <2>2, <2>3, <2>4 DEF RecoveryProgress
  <2>9. corrupted = {s \in Slots : meta[s] # None /\ ~Loads(s)}
    BY <2>1, <2>2, <2>5 DEF RecoveryProgress
  <2> QED BY <2>6, <2>7, <2>8, <2>9
<1> QED BY StoreInvariance, <1>1, PTL
=============================================================================
