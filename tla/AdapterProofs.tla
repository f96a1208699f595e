---------------------------- MODULE AdapterProofs -----------------------------
(***************************************************************************)
(* What stands between the coordinator and Windows.                        *)
(*                                                                         *)
(* FileStore, for any contents, names, number of attempts and of faults:   *)
(* the service starts from exactly what was last saved or a power failure  *)
(* went back to, and a temporary file is left by a death or a failed       *)
(* removal only, also when ReplaceFileW loses the file it replaces         *)
(* (StoredOrLost). Provided that it never does, the stores implement       *)
(* AtomicFiles, and a file holds what its last successful save reported    *)
(* or what the disk had of it at the last power failure. A temporary file  *)
(* is published only after write and flush (Prepared), so a canonical file *)
(* is always flushed (Flushed) and a power failure has nothing in it to    *)
(* tear; the first publication is on the disk (Stable), so there is always *)
(* one to go back to; the save at work owns one temporary file (Own), so   *)
(* the removal takes one away.                                             *)
(*                                                                         *)
(* InternetGate, for any filters, names and interference: a call leaves    *)
(* everything of PALKA's or nothing, and touches nothing else. While a     *)
(* transaction is open the committed objects are as they were and the copy *)
(* differs from them only in PALKA's own (Mutation, Keeps); what a report  *)
(* says is what was read in one transaction (ReadSoFar). That the report   *)
(* is true needs aborts that succeed, and is proved under that assumption. *)
(*                                                                         *)
(* PowerController, for any width of usize above 3 and any counts: no read *)
(* leaves the buffer that was sized for it, and the token is left as it    *)
(* was found or the caller is told.                                        *)
(*                                                                         *)
(* ProtectedDirectory, for any number of interferences: the step that the  *)
(* call is at says what it has verified, and while nobody interferes that  *)
(* is still so.                                                            *)
(***************************************************************************)
EXTENDS FileStore, InternetGate, PowerController, ProtectedDirectory,
        FiniteSetTheorems, TLAPS

(* FileStore *)
TempFile == [file : File, name : Name, data : Value \cup {Torn}, synced : BOOLEAN]

Flushed == canonical \in [File -> [data : Value \cup {NoFile}, synced : {TRUE}]]
Temps == temps \subseteq TempFile
Phases ==
    /\ phase \in {"setup", "down", "running"} \cup File
    /\ save_pc \in {"idle", "create", "write", "sync", "publish", "cleanup", "ok"}
    /\ save_pc # "idle" => phase \in {"setup", "running"} /\ job.file \in File /\ job.value \in Value
Jobs == job \in [file : File \cup {"none"}, value : Value \cup {NoFile}, name : Name \cup {"none"}]
StoreRecords == {loaded, acked, restored} \subseteq [File -> Value \cup {NoFile}]
(* A file that exists has a whole version on the disk. *)
Stable == /\ stable \in [File -> Value \cup {NoFile}]
          /\ \A f \in File : stable[f] = NoFile => data(f) = NoFile
Prepared ==
    \A t \in temps : mine(t) => /\ save_pc = "sync" => t.data = job.value
                                /\ save_pc = "publish" => t.data = job.value /\ t.synced = TRUE
Published == save_pc = "ok" => data(job.file) = job.value
(* What bootstrap_service has read so far is what was saved. *)
Loading ==
    /\ phase \in {"credentials", "state"} => expected("config", loaded["config"])
    /\ phase = "state" => expected("credentials", loaded["credentials"])
(* A file is what was saved, or ReplaceFileW has lost it. *)
StoredOrLost ==
    \A f \in File : \/ expected(f, data(f))
                    \/ save_pc = "ok" /\ job.file = f /\ data(f) = job.value
                    \/ ReplaceMayLose /\ data(f) = NoFile

StoreInv == /\ Flushed /\ Stable /\ Temps /\ Phases /\ Jobs /\ StoreRecords /\ Prepared /\ Published
            /\ Loading /\ StoredOrLost

\* save(): nothing on disk changes, and a value the codec refuses changes nothing.
LEMMA save_Inv ==
    ASSUME StoreInv, NEW f \in File, NEW v \in Value \cup Rejected, save(f, v),
           phase \in {"setup", "running"}
    PROVE  StoreInv'
<1>1. Flushed' /\ Stable' /\ Temps' /\ StoreRecords' /\ Loading'
    BY DEF StoreInv, Flushed, Stable, Temps, StoreRecords, Loading, expected, data, save, disk, context, store_history
<1>2. Phases' /\ Jobs'
    BY DEF StoreInv, Phases, Jobs, save, context
<1>3. Prepared' /\ Published' /\ StoredOrLost'
    BY DEF StoreInv, Prepared, Published, StoredOrLost, expected, mine, named, data, save, disk, store_history
<1> QED BY <1>1, <1>2, <1>3 DEF StoreInv

\* A new temporary file holds nothing yet.
LEMMA create_Inv ==
    ASSUME StoreInv, NEW n \in Name, create_unique_temp_file(n)
    PROVE  StoreInv'
<1>1. save_pc = "create" /\ job.file \in File /\ job.value \in Value /\ phase \in {"setup", "running"}
    BY DEF StoreInv, Phases, create_unique_temp_file
<1>2. Flushed' /\ Stable' /\ StoreRecords' /\ Loading'
    BY DEF StoreInv, Flushed, Stable, StoreRecords, Loading, expected, data, create_unique_temp_file, return_error,
           context, store_history
<1>3. Temps'
    <2>1. [file |-> job.file, name |-> n, data |-> Torn, synced |-> FALSE] \in TempFile
        BY <1>1 DEF TempFile
    <2>2. \/ temps' = temps
          \/ temps' = temps \cup {[file |-> job.file, name |-> n, data |-> Torn, synced |-> FALSE]}
        BY DEF create_unique_temp_file
    <2> QED BY <2>1, <2>2 DEF StoreInv, Temps
<1>4. /\ save_pc' \in {"create", "write", "idle"} /\ phase' = phase
      /\ save_pc' = "idle" => job' = NoJob
      /\ save_pc' # "idle" => job' = job \/ job' = [job EXCEPT !.name = n]
    BY <1>1 DEF create_unique_temp_file, return_error, context
<1>5. Phases' /\ Jobs'
    BY <1>1, <1>4 DEF StoreInv, Phases, Jobs, NoJob
<1>6. Prepared' /\ Published'
    BY <1>4 DEF Prepared, Published
<1>7. StoredOrLost'
    BY <1>1 DEF StoreInv, StoredOrLost, expected, data, create_unique_temp_file, return_error, store_history
<1> QED BY <1>2, <1>3, <1>5, <1>6, <1>7 DEF StoreInv

\* A step that returns an error leaves the canonical files alone.
LEMMA error_Inv ==
    ASSUME StoreInv, save_pc # "ok", return_error, UNCHANGED <<canonical, stable, phase, loaded>>,
           temps' \subseteq temps
    PROVE  StoreInv'
<1>1. Flushed' /\ Stable' /\ Temps' /\ StoreRecords' /\ Loading' /\ Phases'
    BY DEF StoreInv, Flushed, Stable, Temps, StoreRecords, Loading, Phases, expected, data, return_error, store_history
<1>2. Jobs'
    BY DEF Jobs, NoJob, return_error
<1>3. Prepared' /\ Published' /\ StoredOrLost'
    BY DEF StoreInv, Prepared, Published, StoredOrLost, expected, data, return_error, store_history
<1> QED BY <1>1, <1>2, <1>3 DEF StoreInv

\* write_all: the save's own file, and no other, holds the value.
LEMMA write_Inv ==
    ASSUME StoreInv, write_all
    PROVE  StoreInv'
<1>1. /\ save_pc = "write" /\ save_pc' = "sync"
      /\ UNCHANGED <<canonical, stable, job, acked, restored, phase, loaded>>
      /\ temps' = {IF mine(t) THEN [t EXCEPT !.data = job.value] ELSE t : t \in temps}
    BY DEF write_all, save_goto, after_write, context, store_history
<1>2. Flushed' /\ Stable' /\ StoreRecords' /\ Loading' /\ Phases' /\ Jobs' /\ Published' /\ StoredOrLost'
    BY <1>1 DEF StoreInv, Flushed, Stable, StoreRecords, Loading, Phases, Jobs, Published, StoredOrLost,
                expected, data
<1>3. job.value \in Value
    BY <1>1 DEF StoreInv, Phases
<1>4. ASSUME NEW u \in temps'
      PROVE  u \in TempFile /\ (mine(u)' => u.data = job.value)
    <2>1. PICK t \in temps : u = IF mine(t) THEN [t EXCEPT !.data = job.value] ELSE t
        BY <1>1
    <2>2. t \in TempFile
        BY DEF StoreInv, Temps
    <2>3. CASE mine(t)
        BY <1>3, <2>1, <2>2, <2>3 DEF TempFile
    <2>4. CASE ~mine(t)
        BY <1>1, <2>1, <2>2, <2>4 DEF mine, named
    <2> QED BY <2>3, <2>4
<1>5. Temps' /\ Prepared'
    BY <1>1, <1>4 DEF Temps, Prepared
<1> QED BY <1>2, <1>5 DEF StoreInv

\* sync_all: the save's own file is flushed, with the value in it.
LEMMA sync_Inv ==
    ASSUME StoreInv, sync_all
    PROVE  StoreInv'
<1>1. /\ save_pc = "sync" /\ save_pc' = "publish"
      /\ UNCHANGED <<canonical, stable, job, acked, restored, phase, loaded>>
      /\ temps' = {IF mine(t) THEN [t EXCEPT !.synced = TRUE] ELSE t : t \in temps}
    BY DEF sync_all, save_goto, context, store_history
<1>2. Flushed' /\ Stable' /\ StoreRecords' /\ Loading' /\ Phases' /\ Jobs' /\ Published' /\ StoredOrLost'
    BY <1>1 DEF StoreInv, Flushed, Stable, StoreRecords, Loading, Phases, Jobs, Published, StoredOrLost,
                expected, data
<1>3. ASSUME NEW u \in temps'
      PROVE  u \in TempFile /\ (mine(u)' => u.data = job.value /\ u.synced = TRUE)
    <2>1. PICK t \in temps : u = IF mine(t) THEN [t EXCEPT !.synced = TRUE] ELSE t
        BY <1>1
    <2>2. t \in TempFile /\ (mine(t) => t.data = job.value)
        BY <1>1 DEF StoreInv, Temps, Prepared
    <2>3. CASE mine(t)
        BY <2>1, <2>2, <2>3 DEF TempFile
    <2>4. CASE ~mine(t)
        BY <1>1, <2>1, <2>2, <2>4 DEF mine, named
    <2> QED BY <2>3, <2>4
<1>4. Temps' /\ Prepared'
    BY <1>1, <1>3 DEF Temps, Prepared
<1> QED BY <1>2, <1>4 DEF StoreInv

\* A failure of write, flush or publication goes to the removal of the file.
LEMMA failure_Inv ==
    ASSUME StoreInv, write_or_sync_fails \/ publish_fails
    PROVE  StoreInv'
<1>1. /\ save_pc \in {"write", "sync", "publish"} /\ save_pc' = "cleanup"
      /\ UNCHANGED <<canonical, stable, temps, job, acked, restored, phase, loaded>>
    BY DEF write_or_sync_fails, publish_fails, save_goto, after_failed_write, after_failed_publish,
           disk, context, store_history
<1>2. Flushed' /\ Stable' /\ Temps' /\ StoreRecords' /\ Loading' /\ Phases' /\ Jobs'
    BY <1>1 DEF StoreInv, Flushed, Stable, Temps, StoreRecords, Loading, Phases, Jobs, expected, data
<1>3. Prepared' /\ Published' /\ StoredOrLost'
    BY <1>1 DEF StoreInv, Prepared, Published, StoredOrLost, expected, data
<1> QED BY <1>2, <1>3 DEF StoreInv

\* The publication puts the value that is saved, flushed, in place; the first one is
\* on the disk at once.
LEMMA PublishFacts ==
    ASSUME StoreInv, atomic_publish_file
    PROVE  /\ canonical' = [canonical EXCEPT ![job.file] = [data |-> job.value, synced |-> TRUE]]
           /\ stable' = IF data(job.file) = NoFile THEN [stable EXCEPT ![job.file] = job.value] ELSE stable
           /\ job.file \in File /\ job.value \in Value /\ temps' \subseteq temps
           /\ save_pc = "publish" /\ save_pc' = "ok"
           /\ UNCHANGED <<job, acked, restored, phase, loaded>>
<1>1. PICK t \in temps :
         /\ mine(t) /\ temps' = temps \ {t}
         /\ canonical' = [canonical EXCEPT ![job.file] = [data |-> t.data, synced |-> t.synced]]
         /\ stable' = IF data(job.file) = NoFile THEN [stable EXCEPT ![job.file] = survives(t)] ELSE stable
    BY DEF atomic_publish_file, MoveFileExW, ReplaceFileW
<1>2. save_pc = "publish" /\ save_pc' = "ok" /\ UNCHANGED <<job, acked, restored, phase, loaded>>
    BY DEF atomic_publish_file, save_goto, context, store_history
<1>3. t.data = job.value /\ t.synced = TRUE /\ survives(t) = job.value
    BY <1>1, <1>2 DEF StoreInv, Prepared, survives
<1>4. job.file \in File /\ job.value \in Value
    BY <1>2 DEF StoreInv, Phases
<1> QED BY <1>1, <1>2, <1>3, <1>4

\* atomic_publish_file.
LEMMA publish_Inv ==
    ASSUME StoreInv, atomic_publish_file
    PROVE  StoreInv'
<1>1. /\ canonical' = [canonical EXCEPT ![job.file] = [data |-> job.value, synced |-> TRUE]]
      /\ stable' = IF data(job.file) = NoFile THEN [stable EXCEPT ![job.file] = job.value] ELSE stable
      /\ job.file \in File /\ job.value \in Value /\ temps' \subseteq temps
      /\ save_pc = "publish" /\ save_pc' = "ok" /\ UNCHANGED <<job, acked, restored, phase, loaded>>
    BY PublishFacts
<1>2. Flushed' /\ Temps'
    BY <1>1 DEF StoreInv, Flushed, Temps
<1>3. Phases' /\ Jobs' /\ StoreRecords' /\ Loading' /\ Prepared'
    BY <1>1 DEF StoreInv, Phases, Jobs, StoreRecords, Loading, expected, Prepared
<1>4. /\ data(job.file)' = job.value
      /\ \A f \in File : f # job.file => data(f)' = data(f)
    BY <1>1 DEF StoreInv, Flushed, data
<1>5. Published' /\ StoredOrLost'
    BY <1>1, <1>4 DEF StoreInv, Published, StoredOrLost, expected
<1>6. Stable'
    BY <1>1, <1>4, ContentsDistinct DEF StoreInv, Stable
<1> QED BY <1>2, <1>3, <1>5, <1>6 DEF StoreInv

\* ReplaceFileW loses the file it replaces.
LEMMA lose_Inv ==
    ASSUME StoreInv, replace_loses_target
    PROVE  StoreInv'
<1>1. /\ canonical' = [canonical EXCEPT ![job.file] = [data |-> NoFile, synced |-> TRUE]]
      /\ save_pc = "publish" /\ save_pc' = "cleanup"
      /\ UNCHANGED <<stable, temps, job, acked, restored, phase, loaded>>
      /\ ReplaceMayLose
    BY DEF replace_loses_target, save_goto, after_failed_publish, context, store_history
<1>2. Flushed' /\ Temps' /\ StoreRecords' /\ Loading' /\ Phases' /\ Jobs' /\ Prepared' /\ Published'
    BY <1>1 DEF StoreInv, Flushed, Temps, StoreRecords, Loading, expected, Phases, Jobs, Prepared, Published
<1>3. /\ data(job.file)' = NoFile
      /\ \A f \in File : f # job.file => data(f)' = data(f)
    BY <1>1 DEF StoreInv, Flushed, Phases, data
<1>4. StoredOrLost' /\ Stable'
    BY <1>1, <1>3 DEF StoreInv, StoredOrLost, expected, Stable
<1> QED BY <1>2, <1>4 DEF StoreInv

\* save() reports success.
LEMMA save_ok_Inv ==
    ASSUME StoreInv, save_ok
    PROVE  StoreInv'
<1>1. save_pc = "ok" /\ job.file \in File /\ job.value \in Value /\ phase \in {"setup", "running"}
    BY DEF StoreInv, Phases, save_ok
<1>2. Flushed' /\ Stable' /\ Temps' /\ Phases' /\ Jobs' /\ Prepared' /\ Published'
    BY DEF StoreInv, Flushed, Stable, data, Temps, Phases, Jobs, NoJob, Prepared, Published, save_ok, disk,
           context
<1>3. StoreRecords' /\ Loading'
    BY <1>1 DEF StoreInv, StoreRecords, Loading, File, save_ok, context
<1>4. StoredOrLost'
    BY <1>1 DEF StoreInv, StoreRecords, Published, StoredOrLost, expected, data, save_ok, disk
<1> QED BY <1>2, <1>3, <1>4 DEF StoreInv

\* The system's own flush: what can be read is on the disk.
LEMMA flush_Inv ==
    ASSUME StoreInv, NEW f \in File, system_flushes(f)
    PROVE  StoreInv' /\ UNCHANGED canonical /\ stable' = [stable EXCEPT ![f] = data(f)]
<1>1. /\ UNCHANGED <<canonical, temps, phase, loaded, save_pc, job, acked, restored>>
      /\ stable' = [stable EXCEPT ![f] = survives(canonical[f])]
    BY DEF system_flushes, context, store_history
<1>2. survives(canonical[f]) = data(f) /\ data(f) \in Value \cup {NoFile}
    BY DEF StoreInv, Flushed, survives, data
<1>3. Stable'
    BY <1>1, <1>2 DEF StoreInv, Stable, data
<1>4. StoreInv'
    BY <1>1, <1>3 DEF StoreInv, Flushed, Temps, Phases, Jobs, StoreRecords, Prepared, mine, named, Published,
                      Loading, expected, StoredOrLost, data
<1> QED BY <1>1, <1>2, <1>4

\* The process dies, with its files as they are or as a power failure leaves them.
LEMMA dies_Inv ==
    ASSUME StoreInv, dies, Flushed', UNCHANGED stable, temps' \subseteq TempFile,
           \A f \in File : data(f)' \in {data(f), stable[f]}
    PROVE  StoreInv'
<1>1. save_pc' = "idle" /\ phase' \in {"setup", "down"} /\ loaded' = loaded
    BY DEF dies
<1>2. Temps' /\ Phases' /\ Jobs' /\ Prepared' /\ Published' /\ Loading'
    BY <1>1 DEF StoreInv, Temps, Phases, Jobs, NoJob, Prepared, Published, Loading, File, dies
<1>3. Stable'
    BY DEF StoreInv, Stable
<1>4. ASSUME NEW f \in File
      PROVE  /\ acked'[f] = IF answered(f) THEN job.value ELSE acked[f]
             /\ undone(f) => restored'[f] = data(f)'
             /\ answered(f) /\ ~undone(f) => restored'[f] = NoFile
             /\ ~answered(f) /\ ~undone(f) => restored'[f] = restored[f]
    BY DEF dies, data
<1>5. ASSUME NEW f \in File
      PROVE  acked'[f] \in Value \cup {NoFile} /\ restored'[f] \in Value \cup {NoFile}
    <2>1. data(f)' \in Value \cup {NoFile}
        BY DEF Flushed, data
    <2>2. answered(f) => job.value \in Value
        BY DEF StoreInv, Phases, answered
    <2> QED BY <1>4, <2>1, <2>2 DEF StoreInv, StoreRecords
<1>6. StoreRecords'
    <2>1. acked' = [f \in File |-> acked'[f]] /\ restored' = [f \in File |-> restored'[f]]
        BY DEF dies
    <2> QED BY <1>1, <1>5, <2>1 DEF StoreInv, StoreRecords
<1>7. ASSUME NEW f \in File
      PROVE  \/ expected(f, data(f))'
             \/ ReplaceMayLose /\ data(f)' = NoFile
    <2>1. CASE undone(f)
        <3>1. data(f)' = stable[f] /\ data(f)' # NoFile
            BY <2>1 DEF StoreInv, Stable, undone, data
        <3> QED BY <1>4, <2>1, <3>1 DEF expected
    <2>2. CASE ~undone(f) /\ answered(f)
        BY <1>4, <2>2 DEF expected, answered, data
    <2>3. CASE ~undone(f) /\ ~answered(f)
        <3>1. data(f)' = data(f) /\ acked'[f] = acked[f] /\ restored'[f] = restored[f]
            BY <1>4, <2>3 DEF undone, data
        <3>2. ~(save_pc = "ok" /\ job.file = f /\ data(f) = job.value)
            BY <2>3, <3>1 DEF answered, data
        <3> QED BY <3>1, <3>2 DEF StoreInv, StoredOrLost, expected
    <2> QED BY <2>1, <2>2, <2>3
<1>8. StoredOrLost'
    BY <1>7 DEF StoredOrLost
<1> QED BY <1>2, <1>3, <1>6, <1>8 DEF StoreInv

\* A temporary file as a power failure leaves it, and one that it brings back.
LEMMA LeftTemps ==
    ASSUME StoreInv, NEW left \in SUBSET temps, NEW n \in Name,
           temps' = {[t EXCEPT !.data = survives(t), !.synced = TRUE] : t \in left} \cup rewound(n)
    PROVE  temps' \subseteq TempFile
<1>1. ASSUME NEW t \in left
      PROVE  [t EXCEPT !.data = survives(t), !.synced = TRUE] \in TempFile
    <2>1. t \in TempFile
        BY DEF StoreInv, Temps
    <2> QED BY <2>1 DEF survives, TempFile
<1>2. ASSUME NEW u \in rewound(n)
      PROVE  u \in TempFile
    <2>1. PICK f \in File : /\ data(f) # NoFile
                          /\ u = [file |-> f, name |-> n, data |-> survives(canonical[f]), synced |-> TRUE]
        BY <1>2 DEF rewound
    <2>2. survives(canonical[f]) \in Value
        BY <2>1 DEF StoreInv, Flushed, survives, data
    <2> QED BY <2>1, <2>2 DEF TempFile
<1> QED BY <1>1, <1>2

\* A power failure: each file is what the disk has.
LEMMA power_failure_Inv ==
    ASSUME StoreInv, power_failure
    PROVE  StoreInv'
<1>1. temps' \subseteq TempFile
    BY LeftTemps DEF power_failure
<1>2. canonical' = [f \in File |-> [data |-> stable[f], synced |-> TRUE]] /\ UNCHANGED stable /\ dies
    BY DEF power_failure
<1>3. Flushed'
    BY <1>2 DEF StoreInv, Flushed, Stable
<1>4. \A f \in File : data(f)' = stable[f]
    BY <1>2 DEF data
<1> QED BY <1>1, <1>2, <1>3, <1>4, dies_Inv

\* A start, a failed start and a stop touch no file.
LEMMA service_Inv ==
    ASSUME StoreInv, bootstrap_persistent_root \/ bootstrap_root_fails \/ service_stops
    PROVE  StoreInv'
<1>1. Flushed' /\ Stable' /\ Temps' /\ Jobs' /\ Prepared' /\ Published' /\ StoredOrLost'
    BY DEF StoreInv, Flushed, Stable, Temps, Jobs, Prepared, Published, StoredOrLost, expected, mine, named, data,
           disk, store_history, bootstrap_persistent_root, bootstrap_root_fails, service_stops
<1>2. Phases' /\ StoreRecords' /\ Loading'
    BY DEF StoreInv, Phases, StoreRecords, Loading, File, store_history, bootstrap_persistent_root,
           bootstrap_root_fails, service_stops
<1> QED BY <1>1, <1>2 DEF StoreInv

\* bootstrap_service reads what was saved, file by file.
LEMMA bootstrap_Inv ==
    ASSUME StoreInv, NEW f \in File, bootstrap_service(f)
    PROVE  /\ StoreInv'
           /\ phase' = "running" => \A g \in File : expected(g, loaded'[g])
<1>1. /\ phase = f /\ save_pc = "idle" /\ (load(f) \in Value => expected(f, data(f)))
      /\ UNCHANGED <<canonical, stable, temps, save_pc, job, acked, restored>>
    BY ContentsDistinct DEF StoreInv, Phases, StoredOrLost, File, load, bootstrap_service, disk, store_history
<1>2. Flushed' /\ Stable' /\ Temps' /\ Jobs' /\ Prepared' /\ Published' /\ StoredOrLost'
    BY <1>1 DEF StoreInv, Flushed, Stable, Temps, Jobs, Prepared, Published, StoredOrLost, expected, mine, named,
                data
<1>3. \/ phase' = "down" /\ UNCHANGED loaded
      \/ load(f) \in Value /\ loaded' = [loaded EXCEPT ![f] = data(f)] /\ phase' = after_load(f)
    BY DEF bootstrap_service, load
<1>4. Phases'
    BY <1>1, <1>3 DEF StoreInv, Phases, File, after_load
<1>5. StoreRecords'
    BY <1>1, <1>3 DEF StoreInv, StoreRecords, load
<1>6. Loading'
    BY <1>1, <1>3 DEF StoreInv, Loading, StoreRecords, File, after_load, expected
<1>7. ASSUME phase' = "running"
      PROVE  \A g \in File : expected(g, loaded'[g])
    <2>1. f = "state" /\ loaded' = [loaded EXCEPT !["state"] = data("state")] /\ expected("state", data("state"))
        BY <1>1, <1>3, <1>7 DEF File, after_load
    <2>2. loaded'["config"] = loaded["config"] /\ loaded'["credentials"] = loaded["credentials"]
          /\ loaded'["state"] = data("state")
        BY <2>1 DEF StoreInv, StoreRecords, File
    <2> QED BY <1>1, <2>1, <2>2 DEF StoreInv, Loading, File
<1> QED BY <1>2, <1>4, <1>5, <1>6, <1>7 DEF StoreInv

\* Every step preserves the inductive invariant.
LEMMA StoreStep ==
    ASSUME StoreInv, [StoreNext]_store_vars
    PROVE  StoreInv'
<1>1. ASSUME NEW v \in Value \cup Rejected,
             StateFileStore_save(v) \/ ConfigFileStore_save(v) \/ CredentialsFileStore_save(v)
      PROVE  StoreInv'
    BY <1>1, save_Inv DEF StateFileStore_save, ConfigFileStore_save, CredentialsFileStore_save, File
<1>2. CASE create_fails \/ remove_temp \/ remove_fails
    BY <1>2, error_Inv DEF create_fails, remove_temp, remove_fails, disk, context
<1>3. CASE crash
    <2>1. UNCHANGED <<canonical, stable, temps>> /\ dies
        BY <1>3 DEF crash, disk
    <2> QED BY <2>1, dies_Inv DEF StoreInv, Flushed, Temps, data
<1>4. CASE UNCHANGED store_vars
    BY <1>4 DEF StoreInv, Flushed, Stable, Temps, Phases, Jobs, StoreRecords, Prepared, Published, Loading,
                StoredOrLost, expected, mine, named, data, store_vars, store_history
<1> QED BY <1>1, <1>2, <1>3, <1>4, create_Inv, write_Inv, sync_Inv, failure_Inv, publish_Inv, lose_Inv,
           save_ok_Inv, flush_Inv, power_failure_Inv, service_Inv, bootstrap_Inv DEF StoreNext

\* The inductive invariant holds in every state of the stores.
THEOREM StoreInvariance == StoreSpec => []StoreInv
<1>1. StoreInit => StoreInv
    BY DEF StoreInit, StoreInv, Flushed, Stable, Temps, Phases, Jobs, NoJob, StoreRecords, Prepared, Published,
           Loading, StoredOrLost, expected, data, File
<1>2. StoreInv /\ [StoreNext]_store_vars => StoreInv'
    BY StoreStep
<1> QED BY <1>1, <1>2, PTL DEF StoreSpec

\* A file holds what its last save that reported success put there, or what the disk
\* had of it when the power failed, and a save that reported an error changed nothing,
\* whatever failed or crashed.
THEOREM Reported ==
    ASSUME ~ReplaceMayLose
    PROVE  StoreSpec => []ReportedIsStored
<1>1. StoreInv => ReportedIsStored
    BY DEF StoreInv, StoredOrLost, ReportedIsStored
<1> QED BY <1>1, StoreInvariance, PTL

\* The service never runs on anything but the last saved contents of all three files,
\* or what a power failure went back to, also when ReplaceFileW lost one of them.
THEOREM StartFromSaved == StoreSpec => StartsFromSaved
<1>1. StoreInv /\ [StoreNext]_store_vars =>
         [phase # "running" /\ phase' = "running" => \A f \in File : expected(f, loaded'[f])]_store_vars
    <2> SUFFICES ASSUME StoreInv, StoreNext, phase # "running", phase' = "running"
                 PROVE  \A f \in File : expected(f, loaded'[f])
        OBVIOUS
    <2>1. PICK f \in File : bootstrap_service(f)
        BY DEF StoreNext, StateFileStore_save, ConfigFileStore_save, CredentialsFileStore_save, save,
               create_unique_temp_file, create_fails, write_all, sync_all, write_or_sync_fails,
               atomic_publish_file, publish_fails, replace_loses_target, remove_temp, remove_fails,
               save_ok, system_flushes, crash, power_failure, service_stops, bootstrap_persistent_root,
               bootstrap_root_fails, dies, save_goto, context
    <2> QED BY <2>1, bootstrap_Inv
<1> QED BY <1>1, StoreInvariance, PTL DEF StoreSpec, StartsFromSaved

\* The three stores implement AtomicFiles: the publication replaces one of the
\* contents, the first one on the disk too, the system's flush settles one, a power
\* failure takes all of them back to the disk's, and every other step leaves both alone.
THEOREM Refinement ==
    ASSUME ~ReplaceMayLose
    PROVE  StoreSpec => StoresAreAtomic
<1> DEFINE content == [f \in File |-> data(f)]
<1>1. StoreInit => Atomic!Init
    BY DEF StoreInit, Atomic!Init, data
<1>2. StoreInv /\ [StoreNext]_store_vars => [Atomic!Next]_<<content, stable>>
    <2> SUFFICES ASSUME StoreInv, [StoreNext]_store_vars
                 PROVE  Atomic!Next \/ (content' = content /\ stable' = stable)
        OBVIOUS
    <2>1. CASE atomic_publish_file
        <3>1. /\ canonical' = [canonical EXCEPT ![job.file] = [data |-> job.value, synced |-> TRUE]]
              /\ stable' = IF data(job.file) = NoFile THEN [stable EXCEPT ![job.file] = job.value] ELSE stable
              /\ job.file \in File /\ job.value \in Value
            BY <2>1, PublishFacts
        <3>2. content' = [content EXCEPT ![job.file] = job.value] /\ content[job.file] = data(job.file)
            BY <3>1 DEF StoreInv, Flushed, data
        <3> QED BY <3>1, <3>2 DEF Atomic!Next, Atomic!Replace
    <2>2. CASE power_failure
        <3>1. content' = stable /\ stable' = stable
            BY <2>2 DEF StoreInv, Stable, power_failure, data
        <3> QED BY <3>1 DEF Atomic!Next, Atomic!PowerFailure
    <2>3. ASSUME NEW f \in File, system_flushes(f)
          PROVE  Atomic!Next
        <3>1. content' = content /\ stable' = [stable EXCEPT ![f] = content[f]]
            BY <2>3, flush_Inv DEF data
        <3> QED BY <3>1 DEF Atomic!Next, Atomic!Settle
    <2>4. CASE ~atomic_publish_file /\ ~power_failure /\ ~\E f \in File : system_flushes(f)
        <3>1. UNCHANGED <<canonical, stable>>
            BY <2>4 DEF StoreNext, store_vars, StateFileStore_save, ConfigFileStore_save, CredentialsFileStore_save,
                save, create_unique_temp_file, create_fails, write_all, sync_all, write_or_sync_fails,
                publish_fails, replace_loses_target, remove_temp, remove_fails, save_ok, crash,
                service_stops, bootstrap_persistent_root, bootstrap_root_fails, bootstrap_service, disk
        <3> QED BY <3>1 DEF data
    <2> QED BY <2>1, <2>2, <2>3, <2>4
<1> QED BY <1>1, <1>2, StoreInvariance, PTL DEF StoreSpec, StoresAreAtomic, Atomic!Spec

\* Files are replaced whole, and exactly by the saves that reported success.
THEOREM KeptWord ==
    ASSUME ~ReplaceMayLose
    PROVE  StoreSpec => StoresKeepTheirWord
BY Reported, Refinement, PTL DEF StoresKeepTheirWord

(* The temporary files: their names differ, the save at work has one, and   *)
(* there are no more than crashes and failed removals account for.         *)
AtWork == {"write", "sync", "publish", "cleanup"}
Named == \A t, u \in temps : t.file = u.file /\ t.name = u.name => t = u
Own == save_pc \in AtWork => \E t \in temps : mine(t)
Idle == /\ save_pc = "idle" => job.file \notin File
        /\ tries \in 0..MaxTries
Counted == IsFiniteSet(temps) /\ leaked \in Nat /\ NoTempLeak
TempInv == Named /\ Own /\ Idle /\ Counted

\* What is done to each file of a finite set leaves no more of them.
LEMMA EachDone ==
    ASSUME NEW S, IsFiniteSet(S), NEW f, f = [t \in S |-> f[t]], NEW T, T = {f[t] : t \in S}
    PROVE  IsFiniteSet(T) /\ Cardinality(T) <= Cardinality(S) /\ Cardinality(S) \in Nat /\ Cardinality(T) \in Nat
<1>1. f \in Surjection(S, T)
    BY DEF Surjection
<1> QED BY <1>1, FS_Surjection, FS_CardinalityType

\* The counting, where a step puts the files f[t] in the place of the files t.
LEMMA EachCounted ==
    ASSUME TempInv, NEW f, f = [t \in temps |-> f[t]], temps' = {f[t] : t \in temps},
           \A t \in temps : f[t].file = t.file /\ f[t].name = t.name
    PROVE  Named' /\ IsFiniteSet(temps') /\ Cardinality(temps) \in Nat /\ Cardinality(temps') \in Nat
           /\ Cardinality(temps') <= Cardinality(temps)
<1>1. Named'
    <2>1. ASSUME NEW t \in temps', NEW u \in temps', t.file = u.file, t.name = u.name
          PROVE  t = u
        <3>1. PICK v \in temps, w \in temps : t = f[v] /\ u = f[w]
            OBVIOUS
        <3> QED BY <2>1, <3>1 DEF TempInv, Named
    <2> QED BY <2>1 DEF Named
<1> QED BY <1>1, EachDone DEF TempInv, Counted

\* save() touches no temporary file.
LEMMA save_Temps ==
    ASSUME StoreInv, TempInv, NEW f \in File, NEW v \in Value \cup Rejected, save(f, v)
    PROVE  TempInv'
<1>1. UNCHANGED <<temps, leaked>> /\ save_pc = "idle" /\ save_pc' \in {"idle", "create"}
      /\ (save_pc' = "idle" => UNCHANGED <<job, tries>>) /\ (save_pc' # "idle" => tries' = 0)
    BY DEF save, disk
<1>2. Named' /\ Own' /\ Counted'
    BY <1>1 DEF TempInv, Named, Own, AtWork, Counted, NoTempLeak
<1>3. Idle'
    BY <1>1, StoreBounds DEF TempInv, Idle
<1> QED BY <1>2, <1>3 DEF TempInv

\* A step that returns an error with what is left counted.
LEMMA error_Temps ==
    ASSUME TempInv, return_error, temps' \subseteq temps, leaked' \in Nat,
           Cardinality(temps') <= leaked'
    PROVE  TempInv'
<1>1. save_pc' = "idle" /\ job' = NoJob /\ tries' = 0
    BY DEF return_error
<1>2. IsFiniteSet(temps')
    BY FS_Subset DEF TempInv, Counted
<1>3. Named' /\ Own' /\ Counted'
    BY <1>1, <1>2 DEF TempInv, Named, Own, AtWork, Counted, NoTempLeak
<1>4. Idle'
    BY <1>1, StoreBounds DEF Idle, NoJob, File
<1> QED BY <1>3, <1>4 DEF TempInv

\* create_unique_temp_file makes at most one, under a new name.
LEMMA create_Temps ==
    ASSUME StoreInv, TempInv, NEW n \in Name, create_unique_temp_file(n)
    PROVE  TempInv'
<1>1. save_pc = "create" /\ UNCHANGED leaked /\ job.file \in File
    BY DEF StoreInv, Phases, create_unique_temp_file
<1>2. IsFiniteSet(temps) /\ leaked \in Nat /\ Cardinality(temps) \in Nat /\ Cardinality(temps) <= leaked
    BY <1>1, FS_CardinalityType DEF TempInv, Counted, NoTempLeak
<1>3. CASE \E t \in temps : named(t, job.file, n)
    <2>1. CASE return_error
        BY <1>1, <1>2, <1>3, <2>1, error_Temps DEF create_unique_temp_file
    <2>2. CASE ~return_error
        <3>1. UNCHANGED <<temps, leaked, save_pc, job>> /\ tries' = tries + 1 /\ tries + 1 < MaxTries
            BY <1>3, <2>2 DEF create_unique_temp_file
        <3>2. Named' /\ Own' /\ Counted'
            BY <3>1 DEF TempInv, Named, Own, mine, named, Counted, NoTempLeak
        <3>3. Idle'
            BY <1>1, <3>1, StoreBounds DEF TempInv, Idle
        <3> QED BY <3>2, <3>3 DEF TempInv
    <2> QED BY <2>1, <2>2
<1>4. CASE ~\E t \in temps : named(t, job.file, n)
    <2> DEFINE new == [file |-> job.file, name |-> n, data |-> Torn, synced |-> FALSE]
    <2>1. temps' = temps \cup {new} /\ job' = [job EXCEPT !.name = n] /\ save_pc' = "write" /\ UNCHANGED tries
        BY <1>4 DEF create_unique_temp_file
    <2>2. new.file = job.file /\ new.name = n /\ job'.file = job.file /\ job'.name = n
        BY <2>1 DEF StoreInv, Jobs
    <2> HIDE DEF new
    <2>3. Named'
        BY <1>4, <2>1, <2>2 DEF TempInv, Named, named
    <2>4. Own'
        BY <2>1, <2>2 DEF Own, mine, named
    <2>5. Idle'
        BY <2>1 DEF TempInv, Idle
    <2>6. IsFiniteSet(temps') /\ Cardinality(temps') \in Nat /\ Cardinality(temps') <= Cardinality(temps) + 1
        <3>1. IsFiniteSet(temps \cup {new})
              /\ Cardinality(temps \cup {new}) \in {Cardinality(temps), Cardinality(temps) + 1}
            BY <1>2, FS_AddElement
        <3> QED BY <1>2, <2>1, <3>1
    <2>7. Counted'
        BY <1>1, <1>2, <2>1, <2>6 DEF Counted, NoTempLeak
    <2> QED BY <2>3, <2>4, <2>5, <2>7 DEF TempInv
<1> QED BY <1>3, <1>4

\* write_all and sync_all change files, not their names or number.
LEMMA write_Temps ==
    ASSUME StoreInv, TempInv, write_all \/ sync_all
    PROVE  TempInv'
<1>1. /\ save_pc \in {"write", "sync"} /\ save_pc' \in AtWork /\ UNCHANGED <<job, tries, leaked>>
      /\ \/ temps' = {IF mine(t) THEN [t EXCEPT !.data = job.value] ELSE t : t \in temps}
         \/ temps' = {IF mine(t) THEN [t EXCEPT !.synced = TRUE] ELSE t : t \in temps}
    BY DEF write_all, sync_all, save_goto, after_write, AtWork
<1>2. PICK f : /\ f = [t \in temps |-> f[t]] /\ temps' = {f[t] : t \in temps}
               /\ \A t \in temps : f[t].file = t.file /\ f[t].name = t.name
    <2>1. \A t \in temps : t \in TempFile
        BY DEF StoreInv, Temps
    <2>2. CASE temps' = {IF mine(t) THEN [t EXCEPT !.data = job.value] ELSE t : t \in temps}
        <3> DEFINE g == [t \in temps |-> IF mine(t) THEN [t EXCEPT !.data = job.value] ELSE t]
        <3>1. \A t \in temps : g[t].file = t.file /\ g[t].name = t.name
            BY <2>1 DEF TempFile
        <3>2. g = [t \in temps |-> g[t]] /\ temps' = {g[t] : t \in temps}
            BY <2>2
        <3> QED BY <3>1, <3>2
    <2>3. CASE temps' = {IF mine(t) THEN [t EXCEPT !.synced = TRUE] ELSE t : t \in temps}
        <3> DEFINE g == [t \in temps |-> IF mine(t) THEN [t EXCEPT !.synced = TRUE] ELSE t]
        <3>1. \A t \in temps : g[t].file = t.file /\ g[t].name = t.name
            BY <2>1 DEF TempFile
        <3>2. g = [t \in temps |-> g[t]] /\ temps' = {g[t] : t \in temps}
            BY <2>3
        <3> QED BY <3>1, <3>2
    <2> QED BY <1>1, <2>2, <2>3
<1>3. Named' /\ IsFiniteSet(temps') /\ Cardinality(temps) \in Nat /\ Cardinality(temps') \in Nat
      /\ Cardinality(temps') <= Cardinality(temps)
    BY <1>2, EachCounted
<1>4. Own'
    <2>1. PICK t \in temps : mine(t)
        BY <1>1 DEF TempInv, Own, AtWork
    <2>2. f[t] \in temps' /\ f[t].file = job'.file /\ f[t].name = job'.name
        BY <1>1, <1>2, <2>1 DEF mine, named
    <2> QED BY <2>2 DEF Own, mine, named
<1>5. Idle'
    BY <1>1 DEF TempInv, Idle, AtWork
<1>6. Counted'
    BY <1>1, <1>3 DEF TempInv, Counted, NoTempLeak, AtWork
<1> QED BY <1>3, <1>4, <1>5, <1>6 DEF TempInv


\* The publication takes the save's own file away.
LEMMA publish_Temps ==
    ASSUME StoreInv, TempInv, atomic_publish_file
    PROVE  TempInv'
<1>1. PICK t \in temps : temps' = temps \ {t}
    BY DEF atomic_publish_file
<1>2. save_pc = "publish" /\ save_pc' = "ok" /\ UNCHANGED <<job, tries, leaked>>
    BY DEF atomic_publish_file, save_goto
<1>3. IsFiniteSet(temps) /\ leaked \in Nat /\ Cardinality(temps) \in Nat /\ Cardinality(temps) <= leaked + 1
    BY <1>2, FS_CardinalityType DEF TempInv, Counted, NoTempLeak
<1>4. IsFiniteSet(temps') /\ Cardinality(temps') = Cardinality(temps) - 1
    BY <1>1, <1>3, FS_RemoveElement
<1>5. Named' /\ Own' /\ Idle' /\ Counted'
    BY <1>1, <1>2, <1>3, <1>4 DEF TempInv, Named, Own, AtWork, Idle, Counted, NoTempLeak
<1> QED BY <1>5 DEF TempInv

\* A failed write, flush or publication goes to the removal.
LEMMA failure_Temps ==
    ASSUME TempInv, write_or_sync_fails \/ publish_fails \/ replace_loses_target
    PROVE  TempInv'
<1>1. /\ save_pc \in AtWork /\ save_pc' = "cleanup" /\ UNCHANGED <<temps, job, tries, leaked>>
    BY DEF write_or_sync_fails, publish_fails, replace_loses_target, save_goto, after_failed_write,
           after_failed_publish, disk, AtWork
<1> QED BY <1>1 DEF TempInv, Named, Own, AtWork, mine, named, Idle, Counted, NoTempLeak

\* The removal takes it away, or is counted as failed.
LEMMA remove_Temps ==
    ASSUME TempInv, remove_temp \/ remove_fails
    PROVE  TempInv'
<1>1. save_pc = "cleanup" /\ return_error
    BY DEF remove_temp, remove_fails
<1>2. PICK t \in temps : mine(t)
    BY <1>1 DEF TempInv, Own, AtWork
<1>3. IsFiniteSet(temps) /\ leaked \in Nat /\ Cardinality(temps) \in Nat /\ Cardinality(temps) <= leaked + 1
    BY <1>1, FS_CardinalityType DEF TempInv, Counted, NoTempLeak
<1>4. CASE remove_temp
    <2>1. temps' \in SUBSET (temps \ {t}) /\ UNCHANGED leaked
        BY <1>2, <1>4 DEF remove_temp
    <2>2. IsFiniteSet(temps \ {t}) /\ Cardinality(temps \ {t}) = Cardinality(temps) - 1
        BY <1>3, FS_RemoveElement
    <2>3. Cardinality(temps') <= Cardinality(temps) - 1 /\ Cardinality(temps') \in Nat
        BY <2>1, <2>2, FS_Subset, FS_CardinalityType
    <2> QED BY <1>1, <1>3, <2>1, <2>3, error_Temps
<1>5. CASE remove_fails
    <2>1. UNCHANGED temps /\ leaked' = leaked + 1
        BY <1>5 DEF remove_fails, disk
    <2> QED BY <1>1, <1>3, <2>1, error_Temps
<1> QED BY <1>4, <1>5

\* When the process dies, with what it leaves counted.
LEMMA dies_Temps ==
    ASSUME dies, Named', IsFiniteSet(temps'), leaked' \in Nat, Cardinality(temps') <= leaked'
    PROVE  TempInv'
<1>1. save_pc' = "idle" /\ job' = NoJob /\ tries' = 0
    BY DEF dies
<1>2. Own' /\ Counted'
    BY <1>1 DEF Own, AtWork, Counted, NoTempLeak
<1>3. Idle'
    BY <1>1, StoreBounds DEF Idle, NoJob, File
<1> QED BY <1>2, <1>3 DEF TempInv

\* A crash of the process leaves the temporary file of its save, which is counted.
LEMMA crash_Temps ==
    ASSUME StoreInv, TempInv, crash
    PROVE  TempInv'
<1> DEFINE own == {t \in temps : mine(t)}
<1>1. UNCHANGED temps /\ dies /\ leaked' = leaked + Cardinality(own)
    BY DEF crash, disk
<1>2. IsFiniteSet(temps) /\ leaked \in Nat /\ Cardinality(temps) \in Nat
      /\ Cardinality(temps) <= leaked + IF save_pc \in AtWork THEN 1 ELSE 0
    BY FS_CardinalityType DEF TempInv, Counted, NoTempLeak, AtWork
<1>3. IsFiniteSet(own) /\ Cardinality(own) \in Nat
    <2>1. own \in SUBSET temps
        OBVIOUS
    <2> QED BY <1>2, <2>1, FS_Subset, FS_CardinalityType
<1>4. save_pc \in AtWork => Cardinality(own) > 0
    <2>1. save_pc \in AtWork => own # {}
        BY DEF TempInv, Own
    <2>2. Cardinality(own) = 0 <=> own = {}
        BY <1>3, FS_EmptySet
    <2> QED BY <1>3, <2>1, <2>2
<1> HIDE DEF own
<1>5. leaked' \in Nat /\ Cardinality(temps') <= leaked'
    BY <1>1, <1>2, <1>3, <1>4
<1>6. Named' /\ IsFiniteSet(temps')
    BY <1>1, <1>2 DEF TempInv, Named
<1> QED BY <1>1, <1>5, <1>6, dies_Temps

\* Names differ among files of which some have one name and the others have not.
LEMMA TwoNamings ==
    ASSUME NEW A, \A t, u \in A : t.file = u.file /\ t.name = u.name => t = u,
           NEW n, \A t \in A : t.name # n,
           NEW B, \A t \in B : t.name = n, \A t, u \in B : t.file = u.file => t = u
    PROVE  \A t, u \in A \cup B : t.file = u.file /\ t.name = u.name => t = u
OBVIOUS

\* The names differ after a power failure, and what is there is counted.
LEMMA power_failure_Temps ==
    ASSUME StoreInv, TempInv, power_failure
    PROVE  TempInv'
<1>1. PICK left \in SUBSET temps, n \in Name :
         /\ \A t \in left : t.name # n
         /\ temps' = {[t EXCEPT !.data = survives(t), !.synced = TRUE] : t \in left} \cup rewound(n)
    BY DEF power_failure
<1> DEFINE as == [t \in left |-> [t EXCEPT !.data = survives(t), !.synced = TRUE]]
           kept == {as[t] : t \in left}
           undoing == {f \in File : unsettled(f) /\ data(f) # NoFile}
           back == [f \in undoing |-> [file |-> f, name |-> n, data |-> survives(canonical[f]), synced |-> TRUE]]
<1>2. temps' = kept \cup {back[f] : f \in undoing}
    BY <1>1 DEF rewound
<1>3. \A t \in left : as[t].file = t.file /\ as[t].name = t.name
    BY DEF StoreInv, Temps, TempFile
<1>4. \A f \in undoing : back[f].file = f /\ back[f].name = n
    OBVIOUS
<1>5. as = [t \in left |-> as[t]] /\ back = [f \in undoing |-> back[f]]
    OBVIOUS
<1>6. IsFiniteSet(left)
    BY FS_Subset DEF TempInv, Counted
<1>7. IsFiniteSet(undoing)
    <2>1. IsFiniteSet(File)
        <3>1. IsFiniteSet({"config"}) /\ IsFiniteSet({"credentials"}) /\ IsFiniteSet({"state"})
            BY FS_Singleton
        <3>2. IsFiniteSet({"config"} \cup {"credentials"})
            BY <3>1, FS_Union
        <3>3. IsFiniteSet(({"config"} \cup {"credentials"}) \cup {"state"})
            BY <3>1, <3>2, FS_Union
        <3>4. File = ({"config"} \cup {"credentials"}) \cup {"state"}
            BY DEF File
        <3> QED BY <3>3, <3>4
    <2>2. undoing \in SUBSET File
        OBVIOUS
    <2> QED BY <2>1, <2>2, FS_Subset
<1> HIDE DEF as, undoing, back
<1>8. \A t, u \in kept : t.file = u.file /\ t.name = u.name => t = u
    <2>1. ASSUME NEW t \in kept, NEW u \in kept, t.file = u.file, t.name = u.name
          PROVE  t = u
        <3>1. PICK v \in left, w \in left : t = as[v] /\ u = as[w]
            OBVIOUS
        <3>2. v \in temps /\ w \in temps /\ v.file = w.file /\ v.name = w.name
            BY <1>3, <2>1, <3>1
        <3> QED BY <3>1, <3>2 DEF TempInv, Named
    <2> QED BY <2>1
<1>9. Named'
    <2>1. \A t \in kept : t.name # n
        BY <1>1, <1>3
    <2>2. /\ \A t \in {back[f] : f \in undoing} : t.name = n
          /\ \A t, u \in {back[f] : f \in undoing} : t.file = u.file => t = u
        BY <1>4
    <2> DEFINE rest == {back[f] : f \in undoing}
    <2>3. temps' = kept \cup rest
        BY <1>2
    <2> HIDE DEF kept, rest
    <2>4. \A t, u \in kept \cup rest : t.file = u.file /\ t.name = u.name => t = u
        BY <1>8, <2>1, <2>2, TwoNamings DEF rest
    <2> QED BY <2>3, <2>4 DEF Named
<1>10. IsFiniteSet(temps')
    <2>1. IsFiniteSet(kept)
        BY <1>5, <1>6, EachDone
    <2>2. IsFiniteSet({back[f] : f \in undoing})
        BY <1>5, <1>7, EachDone
    <2> QED BY <1>2, <2>1, <2>2, FS_Union
<1>11. leaked' \in Nat /\ Cardinality(temps') <= leaked'
    <2>1. Cardinality(temps') \in Nat /\ leaked' = Cardinality(temps')
        BY <1>10, FS_CardinalityType DEF power_failure
    <2> QED BY <2>1
<1> QED BY <1>9, <1>10, <1>11, dies_Temps DEF power_failure

\* Steps that touch no temporary file.
LEMMA quiet_Temps ==
    ASSUME StoreInv, TempInv,
           \/ save_ok \/ service_stops \/ bootstrap_persistent_root \/ bootstrap_root_fails
           \/ \E f \in File : bootstrap_service(f) \/ system_flushes(f)
           \/ UNCHANGED store_vars
    PROVE  TempInv'
<1>1. CASE save_ok
    <2>1. save_pc = "ok" /\ save_pc' = "idle" /\ job' = NoJob /\ tries' = 0 /\ UNCHANGED <<temps, leaked>>
        BY <1>1 DEF save_ok, disk
    <2>2. Named' /\ Own' /\ Counted'
        BY <2>1 DEF TempInv, Named, Own, AtWork, Counted, NoTempLeak
    <2>3. Idle'
        BY <2>1, StoreBounds DEF Idle, NoJob, File
    <2> QED BY <2>2, <2>3 DEF TempInv
<1>2. CASE ~save_ok
    <2>1. UNCHANGED <<temps, save_pc, job, tries, leaked>>
        BY <1>2 DEF service_stops, bootstrap_persistent_root, bootstrap_root_fails, bootstrap_service,
                    system_flushes, disk, store_vars
    <2> QED BY <2>1 DEF TempInv, Named, Own, mine, named, Idle, Counted, NoTempLeak
<1> QED BY <1>1, <1>2

\* The temporary files are counted in every state of the stores.
THEOREM TempsCounted == StoreSpec => []TempInv
<1>1. ASSUME StoreInit PROVE TempInv
    <2>1. temps = {} /\ save_pc = "idle" /\ job = NoJob /\ tries = 0 /\ leaked = 0
        BY <1>1 DEF StoreInit
    <2>2. Idle
        BY <2>1, StoreBounds DEF Idle, NoJob, File
    <2>3. Named /\ Own /\ Counted
        BY <2>1, FS_EmptySet DEF Named, Own, AtWork, Counted, NoTempLeak
    <2> QED BY <2>2, <2>3 DEF TempInv
<1>2. ASSUME StoreInv, TempInv, [StoreNext]_store_vars PROVE TempInv'
    <2>1. ASSUME NEW v \in Value \cup Rejected,
                 StateFileStore_save(v) \/ ConfigFileStore_save(v) \/ CredentialsFileStore_save(v)
          PROVE  TempInv'
        BY <1>2, <2>1, save_Temps DEF StateFileStore_save, ConfigFileStore_save, CredentialsFileStore_save, File
    <2>2. CASE create_fails
        <3>1. save_pc = "create" /\ return_error /\ UNCHANGED <<temps, leaked>>
            BY <2>2 DEF create_fails, disk
        <3>2. leaked \in Nat /\ Cardinality(temps) <= leaked
            BY <1>2, <3>1, FS_CardinalityType DEF TempInv, Counted, NoTempLeak
        <3> QED BY <1>2, <3>1, <3>2, error_Temps
    <2> QED BY <1>2, <2>1, <2>2, create_Temps, write_Temps, publish_Temps, failure_Temps, remove_Temps,
               crash_Temps, power_failure_Temps, quiet_Temps DEF StoreNext
<1> QED BY <1>1, <1>2, StoreInvariance, PTL DEF StoreSpec

\* Whatever Windows loses and however often the process dies, no temporary file
\* is left but by a death or a failed removal, and a start takes all of what was
\* saved, or of what a power failure went back to, or fails.
THEOREM Recovers == StoreSpec => StoreRecovers
<1>1. StoreInv /\ TempInv => StoreTypeOK /\ NoTempLeak
    <2> SUFFICES ASSUME StoreInv, TempInv PROVE StoreTypeOK
        BY DEF TempInv, Counted
    <2>1. canonical \in [File -> [data : Value \cup {NoFile}, synced : BOOLEAN]]
        BY DEF StoreInv, Flushed
    <2>2. \A t \in temps : t.file \in File /\ t.name \in Name /\ t.data \in Value \cup {Torn}
                           /\ t.synced \in BOOLEAN
        BY DEF StoreInv, Temps, TempFile
    <2>3. job.file \in File <=> save_pc # "idle"
        BY DEF StoreInv, Phases, TempInv, Idle
    <2>4. stable \in [File -> Value \cup {NoFile}]
        BY DEF StoreInv, Stable
    <2> QED BY <2>1, <2>2, <2>3, <2>4 DEF StoreTypeOK, named, StoreInv, Phases, StoreRecords, TempInv, Named, Idle, Counted
<1> QED BY <1>1, StoreInvariance, TempsCounted, StartFromSaved, PTL DEF StoreRecovers

-----------------------------------------------------------------------------
(* InternetGate *)
InTransaction == {"validate", "add_provider", "add_sublayer", "delete", "add", "commit"}
Call == [op : {"current_state", "block", "unblock"}, sid : Sid]
IsCanonical(o) == o.present /\ o.ours /\ o.exact
Accepted(o) == o.present => o.ours /\ o.exact

(* What a mutation never touches. *)
Keeps(b, c) ==
    /\ \A k \in Key : b.filter[k].present /\ ~b.filter[k].ours => c.filter[k] = b.filter[k]
    /\ b.provider.present => c.provider = b.provider
    /\ b.sublayer.present => c.sublayer = b.sublayer
    /\ c.extra = b.extra

GateTypes ==
    /\ GateTypeOK /\ request \in Call \cup {NoCall}
    /\ gate_pc # "idle" => request \in Call
    /\ gate_pc \in {"enum", "get"} => request.op = "current_state"
    /\ gate_pc \in InTransaction \cup {"begin"} => request.op \in {"block", "unblock"}
    /\ gate_pc \in {"add_provider", "add_sublayer", "add"} => request.op = "block"

(* What the call has made of its view of the objects so far. *)
Mutation ==
    gate_pc \in InTransaction =>
        /\ in_tx /\ Keeps(bfe, session_view)
        /\ gate_pc \in {"add_provider", "add_sublayer", "delete", "add"} => ~session_view.extra
        /\ gate_pc \in {"add_provider", "add_sublayer", "delete", "add"} /\ request.op = "block" =>
              /\ Accepted(session_view.provider) /\ Accepted(session_view.sublayer)
              /\ \A k \in Key : session_view.filter[k].present => session_view.filter[k].ours
        /\ gate_pc \in {"add_sublayer", "delete", "add"} /\ request.op = "block" => session_view.provider.present
        /\ gate_pc \in {"delete", "add"} /\ request.op = "block" => session_view.sublayer.present
        /\ gate_pc = "add" =>
              \A k \in Key : session_view.filter[k].present =>
                                 session_view.filter[k] = canonical_filter_spec(request.sid)
        /\ gate_pc = "commit" /\ request.op = "block" => Blocks(session_view, request.sid)
        /\ gate_pc = "commit" /\ request.op = "unblock" => palkas(session_view) = {}

GateInv == GateTypes /\ Mutation /\ OkMeansDone

\* The classes of an existing object, as predicates.
LEMMA Classes ==
    ASSUME NEW o \in Infra
    PROVE  /\ classify_existing(o) = "Canonical" <=> IsCanonical(o)
           /\ classify_existing(o) \in {"Absent", "Canonical"} <=> Accepted(o)
           /\ classify_existing(o) = "Absent" <=> ~o.present
<1>1. CASE ~o.present
    BY <1>1 DEF classify_existing, IsCanonical, Accepted
<1>2. CASE o.present
    <2>1. o # NoObject
        BY <1>2 DEF NoObject
    <2>2. o \in [present : {TRUE}, ours : BOOLEAN, exact : BOOLEAN]
        BY <2>1 DEF Infra
    <2>3. o.ours \in BOOLEAN /\ o.exact \in BOOLEAN
        BY <2>2
    <2> QED BY <1>2, <2>3 DEF classify_existing, IsCanonical, Accepted
<1> QED BY <1>1, <1>2

\* The canonical objects are objects.
LEMMA CanonicalTypes ==
    /\ Clean \in Bfe /\ canonical_infra \in Infra /\ IsCanonical(canonical_infra)
    /\ NoObject \in Filter /\ ~NoObject.present
    /\ \A s \in Sid : /\ canonical_filter_spec(s) \in Filter
                      /\ canonical_filter_spec(s).present /\ canonical_filter_spec(s).ours
<1>1. NoObject \in Filter /\ NoObject \in Infra /\ ~NoObject.present
    BY DEF NoObject, Filter, Infra
<1>2. canonical_infra \in Infra /\ IsCanonical(canonical_infra)
    BY DEF canonical_infra, Infra, IsCanonical
<1>3. \A s \in Sid : /\ canonical_filter_spec(s) \in Filter
                     /\ canonical_filter_spec(s).present /\ canonical_filter_spec(s).ours
    BY DEF canonical_filter_spec, Filter
<1>4. Clean \in Bfe
    BY <1>1 DEF Clean, Bfe
<1> QED BY <1>1, <1>2, <1>3, <1>4

\* A return that is not Ok promises nothing, whatever became of the transaction.
LEMMA ReturnInv ==
    ASSUME GateInv, NEW a, gate_return(a), a # "Ok",
           UNCHANGED <<bfe, request, untouched, somebody>>,
           \/ in_tx' = FALSE /\ session_view' = Clean
           \/ UNCHANGED <<in_tx, session_view>>
    PROVE  GateInv'
<1>1. GateTypes'
    BY CanonicalTypes DEF GateInv, GateTypes, GateTypeOK, gate_return, InTransaction
<1>2. Mutation'
    BY DEF gate_return, Mutation, InTransaction
<1>3. OkMeansDone'
    BY DEF gate_return, OkMeansDone
<1> QED BY <1>1, <1>2, <1>3 DEF GateInv

\* An error inside the transaction.
LEMMA ErrorInv ==
    ASSUME GateInv, handle_error, UNCHANGED <<bfe, request, untouched, somebody>>
    PROVE  GateInv'
BY ReturnInv DEF handle_error

\* A call begins.
LEMMA BeginCallInv ==
    ASSUME GateInv, NEW op \in {"current_state", "block", "unblock"}, NEW s \in Sid \cup {BadSid},
           begin_call(op, s)
    PROVE  GateInv'
<1>1. CASE s = BadSid
    <2>1. /\ gate_pc = "idle" /\ gate_pc' = "idle" /\ gate_answer' = "InvalidSid" /\ untouched' = TRUE
          /\ UNCHANGED <<bfe, in_tx, session_view, somebody, request>>
        BY <1>1 DEF begin_call
    <2> QED BY <2>1 DEF GateInv, GateTypes, GateTypeOK, Mutation, OkMeansDone, InTransaction
<1>2. CASE s # BadSid
    <2>1. /\ request' = [op |-> op, sid |-> s] /\ request' \in Call /\ gate_answer' = "none"
          /\ gate_pc' = IF op = "current_state" THEN "enum" ELSE "begin"
          /\ untouched' = TRUE /\ UNCHANGED <<bfe, in_tx, session_view, somebody>>
        BY <1>2 DEF begin_call, Call
    <2>2. request'.op = op
        BY <2>1
    <2>3. GateTypes'
        BY <2>1, <2>2 DEF GateInv, GateTypes, GateTypeOK, InTransaction
    <2> QED BY <2>1, <2>3 DEF GateInv, Mutation, OkMeansDone, InTransaction
<1> QED BY <1>1, <1>2

\* The transaction begins with the committed objects.
LEMMA TransactionBeginInv ==
    ASSUME GateInv, transaction_begin
    PROVE  GateInv'
<1>1. CASE gate_return("TransactionBeginFailure") /\ UNCHANGED <<in_tx, session_view>>
    BY <1>1, ReturnInv DEF transaction_begin
<1>2. CASE /\ ~in_tx
           /\ in_tx' = TRUE /\ session_view' = bfe /\ gate_pc' = "validate" /\ UNCHANGED gate_answer
    <2>1. /\ gate_pc = "begin" /\ UNCHANGED <<bfe, request, untouched, somebody>>
        BY DEF transaction_begin
    <2>2. GateTypes'
        BY <1>2, <2>1 DEF GateInv, GateTypes, GateTypeOK, InTransaction
    <2>3. Mutation'
        BY <1>2, <2>1 DEF Mutation, Keeps, InTransaction
    <2> QED BY <1>2, <2>2, <2>3 DEF GateInv, OkMeansDone
<1> QED BY <1>1, <1>2 DEF transaction_begin

\* block_internet's validation: what it accepts can be completed to a block.
LEMMA BlockValidatesInv ==
    ASSUME GateInv, block_validates
    PROVE  GateInv'
<1>1. CASE handle_error
    BY <1>1, ErrorInv DEF block_validates
<1>2. CASE /\ block_allowed
           /\ gate_pc' = IF can_fast_path THEN "commit" ELSE "add_provider"
           /\ UNCHANGED <<in_tx, session_view, gate_answer>>
    <2>1. /\ gate_pc = "validate" /\ request.op = "block" /\ in_tx /\ seen_objects = session_view
          /\ UNCHANGED <<bfe, request, untouched, somebody>> /\ session_view \in Bfe
        BY DEF block_validates, GateInv, Mutation, InTransaction, GateTypes, GateTypeOK, seen_objects
    <2>2. GateTypes'
        BY <1>2, <2>1 DEF GateInv, GateTypes, GateTypeOK, InTransaction
    <2>3. session_view.provider \in Infra /\ session_view.sublayer \in Infra
        BY <2>1 DEF Bfe
    <2>4. /\ Accepted(session_view.provider) /\ Accepted(session_view.sublayer) /\ ~session_view.extra
          /\ \A k \in Key : session_view.filter[k].present => session_view.filter[k].ours
        BY <1>2, <2>1, <2>3, Classes DEF block_allowed, present
    <2>5. can_fast_path => Blocks(session_view, request.sid)
        BY <2>1 DEF can_fast_path
    <2>6. Mutation'
        <3>1. Keeps(bfe, session_view)'
            BY <1>2, <2>1 DEF GateInv, Mutation, InTransaction, Keeps
        <3>2. CASE can_fast_path
            BY <1>2, <2>1, <2>5, <3>1, <3>2 DEF Mutation, InTransaction
        <3>3. CASE ~can_fast_path
            BY <1>2, <2>1, <2>4, <3>1, <3>3 DEF Mutation, InTransaction
        <3> QED BY <3>2, <3>3
    <2> QED BY <1>2, <2>2, <2>6 DEF GateInv, OkMeansDone
<1> QED BY <1>1, <1>2 DEF block_validates

\* unblock_internet's validation.
LEMMA UnblockValidatesInv ==
    ASSUME GateInv, unblock_validates
    PROVE  GateInv'
<1>1. CASE handle_error
    BY <1>1, ErrorInv DEF unblock_validates
<1>2. CASE ~seen_objects.extra /\ gate_pc' = "delete" /\ UNCHANGED <<in_tx, session_view, gate_answer>>
    <2>1. /\ gate_pc = "validate" /\ request.op = "unblock" /\ in_tx /\ seen_objects = session_view
          /\ UNCHANGED <<bfe, request, untouched, somebody>>
        BY DEF unblock_validates, GateInv, Mutation, InTransaction, seen_objects
    <2>2. GateTypes'
        BY <1>2, <2>1 DEF GateInv, GateTypes, GateTypeOK, InTransaction
    <2>3. Mutation'
        BY <1>2, <2>1 DEF GateInv, Mutation, InTransaction, Keeps
    <2> QED BY <1>2, <2>2, <2>3 DEF GateInv, OkMeansDone
<1> QED BY <1>1, <1>2 DEF unblock_validates

\* A change of the view that keeps everything but one field.
LEMMA ViewTypes ==
    ASSUME NEW v \in Bfe
    PROVE  /\ \A o \in Infra : /\ [v EXCEPT !.provider = o] \in Bfe
                               /\ [v EXCEPT !.sublayer = o] \in Bfe
           /\ \A k \in Key, f \in Filter : [v EXCEPT !.filter[k] = f] \in Bfe
           /\ v.provider \in Infra /\ v.sublayer \in Infra /\ v.filter \in [Key -> Filter] /\ v.extra \in BOOLEAN
BY DEF Bfe

\* The provider is added unless it is there.
LEMMA AddProviderInv ==
    ASSUME GateInv, add_provider
    PROVE  GateInv'
<1>1. /\ gate_pc = "add_provider" /\ gate_pc' = "add_sublayer" /\ request.op = "block"
      /\ UNCHANGED <<bfe, in_tx, request, gate_answer, untouched, somebody>> /\ in_tx
      /\ session_view \in Bfe
    BY DEF add_provider, GateInv, GateTypes, GateTypeOK, Mutation, InTransaction
<1> DEFINE v == session_view'
<1>2. /\ v \in Bfe /\ IsCanonical(v.provider)
      /\ v.sublayer = session_view.sublayer /\ v.filter = session_view.filter /\ v.extra = session_view.extra
      /\ session_view.provider.present => v.provider = session_view.provider
    <2>1. CASE session_view.provider.present
        BY <1>1, <2>1 DEF add_provider, GateInv, Mutation, InTransaction, Accepted, IsCanonical
    <2>2. CASE ~session_view.provider.present
        <3>1. v = [session_view EXCEPT !.provider = canonical_infra]
            BY <2>2 DEF add_provider
        <3> QED BY <1>1, <2>2, <3>1, CanonicalTypes DEF Bfe
    <2> QED BY <2>1, <2>2
<1>3. GateTypes'
    BY <1>1, <1>2 DEF GateInv, GateTypes, GateTypeOK, InTransaction
<1>4. Keeps(bfe, session_view) => Keeps(bfe, v)
    BY <1>2 DEF Keeps
<1>5. Mutation'
    BY <1>1, <1>2, <1>4 DEF GateInv, Mutation, InTransaction, Accepted, IsCanonical, Keeps
<1> QED BY <1>1, <1>3, <1>5 DEF GateInv, OkMeansDone

\* The sublayer is added unless it is there.
LEMMA AddSublayerInv ==
    ASSUME GateInv, add_sublayer
    PROVE  GateInv'
<1>1. /\ gate_pc = "add_sublayer" /\ gate_pc' = "delete" /\ request.op = "block"
      /\ UNCHANGED <<bfe, in_tx, request, gate_answer, untouched, somebody>> /\ in_tx
      /\ session_view \in Bfe
    BY DEF add_sublayer, GateInv, GateTypes, GateTypeOK, Mutation, InTransaction
<1> DEFINE v == session_view'
<1>2. /\ v \in Bfe /\ IsCanonical(v.sublayer)
      /\ v.provider = session_view.provider /\ v.filter = session_view.filter /\ v.extra = session_view.extra
      /\ session_view.sublayer.present => v.sublayer = session_view.sublayer
    <2>1. CASE session_view.sublayer.present
        BY <1>1, <2>1 DEF add_sublayer, GateInv, Mutation, InTransaction, Accepted, IsCanonical
    <2>2. CASE ~session_view.sublayer.present
        <3>1. v = [session_view EXCEPT !.sublayer = canonical_infra]
            BY <2>2 DEF add_sublayer
        <3> QED BY <1>1, <2>2, <3>1, CanonicalTypes DEF Bfe
    <2> QED BY <2>1, <2>2
<1>3. GateTypes'
    BY <1>1, <1>2 DEF GateInv, GateTypes, GateTypeOK, InTransaction
<1>4. Keeps(bfe, session_view) => Keeps(bfe, v)
    BY <1>2 DEF Keeps
<1>5. Mutation'
    BY <1>1, <1>2, <1>4 DEF GateInv, Mutation, InTransaction, Accepted, IsCanonical, Keeps
<1> QED BY <1>1, <1>3, <1>5 DEF GateInv, OkMeansDone

\* One of PALKA's filters goes, or none is left.
LEMMA DeleteFilterInv ==
    ASSUME GateInv, delete_filter
    PROVE  GateInv'
<1>1. /\ gate_pc = "delete" /\ request.op \in {"block", "unblock"} /\ in_tx /\ session_view \in Bfe
      /\ UNCHANGED <<bfe, in_tx, request, gate_answer, untouched, somebody>>
      /\ Keeps(bfe, session_view) /\ ~session_view.extra
    BY DEF delete_filter, GateInv, GateTypes, GateTypeOK, Mutation, InTransaction
<1>2. CASE to_delete # {}
    <2>1. PICK k \in to_delete : session_view' = [session_view EXCEPT !.filter[k] = NoObject]
        BY <1>2 DEF delete_filter
    <2>2. gate_pc' = "delete"
        BY <1>1, <1>2 DEF delete_filter
    <2>3. k \in Key /\ session_view.filter[k].present /\ session_view.filter[k].ours
        BY <2>1 DEF to_delete, palkas, present
    <2>4. /\ session_view' \in Bfe
          /\ session_view'.provider = session_view.provider
          /\ session_view'.sublayer = session_view.sublayer /\ session_view'.extra = session_view.extra
          /\ session_view'.filter[k] = NoObject
          /\ \A j \in Key \ {k} : session_view'.filter[j] = session_view.filter[j]
        <3>1. NoObject \in Filter
            BY <1>1, CanonicalTypes
        <3>2. PICK f \in Filter : f = NoObject
            BY <3>1
        <3>3. session_view' = [session_view EXCEPT !.filter[k] = f]
            BY <2>1, <3>2
        <3>4. session_view' \in Bfe
            BY <1>1, <2>3, <3>3, ViewTypes
        <3>5. /\ session_view'.provider = session_view.provider
              /\ session_view'.sublayer = session_view.sublayer /\ session_view'.extra = session_view.extra
              /\ session_view'.filter = [session_view.filter EXCEPT ![k] = f]
            BY <1>1, <3>3 DEF Bfe
        <3>6. session_view.filter \in [Key -> Filter]
            BY <1>1, ViewTypes
        <3> QED BY <2>3, <3>2, <3>4, <3>5, <3>6
    <2>5. GateTypes'
        BY <1>1, <2>2, <2>4 DEF GateInv, GateTypes, GateTypeOK, InTransaction
    <2>6. Keeps(bfe, session_view)'
        <3>1. ~(bfe.filter[k].present /\ ~bfe.filter[k].ours)
            BY <1>1, <2>3 DEF Keeps
        <3> QED BY <1>1, <2>3, <2>4, <3>1 DEF Keeps
    <2>7. \A j \in Key : session_view'.filter[j].present =>
              session_view.filter[j].present /\ session_view'.filter[j] = session_view.filter[j]
        BY <2>3, <2>4, CanonicalTypes
    <2>8. Mutation'
        BY <1>1, <2>2, <2>4, <2>6, <2>7 DEF GateInv, Mutation, InTransaction
    <2> QED BY <1>1, <2>2, <2>5, <2>8 DEF GateInv, OkMeansDone
<1>3. CASE to_delete = {}
    <2>1. gate_pc' = (IF request.op = "block" THEN "add" ELSE "commit") /\ session_view' = session_view
        BY <1>3 DEF delete_filter
    <2>2. palkas(session_view) = {}
        BY <1>3 DEF to_delete
    <2>3. GateTypes'
        BY <1>1, <2>1 DEF GateInv, GateTypes, GateTypeOK, InTransaction
    <2>4. Keeps(bfe, session_view)'
        BY <1>1, <2>1 DEF Keeps
    <2>5. CASE request.op = "block"
        <3>1. \A k \in Key : ~session_view.filter[k].present
            BY <1>1, <2>2, <2>5 DEF GateInv, Mutation, InTransaction, palkas, present
        <3>2. Mutation'
            BY <1>1, <2>1, <2>4, <2>5, <3>1 DEF GateInv, Mutation, InTransaction
        <3> QED BY <1>1, <2>1, <2>3, <2>5, <3>2 DEF GateInv, OkMeansDone
    <2>6. CASE request.op = "unblock"
        <3>1. palkas(session_view)' = {}
            BY <2>1, <2>2 DEF palkas, present
        <3>2. Mutation'
            BY <1>1, <2>1, <2>4, <2>6, <3>1 DEF Mutation, InTransaction
        <3> QED BY <1>1, <2>1, <2>3, <2>6, <3>2 DEF GateInv, OkMeansDone
    <2> QED BY <1>1, <2>5, <2>6
<1> QED BY <1>2, <1>3

\* One canonical filter more, or the set is complete.
LEMMA AddFilterInv ==
    ASSUME GateInv, add_filter
    PROVE  GateInv'
<1>1. /\ gate_pc = "add" /\ request.op = "block" /\ in_tx /\ session_view \in Bfe /\ request.sid \in Sid
      /\ UNCHANGED <<bfe, in_tx, request, gate_answer, untouched, somebody>>
      /\ Keeps(bfe, session_view) /\ ~session_view.extra
      /\ \A k \in Key : session_view.filter[k].present =>
                            session_view.filter[k] = canonical_filter_spec(request.sid)
    BY DEF add_filter, GateInv, GateTypes, GateTypeOK, Mutation, InTransaction, Call
<1>2. CASE present(session_view) # Key
    <2>1. PICK k \in Key \ present(session_view) :
              session_view' = [session_view EXCEPT !.filter[k] = canonical_filter_spec(request.sid)]
        BY <1>2 DEF add_filter, add_next
    <2>2. gate_pc' = "add"
        BY <1>1, <1>2 DEF add_filter, add_next
    <2>3. k \in Key /\ ~session_view.filter[k].present
        BY <2>1 DEF present
    <2>4. /\ session_view' \in Bfe
          /\ session_view'.provider = session_view.provider
          /\ session_view'.sublayer = session_view.sublayer /\ session_view'.extra = session_view.extra
          /\ session_view'.filter[k] = canonical_filter_spec(request.sid)
          /\ \A j \in Key \ {k} : session_view'.filter[j] = session_view.filter[j]
        <3>1. canonical_filter_spec(request.sid) \in Filter
            BY <1>1, CanonicalTypes
        <3>2. PICK f \in Filter : f = canonical_filter_spec(request.sid)
            BY <3>1
        <3>3. session_view' = [session_view EXCEPT !.filter[k] = f]
            BY <2>1, <3>2
        <3>4. session_view' \in Bfe
            BY <1>1, <2>3, <3>3, ViewTypes
        <3>5. /\ session_view'.provider = session_view.provider
              /\ session_view'.sublayer = session_view.sublayer /\ session_view'.extra = session_view.extra
              /\ session_view'.filter = [session_view.filter EXCEPT ![k] = f]
            BY <1>1, <3>3 DEF Bfe
        <3>6. session_view.filter \in [Key -> Filter]
            BY <1>1, ViewTypes
        <3> QED BY <2>3, <3>2, <3>4, <3>5, <3>6
    <2>5. GateTypes'
        BY <1>1, <2>2, <2>4 DEF GateInv, GateTypes, GateTypeOK, InTransaction
    <2>6. Keeps(bfe, session_view)'
        <3>1. ~(bfe.filter[k].present /\ ~bfe.filter[k].ours)
            BY <1>1, <2>3 DEF Keeps
        <3> QED BY <1>1, <2>3, <2>4, <3>1 DEF Keeps
    <2>7. \A j \in Key : session_view'.filter[j].present =>
              session_view'.filter[j] = canonical_filter_spec(request.sid)
        BY <1>1, <2>3, <2>4
    <2>8. \A j \in Key : session_view'.filter[j].present => session_view'.filter[j].ours
        BY <1>1, <2>7, CanonicalTypes
    <2>9. Mutation'
        BY <1>1, <2>2, <2>4, <2>6, <2>7, <2>8 DEF GateInv, Mutation, InTransaction
    <2> QED BY <1>1, <2>2, <2>5, <2>9 DEF GateInv, OkMeansDone
<1>3. CASE present(session_view) = Key
    <2>1. gate_pc' = "commit" /\ session_view' = session_view
        BY <1>3 DEF add_filter, add_next
    <2>2. GateTypes'
        BY <1>1, <2>1 DEF GateInv, GateTypes, GateTypeOK, InTransaction
    <2>3. IsCanonical(session_view.provider) /\ IsCanonical(session_view.sublayer)
        BY <1>1 DEF GateInv, Mutation, InTransaction, Accepted, IsCanonical
    <2>4. Blocks(session_view, request.sid)
        <3>1. session_view.provider \in Infra /\ session_view.sublayer \in Infra
            BY <1>1, ViewTypes
        <3>2. \A k \in Key : session_view.filter[k] = canonical_filter_spec(request.sid)
            BY <1>1, <1>3 DEF present
        <3> QED BY <1>1, <2>3, <3>1, <3>2, Classes DEF Blocks, is_canonical_palka_filter
    <2>5. Blocks(session_view, request.sid)'
        BY <1>1, <2>1, <2>4 DEF Blocks
    <2>6. Keeps(bfe, session_view)'
        BY <1>1, <2>1 DEF Keeps
    <2>7. Mutation'
        BY <1>1, <2>1, <2>5, <2>6 DEF Mutation, InTransaction
    <2> QED BY <1>1, <2>1, <2>2, <2>7 DEF GateInv, OkMeansDone
<1> QED BY <1>2, <1>3

\* A commit replaces the committed objects by a whole block or by no block, and
\* keeps what is not PALKA's.
LEMMA CommitWhole ==
    ASSUME GateInv, commit
    PROVE  /\ request.op = "block" => Blocks(bfe', request.sid)
           /\ request.op = "unblock" => palkas(bfe') = {}
           /\ request.op \in {"block", "unblock"} /\ Keeps(bfe, bfe')
BY DEF GateInv, GateTypes, Mutation, InTransaction, commit, Keeps

LEMMA CommitInv ==
    ASSUME GateInv, commit
    PROVE  GateInv'
<1>1. GateTypes'
    BY CanonicalTypes DEF GateInv, GateTypes, GateTypeOK, commit, gate_return, InTransaction
<1>2. Mutation'
    BY DEF commit, gate_return, Mutation, InTransaction
<1>3. OkMeansDone'
    <2>1. request' = request
        BY DEF commit
    <2>2. /\ request.op = "block" => Blocks(bfe', request'.sid)
          /\ request.op # "block" => palkas(bfe') = {}
        BY <2>1, CommitWhole
    <2>3. Blocks(bfe', request'.sid) = Blocks(bfe, request.sid)' /\ palkas(bfe') = palkas(bfe)'
        BY DEF Blocks, palkas, present
    <2> QED BY <2>1, <2>2, <2>3 DEF OkMeansDone
<1> QED BY <1>1, <1>2, <1>3 DEF GateInv

\* current_state reads and answers, but never Ok.
LEMMA DecideAnswers ==
    ASSUME NEW prov, NEW sub
    PROVE  decide(prov, sub) \in {"Blocked", "Unrestricted", "Unknown"}
BY DEF decide

LEMMA ReadingInv ==
    ASSUME GateInv, enum_filters \/ get_filter \/ get_infrastructure \/ query_fails
    PROVE  GateInv'
<1>1. CASE gate_pc' = "get"
    <2>1. /\ gate_pc \in {"enum", "get"}
          /\ UNCHANGED <<bfe, in_tx, session_view, request, untouched, somebody>>
        BY <1>1 DEF enum_filters, get_filter, get_infrastructure, query_fails, gate_return
    <2>2. GateTypes'
        BY <1>1, <2>1 DEF GateInv, GateTypes, GateTypeOK, InTransaction
    <2> QED BY <1>1, <2>2 DEF GateInv, Mutation, OkMeansDone, InTransaction
<1>2. CASE gate_pc' # "get"
    <2>1. PICK a : gate_return(a) /\ a # "Ok"
        <3>1. CASE enum_filters
            BY <1>2, <3>1 DEF enum_filters
        <3>2. CASE get_filter
            BY <1>2, <3>2 DEF get_filter
        <3>3. CASE get_infrastructure
            BY <3>3, DecideAnswers DEF get_infrastructure
        <3>4. CASE query_fails
            BY <3>4 DEF query_fails
        <3> QED BY <3>1, <3>2, <3>3, <3>4
    <2>2. UNCHANGED <<bfe, in_tx, session_view, request, untouched, somebody>>
        BY DEF enum_filters, get_filter, get_infrastructure, query_fails
    <2> QED BY <2>1, <2>2, ReturnInv
<1> QED BY <1>1, <1>2

\* Somebody else, outside any transaction.
LEMMA SomebodyInv ==
    ASSUME GateInv, somebody_changes
    PROVE  GateInv'
<1>1. /\ ~in_tx /\ untouched' = FALSE /\ somebody' \in 0..MaxSomebody
      /\ UNCHANGED <<in_tx, session_view, gate_pc, request, gate_answer>> /\ bfe \in Bfe
    BY GateAssumption DEF somebody_changes, GateInv, GateTypes, GateTypeOK
<1>2. bfe' \in Bfe
    <2>1. CASE \E k \in Key, f \in Filter : bfe' = [bfe EXCEPT !.filter[k] = f]
        BY <1>1, <2>1, ViewTypes
    <2>2. CASE \E o \in Infra : bfe' = [bfe EXCEPT !.provider = o] \/ bfe' = [bfe EXCEPT !.sublayer = o]
        BY <1>1, <2>2, ViewTypes
    <2>3. CASE bfe' = [bfe EXCEPT !.extra = ~@]
        BY <1>1, <2>3 DEF Bfe
    <2> QED BY <2>1, <2>2, <2>3 DEF somebody_changes
<1>3. GateTypes'
    BY <1>1, <1>2 DEF GateInv, GateTypes, GateTypeOK
<1>4. Mutation' /\ OkMeansDone'
    BY <1>1 DEF GateInv, Mutation, OkMeansDone
<1> QED BY <1>3, <1>4 DEF GateInv

\* Each step of the gate keeps the invariant.
LEMMA GateStep ==
    ASSUME GateInv, [GateNext]_gate_vars
    PROVE  GateInv'
<1>1. CASE engine_call_fails
    BY <1>1, ErrorInv DEF engine_call_fails
<1>2. CASE commit_fails
    BY <1>2, ReturnInv DEF commit_fails, cleanup
<1>3. CASE restart
    <2>1. GateTypes'
        BY <1>3, CanonicalTypes DEF restart, GateInv, GateTypes, GateTypeOK, InTransaction
    <2> QED BY <1>3, <2>1 DEF restart, GateInv, Mutation, OkMeansDone, InTransaction
<1>4. CASE UNCHANGED gate_vars
    <2>1. GateTypes'
        BY <1>4 DEF gate_vars, GateInv, GateTypes, GateTypeOK
    <2>2. Mutation'
        BY <1>4 DEF gate_vars, GateInv, Mutation, Keeps, Blocks, palkas, present
    <2>3. OkMeansDone'
        BY <1>4 DEF gate_vars, GateInv, OkMeansDone, Blocks, palkas, present
    <2> QED BY <2>1, <2>2, <2>3 DEF GateInv
<1> QED BY <1>1, <1>2, <1>3, <1>4, BeginCallInv, TransactionBeginInv, BlockValidatesInv, UnblockValidatesInv,
           AddProviderInv, AddSublayerInv, DeleteFilterInv, AddFilterInv, CommitInv, ReadingInv, SomebodyInv
        DEF GateNext, steps

\* The invariant about the gate holds in every reachable state, aborts failing or
\* not.
THEOREM GateInvariance == GateSpec => []GateInv
<1>1. ASSUME GateInit PROVE GateInv
    <2>1. 0 \in 0..MaxSomebody
        BY GateAssumption
    <2>2. GateTypes
        BY <1>1, <2>1, CanonicalTypes DEF GateInit, GateTypes, GateTypeOK, InTransaction
    <2> QED BY <1>1, <2>2 DEF GateInit, GateInv, Mutation, OkMeansDone, InTransaction
<1> QED BY <1>1, GateStep, PTL DEF GateSpec

\* Only a commit changes the committed objects, and it changes them to a whole
\* block or to none, without touching what is not PALKA's; an Ok was done, also
\* when aborts fail.
THEOREM GateAllOrNothing == GateSpec => GateWhole
<1>1. ASSUME GateInv, [GateNext]_gate_vars, steps, bfe' # bfe
      PROVE  /\ Blocks(bfe', request.sid) \/ palkas(bfe') = {}
             /\ Keeps(bfe, bfe')
    <2>1. commit
        BY <1>1 DEF steps, transaction_begin, engine_call_fails, block_validates, add_provider, add_sublayer,
                    delete_filter, add_filter, commit_fails, unblock_validates, enum_filters, get_filter,
                    get_infrastructure, query_fails
    <2> QED BY <1>1, <2>1, CommitWhole
<1>2. GateInv /\ [GateNext]_gate_vars =>
        [steps /\ bfe' # bfe =>
            /\ Blocks(bfe', request.sid) \/ palkas(bfe') = {}
            /\ \A k \in Key : bfe.filter[k].present /\ ~bfe.filter[k].ours => bfe'.filter[k] = bfe.filter[k]
            /\ bfe.provider.present => bfe'.provider = bfe.provider
            /\ bfe.sublayer.present => bfe'.sublayer = bfe.sublayer
            /\ bfe'.extra = bfe.extra]_gate_vars
    BY <1>1 DEF Keeps
<1>3. GateInv => OkMeansDone
    BY DEF GateInv
<1>4. GateSpec => GateStepIsWhole
    BY <1>2, GateInvariance, PTL DEF GateSpec, GateStepIsWhole
<1>5. GateSpec => []OkMeansDone
    BY <1>3, GateInvariance, PTL
<1> QED BY <1>4, <1>5 DEF GateWhole

(* What makes a report true: no transaction outlives its call, and what    *)
(* current_state has read is what is there.                                *)
Reading == [filter : [Key -> Filter], done : SUBSET Key, none : BOOLEAN]
ReadSoFar ==
    gate_pc = "get" =>
        /\ reading \in Reading
        /\ untouched => /\ ~bfe.extra /\ (reading.none <=> palkas(bfe) = {})
                        /\ \A k \in reading.done : reading.filter[k] = bfe.filter[k]
TransactionsEnd == in_tx <=> gate_pc \in InTransaction
TruthInv == GateInv /\ TransactionsEnd /\ ReadSoFar /\ ReportIsTrue

\* What decide's answers rest on.
LEMMA DecideFacts ==
    ASSUME NEW prov, NEW sub
    PROVE  /\ decide(prov, sub) = "Blocked" =>
                  /\ prov = "Canonical" /\ sub = "Canonical"
                  /\ \A k \in Key : is_canonical_palka_filter(reading.filter[k], request.sid)
           /\ decide(prov, sub) = "Unrestricted" => reading.none
BY DEF decide

\* A return that is no report.
LEMMA ReturnTruth ==
    ASSUME TruthInv, NEW a, gate_return(a), a \notin {"Blocked", "Unrestricted"}, in_tx' = FALSE
    PROVE  TransactionsEnd' /\ ReadSoFar' /\ ReportIsTrue'
BY DEF gate_return, TransactionsEnd, ReadSoFar, ReportIsTrue, InTransaction

\* current_state reads the committed objects.
LEMMA ReadingTruth ==
    ASSUME TruthInv, enum_filters \/ get_filter \/ get_infrastructure \/ query_fails
    PROVE  TransactionsEnd' /\ ReadSoFar' /\ ReportIsTrue'
<1>1. /\ gate_pc \in {"enum", "get"} /\ in_tx = FALSE /\ in_tx' = FALSE /\ seen_objects = bfe /\ bfe \in Bfe
      /\ UNCHANGED <<bfe, request, untouched>>
    BY DEF enum_filters, get_filter, get_infrastructure, query_fails, TruthInv, TransactionsEnd, InTransaction,
           seen_objects, GateInv, GateTypes, GateTypeOK
<1>2. palkas(bfe)' = palkas(bfe)
    BY <1>1 DEF palkas, present
<1>3. CASE enum_filters
    <2>1. CASE bfe.extra
        BY <1>1, <1>3, <2>1, ReturnTruth DEF enum_filters
    <2>2. CASE ~bfe.extra
        <3>1. /\ gate_pc' = "get"
              /\ reading' = [filter |-> [k \in Key |-> NoObject], done |-> {}, none |-> palkas(bfe) = {}]
            BY <1>1, <1>3, <2>2 DEF enum_filters
        <3>2. reading' \in Reading /\ reading'.done = {} /\ (reading'.none <=> palkas(bfe) = {})
            BY <3>1, CanonicalTypes DEF Reading
        <3> QED BY <1>1, <1>2, <2>2, <3>1, <3>2 DEF TransactionsEnd, ReadSoFar, ReportIsTrue, InTransaction
    <2> QED BY <2>1, <2>2
<1>4. CASE get_filter
    <2>1. PICK k \in Key \ reading.done :
              reading' = [reading EXCEPT !.filter[k] = bfe.filter[k], !.done = @ \cup {k}]
        BY <1>1, <1>4 DEF get_filter
    <2>2. gate_pc = "get" /\ gate_pc' = "get" /\ reading \in Reading
        BY <1>4 DEF get_filter, TruthInv, ReadSoFar
    <2>3. bfe.filter \in [Key -> Filter]
        BY <1>1, ViewTypes
    <2>4. /\ reading'.filter = [reading.filter EXCEPT ![k] = bfe.filter[k]]
          /\ reading'.done = reading.done \cup {k} /\ reading'.none = reading.none
          /\ reading' \in Reading
        BY <2>1, <2>2, <2>3 DEF Reading
    <2>5. untouched => \A j \in reading'.done : reading'.filter[j] = bfe.filter[j]
        <3>1. reading.filter \in [Key -> Filter] /\ reading.done \subseteq Key
            BY <2>2 DEF Reading
        <3> QED BY <2>2, <2>4, <3>1 DEF TruthInv, ReadSoFar
    <2>6. untouched => ~bfe.extra /\ (reading'.none <=> palkas(bfe) = {})
        BY <2>2, <2>4 DEF TruthInv, ReadSoFar
    <2> QED BY <1>1, <1>2, <2>2, <2>4, <2>5, <2>6 DEF TransactionsEnd, ReadSoFar, ReportIsTrue, InTransaction
<1>5. CASE get_infrastructure
    <2>1. PICK prov, sub : /\ prov = classify_existing(bfe.provider) /\ sub = classify_existing(bfe.sublayer)
                           /\ gate_return(decide(prov, sub))
        BY <1>1, <1>5 DEF get_infrastructure
    <2>2. gate_pc = "get" /\ reading.done = Key
        BY <1>5 DEF get_infrastructure
    <2>3. untouched => /\ ~bfe.extra /\ (reading.none <=> palkas(bfe) = {})
                       /\ \A k \in Key : reading.filter[k] = bfe.filter[k]
        BY <2>2 DEF TruthInv, ReadSoFar
    <2>4. gate_pc' = "idle" /\ gate_answer' = decide(prov, sub)
        BY <2>1 DEF gate_return
    <2>5. untouched /\ gate_answer' = "Blocked" => Blocks(bfe, request.sid)
        BY <2>1, <2>3, <2>4, DecideFacts DEF Blocks
    <2>6. untouched /\ gate_answer' = "Unrestricted" => palkas(bfe) = {} /\ ~bfe.extra
        BY <2>3, <2>4, DecideFacts
    <2>7. Blocks(bfe, request.sid)' = Blocks(bfe, request.sid)
        BY <1>1 DEF Blocks
    <2> QED BY <1>1, <1>2, <2>4, <2>5, <2>6, <2>7 DEF TransactionsEnd, ReadSoFar, ReportIsTrue, InTransaction
<1>6. CASE query_fails
    BY <1>1, <1>6, ReturnTruth DEF query_fails
<1> QED BY <1>3, <1>4, <1>5, <1>6

\* Steps inside the transaction.
LEMMA TransactionTruth ==
    ASSUME TruthInv, ~AbortMayFail,
           \/ transaction_begin \/ engine_call_fails \/ block_validates \/ unblock_validates
           \/ add_provider \/ add_sublayer \/ delete_filter \/ add_filter \/ commit \/ commit_fails
    PROVE  TransactionsEnd' /\ ReadSoFar' /\ ReportIsTrue'
<1>1. CASE gate_pc' # "idle"
    <2>1. gate_pc' \in InTransaction /\ in_tx'
        BY <1>1 DEF TruthInv, TransactionsEnd, transaction_begin, engine_call_fails, handle_error, calls_engine,
                    block_validates, unblock_validates, add_provider, add_sublayer, delete_filter, add_filter,
                    add_next, commit, commit_fails, cleanup, gate_return, InTransaction
    <2> QED BY <2>1 DEF TransactionsEnd, ReadSoFar, ReportIsTrue, InTransaction
<1>2. CASE gate_pc' = "idle"
    <2>1. /\ \E a : gate_return(a) /\ a \notin {"Blocked", "Unrestricted"}
          /\ in_tx' = FALSE
        <3>1. CASE transaction_begin
            BY <1>2, <3>1 DEF transaction_begin, TruthInv, TransactionsEnd, InTransaction
        <3>2. CASE engine_call_fails \/ block_validates \/ unblock_validates
            BY <1>2, <3>2 DEF engine_call_fails, block_validates, unblock_validates, handle_error
        <3>3. CASE add_provider \/ add_sublayer \/ delete_filter \/ add_filter
            BY <1>2, <3>3 DEF add_provider, add_sublayer, delete_filter, add_filter, add_next
        <3>4. CASE commit \/ commit_fails
            BY <3>4 DEF commit, commit_fails, cleanup
        <3> QED BY <3>1, <3>2, <3>3, <3>4
    <2> QED BY <2>1, ReturnTruth
<1> QED BY <1>1, <1>2

\* A call, another product, a restart.
LEMMA OutsideTruth ==
    ASSUME TruthInv,
           \/ \E op \in {"current_state", "block", "unblock"}, s \in Sid \cup {BadSid} : begin_call(op, s)
           \/ somebody_changes \/ restart \/ UNCHANGED gate_vars
    PROVE  TransactionsEnd' /\ ReadSoFar' /\ ReportIsTrue'
<1>1. CASE \E op \in {"current_state", "block", "unblock"}, s \in Sid \cup {BadSid} : begin_call(op, s)
    BY <1>1 DEF begin_call, TruthInv, TransactionsEnd, ReadSoFar, ReportIsTrue, InTransaction
<1>2. CASE somebody_changes
    BY <1>2 DEF somebody_changes, TruthInv, TransactionsEnd, ReadSoFar, ReportIsTrue
<1>3. CASE restart
    BY <1>3 DEF restart, TransactionsEnd, ReadSoFar, ReportIsTrue, InTransaction
<1>4. CASE UNCHANGED gate_vars
    BY <1>4 DEF gate_vars, TruthInv, TransactionsEnd, ReadSoFar, ReportIsTrue, Blocks, palkas, present
<1> QED BY <1>1, <1>2, <1>3, <1>4

\* When aborts succeed: a report is true until somebody interferes, and no
\* transaction outlives the call that opened it.
THEOREM GateReportsTruth ==
    ASSUME ~AbortMayFail
    PROVE  GateSpec => []GateSafe
<1>1. ASSUME GateInit PROVE TransactionsEnd /\ ReadSoFar /\ ReportIsTrue
    BY <1>1 DEF GateInit, TransactionsEnd, ReadSoFar, ReportIsTrue, InTransaction
<1>2. ASSUME TruthInv, [GateNext]_gate_vars PROVE (TransactionsEnd /\ ReadSoFar /\ ReportIsTrue)'
    BY <1>2, ReadingTruth, TransactionTruth, OutsideTruth DEF GateNext, steps
<1>3. GateInv /\ GateInv' /\ TransactionsEnd /\ ReadSoFar /\ ReportIsTrue /\ [GateNext]_gate_vars =>
          (TransactionsEnd /\ ReadSoFar /\ ReportIsTrue)'
    BY <1>2 DEF TruthInv
<1>4. GateInv /\ TransactionsEnd /\ ReportIsTrue => GateSafe
    BY DEF GateInv, GateTypes, TransactionsEnd, GateSafe, NoOrphanTransaction, InTransaction
<1> QED BY <1>1, <1>3, <1>4, GateInvariance, PTL DEF GateSpec

-----------------------------------------------------------------------------
(* PowerController *)
PowerInv ==
    /\ PowerTypeOK /\ built \in BOOLEAN /\ accepted \in BOOLEAN /\ before \in {"absent", "disabled", "enabled"}
    /\ reads \in Nat /\ bytes \in Nat /\ reads <= bytes
    /\ FailureLeavesToken /\ OkIsAccepted
    /\ power_pc \in {"unready", "probe", "open"} => handles = 0
    /\ power_pc \in {"ready", "open", "adjust", "request", "restore"} => built
    /\ power_pc # "ready" => ~accepted
    /\ power_pc \in {"probe", "query", "open", "adjust", "request"} => power_answer = "none"
    /\ power_pc = "restore" => power_answer \in {"ShutdownRequestFailure", "ShutdownAlreadyInProgress"}
    (* The token is as it was found until the privilege is enabled; from    *)
    (* then on, previous is what a restore needs.                           *)
    /\ power_pc \in {"probe", "query", "open", "adjust"} => privilege = before
    /\ power_pc \in {"request", "restore"} =>
          /\ before # "absent" /\ privilege = "enabled"
          /\ previous = IF before = "enabled" THEN "none" ELSE before

\* The token's privileges are read within the buffer, whatever its length, its
\* capacity and the count it claims.
LEMMA ReadsWithin ==
    ASSUME NEW len \in Nat, NEW capacity \in Nat, NEW count \in Nat, NEW at \in Nat
    PROVE  LET p == parse_and_verify_token_privileges(len, capacity, count, at)
           IN  p.reads \in Nat /\ p.reads <= capacity
<1> DEFINE p == parse_and_verify_token_privileges(len, capacity, count, at)
<1>1. CASE len < header_size \/ len > capacity
    BY <1>1 DEF parse_and_verify_token_privileges
<1>2. CASE header_size <= len /\ len <= capacity
    <2>1. CASE count = 0 \/ required_payload(count) = Fail
               \/ required_payload(count) > len \/ required_payload(count) > capacity
        <3>1. p.reads = header_size
            BY <1>2, <2>1 DEF parse_and_verify_token_privileges, header_size
        <3> QED BY <1>2, <3>1 DEF header_size
    <2>2. CASE ~(count = 0 \/ required_payload(count) = Fail
               \/ required_payload(count) > len \/ required_payload(count) > capacity)
        <3>1. p.reads = entries_end(count, at)
            BY <1>2, <2>2 DEF parse_and_verify_token_privileges, header_size
        <3>2. required_payload(count) = 4 + count * 12
            BY <2>2, PowerAssumption
               DEF required_payload, usize_checked_add, checked_mul, Fail, header_size, entry_size
        <3>3. 4 + count * 12 <= capacity
            BY <2>2, <3>2
        <3>4. entries_end(count, at) \in Nat /\ entries_end(count, at) <= 4 + count * 12
            BY DEF entries_end, header_size, entry_size
        <3> QED BY <3>1, <3>3, <3>4
    <2> QED BY <2>1, <2>2
<1> QED BY <1>1, <1>2 DEF header_size

\* What was captured as PreviousState passes the check before its restore.
LEMMA CapturedIsRestorable ==
    ASSUME NEW len \in Nat, NEW capacity \in Nat, NEW count \in Nat
    PROVE  LET p == parse_and_validate_previous_state(len, capacity, count)
           IN  p.ok => p.size <= capacity /\ validate_restore_buffer(p.size, count)
<1> DEFINE payload == IF count = 0 THEN header_size ELSE required_payload(count)
           refused == len < header_size \/ len > capacity \/ payload = Fail \/ payload > len
           p == parse_and_validate_previous_state(len, capacity, count)
<1>1. /\ refused => p.ok = FALSE
      /\ ~refused => p.size = payload
    BY DEF parse_and_validate_previous_state
<1>2. CASE ~refused
    <2>1. /\ required_payload(0) = 4
          /\ count # 0 => required_payload(count) = 4 + count * 12
        BY <1>2, PowerAssumption
           DEF required_payload, usize_checked_add, checked_mul, Fail, header_size, entry_size
    <2>2. payload = required_payload(count) /\ payload >= header_size /\ payload # Fail
        BY <2>1 DEF header_size, Fail
    <2> QED BY <1>1, <1>2, <2>2, <2>1 DEF validate_restore_buffer, header_size
<1> QED BY <1>1, <1>2

\* The buffers hold whatever is read of them; a failed call leaves the token as
\* it found it or says that it could not; Ok is an accepted shutdown.
THEOREM PrivilegeKept == PowerSpec => []PrivilegeSafe
<1>1. ASSUME PowerInit PROVE PowerInv
    <2>1. /\ power_pc = "unready" /\ before = privilege /\ handles = 0 /\ reads = 0 /\ bytes = 0
          /\ power_answer = "none" /\ ~accepted /\ built \in BOOLEAN /\ accepted \in BOOLEAN
          /\ privilege \in {"absent", "disabled", "enabled"}
        BY <1>1 DEF PowerInit
    <2> QED BY <2>1 DEF PowerInv, PowerTypeOK, FailureLeavesToken, OkIsAccepted
<1>2. ASSUME PowerInv, [PowerNext]_power_vars PROVE PowerInv'
    <2> USE DEF PowerInv, PowerTypeOK, FailureLeavesToken, OkIsAccepted, finish
    <2>1. CASE begin
        BY <1>2, <2>1 DEF begin
    <2>2. CASE open_process_token
        BY <1>2, <2>2 DEF open_process_token
    <2>3. CASE lookup_privilege_value_fails
        BY <1>2, <2>3 DEF lookup_privilege_value_fails
    <2>4. CASE Query
        <3>1. PICK capacity \in BufferLength, len \in BufferLength, count \in Count, at \in 0..2 :
                  get_token_privileges(capacity, len, count, at)
            BY <2>4 DEF Query
        <3> DEFINE p == parse_and_verify_token_privileges(len, capacity, count, at)
        <3>2. p.reads \in Nat /\ p.reads <= capacity /\ capacity \in Nat
            BY ReadsWithin, PowerAssumption
        <3>3. p.result \in {"Ok", "TokenPrivilegeQueryFailure", "PrivilegeNotAssigned"}
            BY DEF parse_and_verify_token_privileges
        <3>4. /\ power_pc = "query" /\ bytes' = capacity
              /\ \/ reads' = 0 \/ reads' = p.reads
              /\ built' \in BOOLEAN
              /\ UNCHANGED <<privilege, before, previous, accepted>>
              /\ \/ finish("TokenPrivilegeQueryFailure") /\ built' = built
                 \/ finish("PrivilegeNotAssigned") /\ built' = built
                 \/ probe_ends /\ UNCHANGED power_answer /\ built'
            <4> HIDE DEF p
            <4>1. CASE capacity = 0
                BY <1>2, <3>1, <4>1 DEF get_token_privileges, p
            <4>2. CASE capacity # 0 /\ p.result = "Ok"
                BY <1>2, <3>1, <4>2 DEF get_token_privileges, p
            <4>3. CASE capacity # 0 /\ p.result # "Ok"
                BY <1>2, <3>1, <3>3, <4>3 DEF get_token_privileges, p
            <4> QED BY <4>1, <4>2, <4>3
        <3> HIDE DEF p
        <3>5. reads' \in Nat /\ bytes' \in Nat /\ reads' <= bytes'
            BY <3>2, <3>4
        <3> QED BY <1>2, <3>4, <3>5 DEF probe_ends
    <2>5. CASE get_token_privileges_fails
        BY <1>2, <2>5 DEF get_token_privileges_fails
    <2>6. CASE adjust_privilege_enable
        BY <1>2, <2>6 DEF adjust_privilege_enable, captured
    <2>7. CASE Malformed
        BY <1>2, <2>7 DEF Malformed, previous_state_malformed
    <2>8. CASE request_shutdown
        <3>1. /\ power_pc = "request" /\ built /\ ~accepted /\ before # "absent" /\ built' = built
              /\ UNCHANGED <<privilege, before, previous, reads, bytes>>
            BY <1>2, <2>8 DEF request_shutdown
        <3>2. CASE accepted' = TRUE /\ finish("Ok")
            <4>1. power_pc' = "ready" /\ accepted' /\ handles' = 0 /\ power_answer' = "Ok"
                BY <3>1, <3>2
            <4> QED BY <1>2, <3>1, <3>2, <4>1
        <3>3. CASE /\ power_answer' \in {"ShutdownRequestFailure", "ShutdownAlreadyInProgress"}
                   /\ power_pc' = "restore" /\ UNCHANGED <<accepted, handles>>
            BY <1>2, <3>1, <3>3
        <3> QED BY <2>8, <3>2, <3>3 DEF request_shutdown
    <2>9. CASE restore_privilege
        BY <1>2, <2>9 DEF restore_privilege, restore_ok, restore_failure
    <2>10. CASE UNCHANGED power_vars
        BY <1>2, <2>10 DEF power_vars
    <2> QED BY <1>2, <2>1, <2>2, <2>3, <2>4, <2>5, <2>6, <2>7, <2>8, <2>9, <2>10 DEF PowerNext
<1>3. PowerInv => PrivilegeSafe
    BY CapturedIsRestorable, PowerAssumption DEF PowerInv, PrivilegeSafe, InBounds
<1> QED BY <1>1, <1>2, <1>3, PTL DEF PowerSpec

-----------------------------------------------------------------------------
(* ProtectedDirectory *)
DirectoryInv ==
    /\ changes \in Nat /\ target \in Object
    /\ dir_result # "none" => dir_pc = "returned"
    /\ DirectorySafe
    (* Nothing is set before the end, and what the last look found is there *)
    (* while nobody changes it.                                             *)
    /\ dir_pc # "returned" => /\ dacl = "inherited" /\ outside = "own"
                              /\ swapped => dir_pc = "apply_dacl"
                              /\ dir_pc = "apply_dacl" /\ ~swapped => target = "directory"
    /\ changes = 0 /\ dir_pc # "returned" =>
          /\ dir_pc # "recheck" /\ ~swapped
          /\ dir_pc \in {"check_parent", "create"} => target = "none"

\* Whatever and however often other programs interfere: an Ok is a protected directory
\* unless something else took its place after the call's last look; a link is followed
\* in that case only; a refusal has set no DACL.
THEOREM DirectoryProtected ==
    DirectorySpec => []DirectorySafe
<1>1. DirectoryInit => DirectoryInv
    <2> USE DEF DirectoryInit
    <2>1. DirectoryInit => DirectorySafe
        BY DEF DirectorySafe, OkIsProtected, LinksNotFollowed, RefusalsChangeNothing
    <2> QED BY <2>1 DEF DirectoryInv
<1>2. ASSUME DirectoryInv, [DirectoryNext]_directory_vars PROVE DirectoryInv'
    <2> USE DEF DirectoryInv, DirectorySafe, OkIsProtected, LinksNotFollowed, RefusalsChangeNothing, dir_at,
                dir_goto, dir_return
    <2>0. /\ target = "file" => existing = dir_return("TargetExistsAndNotDirectory")
          /\ target = "reparse_point" => existing = dir_return("TargetIsReparsePoint")
          /\ target \notin {"file", "reparse_point"} => existing = dir_goto("apply_dacl")
        BY DEF existing, validate_existing_attributes
    <2>1. CASE check_path
        BY <1>2, <2>1 DEF check_path, unchanged_world
    <2>2. CASE get_attributes
        BY <1>2, <2>0, <2>2 DEF get_attributes, unchanged_world, Object
    <2>3. CASE check_parent
        BY <1>2, <2>3 DEF check_parent, unchanged_world
    <2>4. CASE create
        BY <1>2, <2>4 DEF create, Object
    <2>5. CASE recheck
        BY <1>2, <2>0, <2>5 DEF recheck, raced, unchanged_world, Object
    <2>6. CASE apply_dacl
        BY <1>2, <2>6 DEF apply_dacl
    <2>7. CASE world_changes
        <3>0. /\ changes \in Nat /\ changes' = changes + 1
              /\ dir_pc # "returned" /\ UNCHANGED <<outside, dir_pc, dir_result>>
            BY <1>2, <2>7 DEF world_changes
        <3>1. /\ changes' \in Nat /\ changes' # 0 /\ target' \in Object
              /\ dir_pc # "returned" /\ dir_result = "none" /\ outside = "own" /\ dacl' = "inherited"
              /\ UNCHANGED <<outside, dir_pc, dir_result>>
            <4>1. dir_result = "none" /\ outside = "own" /\ dacl = "inherited" /\ target \in Object
                BY <1>2, <3>0
            <4>2. dacl' = "inherited" /\ target' \in Object
                BY <2>7, <4>1 DEF world_changes
            <4> QED BY <3>0, <4>1, <4>2
        <3>2. CASE dir_pc = "apply_dacl" /\ swapped' = TRUE
            BY <3>1, <3>2
        <3>3. CASE swapped' = swapped /\ (dir_pc = "apply_dacl" => target' = target)
            BY <1>2, <3>1, <3>3
        <3> QED BY <2>7, <3>2, <3>3 DEF world_changes
    <2>8. CASE UNCHANGED directory_vars
        BY <1>2, <2>8 DEF directory_vars
    <2> QED BY <1>2, <2>1, <2>2, <2>3, <2>4, <2>5, <2>6, <2>7, <2>8 DEF DirectoryNext
<1>3. DirectoryInv => DirectorySafe
    BY DEF DirectoryInv
<1> QED BY <1>1, <1>2, <1>3, PTL DEF DirectorySpec
=============================================================================
