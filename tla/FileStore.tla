------------------------------ MODULE FileStore ------------------------------
(***************************************************************************)
(* The three file stores (state_store.rs, config_store.rs,                 *)
(* credentials_store.rs share one protocol), the publication primitive     *)
(* (atomic_file.rs) and the bootstrap that loads the files.                *)
(*                                                                         *)
(* A save is encoded, written to a fresh temporary file, flushed and       *)
(* published; each step can fail, and the process can die after each step. *)
(* A first publication is on the disk when the call returns; a replacement *)
(* is visible at once and on the disk when Windows writes it there.  A     *)
(* power failure tears whatever was not flushed and undoes a replacement   *)
(* that had not got so far.  The files are made by the set-up, after which *)
(* the service saves state.json only.                                      *)
(***************************************************************************)
EXTENDS Integers, FiniteSets

CONSTANTS Value,          \* contents the codecs accept
          SetUpValue,     \* those that the set-up gives config.json and credentials.json
          Rejected,       \* contents validation refuses to encode
          NoFile, Torn,   \* no file; unusable bytes
          Name,           \* variable part of a temporary file's name
          MaxTries,       \* attempts at a free name (1000 in the code)
          MaxFaults,      \* failing calls, crashes and power failures
          ReplaceMayLose  \* ReplaceFileW may fail after removing the old file

ASSUME ContentsDistinct == /\ NoFile # Torn /\ {NoFile, Torn} \cap (Value \cup Rejected) = {}
                           /\ Value \cap Rejected = {}
ASSUME StoreBounds == /\ {MaxTries, MaxFaults} \subseteq Nat /\ MaxTries > 0
                      /\ ReplaceMayLose \in BOOLEAN /\ SetUpValue \subseteq Value \cup Rejected

File == {"config", "credentials", "state"}
NoJob == [file |-> "none", value |-> NoFile, name |-> "none"]

VARIABLES
    canonical,  \* per file: its data as read, and whether they were flushed
    stable,     \* per file: what a power failure leaves of it
    temps,      \* temporary files in the directory
    phase,      \* "setup", "down", the step of bootstrap_service, or "running"
    save_pc,    \* where the save in progress is
    job,        \* what it saves
    tries,      \* names tried
    loaded,     \* what the service read at start
    acked,      \* history: the value each file's last completed save reported
    restored,   \* history: what a power failure that undid that save took it back to
    leaked,     \* history: temporary files excused by a crash or a failed removal
    faults

store_history == <<acked, restored>>
store_vars == <<canonical, stable, temps, phase, save_pc, job, tries, loaded, store_history,
                leaked, faults>>
disk == <<canonical, stable, temps>>
context == <<phase, loaded>>

data(f) == canonical[f].data
survives(d) == IF d.synced THEN d.data ELSE Torn
named(t, f, n) == t.file = f /\ t.name = n
mine(t) == named(t, job.file, job.name)
Fault == faults < MaxFaults /\ faults' = faults + 1

StoreInit ==
    /\ canonical = [f \in File |-> [data |-> NoFile, synced |-> TRUE]]
    /\ stable = [f \in File |-> NoFile]
    /\ temps = {} /\ phase = "setup" /\ save_pc = "idle" /\ job = NoJob /\ tries = 0
    /\ loaded = [f \in File |-> NoFile] /\ acked = [f \in File |-> NoFile]
    /\ restored = [f \in File |-> NoFile] /\ leaked = 0 /\ faults = 0

-----------------------------------------------------------------------------
(* save(): validation and encoding touch no file. *)
MutSaveUnvalidated(f, v) ==
    /\ save_pc = "idle"
    /\ save_pc' = "create" /\ job' = [file |-> f, value |-> v, name |-> "none"] /\ tries' = 0
    /\ UNCHANGED <<disk, context, store_history, leaked, faults>>
save(f, v) ==
    /\ save_pc = "idle"
    /\ IF v \in Value
         THEN save_pc' = "create" /\ job' = [file |-> f, value |-> v, name |-> "none"] /\ tries' = 0
         ELSE UNCHANGED <<save_pc, job, tries>>
    /\ UNCHANGED <<disk, context, store_history, leaked, faults>>

StateFileStore_save(v) == phase \in {"setup", "running"} /\ save("state", v)
ConfigFileStore_save(v) == phase = "setup" /\ v \in SetUpValue /\ save("config", v)
CredentialsFileStore_save(v) == phase = "setup" /\ v \in SetUpValue /\ save("credentials", v)

return_error ==
    /\ save_pc' = "idle" /\ job' = NoJob /\ tries' = 0
    /\ UNCHANGED store_history

create_unique_temp_file(n) ==
    /\ save_pc = "create"
    /\ IF \E t \in temps : named(t, job.file, n)
         THEN /\ UNCHANGED temps
              /\ IF tries + 1 < MaxTries
                   THEN tries' = tries + 1 /\ UNCHANGED <<save_pc, job, store_history>>
                   ELSE return_error
         ELSE /\ temps' = temps \cup {[file |-> job.file, name |-> n, data |-> Torn, synced |-> FALSE]}
              /\ job' = [job EXCEPT !.name = n]
              /\ save_pc' = "write"
              /\ UNCHANGED <<tries, store_history>>
    /\ UNCHANGED <<canonical, stable, context, leaked, faults>>

create_fails ==
    /\ save_pc = "create"
    /\ Fault
    /\ return_error
    /\ UNCHANGED <<disk, context, leaked>>

after_write == "sync"
after_failed_write == "cleanup"
after_failed_publish == "cleanup"

save_goto(label) == save_pc' = label /\ UNCHANGED <<job, tries, context, store_history, leaked>>

write_all ==
    /\ save_pc = "write"
    /\ temps' = {IF mine(t) THEN [t EXCEPT !.data = job.value] ELSE t : t \in temps}
    /\ save_goto(after_write)
    /\ UNCHANGED <<canonical, stable, faults>>

sync_all ==
    /\ save_pc = "sync"
    /\ temps' = {IF mine(t) THEN [t EXCEPT !.synced = TRUE] ELSE t : t \in temps}
    /\ save_goto("publish")
    /\ UNCHANGED <<canonical, stable, faults>>

write_or_sync_fails ==
    /\ save_pc \in {"write", "sync"}
    /\ Fault
    /\ save_goto(after_failed_write)
    /\ UNCHANGED disk

(* target_path.exists() decides.  MoveFileExW is asked to write through;   *)
(* ReplaceFileW has no such flag, and nothing is flushed after it.         *)
MoveFileExW(t) == stable' = [stable EXCEPT ![job.file] = survives(t)]
ReplaceFileW(t) == UNCHANGED stable

atomic_publish_file ==
    /\ save_pc = "publish"
    /\ \E t \in temps :
          /\ mine(t)
          /\ canonical' = [canonical EXCEPT ![job.file] = [data |-> t.data, synced |-> t.synced]]
          /\ temps' = temps \ {t}
          /\ IF data(job.file) = NoFile THEN MoveFileExW(t) ELSE ReplaceFileW(t)
    /\ save_goto("ok")
    /\ UNCHANGED faults

publish_fails ==
    /\ save_pc = "publish"
    /\ Fault
    /\ save_goto(after_failed_publish)
    /\ UNCHANGED disk

(* ERROR_UNABLE_TO_MOVE_REPLACEMENT without a backup name: the replaced    *)
(* file is gone and the new one keeps its temporary name.                  *)
replace_loses_target ==
    /\ save_pc = "publish"
    /\ ReplaceMayLose
    /\ data(job.file) # NoFile
    /\ Fault
    /\ canonical' = [canonical EXCEPT ![job.file] = [data |-> NoFile, synced |-> TRUE]]
    /\ save_goto(after_failed_publish)
    /\ UNCHANGED <<stable, temps>>

remove_temp ==
    /\ save_pc = "cleanup"
    /\ temps' = {t \in temps : ~mine(t)}
    /\ return_error
    /\ UNCHANGED <<canonical, stable, context, leaked, faults>>

remove_fails ==
    /\ save_pc = "cleanup"
    /\ Fault
    /\ leaked' = leaked + 1
    /\ return_error
    /\ UNCHANGED <<disk, context>>

save_ok ==
    /\ save_pc = "ok"
    /\ acked' = [acked EXCEPT ![job.file] = job.value]
    /\ restored' = [restored EXCEPT ![job.file] = NoFile]
    /\ save_pc' = "idle" /\ job' = NoJob /\ tries' = 0
    /\ UNCHANGED <<disk, context, leaked, faults>>

-----------------------------------------------------------------------------
(* Windows writes what it has of a file to the disk, at a time of its own. *)
unsettled(f) == stable[f] # survives(canonical[f])

system_flushes(f) ==
    /\ unsettled(f)
    /\ stable' = [stable EXCEPT ![f] = survives(canonical[f])]
    /\ UNCHANGED <<canonical, temps, context, save_pc, job, tries, store_history, leaked, faults>>

(* The process dies.  A save that got no answer counts as reported when    *)
(* what it saved is there.                                                 *)
answered(f) == save_pc = "ok" /\ job.file = f /\ canonical'[f].data = job.value
undone(f) == canonical'[f].data # data(f)

dies ==
    /\ phase' = IF phase = "setup" THEN "setup" ELSE "down"
    /\ save_pc' = "idle" /\ job' = NoJob /\ tries' = 0
    /\ acked' = [f \in File |-> IF answered(f) THEN job.value ELSE acked[f]]
    /\ restored' = [f \in File |-> CASE undone(f) -> canonical'[f].data
                                    [] answered(f) /\ ~undone(f) -> NoFile
                                    [] OTHER -> restored[f]]
    /\ UNCHANGED loaded

crash ==
    /\ Fault
    /\ UNCHANGED disk
    /\ dies
    /\ leaked' = leaked + Cardinality({t \in temps : mine(t)})

(* Every file is what the disk has of it.  A new temporary file may be     *)
(* gone or torn, and what replaced a file and is undone is back under a    *)
(* temporary name.  (One that was removed may be back as well; it would be *)
(* one more among those that a power failure excuses.)                     *)
rewound(n) == {[file |-> f, name |-> n, data |-> survives(canonical[f]), synced |-> TRUE] :
                  f \in {g \in File : unsettled(g) /\ data(g) # NoFile}}

power_failure ==
    /\ Fault
    /\ canonical' = [f \in File |-> [data |-> stable[f], synced |-> TRUE]]
    /\ \E left \in SUBSET temps, n \in Name :
          /\ \A t \in left : t.name # n
          /\ temps' = {[t EXCEPT !.data = survives(t), !.synced = TRUE] : t \in left} \cup rewound(n)
    /\ leaked' = Cardinality(temps')
    /\ dies
    /\ UNCHANGED stable

(* bootstrap_service: the root, then the three files in this order; the    *)
(* first failure ends it.                                                  *)
MutNewestTempWins(f) == IF data(f) # NoFile THEN data(f)
                        ELSE IF \E t \in temps : t.file = f /\ t.data \in Value
                               THEN (CHOOSE t \in temps : t.file = f /\ t.data \in Value).data
                               ELSE NoFile
load(f) == data(f)
after_load(f) == IF f = "config" THEN "credentials" ELSE IF f = "credentials" THEN "state" ELSE "running"

bootstrap_persistent_root ==
    /\ phase \in {"setup", "down"}
    /\ save_pc = "idle"
    /\ phase' = "config"
    /\ loaded' = [f \in File |-> NoFile]
    /\ UNCHANGED <<disk, save_pc, job, tries, store_history, leaked, faults>>

(* ProgramData missing, empty or relative, or the directory not secured. *)
bootstrap_root_fails ==
    /\ phase \in {"setup", "down"}
    /\ save_pc = "idle"
    /\ Fault
    /\ phase' = "down"
    /\ UNCHANGED <<disk, save_pc, job, tries, loaded, store_history, leaked>>

bootstrap_service(f) ==
    /\ phase = f
    /\ IF load(f) \in Value
         THEN /\ loaded' = [loaded EXCEPT ![f] = load(f)]
              /\ phase' = after_load(f)
         ELSE phase' = "down" /\ UNCHANGED loaded
    /\ UNCHANGED <<disk, save_pc, job, tries, store_history, leaked, faults>>

(* The service is stopped between two saves. *)
service_stops ==
    /\ phase = "running"
    /\ save_pc = "idle"
    /\ phase' = "down"
    /\ UNCHANGED <<disk, save_pc, job, tries, loaded, store_history, leaked, faults>>

StoreNext ==
    \/ \E v \in Value \cup Rejected :
          StateFileStore_save(v) \/ ConfigFileStore_save(v) \/ CredentialsFileStore_save(v)
    \/ \E n \in Name : create_unique_temp_file(n)
    \/ create_fails \/ write_all \/ sync_all \/ write_or_sync_fails
    \/ atomic_publish_file \/ publish_fails \/ replace_loses_target
    \/ remove_temp \/ remove_fails \/ save_ok
    \/ crash \/ power_failure \/ service_stops \/ \E f \in File : system_flushes(f)
    \/ bootstrap_persistent_root \/ bootstrap_root_fails \/ \E f \in File : bootstrap_service(f)

StoreSpec == StoreInit /\ [][StoreNext]_store_vars

-----------------------------------------------------------------------------
(* Types; neither a canonical file nor what a power failure would leave of *)
(* it holds bytes that were not written whole, and a temporary name is in  *)
(* use once per file.                                                      *)
StoreTypeOK ==
    /\ canonical \in [File -> [data : Value \cup {NoFile}, synced : BOOLEAN]]
    /\ stable \in [File -> Value \cup {NoFile}]
    /\ \A t \in temps : t.file \in File /\ t.name \in Name /\ t.data \in Value \cup {Torn}
                        /\ t.synced \in BOOLEAN
    /\ \A t, u \in temps : named(t, u.file, u.name) => t = u
    /\ phase \in {"setup", "down", "running"} \cup File
    /\ save_pc \in {"idle", "create", "write", "sync", "publish", "cleanup", "ok"}
    /\ job.file \in File <=> save_pc # "idle"
    /\ tries \in 0..MaxTries /\ leaked \in Nat
    /\ loaded \in [File -> Value \cup {NoFile}] /\ acked \in [File -> Value \cup {NoFile}]
    /\ restored \in [File -> Value \cup {NoFile}]

(* The stores implement AtomicFiles: over any mix of failing calls and     *)
(* crashes a file goes from one valid value to the next, a power failure   *)
(* takes it back to one it had, and it is never torn, nor missing once it  *)
(* exists.                                                                 *)
Atomic == INSTANCE AtomicFiles WITH content <- [f \in File |-> data(f)]
StoresAreAtomic == Atomic!Spec

(* What a file may hold for the service: its last reported save, or, if a  *)
(* power failure has undone that one, what the disk had of it.             *)
expected(f, v) == v = IF restored[f] = NoFile THEN acked[f] ELSE restored[f]

(* A file holds what its last successful save reported, or what a power    *)
(* failure took it back to, unless a save of it has just been published    *)
(* and is about to report success: a save that reported an error changed   *)
(* nothing.                                                                *)
ReportedIsStored ==
    \A f \in File : expected(f, data(f)) \/ (save_pc = "ok" /\ job.file = f /\ data(f) = job.value)

(* Files are replaced whole, exactly when a save says so.                  *)
StoresKeepTheirWord == StoresAreAtomic /\ []ReportedIsStored

(* Temporary files are left behind by crashes, power failures and failed   *)
(* removals only, not by the failures save() handles.                      *)
NoTempLeak ==
    Cardinality(temps) <= leaked + (IF save_pc \in {"write", "sync", "publish", "cleanup"} THEN 1 ELSE 0)

(* The service starts from what was last saved, in all three files, or from*)
(* what a power failure took one back to: never from a default, a temporary*)
(* file or a part of them.                                                 *)
StartsFromSaved ==
    [][phase # "running" /\ phase' = "running" => \A f \in File : expected(f, loaded'[f])]_store_vars

(* Even if ReplaceFileW loses the file it replaces, what is left behind is *)
(* bounded, and a start takes all of what was saved or fails.              *)
StoreRecovers == [](StoreTypeOK /\ NoTempLeak) /\ StartsFromSaved
=============================================================================
