------------------------------ MODULE AsyncStorage ------------------------------
(*************************************************************************)
(* One database of @react-native-async-storage/async-storage             *)
(* (turbomodules/rn_async_storage_module.cpp): a file that is loaded on  *)
(* first use and replaced as a whole by every write.  JavaScript posts   *)
(* calls, and one thread runs them in order.  Each access to the file    *)
(* system is a step that may fail, and the process may crash between any *)
(* two of them and start again.                                          *)
(*************************************************************************)
EXTENDS Naturals, Sequences

CONSTANTS Keys, MaxAccesses, MaxCrashes

ASSUME StorageBounds == MaxAccesses \in Nat /\ MaxCrashes \in Nat

VARIABLES
  disk,      \* the database's file and its temporary one
  memory,    \* RNStorageFile: its values, and whether it is loaded
  tasks,     \* RNStorageThread::tasks
  working,   \* where the thread is in its task
  accesses,  \* how many calls JavaScript has made
  crashes,   \* how often the process has crashed
  promised   \* history: the values each key may have, by what JavaScript was told
storageVars == <<disk, memory, tasks, working, accesses, crashes, promised>>

(* A value is the number of the write that stored it.  A file that was cut short  *)
(* or that somebody else wrote holds no database.                                 *)
None == 0
Empty == [k \in Keys |-> None]
Absent == [is |-> "absent", values |-> Empty]
Corrupt == [is |-> "corrupt", values |-> Empty]
Whole(values) == [is |-> "whole", values |-> values]
NotLoaded == [values |-> Empty, loaded |-> FALSE]
NoTask == [does |-> "nothing", key |-> CHOOSE k \in Keys : TRUE, value |-> None]
Resting == [at |-> "idle", task |-> NoTask]

StorageInit ==
  /\ disk \in [file : {Whole(Empty), Corrupt, Absent}, temporary : {Absent}]
  /\ memory = NotLoaded /\ tasks = <<>> /\ working = Resting
  /\ accesses = 0 /\ crashes = 0 /\ promised = [k \in Keys |-> {None}]

(***************************************************************************)
(* JavaScript's calls: RNAsyncStorageModule::_run posts them.               *)
(***************************************************************************)
Run(does, k, value) ==
  /\ accesses < MaxAccesses /\ accesses' = accesses + 1
  /\ tasks' = Append(tasks, [does |-> does, key |-> k, value |-> value])
  /\ UNCHANGED <<disk, memory, working, crashes, promised>>

SetValues(k) == Run("write", k, accesses + 1)
RemoveValues(k) == Run("write", k, None)
ClearStorage == Run("clear", NoTask.key, None)
GetValues == Run("read", NoTask.key, None)

(***************************************************************************)
(* The storage thread.  A step goes to the next one or rejects the promise; *)
(* whoever made a write that is rejected may find it stored all the same.   *)
(***************************************************************************)
At(place) == working.at = place
Go(place) == working' = [working EXCEPT !.at = place]
Reject == working' = Resting

StartTask ==
  /\ At("idle") /\ tasks # <<>>
  /\ tasks' = Tail(tasks)
  /\ working' = [at |-> IF Head(tasks).does = "clear" THEN "work" ELSE "load", task |-> Head(tasks)]
  /\ UNCHANGED <<disk, memory, accesses, crashes, promised>>

\* RNStorageFile::load.
Load ==
  /\ At("load")
  /\ \/ /\ memory.loaded \/ disk.file # Corrupt
        /\ memory' = IF memory.loaded THEN memory
                     ELSE [values |-> disk.file.values, loaded |-> TRUE]
        /\ IF working.task.does = "read" THEN working' = Resting ELSE Go("work")
     \/ ~memory.loaded /\ disk.file # Absent /\ Reject /\ UNCHANGED memory
  /\ UNCHANGED <<disk, tasks, accesses, crashes, promised>>

\* What the task does to the values: setValues, removeValues, RNStorageFile::reset.
Written(values, task) ==
  IF task.does = "clear" THEN Empty ELSE [values EXCEPT ![task.key] = task.value]

Work ==
  /\ At("work")
  /\ memory' = [values |-> Written(memory.values, working.task), loaded |-> TRUE]
  /\ promised' = [k \in Keys |-> promised[k] \cup {memory'.values[k]}]
  /\ Go("open")
  /\ UNCHANGED <<disk, tasks, accesses, crashes>>

(* RNStorageFile::save.  Opening the temporary file cuts it to nothing, and what  *)
(* is stored in it may be cut short; only its size is read back.                  *)
OpenTemporary ==
  /\ At("open")
  /\ \/ disk' = [disk EXCEPT !.temporary = Corrupt] /\ Go("store")
     \/ Reject /\ UNCHANGED disk
  /\ UNCHANGED <<memory, tasks, accesses, crashes, promised>>

StoreString ==
  /\ At("store") /\ Go("read back")
  /\ \/ disk' = [disk EXCEPT !.temporary = Whole(memory.values)]
     \/ UNCHANGED disk
  /\ UNCHANGED <<memory, tasks, accesses, crashes, promised>>

\* Mutant: whatever was stored replaces the file.
ReadBackNothing ==
  /\ At("read back") /\ Go("rename")
  /\ UNCHANGED <<disk, memory, tasks, accesses, crashes, promised>>

ReadBack ==
  /\ At("read back")
  /\ \/ disk.temporary # Corrupt /\ Go("rename") /\ UNCHANGED disk
     \/ disk' = [disk EXCEPT !.temporary = Absent] /\ Reject
  /\ UNCHANGED <<memory, tasks, accesses, crashes, promised>>

Rename ==
  /\ At("rename")
  /\ \/ disk' = [file |-> disk.temporary, temporary |-> Absent] /\ Go("resolve")
     \/ Reject /\ UNCHANGED disk
  /\ UNCHANGED <<memory, tasks, accesses, crashes, promised>>

\* The promise is resolved: JavaScript knows what is stored under the keys it wrote.
Resolve ==
  LET known == IF working.task.does = "clear" THEN Keys ELSE {working.task.key}
  IN /\ At("resolve") /\ working' = Resting
     /\ promised' = [k \in Keys |-> IF k \in known THEN {Written(Empty, working.task)[k]}
                                    ELSE promised[k]]
     /\ UNCHANGED <<disk, memory, tasks, accesses, crashes>>

Crash ==
  /\ crashes < MaxCrashes /\ crashes' = crashes + 1
  /\ memory' = NotLoaded /\ tasks' = <<>> /\ working' = Resting
  /\ UNCHANGED <<disk, accesses, promised>>

StorageNext ==
  \/ \E k \in Keys : SetValues(k) \/ RemoveValues(k)
  \/ ClearStorage \/ GetValues \/ StartTask \/ Load \/ Work \/ OpenTemporary \/ StoreString
  \/ ReadBack \/ Rename \/ Resolve \/ Crash
StorageSpec == StorageInit /\ [][StorageNext]_storageVars

(***************************************************************************)
(* Property.                                                               *)
(***************************************************************************)
(* What a promise said is stored stays stored, whatever fails and whenever the     *)
(* process crashes, until a later write of the same key; a later write that was    *)
(* rejected may or may not be stored.  A file that can be read is never replaced   *)
(* by one that cannot, and what is read agrees with what is in memory.             *)
AcknowledgedWritesSurvive ==
  /\ disk.file # Corrupt => \A k \in Keys : disk.file.values[k] \in promised[k]
  /\ memory.loaded => \A k \in Keys : memory.values[k] \in promised[k]
  /\ disk.file = Corrupt => \A k \in Keys : None \in promised[k]
=================================================================================
