------------------------------ MODULE Dashboard ------------------------------
(***************************************************************************)
(* web/jobs.py: the jobs of the engine's own dashboard.  Each job is a     *)
(* thread; the registry keeps the last MaxJobs and a finished job's result *)
(* is kept in a file, which is all that survives a restart.  Every call on *)
(* a file may raise an OSError, and the code swallows most of them.        *)
(***************************************************************************)
EXTENDS Integers, SequencesExt

CONSTANTS
    Jobs, MaxJobs,
    MaxCrashes,     \* bound: restarts
    MaxWriteErrors, \* bound: jobs whose file cannot be written
    MaxFileErrors   \* bound: files that cannot be removed or read

ASSUME DashboardAssumption ==
    /\ MaxJobs \in Nat \ {0} /\ MaxCrashes \in Nat
    /\ MaxWriteErrors \in Nat /\ MaxFileErrors \in Nat

VARIABLES
    order,          \* JobStore._order, whose ids are the keys of _jobs
    status,         \* of each job, "none" before it is created
    thread,         \* where the thread of each job is
    storage,        \* whether storage_dir is set: without it, memory only
    disk,           \* the ids with a report file
    temps,          \* the ids with a temporary file
    written,        \* the ids whose temporary file was written, in that order:
                    \* a report file keeps the time of its temporary one
    unwritten,      \* the jobs whose file could not be written
    fileErrors,     \* how often a file could not be removed or read
    crashes

fileVars == <<disk, temps, written, unwritten, fileErrors>>
dashVars == <<order, status, thread, storage, fileVars, crashes>>

DashInit ==
    /\ order = <<>> /\ disk = {} /\ temps = {} /\ written = <<>> /\ unwritten = {}
    /\ storage \in BOOLEAN /\ fileErrors = 0 /\ crashes = 0
    /\ status = [j \in Jobs |-> "none"]
    /\ thread = [j \in Jobs |-> "none"]

(* create and run: the oldest job makes room, with its file, whether or not *)
(* its thread has ended.  The registry is never over its limit before, so   *)
(* the loop that evicts runs at most once.  A file that cannot be removed   *)
(* stays (_forget).                                                         *)
Create(j) ==
    LET all == Append(order, j)
        evicted == IF Len(all) > MaxJobs THEN {Head(all)} ELSE {}
    IN  /\ status[j] = "none" /\ thread[j] = "none"
        /\ order' = IF evicted # {} THEN Tail(all) ELSE all
        /\ \/ disk' = (IF storage THEN disk \ evicted ELSE disk) /\ UNCHANGED fileErrors
           \/ /\ storage /\ evicted \cap disk # {} /\ fileErrors < MaxFileErrors
              /\ fileErrors' = fileErrors + 1 /\ UNCHANGED disk
        /\ status' = [status EXCEPT ![j] = "queued"]
        /\ thread' = [thread EXCEPT ![j] = "ready"]
        /\ UNCHANGED <<storage, temps, written, unwritten, crashes>>

Begin(j) ==
    /\ thread[j] = "ready"
    /\ thread' = [thread EXCEPT ![j] = "working"]
    /\ status' = [status EXCEPT ![j] = "running"]
    /\ UNCHANGED <<order, storage, fileVars, crashes>>

WorkReturns(j) ==
    /\ thread[j] = "working"
    /\ thread' = [thread EXCEPT ![j] = "write"]
    /\ UNCHANGED <<order, status, storage, fileVars, crashes>>

WorkRaises(j) ==
    /\ thread[j] = "working"
    /\ thread' = [thread EXCEPT ![j] = "over"]
    /\ status' = [status EXCEPT ![j] = "error"]
    /\ UNCHANGED <<order, storage, fileVars, crashes>>

(* One more file that cannot be written.                                    *)
Unwritable(j) ==
    Cardinality(unwritten) < MaxWriteErrors /\ unwritten' = unwritten \cup {j}

(* _persist, first half: the temporary file, outside the lock.              *)
WriteTemp(j) ==
    /\ thread[j] = "write"
    /\ \/ /\ storage
          /\ temps' = temps \cup {j} /\ written' = Append(written, j)
          /\ thread' = [thread EXCEPT ![j] = "rename"]
          /\ UNCHANGED unwritten
       \/ /\ storage /\ Unwritable(j)
          /\ thread' = [thread EXCEPT ![j] = "flip"]
          /\ UNCHANGED <<temps, written>>
       \/ /\ ~storage
          /\ thread' = [thread EXCEPT ![j] = "flip"]
          /\ UNCHANGED <<temps, written, unwritten>>
    /\ UNCHANGED <<order, status, storage, disk, fileErrors, crashes>>

(* Mutant: the file is kept whether or not its job still is.                *)
RenameAnyway(j) ==
    /\ thread[j] = "rename"
    /\ temps' = temps \ {j}
    /\ disk' = disk \cup {j}
    /\ thread' = [thread EXCEPT ![j] = "flip"]
    /\ UNCHANGED <<order, status, storage, written, unwritten, fileErrors, crashes>>

(* _persist, second half, under the lock that eviction holds.  A job that   *)
(* was evicted, and one whose file cannot be renamed, leaves no temporary   *)
(* file either; when that cannot be removed the thread ends in an error.    *)
Rename(j) ==
    /\ thread[j] = "rename"
    /\ \/ /\ disk' = disk \cup ({j} \cap ToSet(order))
          /\ temps' = temps \ {j}
          /\ thread' = [thread EXCEPT ![j] = "flip"]
          /\ UNCHANGED <<status, unwritten>>
       \/ /\ j \in ToSet(order) /\ Unwritable(j)
          /\ temps' = temps \ {j}
          /\ thread' = [thread EXCEPT ![j] = "flip"]
          /\ UNCHANGED <<status, disk>>
       \/ /\ Unwritable(j)
          /\ thread' = [thread EXCEPT ![j] = "over"]
          /\ status' = [status EXCEPT ![j] = "error"]
          /\ UNCHANGED <<disk, temps>>
    /\ UNCHANGED <<order, storage, written, fileErrors, crashes>>

Flip(j) ==
    /\ thread[j] = "flip"
    /\ status' = [status EXCEPT ![j] = "done"]
    /\ thread' = [thread EXCEPT ![j] = "over"]
    /\ UNCHANGED <<order, storage, fileVars, crashes>>

(* The members of a sequence that are in a set, in order.                   *)
KeepIf(acc, j, S) == IF j \in S THEN Append(acc, j) ELSE acc
KeptIn(s, S) == FoldLeft(LAMBDA acc, j : KeepIf(acc, j, S), <<>>, s)

(* The files, by their time, that _load_from_disk looks at.                 *)
Youngest(s) == SubSeq(s, Max({1, Len(s) - MaxJobs + 1}), Len(s))

(* The process dies with its threads.  __init__ lists the youngest files,   *)
(* passing over those it cannot read, and whatever they say, their jobs are *)
(* done.  A directory it cannot make or list means memory only.             *)
Restart ==
    LET young == Youngest(KeptIn(written, disk))
    IN  /\ crashes < MaxCrashes /\ crashes' = crashes + 1
        /\ \/ /\ storage' = TRUE
              /\ \E unread \in SUBSET ToSet(young) :
                   /\ fileErrors' = fileErrors + Cardinality(unread)
                   /\ fileErrors' <= MaxFileErrors
                   /\ order' = KeptIn(young, ToSet(young) \ unread)
           \/ storage' = FALSE /\ order' = <<>> /\ UNCHANGED fileErrors
        /\ status' = [j \in Jobs |->
                        CASE j \in ToSet(order') -> "done"
                          [] status[j] # "none" /\ j \notin ToSet(order') -> "lost"
                          [] OTHER -> "none"]
        /\ thread' = [j \in Jobs |-> IF thread[j] = "none" THEN "none" ELSE "over"]
        /\ UNCHANGED <<disk, temps, written, unwritten>>

-----------------------------------------------------------------------------
(* web/jobs.py:119, "A job evicted while its thread was still working must  *)
(* not leave a file behind", and :182, "a client that sees "done" and asks  *)
(* for the report always finds it on disk too", as far as the file system   *)
(* allows: across evictions and restarts there are never more files without *)
(* a listed job than there were removals and reads that failed, and every   *)
(* listed job that is done has its file, unless it was unwritable.          *)
DiskMatchesRegistry ==
    storage =>
        /\ Cardinality(disk \ ToSet(order)) <= fileErrors
        /\ \A j \in ToSet(order) : status[j] = "done" => j \in disk \cup unwritten
=============================================================================
