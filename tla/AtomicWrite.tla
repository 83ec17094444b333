----------------------------- MODULE AtomicWrite -----------------------------
(***************************************************************************)
(* atomic_write of persist.rs, one action per system call, on a file       *)
(* system that may lose power.  A component that keeps a file extends this *)
(* module: it calls Create with the data to write, goes on when SyncDir or *)
(* Fail ends the write, and reads the file through name.                   *)
(*                                                                         *)
(* What a power loss may leave is kept as a set: a rename that is not      *)
(* followed by an fsync of the directory may or may not survive, and data  *)
(* renamed before its own fsync may come back torn.  A temporary file that *)
(* stays behind is truncated by the next write; what it holds is dropped.  *)
(***************************************************************************)

CONSTANTS
    Torn            \* a file of which only a part reached the disk

VARIABLES
    name,           \* what the target name shows to whoever reads it now
    disk,           \* what a power loss may leave under that name
    tmp,            \* what the write in progress puts into its temporary file
    step            \* how far atomic_write is

fileVars == <<name, disk, tmp, step>>

Steps == {"none", "written", "synced", "renamed"}

\* The file before the first write.
FileInit(data) ==
    /\ name = data
    /\ disk = {data}
    /\ tmp = data
    /\ step = "none"

\* File::create and write_all
Create(data) ==
    /\ tmp' = data
    /\ step' = "written"
    /\ UNCHANGED <<name, disk>>

\* sync_all
Sync ==
    /\ step = "written"
    /\ step' = "synced"
    /\ UNCHANGED <<name, disk, tmp>>

\* What the renamed file may hold after a power loss.
Flushed == IF step = "synced" THEN {tmp} ELSE {tmp, Torn}

\* fs::rename
Rename ==
    /\ step = "synced"
    /\ step' = "renamed"
    /\ name' = tmp
    /\ disk' = disk \cup Flushed
    /\ UNCHANGED tmp

\* fsync_dir, and Ok for the caller
SyncDir ==
    /\ step = "renamed"
    /\ step' = "none"
    /\ disk' = {name}
    /\ UNCHANGED <<name, tmp>>

\* Any of the calls fails, and Err goes to the caller.  After the rename the
\* new file stays in place.
Fail ==
    /\ step # "none"
    /\ step' = "none" /\ tmp' = name
    /\ UNCHANGED <<name, disk>>

\* The process dies: the kernel keeps what it was given.
Abandon ==
    /\ step' = "none" /\ tmp' = name
    /\ UNCHANGED <<name, disk>>

\* Power is lost: one of the possible files is there when it comes back.
PowerLoss ==
    /\ \E data \in disk : name' = data /\ disk' = {data}
    /\ step' = "none" /\ tmp' = name'

-----------------------------------------------------------------------------

\* What is read under the name, now or after a power loss, is a whole file
\* that was written (persist.rs: "surviving power loss on Linux ext4").
NeverTorn == Torn \notin disk \cup {name}

=============================================================================
