--------------------------- MODULE CheckpointFile ---------------------------
(***************************************************************************)
(* The checkpoint file of mcp-server/src/checkpoint.ts at the level of the *)
(* file-system calls it makes.                                             *)
(*                                                                         *)
(* Every server process of one project directory shares three names below  *)
(* .pi-flywheel/: checkpoint.json (main), checkpoint.json.tmp (tmp) and    *)
(* checkpoint.json.corrupt (corrupt).  A name points to an inode, and what *)
(* a file holds belongs to the inode: a process that still has the old     *)
(* tmp open writes into whatever name that inode has by then.              *)
(*                                                                         *)
(* Inside one process writeCheckpointInner, readCheckpoint and             *)
(* clearCheckpoint run without an await, so one process does one of them   *)
(* at a time (pc).  Two processes interleave call by call, and a process   *)
(* can be killed between any two calls.                                    *)
(***************************************************************************)
EXTENDS Naturals, Sequences

CONSTANTS
    Procs,      \* server processes that share the project directory
    States,     \* flywheel states worth telling apart
    Inodes,     \* the files that can exist at once (a bound)
    NoFile,     \* a name with no file behind it
    Empty,      \* what a file holds right after open(O_TRUNC)
    Torn,       \* bytes that JSON.parse or validateCheckpoint rejects
    MaxQueue,   \* bound: writes queued on one process's promise chain
    MayTamper   \* whether something outside the flywheel edits the file

ASSUME NoFileAssumption  == NoFile \notin Inodes
ASSUME ContentAssumption == /\ Empty \notin States /\ Torn \notin States /\ Empty # Torn
                            /\ NoFile \notin States \cup {Empty, Torn}
ASSUME QueueAssumption   == MaxQueue \in Nat \ {0}

VARIABLES
    main, tmp, corrupt, \* the three names: an inode or NoFile
    data,               \* what each inode holds
    pc,                 \* the call each process makes next
    fd,                 \* the file each process has open for writing
    chain,              \* writeLocks: the writes queued in each process
    acked               \* the state the last write that returned true wrote

vars == <<main, tmp, corrupt, data, pc, fd, chain, acked>>

Content == States \cup {Empty, Torn}
Name    == Inodes \cup {NoFile}
Steps   == {"idle", "write", "rename", "clean", "unlink", "read",
            "quarantine", "clear", "backup"}

TypeOK ==
    /\ main \in Name /\ tmp \in Name /\ corrupt \in Name
    /\ data \in [Inodes -> Content]
    /\ pc \in [Procs -> Steps]
    /\ fd \in [Procs -> Name]
    /\ chain \in [Procs -> Seq(States)]
    /\ acked \in [Procs -> States \cup {NoFile}]

Init ==
    /\ main = NoFile /\ tmp = NoFile /\ corrupt = NoFile
    /\ data = [i \in Inodes |-> Empty]
    /\ pc = [p \in Procs |-> "idle"]
    /\ fd = [p \in Procs |-> NoFile]
    /\ chain = [p \in Procs |-> <<>>]
    /\ acked = [p \in Procs |-> NoFile]

-----------------------------------------------------------------------------
(* Writing: writeCheckpoint queues, writeCheckpointInner does the calls.   *)

\* A file no name and no open descriptor refers to.
Free(i) == i \notin {main, tmp, corrupt} /\ \A p \in Procs : fd[p] # i

\* writeCheckpoint: append to this process's promise chain.
Save(p, s) ==
    /\ pc[p] = "idle"
    /\ Len(chain[p]) < MaxQueue
    /\ chain' = [chain EXCEPT ![p] = Append(@, s)]
    /\ UNCHANGED <<main, tmp, corrupt, data, pc, fd, acked>>

\* Mutant: the state is written to checkpoint.json itself, without a tmp file.
OpenMain(p) ==
    /\ pc[p] = "idle"
    /\ chain[p] # <<>>
    /\ \E i \in Inodes :
         /\ IF main = NoFile THEN Free(i) ELSE i = main
         /\ main' = i
         /\ tmp' = i
         /\ data' = [data EXCEPT ![i] = Empty]
         /\ fd' = [fd EXCEPT ![p] = i]
    /\ pc' = [pc EXCEPT ![p] = "write"]
    /\ UNCHANGED <<corrupt, chain, acked>>

\* The open of writeFileSync(tmpFile): truncate the tmp that is there, or
\* create it.
OpenTmp(p) ==
    /\ pc[p] = "idle"
    /\ chain[p] # <<>>
    /\ \E i \in Inodes :
         /\ IF tmp = NoFile THEN Free(i) ELSE i = tmp
         /\ tmp' = i
         /\ data' = [data EXCEPT ![i] = Empty]
         /\ fd' = [fd EXCEPT ![p] = i]
    /\ pc' = [pc EXCEPT ![p] = "write"]
    /\ UNCHANGED <<main, corrupt, chain, acked>>

\* The write of writeFileSync: bytes go to the open file from offset 0.  When
\* another process wrote a longer text there first, its tail stays behind.
WriteTmp(p) ==
    /\ pc[p] = "write"
    /\ \E c \in {Head(chain[p]), Torn} :
         /\ c = Torn => data[fd[p]] # Empty
         /\ data' = [data EXCEPT ![fd[p]] = c]
    /\ fd' = [fd EXCEPT ![p] = NoFile]
    /\ pc' = [pc EXCEPT ![p] = "rename"]
    /\ UNCHANGED <<main, tmp, corrupt, chain, acked>>

\* writeFileSync throws part of the way (disk full): the catch returns false
\* and leaves the tmp behind.
WriteFails(p) ==
    /\ pc[p] = "write"
    /\ data' \in {data, [data EXCEPT ![fd[p]] = Torn]}
    /\ fd' = [fd EXCEPT ![p] = NoFile]
    /\ pc' = [pc EXCEPT ![p] = "idle"]
    /\ chain' = [chain EXCEPT ![p] = Tail(@)]
    /\ UNCHANGED <<main, tmp, corrupt, acked>>

\* guardedRename(tmp, main).  It throws when the tmp is gone, and the write
\* returns false; otherwise the write returns true.
RenameTmp(p) ==
    /\ pc[p] = "rename"
    /\ \/ /\ tmp = NoFile
          /\ UNCHANGED <<main, tmp, acked>>
       \/ /\ tmp # NoFile
          /\ main' = tmp
          /\ tmp' = NoFile
          /\ acked' = [acked EXCEPT ![p] = Head(chain[p])]
    /\ pc' = [pc EXCEPT ![p] = "idle"]
    /\ chain' = [chain EXCEPT ![p] = Tail(@)]
    /\ UNCHANGED <<corrupt, data, fd>>

-----------------------------------------------------------------------------
(* Reading: loadState, flywheel_observe and flywheel_doctor all come here. *)

Valid(c) == c \in States

\* readCheckpoint: the existsSync test.
ReadExists(p) ==
    /\ pc[p] = "idle"
    /\ pc' = [pc EXCEPT ![p] = IF main = NoFile THEN "clean" ELSE "read"]
    /\ UNCHANGED <<main, tmp, corrupt, data, fd, chain, acked>>

\* Mutant: a checkpoint is quarantined without being validated first.
ReadUnvalidated(p) ==
    /\ pc[p] = "read"
    /\ pc' = [pc EXCEPT ![p] = IF main # NoFile THEN "quarantine" ELSE "idle"]
    /\ UNCHANGED <<main, tmp, corrupt, data, fd, chain, acked>>

\* readFileSync, JSON.parse and validateCheckpoint.
ReadMain(p) ==
    /\ pc[p] = "read"
    /\ pc' = [pc EXCEPT ![p] =
                IF main # NoFile /\ ~Valid(data[main]) THEN "quarantine" ELSE "idle"]
    /\ UNCHANGED <<main, tmp, corrupt, data, fd, chain, acked>>

\* moveToCorrupt: rename whatever checkpoint.json is by now.  When the file is
\* gone the rename throws, and the delete that follows finds nothing.
Quarantine(p) ==
    /\ pc[p] = "quarantine"
    /\ main' = NoFile
    /\ corrupt' = IF main = NoFile THEN corrupt ELSE main
    /\ pc' = [pc EXCEPT ![p] = "idle"]
    /\ UNCHANGED <<tmp, data, fd, chain, acked>>

\* cleanupOrphanedTmp, its existsSync and its unlink.
CleanTmpExists(p) ==
    /\ pc[p] = "clean"
    /\ pc' = [pc EXCEPT ![p] = IF tmp = NoFile THEN "idle" ELSE "unlink"]
    /\ UNCHANGED <<main, tmp, corrupt, data, fd, chain, acked>>

CleanTmp(p) ==
    /\ pc[p] = "unlink"
    /\ tmp' = NoFile
    /\ pc' = [pc EXCEPT ![p] = "idle"]
    /\ UNCHANGED <<main, corrupt, data, fd, chain, acked>>

-----------------------------------------------------------------------------
(* Deliberate removal, crashes and edits from outside.                     *)

\* clearCheckpoint: delete checkpoint.json, then cleanupOrphanedTmp.  It does
\* not wait for the writes queued on the chain.
ClearExists(p) ==
    /\ pc[p] = "idle"
    /\ pc' = [pc EXCEPT ![p] = IF main = NoFile THEN "clean" ELSE "clear"]
    /\ UNCHANGED <<main, tmp, corrupt, data, fd, chain, acked>>

Clear(p) ==
    /\ pc[p] = "clear"
    \* A file that vanished since existsSync makes unlinkSync throw, and the
    \* outer catch skips the tmp.
    /\ pc' = [pc EXCEPT ![p] = IF main = NoFile THEN "idle" ELSE "clean"]
    /\ main' = NoFile
    /\ UNCHANGED <<tmp, corrupt, data, fd, chain, acked>>

\* The checkpoint_validity remediation: move checkpoint.json to a backup of
\* its own name.  The backup is never read again.
BackupExists(p) ==
    /\ pc[p] = "idle"
    /\ main # NoFile
    /\ pc' = [pc EXCEPT ![p] = "backup"]
    /\ UNCHANGED <<main, tmp, corrupt, data, fd, chain, acked>>

Backup(p) ==
    /\ pc[p] = "backup"
    /\ main' = NoFile
    /\ pc' = [pc EXCEPT ![p] = "idle"]
    /\ UNCHANGED <<tmp, corrupt, data, fd, chain, acked>>

\* A process is killed between two calls.  Its queue and its open file go.
Crash(p) ==
    /\ pc[p] # "idle" \/ chain[p] # <<>>
    /\ pc' = [pc EXCEPT ![p] = "idle"]
    /\ fd' = [fd EXCEPT ![p] = NoFile]
    /\ chain' = [chain EXCEPT ![p] = <<>>]
    /\ UNCHANGED <<main, tmp, corrupt, data, acked>>

\* An editor, a merge or another release of the plugin leaves a checkpoint
\* this release rejects.
Tamper ==
    /\ MayTamper
    /\ main # NoFile
    /\ data' = [data EXCEPT ![main] = Torn]
    /\ UNCHANGED <<main, tmp, corrupt, pc, fd, chain, acked>>

-----------------------------------------------------------------------------
Write(p) == OpenTmp(p) \/ WriteTmp(p) \/ WriteFails(p) \/ RenameTmp(p)
Load(p)  == ReadExists(p) \/ ReadMain(p) \/ Quarantine(p)
            \/ CleanTmpExists(p) \/ CleanTmp(p)
Erase(p) == ClearExists(p) \/ Clear(p) \/ BackupExists(p) \/ Backup(p)

Step(p) == (\E s \in States : Save(p, s)) \/ Write(p) \/ Load(p) \/ Erase(p) \/ Crash(p)

Next == (\E p \in Procs : Step(p)) \/ Tamper

Spec == Init /\ [][Next]_vars
=============================================================================
