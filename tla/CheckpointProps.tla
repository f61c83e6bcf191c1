-------------------------- MODULE CheckpointProps --------------------------
(***************************************************************************)
(* What is claimed of checkpoint.ts.                                       *)
(***************************************************************************)
EXTENDS CheckpointFile

\* The durable state a reader would get, seen through the file system.
Stored ==
    IF main = NoFile THEN NoFile
    ELSE IF Valid(data[main]) THEN data[main] ELSE Torn

Asked(p) ==
    CASE pc[p] = "idle" -> "nothing"
      [] pc[p] \in {"write", "rename"} -> "save"
      [] pc[p] \in {"read", "quarantine", "clean", "unlink"} -> "load"
      [] OTHER -> "erase"

Wanted(p) == IF chain[p] = <<>> THEN NoFile ELSE Head(chain[p])

Store == INSTANCE CheckpointStore WITH
    None <- NoFile, Bad <- Torn, stored <- Stored, acked <- acked,
    asked <- [p \in Procs |-> Asked(p)], wanted <- [p \in Procs |-> Wanted(p)]

\* With one server process on a project directory the file-system calls of
\* checkpoint.ts implement the abstract store: whatever crash, failed write or
\* edit from outside comes between two calls, a save is seen whole or not at
\* all, a save that returned true is what checkpoint.json holds at that moment,
\* and a reader quarantines a checkpoint only if it is invalid.
ImplementsStore == Store!Spec

\* checkpoint.json holds no half-written state.
MainValid == main # NoFile => Valid(data[main])

\* "Atomically write a checkpoint to disk" (checkpoint.ts): no step of the
\* flywheel, finished or cut short, makes a valid checkpoint.json invalid; only
\* an edit from outside does.
OnlyEditsTear == [][Tamper \/ (MainValid => MainValid')]_vars

-----------------------------------------------------------------------------
(* The inductive invariants behind ImplementsStore and OnlyEditsTear.      *)

OneProcess == \A p, q \in Procs : p = q

\* A write owns the state at the head of its process's chain.
WriteOwnsHead ==
    \A p \in Procs : pc[p] \in {"write", "rename"} => chain[p] # <<>>

\* The file being written is never the file readers see.
TmpApart == main # NoFile => main # tmp

\* Between the calls of one write nobody else touches the tmp, and the bytes
\* a reader is about to set aside stay invalid.
WriteOwnsTmp ==
    \A p \in Procs :
        /\ pc[p] = "write" => tmp # NoFile /\ fd[p] = tmp /\ data[tmp] = Empty
        /\ pc[p] = "rename" => tmp # NoFile /\ data[tmp] = Head(chain[p])
        /\ pc[p] = "quarantine" => main # NoFile /\ ~Valid(data[main])

IInv == TypeOK /\ WriteOwnsHead /\ TmpApart /\ WriteOwnsTmp

\* Processes that load, clear or die beside a write do no harm to what it
\* publishes: they may take its tmp away, and its rename fails.
OneWriter == \A p, q \in Procs : {pc[p], pc[q]} \subseteq {"write", "rename"} => p = q

TmpIsWhole ==
    \A p \in Procs :
        /\ pc[p] = "write" => /\ fd[p] \in Inodes \ {main} /\ tmp \in {fd[p], NoFile}
                             /\ data[fd[p]] = Empty
        /\ pc[p] = "rename" => tmp = NoFile \/ data[tmp] = Head(chain[p])

WriterInv == TypeOK /\ WriteOwnsHead /\ TmpApart /\ TmpIsWhole
=============================================================================
