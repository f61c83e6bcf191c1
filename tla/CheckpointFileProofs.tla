------------------------ MODULE CheckpointFileProofs ------------------------
(***************************************************************************)
(* Proofs about checkpoint.ts for every number of processes, states and    *)
(* files: type correctness, that checkpoint.json is never half-written     *)
(* while one process at a time writes, and with one process per directory  *)
(* that the file-system calls implement the abstract store.                *)
(***************************************************************************)
EXTENDS CheckpointProps, TLAPS

TypeInv == TypeOK /\ WriteOwnsHead

LEMMA InitTypeInv == Init => TypeInv
BY DEF Init, TypeInv, TypeOK, WriteOwnsHead, Name, Content, Steps

\* No call of any process, and no edit from outside, leaves the types; a
\* process in the middle of a write has a state queued.
LEMMA NextTypeInv == TypeInv /\ [Next]_vars => TypeInv'
<1> SUFFICES ASSUME TypeInv, [Next]_vars PROVE TypeInv'
  OBVIOUS
<1> USE DEF TypeInv, TypeOK, WriteOwnsHead, Name, Content, Steps
<1>1. ASSUME NEW p \in Procs, NEW s \in States, Save(p, s) PROVE TypeInv'
  BY <1>1 DEF Save
<1>2. ASSUME NEW p \in Procs, Write(p) PROVE TypeInv'
  <2>1. CASE OpenTmp(p)
    BY <2>1 DEF OpenTmp
  <2>2. CASE WriteTmp(p)
    <3>1. Head(chain[p]) \in States
      BY <2>2 DEF WriteTmp
    <3>2. data' \in [Inodes -> Content]
      BY <2>2, <3>1 DEF WriteTmp
    <3> QED BY <2>2, <3>2 DEF WriteTmp
  <2>3. CASE WriteFails(p)
    <3>1. data' \in [Inodes -> Content]
      BY <2>3 DEF WriteFails
    <3> QED BY <2>3, <3>1 DEF WriteFails
  <2>4. CASE RenameTmp(p)
    <3>1. Head(chain[p]) \in States /\ Tail(chain[p]) \in Seq(States)
      BY <2>4 DEF RenameTmp
    <3> QED BY <2>4, <3>1 DEF RenameTmp
  <2> QED BY <1>2, <2>1, <2>2, <2>3, <2>4 DEF Write
<1>3. ASSUME NEW p \in Procs, Load(p) PROVE TypeInv'
  BY <1>3 DEF Load, ReadExists, ReadMain, Quarantine, CleanTmpExists, CleanTmp
<1>4. ASSUME NEW p \in Procs, Erase(p) PROVE TypeInv'
  BY <1>4 DEF Erase, ClearExists, Clear, BackupExists, Backup
<1>5. ASSUME NEW p \in Procs, Crash(p) PROVE TypeInv'
  BY <1>5 DEF Crash
<1>6. CASE Tamper
  BY <1>6 DEF Tamper
<1>7. CASE UNCHANGED vars
  BY <1>7 DEF vars
<1> QED BY <1>1, <1>2, <1>3, <1>4, <1>5, <1>6, <1>7 DEF Next, Step

\* Whatever the number of processes, the variables of the model keep their
\* types (checkpoint.ts and its callers).
THEOREM TypeCorrect == Spec => []TypeOK
<1>1. TypeInv => TypeOK
  BY DEF TypeInv
<1> QED BY InitTypeInv, NextTypeInv, <1>1, PTL DEF Spec
-----------------------------------------------------------------------------
(* One process per directory.                                              *)

LEMMA InitIInv == Init => IInv
<1> SUFFICES ASSUME Init PROVE IInv
  OBVIOUS
<1>1. TypeOK /\ WriteOwnsHead
  BY InitTypeInv DEF TypeInv
<1> QED BY <1>1 DEF IInv, Init, TmpApart, WriteOwnsTmp

\* The tmp of a write in progress stays apart from checkpoint.json and keeps
\* what the write put there.
LEMMA NextIInv == OneProcess /\ IInv /\ [Next]_vars => IInv'
<1> SUFFICES ASSUME OneProcess, IInv, [Next]_vars PROVE IInv'
  OBVIOUS
<1>0. TypeOK' /\ WriteOwnsHead'
  BY NextTypeInv DEF IInv, TypeInv
<1> SUFFICES TmpApart' /\ WriteOwnsTmp'
  BY <1>0 DEF IInv
<1> USE NoFileAssumption, ContentAssumption
    DEF IInv, TypeOK, WriteOwnsHead, TmpApart, WriteOwnsTmp, OneProcess,
        Name, Content, Steps, Valid
<1>1. ASSUME NEW p \in Procs, NEW s \in States, Save(p, s)
      PROVE TmpApart' /\ WriteOwnsTmp'
  BY <1>1 DEF Save
<1>2. ASSUME NEW p \in Procs, Write(p) PROVE TmpApart' /\ WriteOwnsTmp'
  <2>1. CASE OpenTmp(p)
    BY <2>1 DEF OpenTmp, Free
  <2>2. CASE WriteTmp(p)
    <3>1. tmp \in Inodes /\ fd[p] = tmp /\ data[tmp] = Empty
      BY <2>2 DEF WriteTmp
    <3>2. data' = [data EXCEPT ![tmp] = Head(chain[p])]
      BY <2>2, <3>1 DEF WriteTmp
    <3> QED BY <2>2, <3>1, <3>2 DEF WriteTmp
  <2>3. CASE WriteFails(p)
    BY <2>3 DEF WriteFails
  <2>4. CASE RenameTmp(p)
    BY <2>4 DEF RenameTmp
  <2> QED BY <1>2, <2>1, <2>2, <2>3, <2>4 DEF Write
<1>3. ASSUME NEW p \in Procs, Load(p) PROVE TmpApart' /\ WriteOwnsTmp'
  BY <1>3 DEF Load, ReadExists, ReadMain, Quarantine, CleanTmpExists, CleanTmp
<1>4. ASSUME NEW p \in Procs, Erase(p) PROVE TmpApart' /\ WriteOwnsTmp'
  BY <1>4 DEF Erase, ClearExists, Clear, BackupExists, Backup
<1>5. ASSUME NEW p \in Procs, Crash(p) PROVE TmpApart' /\ WriteOwnsTmp'
  BY <1>5 DEF Crash
<1>6. CASE Tamper
  BY <1>6 DEF Tamper
<1>7. CASE UNCHANGED vars
  BY <1>7 DEF vars
<1> QED BY <1>1, <1>2, <1>3, <1>4, <1>5, <1>6, <1>7 DEF Next, Step

LEMMA IInvCorrect == OneProcess => (Spec => []IInv)
<1> SUFFICES ASSUME OneProcess PROVE Spec => []IInv
  OBVIOUS
<1>1. IInv /\ [Next]_vars => IInv'
  BY NextIInv
<1> QED BY InitIInv, <1>1, PTL DEF Spec
-----------------------------------------------------------------------------
(* checkpoint.json is never half-written while one process writes.         *)

LEMMA InitWriter == Init => WriterInv
BY InitTypeInv DEF TypeInv, WriterInv, Init, TmpApart, TmpIsWhole

\* What the writer has open is not what readers see, and what it is about to
\* publish is whole, whatever other processes load, clear or set aside.
LEMMA NextWriter ==
    ASSUME WriterInv, OneWriter, OneWriter', [Next]_vars
    PROVE  WriterInv' /\ (Tamper \/ (MainValid => MainValid'))
<1>0. TypeOK' /\ WriteOwnsHead'
  BY NextTypeInv DEF WriterInv, TypeInv
<1> SUFFICES TmpApart' /\ TmpIsWhole' /\ (Tamper \/ (MainValid => MainValid'))
  BY <1>0 DEF WriterInv
<1> USE NoFileAssumption, ContentAssumption
    DEF WriterInv, TypeOK, WriteOwnsHead, TmpApart, TmpIsWhole, OneWriter, MainValid,
        Name, Content, Steps, Valid
<1>1. ASSUME NEW p \in Procs, NEW s \in States, Save(p, s)
      PROVE TmpApart' /\ TmpIsWhole' /\ (MainValid => MainValid')
  BY <1>1 DEF Save
<1>2. ASSUME NEW p \in Procs, Write(p) PROVE TmpApart' /\ TmpIsWhole' /\ (MainValid => MainValid')
  <2>1. CASE OpenTmp(p)
    <3>1. \A q \in Procs : q # p => pc[q] \notin {"write", "rename"}
      BY <2>1 DEF OpenTmp
    <3> QED BY <2>1, <3>1 DEF OpenTmp, Free
  <2>2. CASE WriteTmp(p)
    <3>1. /\ fd[p] \in Inodes \ {main} /\ tmp \in {fd[p], NoFile}
          /\ \A q \in Procs : q # p => pc[q] \notin {"write", "rename"}
      BY <2>2 DEF WriteTmp
    <3>2. data' = [data EXCEPT ![fd[p]] = Head(chain[p])]
      BY <2>2 DEF WriteTmp
    <3> QED BY <2>2, <3>1, <3>2 DEF WriteTmp
  <2>3. CASE WriteFails(p)
    <3>1. \A q \in Procs : q # p => pc[q] \notin {"write", "rename"}
      BY <2>3 DEF WriteFails
    <3>2. fd[p] \in Inodes \ {main} /\ \A i \in Inodes : i # fd[p] => data'[i] = data[i]
      BY <2>3 DEF WriteFails
    <3> QED BY <2>3, <3>1, <3>2 DEF WriteFails
  <2>4. CASE RenameTmp(p)
    <3>1. \A q \in Procs : q # p => pc[q] \notin {"write", "rename"}
      BY <2>4 DEF RenameTmp
    <3>2. Head(chain[p]) \in States /\ (tmp = NoFile \/ data[tmp] = Head(chain[p]))
      BY <2>4 DEF RenameTmp
    <3> QED BY <2>4, <3>1, <3>2 DEF RenameTmp
  <2> QED BY <1>2, <2>1, <2>2, <2>3, <2>4 DEF Write
<1>3. ASSUME NEW p \in Procs, Load(p) \/ Erase(p)
      PROVE TmpApart' /\ TmpIsWhole' /\ (MainValid => MainValid')
  <2>1. /\ UNCHANGED <<data, fd, chain>> /\ main' \in {main, NoFile} /\ tmp' \in {tmp, NoFile}
        /\ \E s \in {"idle", "clean", "unlink", "read", "quarantine", "clear", "backup"} :
               pc' = [pc EXCEPT ![p] = s]
    <3>1. CASE Load(p)
      BY <3>1 DEF Load, ReadExists, ReadMain, Quarantine, CleanTmpExists, CleanTmp
    <3>2. CASE Erase(p)
      BY <3>2 DEF Erase, ClearExists, Clear, BackupExists, Backup
    <3> QED BY <1>3, <3>1, <3>2
  <2>2. \A q \in Procs : pc'[q] \in {"write", "rename"} => pc'[q] = pc[q]
    BY <2>1
  <2>3. TmpApart'
    BY <2>1
  <2>4. MainValid => MainValid'
    BY <2>1
  <2>5. TmpIsWhole'
    BY <2>1, <2>2
  <2> QED BY <2>3, <2>4, <2>5
<1>5. ASSUME NEW p \in Procs, Crash(p) PROVE TmpApart' /\ TmpIsWhole' /\ (MainValid => MainValid')
  BY <1>5 DEF Crash
<1>6. CASE Tamper
  BY <1>6 DEF Tamper
<1>7. CASE UNCHANGED vars
  BY <1>7 DEF vars
<1> QED BY <1>1, <1>2, <1>3, <1>5, <1>6, <1>7 DEF Next, Step

\* However many processes load, clear, remediate and die: as long as one at a
\* time is between the open and the rename of a write, no crash, no failed
\* write and no other step of the flywheel ever makes a valid checkpoint.json
\* invalid (writeCheckpointInner).
THEOREM NeverHalfWritten == Spec /\ []OneWriter => OnlyEditsTear
<1>1. WriterInv /\ OneWriter /\ OneWriter' /\ [Next]_vars =>
          WriterInv' /\ [Tamper \/ (MainValid => MainValid')]_vars
  BY NextWriter
<1> QED BY InitWriter, <1>1, PTL DEF Spec, OnlyEditsTear

\* One process is one writer.
COROLLARY NeverHalfWrittenAlone == OneProcess => (Spec => OnlyEditsTear)
<1> SUFFICES ASSUME OneProcess PROVE Spec => OnlyEditsTear
  OBVIOUS
<1>1. OneWriter
  BY DEF OneProcess, OneWriter
<1> QED BY <1>1, NeverHalfWritten, PTL
-----------------------------------------------------------------------------
(* The refinement of CheckpointStore.                                      *)

LEMMA InitRefines == Init => Store!Init
BY DEF Init, Store!Init, Stored, Asked, Wanted

\* Each call of one process commits a save, sets a bad checkpoint aside,
\* erases, or changes nothing a reader can see.
LEMMA StepRefines ==
    ASSUME OneProcess, IInv, TypeOK', Next
    PROVE  Store!Next
<1> USE NoFileAssumption, ContentAssumption
    DEF IInv, TypeOK, WriteOwnsHead, TmpApart, WriteOwnsTmp, Name, Content, Valid
<1> DEFINE Moves == \/ \E p \in Procs : Store!Commit(p) \/ Store!SetAside(p) \/ Store!EraseStored(p)
                    \/ Store!Tamper
                    \/ Store!Request
<1>1. ASSUME NEW p \in Procs, NEW s \in States, Save(p, s) PROVE Moves
  BY <1>1 DEF Save, Stored, Store!Request
<1>2. ASSUME NEW p \in Procs, Write(p) PROVE Moves
  <2>1. CASE OpenTmp(p)
    BY <2>1 DEF OpenTmp, Free, Stored, Store!Request
  <2>2. CASE WriteTmp(p)
    BY <2>2 DEF WriteTmp, Stored, Store!Request
  <2>3. CASE WriteFails(p)
    BY <2>3 DEF WriteFails, Stored, Store!Request
  <2>4. CASE RenameTmp(p)
    <3>1. Asked(p) = "save" /\ Wanted(p) = Head(chain[p])
      BY <2>4 DEF RenameTmp, Asked, Wanted
    <3>2. Stored' = Head(chain[p])
      BY <2>4 DEF RenameTmp, Stored
    <3>3. acked' = [acked EXCEPT ![p] = Head(chain[p])]
      BY <2>4 DEF RenameTmp
    <3> QED BY <3>1, <3>2, <3>3 DEF Store!Commit
  <2> QED BY <1>2, <2>1, <2>2, <2>3, <2>4 DEF Write
<1>3. ASSUME NEW p \in Procs, Load(p) PROVE Moves
  <2>1. CASE Quarantine(p)
    BY <2>1 DEF Quarantine, Stored, Asked, Store!SetAside
  <2>2. CASE ReadExists(p) \/ ReadMain(p) \/ CleanTmpExists(p) \/ CleanTmp(p)
    BY <2>2 DEF ReadExists, ReadMain, CleanTmpExists, CleanTmp, Stored, Store!Request
  <2> QED BY <1>3, <2>1, <2>2 DEF Load
<1>4. ASSUME NEW p \in Procs, Erase(p) PROVE Moves
  <2>1. CASE Clear(p) \/ Backup(p)
    BY <2>1 DEF Clear, Backup, Stored, Asked, Store!EraseStored
  <2>2. CASE ClearExists(p) \/ BackupExists(p)
    BY <2>2 DEF ClearExists, BackupExists, Stored, Store!Request
  <2> QED BY <1>4, <2>1, <2>2 DEF Erase
<1>5. ASSUME NEW p \in Procs, Crash(p) PROVE Moves
  BY <1>5 DEF Crash, Stored, Store!Request
<1>6. ASSUME Tamper PROVE Moves
  BY <1>6 DEF Tamper, Stored, Store!Tamper
<1>7. Moves
  BY <1>1, <1>2, <1>3, <1>4, <1>5, <1>6 DEF Next, Step
<1>8. /\ [p \in Procs |-> Asked(p)]' \in [Procs -> Store!Requests]
      /\ [p \in Procs |-> Wanted(p)]' \in [Procs -> States \cup {NoFile}]
  <2> SUFFICES ASSUME NEW p \in Procs
               PROVE Asked(p)' \in Store!Requests /\ Wanted(p)' \in States \cup {NoFile}
    OBVIOUS
  <2>1. Asked(p)' \in Store!Requests
    BY DEF Asked, Store!Requests
  <2>2. Wanted(p)' \in States \cup {NoFile}
    BY DEF Wanted
  <2> QED BY <2>1, <2>2
<1> QED BY <1>7, <1>8 DEF Store!Next

\* With one server process the calls of checkpoint.ts implement the atomic
\* store, whatever crash, failed write or edit from outside intervenes.
THEOREM Refinement == OneProcess => (Spec => ImplementsStore)
<1> SUFFICES ASSUME OneProcess PROVE Spec => Store!Spec
  BY DEF ImplementsStore
<1>1. IInv /\ TypeOK' /\ [Next]_vars => [Store!Next]_(Store!vars)
  <2> SUFFICES ASSUME IInv, TypeOK', [Next]_vars PROVE [Store!Next]_(Store!vars)
    OBVIOUS
  <2>1. CASE Next
    BY <2>1, StepRefines
  <2>2. CASE UNCHANGED vars
    BY <2>2 DEF vars, Store!vars, Stored, Asked, Wanted
  <2> QED BY <2>1, <2>2
<1>2. Spec => []IInv
  BY IInvCorrect
<1>3. Spec => []TypeOK
  BY TypeCorrect
<1> QED BY InitRefines, <1>1, <1>2, <1>3, PTL DEF Spec, Store!Spec
=============================================================================
