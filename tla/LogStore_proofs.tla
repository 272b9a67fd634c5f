-------------------------- MODULE LogStore_proofs --------------------------
(* Theorems about LogStore, for any folders and any number of files.       *)
EXTENDS LogStore, TLAPS

USE LogAssumption

\* The settings file always yields a folder.
LEMMA LoadType == ASSUME TypeOK PROVE Load \in Dirs
BY DEF TypeOK, Load

\* A new log file is one, younger than every other.
LEMMA NewFileType ==
  ASSUME TypeOK, NEW s \in Used, made < MaxFiles
  PROVE  /\ NewFile(s) \in Files
         /\ NewFile(s).n = made + 1
         /\ NewFile(s).sub = s
         /\ made + 1 \in 0 .. MaxFiles
         /\ \A f \in Files : f.n <= made => f.n <= made + 1
BY DEF TypeOK, NewFile, Files, Subs

-----------------------------------------------------------------------------
(* Type correctness.                                                       *)

\* Actions on one sub-folder keep the types.
LEMMA FeatureType ==
  ASSUME TypeOK, NEW s \in Used,
         \/ StartSession(s) \/ StartFails(s) \/ EndSession(s) \/ Export(s)
         \/ ArmDelete(s)
  PROVE  TypeOK'
<1>1. CASE StartSession(s) \/ StartFails(s)
  <2>1. /\ writing' = writing \cup {NewFile(s)}
        /\ files' = files \cup {NewFile(s)}
        /\ made' = made + 1 /\ made < MaxFiles
        /\ \A f \in Held : f.sub # s
        /\ late' \in {late, late \cup {NewFile(s)}}
        /\ orphans' \in {orphans, orphans \cup {NewFile(s)}}
    BY <1>1 DEF StartSession, StartFails, startFrame, Create, Running
  <2>2. /\ files' \in SUBSET Files /\ writing' \in SUBSET Files
        /\ late' \in SUBSET Files /\ made' \in 0 .. MaxFiles
        /\ orphans' \in SUBSET writing'
    BY <2>1, NewFileType DEF TypeOK
  <2>3. \A f \in files' \cup writing' : f.n <= made'
    BY <2>1, NewFileType DEF TypeOK
  <2>4. Held' \subseteq Held \cup {NewFile(s)}
    BY <2>1 DEF Held
  <2>5. \A f, g \in Held' : f.sub = g.sub => f = g
    BY <2>1, <2>4, NewFileType DEF TypeOK
  <2> QED
    BY <1>1, <2>2, <2>3, <2>5 DEF StartSession, StartFails, startFrame, TypeOK
<1>2. CASE EndSession(s)
  <2>1. writing' \subseteq writing /\ orphans' = orphans /\ Held' \subseteq Held
    BY <1>2 DEF EndSession, Held
  <2>2. /\ orphans' \in SUBSET writing' /\ writing' \in SUBSET Files
        /\ \A f \in writing' : f.n <= made
        /\ \A f, g \in Held' : f.sub = g.sub => f = g
    BY <1>2, <2>1 DEF EndSession, TypeOK
  <2> QED
    BY <1>2, <2>2 DEF EndSession, endFrame, TypeOK
<1>3. CASE Export(s)
  <2>1. /\ files' = files \cup {NewFile(s)}
        /\ writing' = writing
        /\ made' = made + 1 /\ made < MaxFiles
        /\ late' \in {late, late \cup {NewFile(s)}}
    BY <1>3 DEF Export, startFrame, Create
  <2>2. /\ files' \in SUBSET Files /\ late' \in SUBSET Files
        /\ made' \in 0 .. MaxFiles
    BY <2>1, NewFileType DEF TypeOK
  <2>3. \A f \in files' \cup writing' : f.n <= made'
    BY <2>1, NewFileType DEF TypeOK
  <2> QED
    BY <1>3, <2>1, <2>2, <2>3 DEF Export, startFrame, TypeOK, Held
<1>4. CASE ArmDelete(s)
  BY <1>4 DEF ArmDelete, disarmed, TypeOK, Held
<1> QED
  BY <1>1, <1>2, <1>3, <1>4

\* The end of a thread left behind only closes its file.
LEMMA OrphanEndsType ==
  ASSUME TypeOK, NEW f \in orphans, OrphanEnds(f)
  PROVE  TypeOK' /\ Held' = Held
<1>1. /\ writing' = writing \ {f} /\ orphans' = orphans \ {f}
      /\ UNCHANGED endFrame
  BY DEF OrphanEnds
<1>2. Held' = Held /\ orphans' \in SUBSET writing'
  BY <1>1 DEF Held, TypeOK
<1>3. writing' \in SUBSET Files /\ \A g \in writing' : g.n <= made
  BY <1>1 DEF TypeOK
<1> QED
  BY <1>1, <1>2, <1>3 DEF endFrame, TypeOK

\* So do the deletions.
LEMMA DeletionType ==
  ASSUME TypeOK,
         \/ CancelDelete \/ ConfirmDelete \/ ArmAll \/ CancelAll \/ ConfirmAll
         \/ ArmWipe \/ CancelWipe \/ ConfirmWipe
  PROVE  TypeOK'
<1>1. /\ files' \subseteq files
      /\ writing' = writing /\ orphans' = orphans /\ Held' = Held
  BY DEF Held, CancelDelete, ConfirmDelete, ArmAll, CancelAll, ConfirmAll, ArmWipe,
         CancelWipe, ConfirmWipe, disarmed, wipeFrame
<1>2. /\ files' \in SUBSET Files
      /\ \A f \in files' \cup writing' : f.n <= made
  BY <1>1 DEF TypeOK
<1>3. CASE CancelDelete \/ ConfirmDelete \/ ArmAll \/ CancelAll \/ ConfirmAll
  BY <1>1, <1>2, <1>3 DEF CancelDelete, ConfirmDelete, ArmAll, CancelAll,
     ConfirmAll, disarmed, TypeOK
<1>4. CASE ArmWipe \/ CancelWipe \/ ConfirmWipe
  BY <1>1, <1>2, <1>4 DEF ArmWipe, CancelWipe, ConfirmWipe, disarmed,
     wipeFrame, TypeOK
<1> QED
  BY <1>3, <1>4

\* And settings and the process itself.
LEMMA SettingsType ==
  ASSUME TypeOK,
         \/ \E d \in Dirs : Edit(d)
         \/ SaveTruncates \/ SaveWrites \/ Ends \/ Restart
  PROVE  TypeOK'
<1>1. CASE \E d \in Dirs : Edit(d)
  BY <1>1 DEF Edit, editFrame, TypeOK, Held
<1>2. CASE SaveTruncates
  BY <1>2 DEF SaveTruncates, saveFrame, TypeOK, Held
<1>3. CASE SaveWrites
  BY <1>3 DEF SaveWrites, saveFrame, TypeOK, Held
<1>4. CASE Ends
  BY <1>4 DEF Ends, TypeOK, Held
<1>5. CASE Restart
  BY <1>5, LoadType DEF Restart, TypeOK, Held
<1> QED
  BY <1>1, <1>2, <1>3, <1>4, <1>5

\* Every variable of the store keeps its type; no held session writes two logs.
THEOREM TypeCorrect == Spec => []TypeOK
<1>1. ASSUME Init PROVE TypeOK
  <2>1. /\ dir \in Dirs /\ saved \in Dirs \cup {"none", "broken"}
        /\ made \in 0 .. MaxFiles
    BY <1>1 DEF Init
  <2>2. /\ files \in SUBSET Files /\ writing \in SUBSET Files
        /\ late \in SUBSET Files /\ orphans \in SUBSET writing
        /\ \A f \in files \cup writing : f.n <= made
        /\ \A f, g \in Held : f.sub = g.sub => f = g
    BY <1>1 DEF Init, Held
  <2> QED
    BY <1>1, <2>1, <2>2 DEF Init, TypeOK
<1>2. TypeOK /\ [Next]_vars => TypeOK'
  <2> SUFFICES ASSUME TypeOK, [Next]_vars PROVE TypeOK'
    OBVIOUS
  <2>1. CASE Next
    BY <2>1, FeatureType, OrphanEndsType, DeletionType, SettingsType DEF Next
  <2>2. CASE UNCHANGED vars
    BY <2>2 DEF vars, TypeOK, Held
  <2> QED
    BY <2>1, <2>2
<1> QED
  BY <1>1, <1>2, PTL DEF Spec

-----------------------------------------------------------------------------
(* What is deleted, and what is left.                                      *)

\* While clicks are handled nothing has been wiped; settings are untouched by
\* every step that leaves the folder, the file and the flags alone.
LEMMA SettingsFrame ==
  ASSUME StoreInv, UNCHANGED <<ui, dir, saved, failed, wiped>>
  PROVE  SettingsSurvive'
BY DEF StoreInv, SettingsSurvive, Load

\* A new log is safe, or known to be late; no other log becomes unsafe.
LEMMA FeatureInv ==
  ASSUME TypeOK, StoreInv, NEW s \in Used,
         \/ StartSession(s) \/ StartFails(s) \/ EndSession(s) \/ Export(s)
         \/ ArmDelete(s)
  PROVE  StoreInv'
<1>0. /\ UNCHANGED <<app, ui, dir, saved, failed, wiped>>
      /\ Ready \/ files' = files
  BY DEF StartSession, StartFails, EndSession, Export, ArmDelete, startFrame,
         endFrame, disarmed
<1>1. SettingsSurvive'
  BY <1>0, SettingsFrame
<1>2. wiped' => app' # "up"
  BY <1>0 DEF StoreInv
<1>3. WipeClears'
  BY <1>0 DEF StoreInv, WipeClears, Ready, FilesIn
<1>4. LogsSafe'
  <2>1. CASE StartSession(s)
    <3>1. /\ Held' \subseteq Held \cup {NewFile(s)}
          /\ NewFile(s) \in files' /\ files \subseteq files'
          /\ late \subseteq late' /\ (Armed(s) => NewFile(s) \in late')
          /\ UNCHANGED <<armed, armedAll, armedWipe>>
      BY <2>1 DEF StartSession, startFrame, Create, Held
    <3>2. NewFile(s).sub = s
      BY DEF NewFile
    <3>4. ASSUME NEW f \in Held'
          PROVE  f \in late' \/ (f \in files' /\ ~Armed(f.sub)')
      <4>1. CASE f \in Held
        BY <3>1, <4>1 DEF StoreInv, LogsSafe, Armed
      <4>2. CASE f = NewFile(s)
        BY <3>1, <3>2, <4>2 DEF Armed
      <4> QED
        BY <3>1, <4>1, <4>2
    <3> QED
      BY <3>4 DEF LogsSafe, Armed
  <2>2. CASE StartFails(s)
    <3>1. /\ Held' \subseteq Held
          /\ files \subseteq files' /\ late \subseteq late'
          /\ UNCHANGED <<armed, armedAll, armedWipe>>
      BY <2>2 DEF StartFails, Create, Held
    <3> QED
      BY <3>1 DEF Armed, StoreInv, LogsSafe
  <2>3. CASE EndSession(s)
    <3>1. Held' \subseteq Held
      BY <2>3 DEF EndSession, Held
    <3> QED
      BY <2>3, <3>1 DEF EndSession, endFrame, Armed, StoreInv, LogsSafe
  <2>4. CASE Export(s)
    BY <2>4 DEF Export, startFrame, Create, Armed, StoreInv, LogsSafe, Held
  <2>5. CASE ArmDelete(s)
    BY <2>5 DEF ArmDelete, disarmed, Running, Armed, StoreInv, LogsSafe, Held
  <2> QED
    BY <2>1, <2>2, <2>3, <2>4, <2>5
<1> QED
  BY <1>1, <1>2, <1>3, <1>4 DEF StoreInv, LogsSafe

\* The end of a thread left behind touches no log of a held session.
LEMMA OrphanEndsInv ==
  ASSUME TypeOK, StoreInv, NEW f \in orphans, OrphanEnds(f)
  PROVE  StoreInv'
<1>1. UNCHANGED endFrame /\ Held' = Held
  BY OrphanEndsType DEF OrphanEnds
<1> QED
  BY <1>1, SettingsFrame DEF endFrame, StoreInv, LogsSafe, Armed, WipeClears,
     FilesIn

\* A deletion takes only files whose deletion is armed, and so only late ones
\* among those of held sessions.
LEMMA DeletionInv ==
  ASSUME TypeOK, StoreInv,
         \/ CancelDelete \/ ConfirmDelete \/ ArmAll \/ CancelAll \/ ConfirmAll
         \/ ArmWipe \/ CancelWipe \/ ConfirmWipe
  PROVE  StoreInv'
<1> USE DEF StoreInv, LogsSafe, Held
<1>1. ~wiped
  BY DEF CancelDelete, ConfirmDelete, ArmAll, CancelAll, ConfirmAll, ArmWipe,
         CancelWipe, ConfirmWipe, Ready
<1>2. CASE CancelDelete \/ ConfirmDelete
  <2>1. CASE CancelDelete
    <3>1. \A f \in writing : f.sub # "none"
      BY DEF TypeOK, Files, Subs
    <3> QED
      BY <2>1, <3>1, SettingsFrame, <1>1
         DEF CancelDelete, disarmed, Armed, WipeClears
  <2>2. CASE ConfirmDelete
    <3>1. \A f \in writing : f.sub # "none"
      BY DEF TypeOK, Files, Subs
    <3>2. PICK D \in SUBSET LogsOf(armed) : files' = files \ D
      BY <2>2 DEF ConfirmDelete
    <3>3. \A f \in D : f.sub = armed
      BY <3>2 DEF LogsOf
    <3>4. LogsSafe'
      BY <2>2, <3>1, <3>2, <3>3 DEF ConfirmDelete, disarmed, Armed
    <3> QED
      BY <2>2, <3>4, SettingsFrame, <1>1 DEF ConfirmDelete, disarmed, WipeClears
  <2> QED
    BY <1>2, <2>1, <2>2
<1>3. CASE ArmAll \/ CancelAll \/ ConfirmAll
  <2>1. LogsSafe'
    BY <1>3 DEF ArmAll, CancelAll, ConfirmAll, disarmed, Armed, Busy
  <2>2. SettingsSurvive' /\ ~wiped'
    BY <1>1, <1>3, SettingsFrame DEF ArmAll, CancelAll, ConfirmAll, disarmed
  <2> QED
    BY <2>1, <2>2 DEF WipeClears
<1>4. CASE ArmWipe \/ CancelWipe
  <2>1. LogsSafe'
    BY <1>4 DEF ArmWipe, CancelWipe, disarmed, Armed, Busy
  <2>2. SettingsSurvive' /\ ~wiped'
    BY <1>1, <1>4, SettingsFrame DEF ArmWipe, CancelWipe, disarmed
  <2> QED
    BY <2>1, <2>2 DEF WipeClears
<1>5. CASE ConfirmWipe
  <2>1. LogsSafe'
    BY <1>5 DEF ConfirmWipe, wipeFrame, Armed
  <2>2. SettingsSurvive'
    BY <1>5, SettingsFrame DEF ConfirmWipe, wipeFrame, SettingsSurvive
  <2>3. WipeClears' /\ (wiped' => app' # "up")
    BY <1>1, <1>5 DEF ConfirmWipe, wipeFrame, WipeClears, FilesIn
  <2> QED
    BY <2>1, <2>2, <2>3
<1> QED
  BY <1>2, <1>3, <1>4, <1>5

\* A save leaves file and folder agreeing or is marked as failed; a restart
\* takes the folder from the file.
LEMMA SettingsInv ==
  ASSUME TypeOK, StoreInv,
         \/ \E d \in Dirs : Edit(d)
         \/ SaveTruncates \/ SaveWrites \/ Ends \/ Restart
  PROVE  StoreInv'
<1> USE DEF StoreInv, LogsSafe, Held
<1>1. CASE \E d \in Dirs : Edit(d)
  BY <1>1 DEF Edit, editFrame, Ready, Armed, WipeClears, SettingsSurvive
<1>2. CASE SaveTruncates \/ SaveWrites
  <2>1. LogsSafe' /\ ~wiped'
    BY <1>2 DEF SaveTruncates, SaveWrites, saveFrame, Armed
  <2>2. SettingsSurvive'
    BY <1>2 DEF SaveTruncates, SaveWrites, saveFrame, SettingsSurvive, Load,
       TypeOK
  <2> QED
    BY <2>1, <2>2 DEF WipeClears
<1>3. CASE Ends
  BY <1>3, SettingsFrame DEF Ends, WipeClears, FilesIn
<1>4. CASE Restart
  <2>1. \A f \in writing : f.sub # "none"
    BY DEF TypeOK, Files, Subs
  <2>2. LogsSafe'
    BY <1>4, <2>1 DEF Restart, Armed
  <2>3. SettingsSurvive' /\ ~wiped'
    BY <1>4 DEF Restart, SettingsSurvive, Load
  <2> QED
    BY <2>2, <2>3 DEF WipeClears
<1> QED
  BY <1>1, <1>2, <1>3, <1>4

\* In every reachable state the logs of held sessions are safe or late, a
\* successful removal is complete and final, and the settings are on disk.
THEOREM StoreInvariant == Spec => []StoreInv
<1>1. Init => StoreInv
  BY DEF Init, StoreInv, LogsSafe, Held, WipeClears, SettingsSurvive, Load
<1>2. TypeOK /\ StoreInv /\ [Next]_vars => StoreInv'
  <2> SUFFICES ASSUME TypeOK, StoreInv, [Next]_vars PROVE StoreInv'
    OBVIOUS
  <2>1. CASE Next
    BY <2>1, FeatureInv, OrphanEndsInv, DeletionInv, SettingsInv DEF Next
  <2>2. CASE UNCHANGED vars
    BY <2>2 DEF vars, StoreInv, LogsSafe, Held, Armed, WipeClears, SettingsSurvive, FilesIn,
       Load
  <2> QED
    BY <2>1, <2>2
<1> QED
  BY <1>1, <1>2, TypeCorrect, PTL DEF Spec

\* Of the sessions the pages hold, only one started while its deletion was
\* armed can lose its log; threads of a failed start have no such protection.
THEOREM GuardsProtectLogs == Spec => []OnlyLateStartsLoseLogs
<1>1. StoreInv => OnlyLateStartsLoseLogs
  BY DEF StoreInv, LogsSafe, OnlyLateStartsLoseLogs
<1> QED
  BY <1>1, StoreInvariant, PTL

\* After a successful removal the selected folder and the settings are gone
\* and stay so until the program is started again.
THEOREM WipeIsComplete == Spec => []WipeClears
<1>1. StoreInv => WipeClears
  BY DEF StoreInv
<1> QED
  BY <1>1, StoreInvariant, PTL

\* Killed between two frames, the program finds its settings again.
THEOREM SettingsAreKept == Spec => []SettingsSurvive
<1>1. StoreInv => SettingsSurvive
  BY DEF StoreInv
<1> QED
  BY <1>1, StoreInvariant, PTL
=============================================================================
