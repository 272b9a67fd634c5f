------------------------------ MODULE LogStore ------------------------------
(***************************************************************************)
(* What RustyTools keeps on disk: the log files of its six features in a   *)
(* folder the user selects, and the settings file that remembers the       *)
(* folder.  Sessions write their log while they run; every deletion is     *)
(* confirmed in a second step; "Remove all traces and quit" deletes both.  *)
(*                                                                         *)
(* A start that fails half-way leaves threads behind, which go on writing  *)
(* while their page holds no session: the guards do not see them.          *)
(*                                                                         *)
(* The UI thread does one thing per frame; a frame that changed a setting  *)
(* ends by saving the settings, in two writes to the file.  The process    *)
(* may end at any point.  Files are deleted by the UI thread, which is     *)
(* also the one that creates them: a deletion is one step.                 *)
(***************************************************************************)
EXTENDS Naturals

CONSTANTS
  Dirs,       \* log folders the user may select
  Default,    \* the default one
  Used,       \* sub-folders used in an instance
  MaxFiles    \* bound: log files ever created

\* LOG_FILES, and the order in which delete_log_dir goes through it.
Subs == {"ping", "traceroute", "dns", "arp", "netconfig", "packet"}
Position == [ping |-> 1, traceroute |-> 2, dns |-> 3, arp |-> 4,
             netconfig |-> 5, packet |-> 6]
\* Features whose thread keeps the file open; the others write it at once.
Sessions == {"ping", "traceroute", "dns", "packet"}
\* Those with files and threads per target: their start may fail half-way.
PerTarget == {"ping", "traceroute"}

ASSUME LogAssumption ==
  /\ Default \in Dirs /\ "none" \notin Dirs /\ "broken" \notin Dirs
  /\ Used \subseteq Subs
  /\ MaxFiles \in Nat

\* A log file; `n` stands for its time stamp.
Files == [dir : Dirs, sub : Subs, n : 1 .. MaxFiles]

VARIABLES
  app,        \* the process: "up", "closing" (asked to close) or "down"
  ui,         \* "idle", "save" (config_dirty) or "write": inside save()
  dir,        \* config.log_dir
  saved,      \* the settings file: a folder, "none", or "broken" JSON
  files,      \* log files that exist
  writing,    \* log files some thread has open
  orphans,    \* those among them left open by a start that failed
  made,       \* log files created so far
  armed,      \* delete_confirm: a sub-folder, or "none"
  armedAll,   \* delete_all_confirm
  armedWipe,  \* wipe_confirm
  late,       \* history: files created while their deletion was armed
  failed,     \* history: the last save failed
  wiped       \* history: remove_traces succeeded

vars == <<app, ui, dir, saved, files, writing, orphans, made, armed, armedAll,
          armedWipe, late, failed, wiped>>

\* The log files of the sessions the pages hold; is_running asks only these.
Held == writing \ orphans
Running(s) == \E f \in Held : f.sub = s
Busy == Held # {}
\* AppConfig::load: a missing or unreadable file gives the defaults.
Load == IF saved \in Dirs THEN saved ELSE Default

Init ==
  /\ app = "up" /\ ui = "idle" /\ dir = Default /\ saved = "none"
  /\ files = {} /\ writing = {} /\ orphans = {} /\ made = 0
  /\ armed = "none" /\ armedAll = FALSE /\ armedWipe = FALSE
  /\ late = {} /\ failed = FALSE /\ wiped = FALSE

\* The UI thread is about to handle a click.
Ready == app = "up" /\ ui = "idle"

-----------------------------------------------------------------------------
(* The features.                                                           *)

NewFile(s) == [dir |-> dir, sub |-> s, n |-> made + 1]
Armed(s) == armed = s \/ armedAll \/ armedWipe

Create(s) ==
  /\ made < MaxFiles /\ made' = made + 1
  /\ files' = files \cup {NewFile(s)}
  /\ late' = IF Armed(s) THEN late \cup {NewFile(s)} ELSE late

startFrame == <<app, ui, dir, saved, orphans, armed, armedAll, armedWipe,
                failed, wiped>>

\* Fault: Start stays enabled while the session runs.
StartSessionAgain(s) ==
  /\ Ready /\ s \in Sessions
  /\ Create(s)
  /\ writing' = writing \cup {NewFile(s)}
  /\ UNCHANGED startFrame

\* A session starts: its log goes to the folder selected now.
StartSession(s) ==
  /\ Ready /\ s \in Sessions /\ ~Running(s)
  /\ Create(s)
  /\ writing' = writing \cup {NewFile(s)}
  /\ UNCHANGED startFrame

\* A start fails at a later target: the page shows the error and holds no
\* session, while the thread of an earlier target writes its log.
StartFails(s) ==
  /\ Ready /\ s \in PerTarget /\ ~Running(s)
  /\ Create(s)
  /\ writing' = writing \cup {NewFile(s)}
  /\ orphans' = orphans \cup {NewFile(s)}
  /\ UNCHANGED <<app, ui, dir, saved, armed, armedAll, armedWipe, failed, wiped>>

endFrame == <<app, ui, dir, saved, files, made, armed, armedAll, armedWipe,
              late, failed, wiped>>

\* The threads of the session end, at any time, and close its file.
EndSession(s) ==
  /\ app # "down" /\ Running(s)
  /\ writing' = {f \in writing : f.sub # s \/ f \in orphans}
  /\ UNCHANGED <<orphans, endFrame>>

\* A thread left behind by a failed start ends.
OrphanEnds(f) ==
  /\ app # "down" /\ f \in orphans
  /\ writing' = writing \ {f} /\ orphans' = orphans \ {f}
  /\ UNCHANGED endFrame

\* Exports of the ARP table and of the network report.
Export(s) ==
  /\ Ready /\ s \notin Sessions
  /\ Create(s)
  /\ UNCHANGED <<startFrame, writing>>

-----------------------------------------------------------------------------
(* Deleting log files.                                                     *)

FilesIn(d) == {f \in files : f.dir = d}
LogsOf(s) == {f \in FilesIn(dir) : f.sub = s}

disarmed == <<app, ui, dir, saved, writing, orphans, made, late, failed, wiped>>

\* Fault: the button is not disabled while the session runs.
ArmDeleteAnyTime(s) ==
  /\ Ready /\ armed # s
  /\ armed' = s
  /\ UNCHANGED <<disarmed, files, armedAll, armedWipe>>

\* "Delete log files"; the confirmation of another page is dropped.  The
\* pages with exports only never disable it.
ArmDelete(s) ==
  /\ Ready /\ armed # s /\ ~Running(s)
  /\ armed' = s
  /\ UNCHANGED <<disarmed, files, armedAll, armedWipe>>

CancelDelete ==
  /\ Ready /\ armed # "none"
  /\ armed' = "none"
  /\ UNCHANGED <<disarmed, files, armedAll, armedWipe>>

\* "Yes, delete": clear_log_files, which stops at the first file that cannot
\* be deleted.
ConfirmDelete ==
  /\ Ready /\ armed # "none"
  /\ \E D \in SUBSET LogsOf(armed) : files' = files \ D
  /\ armed' = "none"
  /\ UNCHANGED <<disarmed, armedAll, armedWipe>>

\* What delete_log_dir may have deleted when it returns: it stops in the
\* first sub-folder with a file that cannot be deleted.
DeletedByDir ==
  {D \in SUBSET FilesIn(dir) :
     \A f \in D, g \in FilesIn(dir) :
       Position[g.sub] < Position[f.sub] => g \in D}

\* "Delete all logs".  The code is busy during an ARP scan or vendor lookup
\* too, which write no log.
ArmAll ==
  /\ Ready /\ ~armedAll /\ ~Busy
  /\ armedAll' = TRUE
  /\ UNCHANGED <<disarmed, files, armed, armedWipe>>

CancelAll ==
  /\ Ready /\ armedAll
  /\ armedAll' = FALSE
  /\ UNCHANGED <<disarmed, files, armed, armedWipe>>

ConfirmAll ==
  /\ Ready /\ armedAll
  /\ \E D \in DeletedByDir : files' = files \ D
  /\ armedAll' = FALSE
  /\ UNCHANGED <<disarmed, armed, armedWipe>>

-----------------------------------------------------------------------------
(* Remove all traces and quit.                                             *)

ArmWipe ==
  /\ Ready /\ ~armedWipe /\ ~Busy
  /\ armedWipe' = TRUE
  /\ UNCHANGED <<disarmed, files, armed, armedAll>>

CancelWipe ==
  /\ Ready /\ armedWipe
  /\ armedWipe' = FALSE
  /\ UNCHANGED <<disarmed, files, armed, armedAll>>

wipeFrame == <<ui, dir, writing, orphans, made, armed, armedAll, late, failed>>

\* Fault: an error while deleting logs does not end the removal.
WipeIgnoresErrors ==
  /\ Ready /\ armedWipe
  /\ \E D \in DeletedByDir : files' = files \ D
  /\ saved' = "none" /\ app' = "closing" /\ wiped' = TRUE
  /\ armedWipe' = FALSE
  /\ UNCHANGED wipeFrame

\* remove_traces: the log folder, then the settings file; on an error the
\* program goes on, else it asks for its window to be closed.
ConfirmWipe ==
  /\ Ready /\ armedWipe
  /\ \/ /\ \E D \in DeletedByDir : files' = files \ D
        /\ UNCHANGED <<saved, app, wiped>>
     \/ /\ files' = files \ FilesIn(dir)
        /\ saved' = "none" /\ app' = "closing" /\ wiped' = TRUE
  /\ armedWipe' = FALSE
  /\ UNCHANGED wipeFrame

-----------------------------------------------------------------------------
(* Settings.                                                               *)

editFrame == <<app, saved, files, writing, orphans, made, armed, armedAll,
               armedWipe, late, failed, wiped>>

\* Fault: the change does not mark the settings as changed.
EditUnmarked(d) ==
  /\ Ready /\ d # dir
  /\ dir' = d
  /\ UNCHANGED <<ui, editFrame>>

\* The log folder is edited or picked; sessions may be running.
Edit(d) ==
  /\ Ready /\ d # dir
  /\ dir' = d /\ ui' = "save"
  /\ UNCHANGED editFrame

saveFrame == <<app, dir, files, writing, orphans, made, armed, armedAll,
               armedWipe, late, wiped>>

\* AppConfig::save, called at the end of the frame: fs::write truncates the
\* file and then writes it, and either may fail.
SaveTruncates ==
  /\ app = "up" /\ ui = "save"
  /\ \/ saved' = "broken" /\ ui' = "write" /\ UNCHANGED failed
     \/ ui' = "idle" /\ failed' = TRUE /\ UNCHANGED saved
  /\ UNCHANGED saveFrame

SaveWrites ==
  /\ app = "up" /\ ui = "write"
  /\ \/ saved' = dir /\ failed' = FALSE
     \/ failed' = TRUE /\ UNCHANGED saved
  /\ ui' = "idle"
  /\ UNCHANGED saveFrame

-----------------------------------------------------------------------------
(* The process.                                                            *)

\* The window closes, or the process is killed; `ui` remembers where.
Ends ==
  /\ app # "down"
  /\ app' = "down"
  /\ writing' = {} /\ orphans' = {}
  /\ UNCHANGED <<ui, dir, saved, files, made, armed, armedAll, armedWipe,
                 late, failed, wiped>>

Restart ==
  /\ app = "down"
  /\ app' = "up" /\ ui' = "idle" /\ dir' = Load
  /\ armed' = "none" /\ armedAll' = FALSE /\ armedWipe' = FALSE
  /\ failed' = FALSE /\ wiped' = FALSE
  /\ UNCHANGED <<saved, files, writing, orphans, made, late>>

-----------------------------------------------------------------------------
Next ==
  \/ \E s \in Used : \/ StartSession(s) \/ StartFails(s) \/ EndSession(s)
                     \/ Export(s) \/ ArmDelete(s)
  \/ \E f \in orphans : OrphanEnds(f)
  \/ CancelDelete \/ ConfirmDelete \/ ArmAll \/ CancelAll \/ ConfirmAll
  \/ ArmWipe \/ CancelWipe \/ ConfirmWipe
  \/ \E d \in Dirs : Edit(d)
  \/ SaveTruncates \/ SaveWrites \/ Ends \/ Restart

Spec == Init /\ [][Next]_vars

-----------------------------------------------------------------------------
(* Properties.                                                             *)

\* The type invariant; the sessions the pages hold write one file each.
TypeOK ==
  /\ app \in {"up", "closing", "down"} /\ ui \in {"idle", "save", "write"}
  /\ dir \in Dirs /\ saved \in Dirs \cup {"none", "broken"}
  /\ files \in SUBSET Files /\ writing \in SUBSET Files
  /\ orphans \in SUBSET writing
  /\ late \in SUBSET Files
  /\ made \in 0 .. MaxFiles
  /\ \A f \in files \cup writing : f.n <= made
  /\ \A f, g \in Held : f.sub = g.sub => f = g
  /\ armed \in Subs \cup {"none"}
  /\ armedAll \in BOOLEAN /\ armedWipe \in BOOLEAN
  /\ failed \in BOOLEAN /\ wiped \in BOOLEAN

\* The guards on the first step of a deletion do what they can: the log of a
\* session its page holds loses its file while it is being written only if
\* the session was started after the deletion had been armed
\* (log_action_buttons, ui_settings).  They do nothing for the logs of threads
\* left behind by a start that failed.
OnlyLateStartsLoseLogs == Held \subseteq files \cup late

\* When the program closes itself after removing all traces, the settings
\* file and every log in the selected folder are gone, and nothing brings
\* them back (remove_traces, the cleared config_dirty).
WipeClears == wiped => saved = "none" /\ FilesIn(dir) = {}

\* Between frames the program finds the same settings at its next start as it
\* works with now (update, save, load).  A process that ends inside a save, or
\* after one that failed, may lose them, but the one started after it works
\* again with what it will find, be it the defaults.
SettingsSurvive == ui = "idle" /\ ~failed /\ ~wiped => Load = dir

\* The log of a held session is safe from deletion, or late.
LogsSafe == \A f \in Held : f \in late \/ (f \in files /\ ~Armed(f.sub))

\* The inductive invariant behind the three above: of the logs of held
\* sessions only late ones have their deletion armed, and after the removal
\* the program never gets back to handling clicks.
StoreInv ==
  /\ LogsSafe
  /\ WipeClears
  /\ wiped => app # "up"
  /\ SettingsSurvive

\* app.rs: the deletion is a "two-step confirmation, disabled while a session
\* is writing"; settings_tab.rs: "Running sessions keep their log files open, so deleting
\* logs must wait for them to end."
OpenLogsExist == Held \subseteq files

\* settings_tab.rs on the button: it leaves "nothing on this computer" and
\* deletes "the log files written by RustyTools and its settings file".
NothingLeft == wiped => files = {} /\ saved = "none"
=============================================================================
