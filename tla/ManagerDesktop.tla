---------------------------- MODULE ManagerDesktop ---------------------------
(***************************************************************************)
(* What the user sees of a Manager process: the tray (a hidden window with *)
(* a thread that handles its messages, tray_windows.go) and the one        *)
(* embedded WebView2 window (embedded_window_windows.go), which each run   *)
(* of it owns in a thread of its own.  A click on the tray, and another    *)
(* start of the Manager, which finds the tray's window, are messages to    *)
(* the tray; all that a failure leaves is a line in the log.               *)
(*                                                                         *)
(* The process is that of UpdateRecovery: the tray begins when it serves,  *)
(* and tray and window go with it.                                         *)
(***************************************************************************)
EXTENDS UpdateRecovery, Sequences

CONSTANTS
  Views,      \* slots for runs of the embedded window
  NoView,
  MaxInbox    \* bound of the model: messages that wait for the tray's thread

ASSUME DesktopAssumption == NoView \notin Views /\ MaxInbox \in Nat

VARIABLES
  interactive,  \* the mode of the process: interactive, or gateway
  tray,         \* none, window (it can be found), up, gone
  inbox,        \* messages posted to the tray's window
  cancelled,    \* the user chose Exit
  embedded,     \* embeddedWindow
  launching,    \* embeddedWindowLaunching
  view,         \* where each run of the embedded window is
  dispatched,   \* the runs whose thread has been asked to show itself
  asked         \* history: what became of the last time the user asked for the window

desktop == <<interactive, tray, inbox, cancelled, embedded, launching, view, dispatched, asked>>

(* creating: NewWithOptions has not returned; made: the window exists and  *)
(* is not yet shown; running: in view.Run; ended: Run has returned.        *)
ViewStates == {"idle", "creating", "made", "running", "ended"}

(* failed: a line in the log; missed: it reached a window whose user had   *)
(* just closed it; over: the Manager was on its way out, or has no tray.   *)
Fates == {"no", "waits", "shown", "failed", "missed", "over"}

DesktopTypeOK ==
  /\ interactive \in BOOLEAN
  /\ tray \in {"none", "window", "up", "gone"}
  /\ inbox \in Seq({"open", "exit"})
  /\ cancelled \in BOOLEAN
  /\ embedded \in Views \cup {NoView}
  /\ launching \in BOOLEAN
  /\ view \in [Views -> ViewStates]
  /\ dispatched \subseteq Views
  /\ asked \in Fates

NoDesktop ==
  /\ tray' = "none" /\ inbox' = <<>> /\ cancelled' = FALSE
  /\ embedded' = NoView /\ launching' = FALSE
  /\ view' = [v \in Views |-> "idle"] /\ dispatched' = {}

DesktopInit ==
  /\ Init
  /\ interactive \in BOOLEAN
  /\ tray = "none" /\ inbox = <<>> /\ cancelled = FALSE
  /\ embedded = NoView /\ launching = FALSE
  /\ view = [v \in Views |-> "idle"] /\ dispatched = {}
  /\ asked = "no"

Fate(how) == asked' = IF asked = "waits" THEN how ELSE asked

-----------------------------------------------------------------------------
(* The tray's thread.                                                      *)

(* startPlatformTray: main waits until the icon is there or has failed.    *)
CreateTrayWindow ==
  /\ tray = "none"
  /\ \E p \in Procs : pc[p] = "serving"
  /\ \/ tray' = "window" /\ UNCHANGED asked
     \/ tray' = "gone" /\ (IF interactive THEN asked' = "over" ELSE UNCHANGED asked)
  /\ UNCHANGED <<interactive, inbox, cancelled, embedded, launching, view, dispatched>>

(* The icon is added; an interactive start opens the window before it      *)
(* takes the first message.                                                *)
AddTrayIcon ==
  /\ tray = "window"
  /\ tray' = "up"
  /\ inbox' = IF interactive THEN <<"open">> \o inbox ELSE inbox
  /\ asked' = IF interactive THEN "waits" ELSE asked
  /\ UNCHANGED <<interactive, cancelled, embedded, launching, view, dispatched>>

(* DestroyWindow discards the messages that wait.                          *)
TrayIconFails ==
  /\ tray = "window"
  /\ tray' = "gone"
  /\ inbox' = <<>>
  /\ asked' = IF interactive \/ asked = "waits" THEN "over" ELSE asked
  /\ UNCHANGED <<interactive, cancelled, embedded, launching, view, dispatched>>

(* Another start of the Manager finds the tray's window; or a click on the *)
(* icon.                                                                   *)
AskForWindow ==
  /\ tray \in {"window", "up"}
  /\ Len(inbox) < MaxInbox
  /\ inbox' = Append(inbox, "open")
  /\ asked' = "waits"
  /\ UNCHANGED <<interactive, tray, cancelled, embedded, launching, view, dispatched>>

AskForExit ==
  /\ tray = "up"
  /\ Len(inbox) < MaxInbox
  /\ inbox' = Append(inbox, "exit")
  /\ UNCHANGED <<interactive, tray, cancelled, embedded, launching, view, dispatched, asked>>

ExitChosen ==
  /\ tray = "up" /\ inbox # <<>> /\ Head(inbox) = "exit"
  /\ cancelled' = TRUE
  /\ tray' = "gone"
  /\ inbox' = <<>>
  /\ Fate("over")
  /\ UNCHANGED <<interactive, embedded, launching, view, dispatched>>

(* Variant: the launching flag is not looked at. *)
OpenWithoutFlag ==
  /\ tray = "up" /\ inbox # <<>> /\ Head(inbox) = "open"
  /\ inbox' = Tail(inbox)
  /\ \/ /\ embedded # NoView
        /\ dispatched' = dispatched \cup {embedded}
        /\ UNCHANGED <<launching, view>>
     \/ /\ embedded = NoView
        /\ \E v \in Views :
             view[v] = "idle" /\ view' = [view EXCEPT ![v] = "creating"]
        /\ launching' = TRUE
        /\ UNCHANGED dispatched
  /\ UNCHANGED <<interactive, tray, cancelled, embedded, asked>>

(* openEmbeddedManagerWindow.                                              *)
OpenWindow ==
  /\ tray = "up" /\ inbox # <<>> /\ Head(inbox) = "open"
  /\ inbox' = Tail(inbox)
  /\ \/ /\ embedded # NoView
        /\ dispatched' = dispatched \cup {embedded}
        /\ UNCHANGED <<launching, view>>
     \/ /\ embedded = NoView /\ launching
        /\ UNCHANGED <<dispatched, launching, view>>
     \/ /\ embedded = NoView /\ ~launching
        /\ \E v \in Views :
             view[v] = "idle" /\ view' = [view EXCEPT ![v] = "creating"]
        /\ launching' = TRUE
        /\ UNCHANGED dispatched
  /\ UNCHANGED <<interactive, tray, cancelled, embedded, asked>>

-----------------------------------------------------------------------------
(* The thread of a run of the embedded window.                             *)

(* Variant: the flag stays set. *)
ViewFailsAndStays(v) ==
  /\ view[v] = "creating"
  /\ view' = [view EXCEPT ![v] = "idle"]
  /\ UNCHANGED <<interactive, tray, inbox, cancelled, embedded, launching, dispatched, asked>>

ViewFails(v) ==
  /\ view[v] = "creating"
  /\ view' = [view EXCEPT ![v] = "idle"]
  /\ launching' = FALSE
  /\ Fate("failed")
  /\ UNCHANGED <<interactive, tray, inbox, cancelled, embedded, dispatched>>

ViewCreated(v) ==
  /\ view[v] = "creating"
  /\ view' = [view EXCEPT ![v] = "made"]
  /\ embedded' = v
  /\ launching' = FALSE
  /\ UNCHANGED <<interactive, tray, inbox, cancelled, dispatched, asked>>

ViewRuns(v) ==
  /\ view[v] = "made"
  /\ view' = [view EXCEPT ![v] = "running"]
  /\ Fate("shown")
  /\ UNCHANGED <<interactive, tray, inbox, cancelled, embedded, launching, dispatched>>

ViewShowsAgain(v) ==
  /\ view[v] = "running" /\ v \in dispatched
  /\ dispatched' = dispatched \ {v}
  /\ Fate("shown")
  /\ UNCHANGED <<interactive, tray, inbox, cancelled, embedded, launching, view>>

UserCloses(v) ==
  /\ view[v] = "running"
  /\ view' = [view EXCEPT ![v] = "ended"]
  /\ UNCHANGED <<interactive, tray, inbox, cancelled, embedded, launching, dispatched, asked>>

ViewGoes(v) ==
  /\ view[v] = "ended"
  /\ view' = [view EXCEPT ![v] = "idle"]
  /\ embedded' = IF embedded = v THEN NoView ELSE embedded
  /\ launching' = FALSE
  /\ dispatched' = dispatched \ {v}
  /\ IF v \in dispatched THEN Fate("missed") ELSE UNCHANGED asked
  /\ UNCHANGED <<interactive, tray, inbox, cancelled>>

-----------------------------------------------------------------------------
(* The process.                                                            *)

(* Tray and window go with the process; the next one has its own mode.     *)
DesktopFollows ==
  IF Running # {} /\ Running' = {}
  THEN /\ NoDesktop
       /\ interactive' \in BOOLEAN
       /\ Fate("over")
  ELSE UNCHANGED desktop

(* Requests are served once the tray is up or has failed.                  *)
Served == tray \in {"up", "gone"}

ManagerStep ==
  \/ \E p \in Procs : ProcessStep(p)
  \/ \E r \in Applies : ApplyStep(r)
  \/ Served /\ ApplyReads
  \/ InstallerStep

TrayStep == CreateTrayWindow \/ AddTrayIcon \/ TrayIconFails \/ OpenWindow \/ ExitChosen

ViewStep(v) ==
  ViewFails(v) \/ ViewCreated(v) \/ ViewRuns(v) \/ ViewShowsAgain(v) \/ ViewGoes(v)

DesktopNext ==
  \/ ManagerStep /\ DesktopFollows
  \/ UNCHANGED vars /\ (TrayStep \/ AskForWindow \/ AskForExit)
  \/ UNCHANGED vars /\ \E v \in Views : ViewStep(v) \/ UserCloses(v)

allVars == <<vars, desktop>>

(* A process runs its own steps, its threads handle their messages, an     *)
(* installer that can finish does, a process whose user chose Exit ends,   *)
(* and the Manager is opened again, by the user or by the logon task.      *)
Ends == cancelled /\ \E p \in Procs : Die(p)

DesktopFairness ==
  /\ \A p \in Procs :
       /\ WF_allVars(StartupStep(p) /\ DesktopFollows)
       /\ WF_allVars(WindowStep(p) /\ DesktopFollows)
       /\ WF_allVars(StopAfterApply(p) /\ DesktopFollows)
  /\ \A r \in Applies : WF_allVars(ApplyStep(r) /\ DesktopFollows)
  /\ WF_allVars(Ends /\ DesktopFollows)
  /\ \A i \in Installers : WF_allVars(InstallerReplaces(i) /\ DesktopFollows)
  /\ WF_allVars((\E p \in Procs : Start(p)) /\ DesktopFollows)
  /\ WF_allVars(TrayStep /\ UNCHANGED vars)
  /\ \A v \in Views : WF_allVars(ViewStep(v) /\ UNCHANGED vars)

DesktopSpec == DesktopInit /\ [][DesktopNext]_allVars

FairDesktopSpec == DesktopSpec /\ DesktopFairness

-----------------------------------------------------------------------------
(* Properties.                                                             *)

(* There is one embedded window at most, from the start of its creation    *)
(* until its thread has forgotten it, and it is the one the next request   *)
(* for the window will find, although each run of it writes pointer and    *)
(* flag from a thread of its own (openEmbeddedManagerWindow,               *)
(* runEmbeddedManagerWindow).                                              *)
OneWindow ==
  \A v \in Views :
    /\ view[v] = "creating" => launching /\ embedded = NoView
    /\ view[v] \in {"made", "running", "ended"} => embedded = v
    /\ \A w \in Views : view[v] # "idle" /\ view[w] # "idle" => v = w

(* A request for the window (a start, another start, a click) is never     *)
(* just absorbed by a flag or a pointer left over from an earlier window:  *)
(* the window is shown, or one of the losses the code has happens.         *)
AskIsAnswered == (asked = "waits") ~> (asked # "waits")

(* When nothing but a crash of an exposed service goes wrong, every        *)
(* prepared update comes to an end: the target proves itself or the        *)
(* previous version comes back and removes the record.  The exception is   *)
(* an Apply beside another one, whose record and installer may be of       *)
(* different versions.                                                     *)
UpdateSettles == (pending # NoPending) ~> (pending = NoPending \/ contended)
=============================================================================
