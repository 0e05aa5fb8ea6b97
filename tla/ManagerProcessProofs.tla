------------------------ MODULE ManagerProcessProofs -------------------------
(***************************************************************************)
(* Proofs about what is at work beside the Manager process of              *)
(* UpdateRecovery: ManagerDesktop, for any number of runs of the embedded  *)
(* window, and NativeInstall, for any number of installations.  Both leave *)
(* the self-update as it is, so the theorems about it hold beside them.    *)
(***************************************************************************)
EXTENDS ManagerDesktop, NativeInstall, TLAPS

-----------------------------------------------------------------------------
(* The tray and the window.                                                *)

DesktopIInv == DesktopTypeOK /\ OneWindow

(* The tray's thread: what it leaves of the window's runs.                 *)
LEMMA TrayKeepsOneWindow ==
  ASSUME DesktopIInv, TrayStep \/ AskForWindow \/ AskForExit
  PROVE  DesktopIInv'
<1> USE DesktopAssumption DEF DesktopIInv, DesktopTypeOK, OneWindow, Fates, ViewStates, Fate
<1>1. CASE CreateTrayWindow
  BY <1>1 DEF CreateTrayWindow
<1>2. CASE AddTrayIcon
  <2>1. CASE interactive
    <3>1. <<"open">> \in Seq({"open", "exit"}) /\ inbox' = <<"open">> \o inbox
      BY <1>2, <2>1 DEF AddTrayIcon
    <3>2. inbox' \in Seq({"open", "exit"})
      BY <3>1
    <3>3. QED
      BY <1>2, <3>2 DEF AddTrayIcon
  <2>2. CASE ~interactive
    BY <1>2, <2>2 DEF AddTrayIcon
  <2>3. QED BY <2>1, <2>2
<1>3. CASE TrayIconFails
  BY <1>3 DEF TrayIconFails
<1>4. CASE AskForWindow
  BY <1>4 DEF AskForWindow
<1>5. CASE AskForExit
  BY <1>5 DEF AskForExit
<1>6. CASE ExitChosen
  BY <1>6 DEF ExitChosen
<1>7. CASE OpenWindow
  <2>1. inbox' \in Seq({"open", "exit"})
    BY <1>7 DEF OpenWindow
  <2>2. CASE embedded # NoView
    BY <1>7, <2>1, <2>2 DEF OpenWindow
  <2>3. CASE embedded = NoView /\ launching
    BY <1>7, <2>1, <2>3 DEF OpenWindow
  <2>4. CASE embedded = NoView /\ ~launching
    <3>1. PICK v \in Views : view[v] = "idle" /\ view' = [view EXCEPT ![v] = "creating"]
      BY <1>7, <2>4 DEF OpenWindow
    <3>2. \A w \in Views : view[w] = "idle"
      BY <2>4
    <3>3. launching' /\ embedded' = NoView
      BY <1>7, <2>4 DEF OpenWindow
    <3>4. QED
      BY <1>7, <2>1, <2>4, <3>1, <3>2, <3>3 DEF OpenWindow
  <2>5. QED BY <2>2, <2>3, <2>4
<1>8. QED
  BY <1>1, <1>2, <1>3, <1>4, <1>5, <1>6, <1>7 DEF TrayStep

(* The threads of the window's runs.                                       *)
LEMMA ViewKeepsOneWindow ==
  ASSUME DesktopIInv, NEW v \in Views, ViewStep(v) \/ UserCloses(v)
  PROVE  DesktopIInv'
<1> USE DesktopAssumption DEF DesktopIInv, DesktopTypeOK, OneWindow, Fates, ViewStates, Fate
<1>1. CASE ViewFails(v)
  BY <1>1, ZenonT(40) DEF ViewFails
<1>2. CASE ViewCreated(v)
  BY <1>2 DEF ViewCreated
<1>3. CASE ViewRuns(v)
  BY <1>3 DEF ViewRuns
<1>4. CASE ViewShowsAgain(v)
  BY <1>4 DEF ViewShowsAgain
<1>5. CASE UserCloses(v)
  BY <1>5 DEF UserCloses
<1>6. CASE ViewGoes(v)
  BY <1>6 DEF ViewGoes
<1>7. QED
  BY <1>1, <1>2, <1>3, <1>4, <1>5, <1>6 DEF ViewStep

LEMMA ProcessKeepsOneWindow ==
  ASSUME DesktopIInv, DesktopFollows
  PROVE  DesktopIInv'
<1>1. CASE UNCHANGED desktop
  BY <1>1 DEF desktop, DesktopIInv, DesktopTypeOK, OneWindow
<1>2. CASE NoDesktop /\ interactive' \in BOOLEAN /\ Fate("over")
  <2>1. cancelled' \in BOOLEAN /\ launching' \in BOOLEAN
    BY <1>2 DEF NoDesktop
  <2>2. inbox' \in Seq({"open", "exit"}) /\ asked' \in Fates
    BY <1>2 DEF NoDesktop, Fate, Fates, DesktopIInv, DesktopTypeOK
  <2>3. tray' = "none" /\ embedded' = NoView /\ dispatched' = {}
    BY <1>2 DEF NoDesktop
  <2>4. view' \in [Views -> ViewStates] /\ \A v \in Views : view'[v] = "idle"
    BY <1>2 DEF NoDesktop, ViewStates
  <2>5. QED
    BY <1>2, <2>1, <2>2, <2>3, <2>4, Zenon DEF DesktopIInv, DesktopTypeOK, OneWindow
<1>3. QED
  BY <1>1, <1>2 DEF DesktopFollows

(* The Manager never has two embedded windows, and never loses the one it  *)
(* has (openEmbeddedManagerWindow, runEmbeddedManagerWindow).              *)
THEOREM WindowIsOne == DesktopSpec => []OneWindow
<1>1. DesktopInit => DesktopIInv
  <2> SUFFICES ASSUME DesktopInit PROVE DesktopIInv
    OBVIOUS
  <2>1. cancelled \in BOOLEAN /\ launching \in BOOLEAN /\ interactive \in BOOLEAN
    BY DEF DesktopInit
  <2>2. inbox \in Seq({"open", "exit"}) /\ asked \in Fates
    BY DEF DesktopInit, Fates
  <2>3. tray = "none" /\ embedded = NoView /\ dispatched = {}
    BY DEF DesktopInit
  <2>4. view \in [Views -> ViewStates] /\ \A v \in Views : view[v] = "idle"
    BY DEF DesktopInit, ViewStates
  <2>5. QED
    BY <2>1, <2>2, <2>3, <2>4, Zenon DEF DesktopIInv, DesktopTypeOK, OneWindow
<1>2. DesktopIInv /\ [DesktopNext]_allVars => DesktopIInv'
  <2>1. DesktopIInv /\ UNCHANGED allVars => DesktopIInv'
    BY DEF allVars, desktop, DesktopIInv, DesktopTypeOK, OneWindow
  <2>2. QED
    BY <2>1, TrayKeepsOneWindow, ViewKeepsOneWindow, ProcessKeepsOneWindow DEF DesktopNext
<1>3. DesktopIInv => OneWindow
  BY DEF DesktopIInv
<1>4. QED
  BY <1>1, <1>2, <1>3, PTL DEF DesktopSpec

(* Tray and window only watch the process and delay its requests (main,    *)
(* startPlatformTray): the self-update behind them is that of              *)
(* UpdateRecovery.                                                         *)
THEOREM DesktopRunsUpdate == DesktopSpec => Spec
<1>1. DesktopInit => Init
  BY DEF DesktopInit
<1>2. [DesktopNext]_allVars => [Next]_vars
  BY DEF DesktopNext, ManagerStep, Next, allVars
<1>3. QED
  BY <1>1, <1>2, PTL DEF DesktopSpec, Spec

-----------------------------------------------------------------------------
(* The installation of OpenClaw.                                           *)

(* The place a request looks at is the first one, or else the other one.   *)
LEMMA PlaceIsNext ==
  ASSUME InstallTypeOK, NEW r \in Installs
  PROVE  /\ Place(r) \in Places
         /\ Place(r) = first <=> judged[r] = {}
BY DEF Place, Places, InstallTypeOK

(* What one request does before npm is started, and its answer.            *)
LEMMA RequestKeepsInstallIInv ==
  ASSUME InstallIInv, NEW r \in Installs,
         \/ Confirmed(r) \/ Refused(r) \/ EarlyChecks(r) \/ Look(r)
         \/ Version(r) \/ LateChecks(r) \/ Plan(r) \/ Answered(r)
  PROVE  InstallIInv'
<1> USE DEF InstallIInv, InstallTypeOK, OneAtATime, HasJudged, WritersAreKnown,
            EndedIsReviewed, PlacesInOrder, ReplacesWhatItJudged, InstalledIsReviewed,
            Releases, Places, Goes
<1>1. CASE Confirmed(r)
  BY <1>1 DEF Confirmed
<1>2. CASE Refused(r)
  BY <1>2 DEF Refused
<1>3. CASE EarlyChecks(r)
  BY <1>3 DEF EarlyChecks
<1>4. CASE Look(r)
  <2>1. CASE openclaw[Place(r)] = "missing" /\ IsJudged(r)
    <3>1. CASE Place(r) = "prefix"
      <4>1. /\ UNCHANGED <<openclaw, first, child, told>>
            /\ judged' = [judged EXCEPT ![r] = @ \cup {"prefix"}]
            /\ step' = [step EXCEPT ![r] = IF judged[r] = {} THEN "look" ELSE "late"]
            /\ step[r] = "look"
        BY <1>4, <2>1, <3>1 DEF Look, IsJudged
      <4>2. /\ touched'[r] \in SUBSET {"install", "stranger"}
            /\ \A q \in Installs \ {r} : touched'[q] = touched[q]
            /\ touched' \in [Installs -> SUBSET {"install", "stranger"}]
            /\ \A q \in Installs \ {r} : child[q] = "writing" => touched'[r] # {}
        <5>1. Judged(r)
          <6>1. judged'[r] # {}
            BY <2>1 DEF IsJudged
          <6>2. ~(judged' = [judged EXCEPT ![r] = {}])
            BY <6>1
          <6>3. QED
            BY <1>4, <2>1, <3>1, <6>2 DEF Look
        <5>2. QED
          BY <5>1 DEF Judged
      <4>3. openclaw["prefix"] = "missing"
        BY <2>1, <3>1
      <4>4. InstallTypeOK' /\ OneAtATime'
        BY <4>1, <4>2, ZenonT(40)
      <4>5. WritersAreKnown'
        BY <4>1, <4>2
      <4>6. EndedIsReviewed' /\ InstalledIsReviewed'
        BY <4>1, <4>2, <4>3
      <4>7. PlacesInOrder'
        BY <4>1, <4>2, <4>3, <3>1, PlaceIsNext
      <4>8. ReplacesWhatItJudged'
        BY <4>1, <4>2, <4>3, <3>1, PlaceIsNext
      <4>9. QED
        BY <4>4, <4>5, <4>6, <4>7, <4>8
    <3>2. CASE Place(r) # "prefix"
      BY <1>4, <2>1, <3>2, PlaceIsNext DEF Look, IsJudged
    <3>3. QED BY <3>1, <3>2
  <2>2. CASE openclaw[Place(r)] # "missing" /\ UNCHANGED judged
    BY <1>4, <2>2 DEF Look
  <2>3. CASE judged' = [judged EXCEPT ![r] = {}] /\ judged[r] # {}
    <3>1. /\ step' = [step EXCEPT ![r] = "version"] /\ step[r] = "look" /\ child[r] = "none"
          /\ UNCHANGED <<openclaw, first, child, touched, told>>
      BY <1>4, <2>3, PlaceIsNext DEF Look, IsJudged
    <3>2. InstallTypeOK' /\ OneAtATime'
      BY <2>3, <3>1
    <3>3. WritersAreKnown' /\ EndedIsReviewed' /\ InstalledIsReviewed'
      BY <2>3, <3>1
    <3>4. PlacesInOrder' /\ ReplacesWhatItJudged'
      BY <2>3, <3>1
    <3>5. QED
      BY <3>2, <3>3, <3>4
  <2>4. QED BY <1>4, <2>1, <2>2, <2>3 DEF Look
<1>5. CASE Version(r)
  <2>1. CASE "prefix" \in judged[r]
    BY <1>5, <2>1, PlaceIsNext DEF Version, IsJudged
  <2>2. CASE "prefix" \notin judged[r]
    BY <1>5, <2>2, PlaceIsNext DEF Version, Judged, IsJudged
  <2>3. QED BY <2>1, <2>2
<1>6. CASE LateChecks(r)
  BY <1>6 DEF LateChecks, PathChecks, PrefixChecks
<1>7. CASE Plan(r)
  BY <1>7 DEF Plan
<1>8. CASE Answered(r)
  BY <1>8 DEF Answered
<1>9. QED
  BY <1>1, <1>2, <1>3, <1>4, <1>5, <1>6, <1>7, <1>8

(* What npm and others do to OpenClaw.                                     *)
LEMMA WritersKeepInstallIInv ==
  ASSUME InstallIInv,
         Stranger \/ \E r \in Installs : ChildWrites(r) \/ ChildEnds(r) \/ ChildFails(r)
  PROVE  InstallIInv'
<1> USE DEF InstallIInv, InstallTypeOK, OneAtATime, HasJudged, WritersAreKnown,
            EndedIsReviewed, PlacesInOrder, ReplacesWhatItJudged, InstalledIsReviewed,
            Releases, Places, TouchedBy, ChildIsDone, InPrefix
<1>1. CASE Stranger
  BY <1>1 DEF Stranger
<1>2. ASSUME NEW r \in Installs, ChildWrites(r) PROVE InstallIInv'
  <2>1. InstallTypeOK'
    BY <1>2 DEF ChildWrites
  <2>2. OneAtATime'
    BY <1>2 DEF ChildWrites
  <2>3. \A q \in Installs \ {r} : touched'[q] # {}
    BY <1>2 DEF ChildWrites
  <2>4. EndedIsReviewed' /\ InstalledIsReviewed'
    <3>1. child'[r] = "writing" /\ told[r] # "installed" /\ UNCHANGED told
      BY <1>2 DEF ChildWrites
    <3>2. QED
      BY <2>3, <3>1
  <2>5. WritersAreKnown'
    <3>1. touched'[r] = touched[r] /\ HasJudged(r)
      BY <1>2 DEF ChildWrites
    <3>2. \A q \in Installs \ {r} : child'[q] = child[q]
      BY <1>2 DEF ChildWrites
    <3>3. QED
      BY <2>3, <3>1, <3>2
  <2>6. PlacesInOrder'
    BY <1>2 DEF ChildWrites
  <2>7. ReplacesWhatItJudged'
    BY <1>2, ZenonT(40) DEF ChildWrites
  <2>8. QED BY <2>1, <2>2, <2>4, <2>5, <2>6, <2>7
<1>3. ASSUME NEW r \in Installs, ChildEnds(r) PROVE InstallIInv'
  <2>1. InstallTypeOK'
    BY <1>3 DEF ChildEnds
  <2>2. OneAtATime' /\ EndedIsReviewed' /\ InstalledIsReviewed'
    BY <1>3, ZenonT(40) DEF ChildEnds
  <2>3. WritersAreKnown'
    BY <1>3 DEF ChildEnds
  <2>4. PlacesInOrder'
    BY <1>3 DEF ChildEnds
  <2>5. ReplacesWhatItJudged'
    BY <1>3 DEF ChildEnds
  <2>6. QED BY <2>1, <2>2, <2>3, <2>4, <2>5
<1>4. ASSUME NEW r \in Installs, ChildFails(r) PROVE InstallIInv'
  <2>1. CASE child[r] = "started"
    BY <1>4, <2>1 DEF ChildFails
  <2>2. CASE child[r] = "writing"
    <3>1. InstallTypeOK'
      BY <1>4, <2>2 DEF ChildFails
    <3>2. OneAtATime'
      BY <1>4, <2>2 DEF ChildFails
    <3>3. EndedIsReviewed' /\ InstalledIsReviewed'
      BY <1>4, <2>2 DEF ChildFails
    <3>4. PlacesInOrder'
      BY <1>4, <2>2 DEF ChildFails
    <3>5. WritersAreKnown'
      BY <1>4, <2>2 DEF ChildFails
    <3>6. ReplacesWhatItJudged'
      BY <1>4, <2>2 DEF ChildFails
    <3>7. QED BY <3>1, <3>2, <3>3, <3>4, <3>5, <3>6
  <2>3. QED BY <1>4, <2>1, <2>2 DEF ChildFails
<1>5. QED
  BY <1>1, <1>2, <1>3, <1>4

(* The end of the process that serves the requests.                        *)
LEMMA ProcessKeepsInstallIInv ==
  ASSUME InstallIInv, InstallsFollow
  PROVE  InstallIInv'
BY DEF InstallsFollow, nativeInstall, InstallIInv, InstallTypeOK, OneAtATime, HasJudged,
       WritersAreKnown, EndedIsReviewed, PlacesInOrder, ReplacesWhatItJudged,
       InstalledIsReviewed, Releases, Places

(* A request whose judgement stands knows of every npm at work beside it,  *)
(* and what a finished npm left is the reviewed release until somebody     *)
(* else acts (InstallNative, with requests and npm of earlier Managers     *)
(* beside it).                                                             *)
THEOREM InstallInvariance == NativeSpec => []InstallIInv
<1>1. NativeInit => InstallIInv
  BY DEF NativeInit, InstallIInv, InstallTypeOK, OneAtATime, HasJudged,
         WritersAreKnown, EndedIsReviewed, PlacesInOrder, ReplacesWhatItJudged,
         InstalledIsReviewed, Releases, Places
<1>2. InstallIInv /\ [NativeNext]_<<vars, nativeInstall>> => InstallIInv'
  <2>1. InstallIInv /\ UNCHANGED nativeInstall => InstallIInv'
    BY DEF nativeInstall, InstallIInv, InstallTypeOK, OneAtATime, HasJudged,
           WritersAreKnown, EndedIsReviewed, PlacesInOrder, ReplacesWhatItJudged,
           InstalledIsReviewed, Releases, Places
  <2>2. QED
    BY <2>1, RequestKeepsInstallIInv, WritersKeepInstallIInv, ProcessKeepsInstallIInv
    DEF NativeNext, InstallStep
<1>3. QED
  BY <1>1, <1>2, PTL DEF NativeSpec

(* No installation takes away a release from npm's prefix that it did not  *)
(* judge replaceable, unless that came there in between or the reviewed    *)
(* release was found elsewhere before the prefix (InstallNative after      *)
(* InstallPreflight).                                                      *)
THEOREM InstallsReplaceWhatTheyJudged == NativeSpec => []ReplacesWhatItJudged
<1>1. InstallIInv => ReplacesWhatItJudged
  BY DEF InstallIInv
<1>2. QED
  BY <1>1, InstallInvariance, PTL

(* What handleInstall reports as installed is there, unless somebody else  *)
(* was at work.                                                            *)
THEOREM InstalledMeansReviewed == NativeSpec => []InstalledIsReviewed
<1>1. InstallIInv => InstalledIsReviewed
  BY DEF InstallIInv
<1>2. QED
  BY <1>1, InstallInvariance, PTL

(* Installations do not touch the self-update (InstallNative changes       *)
(* OpenClaw only), and an update that stops the Manager beneath them is    *)
(* that of UpdateRecovery.                                                 *)
THEOREM InstallsRunUpdate == NativeSpec => Spec
<1>1. NativeInit => Init
  BY DEF NativeInit
<1>2. [NativeNext]_<<vars, nativeInstall>> => [Next]_vars
  BY DEF NativeNext
<1>3. QED
  BY <1>1, <1>2, PTL DEF NativeSpec, Spec
=============================================================================
