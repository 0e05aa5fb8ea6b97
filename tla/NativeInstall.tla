---------------------------- MODULE NativeInstall ----------------------------
(***************************************************************************)
(* The installation of OpenClaw from the page (adapter.go, InstallNative): *)
(* a read-only preflight judges what is there, then one npm command        *)
(* replaces it.  There is no lock: confirmed requests run side by side,    *)
(* and npm lives on when the Manager that started it is gone.              *)
(*                                                                         *)
(* The Manager processes are those of UpdateRecovery.  OpenClaw itself is  *)
(* also changed by its user, or by another program.  It can stand in two   *)
(* places: in npm's prefix, where npm writes, and somewhere else on PATH   *)
(* or in a fixed place; the preflight judges the one it finds first.       *)
(***************************************************************************)
EXTENDS UpdateRecovery

CONSTANT Installs   \* slots for confirmed requests, with the npm each of them starts

VARIABLES
  openclaw,   \* what stands in each place: see Releases
  first,      \* the place PATH and the fixed places lead to first
  step,       \* where each request is
  child,      \* the npm of each request
  judged,     \* history: the places each request has judged
  touched,    \* history: who else changed OpenClaw since the request judged it
  told        \* history: what the request was answered

nativeInstall == <<openclaw, first, step, child, judged, touched, told>>

Places == {"elsewhere", "prefix"}

(* broken: it is found, and does not print a version.                      *)
Releases == {"missing", "reviewed", "other", "broken"}

InstallTypeOK ==
  /\ openclaw \in [Places -> Releases]
  /\ first \in Places
  /\ step \in [Installs ->
       {"idle", "early", "look", "version", "late", "prefix", "plan", "npm"}]
  /\ child \in [Installs -> {"none", "started", "writing", "ended", "failed"}]
  /\ judged \in [Installs -> SUBSET Places]
  /\ touched \in [Installs -> SUBSET {"install", "stranger"}]
  /\ told \in [Installs -> {"nothing", "refused", "failed", "installed"}]

NativeInit ==
  /\ Init
  /\ openclaw \in [Places -> Releases]
  /\ first \in Places
  /\ step = [r \in Installs |-> "idle"]
  /\ child = [r \in Installs |-> "none"]
  /\ judged = [r \in Installs |-> {}]
  /\ touched = [r \in Installs |-> {}]
  /\ told = [r \in Installs |-> "nothing"]

Goes(r, from, to) ==
  /\ step[r] = from
  /\ step' = [step EXCEPT ![r] = to]

TouchedBy(who, but) ==
  touched' = [q \in Installs |-> IF q \in but THEN touched[q] ELSE touched[q] \cup {who}]

-----------------------------------------------------------------------------
(* The request, one command or look at the disk per step.                  *)

(* handleInstall, with confirm.                                            *)
Confirmed(r) ==
  /\ \E p \in Procs : HoldsPort(p)
  /\ child[r] = "none"
  /\ Goes(r, "idle", "early")
  /\ judged' = [judged EXCEPT ![r] = {}]
  /\ told' = [told EXCEPT ![r] = "nothing"]
  /\ UNCHANGED <<openclaw, first, child, touched>>

(* A check fails, or the client is gone and its context ends the command.  *)
Refused(r) ==
  /\ step[r] \notin {"idle", "npm"}
  /\ step' = [step EXCEPT ![r] = "idle"]
  /\ told' = [told EXCEPT ![r] = "refused"]
  /\ UNCHANGED <<openclaw, first, child, judged, touched>>

(* npm is there, and a Node.js that OpenClaw supports.                     *)
EarlyChecks(r) ==
  /\ Goes(r, "early", "look")
  /\ UNCHANGED <<openclaw, first, child, judged, touched, told>>

JudgedAlone(r) == touched' = [touched EXCEPT ![r] = {}]   \* variant: nobody else is at work

(* What stands from now on is what was judged; an npm that is at work      *)
(* already changes it under the request.                                   *)
Judged(r) ==
  touched' = [touched EXCEPT ![r] =
    IF \E q \in Installs \ {r} : child[q] = "writing" THEN {"install"} ELSE {}]

(* The place the request looks at, or has found a command in.              *)
Place(r) == CHOOSE place \in Places : place = first <=> judged[r] = {}

IsJudged(r) == judged' = [judged EXCEPT ![r] = @ \cup {Place(r)}]

(* Variant: discovery that fails passes for a missing command. *)
LookOrMiss(r) ==
  /\ Goes(r, "look", "late")
  /\ IsJudged(r)
  /\ Judged(r)
  /\ UNCHANGED <<openclaw, first, child, told>>

(* discoverOpenClawForInstall, one place after the other until there is a  *)
(* command: PATH and the fixed places, then npm's prefix, which may be on  *)
(* PATH and so come first.  ResolveOpenClaw looks at the first place once  *)
(* more on its way to the other.  A discovery that fails is Refused.       *)
Look(r) ==
  /\ \/ /\ openclaw[Place(r)] # "missing"
        /\ Goes(r, "look", "version")
        /\ UNCHANGED <<judged, touched>>
     \/ /\ openclaw[Place(r)] = "missing"
        /\ Goes(r, "look", IF judged[r] = {} THEN "look" ELSE "late")
        /\ IsJudged(r)
        /\ IF Place(r) = "prefix" THEN Judged(r) ELSE UNCHANGED touched
     \/ /\ judged[r] # {}
        /\ openclaw[first] # "missing"
        /\ Goes(r, "look", "version")
        /\ judged' = [judged EXCEPT ![r] = {}]
        /\ UNCHANGED touched
  /\ UNCHANGED <<openclaw, first, child, told>>

(* openclaw --version; any other release is Refused.  What stands in the   *)
(* prefix is judged by this unless it was judged already.                  *)
Version(r) ==
  /\ openclaw[Place(r)] = "reviewed"
  /\ Goes(r, "version", "late")
  /\ IsJudged(r)
  /\ IF "prefix" \in judged[r] THEN UNCHANGED touched ELSE Judged(r)
  /\ UNCHANGED <<openclaw, first, child, told>>

(* The configuration and the workspace are absent, or can be read.         *)
PathChecks(r) ==
  /\ Goes(r, "late", "prefix")
  /\ UNCHANGED <<openclaw, first, child, judged, touched, told>>

(* npm's prefix, or its nearest parent, is writable and has space.         *)
PrefixChecks(r) ==
  /\ Goes(r, "prefix", "plan")
  /\ UNCHANGED <<openclaw, first, child, judged, touched, told>>

LateChecks(r) == PathChecks(r) \/ PrefixChecks(r)

(* NativeInstallPlan looks for npm and Node.js again; npm is started.      *)
Plan(r) ==
  /\ Goes(r, "plan", "npm")
  /\ child' = [child EXCEPT ![r] = "started"]
  /\ UNCHANGED <<openclaw, first, judged, touched, told>>

(* Variant: npm's exit status is not looked at. *)
AnsweredAnyway(r) ==
  /\ child[r] \in {"ended", "failed"}
  /\ Goes(r, "npm", "idle")
  /\ child' = [child EXCEPT ![r] = "none"]
  /\ told' = [told EXCEPT ![r] = "installed"]
  /\ UNCHANGED <<openclaw, first, judged, touched>>

Answered(r) ==
  /\ child[r] \in {"ended", "failed"}
  /\ Goes(r, "npm", "idle")
  /\ child' = [child EXCEPT ![r] = "none"]
  /\ told' = [told EXCEPT ![r] = IF child[r] = "ended" THEN "installed" ELSE "failed"]
  /\ UNCHANGED <<openclaw, first, judged, touched>>

-----------------------------------------------------------------------------
(* npm, which takes away what is in its prefix before the new package is   *)
(* complete.                                                               *)

InPrefix(releases) == \E now \in releases : openclaw' = [openclaw EXCEPT !["prefix"] = now]

(* Nobody waits for the npm of a Manager that is gone.                     *)
ChildIsDone(r, how) ==
  child' = [child EXCEPT ![r] = IF step[r] = "npm" THEN how ELSE "none"]

ChildWrites(r) ==
  /\ child[r] = "started"
  /\ child' = [child EXCEPT ![r] = "writing"]
  /\ InPrefix({"missing", "broken"})
  /\ TouchedBy("install", {r})
  /\ UNCHANGED <<first, step, judged, told>>

(* Another npm at work in the same place may spoil the result.             *)
ChildEnds(r) ==
  /\ child[r] = "writing"
  /\ ChildIsDone(r, "ended")
  /\ \/ InPrefix({"reviewed"})
     \/ /\ \E q \in Installs \ {r} : child[q] = "writing"
        /\ InPrefix({"broken"})
  /\ TouchedBy("install", {r})
  /\ UNCHANGED <<first, step, judged, told>>

(* npm fails or prints too much, or is killed: after two minutes, or when  *)
(* its client is gone.                                                     *)
ChildFails(r) ==
  /\ child[r] \in {"started", "writing"}
  /\ ChildIsDone(r, "failed")
  /\ IF child[r] = "started"
     THEN UNCHANGED <<openclaw, touched>>
     ELSE /\ InPrefix({"missing", "broken", "reviewed"})
          /\ TouchedBy("install", {r})
  /\ UNCHANGED <<first, step, judged, told>>

-----------------------------------------------------------------------------

(* The user, or another program, installs, changes or removes OpenClaw.    *)
Stranger ==
  /\ \E place \in Places : \E now \in Releases \ {openclaw[place]} :
       openclaw' = [openclaw EXCEPT ![place] = now]
  /\ TouchedBy("stranger", {})
  /\ UNCHANGED <<first, step, child, judged, told>>

(* Requests end with their process, npm does not.                          *)
InstallsFollow ==
  IF Running # {} /\ Running' = {}
  THEN /\ step' = [r \in Installs |-> "idle"]
       /\ child' = [r \in Installs |->
                      IF child[r] \in {"started", "writing"} THEN child[r] ELSE "none"]
       /\ UNCHANGED <<openclaw, first, judged, touched, told>>
  ELSE UNCHANGED nativeInstall

InstallStep(r) ==
  \/ Confirmed(r) \/ Refused(r) \/ EarlyChecks(r) \/ Look(r) \/ Version(r)
  \/ LateChecks(r) \/ Plan(r) \/ Answered(r)
  \/ ChildWrites(r) \/ ChildEnds(r) \/ ChildFails(r)

NativeNext ==
  \/ Next /\ InstallsFollow
  \/ UNCHANGED vars /\ (Stranger \/ \E r \in Installs : InstallStep(r))

NativeSpec == NativeInit /\ [][NativeNext]_<<vars, nativeInstall>>

-----------------------------------------------------------------------------
(* Properties.                                                             *)

(* From the judgement to the moment npm takes it away, what is in npm's    *)
(* prefix is nothing or the reviewed release; a release of the user's is   *)
(* replaced only when it came there during the installation, and a broken  *)
(* one only when that, or another installation, broke it meanwhile         *)
(* (InstallPreflight: every way to npm passes the missing or the version   *)
(* case, also while other requests, or npm of an earlier Manager, are at   *)
(* work).  The prefix is not judged in one case only: the reviewed release *)
(* was found elsewhere before it.                                          *)
ReplacesWhatItJudged ==
  \A r \in Installs :
    step[r] \in {"late", "prefix", "plan"} \/ child[r] = "started" =>
      IF "prefix" \in judged[r]
      THEN /\ openclaw["prefix"] = "other" => "stranger" \in touched[r]
           /\ openclaw["prefix"] = "broken" => touched[r] # {}
      ELSE /\ judged[r] = {"elsewhere"} /\ first = "elsewhere"
           /\ openclaw["elsewhere"] # "reviewed" => "stranger" \in touched[r]

(* A request that was answered installed has left the reviewed release in  *)
(* npm's prefix, until somebody else changes it.                           *)
InstalledIsReviewed ==
  \A r \in Installs :
    told[r] = "installed" => openclaw["prefix"] = "reviewed" \/ touched[r] # {}

-----------------------------------------------------------------------------
(* The inductive invariant behind them.                                    *)

(* One request after another in a slot: npm comes after the judgement, and *)
(* a process that is gone leaves no answer behind.                         *)
OneAtATime ==
  \A r \in Installs :
    /\ step[r] \notin {"idle", "npm"} => child[r] = "none"
    /\ told[r] = "installed" => step[r] = "idle" /\ child[r] = "none"

HasJudged(r) ==
  \/ step[r] \in {"late", "prefix", "plan"}
  \/ child[r] \in {"started", "writing"}
  \/ step[r] \in {"look", "version"} /\ "prefix" \in judged[r]

(* A request whose judgement stands knows of every npm at work beside it.  *)
WritersAreKnown ==
  \A r, q \in Installs :
    r # q /\ HasJudged(r) /\ child[q] = "writing" => touched[r] # {}

EndedIsReviewed ==
  \A r \in Installs :
    child[r] = "ended" => openclaw["prefix"] = "reviewed" \/ touched[r] # {}

(* The places are judged in their order, and a prefix that was passed over *)
(* held no command.                                                        *)
PlacesInOrder ==
  \A r \in Installs :
    /\ step[r] = "early" => judged[r] = {}
    /\ step[r] \in {"look", "version"} => judged[r] \subseteq {first}
    /\ step[r] \in {"look", "version"} /\ "prefix" \in judged[r] =>
         /\ openclaw["prefix"] = "other" => "stranger" \in touched[r]
         /\ openclaw["prefix"] = "broken" => touched[r] # {}

InstallIInv ==
  /\ InstallTypeOK
  /\ OneAtATime
  /\ WritersAreKnown
  /\ EndedIsReviewed
  /\ PlacesInOrder
  /\ ReplacesWhatItJudged
  /\ InstalledIsReviewed
=============================================================================
