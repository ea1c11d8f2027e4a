---------------------------- MODULE UpdateClient ----------------------------
(***************************************************************************)
(* src/src/launcher/update_client.cpp and its only user, the launcher's    *)
(* frame loop (launcher_ui.cpp): one worker thread checks the release      *)
(* mirrors, then downloads, verifies and extracts an update and waits for  *)
(* the game to end; the UI thread polls a snapshot of the status, starts,  *)
(* cancels, and takes the finished task directory over to the installer.   *)
(*                                                                         *)
(* Stop() is Cancel of the transport and a join: the UI thread blocks in   *)
(* it, so each of its callers is an action that starts it and one that     *)
(* runs when the worker has ended.                                         *)
(***************************************************************************)
EXTENDS Naturals, Sequences, SequencesExt

CONSTANTS
  Sources,    \* the release mirrors, in the order of kSources
  Versions,   \* versions a mirror may publish
  Installed,  \* the installed version
  Packages,   \* package hashes
  Stages,     \* task directories CreateStage may create
  None

ASSUME ClientAssumption ==
  /\ Versions \subseteq Nat /\ Installed \in Nat
  /\ Sources \in Seq(Range(Sources)) /\ Len(Sources) > 0
  /\ None \notin Stages

VARIABLES
  phase,      \* status.phase
  stage,      \* status.stage, None when empty
  urls,       \* package_urls, each with the manifest it came from
  cancelled,  \* the transport's flag
  worker,     \* where the worker thread is; "none": not joinable or ended
  next,       \* its loop index
  releases,   \* its local list of newer releases
  work,       \* its local stage path
  dirs,       \* [Stages -> DirStates]: the task directories
  game,       \* the game of this installation runs
  ui,         \* where the UI thread is
  updating,   \* the frame's first look at the phase was busy
  seen,       \* the phase the dialog was drawn for
  accepted,   \* state.accepted: launch the game after the UI
  taken       \* state.update_stage: install this after the UI

clientVars == <<phase, stage, urls, cancelled>>
workerVars == <<worker, next, releases, work>>
uiVars == <<ui, updating, seen, accepted, taken>>
vars == <<phase, stage, urls, cancelled, worker, next, releases, work, dirs, game,
          ui, updating, seen, accepted, taken>>

Phases == {"checking", "idle", "available", "downloading", "verifying",
           "waiting_for_game", "ready", "failed"}
\* Mutant: a finished download does not count as busy.
BusyUntilReady == {"downloading", "verifying", "waiting_for_game"}

Busy == {"downloading", "verifying", "waiting_for_game", "ready"}

\* "discarded": remove_all was called, whose errors are ignored.
DirStates == {"none", "partial", "complete", "discarded"}

WorkerPCs == {"none", "getRelease", "getManifest", "createStage", "download", "verify",
              "extract", "waitGame", "lastLook", "publish", "cleanUp", "fail"}
UiPCs == {"frame", "sidebar", "dialog", "joinDownload", "joinCancel", "buttons", "joinClose", "closed"}

Releases == [source : Range(Sources), version : Versions]
Urls == [source : Range(Sources), version : Versions, package : Packages]

StatusTypes ==
  /\ phase \in Phases /\ stage \in Stages \union {None}
  /\ urls \in Seq(Urls) /\ cancelled \in BOOLEAN
  /\ dirs \in [Stages -> DirStates] /\ game \in BOOLEAN

WorkerTypes ==
  /\ worker \in WorkerPCs /\ releases \in Seq(Releases)
  /\ next \in 1 .. Len(Sources) + 1
  /\ worker = "download" => next \in DOMAIN urls
  /\ work \in Stages \union {None}

UiTypes ==
  /\ ui \in UiPCs /\ updating \in BOOLEAN /\ seen \in Phases /\ accepted \in BOOLEAN
  /\ taken \in Stages \union {None}

TypeOK == StatusTypes /\ WorkerTypes /\ UiTypes

\* The constructor has called Check.
Init ==
  /\ phase = "checking" /\ stage = None /\ urls = <<>> /\ cancelled = FALSE
  /\ worker = "getRelease" /\ next = 1 /\ releases = <<>> /\ work = None
  /\ dirs = [s \in Stages |-> "none"] /\ game \in BOOLEAN
  /\ ui = "frame" /\ updating = FALSE /\ seen = "checking" /\ accepted = FALSE /\ taken = None

-----------------------------------------------------------------------------
(* The worker thread: Impl::Check.                                         *)

\* A cancelled check returns without touching the phase.
CheckCancelled ==
  /\ worker \in {"getRelease", "getManifest"} /\ cancelled
  /\ next <= Len(IF worker = "getRelease" THEN Sources ELSE releases)
  /\ worker' = "none"
  /\ UNCHANGED <<clientVars, next, releases, work, dirs, game, uiVars>>

\* One mirror answers with a release, or fails, which stays quiet.
GetRelease ==
  /\ worker = "getRelease" /\ ~cancelled /\ next <= Len(Sources)
  /\ \/ \E v \in Versions :
          releases' = IF v > Installed
                      THEN Append(releases, [source |-> Sources[next], version |-> v])
                      ELSE releases
     \/ UNCHANGED releases
  /\ next' = next + 1
  /\ UNCHANGED <<clientVars, worker, work, dirs, game, uiVars>>

\* Newest first; mirrors with the same version keep their order.
Before(m, n) ==
  \/ releases[m].version > releases[n].version
  \/ releases[m].version = releases[n].version /\ m < n

SortReleases ==
  /\ worker = "getRelease" /\ next > Len(Sources)
  /\ worker' = "getManifest"
  /\ \E order \in Bijection(DOMAIN releases, DOMAIN releases) :
       /\ \A i, j \in DOMAIN releases : i < j => Before(order[i], order[j])
       /\ releases' = [i \in DOMAIN releases |-> releases[order[i]]]
  /\ next' = 1
  /\ UNCHANGED <<clientVars, work, dirs, game, uiVars>>

\* Mutant: the hashes are not compared.
SameVersion(a, b) == a.version = b.version

\* The release's manifest names package p; only a mirror of the same package
\* becomes a second source.
SamePackage(a, b) == a.version = b.version /\ a.package = b.package

GetManifest ==
  /\ worker = "getManifest" /\ ~cancelled /\ next <= Len(releases)
  /\ \/ \E p \in Packages :
          LET url == [source |-> releases[next].source, version |-> releases[next].version,
                      package |-> p]
          IN  urls' = IF urls = <<>> \/ SamePackage(url, urls[1])
                      THEN Append(urls, url) ELSE urls
     \/ UNCHANGED urls
  /\ next' = next + 1
  /\ UNCHANGED <<phase, stage, cancelled, worker, releases, work, dirs, game, uiVars>>

CheckDone ==
  /\ worker = "getManifest" /\ next > Len(releases)
  /\ worker' = "none"
  /\ phase' = IF urls = <<>> THEN "idle" ELSE "available"
  /\ UNCHANGED <<stage, urls, cancelled, next, releases, work, dirs, game, uiVars>>

-----------------------------------------------------------------------------
(* The worker thread: Impl::Download.                                      *)

Throw == worker' = IF work = None THEN "fail" ELSE "cleanUp"

CreateStage ==
  /\ worker = "createStage"
  /\ \/ \E s \in Stages : /\ dirs[s] = "none"
                          /\ dirs' = [dirs EXCEPT ![s] = "partial"]
                          /\ work' = s
                          /\ worker' = "download"
     \/ Throw /\ UNCHANGED <<dirs, work>>
  /\ next' = 1
  /\ UNCHANGED <<clientVars, releases, game, uiVars>>

\* Download and VerifyFile of one URL; a failure falls back to the next
\* mirror unless the user cancelled or no mirror is left.
DownloadPackage ==
  /\ worker = "download"
  /\ \/ /\ ~cancelled
        /\ worker' = "verify" /\ UNCHANGED <<next, phase>>
     \/ /\ cancelled \/ next = Len(urls)
        /\ Throw /\ UNCHANGED <<next, phase>>
     \/ /\ ~cancelled /\ next < Len(urls)
        /\ next' = next + 1 /\ phase' = "downloading" /\ UNCHANGED worker
  /\ UNCHANGED <<stage, urls, cancelled, releases, work, dirs, game, uiVars>>

StartVerifying ==
  /\ worker = "verify"
  /\ phase' = "verifying"
  /\ worker' = "extract"
  /\ UNCHANGED <<stage, urls, cancelled, next, releases, work, dirs, game, uiVars>>

\* ExtractPackage kills the extraction when cancelled and verifies what it
\* leaves.
Extract ==
  /\ worker = "extract"
  /\ \/ dirs' = [dirs EXCEPT ![work] = "complete"] /\ worker' = "waitGame"
     \/ Throw /\ UNCHANGED dirs
  /\ UNCHANGED <<clientVars, next, releases, work, game, uiVars>>

\* Mutant: the waiting loop does not look at the flag.
WaitForGameOnly ==
  /\ worker = "waitGame"
  /\ IF game THEN phase' = "waiting_for_game" /\ UNCHANGED worker
             ELSE worker' = "lastLook" /\ UNCHANGED phase
  /\ UNCHANGED <<stage, urls, cancelled, next, releases, work, dirs, game, uiVars>>

WaitForGame ==
  /\ worker = "waitGame"
  /\ \/ ~game /\ worker' = "lastLook" /\ UNCHANGED phase
     \/ game /\ cancelled /\ Throw /\ UNCHANGED phase
     \/ game /\ ~cancelled /\ phase' = "waiting_for_game" /\ UNCHANGED worker
  /\ UNCHANGED <<stage, urls, cancelled, next, releases, work, dirs, game, uiVars>>

LastLook ==
  /\ worker = "lastLook"
  /\ IF cancelled THEN Throw ELSE worker' = "publish"
  /\ UNCHANGED <<clientVars, next, releases, work, dirs, game, uiVars>>

PublishStage ==
  /\ worker = "publish"
  /\ stage' = work /\ phase' = "ready"
  /\ worker' = "none"
  /\ work' = None
  /\ UNCHANGED <<urls, cancelled, next, releases, dirs, game, uiVars>>

\* Mutant: the handler leaves the task directory behind.
LeaveBehind ==
  /\ worker = "cleanUp" /\ worker' = "fail"
  /\ UNCHANGED <<clientVars, next, releases, work, dirs, game, uiVars>>

\* The handler: remove_all, then the phase by the flag as it is by then.
CleanUp ==
  /\ worker = "cleanUp"
  /\ dirs' = [dirs EXCEPT ![work] = "discarded"]
  /\ worker' = "fail"
  /\ UNCHANGED <<clientVars, next, releases, work, game, uiVars>>

Fail ==
  /\ worker = "fail"
  /\ phase' = IF cancelled THEN "available" ELSE "failed"
  /\ worker' = "none"
  /\ work' = None
  /\ UNCHANGED <<stage, urls, cancelled, next, releases, dirs, game, uiVars>>

WorkerStep ==
  \/ CheckCancelled \/ GetRelease \/ SortReleases \/ GetManifest \/ CheckDone
  \/ CreateStage \/ DownloadPackage \/ StartVerifying \/ Extract \/ WaitForGame
  \/ LastLook \/ PublishStage \/ CleanUp \/ Fail

-----------------------------------------------------------------------------
(* The UI thread: one frame of DrawLauncherFrame, then the next or the end. *)

\* The first snapshot decides whether launching the game is offered; its
\* gamepad button acts here, and the rest of the frame is still drawn.
BeginFrame ==
  /\ ui = "frame"
  /\ updating' = (phase \in Busy)
  /\ \/ UNCHANGED accepted
     \/ ~updating' /\ accepted' = TRUE
  /\ ui' = "sidebar"
  /\ UNCHANGED <<clientVars, workerVars, dirs, game, seen, taken>>

\* DrawUpdateDialog draws a snapshot, which may be stale when a click acts.
DrawUpdateDialog ==
  /\ ui = "sidebar"
  /\ seen' = phase
  /\ ui' = "dialog"
  /\ UNCHANGED <<clientVars, workerVars, dirs, game, updating, accepted, taken>>

\* The dialog is closed, or nothing is clicked.
DialogIdle ==
  /\ ui = "dialog" /\ seen # "ready"
  /\ ui' = "buttons"
  /\ UNCHANGED <<clientVars, workerVars, dirs, game, updating, seen, accepted, taken>>

ClickDownload ==
  /\ ui = "dialog" /\ seen \in {"available", "failed"}
  /\ cancelled' = TRUE
  /\ ui' = "joinDownload"
  /\ UNCHANGED <<phase, stage, urls, workerVars, dirs, game, updating, seen, accepted, taken>>

\* Client::Download after its join; the new worker starts at once.
StartDownload ==
  /\ ui = "joinDownload" /\ worker = "none"
  /\ IF urls = <<>> THEN UNCHANGED <<cancelled, phase, worker>>
     ELSE cancelled' = FALSE /\ phase' = "downloading" /\ worker' = "createStage"
  /\ ui' = "buttons"
  /\ UNCHANGED <<stage, urls, next, releases, work, dirs, game, updating, seen, accepted, taken>>

\* The worker may have become ready, failed or ended since the button was drawn.
ClickCancel ==
  /\ ui = "dialog" /\ seen \in Busy \ {"ready"}
  /\ cancelled' = TRUE
  /\ ui' = "joinCancel"
  /\ UNCHANGED <<phase, stage, urls, workerVars, dirs, game, updating, seen, accepted, taken>>

\* Client::Cancel after its join, also run by ~Client.
DiscardReadyStage ==
  IF stage # None
  THEN /\ dirs' = [dirs EXCEPT ![stage] = "discarded"]
       /\ stage' = None /\ phase' = "available"
  ELSE UNCHANGED <<dirs, stage, phase>>

FinishCancel ==
  /\ ui = "joinCancel" /\ worker = "none"
  /\ DiscardReadyStage
  /\ ui' = "buttons"
  /\ UNCHANGED <<urls, cancelled, workerVars, game, updating, seen, accepted, taken>>

\* Mutant: the stage is copied out and stays the client's.
CopyReadyStage ==
  /\ ui = "dialog" /\ seen = "ready" /\ phase = "ready"
  /\ taken' = stage
  /\ ui' = "buttons"
  /\ UNCHANGED <<phase, stage, urls, cancelled, workerVars, dirs, game, updating, seen, accepted>>

\* The launcher closes its window to install what it took; the phase stays.
TakeReadyStage ==
  /\ ui = "dialog" /\ seen = "ready" /\ phase = "ready"
  /\ taken' = stage /\ stage' = None
  /\ ui' = "buttons"
  /\ UNCHANGED <<phase, urls, cancelled, workerVars, dirs, game, updating, seen, accepted>>

\* The rest of the frame: nothing, exit, or launch.  A frame that took a
\* stage or accepted a launch is the last one; ~Client then cancels.
EndFrame ==
  /\ ui = "buttons"
  /\ \/ UNCHANGED accepted
     \/ ~updating /\ accepted' = TRUE
  /\ \/ /\ taken = None /\ ~accepted'
        /\ ui' = "frame" /\ UNCHANGED cancelled
     \/ ui' = "joinClose" /\ cancelled' = TRUE
  /\ UNCHANGED <<phase, stage, urls, workerVars, dirs, game, updating, seen, taken>>

FinishClose ==
  /\ ui = "joinClose" /\ worker = "none"
  /\ DiscardReadyStage
  /\ ui' = "closed"
  /\ UNCHANGED <<urls, cancelled, workerVars, game, updating, seen, accepted, taken>>

UiJoins == StartDownload \/ FinishCancel \/ FinishClose

UiStep ==
  \/ BeginFrame \/ DrawUpdateDialog \/ DialogIdle \/ ClickDownload \/ ClickCancel \/ TakeReadyStage
  \/ EndFrame \/ UiJoins

GameToggles ==
  /\ game' = ~game
  /\ UNCHANGED <<clientVars, workerVars, dirs, uiVars>>

Next == WorkerStep \/ UiStep \/ GameToggles

Spec == Init /\ [][Next]_vars

\* Threads are scheduled and every network wait has a timeout; the user and
\* the game owe nothing.
FairSpec == Spec /\ WF_vars(WorkerStep) /\ WF_vars(UiJoins)

-----------------------------------------------------------------------------
(* Properties.                                                             *)

\* A directory handed to the installer is a verified one that the client no
\* longer touches: no cancel, destructor or late worker removes it.
HandedOverWhole == taken # None => dirs[taken] = "complete" /\ taken # stage /\ taken # work

\* Once the worker has ended, every directory it created is published, taken
\* or removed: a cancel that races the publication leaks nothing.
NoOrphan ==
  worker = "none" =>
    \A s \in Stages : dirs[s] \in {"partial", "complete"} => s \in {stage, taken}

\* The launcher never leaves the UI both to install and to start the game.
NeverBoth == ~(accepted /\ taken # None)

\* Falling back to another mirror can only fetch the same package (Check keeps
\* a second URL only for the same version and hash), and that package is newer
\* than the installed one and than every release still to be looked at: of
\* several mirrors the newest with a valid manifest wins, in whatever order they
\* answered.
OnePackage ==
  /\ \A i, j \in DOMAIN urls :
       urls[i].version = urls[j].version /\ urls[i].package = urls[j].package
  /\ \A u \in Range(urls) :
       /\ u.version > Installed
       /\ worker = "getManifest" =>
            \A i \in next .. Len(releases) : releases[i].version <= u.version

\* A join always returns: cancelling ends the worker whatever it waits for,
\* the game included, so the launcher's window never hangs.
JoinReturns ==
  /\ ui = "joinCancel" ~> ui # "joinCancel"
  /\ ui = "joinDownload" ~> ui # "joinDownload"
  /\ ui = "joinClose" ~> ui = "closed"
-----------------------------------------------------------------------------
(* The inductive invariant: what the phase, the worker, the directories and *)
(* the frame say of each other.                                             *)

Checking == {"getRelease", "getManifest"}
Downloading == WorkerPCs \ ({"none"} \union Checking)

\* The lists of the check are no longer than its loops have come.
CountInv ==
  /\ Len(releases) <= Len(Sources) /\ Len(urls) <= Len(Sources)
  /\ worker = "getRelease" => urls = <<>> /\ Len(releases) < next
  /\ worker = "getManifest" => next <= Len(releases) + 1 /\ Len(urls) < next
  /\ worker \in Downloading => urls # <<>>

\* The releases still to be looked at are newer than the installed version and
\* in falling order, and the URLs are of one package that beats them all.
MirrorInv ==
  /\ \A i \in DOMAIN releases : releases[i].version > Installed
  /\ worker = "getManifest" =>
       \A i, j \in DOMAIN releases : i < j => releases[j].version <= releases[i].version
  /\ OnePackage

\* A phase other threads see is the worker's.
WorkerInv ==
  /\ worker \in Checking => phase = "checking"
  /\ worker \in Downloading => phase \in Busy \ {"ready"}
  /\ worker \in Downloading \cup Checking => stage = None /\ taken = None
  /\ worker \in {"none", "createStage"} \cup Checking => work = None
  /\ worker \in {"download", "verify", "extract"} => work # None /\ dirs[work] = "partial"
  /\ worker \in {"waitGame", "lastLook", "publish"} => work # None /\ dirs[work] = "complete"
  /\ worker = "cleanUp" => work # None
  /\ worker = "fail" /\ work # None => dirs[work] = "discarded"

\* Every directory with something in it has exactly one owner.
OwnerInv ==
  /\ \A s \in Stages : dirs[s] \in {"partial", "complete"} => s \in {work, stage, taken}
  /\ stage # None => dirs[stage] = "complete" /\ phase = "ready" /\ taken = None
  /\ taken # None => dirs[taken] = "complete" /\ phase = "ready"

\* What the frame has drawn is still true enough when a click acts on it.
FrameInv ==
  /\ taken # None => ui \in {"buttons", "joinClose", "closed"} /\ updating
  /\ accepted => ui # "frame" /\ ~updating
  /\ ui \in {"sidebar", "dialog"} /\ ~updating => phase \notin Busy
  /\ ui = "joinDownload" => seen \in {"available", "failed"}
  /\ ui \in {"dialog", "joinDownload"} /\ seen \in {"available", "failed"} =>
       worker = "none" /\ stage = None

IInv == TypeOK /\ CountInv /\ MirrorInv /\ WorkerInv /\ OwnerInv /\ FrameInv

=============================================================================
