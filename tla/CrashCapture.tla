----------------------------- MODULE CrashCapture -----------------------------
(* Crash capture: the runtime's exception handlers write a report and a dump   *)
(* when a thread of the game gets into trouble, and the next session of the    *)
(* launcher offers the newest report to the user as a bug report.              *)
EXTENDS Naturals, Sequences, FiniteSets

CONSTANTS Threads,        \* threads of the game's process
          Bodies,         \* bug reports, as sequences of "a" (plain byte), "lead" and "tail"
          UrlLimit, Prefix, Suffix, TrimStep,   \* of the issue URL, in bytes
          MaxRuns, MaxFaults   \* runs of the game, and exceptions of one run

VARIABLES process,    \* "alive", "dead"
          installed,  \* the vectored handler and the unhandled filter are in place
          started,    \* g_crash_capture_started
          owner,      \* who holds the mutex of RuntimeState
          thread,     \* what every thread does
          disk,       \* reports with their dumps, by write time
          named,      \* the dump RuntimeState names
          offer,      \* what the launcher shows, and the URL it opens
          runs, faults,
          first       \* history: what became of the exception that took the capture

vars == <<process, installed, started, owner, thread, disk, named, offer, runs, faults, first>>
-----------------------------------------------------------------------------
Nobody == "nobody"
Running == [pc |-> "run"]
NoOffer == [report |-> 0, body |-> <<>>, kept |-> 0, noted |-> FALSE]

Capturing(t) == thread[t].pc \in {"snapshot", "report", "flush", "dump", "artifacts"}

(* IsCrashExceptionCode: a C++ exception is no crash for the vectored handler.*)
IsCrashExceptionCode(code) == code # "cpp"

(* What a thread does, and the reports on the disk.                           *)
Captures == [pc : {"snapshot", "report", "flush", "dump", "artifacts"}, handled : BOOLEAN,
             code : {"access", "cpp"}, dumped : BOOLEAN]
ThreadTypes ==
  thread \in [Threads -> {Running, [pc |-> "gone"]} \union [pc : {"filter"}, code : {"access", "cpp"}]
                           \union Captures]

Kinds == {"none", "torn", "whole"}
DiskTypes == disk \in Seq([run : 1..MaxRuns, report : Kinds, dump : Kinds])

StateTypes == /\ process \in {"alive", "dead"} /\ installed \in BOOLEAN /\ started \in BOOLEAN
              /\ owner \in Threads \union {Nobody}
              /\ named \in 0..Len(disk) /\ offer.report \in 0..Len(disk)
              /\ runs \in 1..MaxRuns /\ faults \in 0..MaxFaults
              /\ first \in {"none", "open", "missed", "handled", "broken", "killed"}

TypeOK == ThreadTypes /\ DiskTypes /\ StateTypes

Init == /\ process = "alive" /\ installed = FALSE /\ started = FALSE /\ owner = Nobody
        /\ thread = [t \in Threads |-> Running]
        /\ disk = <<>> /\ named = 0 /\ offer = NoOffer
        /\ runs = 1 /\ faults = 0 /\ first = "none"

Set(t, state) == thread' = [thread EXCEPT ![t] = state]
-----------------------------------------------------------------------------
(* The bootstrap thread, before the game's first thread runs.                 *)
InstallCrashCapture ==
  /\ process = "alive" /\ ~installed
  /\ installed' = TRUE /\ started' = FALSE
  /\ UNCHANGED <<process, owner, thread, disk, named, offer, runs, faults, first>>

(* Any setter or getter of RuntimeState: its mutex is held for a while.       *)
LockState(t) ==
  /\ process = "alive" /\ thread[t].pc = "run" /\ owner = Nobody
  /\ owner' = t
  /\ UNCHANGED <<process, installed, started, thread, disk, named, offer, runs, faults, first>>

UnlockState(t) ==
  /\ process = "alive" /\ thread[t].pc = "run" /\ owner = t
  /\ owner' = Nobody
  /\ UNCHANGED <<process, installed, started, thread, disk, named, offer, runs, faults, first>>

(* The process ends with whatever its threads were doing.                     *)
Die == /\ process' = "dead" /\ owner' = Nobody
       /\ thread' = [t \in Threads |-> [pc |-> "gone"]]

\* Mutant: the flag is not set.
CaptureUnflagged(t, handled, code) ==
  /\ started' = started /\ first' = "open"
  /\ Set(t, [pc |-> "snapshot", handled |-> handled, code |-> code, dumped |-> FALSE])

Capture(t, handled, code) ==
  /\ started' = TRUE /\ first' = "open"
  /\ Set(t, [pc |-> "snapshot", handled |-> handled, code |-> code, dumped |-> FALSE])

(* The way of an exception that takes no capture in the vectored handler: it  *)
(* is caught by a frame of its thread, or goes on to the unhandled filter.    *)
Search(t, handled, code) ==
  /\ Set(t, IF handled THEN Running ELSE [pc |-> "filter", code |-> code])

(* An exception is raised and goes to the vectored handler first, which sees  *)
(* it before anybody knows whether it will be handled.                        *)
VectoredCrashHandler(t) ==
  /\ process = "alive" /\ thread[t].pc = "run" /\ faults < MaxFaults
  /\ faults' = faults + 1
  /\ \E handled \in BOOLEAN, code \in {"access", "cpp"} :
       /\ owner = t => ~handled
       /\ IF installed /\ IsCrashExceptionCode(code) /\ ~started
          THEN Capture(t, handled, code)
          ELSE Search(t, handled, code) /\ UNCHANGED <<started, first>>
  /\ UNCHANGED <<process, installed, owner, disk, named, offer, runs>>

\* Mutant: the filter is as choosy as the vectored handler.
FilterCrashCodes(t) ==
  /\ process = "alive" /\ thread[t].pc = "filter"
  /\ IF installed /\ ~started /\ IsCrashExceptionCode(thread[t].code)
     THEN Capture(t, FALSE, thread[t].code) /\ UNCHANGED <<process, owner>>
     ELSE /\ Die /\ UNCHANGED started
          /\ first' = IF first = "none" /\ installed THEN "missed" ELSE first
  /\ UNCHANGED <<installed, disk, named, offer, runs, faults>>

(* Nobody handled it: the last chance of a capture, then the end of the       *)
(* process, also of a capture in another thread.                              *)
UnhandledCrashFilter(t) ==
  /\ process = "alive" /\ thread[t].pc = "filter"
  /\ IF installed /\ ~started
     THEN Capture(t, FALSE, thread[t].code) /\ UNCHANGED <<process, owner>>
     ELSE /\ Die /\ UNCHANGED started
          /\ first' = CASE \E u \in Threads : Capturing(u) -> "killed"
                        [] first = "none" /\ installed -> "missed"
                        [] OTHER -> first
  /\ UNCHANGED <<installed, disk, named, offer, runs, faults>>
-----------------------------------------------------------------------------
\* Mutant: the state is locked as everywhere else.
SnapshotBlocking(t) ==
  /\ thread[t].pc = "snapshot" /\ owner = Nobody
  /\ Set(t, [thread[t] EXCEPT !.pc = "report"])
  /\ UNCHANGED <<process, installed, started, owner, disk, named, offer, runs, faults, first>>

(* TryBuildSnapshot: without the mutex the report does without the snapshot.  *)
TryBuildSnapshot(t) ==
  /\ thread[t].pc = "snapshot"
  /\ Set(t, [thread[t] EXCEPT !.pc = "report"])
  /\ UNCHANGED <<process, installed, started, owner, disk, named, offer, runs, faults, first>>

(* TryWriteTextFile: the file is there before its text is.                    *)
OpenReport(t) ==
  /\ thread[t].pc = "report"
  /\ \E opened \in BOOLEAN :
       /\ disk' = Append(disk, [run |-> runs, report |-> IF opened THEN "torn" ELSE "none", dump |-> "none"])
       /\ Set(t, [thread[t] EXCEPT !.pc = IF opened THEN "flush" ELSE "dump"])
       /\ first' = IF opened THEN first ELSE "broken"
  /\ UNCHANGED <<process, installed, started, owner, named, offer, runs, faults>>

FlushReport(t) ==
  /\ thread[t].pc = "flush"
  /\ \E whole \in BOOLEAN :
       /\ disk' = [disk EXCEPT ![Len(disk)].report = IF whole THEN "whole" ELSE "torn"]
       /\ first' = IF whole THEN first ELSE "broken"
  /\ Set(t, [thread[t] EXCEPT !.pc = "dump"])
  /\ UNCHANGED <<process, installed, started, owner, named, offer, runs, faults>>

(* TryWriteMiniDump: dbghelp may be missing, or give up half-way.             *)
TryWriteMiniDump(t) ==
  /\ thread[t].pc = "dump"
  /\ \E dump \in {"none", "torn", "whole"} :
       /\ disk' = [disk EXCEPT ![Len(disk)].dump = dump]
       /\ Set(t, [thread[t] EXCEPT !.pc = "artifacts", !.dumped = (dump = "whole")])
  /\ UNCHANGED <<process, installed, started, owner, named, offer, runs, faults, first>>

(* The end of a capture: the exception's search goes on.                      *)
Leave(t) ==
  Set(t, IF thread[t].handled THEN Running ELSE [pc |-> "filter", code |-> thread[t].code])

\* Mutant: the dump is named whether it was written or not.
NameEveryDump(t) ==
  /\ thread[t].pc = "artifacts"
  /\ named' = IF owner = Nobody THEN Len(disk) ELSE named
  /\ Leave(t)
  /\ first' = IF thread[t].handled THEN "handled" ELSE first
  /\ UNCHANGED <<process, installed, started, owner, disk, offer, runs, faults>>

(* TrySetCrashArtifacts: nothing is recorded without the mutex.               *)
TrySetCrashArtifacts(t) ==
  /\ thread[t].pc = "artifacts"
  /\ named' = IF owner # Nobody THEN named
              ELSE IF thread[t].dumped THEN Len(disk) ELSE 0
  /\ Leave(t)
  /\ first' = IF thread[t].handled THEN "handled" ELSE first
  /\ UNCHANGED <<process, installed, started, owner, disk, offer, runs, faults>>

(* A fault inside the capture itself: the handler of CaptureCrashArtifacts    *)
(* catches it, whatever was written by then.                                  *)
CaptureFails(t) ==
  /\ Capturing(t) /\ faults < MaxFaults
  /\ faults' = faults + 1
  /\ first' = "broken"
  /\ Leave(t)
  /\ UNCHANGED <<process, installed, started, owner, disk, named, offer, runs>>

(* The game ends by itself, and the DLL is detached.                          *)
Exit ==
  /\ process = "alive" /\ \E t \in Threads : thread[t].pc = "run"
  /\ Die
  /\ first' = IF \E t \in Threads : thread[t].pc # "run" THEN "killed" ELSE first
  /\ installed' = FALSE
  /\ UNCHANGED <<started, disk, named, offer, runs, faults>>
-----------------------------------------------------------------------------
(* PercentEncode: a plain byte stays one, every other byte becomes three.     *)
Cost(body, n) ==
  LET cost[k \in 0..n] == IF k = 0 THEN 0 ELSE cost[k - 1] + (IF body[k] = "a" THEN 1 ELSE 3)
  IN cost[n]

(* TrimIncompleteUtf8Suffix: the n bytes that are left lose a started         *)
(* character; a lead byte here announces two bytes.                           *)
TrimIncompleteUtf8Suffix(body, n) == IF n > 0 /\ body[n] = "lead" THEN n - 1 ELSE n

(* TrimBodyToUrlLimit: coarse steps until the body fits, then single bytes    *)
(* until the notice that it was cut fits as well.                             *)
Fits(body, n, notice) == n = 0 \/ Prefix + Cost(body, n) + notice <= UrlLimit

CoarseCut(body) ==
  LET coarse[n \in 0..Len(body)] ==
        IF Fits(body, n, 0) THEN n
        ELSE coarse[TrimIncompleteUtf8Suffix(body, IF n > TrimStep THEN n - TrimStep ELSE 0)]
  IN coarse[Len(body)]

FineCut(body, from) ==
  LET fine[n \in 0..Len(body)] ==
        IF Fits(body, n, Suffix) THEN n ELSE fine[TrimIncompleteUtf8Suffix(body, n - 1)]
  IN fine[from]

\* Mutant: the notice at the end is not counted.
TrimWithoutNotice(body) == [kept |-> CoarseCut(body), noted |-> CoarseCut(body) < Len(body)]

TrimBodyToUrlLimit(body) ==
  LET n == CoarseCut(body)
  IN IF n < Len(body) THEN [kept |-> FineCut(body, n), noted |-> TRUE] ELSE [kept |-> n, noted |-> FALSE]

\* Mutant: the first report found is kept.
FindFirstCrashReport ==
  LET reports == {i \in DOMAIN disk : disk[i].report # "none"}
  IN IF reports = {} THEN 0 ELSE CHOOSE i \in reports : \A j \in reports : i <= j

(* FindLatestCrashReport: the report with the latest write time.              *)
FindLatestCrashReport ==
  LET reports == {i \in DOMAIN disk : disk[i].report # "none"}
  IN IF reports = {} THEN 0 ELSE CHOOSE i \in reports : \A j \in reports : i >= j

(* The next session of the launcher: LoadLatestBugReportData, and the issue   *)
(* page the user opens with the text.                                         *)
OpenBugReport ==
  /\ process = "dead" /\ offer = NoOffer
  /\ \E body \in Bodies :
       offer' = [report |-> FindLatestCrashReport, body |-> body,
                 kept |-> TrimBodyToUrlLimit(body).kept, noted |-> TrimBodyToUrlLimit(body).noted]
  /\ UNCHANGED <<process, installed, started, owner, thread, disk, named, runs, faults, first>>

StartGame ==
  /\ process = "dead" /\ runs < MaxRuns
  /\ process' = "alive" /\ runs' = runs + 1
  /\ installed' = FALSE /\ started' = FALSE /\ owner' = Nobody
  /\ thread' = [t \in Threads |-> Running]
  /\ named' = 0 /\ faults' = 0 /\ first' = "none" /\ offer' = NoOffer
  /\ UNCHANGED disk

Next == \/ InstallCrashCapture
        \/ \E t \in Threads :
             \/ LockState(t) \/ UnlockState(t) \/ VectoredCrashHandler(t) \/ UnhandledCrashFilter(t)
             \/ TryBuildSnapshot(t) \/ OpenReport(t) \/ FlushReport(t) \/ TryWriteMiniDump(t)
             \/ TrySetCrashArtifacts(t) \/ CaptureFails(t)
        \/ Exit \/ OpenBugReport \/ StartGame

CaptureStep(t) == \/ TryBuildSnapshot(t) \/ OpenReport(t) \/ FlushReport(t)
                  \/ TryWriteMiniDump(t) \/ TrySetCrashArtifacts(t)

Spec == Init /\ [][Next]_vars
-----------------------------------------------------------------------------
(* Whoever holds the mutex of RuntimeState when a thread crashes, and be it   *)
(* that thread, its capture can go on (crash_handler.cpp:282-331,             *)
(* runtime_state.cpp:448-461, 558-570).                                       *)
CaptureNeverWaits == \A t \in Threads : Capturing(t) => ENABLED CaptureStep(t)

(* A run that ends in an exception nobody handled leaves a whole report, of   *)
(* whatever code, unless an exception that was handled took the capture       *)
(* before, another end of the process cut it off, or the disk or the capture  *)
(* itself failed (crash_handler.cpp:333-356).  The unhandled filter is the    *)
(* runtime's to the end: a game that set its own later would take from it the *)
(* exceptions which the vectored handler leaves alone.                        *)
CrashIsReported ==
  (process = "dead" /\ first \in {"open", "missed"}) =>
    \E i \in DOMAIN disk : disk[i].run = runs /\ disk[i].report = "whole"

(* One capture for one run of the game, however many threads crash and however*)
(* often one exception is seen (crash_handler.cpp:341, 348).                  *)
OneCapture ==
  /\ Cardinality({t \in Threads : Capturing(t)}) <= 1
  /\ \A i, j \in DOMAIN disk : disk[i].run = disk[j].run => i = j

(* A dump that the state of the runtime names is there, and of this run       *)
(* (crash_handler.cpp:309-321).                                               *)
NamedDumpExists == named # 0 => disk[named].dump = "whole" /\ disk[named].run = runs

(* The user is offered the report of the crash that just happened, and not    *)
(* of an older one (bug_report.cpp:86-111).                                   *)
OfferIsOfLastCrash ==
  (offer # NoOffer /\ first = "open") => disk[offer.report].run = runs

(* The address opened in the browser is within its limit, also with the       *)
(* notice that the text was cut, and no character of the text is cut in two   *)
(* (bug_report.cpp:177-222).                                                  *)
FeedbackFits ==
  /\ Prefix + Cost(offer.body, offer.kept) + (IF offer.noted THEN Suffix ELSE 0) <= UrlLimit
  /\ offer.kept > 0 => offer.body[offer.kept] # "lead"
(* The inductive invariant.  The flag: one thread has the capture, in a process that lives, with the    *)
(* handlers in place; what it captures is the first exception of the run, and *)
(* no dump is named before it is done.                                        *)
FlagInv ==
  /\ \A t \in Threads :
       Capturing(t) => (process = "alive" /\ installed /\ started /\ named = 0)
  /\ \A t, u \in Threads : (Capturing(t) /\ Capturing(u)) => t = u
  /\ (process = "alive" /\ ~installed) => ~started
  /\ started => first # "none"
  /\ ~started => named = 0
  /\ first # "missed"
  /\ process = "dead" => \A t \in Threads : thread[t].pc = "gone"

(* The disk: one report for a run, in the order of the runs; the one of this  *)
(* run is the last, and appears when the capture opens it.                    *)
NoReportYet == \A i \in DOMAIN disk : disk[i].run < runs
LastIsOfThisRun == disk # <<>> /\ disk[Len(disk)].run = runs

DiskInv ==
  /\ \A i, j \in DOMAIN disk : i < j => disk[i].run < disk[j].run
  /\ \A i \in DOMAIN disk : disk[i].run <= runs
  /\ ~started => NoReportYet
  /\ \A t \in Threads :
       /\ thread[t].pc \in {"snapshot", "report"} => NoReportYet
       /\ thread[t].pc \in {"flush", "dump", "artifacts"} => LastIsOfThisRun
       /\ thread[t].pc = "artifacts" => (thread[t].dumped => disk[Len(disk)].dump = "whole")

(* An exception that nothing went wrong with is being written, or written.    *)
WholeReport == \E i \in DOMAIN disk : disk[i].run = runs /\ disk[i].report = "whole"

OpenInv ==
  first = "open" => \/ \E t \in Threads : thread[t].pc \in {"snapshot", "report", "flush"}
                    \/ WholeReport

(* The user is offered a crash after the game has ended.                      *)
OfferInv == process = "alive" => offer = NoOffer

IInv == /\ TypeOK /\ FlagInv /\ DiskInv /\ OpenInv
        /\ NamedDumpExists /\ OfferInv /\ OfferIsOfLastCrash /\ FeedbackFits
=============================================================================
