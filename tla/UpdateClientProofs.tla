------------------------- MODULE UpdateClientProofs -------------------------
(***************************************************************************)
(* Theorems about UpdateClient, for any list of mirrors, any versions and  *)
(* packages, and any supply of task directories.                           *)
(***************************************************************************)
EXTENDS UpdateClient, TLAPS

\* The worker does not touch the frame.
LEMMA WorkerFrame == ASSUME WorkerStep PROVE UNCHANGED <<game, uiVars>>
  BY DEF WorkerStep,
         CheckCancelled, GetRelease, SortReleases, GetManifest, CheckDone, CreateStage,
         DownloadPackage, StartVerifying, Extract, WaitForGame, LastLook, PublishStage,
         CleanUp, Fail

\* The UI thread does not touch the worker's own variables.
LEMMA UiFrame == ASSUME UiStep PROVE UNCHANGED <<next, releases, work, urls, game>>
  BY DEF UiStep, UiJoins, clientVars, workerVars, DiscardReadyStage,
         BeginFrame, DrawUpdateDialog, DialogIdle, ClickDownload, ClickCancel,
         TakeReadyStage, EndFrame, StartDownload, FinishCancel, FinishClose

\* Sorting permutes: newest first, every release from the unsorted list.
LEMMA Sorted ==
  ASSUME releases \in Seq(Releases), SortReleases
  PROVE  /\ releases' \in Seq(Releases) /\ Len(releases') = Len(releases)
         /\ \A i \in DOMAIN releases' : \E j \in DOMAIN releases : releases'[i] = releases[j]
         /\ \A i, j \in DOMAIN releases' : i < j => releases'[j].version <= releases'[i].version
  <1>1. PICK order \in Bijection(DOMAIN releases, DOMAIN releases) :
          /\ \A i, j \in DOMAIN releases : i < j => Before(order[i], order[j])
          /\ releases' = [i \in DOMAIN releases |-> releases[order[i]]]
    BY DEF SortReleases
  <1>2. order \in [DOMAIN releases -> DOMAIN releases]
    BY DEF Bijection, Injection
  <1>3. /\ DOMAIN releases = 1 .. Len(releases) /\ Len(releases) \in Nat
        /\ \A i \in DOMAIN releases : releases[i] \in Releases
    OBVIOUS
  <1>4. \A i \in DOMAIN releases : releases'[i] = releases[order[i]] /\ order[i] \in DOMAIN releases
    BY <1>1, <1>2
  <1>5. releases' \in Seq(Releases) /\ Len(releases') = Len(releases)
        /\ DOMAIN releases' = DOMAIN releases
    <2>1. releases' \in [1 .. Len(releases) -> Releases]
      BY <1>1, <1>3, <1>4
    <2> QED
      BY <2>1, <1>3
  <1>6. \A i, j \in DOMAIN releases : i < j => releases'[j].version <= releases'[i].version
    <2> SUFFICES ASSUME NEW i \in DOMAIN releases, NEW j \in DOMAIN releases, i < j
                 PROVE  releases'[j].version <= releases'[i].version
      OBVIOUS
    <2>1. Before(order[i], order[j])
      BY <1>1
    <2>2. releases[order[i]].version \in Nat /\ releases[order[j]].version \in Nat
      BY <1>3, <1>4, ClientAssumption DEF Releases
    <2>3. releases'[i] = releases[order[i]] /\ releases'[j] = releases[order[j]]
      BY <1>4
    <2>4. releases[order[j]].version <= releases[order[i]].version
      BY <2>1, <2>2 DEF Before
    <2> QED
      BY <2>3, <2>4
  <1> QED
    BY <1>4, <1>5, <1>6

\* An answer adds at most one release, a newer one.
LEMMA OneMoreRelease ==
  ASSUME TypeOK, GetRelease
  PROVE  \/ releases' = releases
         \/ \E r \in Releases : r.version > Installed /\ releases' = Append(releases, r)
  <1>1. Sources[next] \in Range(Sources)
    BY ClientAssumption DEF GetRelease, TypeOK, WorkerTypes
  <1>2. CASE UNCHANGED releases
    BY <1>2
  <1>3. ASSUME NEW v \in Versions,
               releases' = IF v > Installed
                           THEN Append(releases, [source |-> Sources[next], version |-> v])
                           ELSE releases
        PROVE  \/ releases' = releases
               \/ \E r \in Releases : r.version > Installed /\ releases' = Append(releases, r)
    <2>1. [source |-> Sources[next], version |-> v] \in Releases
      BY <1>1 DEF Releases
    <2> QED
      BY <1>3, <2>1
  <1> QED
    BY <1>2, <1>3 DEF GetRelease

\* u is the URL that the manifest of the release at hand adds.
AddsUrl(u) ==
  /\ u.version = releases[next].version
  /\ urls = <<>> \/ SamePackage(u, urls[1])
  /\ urls' = Append(urls, u)

\* A manifest adds at most one URL, of the package there is already.
LEMMA OneMoreUrl ==
  ASSUME TypeOK, GetManifest
  PROVE  urls' = urls \/ \E u \in Urls : AddsUrl(u)
  <1>1. next \in DOMAIN releases /\ releases[next] \in Releases
    BY ClientAssumption DEF GetManifest, TypeOK, WorkerTypes
  <1>2. CASE UNCHANGED urls
    BY <1>2
  <1>3. ASSUME NEW p \in Packages,
               LET url == [source |-> releases[next].source, version |-> releases[next].version,
                           package |-> p]
               IN  urls' = IF urls = <<>> \/ SamePackage(url, urls[1])
                           THEN Append(urls, url) ELSE urls
        PROVE  urls' = urls \/ \E u \in Urls : AddsUrl(u)
    <2> DEFINE url == [source |-> releases[next].source, version |-> releases[next].version,
                       package |-> p]
    <2>1. url \in Urls /\ url.version = releases[next].version
      BY <1>1 DEF Urls, Releases
    <2> HIDE DEF url
    <2>2. urls' = IF urls = <<>> \/ SamePackage(url, urls[1]) THEN Append(urls, url) ELSE urls
      BY <1>3 DEF url
    <2>3. AddsUrl(url) \/ urls' = urls
      BY <2>1, <2>2 DEF AddsUrl
    <2> QED
      BY <2>1, <2>3
  <1> QED
    BY <1>2, <1>3 DEF GetManifest

\* Every action keeps the types of the shared status,
LEMMA StatusTypesStep == IInv /\ [Next]_vars => StatusTypes'
  <1> SUFFICES ASSUME IInv, [Next]_vars PROVE StatusTypes'
    OBVIOUS
  <1> USE ClientAssumption DEF IInv, TypeOK, StatusTypes, clientVars, workerVars,
         uiVars, Phases, DirStates
  <1>1. ASSUME CheckCancelled PROVE StatusTypes'
    BY <1>1 DEF CheckCancelled
  <1>2. ASSUME GetRelease PROVE StatusTypes'
    BY <1>2 DEF GetRelease
  <1>3. ASSUME SortReleases PROVE StatusTypes'
    BY <1>3 DEF SortReleases
  <1>4. ASSUME GetManifest PROVE StatusTypes'
    <2>1. urls' \in Seq(Urls)
      <3>1. ASSUME NEW u \in Urls, AddsUrl(u) PROVE urls' \in Seq(Urls)
        BY <3>1 DEF AddsUrl
      <3> QED
        BY <1>4, <3>1, OneMoreUrl
    <2> QED
      BY <1>4, <2>1 DEF GetManifest
  <1>5. ASSUME CheckDone PROVE StatusTypes'
    BY <1>5 DEF CheckDone
  <1>6. ASSUME CreateStage PROVE StatusTypes'
    BY <1>6 DEF CreateStage, Throw
  <1>7. ASSUME DownloadPackage PROVE StatusTypes'
    BY <1>7 DEF DownloadPackage, Throw
  <1>8. ASSUME StartVerifying PROVE StatusTypes'
    BY <1>8 DEF StartVerifying
  <1>9. ASSUME Extract PROVE StatusTypes'
    BY <1>9 DEF Extract, Throw
  <1>10. ASSUME WaitForGame PROVE StatusTypes'
    BY <1>10 DEF WaitForGame, Throw
  <1>11. ASSUME LastLook PROVE StatusTypes'
    BY <1>11 DEF LastLook, Throw
  <1>12. ASSUME PublishStage PROVE StatusTypes'
    BY <1>12 DEF PublishStage, WorkerTypes
  <1>13. ASSUME CleanUp PROVE StatusTypes'
    BY <1>13 DEF CleanUp
  <1>14. ASSUME Fail PROVE StatusTypes'
    BY <1>14 DEF Fail
  <1>15. ASSUME BeginFrame PROVE StatusTypes'
    BY <1>15 DEF BeginFrame
  <1>16. ASSUME DrawUpdateDialog PROVE StatusTypes'
    BY <1>16 DEF DrawUpdateDialog
  <1>17. ASSUME DialogIdle PROVE StatusTypes'
    BY <1>17 DEF DialogIdle
  <1>18. ASSUME ClickDownload PROVE StatusTypes'
    BY <1>18 DEF ClickDownload
  <1>19. ASSUME ClickCancel PROVE StatusTypes'
    BY <1>19 DEF ClickCancel
  <1>20. ASSUME TakeReadyStage PROVE StatusTypes'
    BY <1>20 DEF TakeReadyStage
  <1>21. ASSUME EndFrame PROVE StatusTypes'
    BY <1>21 DEF EndFrame
  <1>22. ASSUME StartDownload PROVE StatusTypes'
    BY <1>22 DEF StartDownload
  <1>23. ASSUME FinishCancel PROVE StatusTypes'
    BY <1>23 DEF FinishCancel, DiscardReadyStage
  <1>24. ASSUME FinishClose PROVE StatusTypes'
    BY <1>24 DEF FinishClose, DiscardReadyStage
  <1>25. ASSUME GameToggles PROVE StatusTypes'
    BY <1>25 DEF GameToggles
  <1>26. CASE UNCHANGED vars
    BY <1>26 DEF vars
  <1> QED
    BY <1>1, <1>2, <1>3, <1>4, <1>5, <1>6, <1>7, <1>8, <1>9, <1>10, <1>11, <1>12, <1>13,
       <1>14, <1>15, <1>16, <1>17, <1>18, <1>19, <1>20, <1>21, <1>22, <1>23, <1>24,
       <1>25, <1>26
       DEF Next, WorkerStep, UiStep, UiJoins

\* of the worker's variables,
LEMMA WorkerTypesStep == IInv /\ [Next]_vars => WorkerTypes'
  <1> SUFFICES ASSUME IInv, [Next]_vars PROVE WorkerTypes'
    OBVIOUS
  <1> USE ClientAssumption DEF IInv, TypeOK, WorkerTypes, clientVars, workerVars,
         uiVars, WorkerPCs
  <1>1. ASSUME CheckCancelled PROVE WorkerTypes'
    BY <1>1 DEF CheckCancelled
  <1>2. ASSUME GetRelease PROVE WorkerTypes'
    <2>1. releases' \in Seq(Releases)
      BY <1>2, OneMoreRelease
    <2> QED
      BY <1>2, <2>1 DEF GetRelease
  <1>3. ASSUME SortReleases PROVE WorkerTypes'
    BY <1>3, Sorted DEF SortReleases
  <1>4. ASSUME GetManifest PROVE WorkerTypes'
    BY <1>4 DEF GetManifest, CountInv
  <1>5. ASSUME CheckDone PROVE WorkerTypes'
    BY <1>5 DEF CheckDone
  <1>6. ASSUME CreateStage PROVE WorkerTypes'
    BY <1>6 DEF CreateStage, Throw, StatusTypes,CountInv,Downloading,Checking
  <1>7. ASSUME DownloadPackage PROVE WorkerTypes'
    BY <1>7 DEF DownloadPackage, Throw, StatusTypes, CountInv
  <1>8. ASSUME StartVerifying PROVE WorkerTypes'
    BY <1>8 DEF StartVerifying
  <1>9. ASSUME Extract PROVE WorkerTypes'
    BY <1>9 DEF Extract, Throw
  <1>10. ASSUME WaitForGame PROVE WorkerTypes'
    BY <1>10 DEF WaitForGame, Throw
  <1>11. ASSUME LastLook PROVE WorkerTypes'
    BY <1>11 DEF LastLook, Throw
  <1>12. ASSUME PublishStage PROVE WorkerTypes'
    BY <1>12 DEF PublishStage
  <1>13. ASSUME CleanUp PROVE WorkerTypes'
    BY <1>13 DEF CleanUp
  <1>14. ASSUME Fail PROVE WorkerTypes'
    BY <1>14 DEF Fail
  <1>15. ASSUME BeginFrame PROVE WorkerTypes'
    BY <1>15 DEF BeginFrame
  <1>16. ASSUME DrawUpdateDialog PROVE WorkerTypes'
    BY <1>16 DEF DrawUpdateDialog
  <1>17. ASSUME DialogIdle PROVE WorkerTypes'
    BY <1>17 DEF DialogIdle
  <1>18. ASSUME ClickDownload PROVE WorkerTypes'
    BY <1>18 DEF ClickDownload
  <1>19. ASSUME ClickCancel PROVE WorkerTypes'
    BY <1>19 DEF ClickCancel
  <1>20. ASSUME TakeReadyStage PROVE WorkerTypes'
    BY <1>20 DEF TakeReadyStage
  <1>21. ASSUME EndFrame PROVE WorkerTypes'
    BY <1>21 DEF EndFrame
  <1>22. ASSUME StartDownload PROVE WorkerTypes'
    BY <1>22 DEF StartDownload
  <1>23. ASSUME FinishCancel PROVE WorkerTypes'
    BY <1>23 DEF FinishCancel, DiscardReadyStage
  <1>24. ASSUME FinishClose PROVE WorkerTypes'
    BY <1>24 DEF FinishClose, DiscardReadyStage
  <1>25. ASSUME GameToggles PROVE WorkerTypes'
    BY <1>25 DEF GameToggles
  <1>26. CASE UNCHANGED vars
    BY <1>26 DEF vars
  <1> QED
    BY <1>1, <1>2, <1>3, <1>4, <1>5, <1>6, <1>7, <1>8, <1>9, <1>10, <1>11, <1>12, <1>13,
       <1>14, <1>15, <1>16, <1>17, <1>18, <1>19, <1>20, <1>21, <1>22, <1>23, <1>24,
       <1>25, <1>26
       DEF Next, WorkerStep, UiStep, UiJoins

\* and of the frame's.
LEMMA UiTypesStep == IInv /\ [Next]_vars => UiTypes'
  <1> SUFFICES ASSUME IInv, [Next]_vars PROVE UiTypes'
    OBVIOUS
  <1> USE DEF IInv, TypeOK, UiTypes, StatusTypes, clientVars, workerVars, uiVars, UiPCs
  <1>1. ASSUME WorkerStep PROVE UiTypes'
    BY <1>1, WorkerFrame
  <1>2. ASSUME BeginFrame PROVE UiTypes'
    <2>1. updating' \in BOOLEAN
      BY <1>2 DEF BeginFrame
    <2>2. accepted' \in BOOLEAN
      BY <1>2 DEF BeginFrame
    <2> QED
      BY <1>2, <2>1, <2>2 DEF BeginFrame
  <1>3. ASSUME DrawUpdateDialog PROVE UiTypes'
    BY <1>3 DEF DrawUpdateDialog
  <1>4. ASSUME DialogIdle PROVE UiTypes'
    BY <1>4 DEF DialogIdle
  <1>5. ASSUME ClickDownload PROVE UiTypes'
    BY <1>5 DEF ClickDownload
  <1>6. ASSUME ClickCancel PROVE UiTypes'
    BY <1>6 DEF ClickCancel
  <1>7. ASSUME TakeReadyStage PROVE UiTypes'
    BY <1>7 DEF TakeReadyStage
  <1>8. ASSUME EndFrame PROVE UiTypes'
    BY <1>8 DEF EndFrame
  <1>9. ASSUME StartDownload PROVE UiTypes'
    BY <1>9 DEF StartDownload
  <1>10. ASSUME FinishCancel PROVE UiTypes'
    BY <1>10 DEF FinishCancel, DiscardReadyStage
  <1>11. ASSUME FinishClose PROVE UiTypes'
    BY <1>11 DEF FinishClose, DiscardReadyStage
  <1>12. ASSUME GameToggles PROVE UiTypes'
    BY <1>12 DEF GameToggles
  <1>13. CASE UNCHANGED vars
    BY <1>13 DEF vars
  <1> QED
    BY <1>1, <1>2, <1>3, <1>4, <1>5, <1>6, <1>7, <1>8, <1>9, <1>10, <1>11, <1>12, <1>13
       DEF Next, UiStep, UiJoins

\* The lists grow by at most one element a turn.
LEMMA CountStep == IInv /\ [Next]_vars => CountInv'
  <1> SUFFICES ASSUME IInv, [Next]_vars PROVE CountInv'
    OBVIOUS
  <1> USE DEF IInv, TypeOK, StatusTypes, WorkerTypes, CountInv, Downloading, Checking,
         WorkerPCs, clientVars, workerVars, uiVars
  <1>1. ASSUME CheckCancelled PROVE CountInv'
    BY <1>1 DEF CheckCancelled
  <1>2. ASSUME GetRelease PROVE CountInv'
    <2>1. Len(releases') <= Len(releases) + 1 /\ Len(releases') \in Nat
      BY <1>2, OneMoreRelease
    <2> QED
      BY <1>2, <2>1, ClientAssumption DEF GetRelease
  <1>3. ASSUME SortReleases PROVE CountInv'
    BY <1>3, Sorted DEF SortReleases
  <1>4. ASSUME GetManifest PROVE CountInv'
    <2>1. Len(urls') <= Len(urls) + 1 /\ Len(urls') \in Nat
      BY <1>4, OneMoreUrl DEF AddsUrl
    <2> QED
      BY <1>4, <2>1, ClientAssumption DEF GetManifest
  <1>5. ASSUME CheckDone PROVE CountInv'
    BY <1>5 DEF CheckDone
  <1>6. ASSUME CreateStage PROVE CountInv'
    BY <1>6 DEF CreateStage, Throw
  <1>7. ASSUME DownloadPackage PROVE CountInv'
    BY <1>7 DEF DownloadPackage, Throw
  <1>8. ASSUME StartVerifying PROVE CountInv'
    BY <1>8 DEF StartVerifying
  <1>9. ASSUME Extract PROVE CountInv'
    BY <1>9 DEF Extract, Throw
  <1>10. ASSUME WaitForGame PROVE CountInv'
    BY <1>10 DEF WaitForGame, Throw
  <1>11. ASSUME LastLook PROVE CountInv'
    BY <1>11 DEF LastLook, Throw
  <1>12. ASSUME PublishStage PROVE CountInv'
    BY <1>12 DEF PublishStage
  <1>13. ASSUME CleanUp PROVE CountInv'
    BY <1>13 DEF CleanUp
  <1>14. ASSUME Fail PROVE CountInv'
    BY <1>14 DEF Fail
  <1>15. ASSUME BeginFrame PROVE CountInv'
    BY <1>15 DEF BeginFrame
  <1>16. ASSUME DrawUpdateDialog PROVE CountInv'
    BY <1>16 DEF DrawUpdateDialog
  <1>17. ASSUME DialogIdle PROVE CountInv'
    BY <1>17 DEF DialogIdle
  <1>18. ASSUME ClickDownload PROVE CountInv'
    BY <1>18 DEF ClickDownload
  <1>19. ASSUME ClickCancel PROVE CountInv'
    BY <1>19 DEF ClickCancel
  <1>20. ASSUME TakeReadyStage PROVE CountInv'
    BY <1>20 DEF TakeReadyStage
  <1>21. ASSUME EndFrame PROVE CountInv'
    BY <1>21 DEF EndFrame
  <1>22. ASSUME StartDownload PROVE CountInv'
    BY <1>22 DEF StartDownload
  <1>23. ASSUME FinishCancel PROVE CountInv'
    BY <1>23 DEF FinishCancel, DiscardReadyStage
  <1>24. ASSUME FinishClose PROVE CountInv'
    BY <1>24 DEF FinishClose, DiscardReadyStage
  <1>25. ASSUME GameToggles PROVE CountInv'
    BY <1>25 DEF GameToggles
  <1>26. CASE UNCHANGED vars
    BY <1>26 DEF vars
  <1> QED
    BY <1>1, <1>2, <1>3, <1>4, <1>5, <1>6, <1>7, <1>8, <1>9, <1>10, <1>11, <1>12, <1>13,
       <1>14, <1>15, <1>16, <1>17, <1>18, <1>19, <1>20, <1>21, <1>22, <1>23, <1>24,
       <1>25, <1>26
       DEF Next, WorkerStep, UiStep, UiJoins

\* Versions are numbers.
LEMMA ReleaseVersions ==
  ASSUME TypeOK PROVE \A i \in DOMAIN releases : releases[i].version \in Nat
  <1>1. \A i \in DOMAIN releases : releases[i] \in Releases
    BY DEF TypeOK, WorkerTypes
  <1>2. \A r \in Releases : r.version \in Versions
    BY DEF Releases
  <1> QED
    BY <1>1, <1>2, ClientAssumption

\* A second URL is of the package there is; releases to come are no newer.
LEMMA UrlAdded ==
  ASSUME IInv, GetManifest,
         NEW u \in Urls, AddsUrl(u)
  PROVE  MirrorInv'
  <1> USE DEF AddsUrl, IInv, TypeOK, StatusTypes, WorkerTypes, MirrorInv, OnePackage
  <1>1. /\ next \in DOMAIN releases /\ releases' = releases /\ next' = next + 1
        /\ next \in Nat /\ Len(releases) \in Nat /\ worker = "getManifest" /\ worker' = worker
    BY ClientAssumption DEF GetManifest
  <1>2. \A i \in DOMAIN releases : releases[i].version \in Nat
    BY ReleaseVersions
  <1>3. \A k \in DOMAIN urls' : urls'[k] = u \/ (k \in DOMAIN urls /\ urls'[k] = urls[k])
    OBVIOUS
  <1>4. \A k \in DOMAIN urls : urls[k].version = u.version /\ urls[k].package = u.package
    <2>1. urls # <<>> => 1 \in DOMAIN urls
      OBVIOUS
    <2> QED
      BY <2>1 DEF SamePackage
  <1>5. \A k \in DOMAIN urls' : urls'[k].version = u.version /\ urls'[k].package = u.package
    BY <1>3, <1>4
  <1>6. u.version > Installed
    BY <1>1
  <1>7. ASSUME NEW i \in next + 1 .. Len(releases) PROVE releases[i].version <= u.version
    <2>1. i \in DOMAIN releases /\ next < i
      BY <1>1
    <2> QED
      BY <1>1, <2>1
  <1>8. \A v \in Range(urls') : v.version = u.version
    BY <1>5 DEF Range
  <1>9. OnePackage'
    BY <1>1, <1>5, <1>6, <1>7, <1>8
  <1> QED
    BY <1>1, <1>9

\* A manifest keeps the URLs those of one package, newer than what is to come.
LEMMA ManifestSeen ==
  ASSUME IInv, GetManifest PROVE MirrorInv'
  <1>1. CASE urls' = urls
    BY <1>1, ClientAssumption
       DEF GetManifest, IInv, TypeOK, StatusTypes, WorkerTypes, MirrorInv, OnePackage
  <1>2. CASE urls' # urls
    <2>1. TypeOK
      BY DEF IInv
    <2>2. PICK u \in Urls : AddsUrl(u)
      BY <1>2, <2>1, OneMoreUrl
    <2> QED
      BY <2>2, UrlAdded
  <1> QED
    BY <1>1, <1>2

\* Only the newest package gets a URL.
LEMMA MirrorStep == IInv /\ [Next]_vars => MirrorInv'
  <1> SUFFICES ASSUME IInv, [Next]_vars PROVE MirrorInv'
    OBVIOUS
  <1> USE DEF IInv, TypeOK, StatusTypes, WorkerTypes, CountInv, MirrorInv, OnePackage,
         clientVars, workerVars, uiVars
  <1>1. ASSUME CheckCancelled PROVE MirrorInv'
    BY <1>1 DEF CheckCancelled
  <1>2. ASSUME GetRelease PROVE MirrorInv'
    <2>1. \A i \in DOMAIN releases' : releases'[i].version > Installed
      <3>1. CASE releases' = releases
        BY <3>1
      <3>2. ASSUME NEW r \in Releases, r.version > Installed, releases' = Append(releases, r)
            PROVE  \A i \in DOMAIN releases' : releases'[i].version > Installed
        <4>1. \A i \in DOMAIN releases' : releases'[i] = r \/ (i \in DOMAIN releases /\ releases'[i] = releases[i])
          BY <3>2
        <4> QED
          BY <3>2, <4>1
      <3> QED
        BY <1>2, <3>1, <3>2, OneMoreRelease
    <2> QED
      BY <1>2, <2>1 DEF GetRelease
  <1>3. ASSUME SortReleases PROVE MirrorInv'
    <2>1. \A i \in DOMAIN releases' : releases'[i].version > Installed
      BY <1>3, Sorted
    <2>2. \A i, j \in DOMAIN releases' : i < j => releases'[j].version <= releases'[i].version
      BY <1>3, Sorted
    <2>3. urls' = <<>>
      BY <1>3 DEF SortReleases
    <2> QED
      BY <2>1, <2>2, <2>3 DEF Range
  <1>4. ASSUME GetManifest PROVE MirrorInv'
    BY <1>4, ManifestSeen
  <1>5. ASSUME CheckDone PROVE MirrorInv'
    BY <1>5 DEF CheckDone
  <1>6. ASSUME CreateStage PROVE MirrorInv'
    BY <1>6 DEF CreateStage, Throw
  <1>7. ASSUME DownloadPackage PROVE MirrorInv'
    BY <1>7 DEF DownloadPackage, Throw
  <1>8. ASSUME StartVerifying PROVE MirrorInv'
    BY <1>8 DEF StartVerifying
  <1>9. ASSUME Extract PROVE MirrorInv'
    BY <1>9 DEF Extract, Throw
  <1>10. ASSUME WaitForGame PROVE MirrorInv'
    BY <1>10 DEF WaitForGame, Throw
  <1>11. ASSUME LastLook PROVE MirrorInv'
    BY <1>11 DEF LastLook, Throw
  <1>12. ASSUME PublishStage PROVE MirrorInv'
    BY <1>12 DEF PublishStage
  <1>13. ASSUME CleanUp PROVE MirrorInv'
    BY <1>13 DEF CleanUp
  <1>14. ASSUME Fail PROVE MirrorInv'
    BY <1>14 DEF Fail
  <1>15. ASSUME BeginFrame PROVE MirrorInv'
    BY <1>15 DEF BeginFrame
  <1>16. ASSUME DrawUpdateDialog PROVE MirrorInv'
    BY <1>16 DEF DrawUpdateDialog
  <1>17. ASSUME DialogIdle PROVE MirrorInv'
    BY <1>17 DEF DialogIdle
  <1>18. ASSUME ClickDownload PROVE MirrorInv'
    BY <1>18 DEF ClickDownload
  <1>19. ASSUME ClickCancel PROVE MirrorInv'
    BY <1>19 DEF ClickCancel
  <1>20. ASSUME TakeReadyStage PROVE MirrorInv'
    BY <1>20 DEF TakeReadyStage
  <1>21. ASSUME EndFrame PROVE MirrorInv'
    BY <1>21 DEF EndFrame
  <1>22. ASSUME StartDownload PROVE MirrorInv'
    BY <1>22 DEF StartDownload
  <1>23. ASSUME FinishCancel PROVE MirrorInv'
    BY <1>23 DEF FinishCancel, DiscardReadyStage
  <1>24. ASSUME FinishClose PROVE MirrorInv'
    BY <1>24 DEF FinishClose, DiscardReadyStage
  <1>25. ASSUME GameToggles PROVE MirrorInv'
    BY <1>25 DEF GameToggles
  <1>26. CASE UNCHANGED vars
    BY <1>26 DEF vars
  <1> QED
    BY <1>1, <1>2, <1>3, <1>4, <1>5, <1>6, <1>7, <1>8, <1>9, <1>10, <1>11, <1>12, <1>13,
       <1>14, <1>15, <1>16, <1>17, <1>18, <1>19, <1>20, <1>21, <1>22, <1>23, <1>24,
       <1>25, <1>26
       DEF Next, WorkerStep, UiStep, UiJoins

\* The phase and the directory at work follow the worker.
LEMMA WorkerStepInv == IInv /\ [Next]_vars => WorkerInv'
  <1> SUFFICES ASSUME IInv, [Next]_vars PROVE WorkerInv'
    OBVIOUS
  <1> USE DEF IInv, TypeOK, StatusTypes, WorkerTypes, UiTypes, WorkerInv, OwnerInv,
         FrameInv, Downloading, Checking, WorkerPCs, Busy, clientVars, workerVars, uiVars
  <1>1. ASSUME CheckCancelled PROVE WorkerInv'
    BY <1>1 DEF CheckCancelled
  <1>2. ASSUME GetRelease PROVE WorkerInv'
    BY <1>2 DEF GetRelease
  <1>3. ASSUME SortReleases PROVE WorkerInv'
    BY <1>3 DEF SortReleases
  <1>4. ASSUME GetManifest PROVE WorkerInv'
    BY <1>4 DEF GetManifest
  <1>5. ASSUME CheckDone PROVE WorkerInv'
    BY <1>5 DEF CheckDone
  <1>6. ASSUME CreateStage PROVE WorkerInv'
    BY <1>6, ClientAssumption DEF CreateStage, Throw
  <1>7. ASSUME DownloadPackage PROVE WorkerInv'
    BY <1>7 DEF DownloadPackage, Throw
  <1>8. ASSUME StartVerifying PROVE WorkerInv'
    BY <1>8 DEF StartVerifying
  <1>9. ASSUME Extract PROVE WorkerInv'
    BY <1>9 DEF Extract, Throw
  <1>10. ASSUME WaitForGame PROVE WorkerInv'
    BY <1>10 DEF WaitForGame, Throw
  <1>11. ASSUME LastLook PROVE WorkerInv'
    BY <1>11 DEF LastLook, Throw
  <1>12. ASSUME PublishStage PROVE WorkerInv'
    BY <1>12 DEF PublishStage
  <1>13. ASSUME CleanUp PROVE WorkerInv'
    BY <1>13 DEF CleanUp
  <1>14. ASSUME Fail PROVE WorkerInv'
    BY <1>14 DEF Fail
  <1>15. ASSUME BeginFrame PROVE WorkerInv'
    BY <1>15 DEF BeginFrame
  <1>16. ASSUME DrawUpdateDialog PROVE WorkerInv'
    BY <1>16 DEF DrawUpdateDialog
  <1>17. ASSUME DialogIdle PROVE WorkerInv'
    BY <1>17 DEF DialogIdle
  <1>18. ASSUME ClickDownload PROVE WorkerInv'
    BY <1>18 DEF ClickDownload
  <1>19. ASSUME ClickCancel PROVE WorkerInv'
    BY <1>19 DEF ClickCancel
  <1>20. ASSUME TakeReadyStage PROVE WorkerInv'
    BY <1>20 DEF TakeReadyStage
  <1>21. ASSUME EndFrame PROVE WorkerInv'
    BY <1>21 DEF EndFrame
  <1>22. ASSUME StartDownload PROVE WorkerInv'
    BY <1>22 DEF StartDownload
  <1>23. ASSUME FinishCancel PROVE WorkerInv'
    BY <1>23 DEF FinishCancel, DiscardReadyStage
  <1>24. ASSUME FinishClose PROVE WorkerInv'
    BY <1>24 DEF FinishClose, DiscardReadyStage
  <1>25. ASSUME GameToggles PROVE WorkerInv'
    BY <1>25 DEF GameToggles
  <1>26. CASE UNCHANGED vars
    BY <1>26 DEF vars
  <1> QED
    BY <1>1, <1>2, <1>3, <1>4, <1>5, <1>6, <1>7, <1>8, <1>9, <1>10, <1>11, <1>12, <1>13,
       <1>14, <1>15, <1>16, <1>17, <1>18, <1>19, <1>20, <1>21, <1>22, <1>23, <1>24,
       <1>25, <1>26
       DEF Next, WorkerStep, UiStep, UiJoins

\* A directory with something in it is the worker's, the client's or the installer's.
LEMMA OwnerStep == IInv /\ [Next]_vars => OwnerInv'
  <1> SUFFICES ASSUME IInv, [Next]_vars PROVE OwnerInv'
    OBVIOUS
  <1> USE ClientAssumption DEF IInv, TypeOK, StatusTypes, WorkerTypes, UiTypes,
         WorkerInv, OwnerInv, FrameInv, Downloading, Checking, WorkerPCs, Busy, clientVars,
         workerVars, uiVars
  <1>1. ASSUME CheckCancelled PROVE OwnerInv'
    BY <1>1 DEF CheckCancelled
  <1>2. ASSUME GetRelease PROVE OwnerInv'
    BY <1>2 DEF GetRelease
  <1>3. ASSUME SortReleases PROVE OwnerInv'
    BY <1>3 DEF SortReleases
  <1>4. ASSUME GetManifest PROVE OwnerInv'
    BY <1>4 DEF GetManifest
  <1>5. ASSUME CheckDone PROVE OwnerInv'
    BY <1>5 DEF CheckDone
  <1>6. ASSUME CreateStage PROVE OwnerInv'
    BY <1>6 DEF CreateStage, Throw
  <1>7. ASSUME DownloadPackage PROVE OwnerInv'
    BY <1>7 DEF DownloadPackage, Throw
  <1>8. ASSUME StartVerifying PROVE OwnerInv'
    BY <1>8 DEF StartVerifying
  <1>9. ASSUME Extract PROVE OwnerInv'
    BY <1>9 DEF Extract, Throw
  <1>10. ASSUME WaitForGame PROVE OwnerInv'
    BY <1>10 DEF WaitForGame, Throw
  <1>11. ASSUME LastLook PROVE OwnerInv'
    BY <1>11 DEF LastLook, Throw
  <1>12. ASSUME PublishStage PROVE OwnerInv'
    BY <1>12 DEF PublishStage
  <1>13. ASSUME CleanUp PROVE OwnerInv'
    BY <1>13 DEF CleanUp
  <1>14. ASSUME Fail PROVE OwnerInv'
    BY <1>14 DEF Fail
  <1>15. ASSUME BeginFrame PROVE OwnerInv'
    BY <1>15 DEF BeginFrame
  <1>16. ASSUME DrawUpdateDialog PROVE OwnerInv'
    BY <1>16 DEF DrawUpdateDialog
  <1>17. ASSUME DialogIdle PROVE OwnerInv'
    BY <1>17 DEF DialogIdle
  <1>18. ASSUME ClickDownload PROVE OwnerInv'
    BY <1>18 DEF ClickDownload
  <1>19. ASSUME ClickCancel PROVE OwnerInv'
    BY <1>19 DEF ClickCancel
  <1>20. ASSUME TakeReadyStage PROVE OwnerInv'
    BY <1>20 DEF TakeReadyStage
  <1>21. ASSUME EndFrame PROVE OwnerInv'
    BY <1>21 DEF EndFrame
  <1>22. ASSUME StartDownload PROVE OwnerInv'
    BY <1>22 DEF StartDownload
  <1>23. ASSUME FinishCancel PROVE OwnerInv'
    BY <1>23 DEF FinishCancel, DiscardReadyStage
  <1>24. ASSUME FinishClose PROVE OwnerInv'
    BY <1>24 DEF FinishClose, DiscardReadyStage
  <1>25. ASSUME GameToggles PROVE OwnerInv'
    BY <1>25 DEF GameToggles
  <1>26. CASE UNCHANGED vars
    BY <1>26 DEF vars
  <1> QED
    BY <1>1, <1>2, <1>3, <1>4, <1>5, <1>6, <1>7, <1>8, <1>9, <1>10, <1>11, <1>12, <1>13,
       <1>14, <1>15, <1>16, <1>17, <1>18, <1>19, <1>20, <1>21, <1>22, <1>23, <1>24,
       <1>25, <1>26
       DEF Next, WorkerStep, UiStep, UiJoins

\* A click that acts on a stale phase finds what it needs.
LEMMA FrameStep == IInv /\ [Next]_vars => FrameInv'
  <1> SUFFICES ASSUME IInv, [Next]_vars PROVE FrameInv'
    OBVIOUS
  <1> USE DEF IInv, TypeOK, StatusTypes, WorkerTypes, UiTypes, WorkerInv, OwnerInv,
         FrameInv, Downloading, Checking, WorkerPCs, Busy, clientVars, workerVars, uiVars
  <1>1. ASSUME CheckCancelled PROVE FrameInv'
    BY <1>1 DEF CheckCancelled
  <1>2. ASSUME GetRelease PROVE FrameInv'
    BY <1>2 DEF GetRelease
  <1>3. ASSUME SortReleases PROVE FrameInv'
    BY <1>3 DEF SortReleases
  <1>4. ASSUME GetManifest PROVE FrameInv'
    BY <1>4 DEF GetManifest
  <1>5. ASSUME CheckDone PROVE FrameInv'
    BY <1>5 DEF CheckDone
  <1>6. ASSUME CreateStage PROVE FrameInv'
    BY <1>6 DEF CreateStage, Throw
  <1>7. ASSUME DownloadPackage PROVE FrameInv'
    BY <1>7 DEF DownloadPackage, Throw
  <1>8. ASSUME StartVerifying PROVE FrameInv'
    BY <1>8 DEF StartVerifying
  <1>9. ASSUME Extract PROVE FrameInv'
    BY <1>9 DEF Extract, Throw
  <1>10. ASSUME WaitForGame PROVE FrameInv'
    BY <1>10 DEF WaitForGame, Throw
  <1>11. ASSUME LastLook PROVE FrameInv'
    BY <1>11 DEF LastLook, Throw
  <1>12. ASSUME PublishStage PROVE FrameInv'
    BY <1>12 DEF PublishStage
  <1>13. ASSUME CleanUp PROVE FrameInv'
    BY <1>13 DEF CleanUp
  <1>14. ASSUME Fail PROVE FrameInv'
    BY <1>14 DEF Fail
  <1>15. ASSUME BeginFrame PROVE FrameInv'
    <2>1. updating' <=> phase \in Busy
      BY <1>15 DEF BeginFrame
    <2>2. accepted' => accepted \/ ~updating'
      BY <1>15 DEF BeginFrame
    <2> QED
      BY <1>15, <2>1, <2>2 DEF BeginFrame
  <1>16. ASSUME DrawUpdateDialog PROVE FrameInv'
    BY <1>16 DEF DrawUpdateDialog
  <1>17. ASSUME DialogIdle PROVE FrameInv'
    BY <1>17 DEF DialogIdle
  <1>18. ASSUME ClickDownload PROVE FrameInv'
    BY <1>18 DEF ClickDownload
  <1>19. ASSUME ClickCancel PROVE FrameInv'
    BY <1>19 DEF ClickCancel
  <1>20. ASSUME TakeReadyStage PROVE FrameInv'
    BY <1>20 DEF TakeReadyStage
  <1>21. ASSUME EndFrame PROVE FrameInv'
    BY <1>21 DEF EndFrame
  <1>22. ASSUME StartDownload PROVE FrameInv'
    BY <1>22 DEF StartDownload
  <1>23. ASSUME FinishCancel PROVE FrameInv'
    BY <1>23 DEF FinishCancel, DiscardReadyStage
  <1>24. ASSUME FinishClose PROVE FrameInv'
    BY <1>24 DEF FinishClose, DiscardReadyStage
  <1>25. ASSUME GameToggles PROVE FrameInv'
    BY <1>25 DEF GameToggles
  <1>26. CASE UNCHANGED vars
    BY <1>26 DEF vars
  <1> QED
    BY <1>1, <1>2, <1>3, <1>4, <1>5, <1>6, <1>7, <1>8, <1>9, <1>10, <1>11, <1>12, <1>13,
       <1>14, <1>15, <1>16, <1>17, <1>18, <1>19, <1>20, <1>21, <1>22, <1>23, <1>24,
       <1>25, <1>26
       DEF Next, WorkerStep, UiStep, UiJoins

\* The constructor's state satisfies the invariant.
LEMMA InvariantInit == ASSUME Init PROVE IInv
  <1>1. TypeOK
    <2>1. StatusTypes
      <3>1. dirs \in [Stages -> DirStates] /\ urls \in Seq(Urls)
        BY DEF Init, DirStates
      <3> QED
        BY <3>1 DEF Init, StatusTypes, Phases
    <2>2. WorkerTypes
      BY ClientAssumption DEF Init, WorkerTypes, WorkerPCs
    <2>3. UiTypes
      BY DEF Init, UiTypes, UiPCs, Phases
    <2> QED
      BY <2>1, <2>2, <2>3 DEF TypeOK
  <1>2. CountInv /\ MirrorInv
    BY ClientAssumption DEF Init, CountInv, MirrorInv, OnePackage, Range, Downloading, Checking
  <1>3. WorkerInv /\ OwnerInv /\ FrameInv
    BY DEF Init, WorkerInv, OwnerInv, FrameInv, Downloading, Checking
  <1> QED
    BY <1>1, <1>2, <1>3 DEF IInv

\* What Impl::Check, Impl::Download and the frame loop keep true together.
THEOREM Invariant == Spec => []IInv
  <1>1. ASSUME IInv, [Next]_vars PROVE IInv'
    BY <1>1, StatusTypesStep, WorkerTypesStep, UiTypesStep, CountStep, MirrorStep, WorkerStepInv,
       OwnerStep, FrameStep DEF IInv, TypeOK
  <1> QED
    BY <1>1, InvariantInit, PTL DEF Spec

\* A stage that TakeReadyStage handed to the installer is complete, and neither
\* Cancel, nor ~Client, nor a worker removes it afterwards.
THEOREM StageHandedOverWhole == Spec => []HandedOverWhole
  <1>1. ASSUME IInv PROVE HandedOverWhole
    BY <1>1, ClientAssumption
       DEF IInv, TypeOK, StatusTypes, WorkerTypes, UiTypes, WorkerInv, OwnerInv, HandedOverWhole,
           Downloading, Checking, WorkerPCs
  <1> QED
    BY <1>1, Invariant, PTL

\* No task directory is lost between the worker, the client and the installer.
THEOREM NoStageOrphaned == Spec => []NoOrphan
  <1>1. ASSUME IInv PROVE NoOrphan
    BY <1>1, ClientAssumption DEF IInv, WorkerInv, OwnerInv, NoOrphan
  <1> QED
    BY <1>1, Invariant, PTL

\* RunLauncherUi never returns both a launch and a stage to install.
THEOREM InstallOrLaunch == Spec => []NeverBoth
  <1>1. ASSUME IInv PROVE NeverBoth
    BY <1>1 DEF IInv, FrameInv, NeverBoth
  <1> QED
    BY <1>1, Invariant, PTL

\* All URLs of a download are of one package, the newest that a mirror offers.
THEOREM MirrorsAgree == Spec => []OnePackage
  <1>1. ASSUME IInv PROVE OnePackage
    BY <1>1 DEF IInv, MirrorInv
  <1> QED
    BY <1>1, Invariant, PTL

=============================================================================
