------------------------ MODULE HookLifecycleProofs ------------------------
(***************************************************************************)
(* Theorems about HookLifecycle, for any sequence of distinct hooks and    *)
(* any set of required ones among them.                                    *)
(***************************************************************************)
EXTENDS HookLifecycle, TLAPS

\* Every hook has one place in Order.
LEMMA OrderFacts ==
  /\ Len(Order) \in Nat /\ DOMAIN Order = 1 .. Len(Order)
  /\ \A i \in DOMAIN Order : Order[i] \in Hooks
  /\ \A i, j \in DOMAIN Order : Order[i] = Order[j] => i = j
  /\ \A h \in Hooks : \E i \in DOMAIN Order : Order[i] = h
  <1>1. Order \in Seq(Hooks)
    BY HookAssumption
  <1>2. \A h \in Hooks : \E i \in DOMAIN Order : Order[i] = h
    BY DEF Hooks, Range
  <1>3. \A i, j \in DOMAIN Order : Order[i] = Order[j] => i = j
    BY HookAssumption DEF IsInjective
  <1> QED
    BY <1>1, <1>2, <1>3

\* Its part about indices.
LEMMA OrderIndices == Len(Order) \in Nat /\ DOMAIN Order = 1 .. Len(Order)
  BY OrderFacts

-----------------------------------------------------------------------------
(* What each thread leaves alone.                                          *)

\* The launcher touches the game's process, the DLL and the event.
LEMMA LauncherFrame ==
  ASSUME LauncherStep PROVE UNCHANGED <<bootVars, ipcVars, stateVars, hookVars, gameVars, signalled>>
  BY DEF LauncherStep, LauncherGoes, Release, eventVars,
         CreateGame, ApplyScriptModeOverride, InjectRuntimeDll, LoadReturns,
         LoadTimesOut, OpenReadyEvent, ReadyEventSeen, ReadyTimesOut,
         ResumeInjectedProcess

\* The bootstrap thread does not touch the game or the shutdown.
LEMMA BootFrame ==
  ASSUME BootStep PROVE UNCHANGED <<launcher, main, ipcAt, early, unrestored, shutdown, gameVars>>
  BY DEF BootStep, InstallFails, Release, launchVars, ipcVars, stateVars,
         DllAttach, LoadFails, Prepare, StartIpcServer, SetPipeReady, PrepareHook,
         WriteJumpPatch, SetOriginalTrampoline, SetHookInstalled, InstallDone,
         ApplyCameraPatch, SetReadyFlags, SignalReadyEvent, CloseReadyEvent

\* The IPC thread does not wait for the bootstrap, and does not touch it.
LEMMA IpcFrame ==
  ASSUME IpcStep PROVE UNCHANGED <<launchVars, eventVars, bootVars, hooksReady, bootstrapReady, gameVars>>
  BY DEF IpcStep, stateVars,
         ServerFails, ShutdownCommand, UninstallNext, RestoreBytes, BytesRestored,
         FreeTrampoline, ClearOriginal, ClearInstalled, ServerEnds

\* The game only calls.
LEMMA GameFrame ==
  ASSUME GameStep PROVE UNCHANGED <<launchVars, eventVars, bootVars, ipcVars, stateVars, hookVars>>
  BY DEF GameStep, gameVars,
         CallHooked, ReadOriginal, EnterTrampoline, LeaveTrampoline

-----------------------------------------------------------------------------
(* The inductive invariant, part by part.                                  *)

\* Every action keeps the types of the threads' states,
LEMMA ThreadTypesStep == TypeOK /\ [Next]_vars => ThreadTypes'
  <1> SUFFICES ASSUME TypeOK, [Next]_vars PROVE ThreadTypes'
    OBVIOUS
  <1> USE DEF TypeOK, ThreadTypes, launchVars, eventVars, bootVars, ipcVars, stateVars,
         hookVars, gameVars, LauncherPCs, BootPCs, IpcPCs, GamePCs, Checks
  <1>1. ASSUME CreateGame PROVE ThreadTypes'
    BY <1>1 DEF CreateGame
  <1>2. ASSUME ApplyScriptModeOverride PROVE ThreadTypes'
    BY <1>2 DEF ApplyScriptModeOverride
  <1>3. ASSUME InjectRuntimeDll PROVE ThreadTypes'
    BY <1>3 DEF InjectRuntimeDll, LauncherGoes
  <1>4. ASSUME LoadReturns PROVE ThreadTypes'
    BY <1>4 DEF LoadReturns, LauncherGoes
  <1>5. ASSUME LoadTimesOut PROVE ThreadTypes'
    BY <1>5 DEF LoadTimesOut, LauncherGoes
  <1>6. ASSUME OpenReadyEvent PROVE ThreadTypes'
    BY <1>6 DEF OpenReadyEvent, LauncherGoes
  <1>7. ASSUME ReadyEventSeen PROVE ThreadTypes'
    BY <1>7 DEF ReadyEventSeen, LauncherGoes, Release
  <1>8. ASSUME ReadyTimesOut PROVE ThreadTypes'
    BY <1>8 DEF ReadyTimesOut, Release
  <1>9. ASSUME ResumeInjectedProcess PROVE ThreadTypes'
    BY <1>9 DEF ResumeInjectedProcess, LauncherGoes
  <1>10. ASSUME DllAttach PROVE ThreadTypes'
    BY <1>10 DEF DllAttach
  <1>11. ASSUME LoadFails PROVE ThreadTypes'
    BY <1>11 DEF LoadFails
  <1>12. ASSUME Prepare PROVE ThreadTypes'
    BY <1>12 DEF Prepare
  <1>13. ASSUME StartIpcServer PROVE ThreadTypes'
    <2>1. boot' \in BootPCs /\ ipc' \in IpcPCs
      BY <1>13 DEF StartIpcServer
    <2> QED
      BY <1>13, <2>1 DEF StartIpcServer
  <1>14. ASSUME SetPipeReady PROVE ThreadTypes'
    BY <1>14 DEF SetPipeReady
  <1>15. ASSUME PrepareHook PROVE ThreadTypes'
    <2>1. boot' \in BootPCs /\ bootOk' = bootOk
      BY <1>15 DEF PrepareHook, InstallFails
    <2> QED
      BY <1>15, <2>1 DEF PrepareHook
  <1>16. ASSUME WriteJumpPatch PROVE ThreadTypes'
    <2>1. boot' \in BootPCs /\ bootOk' = bootOk
      BY <1>16 DEF WriteJumpPatch, InstallFails
    <2> QED
      BY <1>16, <2>1 DEF WriteJumpPatch
  <1>17. ASSUME SetOriginalTrampoline PROVE ThreadTypes'
    BY <1>17 DEF SetOriginalTrampoline
  <1>18. ASSUME SetHookInstalled PROVE ThreadTypes'
    BY <1>18 DEF SetHookInstalled
  <1>19. ASSUME InstallDone PROVE ThreadTypes'
    BY <1>19 DEF InstallDone
  <1>20. ASSUME ApplyCameraPatch PROVE ThreadTypes'
    BY <1>20 DEF ApplyCameraPatch
  <1>21. ASSUME SetReadyFlags PROVE ThreadTypes'
    BY <1>21 DEF SetReadyFlags
  <1>22. ASSUME SignalReadyEvent PROVE ThreadTypes'
    <2>1. boot' \in BootPCs /\ holders' \subseteq {"dll", "bootstrap", "launcher"}
      BY <1>22 DEF SignalReadyEvent
    <2> QED
      BY <1>22, <2>1 DEF SignalReadyEvent
  <1>23. ASSUME CloseReadyEvent PROVE ThreadTypes'
    BY <1>23 DEF CloseReadyEvent, Release
  <1>24. ASSUME ServerFails PROVE ThreadTypes'
    BY <1>24 DEF ServerFails
  <1>25. ASSUME ShutdownCommand PROVE ThreadTypes'
    BY <1>25 DEF ShutdownCommand
  <1>26. ASSUME UninstallNext PROVE ThreadTypes'
    BY <1>26 DEF UninstallNext
  <1>27. ASSUME RestoreBytes PROVE ThreadTypes'
    BY <1>27 DEF RestoreBytes
  <1>28. ASSUME BytesRestored PROVE ThreadTypes'
    BY <1>28 DEF BytesRestored
  <1>29. ASSUME FreeTrampoline PROVE ThreadTypes'
    BY <1>29 DEF FreeTrampoline
  <1>30. ASSUME ClearOriginal PROVE ThreadTypes'
    BY <1>30 DEF ClearOriginal
  <1>31. ASSUME ClearInstalled PROVE ThreadTypes'
    BY <1>31 DEF ClearInstalled
  <1>32. ASSUME ServerEnds PROVE ThreadTypes'
    BY <1>32 DEF ServerEnds
  <1>33. ASSUME CallHooked PROVE ThreadTypes'
    BY <1>33 DEF CallHooked
  <1>34. ASSUME ReadOriginal PROVE ThreadTypes'
    BY <1>34 DEF ReadOriginal
  <1>35. ASSUME EnterTrampoline PROVE ThreadTypes'
    BY <1>35 DEF EnterTrampoline
  <1>36. ASSUME LeaveTrampoline PROVE ThreadTypes'
    BY <1>36 DEF LeaveTrampoline
  <1>37. CASE UNCHANGED vars
    BY <1>37 DEF vars
  <1> QED
    BY <1>1, <1>2, <1>3, <1>4, <1>5, <1>6, <1>7, <1>8, <1>9, <1>10, <1>11, <1>12, <1>13,
       <1>14, <1>15, <1>16, <1>17, <1>18, <1>19, <1>20, <1>21, <1>22, <1>23, <1>24,
       <1>25, <1>26, <1>27, <1>28, <1>29, <1>30, <1>31, <1>32, <1>33, <1>34, <1>35,
       <1>36, <1>37
       DEF Next, LauncherStep, BootStep, IpcStep, GameStep

\* of the flags,
LEMMA FlagTypesStep == TypeOK /\ [Next]_vars => FlagTypes'
  <1> SUFFICES ASSUME TypeOK, [Next]_vars PROVE FlagTypes'
    OBVIOUS
  <1> USE DEF TypeOK, ThreadTypes, FlagTypes, launchVars, eventVars, bootVars, ipcVars,
         stateVars, hookVars, gameVars
  <1>1. ASSUME CreateGame PROVE FlagTypes'
    BY <1>1 DEF CreateGame
  <1>2. ASSUME ApplyScriptModeOverride PROVE FlagTypes'
    BY <1>2 DEF ApplyScriptModeOverride
  <1>3. ASSUME InjectRuntimeDll PROVE FlagTypes'
    BY <1>3 DEF InjectRuntimeDll, LauncherGoes
  <1>4. ASSUME LoadReturns PROVE FlagTypes'
    BY <1>4 DEF LoadReturns, LauncherGoes
  <1>5. ASSUME LoadTimesOut PROVE FlagTypes'
    BY <1>5 DEF LoadTimesOut, LauncherGoes
  <1>6. ASSUME OpenReadyEvent PROVE FlagTypes'
    BY <1>6 DEF OpenReadyEvent, LauncherGoes
  <1>7. ASSUME ReadyEventSeen PROVE FlagTypes'
    BY <1>7 DEF ReadyEventSeen, LauncherGoes, Release
  <1>8. ASSUME ReadyTimesOut PROVE FlagTypes'
    BY <1>8 DEF ReadyTimesOut, Release
  <1>9. ASSUME ResumeInjectedProcess PROVE FlagTypes'
    BY <1>9 DEF ResumeInjectedProcess, LauncherGoes
  <1>10. ASSUME DllAttach PROVE FlagTypes'
    BY <1>10 DEF DllAttach
  <1>11. ASSUME LoadFails PROVE FlagTypes'
    BY <1>11 DEF LoadFails
  <1>12. ASSUME Prepare PROVE FlagTypes'
    BY <1>12 DEF Prepare
  <1>13. ASSUME StartIpcServer PROVE FlagTypes'
    BY <1>13 DEF StartIpcServer
  <1>14. ASSUME SetPipeReady PROVE FlagTypes'
    BY <1>14 DEF SetPipeReady
  <1>15. ASSUME PrepareHook PROVE FlagTypes'
    BY <1>15 DEF PrepareHook, InstallFails
  <1>16. ASSUME WriteJumpPatch PROVE FlagTypes'
    BY <1>16 DEF WriteJumpPatch, InstallFails
  <1>17. ASSUME SetOriginalTrampoline PROVE FlagTypes'
    BY <1>17 DEF SetOriginalTrampoline
  <1>18. ASSUME SetHookInstalled PROVE FlagTypes'
    BY <1>18 DEF SetHookInstalled
  <1>19. ASSUME InstallDone PROVE FlagTypes'
    BY <1>19 DEF InstallDone
  <1>20. ASSUME ApplyCameraPatch PROVE FlagTypes'
    BY <1>20 DEF ApplyCameraPatch
  <1>21. ASSUME SetReadyFlags PROVE FlagTypes'
    BY <1>21 DEF SetReadyFlags
  <1>22. ASSUME SignalReadyEvent PROVE FlagTypes'
    BY <1>22 DEF SignalReadyEvent
  <1>23. ASSUME CloseReadyEvent PROVE FlagTypes'
    BY <1>23 DEF CloseReadyEvent, Release
  <1>24. ASSUME ServerFails PROVE FlagTypes'
    BY <1>24 DEF ServerFails
  <1>25. ASSUME ShutdownCommand PROVE FlagTypes'
    BY <1>25 DEF ShutdownCommand
  <1>26. ASSUME UninstallNext PROVE FlagTypes'
    BY <1>26 DEF UninstallNext
  <1>27. ASSUME RestoreBytes PROVE FlagTypes'
    BY <1>27 DEF RestoreBytes
  <1>28. ASSUME BytesRestored PROVE FlagTypes'
    BY <1>28 DEF BytesRestored
  <1>29. ASSUME FreeTrampoline PROVE FlagTypes'
    BY <1>29 DEF FreeTrampoline
  <1>30. ASSUME ClearOriginal PROVE FlagTypes'
    BY <1>30 DEF ClearOriginal
  <1>31. ASSUME ClearInstalled PROVE FlagTypes'
    BY <1>31 DEF ClearInstalled
  <1>32. ASSUME ServerEnds PROVE FlagTypes'
    BY <1>32 DEF ServerEnds
  <1>33. ASSUME CallHooked PROVE FlagTypes'
    BY <1>33 DEF CallHooked
  <1>34. ASSUME ReadOriginal PROVE FlagTypes'
    BY <1>34 DEF ReadOriginal
  <1>35. ASSUME EnterTrampoline PROVE FlagTypes'
    BY <1>35 DEF EnterTrampoline
  <1>36. ASSUME LeaveTrampoline PROVE FlagTypes'
    BY <1>36 DEF LeaveTrampoline
  <1>37. CASE UNCHANGED vars
    BY <1>37 DEF vars
  <1> QED
    BY <1>1, <1>2, <1>3, <1>4, <1>5, <1>6, <1>7, <1>8, <1>9, <1>10, <1>11, <1>12, <1>13,
       <1>14, <1>15, <1>16, <1>17, <1>18, <1>19, <1>20, <1>21, <1>22, <1>23, <1>24,
       <1>25, <1>26, <1>27, <1>28, <1>29, <1>30, <1>31, <1>32, <1>33, <1>34, <1>35,
       <1>36, <1>37
       DEF Next, LauncherStep, BootStep, IpcStep, GameStep

\* of the hooks' pieces,
LEMMA HookTypesStep == TypeOK /\ [Next]_vars => HookTypes'
  <1> SUFFICES ASSUME TypeOK, [Next]_vars PROVE HookTypes'
    OBVIOUS
  <1> USE OrderFacts DEF TypeOK, HookTypes, IndexTypes, launchVars, eventVars, bootVars,
         ipcVars, stateVars, hookVars, gameVars
  <1>1. ASSUME LauncherStep PROVE HookTypes'
    BY <1>1, LauncherFrame
  <1>2. ASSUME DllAttach PROVE HookTypes'
    BY <1>2 DEF DllAttach
  <1>3. ASSUME LoadFails PROVE HookTypes'
    BY <1>3 DEF LoadFails
  <1>4. ASSUME Prepare PROVE HookTypes'
    BY <1>4 DEF Prepare
  <1>5. ASSUME StartIpcServer PROVE HookTypes'
    BY <1>5 DEF StartIpcServer
  <1>6. ASSUME SetPipeReady PROVE HookTypes'
    BY <1>6 DEF SetPipeReady
  <1>7. ASSUME PrepareHook PROVE HookTypes'
    BY <1>7 DEF PrepareHook, InstallFails
  <1>8. ASSUME WriteJumpPatch PROVE HookTypes'
    BY <1>8 DEF WriteJumpPatch, InstallFails
  <1>9. ASSUME SetOriginalTrampoline PROVE HookTypes'
    BY <1>9 DEF SetOriginalTrampoline
  <1>10. ASSUME SetHookInstalled PROVE HookTypes'
    BY <1>10 DEF SetHookInstalled
  <1>11. ASSUME InstallDone PROVE HookTypes'
    BY <1>11 DEF InstallDone
  <1>12. ASSUME ApplyCameraPatch PROVE HookTypes'
    BY <1>12 DEF ApplyCameraPatch
  <1>13. ASSUME SetReadyFlags PROVE HookTypes'
    BY <1>13 DEF SetReadyFlags
  <1>14. ASSUME SignalReadyEvent PROVE HookTypes'
    BY <1>14 DEF SignalReadyEvent
  <1>15. ASSUME CloseReadyEvent PROVE HookTypes'
    BY <1>15 DEF CloseReadyEvent, Release
  <1>16. ASSUME ServerFails PROVE HookTypes'
    BY <1>16 DEF ServerFails
  <1>17. ASSUME ShutdownCommand PROVE HookTypes'
    BY <1>17 DEF ShutdownCommand
  <1>18. ASSUME UninstallNext PROVE HookTypes'
    BY <1>18 DEF UninstallNext
  <1>19. ASSUME RestoreBytes PROVE HookTypes'
    BY SMTT(40), <1>19 DEF RestoreBytes
  <1>20. ASSUME BytesRestored PROVE HookTypes'
    BY <1>20 DEF BytesRestored
  <1>21. ASSUME FreeTrampoline PROVE HookTypes'
    BY <1>21 DEF FreeTrampoline
  <1>22. ASSUME ClearOriginal PROVE HookTypes'
    BY <1>22 DEF ClearOriginal
  <1>23. ASSUME ClearInstalled PROVE HookTypes'
    BY <1>23 DEF ClearInstalled
  <1>24. ASSUME ServerEnds PROVE HookTypes'
    BY <1>24 DEF ServerEnds
  <1>25. ASSUME GameStep PROVE HookTypes'
    BY <1>25, GameFrame
  <1>26. CASE UNCHANGED vars
    BY <1>26 DEF vars
  <1> QED
    BY <1>1, <1>2, <1>3, <1>4, <1>5, <1>6, <1>7, <1>8, <1>9, <1>10, <1>11, <1>12, <1>13,
       <1>14, <1>15, <1>16, <1>17, <1>18, <1>19, <1>20, <1>21, <1>22, <1>23, <1>24,
       <1>25, <1>26
       DEF Next, BootStep, IpcStep

\* and of the indices into Order.
LEMMA IndexTypesStep == TypeOK /\ [Next]_vars => IndexTypes'
  <1> SUFFICES ASSUME TypeOK, [Next]_vars PROVE IndexTypes'
    OBVIOUS
  <1> USE OrderIndices DEF TypeOK, IndexTypes, launchVars, eventVars, bootVars, ipcVars,
         stateVars, hookVars, gameVars
  <1>1. ASSUME LauncherStep PROVE IndexTypes'
    BY <1>1, LauncherFrame
  <1>2. ASSUME DllAttach PROVE IndexTypes'
    BY <1>2 DEF DllAttach
  <1>3. ASSUME LoadFails PROVE IndexTypes'
    BY <1>3 DEF LoadFails
  <1>4. ASSUME Prepare PROVE IndexTypes'
    BY <1>4 DEF Prepare
  <1>5. ASSUME StartIpcServer PROVE IndexTypes'
    BY <1>5 DEF StartIpcServer
  <1>6. ASSUME SetPipeReady PROVE IndexTypes'
    BY <1>6 DEF SetPipeReady
  <1>7. ASSUME PrepareHook PROVE IndexTypes'
    BY <1>7 DEF PrepareHook, InstallFails
  <1>8. ASSUME WriteJumpPatch PROVE IndexTypes'
    BY <1>8 DEF WriteJumpPatch, InstallFails
  <1>9. ASSUME SetOriginalTrampoline PROVE IndexTypes'
    BY <1>9 DEF SetOriginalTrampoline
  <1>10. ASSUME SetHookInstalled PROVE IndexTypes'
    BY <1>10 DEF SetHookInstalled
  <1>11. ASSUME InstallDone PROVE IndexTypes'
    BY <1>11 DEF InstallDone
  <1>12. ASSUME ApplyCameraPatch PROVE IndexTypes'
    BY <1>12 DEF ApplyCameraPatch
  <1>13. ASSUME SetReadyFlags PROVE IndexTypes'
    BY <1>13 DEF SetReadyFlags
  <1>14. ASSUME SignalReadyEvent PROVE IndexTypes'
    BY <1>14 DEF SignalReadyEvent
  <1>15. ASSUME CloseReadyEvent PROVE IndexTypes'
    BY <1>15 DEF CloseReadyEvent, Release
  <1>16. ASSUME ServerFails PROVE IndexTypes'
    BY <1>16 DEF ServerFails
  <1>17. ASSUME ShutdownCommand PROVE IndexTypes'
    BY <1>17 DEF ShutdownCommand
  <1>18. ASSUME UninstallNext PROVE IndexTypes'
    BY <1>18 DEF UninstallNext
  <1>19. ASSUME RestoreBytes PROVE IndexTypes'
    BY <1>19 DEF RestoreBytes
  <1>20. ASSUME BytesRestored PROVE IndexTypes'
    BY <1>20 DEF BytesRestored
  <1>21. ASSUME FreeTrampoline PROVE IndexTypes'
    BY <1>21 DEF FreeTrampoline
  <1>22. ASSUME ClearOriginal PROVE IndexTypes'
    BY <1>22 DEF ClearOriginal
  <1>23. ASSUME ClearInstalled PROVE IndexTypes'
    BY <1>23 DEF ClearInstalled
  <1>24. ASSUME ServerEnds PROVE IndexTypes'
    BY <1>24 DEF ServerEnds
  <1>25. ASSUME CallHooked PROVE IndexTypes'
    BY <1>25 DEF CallHooked
  <1>26. ASSUME ReadOriginal PROVE IndexTypes'
    BY <1>26 DEF ReadOriginal
  <1>27. ASSUME EnterTrampoline PROVE IndexTypes'
    BY <1>27 DEF EnterTrampoline
  <1>28. ASSUME LeaveTrampoline PROVE IndexTypes'
    BY <1>28 DEF LeaveTrampoline
  <1>29. CASE UNCHANGED vars
    BY <1>29 DEF vars
  <1> QED
    BY <1>1, <1>2, <1>3, <1>4, <1>5, <1>6, <1>7, <1>8, <1>9, <1>10, <1>11, <1>12, <1>13,
       <1>14, <1>15, <1>16, <1>17, <1>18, <1>19, <1>20, <1>21, <1>22, <1>23, <1>24,
       <1>25, <1>26, <1>27, <1>28, <1>29
       DEF Next, BootStep, IpcStep, GameStep

\* Every action of Next keeps the types.
LEMMA TypeStep == TypeOK /\ [Next]_vars => TypeOK'
  BY ThreadTypesStep, FlagTypesStep, HookTypesStep, IndexTypesStep DEF TypeOK

\* The launcher resumes the game only behind the ready event, which only the
\* end of the bootstrap sets.
LEMMA LaunchStep == IInv /\ [Next]_vars => LaunchInv'
  <1> SUFFICES ASSUME IInv, [Next]_vars PROVE LaunchInv'
    OBVIOUS
  <1> USE DEF IInv, TypeOK, ThreadTypes, FlagTypes, HookTypes, IndexTypes, LaunchInv,
         launchVars, eventVars, bootVars, ipcVars, stateVars, hookVars, gameVars
  <1>1. ASSUME CreateGame PROVE LaunchInv'
    BY <1>1 DEF CreateGame
  <1>2. ASSUME ApplyScriptModeOverride PROVE LaunchInv'
    BY <1>2 DEF ApplyScriptModeOverride
  <1>3. ASSUME InjectRuntimeDll PROVE LaunchInv'
    BY <1>3 DEF InjectRuntimeDll, LauncherGoes
  <1>4. ASSUME LoadReturns PROVE LaunchInv'
    BY <1>4 DEF LoadReturns, LauncherGoes
  <1>5. ASSUME LoadTimesOut PROVE LaunchInv'
    BY <1>5 DEF LoadTimesOut, LauncherGoes
  <1>6. ASSUME OpenReadyEvent PROVE LaunchInv'
    BY <1>6 DEF OpenReadyEvent, LauncherGoes
  <1>7. ASSUME ReadyEventSeen PROVE LaunchInv'
    BY <1>7 DEF ReadyEventSeen, LauncherGoes, Release
  <1>8. ASSUME ReadyTimesOut PROVE LaunchInv'
    BY <1>8 DEF ReadyTimesOut, Release
  <1>9. ASSUME ResumeInjectedProcess PROVE LaunchInv'
    BY <1>9 DEF ResumeInjectedProcess, LauncherGoes
  <1>10. ASSUME DllAttach PROVE LaunchInv'
    BY <1>10 DEF DllAttach
  <1>11. ASSUME LoadFails PROVE LaunchInv'
    BY <1>11 DEF LoadFails
  <1>12. ASSUME Prepare PROVE LaunchInv'
    BY <1>12 DEF Prepare
  <1>13. ASSUME StartIpcServer PROVE LaunchInv'
    BY <1>13 DEF StartIpcServer
  <1>14. ASSUME SetPipeReady PROVE LaunchInv'
    BY <1>14 DEF SetPipeReady
  <1>15. ASSUME PrepareHook PROVE LaunchInv'
    BY <1>15 DEF PrepareHook, InstallFails
  <1>16. ASSUME WriteJumpPatch PROVE LaunchInv'
    BY <1>16 DEF WriteJumpPatch, InstallFails
  <1>17. ASSUME SetOriginalTrampoline PROVE LaunchInv'
    BY <1>17 DEF SetOriginalTrampoline
  <1>18. ASSUME SetHookInstalled PROVE LaunchInv'
    BY <1>18 DEF SetHookInstalled
  <1>19. ASSUME InstallDone PROVE LaunchInv'
    BY <1>19 DEF InstallDone
  <1>20. ASSUME ApplyCameraPatch PROVE LaunchInv'
    BY <1>20 DEF ApplyCameraPatch
  <1>21. ASSUME SetReadyFlags PROVE LaunchInv'
    BY <1>21 DEF SetReadyFlags
  <1>22. ASSUME SignalReadyEvent PROVE LaunchInv'
    BY <1>22 DEF SignalReadyEvent
  <1>23. ASSUME CloseReadyEvent PROVE LaunchInv'
    BY <1>23 DEF CloseReadyEvent, Release
  <1>24. ASSUME ServerFails PROVE LaunchInv'
    BY <1>24 DEF ServerFails
  <1>25. ASSUME ShutdownCommand PROVE LaunchInv'
    BY <1>25 DEF ShutdownCommand
  <1>26. ASSUME UninstallNext PROVE LaunchInv'
    BY <1>26 DEF UninstallNext
  <1>27. ASSUME RestoreBytes PROVE LaunchInv'
    BY <1>27 DEF RestoreBytes
  <1>28. ASSUME BytesRestored PROVE LaunchInv'
    BY <1>28 DEF BytesRestored
  <1>29. ASSUME FreeTrampoline PROVE LaunchInv'
    BY <1>29 DEF FreeTrampoline
  <1>30. ASSUME ClearOriginal PROVE LaunchInv'
    BY <1>30 DEF ClearOriginal
  <1>31. ASSUME ClearInstalled PROVE LaunchInv'
    BY <1>31 DEF ClearInstalled
  <1>32. ASSUME ServerEnds PROVE LaunchInv'
    BY <1>32 DEF ServerEnds
  <1>33. ASSUME CallHooked PROVE LaunchInv'
    BY <1>33 DEF CallHooked
  <1>34. ASSUME ReadOriginal PROVE LaunchInv'
    BY <1>34 DEF ReadOriginal
  <1>35. ASSUME EnterTrampoline PROVE LaunchInv'
    BY <1>35 DEF EnterTrampoline
  <1>36. ASSUME LeaveTrampoline PROVE LaunchInv'
    BY <1>36 DEF LeaveTrampoline
  <1>37. CASE UNCHANGED vars
    BY <1>37 DEF vars
  <1> QED
    BY <1>1, <1>2, <1>3, <1>4, <1>5, <1>6, <1>7, <1>8, <1>9, <1>10, <1>11, <1>12, <1>13,
       <1>14, <1>15, <1>16, <1>17, <1>18, <1>19, <1>20, <1>21, <1>22, <1>23, <1>24,
       <1>25, <1>26, <1>27, <1>28, <1>29, <1>30, <1>31, <1>32, <1>33, <1>34, <1>35,
       <1>36, <1>37
       DEF Next, LauncherStep, BootStep, IpcStep, GameStep

\* The server starts once, and a shutdown command ends it.
LEMMA ShutdownStep == IInv /\ [Next]_vars => ShutdownInv'
  <1> SUFFICES ASSUME IInv, [Next]_vars PROVE ShutdownInv'
    OBVIOUS
  <1> USE OrderFacts DEF IInv, TypeOK, ThreadTypes, FlagTypes, HookTypes, IndexTypes,
         LaunchInv, ShutdownInv, launchVars, eventVars, bootVars, ipcVars, stateVars, hookVars,
         gameVars
  <1>1. ASSUME LauncherStep PROVE ShutdownInv'
    BY <1>1, LauncherFrame
  <1>2. ASSUME DllAttach PROVE ShutdownInv'
    BY <1>2 DEF DllAttach
  <1>3. ASSUME LoadFails PROVE ShutdownInv'
    BY <1>3 DEF LoadFails
  <1>4. ASSUME Prepare PROVE ShutdownInv'
    BY <1>4 DEF Prepare
  <1>5. ASSUME StartIpcServer PROVE ShutdownInv'
    BY <1>5 DEF StartIpcServer
  <1>6. ASSUME SetPipeReady PROVE ShutdownInv'
    BY <1>6 DEF SetPipeReady
  <1>7. ASSUME PrepareHook PROVE ShutdownInv'
    BY <1>7 DEF PrepareHook, InstallFails
  <1>8. ASSUME WriteJumpPatch PROVE ShutdownInv'
    BY <1>8 DEF WriteJumpPatch, InstallFails
  <1>9. ASSUME SetOriginalTrampoline PROVE ShutdownInv'
    BY <1>9 DEF SetOriginalTrampoline
  <1>10. ASSUME SetHookInstalled PROVE ShutdownInv'
    BY <1>10 DEF SetHookInstalled
  <1>11. ASSUME InstallDone PROVE ShutdownInv'
    BY <1>11 DEF InstallDone
  <1>12. ASSUME ApplyCameraPatch PROVE ShutdownInv'
    BY <1>12 DEF ApplyCameraPatch
  <1>13. ASSUME SetReadyFlags PROVE ShutdownInv'
    BY <1>13 DEF SetReadyFlags
  <1>14. ASSUME SignalReadyEvent PROVE ShutdownInv'
    BY <1>14 DEF SignalReadyEvent
  <1>15. ASSUME CloseReadyEvent PROVE ShutdownInv'
    BY <1>15 DEF CloseReadyEvent, Release
  <1>16. ASSUME ServerFails PROVE ShutdownInv'
    BY <1>16 DEF ServerFails
  <1>17. ASSUME ShutdownCommand PROVE ShutdownInv'
    BY <1>17 DEF ShutdownCommand
  <1>18. ASSUME UninstallNext PROVE ShutdownInv'
    BY <1>18 DEF UninstallNext
  <1>19. ASSUME RestoreBytes PROVE ShutdownInv'
    BY <1>19 DEF RestoreBytes
  <1>20. ASSUME BytesRestored PROVE ShutdownInv'
    BY <1>20 DEF BytesRestored
  <1>21. ASSUME FreeTrampoline PROVE ShutdownInv'
    BY <1>21 DEF FreeTrampoline
  <1>22. ASSUME ClearOriginal PROVE ShutdownInv'
    BY <1>22 DEF ClearOriginal
  <1>23. ASSUME ClearInstalled PROVE ShutdownInv'
    BY <1>23 DEF ClearInstalled
  <1>24. ASSUME ServerEnds PROVE ShutdownInv'
    BY <1>24 DEF ServerEnds
  <1>25. ASSUME GameStep PROVE ShutdownInv'
    BY <1>25, GameFrame
  <1>26. CASE UNCHANGED vars
    BY <1>26 DEF vars
  <1> QED
    BY <1>1, <1>2, <1>3, <1>4, <1>5, <1>6, <1>7, <1>8, <1>9, <1>10, <1>11, <1>12, <1>13,
       <1>14, <1>15, <1>16, <1>17, <1>18, <1>19, <1>20, <1>21, <1>22, <1>23, <1>24,
       <1>25, <1>26
       DEF Next, BootStep, IpcStep

\* What a step that may give a hook up leaves: an optional hook is passed over.
LEMMA GiveUp ==
  ASSUME PrepareHook \/ WriteJumpPatch
  PROVE  /\ boot \in {"install", "patch"}
         /\ UNCHANGED <<launchVars, eventVars, ipcVars, stateVars, original, installed, status, gameVars>>
         /\ bootOk' = bootOk
         /\ \/ bootAt' = bootAt /\ boot' \in {"patch", "link", "flags"}
            \/ bootAt' = bootAt + 1 /\ boot' = "install" /\ Order[bootAt] \notin Required
  BY DEF PrepareHook, WriteJumpPatch, InstallFails

\* The bootstrap installs in order.
LEMMA ReachedStep == IInv /\ [Next]_vars => ReachedInv'
  <1> SUFFICES ASSUME IInv, [Next]_vars PROVE ReachedInv'
    OBVIOUS
  <1> USE DEF IInv, ReachedInv, launchVars, eventVars, bootVars, ipcVars, stateVars,
         hookVars, gameVars
  <1>1. ASSUME LauncherStep PROVE ReachedInv'
    BY <1>1, LauncherFrame
  <1>2. ASSUME DllAttach PROVE ReachedInv'
    BY <1>2 DEF DllAttach, LaunchInv
  <1>3. ASSUME LoadFails PROVE ReachedInv'
    BY <1>3 DEF LoadFails
  <1>4. ASSUME Prepare PROVE ReachedInv'
    BY <1>4 DEF Prepare
  <1>5. ASSUME StartIpcServer PROVE ReachedInv'
    BY <1>5 DEF StartIpcServer
  <1>6. ASSUME SetPipeReady PROVE ReachedInv'
    BY <1>6 DEF SetPipeReady
  <1>7. ASSUME PrepareHook PROVE ReachedInv'
    BY <1>7, GiveUp, OrderIndices DEF TypeOK, IndexTypes
  <1>8. ASSUME WriteJumpPatch PROVE ReachedInv'
    BY <1>8, GiveUp, OrderIndices DEF TypeOK, IndexTypes
  <1>9. ASSUME SetOriginalTrampoline PROVE ReachedInv'
    <2>1. \A i \in DOMAIN Order : installed'[Order[i]] => installed[Order[i]] \/ i = bootAt
      BY <1>9, OrderFacts DEF SetOriginalTrampoline, TypeOK, HookTypes, IndexTypes
    <2> QED
      BY <1>9, <2>1 DEF SetOriginalTrampoline
  <1>10. ASSUME SetHookInstalled PROVE ReachedInv'
    BY <1>10, OrderIndices DEF SetHookInstalled, TypeOK, IndexTypes
  <1>11. ASSUME InstallDone PROVE ReachedInv'
    BY <1>11 DEF InstallDone
  <1>12. ASSUME ApplyCameraPatch PROVE ReachedInv'
    BY <1>12 DEF ApplyCameraPatch
  <1>13. ASSUME SetReadyFlags PROVE ReachedInv'
    BY <1>13 DEF SetReadyFlags
  <1>14. ASSUME SignalReadyEvent PROVE ReachedInv'
    BY <1>14 DEF SignalReadyEvent
  <1>15. ASSUME CloseReadyEvent PROVE ReachedInv'
    BY <1>15 DEF CloseReadyEvent, Release
  <1>16. ASSUME ServerFails PROVE ReachedInv'
    BY <1>16 DEF ServerFails
  <1>17. ASSUME ShutdownCommand PROVE ReachedInv'
    BY <1>17 DEF ShutdownCommand
  <1>18. ASSUME UninstallNext PROVE ReachedInv'
    BY <1>18 DEF UninstallNext
  <1>19. ASSUME RestoreBytes PROVE ReachedInv'
    BY <1>19 DEF RestoreBytes
  <1>20. ASSUME BytesRestored PROVE ReachedInv'
    BY <1>20 DEF BytesRestored
  <1>21. ASSUME FreeTrampoline PROVE ReachedInv'
    BY <1>21 DEF FreeTrampoline
  <1>22. ASSUME ClearOriginal PROVE ReachedInv'
    BY <1>22 DEF ClearOriginal
  <1>23. ASSUME ClearInstalled PROVE ReachedInv'
    <2>1. \A i \in DOMAIN Order : installed'[Order[i]] => installed[Order[i]]
      BY <1>23, OrderFacts DEF ClearInstalled, TypeOK, HookTypes
    <2> QED
      BY <1>23, <2>1 DEF ClearInstalled
  <1>24. ASSUME ServerEnds PROVE ReachedInv'
    BY <1>24 DEF ServerEnds
  <1>25. ASSUME GameStep PROVE ReachedInv'
    BY <1>25, GameFrame
  <1>26. CASE UNCHANGED vars
    BY <1>26 DEF vars
  <1> QED
    BY <1>1, <1>2, <1>3, <1>4, <1>5, <1>6, <1>7, <1>8, <1>9, <1>10, <1>11, <1>12, <1>13,
       <1>14, <1>15, <1>16, <1>17, <1>18, <1>19, <1>20, <1>21, <1>22, <1>23, <1>24,
       <1>25, <1>26
       DEF Next, BootStep, IpcStep

\* The two threads are never at the same hook.
LEMMA Separate ==
  ASSUME TypeOK, ReachedInv, IpcWorkInv, bootAt \in DOMAIN Order,
         boot \in {"install", "patch", "link"},
         ipc \in {"restore", "tear", "free", "unlink", "clear"}
  PROVE  Order[ipcAt] # Order[bootAt]
  <1>1. ipcAt \in DOMAIN Order /\ installed[Order[ipcAt]]
    BY DEF TypeOK, IndexTypes, IpcWorkInv
  <1>2. ipcAt < bootAt
    BY <1>1 DEF ReachedInv
  <1>3. ipcAt # bootAt
    BY <1>1, <1>2, OrderIndices
  <1> QED
    BY <1>1, <1>3, OrderFacts

\* The hook that the bootstrap prepares is still untouched.
LEMMA Untouched ==
  ASSUME TypeOK, ReachedInv, IpcWorkInv, HookConsistent, PrepareHook
  PROVE  /\ Order[bootAt] \in Hooks /\ bootAt \in DOMAIN Order
         /\ ~installed[Order[bootAt]] /\ ~original[Order[bootAt]]
         /\ trampoline[Order[bootAt]] # "live" /\ ~BusyWith(Order[bootAt])
  <1>1. bootAt \in DOMAIN Order /\ boot = "install"
    BY OrderIndices DEF PrepareHook, TypeOK, IndexTypes
  <1>2. Order[bootAt] \in Hooks
    BY <1>1, OrderFacts
  <1>3. ~installed[Order[bootAt]]
    BY <1>1, OrderIndices DEF ReachedInv
  <1>4. ~BusyWith(Order[bootAt])
    BY <1>1, Separate DEF BusyWith
  <1> QED
    BY <1>1, <1>2, <1>3, <1>4 DEF HookConsistent

\* Nothing disturbs the hook the bootstrap is at.
LEMMA BootWorkStep == IInv /\ [Next]_vars => BootWorkInv'
  <1> SUFFICES ASSUME IInv, [Next]_vars PROVE BootWorkInv'
    OBVIOUS
  <1> USE DEF IInv, BootWorkInv, launchVars, eventVars, bootVars, ipcVars, stateVars,
         hookVars, gameVars
  <1>1. ASSUME LauncherStep PROVE BootWorkInv'
    BY <1>1, LauncherFrame
  <1>2. ASSUME DllAttach PROVE BootWorkInv'
    BY <1>2 DEF DllAttach
  <1>3. ASSUME LoadFails PROVE BootWorkInv'
    BY <1>3 DEF LoadFails
  <1>4. ASSUME Prepare PROVE BootWorkInv'
    BY <1>4 DEF Prepare
  <1>5. ASSUME StartIpcServer PROVE BootWorkInv'
    BY <1>5 DEF StartIpcServer
  <1>6. ASSUME SetPipeReady PROVE BootWorkInv'
    BY <1>6 DEF SetPipeReady
  <1>7. ASSUME PrepareHook PROVE BootWorkInv'
    BY <1>7, Untouched DEF PrepareHook, InstallFails, TypeOK, HookTypes
  <1>8. ASSUME WriteJumpPatch PROVE BootWorkInv'
    BY <1>8, OrderFacts DEF WriteJumpPatch, InstallFails, TypeOK, HookTypes, IndexTypes
  <1>9. ASSUME SetOriginalTrampoline PROVE BootWorkInv'
    BY <1>9 DEF SetOriginalTrampoline
  <1>10. ASSUME SetHookInstalled PROVE BootWorkInv'
    BY <1>10 DEF SetHookInstalled
  <1>11. ASSUME InstallDone PROVE BootWorkInv'
    BY <1>11 DEF InstallDone
  <1>12. ASSUME ApplyCameraPatch PROVE BootWorkInv'
    BY <1>12 DEF ApplyCameraPatch
  <1>13. ASSUME SetReadyFlags PROVE BootWorkInv'
    BY <1>13 DEF SetReadyFlags
  <1>14. ASSUME SignalReadyEvent PROVE BootWorkInv'
    BY <1>14 DEF SignalReadyEvent
  <1>15. ASSUME CloseReadyEvent PROVE BootWorkInv'
    BY <1>15 DEF CloseReadyEvent, Release
  <1>16. ASSUME ServerFails PROVE BootWorkInv'
    BY <1>16 DEF ServerFails
  <1>17. ASSUME ShutdownCommand PROVE BootWorkInv'
    BY <1>17 DEF ShutdownCommand
  <1>18. ASSUME UninstallNext PROVE BootWorkInv'
    BY <1>18 DEF UninstallNext
  <1>19. ASSUME RestoreBytes PROVE BootWorkInv'
    BY <1>19, Separate, OrderFacts DEF RestoreBytes, TypeOK, HookTypes, IndexTypes
  <1>20. ASSUME BytesRestored PROVE BootWorkInv'
    BY <1>20, Separate, OrderFacts DEF BytesRestored, TypeOK, HookTypes, IndexTypes
  <1>21. ASSUME FreeTrampoline PROVE BootWorkInv'
    BY <1>21, Separate, OrderFacts DEF FreeTrampoline, TypeOK, HookTypes, IndexTypes
  <1>22. ASSUME ClearOriginal PROVE BootWorkInv'
    BY <1>22, Separate, OrderFacts DEF ClearOriginal, TypeOK, HookTypes, IndexTypes
  <1>23. ASSUME ClearInstalled PROVE BootWorkInv'
    BY <1>23, Separate, OrderFacts DEF ClearInstalled, TypeOK, HookTypes, IndexTypes
  <1>24. ASSUME ServerEnds PROVE BootWorkInv'
    BY <1>24 DEF ServerEnds
  <1>25. ASSUME GameStep PROVE BootWorkInv'
    BY <1>25, GameFrame
  <1>26. CASE UNCHANGED vars
    BY <1>26 DEF vars
  <1> QED
    BY <1>1, <1>2, <1>3, <1>4, <1>5, <1>6, <1>7, <1>8, <1>9, <1>10, <1>11, <1>12, <1>13,
       <1>14, <1>15, <1>16, <1>17, <1>18, <1>19, <1>20, <1>21, <1>22, <1>23, <1>24,
       <1>25, <1>26
       DEF Next, BootStep, IpcStep

\* Nothing disturbs the hook the shutdown is at.
LEMMA IpcWorkStep == IInv /\ [Next]_vars => IpcWorkInv'
  <1> SUFFICES ASSUME IInv, [Next]_vars PROVE IpcWorkInv'
    OBVIOUS
  <1> USE DEF IInv, IpcWorkInv, launchVars, eventVars, bootVars, ipcVars, stateVars,
         hookVars, gameVars
  <1>1. ASSUME LauncherStep PROVE IpcWorkInv'
    BY <1>1, LauncherFrame
  <1>2. ASSUME DllAttach PROVE IpcWorkInv'
    BY <1>2 DEF DllAttach
  <1>3. ASSUME LoadFails PROVE IpcWorkInv'
    BY <1>3 DEF LoadFails
  <1>4. ASSUME Prepare PROVE IpcWorkInv'
    BY <1>4 DEF Prepare
  <1>5. ASSUME StartIpcServer PROVE IpcWorkInv'
    BY <1>5 DEF StartIpcServer, ShutdownInv
  <1>6. ASSUME SetPipeReady PROVE IpcWorkInv'
    BY <1>6 DEF SetPipeReady
  <1>7. ASSUME PrepareHook PROVE IpcWorkInv'
    <2>1. ipc \in {"restore", "tear", "free", "unlink", "clear"} =>
            trampoline'[Order[ipcAt]] = trampoline[Order[ipcAt]]
      BY <1>7, Untouched, Separate, OrderFacts DEF PrepareHook, TypeOK, HookTypes, IndexTypes
    <2> QED
      BY <1>7, <2>1 DEF PrepareHook
  <1>8. ASSUME WriteJumpPatch PROVE IpcWorkInv'
    <2>1. ipc \in {"restore", "tear", "free", "unlink", "clear"} =>
            /\ trampoline'[Order[ipcAt]] = trampoline[Order[ipcAt]]
            /\ target'[Order[ipcAt]] = target[Order[ipcAt]]
      BY <1>8, Separate, OrderFacts DEF WriteJumpPatch, TypeOK, HookTypes, IndexTypes
    <2> QED
      BY <1>8, <2>1 DEF WriteJumpPatch
  <1>9. ASSUME SetOriginalTrampoline PROVE IpcWorkInv'
    <2>1. ipc \in {"restore", "tear", "free", "unlink", "clear"} =>
            /\ original'[Order[ipcAt]] = original[Order[ipcAt]]
            /\ installed'[Order[ipcAt]] = installed[Order[ipcAt]]
      BY <1>9, Separate, OrderFacts DEF SetOriginalTrampoline, TypeOK, HookTypes, IndexTypes
    <2> QED
      BY <1>9, <2>1 DEF SetOriginalTrampoline
  <1>10. ASSUME SetHookInstalled PROVE IpcWorkInv'
    BY <1>10 DEF SetHookInstalled
  <1>11. ASSUME InstallDone PROVE IpcWorkInv'
    BY <1>11 DEF InstallDone
  <1>12. ASSUME ApplyCameraPatch PROVE IpcWorkInv'
    BY <1>12 DEF ApplyCameraPatch
  <1>13. ASSUME SetReadyFlags PROVE IpcWorkInv'
    BY <1>13 DEF SetReadyFlags
  <1>14. ASSUME SignalReadyEvent PROVE IpcWorkInv'
    BY <1>14 DEF SignalReadyEvent
  <1>15. ASSUME CloseReadyEvent PROVE IpcWorkInv'
    BY <1>15 DEF CloseReadyEvent, Release
  <1>16. ASSUME ServerFails PROVE IpcWorkInv'
    BY <1>16 DEF ServerFails
  <1>17. ASSUME ShutdownCommand PROVE IpcWorkInv'
    BY <1>17 DEF ShutdownCommand
  <1>18. ASSUME UninstallNext PROVE IpcWorkInv'
    <2>1. CASE installed[Order[ipcAt]]
      <3>1. ipcAt \in DOMAIN Order /\ Order[ipcAt] \in Hooks
        BY <1>18, OrderFacts DEF UninstallNext, TypeOK, IndexTypes
      <3>2. ~BusyWith(Order[ipcAt])
        BY <1>18, <2>1, <3>1, OrderFacts DEF UninstallNext, BusyWith, ReachedInv, TypeOK, IndexTypes
      <3> QED
        BY <1>18, <2>1, <3>1, <3>2 DEF UninstallNext, HookConsistent
    <2>2. CASE ~installed[Order[ipcAt]]
      BY <1>18, <2>2 DEF UninstallNext
    <2> QED
      BY <2>1, <2>2
  <1>19. ASSUME RestoreBytes PROVE IpcWorkInv'
    BY <1>19, OrderFacts DEF RestoreBytes, TypeOK, HookTypes, IndexTypes
  <1>20. ASSUME BytesRestored PROVE IpcWorkInv'
    BY <1>20, OrderFacts DEF BytesRestored, TypeOK, HookTypes, IndexTypes
  <1>21. ASSUME FreeTrampoline PROVE IpcWorkInv'
    BY <1>21, OrderFacts DEF FreeTrampoline, TypeOK, HookTypes, IndexTypes
  <1>22. ASSUME ClearOriginal PROVE IpcWorkInv'
    BY <1>22, OrderFacts DEF ClearOriginal, TypeOK, HookTypes, IndexTypes
  <1>23. ASSUME ClearInstalled PROVE IpcWorkInv'
    BY <1>23, OrderFacts DEF ClearInstalled, TypeOK, HookTypes, IndexTypes
  <1>24. ASSUME ServerEnds PROVE IpcWorkInv'
    BY <1>24 DEF ServerEnds
  <1>25. ASSUME GameStep PROVE IpcWorkInv'
    BY <1>25, GameFrame
  <1>26. CASE UNCHANGED vars
    BY <1>26 DEF vars
  <1> QED
    BY <1>1, <1>2, <1>3, <1>4, <1>5, <1>6, <1>7, <1>8, <1>9, <1>10, <1>11, <1>12, <1>13,
       <1>14, <1>15, <1>16, <1>17, <1>18, <1>19, <1>20, <1>21, <1>22, <1>23, <1>24,
       <1>25, <1>26
       DEF Next, BootStep, IpcStep

\* The hook a thread leaves is consistent.
LEMMA ConsistentStep == IInv /\ [Next]_vars => HookConsistent'
  <1> SUFFICES ASSUME IInv, [Next]_vars PROVE HookConsistent'
    OBVIOUS
  <1> USE OrderFacts DEF IInv, TypeOK, ThreadTypes, FlagTypes, HookTypes, IndexTypes,
         LaunchInv, ShutdownInv, ReachedInv, BootWorkInv, IpcWorkInv, HookConsistent, BusyWith,
         launchVars, eventVars, bootVars, ipcVars, stateVars, hookVars, gameVars
  <1>1. ASSUME LauncherStep PROVE HookConsistent'
    BY <1>1, LauncherFrame
  <1>2. ASSUME DllAttach PROVE HookConsistent'
    BY <1>2 DEF DllAttach
  <1>3. ASSUME LoadFails PROVE HookConsistent'
    BY <1>3 DEF LoadFails
  <1>4. ASSUME Prepare PROVE HookConsistent'
    BY <1>4 DEF Prepare
  <1>5. ASSUME StartIpcServer PROVE HookConsistent'
    BY <1>5 DEF StartIpcServer
  <1>6. ASSUME SetPipeReady PROVE HookConsistent'
    BY <1>6 DEF SetPipeReady
  <1>7. ASSUME PrepareHook PROVE HookConsistent'
    BY <1>7 DEF PrepareHook, InstallFails
  <1>8. ASSUME WriteJumpPatch PROVE HookConsistent'
    BY <1>8 DEF WriteJumpPatch, InstallFails
  <1>9. ASSUME SetOriginalTrampoline PROVE HookConsistent'
    BY <1>9 DEF SetOriginalTrampoline
  <1>10. ASSUME SetHookInstalled PROVE HookConsistent'
    BY <1>10 DEF SetHookInstalled
  <1>11. ASSUME InstallDone PROVE HookConsistent'
    BY <1>11 DEF InstallDone
  <1>12. ASSUME ApplyCameraPatch PROVE HookConsistent'
    BY <1>12 DEF ApplyCameraPatch
  <1>13. ASSUME SetReadyFlags PROVE HookConsistent'
    BY <1>13 DEF SetReadyFlags
  <1>14. ASSUME SignalReadyEvent PROVE HookConsistent'
    BY <1>14 DEF SignalReadyEvent
  <1>15. ASSUME CloseReadyEvent PROVE HookConsistent'
    BY <1>15 DEF CloseReadyEvent, Release
  <1>16. ASSUME ServerFails PROVE HookConsistent'
    BY <1>16 DEF ServerFails
  <1>17. ASSUME ShutdownCommand PROVE HookConsistent'
    BY <1>17 DEF ShutdownCommand
  <1>18. ASSUME UninstallNext PROVE HookConsistent'
    BY <1>18 DEF UninstallNext
  <1>19. ASSUME RestoreBytes PROVE HookConsistent'
    BY <1>19 DEF RestoreBytes
  <1>20. ASSUME BytesRestored PROVE HookConsistent'
    BY <1>20 DEF BytesRestored
  <1>21. ASSUME FreeTrampoline PROVE HookConsistent'
    BY <1>21 DEF FreeTrampoline
  <1>22. ASSUME ClearOriginal PROVE HookConsistent'
    BY <1>22 DEF ClearOriginal
  <1>23. ASSUME ClearInstalled PROVE HookConsistent'
    BY <1>23 DEF ClearInstalled
  <1>24. ASSUME ServerEnds PROVE HookConsistent'
    BY <1>24 DEF ServerEnds
  <1>25. ASSUME GameStep PROVE HookConsistent'
    BY <1>25, GameFrame
  <1>26. CASE UNCHANGED vars
    BY <1>26 DEF vars
  <1> QED
    BY <1>1, <1>2, <1>3, <1>4, <1>5, <1>6, <1>7, <1>8, <1>9, <1>10, <1>11, <1>12, <1>13,
       <1>14, <1>15, <1>16, <1>17, <1>18, <1>19, <1>20, <1>21, <1>22, <1>23, <1>24,
       <1>25, <1>26
       DEF Next, BootStep, IpcStep

\* The bootstrap collects "hooks" only behind the last hook.
LEMMA OutcomeStep == IInv /\ [Next]_vars => OutcomeInv'
  <1> SUFFICES ASSUME IInv, [Next]_vars PROVE OutcomeInv'
    OBVIOUS
  <1> USE DEF IInv, TypeOK, ThreadTypes, FlagTypes, HookTypes, IndexTypes, LaunchInv,
         ShutdownInv, OutcomeInv, Checks, launchVars, eventVars, bootVars, ipcVars, stateVars,
         hookVars, gameVars
  <1>1. ASSUME LauncherStep PROVE OutcomeInv'
    BY <1>1, LauncherFrame
  <1>2. ASSUME DllAttach PROVE OutcomeInv'
    BY <1>2 DEF DllAttach
  <1>3. ASSUME LoadFails PROVE OutcomeInv'
    BY <1>3 DEF LoadFails
  <1>4. ASSUME Prepare PROVE OutcomeInv'
    BY <1>4 DEF Prepare
  <1>5. ASSUME StartIpcServer PROVE OutcomeInv'
    BY <1>5 DEF StartIpcServer
  <1>6. ASSUME SetPipeReady PROVE OutcomeInv'
    BY <1>6 DEF SetPipeReady
  <1>7. ASSUME PrepareHook PROVE OutcomeInv'
    BY <1>7, GiveUp, OrderIndices
  <1>8. ASSUME WriteJumpPatch PROVE OutcomeInv'
    BY <1>8, GiveUp, OrderIndices
  <1>9. ASSUME SetOriginalTrampoline PROVE OutcomeInv'
    BY SMTT(40), <1>9, OrderFacts DEF SetOriginalTrampoline
  <1>10. ASSUME SetHookInstalled PROVE OutcomeInv'
    BY <1>10, OrderFacts DEF SetHookInstalled
  <1>11. ASSUME InstallDone PROVE OutcomeInv'
    BY <1>11 DEF InstallDone
  <1>12. ASSUME ApplyCameraPatch PROVE OutcomeInv'
    BY <1>12 DEF ApplyCameraPatch
  <1>13. ASSUME SetReadyFlags PROVE OutcomeInv'
    BY <1>13 DEF SetReadyFlags
  <1>14. ASSUME SignalReadyEvent PROVE OutcomeInv'
    BY <1>14 DEF SignalReadyEvent
  <1>15. ASSUME CloseReadyEvent PROVE OutcomeInv'
    BY <1>15 DEF CloseReadyEvent, Release
  <1>16. ASSUME ServerFails PROVE OutcomeInv'
    BY <1>16 DEF ServerFails
  <1>17. ASSUME ShutdownCommand PROVE OutcomeInv'
    BY <1>17 DEF ShutdownCommand
  <1>18. ASSUME UninstallNext PROVE OutcomeInv'
    BY <1>18 DEF UninstallNext
  <1>19. ASSUME RestoreBytes PROVE OutcomeInv'
    BY <1>19 DEF RestoreBytes
  <1>20. ASSUME BytesRestored PROVE OutcomeInv'
    BY <1>20 DEF BytesRestored
  <1>21. ASSUME FreeTrampoline PROVE OutcomeInv'
    BY <1>21 DEF FreeTrampoline
  <1>22. ASSUME ClearOriginal PROVE OutcomeInv'
    BY <1>22 DEF ClearOriginal
  <1>23. ASSUME ClearInstalled PROVE OutcomeInv'
    BY <1>23 DEF ClearInstalled
  <1>24. ASSUME ServerEnds PROVE OutcomeInv'
    BY <1>24 DEF ServerEnds
  <1>25. ASSUME GameStep PROVE OutcomeInv'
    BY <1>25, GameFrame
  <1>26. CASE UNCHANGED vars
    BY <1>26 DEF vars
  <1> QED
    BY <1>1, <1>2, <1>3, <1>4, <1>5, <1>6, <1>7, <1>8, <1>9, <1>10, <1>11, <1>12, <1>13,
       <1>14, <1>15, <1>16, <1>17, <1>18, <1>19, <1>20, <1>21, <1>22, <1>23, <1>24,
       <1>25, <1>26
       DEF Next, BootStep, IpcStep

\* A late shutdown leaves no hook behind it.
LEMMA GoneStep == IInv /\ [Next]_vars => GoneInv'
  <1> SUFFICES ASSUME IInv, [Next]_vars PROVE GoneInv'
    OBVIOUS
  <1> USE OrderFacts DEF IInv, TypeOK, ThreadTypes, FlagTypes, HookTypes, IndexTypes,
         LaunchInv, ShutdownInv, OutcomeInv, BootWorkInv, IpcWorkInv, GoneInv, launchVars,
         eventVars, bootVars, ipcVars, stateVars, hookVars, gameVars
  <1>1. ASSUME LauncherStep PROVE GoneInv'
    BY <1>1, LauncherFrame
  <1>2. ASSUME DllAttach PROVE GoneInv'
    BY <1>2 DEF DllAttach
  <1>3. ASSUME LoadFails PROVE GoneInv'
    BY <1>3 DEF LoadFails
  <1>4. ASSUME Prepare PROVE GoneInv'
    BY <1>4 DEF Prepare
  <1>5. ASSUME StartIpcServer PROVE GoneInv'
    BY <1>5 DEF StartIpcServer
  <1>6. ASSUME SetPipeReady PROVE GoneInv'
    BY <1>6 DEF SetPipeReady
  <1>7. ASSUME PrepareHook PROVE GoneInv'
    BY <1>7 DEF PrepareHook, InstallFails
  <1>8. ASSUME WriteJumpPatch PROVE GoneInv'
    BY <1>8 DEF WriteJumpPatch, InstallFails
  <1>9. ASSUME SetOriginalTrampoline PROVE GoneInv'
    BY <1>9 DEF SetOriginalTrampoline
  <1>10. ASSUME SetHookInstalled PROVE GoneInv'
    BY <1>10 DEF SetHookInstalled
  <1>11. ASSUME InstallDone PROVE GoneInv'
    BY <1>11 DEF InstallDone
  <1>12. ASSUME ApplyCameraPatch PROVE GoneInv'
    BY <1>12 DEF ApplyCameraPatch
  <1>13. ASSUME SetReadyFlags PROVE GoneInv'
    BY <1>13 DEF SetReadyFlags
  <1>14. ASSUME SignalReadyEvent PROVE GoneInv'
    BY <1>14 DEF SignalReadyEvent
  <1>15. ASSUME CloseReadyEvent PROVE GoneInv'
    BY <1>15 DEF CloseReadyEvent, Release
  <1>16. ASSUME ServerFails PROVE GoneInv'
    BY <1>16 DEF ServerFails
  <1>17. ASSUME ShutdownCommand PROVE GoneInv'
    BY <1>17 DEF ShutdownCommand
  <1>18. ASSUME UninstallNext PROVE GoneInv'
    BY <1>18 DEF UninstallNext
  <1>19. ASSUME RestoreBytes PROVE GoneInv'
    BY <1>19 DEF RestoreBytes
  <1>20. ASSUME BytesRestored PROVE GoneInv'
    BY <1>20 DEF BytesRestored
  <1>21. ASSUME FreeTrampoline PROVE GoneInv'
    BY <1>21 DEF FreeTrampoline
  <1>22. ASSUME ClearOriginal PROVE GoneInv'
    BY <1>22 DEF ClearOriginal
  <1>23. ASSUME ClearInstalled PROVE GoneInv'
    BY <1>23 DEF ClearInstalled
  <1>24. ASSUME ServerEnds PROVE GoneInv'
    BY <1>24 DEF ServerEnds
  <1>25. ASSUME GameStep PROVE GoneInv'
    BY <1>25, GameFrame
  <1>26. CASE UNCHANGED vars
    BY <1>26 DEF vars
  <1> QED
    BY <1>1, <1>2, <1>3, <1>4, <1>5, <1>6, <1>7, <1>8, <1>9, <1>10, <1>11, <1>12, <1>13,
       <1>14, <1>15, <1>16, <1>17, <1>18, <1>19, <1>20, <1>21, <1>22, <1>23, <1>24,
       <1>25, <1>26
       DEF Next, BootStep, IpcStep

\* No call of the game meets a hook in the making.
LEMMA CallStep == IInv /\ [Next]_vars => CallInv'
  <1> SUFFICES ASSUME IInv, [Next]_vars PROVE CallInv'
    OBVIOUS
  <1> USE OrderFacts DEF IInv, TypeOK, ThreadTypes, FlagTypes, HookTypes, IndexTypes,
         LaunchInv, ShutdownInv, HookConsistent, BusyWith, CallInv, launchVars, eventVars,
         bootVars, ipcVars, stateVars, hookVars, gameVars
  <1>1. ASSUME LauncherStep PROVE CallInv'
    BY <1>1, LauncherFrame
  <1>2. ASSUME DllAttach PROVE CallInv'
    BY <1>2 DEF DllAttach
  <1>3. ASSUME LoadFails PROVE CallInv'
    BY <1>3 DEF LoadFails
  <1>4. ASSUME Prepare PROVE CallInv'
    BY <1>4 DEF Prepare
  <1>5. ASSUME StartIpcServer PROVE CallInv'
    BY <1>5 DEF StartIpcServer
  <1>6. ASSUME SetPipeReady PROVE CallInv'
    BY <1>6 DEF SetPipeReady
  <1>7. ASSUME PrepareHook PROVE CallInv'
    BY <1>7 DEF PrepareHook, InstallFails
  <1>8. ASSUME WriteJumpPatch PROVE CallInv'
    BY <1>8 DEF WriteJumpPatch, InstallFails
  <1>9. ASSUME SetOriginalTrampoline PROVE CallInv'
    BY <1>9 DEF SetOriginalTrampoline
  <1>10. ASSUME SetHookInstalled PROVE CallInv'
    BY <1>10 DEF SetHookInstalled
  <1>11. ASSUME InstallDone PROVE CallInv'
    BY <1>11 DEF InstallDone
  <1>12. ASSUME ApplyCameraPatch PROVE CallInv'
    BY <1>12 DEF ApplyCameraPatch
  <1>13. ASSUME SetReadyFlags PROVE CallInv'
    BY <1>13 DEF SetReadyFlags
  <1>14. ASSUME SignalReadyEvent PROVE CallInv'
    BY <1>14 DEF SignalReadyEvent
  <1>15. ASSUME CloseReadyEvent PROVE CallInv'
    BY <1>15 DEF CloseReadyEvent, Release
  <1>16. ASSUME ServerFails PROVE CallInv'
    BY <1>16 DEF ServerFails
  <1>17. ASSUME ShutdownCommand PROVE CallInv'
    BY <1>17 DEF ShutdownCommand
  <1>18. ASSUME UninstallNext PROVE CallInv'
    BY <1>18 DEF UninstallNext
  <1>19. ASSUME RestoreBytes PROVE CallInv'
    BY <1>19 DEF RestoreBytes
  <1>20. ASSUME BytesRestored PROVE CallInv'
    BY <1>20 DEF BytesRestored
  <1>21. ASSUME FreeTrampoline PROVE CallInv'
    BY <1>21 DEF FreeTrampoline
  <1>22. ASSUME ClearOriginal PROVE CallInv'
    BY <1>22 DEF ClearOriginal
  <1>23. ASSUME ClearInstalled PROVE CallInv'
    BY <1>23 DEF ClearInstalled
  <1>24. ASSUME ServerEnds PROVE CallInv'
    BY <1>24 DEF ServerEnds
  <1>25. ASSUME CallHooked PROVE CallInv'
    BY <1>25 DEF CallHooked
  <1>26. ASSUME ReadOriginal PROVE CallInv'
    BY <1>26 DEF ReadOriginal
  <1>27. ASSUME EnterTrampoline PROVE CallInv'
    BY <1>27 DEF EnterTrampoline
  <1>28. ASSUME LeaveTrampoline PROVE CallInv'
    BY <1>28 DEF LeaveTrampoline
  <1>29. CASE UNCHANGED vars
    BY <1>29 DEF vars
  <1> QED
    BY <1>1, <1>2, <1>3, <1>4, <1>5, <1>6, <1>7, <1>8, <1>9, <1>10, <1>11, <1>12, <1>13,
       <1>14, <1>15, <1>16, <1>17, <1>18, <1>19, <1>20, <1>21, <1>22, <1>23, <1>24,
       <1>25, <1>26, <1>27, <1>28, <1>29
       DEF Next, BootStep, IpcStep, GameStep

-----------------------------------------------------------------------------
(* The theorems.                                                           *)

\* The invariant holds before the launch, whatever build of the game it meets.
LEMMA InvariantInit == ASSUME Init PROVE IInv
  <1>1. TypeOK
    <2>1. ThreadTypes /\ FlagTypes
      BY DEF Init, ThreadTypes, FlagTypes, LauncherPCs, BootPCs, IpcPCs, GamePCs
    <2>2. target \in [Hooks -> {"original", "mismatch", "jump", "torn"}]
      <3>1. target \in [Hooks -> {"original", "mismatch"}]
        BY DEF Init
      <3> QED
        BY <3>1
    <2>3. HookTypes
      BY <2>2 DEF Init, HookTypes
    <2>4. IndexTypes
      BY OrderIndices DEF Init, IndexTypes
    <2> QED
      BY <2>1, <2>3, <2>4 DEF TypeOK
  <1>2. LaunchInv /\ ShutdownInv /\ BootWorkInv /\ IpcWorkInv /\ OutcomeInv /\ CallInv
    BY OrderFacts DEF Init, LaunchInv, ShutdownInv, BootWorkInv, IpcWorkInv, OutcomeInv, CallInv
  <1>3. ReachedInv /\ HookConsistent /\ GoneInv
    BY OrderFacts DEF Init, ReachedInv, HookConsistent, GoneInv
  <1> QED
    BY <1>1, <1>2, <1>3 DEF IInv

\* Bootstrap, shutdown and calls keep out of each other's hooks (BootstrapMain,
\* UninstallAll and the replacements, which share no lock).
THEOREM Invariant == Spec => []IInv
  <1>1. ASSUME IInv, [Next]_vars PROVE IInv'
    BY <1>1, TypeStep, LaunchStep, ShutdownStep, ReachedStep, BootWorkStep, IpcWorkStep, ConsistentStep,
       OutcomeStep, GoneStep, CallStep DEF IInv
  <1> QED
    BY <1>1, InvariantInit, PTL DEF Spec

\* However InstallHook and UninstallAll interleave, a hook that neither of them
\* is at has its jump, trampoline, original pointer and flag in agreement.
THEOREM HooksConsistent == Spec => []HookConsistent
  <1>1. ASSUME IInv PROVE HookConsistent
    BY <1>1 DEF IInv
  <1> QED
    BY <1>1, Invariant, PTL

\* Until a shutdown command, no call of the game goes wrong: the main thread is
\* resumed only behind the ready event (LaunchInjectedProcess), which
\* BootstrapMain sets after the last patch.
THEOREM InstallUnseen == Spec => []GameNeverSeesInstall
  <1>1. ASSUME IInv PROVE GameNeverSeesInstall
    BY <1>1 DEF IInv, CallInv, GameNeverSeesInstall
  <1> QED
    BY <1>1, Invariant, PTL

\* The bootstrap_ready a client reads is true of every required hook, until a
\* shutdown command.
THEOREM ReadyIsHooked == Spec => []ReadyMeansHooked
  <1>1. ASSUME IInv PROVE ReadyMeansHooked
    <2> SUFFICES ASSUME bootstrapReady, ~shutdown, NEW h \in Required
                 PROVE  installed[h] /\ status[h]
      BY DEF ReadyMeansHooked
    <2>1. PICK i \in DOMAIN Order : Order[i] = h
      BY OrderFacts, HookAssumption
    <2>2. bootAt > Len(Order)
      BY <1>1 DEF IInv, OutcomeInv
    <2>3. i < bootAt
      BY <1>1, <2>2, OrderFacts DEF IInv, TypeOK, ThreadTypes, IndexTypes
    <2> QED
      BY <1>1, <2>1, <2>3 DEF IInv, OutcomeInv
  <1> QED
    BY <1>1, Invariant, PTL

\* A shutdown command after the bootstrap takes every hook out (UninstallAll).
THEOREM ShutdownIsComplete == Spec => []ShutdownRestores
  <1>1. ASSUME IInv PROVE ShutdownRestores
    <2> SUFFICES ASSUME shutdown, ~early, ipc = "stopped", NEW h \in Hooks
                 PROVE  ~status[h] /\ (target[h] \in {"original", "mismatch"} \/ h \in unrestored)
      BY DEF ShutdownRestores
    <2>1. PICK i \in DOMAIN Order : Order[i] = h
      BY OrderFacts
    <2>2. i < ipcAt
      BY <1>1, OrderFacts DEF IInv, ShutdownInv, TypeOK, IndexTypes
    <2>3. ~installed[h]
      BY <1>1, <2>1, <2>2 DEF IInv, GoneInv
    <2>4. ~BusyWith(h)
      BY <1>1 DEF IInv, ShutdownInv, BusyWith
    <2> QED
      BY <1>1, <2>3, <2>4 DEF IInv, GoneInv, HookConsistent
  <1> QED
    BY <1>1, Invariant, PTL

\* The two together: what status reports about the hooks, from the bootstrap to the
\* end of the runtime.
THEOREM StatusTellsTruth == Spec => []StatusIsTrue
  BY ReadyIsHooked, ShutdownIsComplete, PTL DEF StatusIsTrue

\* What LaunchInjectedProcess reports of the game and of the runtime is so.
THEOREM LaunchIsReported == Spec => []LaunchReport
  <1>1. ASSUME IInv PROVE LaunchReport
    BY <1>1 DEF IInv, LaunchInv, LaunchReport
  <1> QED
    BY <1>1, Invariant, PTL

-----------------------------------------------------------------------------
(* HookLifecycle implements HookService under the mapping of Service: what  *)
(* is hooked is told by the bytes at the function.                          *)

\* What the promise is about stays when its state does.
LEMMA IdleKeeps ==
  ASSUME UNCHANGED <<target, unrestored, bootstrapReady, main, shutdown, early, broken>>,
         Settled' <=> Settled, (ipc' = "stopped") <=> (ipc = "stopped")
  PROVE  UNCHANGED Service!vars
  BY DEF Service!vars, Hooked

\* The launcher lets the game run, or does nothing the promise is about.
LEMMA LauncherServes ==
  ASSUME IInv, LauncherStep PROVE UNCHANGED Service!vars \/ Service!Next
  <1>1. UNCHANGED <<target, unrestored, boot, bootstrapReady, shutdown, early, ipc, broken>>
    BY LauncherFrame DEF bootVars, ipcVars, stateVars, hookVars, gameVars
  <1>2. Hooked' = Hooked /\ (Settled' <=> Settled)
    BY <1>1 DEF Hooked, Settled
  <1>3. CASE (main' = "running") <=> (main = "running")
    BY <1>1, <1>2, <1>3 DEF Service!vars
  <1>4. CASE ~((main' = "running") <=> (main = "running"))
    <2>1. ResumeInjectedProcess /\ launcher = "resume" /\ main' = "running"
      BY <1>4 DEF LauncherStep, CreateGame, ApplyScriptModeOverride, InjectRuntimeDll, LoadReturns,
         LoadTimesOut, OpenReadyEvent, ReadyEventSeen, ReadyTimesOut, ResumeInjectedProcess,
         LauncherGoes, IInv, LaunchInv
    <2>2. Settled
      BY <2>1 DEF Settled, IInv, LaunchInv
    <2>3. Service!Run
      BY <1>1, <1>2, <2>1, <2>2 DEF Service!Run
    <2> QED
      BY <2>3 DEF Service!Next
  <1> QED
    BY <1>3, <1>4

\* The bootstrap hooks a function, or settles, or does nothing of the kind.
LEMMA BootServes ==
  ASSUME IInv, BootStep PROVE UNCHANGED Service!vars \/ Service!Next
  <1>1. UNCHANGED <<unrestored, main, shutdown, early, broken>>
    BY BootFrame DEF gameVars
  <1>2. ASSUME WriteJumpPatch PROVE UNCHANGED Service!vars \/ Service!Next
    <2>1. UNCHANGED <<bootstrapReady, ipc>> /\ boot = "patch" /\ ~Settled /\ ~Settled'
      BY <1>2 DEF WriteJumpPatch, InstallFails, ipcVars, stateVars, Settled
    <2>2. CASE target' = target
      BY <1>1, <2>1, <2>2, IdleKeeps
    <2>3. CASE target' = [target EXCEPT ![Order[bootAt]] = "jump"]
      <3> DEFINE h == Order[bootAt]
      <3>1. h \in Hooks /\ target \in [Hooks -> {"original", "mismatch", "jump", "torn"}]
        BY <2>1, OrderFacts DEF IInv, TypeOK, IndexTypes, HookTypes
      <3>2. Hooked' = Hooked \union {h}
        BY <2>3, <3>1 DEF Hooked
      <3>3. main # "running"
        BY <2>1 DEF IInv, LaunchInv
      <3>4. Settled' = Settled
        BY <2>1 DEF Settled
      <3>5. Service!Hook(h)
        BY <1>1, <2>1, <3>2, <3>3, <3>4 DEF Service!Hook
      <3> QED
        BY <3>1, <3>5 DEF Service!Next
    <2> QED
      BY <1>2, <2>2, <2>3 DEF WriteJumpPatch
  <1>3. ASSUME SetReadyFlags PROVE Service!Next
    <2>1. /\ boot = "flags" /\ boot' = "signal" /\ UNCHANGED <<bootOk, target, ipc, installed>>
          /\ bootstrapReady' = (bootOk = Checks)
      BY <1>3 DEF SetReadyFlags, ipcVars, hookVars
    <2>2. ~Settled /\ Settled' /\ Hooked' = Hooked
      BY <2>1 DEF Settled, Hooked
    <2>3. bootstrapReady' => Required \subseteq Hooked \/ shutdown
      <3> SUFFICES ASSUME bootOk = Checks, ~shutdown, NEW h \in Required PROVE h \in Hooked
        BY <2>1
      <3>1. "hooks" \in bootOk
        BY DEF Checks
      <3>2. PICK i \in DOMAIN Order : Order[i] = h
        BY OrderFacts, HookAssumption
      <3>3. bootAt > Len(Order)
        BY <3>1 DEF IInv, OutcomeInv
      <3>4. i < bootAt
        BY <3>3, OrderFacts DEF IInv, TypeOK, IndexTypes
      <3>5. installed[h]
        BY <3>2, <3>4 DEF IInv, OutcomeInv
      <3>6. ~BusyWith(h)
        BY <2>1 DEF IInv, ShutdownInv, BusyWith
      <3>7. h \in Hooks
        BY HookAssumption
      <3> QED
        BY <3>5, <3>6, <3>7 DEF IInv, HookConsistent, Hooked
    <2>4. bootstrapReady' \in BOOLEAN
      BY <2>1
    <2>5. Service!Settle(bootstrapReady')
      BY <1>1, <2>1, <2>2, <2>3 DEF Service!Settle
    <2> QED
      BY <2>4, <2>5 DEF Service!Next
  <1>4. ASSUME ~WriteJumpPatch, ~SetReadyFlags PROVE UNCHANGED Service!vars
    <2>1. UNCHANGED <<target, bootstrapReady>>
      BY <1>4 DEF BootStep, DllAttach, LoadFails, Prepare, StartIpcServer, SetPipeReady, PrepareHook,
         SetOriginalTrampoline, SetHookInstalled, InstallDone, ApplyCameraPatch, SignalReadyEvent,
         CloseReadyEvent, stateVars, hookVars
    <2>2. Settled' <=> Settled
      BY <1>4 DEF BootStep, DllAttach, LoadFails, Prepare, StartIpcServer, SetPipeReady, PrepareHook,
         SetOriginalTrampoline, SetHookInstalled, InstallDone, ApplyCameraPatch, SignalReadyEvent,
         CloseReadyEvent, InstallFails, Settled, bootVars, IInv, LaunchInv
    <2>3. (ipc' = "stopped") <=> (ipc = "stopped")
      BY <1>4 DEF BootStep, DllAttach, LoadFails, Prepare, StartIpcServer, SetPipeReady, PrepareHook,
         SetOriginalTrampoline, SetHookInstalled, InstallDone, ApplyCameraPatch, SignalReadyEvent,
         CloseReadyEvent, ipcVars, IInv, ShutdownInv
    <2> QED
      BY <1>1, <2>1, <2>2, <2>3, IdleKeeps
  <1> QED
    BY <1>2, <1>3, <1>4

\* The shutdown takes the jumps out, or leaves those it cannot.
LEMMA IpcServes ==
  ASSUME IInv, IpcStep PROVE UNCHANGED Service!vars \/ Service!Next
  <1>1. UNCHANGED <<main, boot, bootstrapReady, broken>>
    BY IpcFrame DEF launchVars, bootVars, gameVars
  <1>2. Settled' <=> Settled
    BY <1>1 DEF Settled
  <1>3. ASSUME ServerFails PROVE UNCHANGED Service!vars
    <2>1. UNCHANGED <<target, unrestored, shutdown, early>> /\ ipc = "serving"
      BY <1>3 DEF ServerFails, hookVars
    <2>2. ~shutdown
      BY <2>1 DEF IInv, ShutdownInv
    <2>3. Hooked' = Hooked
      BY <2>1 DEF Hooked
    <2> QED
      BY <1>1, <1>2, <2>1, <2>2, <2>3 DEF Service!vars
  <1>4. ASSUME ShutdownCommand PROVE Service!Next
    <2>1. /\ UNCHANGED <<target, unrestored>> /\ ipc = "serving" /\ ipc' = "uninstall"
          /\ shutdown' = TRUE /\ early' = (boot # "done")
      BY <1>4 DEF ShutdownCommand, hookVars
    <2>2. ~shutdown
      BY <2>1 DEF IInv, ShutdownInv
    <2>3. Hooked' = Hooked
      BY <2>1 DEF Hooked
    <2>4. ~early' => Settled
      BY <2>1 DEF Settled
    <2> DEFINE a == shutdown' /\ ~early'
    <2>5. a \in BOOLEAN
      OBVIOUS
    <2>6. Service!Stop(a)
      BY <1>1, <1>2, <2>1, <2>2, <2>3, <2>4 DEF Service!Stop
    <2> QED
      BY <2>5, <2>6 DEF Service!Next
  <1>5. ASSUME ipc \in {"restore", "tear", "free", "unlink", "clear"},
               RestoreBytes \/ BytesRestored \/ FreeTrampoline \/ ClearOriginal \/ ClearInstalled
        PROVE  UNCHANGED Service!vars \/ Service!Next
    <2> DEFINE h == Order[ipcAt]
    <2>1. /\ h \in Hooks /\ shutdown /\ UNCHANGED <<shutdown, early>>
          /\ ipc # "stopped" /\ ipc' # "stopped"
          /\ target \in [Hooks -> {"original", "mismatch", "jump", "torn"}]
      BY <1>5, OrderFacts DEF IInv, TypeOK, IndexTypes, HookTypes, ShutdownInv, stateVars,
         RestoreBytes, BytesRestored, FreeTrampoline, ClearOriginal, ClearInstalled
    <2>2. CASE RestoreBytes
      <3>1. target[h] = "jump"
        BY <2>2 DEF RestoreBytes, IInv, IpcWorkInv
      <3>2. CASE target' = [target EXCEPT ![h] = "torn"] /\ UNCHANGED unrestored
        <4>1. Hooked' = Hooked
          BY <2>1, <3>1, <3>2 DEF Hooked
        <4> QED
          BY <1>1, <1>2, <2>1, <3>2, <4>1 DEF Service!vars
      <3>3. CASE unrestored' = unrestored \union {h} /\ UNCHANGED target
        <4>1. Hooked' = Hooked
          BY <3>3 DEF Hooked
        <4>2. Service!Stick(h)
          BY <1>1, <1>2, <2>1, <3>3, <4>1 DEF Service!Stick
        <4> QED
          BY <2>1, <4>2 DEF Service!Next
      <3> QED
        BY <2>2, <3>2, <3>3 DEF RestoreBytes
    <2>3. CASE BytesRestored
      <3>1. target' = [target EXCEPT ![h] = "original"] /\ UNCHANGED unrestored
        BY <2>3 DEF BytesRestored
      <3>2. Hooked' = Hooked \ {h}
        BY <2>1, <3>1 DEF Hooked
      <3>3. Service!Unhook(h)
        BY <1>1, <1>2, <2>1, <3>1, <3>2 DEF Service!Unhook
      <3> QED
        BY <2>1, <3>3 DEF Service!Next
    <2>4. CASE FreeTrampoline \/ ClearOriginal \/ ClearInstalled
      <3>1. UNCHANGED <<target, unrestored>>
        BY <2>4 DEF FreeTrampoline, ClearOriginal, ClearInstalled
      <3> QED
        BY <1>1, <1>2, <2>1, <3>1, IdleKeeps
    <2> QED
      BY <1>5, <2>2, <2>3, <2>4
  <1>6. ASSUME UninstallNext PROVE UNCHANGED Service!vars
    <2>1. UNCHANGED <<target, unrestored, shutdown, early>> /\ ipc # "stopped" /\ ipc' # "stopped"
      BY <1>6 DEF UninstallNext, hookVars, stateVars
    <2> QED
      BY <1>1, <1>2, <2>1, IdleKeeps
  <1>7. ASSUME ServerEnds PROVE Service!Next
    <2>1. /\ UNCHANGED <<target, unrestored, shutdown, early>> /\ ipc = "uninstall" /\ ipc' = "stopped"
          /\ ipcAt > Len(Order)
      BY <1>7 DEF ServerEnds, hookVars
    <2>2. shutdown
      BY <2>1 DEF IInv, ShutdownInv
    <2>3. Hooked' = Hooked
      BY <2>1 DEF Hooked
    <2>4. ~early => Hooked \subseteq unrestored
      <3> SUFFICES ASSUME ~early, NEW h \in Hooks, target[h] \in {"jump", "torn"} PROVE h \in unrestored
        BY DEF Hooked
      <3>1. PICK i \in DOMAIN Order : Order[i] = h
        BY OrderFacts
      <3>2. i < ipcAt
        BY <2>1, OrderFacts DEF IInv, TypeOK, IndexTypes
      <3>3. ~installed[h]
        BY <2>2, <3>1, <3>2 DEF IInv, GoneInv
      <3>4. ~BusyWith(h)
        BY <2>1, <2>2 DEF IInv, ShutdownInv, BusyWith
      <3> QED
        BY <3>3, <3>4 DEF IInv, HookConsistent
    <2>5. Service!Finish
      BY <1>1, <1>2, <2>1, <2>2, <2>3, <2>4 DEF Service!Finish
    <2> QED
      BY <2>5 DEF Service!Next
  <1>8. RestoreBytes \/ BytesRestored \/ FreeTrampoline \/ ClearOriginal \/ ClearInstalled
        => ipc \in {"restore", "tear", "free", "unlink", "clear"}
    BY DEF RestoreBytes, BytesRestored, FreeTrampoline, ClearOriginal, ClearInstalled
  <1> QED
    BY <1>3, <1>4, <1>5, <1>6, <1>7, <1>8 DEF IpcStep

\* The game loses a call only behind a shutdown.
LEMMA GameServes ==
  ASSUME IInv, IInv', GameStep PROVE UNCHANGED Service!vars \/ Service!Next
  <1>1. UNCHANGED <<target, unrestored, boot, bootstrapReady, main, shutdown, early, ipc>>
    BY GameFrame DEF launchVars, bootVars, ipcVars, stateVars, hookVars
  <1>2. Hooked' = Hooked /\ (Settled' <=> Settled)
    BY <1>1 DEF Hooked, Settled
  <1>3. broken \in BOOLEAN /\ broken' \in BOOLEAN /\ (broken => broken')
    BY DEF IInv, TypeOK, FlagTypes, GameStep, CallHooked, ReadOriginal, EnterTrampoline, LeaveTrampoline
  <1>4. CASE broken' = broken
    BY <1>1, <1>2, <1>4 DEF Service!vars
  <1>5. CASE broken' # broken
    <2>1. broken' = TRUE
      BY <1>3, <1>5
    <2>2. shutdown
      BY <1>1, <2>1 DEF IInv, CallInv
    <2>3. main = "running"
      BY DEF GameStep, CallHooked, ReadOriginal, EnterTrampoline, LeaveTrampoline, IInv, LaunchInv
    <2>4. Service!Lose
      BY <1>1, <1>2, <2>1, <2>2, <2>3 DEF Service!Lose
    <2> QED
      BY <2>4 DEF Service!Next
  <1> QED
    BY <1>4, <1>5

\* However launcher, bootstrap, shutdown and game interleave, the hooks are
\* what HookService promises: they come before the game runs, go behind a
\* shutdown, and are all there when bootstrap_ready says so.
THEOREM Refinement == Spec => HooksServe
  <1>1. ASSUME Init PROVE Service!Init
    BY <1>1 DEF Init, Service!Init, Hooked, Settled
  <1>2. ASSUME IInv, IInv', [Next]_vars PROVE [Service!Next]_(Service!vars)
    <2>1. CASE UNCHANGED vars
      <3>1. UNCHANGED <<target, unrestored, boot, bootstrapReady, main, shutdown, early, ipc, broken>>
        BY <2>1 DEF vars, launchVars, bootVars, ipcVars, stateVars, hookVars, gameVars
      <3>2. Settled' <=> Settled
        BY <3>1 DEF Settled
      <3> QED
        BY <3>1, <3>2, IdleKeeps
    <2> QED
      BY <1>2, <2>1, LauncherServes, BootServes, IpcServes, GameServes DEF Next
  <1> QED
    BY <1>1, <1>2, Invariant, PTL DEF Spec, HooksServe, Service!Spec

=============================================================================
