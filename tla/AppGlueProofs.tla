--------------------------- MODULE AppGlueProofs ---------------------------
(***************************************************************************)
(* Proofs about AppGlue, for every set of windows, queues and states, and  *)
(* every pipe capacity.                                                    *)
(***************************************************************************)
EXTENDS AppGlue, TLAPS

USE ConstantsAssumption
USE DEF heapVars, syncVars, callVars, liveVars, sysVars

-----------------------------------------------------------------------------
(* The inductive invariant, in named parts.                                *)

\* Which callback Main can be in at each point of its code.
ControlOK ==
  /\ mainPC \in {"off", "idle", "crashed"} => callback = NULL
  /\ mainPC = "post" => callback \in AsyncCmds
  /\ mainPC \in {"term", "offer"} => callback = "WINDOW"
  /\ mainPC \in {"lock", "write", "check"} => callback \in Calls \ (AsyncCmds \cup {"CREATE"})
  /\ mainPC = "wait" => callback \in Calls \ AsyncCmds
  /\ mainPC = "close" => callback = "DESTROY"

\* Who may hold a pointer to android_app: App reports destroyed as its last
\* access, and Main frees the block only after it has seen that.
LifetimeOK ==
  /\ mainPC \in {"lock", "term", "offer", "write", "post", "check", "wait", "close"}
       => object = "live"
  /\ mainPC = "off" => appPC = "off" /\ object # "live"
  /\ mainPC = "idle" => object # "freed"
  /\ appPC # "off" => object = "live"
  /\ mainPC = "close" => app.destroyed
  /\ object = "live" => (app.destroyed <=> appPC = "off")

\* Every window either thread knows of exists; a callback that waits waits for
\* the window it brought.
WindowOK ==
  /\ app.window \in liveWindows \cup {NULL}
  /\ app.pendingWindow \in liveWindows \cup {NULL}
  /\ callback = "WINDOW" =>
       /\ arg \in liveWindows \cup {NULL}
       /\ mainPC \in {"write", "check", "wait"} => app.pendingWindow = arg

\* The same for input queues; the looper watches at most inputQueue, and
\* nothing once App has ended.
QueueOK ==
  /\ app.inputQueue \in liveQueues \cup {NULL}
  /\ app.pendingInputQueue \in liveQueues \cup {NULL}
  /\ callback = "INPUT" =>
       /\ arg \in liveQueues \cup {NULL}
       /\ mainPC \in {"write", "check", "wait"} => app.pendingInputQueue = arg
  /\ attached \subseteq {app.inputQueue}
  /\ appPC = "off" => attached = {}
  /\ appPC = "input" => app.inputQueue # NULL

\* One block exactly when savedState points to it; none before the handler of
\* SAVE_STATE stores one, and none once App has begun to end.
SavedStateOK ==
  /\ object = "live" => blocks = IF app.savedState = NULL THEN 0 ELSE 1
  /\ object = "freed" => blocks = 0
  /\ mainPC = "off" => blocks = 0
  /\ appPC \in {"pre", "exec"} /\ cmd = "SAVE_STATE" => app.savedState = NULL
  /\ appPC = "destroyed" => app.savedState = NULL
  /\ object = "live" /\ app.destroyed => app.savedState = NULL

\* Neither NoUseAfterFree nor the handle invariants are inductive alone: they
\* need to know which callback waits for what, and what App has dropped.
IInv == TypeOK /\ ControlOK /\ LifetimeOK /\ WindowOK /\ QueueOK /\ SavedStateOK

-----------------------------------------------------------------------------
\* A field update keeps the struct well typed.
LEMMA AppFields ==
  ASSUME NEW a \in AppRecords
  PROVE  /\ \A w \in Windows \cup {NULL} :
              /\ [a EXCEPT !.window = w] \in AppRecords
              /\ [a EXCEPT !.pendingWindow = w] \in AppRecords
         /\ \A q \in Queues \cup {NULL} :
              /\ [a EXCEPT !.inputQueue = q] \in AppRecords
              /\ [a EXCEPT !.pendingInputQueue = q] \in AppRecords
         /\ \A c \in LifeCmds : [a EXCEPT !.activityState = c] \in AppRecords
         /\ \A d \in Data \cup {NULL} : [a EXCEPT !.savedState = d] \in AppRecords
         /\ \A b \in BOOLEAN :
              /\ [a EXCEPT !.stateSaved = b] \in AppRecords
              /\ [a EXCEPT !.running = b] \in AppRecords
              /\ [a EXCEPT !.destroyed = b] \in AppRecords
              /\ [a EXCEPT !.destroyRequested = b] \in AppRecords
  BY DEF AppRecords

-----------------------------------------------------------------------------
LEMMA InitIInv == Init => IInv
<1> SUFFICES ASSUME Init PROVE IInv OBVIOUS
<1>1. app \in AppRecords BY DEF Init, AppRecords, ZeroApp
<1>2. pipe \in Seq(Cmds) BY DEF Init
<1>3. signalled \in BOOLEAN BY DEF Init
<1>4. SharedType BY <1>2, <1>3 DEF Init, SharedType
<1>5. ThreadType BY DEF Init, ThreadType, MainPCs, AppPCs
<1>6. SystemType BY DEF Init, SystemType
<1>7. ControlOK /\ LifetimeOK BY DEF Init, ControlOK, LifetimeOK
<1>8. WindowOK /\ QueueOK BY DEF Init, WindowOK, QueueOK, ZeroApp
<1>9. SavedStateOK BY DEF Init, SavedStateOK
<1> QED BY <1>1, <1>4, <1>5, <1>6, <1>7, <1>8, <1>9 DEF IInv, TypeOK

\* Every action keeps the types.
LEMMA TypeStep == IInv /\ [Next]_vars => TypeOK'
<1> SUFFICES ASSUME IInv, [Next]_vars PROVE TypeOK' OBVIOUS
<1> USE DEF IInv, TypeOK
<1>1. CASE android_app_create
  <2>1. app' \in AppRecords
    BY <1>1 DEF android_app_create, AppRecords, ZeroApp, SystemType
  <2>2. pipe' \in Seq(Cmds) BY <1>1 DEF android_app_create
  <2>3. signalled' \in BOOLEAN BY <1>1 DEF android_app_create
  <2>4. SharedType' BY <1>1, <2>2, <2>3 DEF android_app_create, SharedType
  <2>5. ThreadType'
    BY <1>1 DEF android_app_create, ThreadType, ControlOK, MainPCs, AppPCs, Calls
  <2>6. SystemType' BY <1>1 DEF android_app_create, SystemType
  <2> QED BY <2>1, <2>4, <2>5, <2>6
<1>2. CASE android_app_create_fails
  BY <1>2 DEF android_app_create_fails, SharedType, ThreadType, SystemType, AppRecords,
     ControlOK, Calls,
     LifeCmds, Cmds, SyncCmds, MainPCs, AppPCs
<1>3. CASE onStart
  BY <1>3 DEF onStart, Enter, SharedType, ThreadType, SystemType, AppRecords, ControlOK, Calls,
     LifeCmds, Cmds, SyncCmds, MainPCs, AppPCs
<1>4. CASE onResume
  BY <1>4 DEF onResume, Enter, SharedType, ThreadType, SystemType, AppRecords, ControlOK,
     Calls,
     LifeCmds, Cmds, SyncCmds, MainPCs, AppPCs
<1>5. CASE onPause
  BY <1>5 DEF onPause, Enter, SharedType, ThreadType, SystemType, AppRecords, ControlOK, Calls,
     LifeCmds, Cmds, SyncCmds, MainPCs, AppPCs
<1>6. CASE onStop
  BY <1>6 DEF onStop, Enter, SharedType, ThreadType, SystemType, AppRecords, ControlOK, Calls,
     LifeCmds, Cmds, SyncCmds, MainPCs, AppPCs
<1>7. CASE onSaveInstanceState
  BY <1>7 DEF onSaveInstanceState, Enter, SharedType, ThreadType, SystemType, AppRecords,
     ControlOK, Calls,
     LifeCmds, Cmds, SyncCmds, MainPCs, AppPCs
<1>8. CASE onDestroy
  BY <1>8 DEF onDestroy, Enter, SharedType, ThreadType, SystemType, AppRecords, ControlOK,
     Calls,
     LifeCmds, Cmds, SyncCmds, MainPCs, AppPCs
<1>9. CASE onNativeWindowCreated
  BY <1>9 DEF onNativeWindowCreated, Enter, SharedType, ThreadType, SystemType, AppRecords,
     ControlOK, Calls,
     LifeCmds, Cmds, SyncCmds, MainPCs, AppPCs
<1>10. CASE onNativeWindowDestroyed
  BY <1>10 DEF onNativeWindowDestroyed, Enter, SharedType, ThreadType, SystemType,
     AppRecords, ControlOK, Calls,
     LifeCmds, Cmds, SyncCmds, MainPCs, AppPCs
<1>11. CASE onInputQueueCreated
  BY <1>11 DEF onInputQueueCreated, Enter, SharedType, ThreadType, SystemType, AppRecords,
     ControlOK, Calls,
     LifeCmds, Cmds, SyncCmds, MainPCs, AppPCs
<1>12. CASE onInputQueueDestroyed
  BY <1>12 DEF onInputQueueDestroyed, Enter, SharedType, ThreadType, SystemType, AppRecords,
     ControlOK, Calls,
     LifeCmds, Cmds, SyncCmds, MainPCs, AppPCs
<1>13. CASE onAsyncEvent
  BY <1>13 DEF onAsyncEvent, Enter, SharedType, ThreadType, SystemType, AppRecords,
     ControlOK, Calls,
     LifeCmds, Cmds, SyncCmds, MainPCs, AppPCs
<1>14. CASE NullInstanceCallback
  BY <1>14 DEF NullInstanceCallback, SharedType, ThreadType, SystemType, AppRecords,
     ControlOK, Calls,
     LifeCmds, Cmds, SyncCmds, MainPCs, AppPCs
<1>15. CASE MainLock
  <2>1. app' \in AppRecords
    BY <1>15 DEF MainLock, Prepared, AppRecords, ZeroApp, ThreadType, SystemType, LifeCmds
  <2>2. SharedType' BY <1>15 DEF MainLock, Prepared, SharedType, AppRecords
  <2>3. ThreadType' BY <1>15 DEF MainLock, Prepared, ThreadType, MainPCs, AppPCs, Calls
  <2>4. SystemType' BY <1>15 DEF MainLock, Prepared, SystemType
  <2> QED BY <2>1, <2>2, <2>3, <2>4
<1>16. CASE MainWriteTerm
  BY <1>16 DEF MainWriteTerm, android_app_write_cmd, SharedType, ThreadType, SystemType,
     AppRecords, ControlOK, Calls,
     LifeCmds, Cmds, SyncCmds, MainPCs, AppPCs
<1>17. CASE MainOfferWindow
  BY <1>17 DEF MainOfferWindow, SharedType, ThreadType, SystemType, AppRecords, ControlOK,
     Calls,
     LifeCmds, Cmds, SyncCmds, MainPCs, AppPCs
<1>18. CASE MainWrite
  BY <1>18 DEF MainWrite, android_app_write_cmd, CommandOf, SharedType, ThreadType,
     SystemType, AppRecords, ControlOK, Calls,
     LifeCmds, Cmds, SyncCmds, MainPCs, AppPCs
<1>19. CASE MainPost
  BY <1>19 DEF MainPost, android_app_write_cmd, SharedType, ThreadType, SystemType,
     AppRecords, ControlOK, Calls,
     LifeCmds, Cmds, SyncCmds, MainPCs, AppPCs
<1>20. CASE MainFree
  BY <1>20 DEF MainFree, SharedType, ThreadType, SystemType, AppRecords, ControlOK, Calls,
     LifeCmds, Cmds, SyncCmds, MainPCs, AppPCs
<1>21. CASE SpuriousWakeup
  BY <1>21 DEF SpuriousWakeup, SharedType, ThreadType, SystemType, AppRecords, ControlOK,
     Calls,
     LifeCmds, Cmds, SyncCmds, MainPCs, AppPCs
<1>22. CASE android_app_entry
  <2>1. app' \in AppRecords
    BY <1>22 DEF android_app_entry, Broadcast, AppRecords, ZeroApp, ThreadType, SystemType,
       LifeCmds
  <2>2. SharedType' BY <1>22 DEF android_app_entry, Broadcast, SharedType, AppRecords
  <2>3. ThreadType'
    BY <1>22 DEF android_app_entry, Broadcast, ThreadType, MainPCs, AppPCs, Calls
  <2>4. SystemType' BY <1>22 DEF android_app_entry, Broadcast, SystemType
  <2> QED BY <2>1, <2>2, <2>3, <2>4
<1>23. CASE android_main_returns
  BY <1>23 DEF android_main_returns, SharedType, ThreadType, SystemType, AppRecords,
     ControlOK, Calls,
     LifeCmds, Cmds, SyncCmds, MainPCs, AppPCs
<1>24. CASE android_app_read_cmd
  BY <1>24 DEF android_app_read_cmd, Polling, SharedType, ThreadType, SystemType,
     AppRecords, ControlOK, Calls,
     LifeCmds, Cmds, SyncCmds, MainPCs, AppPCs
<1>25. CASE ReadCmdDiscard
  BY <1>25 DEF ReadCmdDiscard, free_saved_state, SharedType, ThreadType, SystemType,
     AppRecords, ControlOK, Calls,
     LifeCmds, Cmds, SyncCmds, MainPCs, AppPCs
<1>26. CASE android_app_pre_exec_cmd
  <2> USE <1>26 DEF android_app_pre_exec_cmd
  <2>1. CASE PreInputChanged
    <3>1. app' \in AppRecords BY <2>1, AppFields DEF PreInputChanged, AppRecords
    <3>2. attached' \in SUBSET Queues
      BY <2>1 DEF PreInputChanged, Attach, SharedType, AppRecords
    <3> QED
      BY <2>1, <3>1, <3>2 DEF PreInputChanged, Broadcast, SharedType, ThreadType, SystemType,
               AppPCs
  <2>2. CASE PreInitWindow
    <3>1. app' \in AppRecords BY <2>2, AppFields DEF PreInitWindow, AppRecords
    <3> QED
      BY <2>2, <3>1 DEF PreInitWindow, Broadcast, SharedType, ThreadType, SystemType, AppPCs
  <2>3. CASE PreTermWindow
    BY <2>3 DEF PreTermWindow, Broadcast, SharedType, ThreadType, SystemType, AppPCs
  <2>4. CASE PreLifecycle
    <3>1. app' \in AppRecords BY <2>4, AppFields DEF PreLifecycle
    <3> QED
      BY <2>4, <3>1 DEF PreLifecycle, Broadcast, SharedType, ThreadType, SystemType, AppPCs
  <2>5. CASE PreDestroy
    <3>1. app' \in AppRecords BY <2>5, AppFields DEF PreDestroy
    <3> QED BY <2>5, <3>1 DEF PreDestroy, SharedType, ThreadType, SystemType, AppPCs
  <2>6. CASE PreOther
    BY <2>6 DEF PreOther, SharedType, ThreadType, SystemType, AppPCs
  <2> QED BY <2>1, <2>2, <2>3, <2>4, <2>5, <2>6
<1>27. CASE onAppCmd
  BY <1>27 DEF onAppCmd, SharedType, ThreadType, SystemType, AppRecords, ControlOK, Calls,
     LifeCmds, Cmds, SyncCmds, MainPCs, AppPCs
<1>28. CASE android_app_post_exec_cmd
  <2> USE <1>28 DEF android_app_post_exec_cmd
  <2>1. CASE PostTermWindow
    <3>1. app' \in AppRecords BY <2>1, AppFields DEF PostTermWindow
    <3> QED
      BY <2>1, <3>1 DEF PostTermWindow, Broadcast, SharedType, ThreadType, SystemType, AppPCs
  <2>2. CASE PostSaveState
    <3>1. app' \in AppRecords BY <2>2, AppFields DEF PostSaveState
    <3> QED
      BY <2>2, <3>1 DEF PostSaveState, Broadcast, SharedType, ThreadType, SystemType, AppPCs
  <2>3. CASE PostResume
    <3>1. app' \in AppRecords BY <2>3, AppFields DEF PostResume, free_saved_state
    <3> QED BY <2>3, <3>1 DEF PostResume, free_saved_state, SharedType, ThreadType, SystemType,
               AppPCs
  <2>4. CASE PostOther
    BY <2>4 DEF PostOther, SharedType, ThreadType, SystemType, AppPCs
  <2> QED BY <2>1, <2>2, <2>3, <2>4
<1>29. CASE process_input
  BY <1>29 DEF process_input, Polling, SharedType, ThreadType, SystemType, AppRecords,
     ControlOK, Calls,
     LifeCmds, Cmds, SyncCmds, MainPCs, AppPCs
<1>30. CASE process_input_done
  BY <1>30 DEF process_input_done, SharedType, ThreadType, SystemType, AppRecords,
     ControlOK, Calls,
     LifeCmds, Cmds, SyncCmds, MainPCs, AppPCs
<1>31. CASE DestroyDiscard
  BY <1>31 DEF DestroyDiscard, free_saved_state, SharedType, ThreadType, SystemType,
     AppRecords, ControlOK, Calls,
     LifeCmds, Cmds, SyncCmds, MainPCs, AppPCs
<1>32. CASE android_app_destroy
  <2>1. app' \in AppRecords
    BY <1>32 DEF android_app_destroy, Broadcast, AppRecords, ZeroApp, ThreadType,
       SystemType, LifeCmds
  <2>2. SharedType' BY <1>32 DEF android_app_destroy, Broadcast, SharedType, AppRecords
  <2>3. ThreadType'
    BY <1>32 DEF android_app_destroy, Broadcast, ThreadType, MainPCs, AppPCs, Calls
  <2>4. SystemType' BY <1>32 DEF android_app_destroy, Broadcast, SystemType
  <2> QED BY <2>1, <2>2, <2>3, <2>4
<1>33. CASE mainPC \in {"check", "wait"} /\ MainReturn
  <2>1. app' \in AppRecords BY <1>33 DEF MainReturn, AppRecords
  <2>2. SharedType' BY <1>33 DEF MainReturn, SharedType, AppRecords
  <2>3. ThreadType' BY <1>33 DEF MainReturn, ThreadType, MainPCs, Calls
  <2>4. SystemType' BY <1>33 DEF MainReturn, SystemType, ThreadType, AppRecords
  <2> QED BY <2>1, <2>2, <2>3, <2>4
<1>34. CASE MainWait
  BY <1>34 DEF MainWait, SharedType, ThreadType, SystemType, MainPCs
<1>35. CASE MainCheck \/ MainWake
  BY <1>33, <1>34, <1>35 DEF MainCheck, MainWake
<1>36. CASE UNCHANGED vars
  BY <1>36 DEF vars, SharedType, ThreadType, SystemType
<1> QED
  BY <1>1, <1>2, <1>3, <1>4, <1>5, <1>6, <1>7, <1>8, <1>9, <1>10, <1>11, <1>12, <1>13,
     <1>14, <1>15, <1>16, <1>17, <1>18, <1>19, <1>20, <1>21, <1>22, <1>23, <1>24, <1>25,
     <1>26, <1>27, <1>28, <1>29, <1>30, <1>31, <1>32, <1>33, <1>34, <1>35, <1>36 DEF Next,
     Callback, Main, App, Crashed

\* Every action keeps the other parts.
LEMMA PartsStep == IInv /\ [Next]_vars => (ControlOK /\ LifetimeOK /\ WindowOK /\ QueueOK /\
   SavedStateOK)'
<1> SUFFICES ASSUME IInv, [Next]_vars
             PROVE  (ControlOK /\ LifetimeOK /\ WindowOK /\ QueueOK /\ SavedStateOK)'
  OBVIOUS
<1> USE DEF IInv, TypeOK, SharedType, ThreadType, SystemType, AppRecords, Calls, LifeCmds
<1>1. CASE android_app_create
  <2>1. (ControlOK /\ LifetimeOK)'
    BY <1>1 DEF android_app_create, ZeroApp, ControlOK, LifetimeOK
  <2>2. (WindowOK /\ QueueOK /\ SavedStateOK)'
    BY <1>1 DEF android_app_create, ZeroApp, ControlOK, LifetimeOK, WindowOK, QueueOK,
       SavedStateOK
  <2> QED BY <2>1, <2>2
<1>2. CASE android_app_create_fails
  <2>1. (ControlOK /\ LifetimeOK)'
    BY <1>2 DEF android_app_create_fails, ControlOK, LifetimeOK
  <2>2. (WindowOK /\ QueueOK /\ SavedStateOK)'
    BY <1>2 DEF android_app_create_fails, ControlOK, LifetimeOK, WindowOK, QueueOK,
       SavedStateOK
  <2> QED BY <2>1, <2>2
<1>3. CASE onStart
  <2>1. (ControlOK /\ LifetimeOK)'
    BY <1>3 DEF onStart, Enter, ControlOK, LifetimeOK
  <2>2. (WindowOK /\ QueueOK /\ SavedStateOK)'
    BY <1>3 DEF onStart, Enter, ControlOK, LifetimeOK, WindowOK, QueueOK, SavedStateOK
  <2> QED BY <2>1, <2>2
<1>4. CASE onResume
  <2>1. (ControlOK /\ LifetimeOK)'
    BY <1>4 DEF onResume, Enter, ControlOK, LifetimeOK
  <2>2. (WindowOK /\ QueueOK /\ SavedStateOK)'
    BY <1>4 DEF onResume, Enter, ControlOK, LifetimeOK, WindowOK, QueueOK, SavedStateOK
  <2> QED BY <2>1, <2>2
<1>5. CASE onPause
  <2>1. (ControlOK /\ LifetimeOK)'
    BY <1>5 DEF onPause, Enter, ControlOK, LifetimeOK
  <2>2. (WindowOK /\ QueueOK /\ SavedStateOK)'
    BY <1>5 DEF onPause, Enter, ControlOK, LifetimeOK, WindowOK, QueueOK, SavedStateOK
  <2> QED BY <2>1, <2>2
<1>6. CASE onStop
  <2>1. (ControlOK /\ LifetimeOK)'
    BY <1>6 DEF onStop, Enter, ControlOK, LifetimeOK
  <2>2. (WindowOK /\ QueueOK /\ SavedStateOK)'
    BY <1>6 DEF onStop, Enter, ControlOK, LifetimeOK, WindowOK, QueueOK, SavedStateOK
  <2> QED BY <2>1, <2>2
<1>7. CASE onSaveInstanceState
  <2>1. (ControlOK /\ LifetimeOK)'
    BY <1>7 DEF onSaveInstanceState, Enter, ControlOK, LifetimeOK
  <2>2. (WindowOK /\ QueueOK /\ SavedStateOK)'
    BY <1>7 DEF onSaveInstanceState, Enter, ControlOK, LifetimeOK, WindowOK, QueueOK,
       SavedStateOK
  <2> QED BY <2>1, <2>2
<1>8. CASE onDestroy
  <2>1. (ControlOK /\ LifetimeOK)'
    BY <1>8 DEF onDestroy, Enter, ControlOK, LifetimeOK
  <2>2. (WindowOK /\ QueueOK /\ SavedStateOK)'
    BY <1>8 DEF onDestroy, Enter, ControlOK, LifetimeOK, WindowOK, QueueOK, SavedStateOK
  <2> QED BY <2>1, <2>2
<1>9. CASE onNativeWindowCreated
  <2>1. (ControlOK /\ LifetimeOK)'
    BY <1>9 DEF onNativeWindowCreated, Enter, ControlOK, LifetimeOK
  <2>2. (WindowOK /\ QueueOK /\ SavedStateOK)'
    BY <1>9 DEF onNativeWindowCreated, Enter, ControlOK, LifetimeOK, WindowOK, QueueOK,
       SavedStateOK
  <2> QED BY <2>1, <2>2
<1>10. CASE onNativeWindowDestroyed
  <2>1. (ControlOK /\ LifetimeOK)'
    BY <1>10 DEF onNativeWindowDestroyed, Enter, ControlOK, LifetimeOK
  <2>2. (WindowOK /\ QueueOK /\ SavedStateOK)'
    BY <1>10 DEF onNativeWindowDestroyed, Enter, ControlOK, LifetimeOK, WindowOK, QueueOK,
       SavedStateOK
  <2> QED BY <2>1, <2>2
<1>11. CASE onInputQueueCreated
  <2>1. (ControlOK /\ LifetimeOK)'
    BY <1>11 DEF onInputQueueCreated, Enter, ControlOK, LifetimeOK
  <2>2. (WindowOK /\ QueueOK /\ SavedStateOK)'
    BY <1>11 DEF onInputQueueCreated, Enter, ControlOK, LifetimeOK, WindowOK, QueueOK,
       SavedStateOK
  <2> QED BY <2>1, <2>2
<1>12. CASE onInputQueueDestroyed
  <2>1. (ControlOK /\ LifetimeOK)'
    BY <1>12 DEF onInputQueueDestroyed, Enter, ControlOK, LifetimeOK
  <2>2. (WindowOK /\ QueueOK /\ SavedStateOK)'
    BY <1>12 DEF onInputQueueDestroyed, Enter, ControlOK, LifetimeOK, WindowOK, QueueOK,
       SavedStateOK
  <2> QED BY <2>1, <2>2
<1>13. CASE onAsyncEvent
  <2>1. (ControlOK /\ LifetimeOK)'
    BY <1>13 DEF onAsyncEvent, Enter, ControlOK, LifetimeOK
  <2>2. (WindowOK /\ QueueOK /\ SavedStateOK)'
    BY <1>13 DEF onAsyncEvent, Enter, ControlOK, LifetimeOK, WindowOK, QueueOK, SavedStateOK
  <2> QED BY <2>1, <2>2
<1>14. CASE NullInstanceCallback
  <2>1. (ControlOK /\ LifetimeOK)'
    BY <1>14 DEF NullInstanceCallback, ControlOK, LifetimeOK
  <2>2. (WindowOK /\ QueueOK /\ SavedStateOK)'
    BY <1>14 DEF NullInstanceCallback, ControlOK, LifetimeOK, WindowOK, QueueOK, SavedStateOK
  <2> QED BY <2>1, <2>2
<1>15. CASE MainLock
  <2>1. (ControlOK /\ LifetimeOK)'
    BY <1>15 DEF MainLock, Prepared, ControlOK, LifetimeOK
  <2>2. (WindowOK /\ QueueOK /\ SavedStateOK)'
    BY <1>15 DEF MainLock, Prepared, ControlOK, LifetimeOK, WindowOK, QueueOK, SavedStateOK
  <2> QED BY <2>1, <2>2
<1>16. CASE MainWriteTerm
  <2>1. (ControlOK /\ LifetimeOK)'
    BY <1>16 DEF MainWriteTerm, android_app_write_cmd, ControlOK, LifetimeOK
  <2>2. (WindowOK /\ QueueOK /\ SavedStateOK)'
    BY <1>16 DEF MainWriteTerm, android_app_write_cmd, ControlOK, LifetimeOK, WindowOK,
       QueueOK, SavedStateOK
  <2> QED BY <2>1, <2>2
<1>17. CASE MainOfferWindow
  <2>1. (ControlOK /\ LifetimeOK)'
    BY <1>17 DEF MainOfferWindow, ControlOK, LifetimeOK
  <2>2. (WindowOK /\ QueueOK /\ SavedStateOK)'
    BY <1>17 DEF MainOfferWindow, ControlOK, LifetimeOK, WindowOK, QueueOK, SavedStateOK
  <2> QED BY <2>1, <2>2
<1>18. CASE MainWrite
  <2>1. (ControlOK /\ LifetimeOK)'
    BY <1>18 DEF MainWrite, android_app_write_cmd, CommandOf, ControlOK, LifetimeOK
  <2>2. (WindowOK /\ QueueOK /\ SavedStateOK)'
    BY <1>18 DEF MainWrite, android_app_write_cmd, CommandOf, ControlOK, LifetimeOK,
       WindowOK, QueueOK, SavedStateOK
  <2> QED BY <2>1, <2>2
<1>19. CASE MainPost
  <2>1. (ControlOK /\ LifetimeOK)'
    BY <1>19 DEF MainPost, android_app_write_cmd, ControlOK, LifetimeOK
  <2>2. (WindowOK /\ QueueOK /\ SavedStateOK)'
    BY <1>19 DEF MainPost, android_app_write_cmd, ControlOK, LifetimeOK, WindowOK, QueueOK,
       SavedStateOK
  <2> QED BY <2>1, <2>2
<1>20. CASE MainFree
  <2>1. (ControlOK /\ LifetimeOK)'
    BY <1>20 DEF MainFree, ControlOK, LifetimeOK
  <2>2. (WindowOK /\ QueueOK /\ SavedStateOK)'
    BY <1>20 DEF MainFree, ControlOK, LifetimeOK, WindowOK, QueueOK, SavedStateOK
  <2> QED BY <2>1, <2>2
<1>21. CASE SpuriousWakeup
  <2>1. (ControlOK /\ LifetimeOK)'
    BY <1>21 DEF SpuriousWakeup, ControlOK, LifetimeOK
  <2>2. (WindowOK /\ QueueOK /\ SavedStateOK)'
    BY <1>21 DEF SpuriousWakeup, ControlOK, LifetimeOK, WindowOK, QueueOK, SavedStateOK
  <2> QED BY <2>1, <2>2
<1>22. CASE android_app_entry
  <2>1. (ControlOK /\ LifetimeOK)'
    BY <1>22 DEF android_app_entry, Broadcast, ControlOK, LifetimeOK
  <2>2. (WindowOK /\ QueueOK /\ SavedStateOK)'
    BY <1>22 DEF android_app_entry, Broadcast, ControlOK, LifetimeOK, WindowOK, QueueOK,
       SavedStateOK
  <2> QED BY <2>1, <2>2
<1>23. CASE android_main_returns
  <2>1. (ControlOK /\ LifetimeOK)'
    BY <1>23 DEF android_main_returns, ControlOK, LifetimeOK
  <2>2. (WindowOK /\ QueueOK /\ SavedStateOK)'
    BY <1>23 DEF android_main_returns, ControlOK, LifetimeOK, WindowOK, QueueOK, SavedStateOK
  <2> QED BY <2>1, <2>2
<1>24. CASE android_app_read_cmd
  <2>1. (ControlOK /\ LifetimeOK)'
    BY <1>24 DEF android_app_read_cmd, Polling, ControlOK, LifetimeOK
  <2>2. (WindowOK /\ QueueOK /\ SavedStateOK)'
    BY <1>24 DEF android_app_read_cmd, Polling, ControlOK, LifetimeOK, WindowOK, QueueOK,
       SavedStateOK
  <2> QED BY <2>1, <2>2
<1>25. CASE ReadCmdDiscard
  <2>1. (ControlOK /\ LifetimeOK)'
    BY <1>25 DEF ReadCmdDiscard, free_saved_state, ControlOK, LifetimeOK
  <2>2. (WindowOK /\ QueueOK /\ SavedStateOK)'
    BY <1>25 DEF ReadCmdDiscard, free_saved_state, ControlOK, LifetimeOK, WindowOK, QueueOK,
       SavedStateOK
  <2> QED BY <2>1, <2>2
<1>26. CASE android_app_pre_exec_cmd
  <2>1. (ControlOK /\ LifetimeOK)'
    BY <1>26 DEF android_app_pre_exec_cmd, PreInputChanged, PreInitWindow, PreTermWindow,
       PreLifecycle, PreDestroy, PreOther, Broadcast, Attach, ControlOK, LifetimeOK
  <2>2. (WindowOK /\ QueueOK /\ SavedStateOK)'
    BY <1>26 DEF android_app_pre_exec_cmd, PreInputChanged, PreInitWindow, PreTermWindow,
       PreLifecycle, PreDestroy, PreOther, Broadcast, Attach, ControlOK, LifetimeOK,
       WindowOK, QueueOK, SavedStateOK
  <2> QED BY <2>1, <2>2
<1>27. CASE onAppCmd
  <2>1. (ControlOK /\ LifetimeOK)'
    BY <1>27 DEF onAppCmd, ControlOK, LifetimeOK
  <2>2. (WindowOK /\ QueueOK /\ SavedStateOK)'
    BY <1>27 DEF onAppCmd, ControlOK, LifetimeOK, WindowOK, QueueOK, SavedStateOK
  <2> QED BY <2>1, <2>2
<1>28. CASE android_app_post_exec_cmd
  <2>1. (ControlOK /\ LifetimeOK)'
    BY <1>28 DEF android_app_post_exec_cmd, PostTermWindow, PostSaveState, PostResume,
       PostOther, Broadcast, free_saved_state, ControlOK, LifetimeOK
  <2>2. (WindowOK /\ QueueOK /\ SavedStateOK)'
    BY <1>28 DEF android_app_post_exec_cmd, PostTermWindow, PostSaveState, PostResume,
       PostOther, Broadcast, free_saved_state, ControlOK, LifetimeOK, WindowOK, QueueOK,
       SavedStateOK
  <2> QED BY <2>1, <2>2
<1>29. CASE process_input
  <2>1. (ControlOK /\ LifetimeOK)'
    BY <1>29 DEF process_input, Polling, ControlOK, LifetimeOK
  <2>2. (WindowOK /\ QueueOK /\ SavedStateOK)'
    BY <1>29 DEF process_input, Polling, ControlOK, LifetimeOK, WindowOK, QueueOK, SavedStateOK
  <2> QED BY <2>1, <2>2
<1>30. CASE process_input_done
  <2>1. (ControlOK /\ LifetimeOK)'
    BY <1>30 DEF process_input_done, ControlOK, LifetimeOK
  <2>2. (WindowOK /\ QueueOK /\ SavedStateOK)'
    BY <1>30 DEF process_input_done, ControlOK, LifetimeOK, WindowOK, QueueOK, SavedStateOK
  <2> QED BY <2>1, <2>2
<1>31. CASE DestroyDiscard
  <2>1. (ControlOK /\ LifetimeOK)'
    BY <1>31 DEF DestroyDiscard, free_saved_state, ControlOK, LifetimeOK
  <2>2. (WindowOK /\ QueueOK /\ SavedStateOK)'
    BY <1>31 DEF DestroyDiscard, free_saved_state, ControlOK, LifetimeOK, WindowOK, QueueOK,
       SavedStateOK
  <2> QED BY <2>1, <2>2
<1>32. CASE android_app_destroy
  <2>1. (ControlOK /\ LifetimeOK)'
    BY <1>32 DEF android_app_destroy, Broadcast, ControlOK, LifetimeOK
  <2>2. (WindowOK /\ QueueOK /\ SavedStateOK)'
    BY <1>32 DEF android_app_destroy, Broadcast, ControlOK, LifetimeOK, WindowOK, QueueOK,
       SavedStateOK
  <2> QED BY <2>1, <2>2
<1>33. CASE mainPC \in {"check", "wait"} /\ Answered /\ MainReturn
  <2>1. (ControlOK /\ LifetimeOK)'
    BY <1>33 DEF MainReturn, Answered, ControlOK, LifetimeOK
  <2>2. (WindowOK /\ QueueOK /\ SavedStateOK)'
    BY <1>33 DEF MainReturn, Answered, ControlOK, LifetimeOK, WindowOK, QueueOK, SavedStateOK
  <2> QED BY <2>1, <2>2
<1>34. CASE mainPC \in {"check", "wait"} /\ MainWait
  BY <1>34 DEF MainWait, ControlOK, LifetimeOK, WindowOK, QueueOK, SavedStateOK
<1>35. CASE MainCheck \/ MainWake
  BY <1>33, <1>34, <1>35 DEF MainCheck, MainWake
<1>36. CASE UNCHANGED vars
  BY <1>36 DEF vars, ControlOK, LifetimeOK, WindowOK, QueueOK, SavedStateOK
<1> QED
  BY <1>1, <1>2, <1>3, <1>4, <1>5, <1>6, <1>7, <1>8, <1>9, <1>10, <1>11, <1>12, <1>13,
     <1>14, <1>15, <1>16, <1>17, <1>18, <1>19, <1>20, <1>21, <1>22, <1>23, <1>24, <1>25,
     <1>26, <1>27, <1>28, <1>29, <1>30, <1>31, <1>32, <1>33, <1>34, <1>35, <1>36 DEF Next,
     Callback, Main, App, Crashed

LEMMA Invariance == Safety => []IInv
<1>1. IInv /\ [Next]_vars => IInv'
  BY TypeStep, PartsStep DEF IInv
<1> QED BY InitIInv, <1>1, PTL DEF Safety

\* The type invariant of the glue, for every instance.
THEOREM TypeCorrect == Safety => []TypeOK
  BY Invariance, PTL DEF IInv

\* Neither thread touches android_app after it is freed: onDestroy waits for
\* App's last access, in every interleaving of callbacks and commands.
THEOREM GlueNoUseAfterFree == Safety => []NoUseAfterFree
<1>1. IInv => NoUseAfterFree
  BY DEF IInv, TypeOK, ThreadType, MainPCs, LifetimeOK, NoUseAfterFree
<1> QED BY Invariance, <1>1, PTL

\* The application thread never holds a window that the framework has taken
\* back: onNativeWindowDestroyed returns only after TERM_WINDOW was handled.
THEOREM GlueWindowAlive == Safety => []WindowAlive
<1>1. IInv => WindowAlive
  BY DEF IInv, TypeOK, SharedType, WindowOK, WindowAlive
<1> QED BY Invariance, <1>1, PTL

\* The application thread never reads an input queue that the framework has
\* taken back: it is off the looper before onInputQueueDestroyed returns.
THEOREM GlueQueueAlive == Safety => []QueueAlive
<1>1. IInv => QueueAlive
  BY DEF IInv, TypeOK, SharedType, QueueOK, QueueAlive
<1> QED BY Invariance, <1>1, PTL

\* The saved state is freed exactly once, on every path.
THEOREM GlueSavedStateBlock == Safety => []SavedStateBlock
<1>1. IInv => SavedStateBlock
  BY DEF IInv, SavedStateOK, SavedStateBlock
<1> QED BY Invariance, <1>1, PTL
=============================================================================
