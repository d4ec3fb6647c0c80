------------------------ MODULE GlueRendezvousProofs ------------------------
(***************************************************************************)
(* The rendezvous of the two threads of AppGlue: what is in the pipe and   *)
(* in App's hand at each point of a callback.  From it follow what the     *)
(* command handlers may rely on, that no command outlives the callback     *)
(* that wrote it, and that window, queue and lifecycle state are handed    *)
(* over as Handoff says (its safety part).                                 *)
(***************************************************************************)
EXTENDS AppGlueProofs, SequenceTheorems

\* The synchronous commands of a pipe: none, one, or one before the other.
Quiet(p) == \A i \in DOMAIN p : p[i] \in AsyncCmds

Only(p, c) ==
  \E i \in DOMAIN p : p[i] = c /\ \A j \in DOMAIN p : j # i => p[j] \in AsyncCmds

Both(p, c, d) ==
  \E i, k \in DOMAIN p :
    /\ i < k /\ p[i] = c /\ p[k] = d
    /\ \A j \in DOMAIN p : j \notin {i, k} => p[j] \in AsyncCmds

\* The command in App's hand, if any, is one that nobody waits for any more.
Free ==
  \/ cmd \in AsyncCmds \cup {NULL}
  \/ cmd \in LifeCmds \cup {"INIT_WINDOW", "INPUT_CHANGED"} /\ appPC \in {"exec", "post"}

\* How far the one command c of a callback is.
Done == Quiet(pipe) /\ Free
Unread(c) == Only(pipe, c) /\ Free
Reading(c, stages) == Quiet(pipe) /\ cmd = c /\ appPC \in stages

\* The last lifecycle command, by the state of the activity.
StateOf(l) ==
  CASE l = "started" -> "START" [] l = "resumed" -> "RESUME"
    [] l = "paused" -> "PAUSE" [] l = "stopped" -> "STOP" [] OTHER -> NULL

HandOK ==
  /\ cmd # NULL <=> appPC \in {"discard", "pre", "exec", "post"}
  /\ appPC = "discard" => cmd = "SAVE_STATE"
  /\ EmptyMain => cmd = NULL
  /\ cmd = "INIT_WINDOW" /\ appPC \in {"exec", "post"} => app.window # NULL
  /\ mainPC \in {"term", "offer", "write", "check"} => mutex = "main"
  /\ object = "live" /\ callback # "DESTROY" => ~app.destroyRequested
  /\ object = "live" /\ ~EmptyMain /\ ~app.destroyRequested
       => appPC \notin {"destroy", "destroyed", "off"}
  /\ mainPC = "crashed" => appPC = "off"
  /\ object # "live" => pipe = <<>>
  /\ mainPC = "off" => liveWindows = {} /\ liveQueues = {}
  /\ callback = "DESTROY" => liveWindows = {} /\ liveQueues = {}

\* Between callbacks, and before a callback has written anything.
RestOK ==
  /\ mainPC \in {"idle", "lock", "post", "term"} /\ object = "live" => Done
  /\ callback = "CREATE" => Done
  /\ object = "live" /\ callback # "WINDOW" => liveWindows = {app.pendingWindow} \ {NULL}
  /\ object = "live" /\ callback # "INPUT" => liveQueues = {app.pendingInputQueue} \ {NULL}

TermStage ==
  \/ Done /\ app.window = NULL
  \/ app.window \notin {NULL, arg} /\ (Unread("TERM_WINDOW") \/ Reading("TERM_WINDOW", {"pre", "exec", "post"}))

InitStage ==
  \/ Both(pipe, "TERM_WINDOW", "INIT_WINDOW") /\ Free /\ app.window \notin {NULL, arg}
  \/ /\ Only(pipe, "INIT_WINDOW") /\ cmd = "TERM_WINDOW" /\ appPC \in {"pre", "exec", "post"}
     /\ app.window \notin {NULL, arg}
  \/ Unread("INIT_WINDOW") /\ app.window = NULL
  \/ Reading("INIT_WINDOW", {"pre"}) /\ app.window = NULL
  \/ Done /\ app.window = arg

WindowStage ==
  /\ object = "live" /\ ~(callback = "WINDOW" /\ mainPC \in {"write", "check", "wait"})
       => app.window = app.pendingWindow
  /\ callback = "WINDOW" =>
       /\ mainPC \in {"lock", "term", "offer"} => arg # app.window
       /\ mainPC = "term" => app.window # NULL
       /\ mainPC \in {"offer", "write"} => TermStage
       /\ mainPC = "write" => arg # NULL
       /\ mainPC \in {"check", "wait"} => IF arg = NULL THEN TermStage ELSE InitStage

QueueStage ==
  /\ object = "live" /\ ~(callback = "INPUT" /\ mainPC \in {"write", "check", "wait"})
       => app.inputQueue = app.pendingInputQueue
  /\ callback = "INPUT" =>
       /\ mainPC = "lock" => arg # app.inputQueue
       /\ mainPC = "write" => Done /\ arg # app.inputQueue
       /\ mainPC \in {"check", "wait"} =>
            \/ Unread("INPUT_CHANGED") /\ arg # app.inputQueue
            \/ Reading("INPUT_CHANGED", {"pre"}) /\ arg # app.inputQueue
            \/ Done /\ arg = app.inputQueue

StateStage ==
  /\ object = "live" /\ callback \notin LifeCmds \cup {"DESTROY"} => app.activityState = StateOf(life)
  /\ callback \in LifeCmds =>
       /\ callback = StateOf(life)
       /\ mainPC \in {"lock", "write"} => Done /\ app.activityState # callback
       /\ mainPC \in {"check", "wait"} =>
            \/ Unread(callback) /\ app.activityState # callback
            \/ Reading(callback, {"pre"}) /\ app.activityState # callback
            \/ Done /\ app.activityState = callback

SaveStage ==
  callback = "SAVE_STATE" =>
    /\ mainPC = "write" => Done /\ ~app.stateSaved
    /\ mainPC \in {"check", "wait"} =>
         \/ Unread("SAVE_STATE") /\ ~app.stateSaved
         \/ /\ Reading("SAVE_STATE", {"discard", "pre", "exec", "post"}) /\ ~app.stateSaved
            /\ appPC = "post" => app.savedState = stored
         \/ /\ Done /\ app.stateSaved /\ ~EmptyMain
            /\ cmd \in AsyncCmds \cup {NULL} /\ app.savedState = stored

DestroyStage ==
  callback = "DESTROY" =>
    /\ mainPC = "write" => Done
    /\ mainPC \in {"check", "wait", "close"} =>
         Done \/ Unread("DESTROY") \/ Reading("DESTROY", {"pre", "exec", "post"})

RInv ==
  /\ HandOK /\ RestOK /\ WindowStage /\ QueueStage /\ StateStage /\ SaveStage /\ DestroyStage

USE ConstantsAssumption
USE DEF heapVars, syncVars, callVars, liveVars, sysVars

-----------------------------------------------------------------------------
(* The pipe.                                                               *)

\* A command is written behind the others.
LEMMA WriteCases ==
  ASSUME NEW p \in Seq(Cmds), NEW c \in Cmds, NEW d \in Cmds
  PROVE  /\ Quiet(p) /\ d \in AsyncCmds => Quiet(Append(p, d))
         /\ Quiet(p) => Only(Append(p, d), d)
         /\ Only(p, c) => Both(Append(p, d), c, d)
<1> DEFINE q == Append(p, d)
           n == Len(p) + 1
<1>1. /\ Len(p) \in Nat /\ DOMAIN p = 1 .. Len(p) /\ DOMAIN q = 1 .. n /\ n \in DOMAIN q
      /\ q[n] = d /\ \A i \in DOMAIN p : i \in DOMAIN q /\ i < n /\ q[i] = p[i]
      /\ \A i \in DOMAIN q : i # n => i \in DOMAIN p
  BY AppendProperties, LenProperties
<1> HIDE DEF q, n
<1>2. Quiet(p) /\ d \in AsyncCmds => Quiet(q)
  BY <1>1 DEF Quiet
<1>3. Quiet(p) => Only(q, d)
  BY <1>1 DEF Quiet, Only
<1>4. Only(p, c) => Both(q, c, d)
  BY <1>1 DEF Only, Both
<1> QED
  BY <1>2, <1>3, <1>4 DEF q

\* The oldest command is read.
LEMMA ReadCases ==
  ASSUME NEW p \in Seq(Cmds), p # <<>>, NEW c \in Cmds, NEW d \in Cmds
  PROVE  /\ Quiet(p) => Head(p) \in AsyncCmds /\ Quiet(Tail(p))
         /\ Only(p, c) => \/ Head(p) = c /\ Quiet(Tail(p))
                          \/ Head(p) \in AsyncCmds /\ Only(Tail(p), c)
         /\ Both(p, c, d) => \/ Head(p) = c /\ Only(Tail(p), d)
                             \/ Head(p) \in AsyncCmds /\ Both(Tail(p), c, d)
<1> DEFINE t == Tail(p)
<1>1. /\ Len(p) \in Nat /\ DOMAIN p = 1 .. Len(p) /\ DOMAIN t = 1 .. Len(p) - 1
      /\ Len(p) # 0 /\ Head(p) = p[1] /\ \A i \in DOMAIN t : t[i] = p[i + 1]
  BY HeadTailProperties, LenProperties, EmptySeq
<1> HIDE DEF t
<1>2. /\ 1 \in DOMAIN p /\ \A i \in DOMAIN t : i + 1 \in DOMAIN p
      /\ \A i \in DOMAIN p : i # 1 => i - 1 \in DOMAIN t /\ t[i - 1] = p[i]
  BY <1>1
<1>3. Quiet(p) => Head(p) \in AsyncCmds /\ Quiet(t)
  BY <1>1, <1>2 DEF Quiet
<1>4. ASSUME Only(p, c)
      PROVE  (Head(p) = c /\ Quiet(t)) \/ (Head(p) \in AsyncCmds /\ Only(t, c))
  <2>1. PICK i \in DOMAIN p : p[i] = c /\ \A j \in DOMAIN p : j # i => p[j] \in AsyncCmds
    BY <1>4 DEF Only
  <2>2. CASE i = 1
    BY <1>1, <1>2, <2>1, <2>2 DEF Quiet
  <2>3. CASE i # 1
    <3>1. i - 1 \in DOMAIN t /\ t[i - 1] = c
      BY <1>2, <2>1, <2>3
    <3>2. \A j \in DOMAIN t : j # i - 1 => t[j] \in AsyncCmds
      BY <1>1, <1>2, <2>1
    <3> QED
      BY <1>1, <1>2, <2>1, <2>3, <3>1, <3>2 DEF Only
  <2> QED
    BY <2>2, <2>3
<1>5. ASSUME Both(p, c, d)
      PROVE  (Head(p) = c /\ Only(t, d)) \/ (Head(p) \in AsyncCmds /\ Both(t, c, d))
  <2>1. PICK i \in DOMAIN p, k \in DOMAIN p :
          /\ i < k /\ p[i] = c /\ p[k] = d
          /\ \A j \in DOMAIN p : j \notin {i, k} => p[j] \in AsyncCmds
    BY <1>5 DEF Both
  <2>2. k # 1 /\ k - 1 \in DOMAIN t /\ t[k - 1] = d
    BY <1>1, <1>2, <2>1
  <2>3. CASE i = 1
    <3>1. \A j \in DOMAIN t : j # k - 1 => t[j] \in AsyncCmds
      BY <1>1, <1>2, <2>1, <2>3
    <3> QED
      BY <1>1, <2>1, <2>2, <2>3, <3>1 DEF Only
  <2>4. CASE i # 1
    <3>1. i - 1 \in DOMAIN t /\ t[i - 1] = c /\ i - 1 < k - 1
      BY <1>1, <1>2, <2>1, <2>4
    <3>2. \A j \in DOMAIN t : j \notin {i - 1, k - 1} => t[j] \in AsyncCmds
      BY <1>1, <1>2, <2>1
    <3>3. p[1] \in AsyncCmds
      BY <1>2, <2>1, <2>2, <2>4
    <3> QED
      BY <1>1, <2>2, <3>1, <3>2, <3>3 DEF Both
  <2> QED
    BY <2>3, <2>4
<1> QED
  BY <1>3, <1>4, <1>5 DEF t

-----------------------------------------------------------------------------
\* Which callback waits for the command that App has in hand.
LEMMA HandFacts ==
  ASSUME IInv, RInv
  PROVE  /\ cmd = "TERM_WINDOW" =>
              /\ callback = "WINDOW" /\ mainPC \in {"offer", "write", "check", "wait"}
              /\ app.window \notin {NULL, arg} /\ appPC \in {"pre", "exec", "post"}
         /\ cmd = "INIT_WINDOW" /\ appPC = "pre" =>
              /\ callback = "WINDOW" /\ mainPC \in {"check", "wait"} /\ arg # NULL
              /\ app.window = NULL /\ Quiet(pipe)
         /\ cmd = "INPUT_CHANGED" /\ appPC = "pre" =>
              /\ callback = "INPUT" /\ mainPC \in {"check", "wait"} /\ arg # app.inputQueue
              /\ Quiet(pipe)
         /\ cmd \in LifeCmds /\ appPC = "pre" =>
              /\ callback = cmd /\ mainPC \in {"check", "wait"} /\ app.activityState # callback
              /\ Quiet(pipe)
         /\ cmd = "SAVE_STATE" =>
              /\ callback = "SAVE_STATE" /\ mainPC \in {"check", "wait"} /\ ~app.stateSaved
              /\ Quiet(pipe)
         /\ cmd = "DESTROY" => callback = "DESTROY" /\ mainPC \in {"check", "wait", "close"}
<1>1. Free => /\ cmd \notin {"TERM_WINDOW", "SAVE_STATE", "DESTROY"}
              /\ cmd \in LifeCmds \cup {"INIT_WINDOW", "INPUT_CHANGED"} => appPC # "pre"
  BY DEF Free, LifeCmds, Cmds, SyncCmds
<1>2. cmd # NULL => /\ object = "live" /\ mainPC \notin {"off", "crashed"}
                    /\ appPC \in {"discard", "pre", "exec", "post"}
  BY DEF IInv, LifetimeOK, RInv, HandOK, ControlOK
<1>3. CASE cmd = NULL
  BY <1>3 DEF LifeCmds, Cmds, SyncCmds
<1>4. CASE Free /\ cmd # NULL
  BY <1>1, <1>4
<1>5. CASE ~Free /\ cmd # NULL
  <2>1. CASE callback = "WINDOW"
    <3>1. mainPC \in {"offer", "write", "check", "wait"}
      BY <1>2, <1>5, <2>1 DEF IInv, TypeOK, ThreadType, MainPCs, ControlOK, RInv, RestOK, Done
    <3>2. TermStage \/ (mainPC \in {"check", "wait"} /\ arg # NULL /\ InitStage)
      BY <2>1, <3>1 DEF RInv, WindowStage
    <3>3. \/ /\ cmd = "TERM_WINDOW" /\ appPC \in {"pre", "exec", "post"}
             /\ app.window \notin {NULL, arg}
          \/ /\ cmd = "INIT_WINDOW" /\ appPC = "pre" /\ mainPC \in {"check", "wait"}
             /\ arg # NULL /\ app.window = NULL /\ Quiet(pipe)
      BY <1>5, <3>2 DEF TermStage, InitStage, Done, Unread, Reading
    <3> QED
      BY <2>1, <3>1, <3>3 DEF LifeCmds
  <2>2. CASE callback = "INPUT"
    <3>1. mainPC \in {"check", "wait"}
      BY <1>2, <1>5, <2>2
      DEF IInv, TypeOK, ThreadType, MainPCs, ControlOK, RInv, RestOK, QueueStage, Done
    <3>2. cmd = "INPUT_CHANGED" /\ appPC = "pre" /\ Quiet(pipe) /\ arg # app.inputQueue
      BY <1>5, <2>2, <3>1 DEF RInv, QueueStage, Done, Unread, Reading
    <3> QED
      BY <2>2, <3>1, <3>2 DEF LifeCmds
  <2>3. CASE callback \in LifeCmds
    <3>1. mainPC \in {"check", "wait"}
      BY <1>2, <1>5, <2>3
      DEF IInv, TypeOK, ThreadType, MainPCs, ControlOK, RInv, RestOK, StateStage, Done, LifeCmds
    <3>2. cmd = callback /\ appPC = "pre" /\ Quiet(pipe) /\ app.activityState # callback
      BY <1>5, <2>3, <3>1 DEF RInv, StateStage, Done, Unread, Reading
    <3> QED
      BY <2>3, <3>1, <3>2 DEF LifeCmds
  <2>4. CASE callback = "SAVE_STATE"
    <3>1. mainPC \in {"check", "wait"}
      BY <1>2, <1>5, <2>4
      DEF IInv, TypeOK, ThreadType, MainPCs, ControlOK, RInv, RestOK, SaveStage, Done
    <3>2. cmd = "SAVE_STATE" /\ Quiet(pipe) /\ ~app.stateSaved
      BY <1>5, <2>4, <3>1 DEF RInv, SaveStage, Done, Unread, Reading
    <3> QED
      BY <2>4, <3>1, <3>2 DEF LifeCmds
  <2>5. CASE callback = "DESTROY"
    <3>1. mainPC \in {"check", "wait", "close"}
      BY <1>2, <1>5, <2>5
      DEF IInv, TypeOK, ThreadType, MainPCs, ControlOK, RInv, RestOK, DestroyStage, Done
    <3>2. cmd = "DESTROY"
      BY <1>5, <2>5, <3>1 DEF RInv, DestroyStage, Done, Unread, Reading
    <3> QED
      BY <2>5, <3>1, <3>2 DEF LifeCmds
  <2>6. CASE callback \in AsyncCmds \cup {NULL, "CREATE"}
    <3>1. callback \in AsyncCmds \cup {NULL} => mainPC \in {"idle", "post", "off", "crashed"}
      BY <2>6 DEF IInv, TypeOK, ThreadType, MainPCs, ControlOK, Calls, Cmds, SyncCmds, LifeCmds
    <3> QED
      BY <1>2, <1>5, <2>6, <3>1 DEF RInv, RestOK, Done
  <2>7. \/ callback \in {"WINDOW", "INPUT", "SAVE_STATE", "DESTROY"}
        \/ callback \in LifeCmds \/ callback \in AsyncCmds \cup {NULL, "CREATE"}
    BY DEF IInv, TypeOK, ThreadType, Calls
  <2> QED
    BY <2>1, <2>2, <2>3, <2>4, <2>5, <2>6, <2>7
<1> QED
  BY <1>3, <1>4, <1>5

-----------------------------------------------------------------------------
(* The invariant.                                                          *)

LEMMA RendezvousInit == Init => RInv
  BY DEF Init, ZeroApp, RInv, HandOK, RestOK, WindowStage, QueueStage, StateStage, SaveStage,
         DestroyStage, LifeCmds, Cmds, SyncCmds

\* Definitions that the steps below share.
USE DEF IInv, TypeOK, SharedType, ThreadType, SystemType, AppRecords, MainPCs, AppPCs, Calls,
        LifeCmds, Cmds, SyncCmds, ControlOK, LifetimeOK, WindowOK, QueueOK, SavedStateOK,
        RInv, HandOK, RestOK, WindowStage, QueueStage, StateStage, SaveStage, DestroyStage,
        TermStage, InitStage, Done, Unread, Reading, Free, StateOf

\* A new activity, with an empty pipe.
LEMMA CreateKeeps ==
  ASSUME IInv, RInv, android_app_create \/ android_app_create_fails
  PROVE  RInv'
<1>1. CASE android_app_create
  <2>1. Quiet(pipe')
    BY <1>1 DEF android_app_create, Quiet
  <2>2. cmd = NULL /\ mainPC = "off" /\ liveWindows = {} /\ liveQueues = {}
    BY <1>1 DEF android_app_create
  <2> QED
    BY <1>1, <2>1, <2>2 DEF android_app_create, ZeroApp
<1>2. CASE android_app_create_fails
  BY <1>2 DEF android_app_create_fails
<1> QED
  BY <1>1, <1>2

\* A callback begins: what it brings differs from what App has.
LEMMA CallbackKeeps ==
  ASSUME IInv, RInv, Callback
  PROVE  RInv'
<1>1. CASE onStart \/ onResume \/ onPause \/ onStop
  BY <1>1 DEF onStart, onResume, onPause, onStop, Enter
<1>2. CASE onSaveInstanceState \/ onDestroy
  BY <1>2 DEF onSaveInstanceState, onDestroy, Enter
<1>3. CASE onNativeWindowCreated
  BY <1>3 DEF onNativeWindowCreated, Enter
<1>4. CASE onNativeWindowDestroyed
  BY <1>4 DEF onNativeWindowDestroyed, Enter
<1>5. CASE onInputQueueCreated
  BY <1>5 DEF onInputQueueCreated, Enter
<1>6. CASE onInputQueueDestroyed
  BY <1>6 DEF onInputQueueDestroyed, Enter
<1>7. CASE onAsyncEvent \/ NullInstanceCallback
  BY <1>7 DEF onAsyncEvent, NullInstanceCallback, Enter
<1> QED
  BY <1>1, <1>2, <1>3, <1>4, <1>5, <1>6, <1>7 DEF Callback

\* Main writes a command: it is the only one that is unread, or the one behind
\* TERM_WINDOW.
LEMMA WriteKeeps ==
  ASSUME IInv, RInv, MainWriteTerm \/ MainWrite \/ MainPost
  PROVE  RInv'
<1>1. CASE MainWriteTerm
  <2>1. Only(pipe', "TERM_WINDOW")
    BY <1>1, WriteCases DEF MainWriteTerm, android_app_write_cmd
  <2> QED
    BY <1>1, <2>1 DEF MainWriteTerm
<1>2. CASE MainWrite
  <2>1. pipe' = Append(pipe, CommandOf(callback)) /\ CommandOf(callback) \in Cmds
    BY <1>2 DEF MainWrite, android_app_write_cmd, CommandOf
  <2>2. /\ Quiet(pipe) => Only(pipe', CommandOf(callback))
        /\ Only(pipe, "TERM_WINDOW") => Both(pipe', "TERM_WINDOW", CommandOf(callback))
    BY <2>1, WriteCases
  <2>3. CASE callback = "WINDOW"
    BY <1>2, <2>2, <2>3 DEF MainWrite, CommandOf
  <2>4. CASE callback = "INPUT"
    BY <1>2, <2>2, <2>4 DEF MainWrite, CommandOf
  <2>5. CASE callback \in LifeCmds
    BY <1>2, <2>2, <2>5 DEF MainWrite, CommandOf
  <2>6. CASE callback = "SAVE_STATE"
    BY <1>2, <2>2, <2>6 DEF MainWrite, CommandOf
  <2>7. CASE callback = "DESTROY"
    BY <1>2, <2>2, <2>7 DEF MainWrite, CommandOf
  <2> QED
    BY <1>2, <2>3, <2>4, <2>5, <2>6, <2>7 DEF MainWrite
<1>3. CASE MainPost
  <2>1. Quiet(pipe')
    BY <1>3, WriteCases DEF MainPost, android_app_write_cmd
  <2> QED
    BY <1>3, <2>1 DEF MainPost
<1> QED
  BY <1>1, <1>2, <1>3

\* The loop ends only when App has taken what the callback brought, and by then
\* it has read every synchronous command.
LEMMA ReturnKeeps ==
  ASSUME IInv, RInv, mainPC \in {"check", "wait"}, Answered, MainReturn
  PROVE  RInv'
<1>1. callback # "DESTROY" => Done
  BY DEF Answered
<1>2. object = "live" /\ callback # NULL
  OBVIOUS
<1>3. CASE callback = "DESTROY"
  BY <1>3 DEF MainReturn
<1>4. CASE callback # "DESTROY"
  <2>1. /\ mainPC' = "idle" /\ callback' = NULL
        /\ UNCHANGED <<object, pipe, appPC, cmd, life, stored>>
        /\ app' = IF callback = "SAVE_STATE" THEN [app EXCEPT !.savedState = NULL] ELSE app
    BY <1>4 DEF MainReturn
  <2>2. /\ app.window = app.pendingWindow /\ app.inputQueue = app.pendingInputQueue
        /\ app.activityState = StateOf(life)
    BY <1>2, <1>4 DEF Answered
  <2>3. /\ liveWindows' = {app.pendingWindow} \ {NULL}
        /\ liveQueues' = {app.pendingInputQueue} \ {NULL}
    BY <1>2 DEF MainReturn
  <2>4. HandOK'
    BY <1>1, <1>2, <1>4, <2>1
  <2>5. RestOK'
    BY <1>1, <1>4, <2>1, <2>3
  <2>6. (WindowStage /\ QueueStage /\ StateStage /\ SaveStage /\ DestroyStage)'
    BY <1>2, <2>1, <2>2
  <2> QED
    BY <2>4, <2>5, <2>6
<1> QED
  BY <1>3, <1>4

\* The rest of Main.
LEMMA MainKeeps ==
  ASSUME IInv, RInv, Main \/ SpuriousWakeup
  PROVE  RInv'
<1>1. CASE MainLock
  BY <1>1 DEF MainLock, Prepared
<1>2. CASE MainOfferWindow
  BY <1>2 DEF MainOfferWindow
<1>3. CASE MainWriteTerm \/ MainWrite \/ MainPost
  BY <1>3, WriteKeeps
<1>4. CASE mainPC \in {"check", "wait"} /\ MainWait
  BY <1>4 DEF MainWait
<1>5. CASE MainCheck \/ MainWake
  BY <1>4, <1>5, ReturnKeeps DEF MainCheck, MainWake
<1>6. CASE MainFree
  BY <1>6 DEF MainFree
<1>7. CASE SpuriousWakeup
  BY <1>7 DEF SpuriousWakeup
<1> QED
  BY <1>1, <1>2, <1>3, <1>5, <1>6, <1>7 DEF Main

\* App reads a command: an asynchronous one, or the callback's own.
LEMMA ReadKeeps ==
  ASSUME IInv, RInv, android_app_read_cmd
  PROVE  RInv'
<1>1. /\ pipe # <<>> /\ cmd' = Head(pipe) /\ pipe' = Tail(pipe) /\ cmd = NULL
      /\ appPC' = IF cmd' = "SAVE_STATE" THEN "discard" ELSE "pre"
  BY DEF android_app_read_cmd, Polling
<1>2. /\ Quiet(pipe) => cmd' \in AsyncCmds /\ Quiet(pipe')
      /\ \A c \in Cmds : Only(pipe, c) => \/ cmd' = c /\ Quiet(pipe')
                                          \/ cmd' \in AsyncCmds /\ Only(pipe', c)
      /\ \A c, d \in Cmds : Both(pipe, c, d) => \/ cmd' = c /\ Only(pipe', d)
                                                \/ cmd' \in AsyncCmds /\ Both(pipe', c, d)
  BY <1>1, ReadCases
<1>3. /\ UNCHANGED <<app, object, mutex, mainPC, callback, arg, life, liveWindows, liveQueues, stored>>
      /\ ~EmptyMain /\ object = "live"
  BY DEF android_app_read_cmd, Polling
<1>4. HandOK' /\ RestOK'
  BY <1>1, <1>2, <1>3
<1>5. WindowStage'
  BY <1>1, <1>2, <1>3
<1>6. QueueStage'
  BY <1>1, <1>2, <1>3
<1>7. StateStage'
  BY <1>1, <1>2, <1>3
<1>8. SaveStage' /\ DestroyStage'
  BY <1>1, <1>2, <1>3
<1> QED
  BY <1>4, <1>5, <1>6, <1>7, <1>8

\* App handles a command.
LEMMA CommandKeeps ==
  ASSUME IInv, RInv, android_app_pre_exec_cmd \/ onAppCmd \/ android_app_post_exec_cmd
  PROVE  RInv'
<1>1. CASE android_app_pre_exec_cmd
  <2> USE <1>1 DEF android_app_pre_exec_cmd
  <2>1. CASE PreInputChanged
    BY <2>1, HandFacts DEF PreInputChanged, Broadcast
  <2>2. CASE PreInitWindow
    BY <2>2, HandFacts DEF PreInitWindow, Broadcast
  <2>3. CASE PreTermWindow
    BY <2>3, HandFacts DEF PreTermWindow, Broadcast
  <2>4. CASE PreLifecycle
    BY <2>4, HandFacts DEF PreLifecycle, Broadcast
  <2>5. CASE PreDestroy
    BY <2>5, HandFacts DEF PreDestroy
  <2>6. CASE PreOther
    BY <2>6, HandFacts DEF PreOther
  <2> QED
    BY <2>1, <2>2, <2>3, <2>4, <2>5, <2>6
<1>2. CASE onAppCmd
  BY <1>2, HandFacts DEF onAppCmd
<1>3. CASE android_app_post_exec_cmd
  <2> USE <1>3 DEF android_app_post_exec_cmd
  <2>1. CASE PostTermWindow
    BY <2>1, HandFacts DEF PostTermWindow, Broadcast
  <2>2. CASE PostSaveState
    BY <2>2, HandFacts DEF PostSaveState, Broadcast
  <2>3. CASE PostResume
    BY <2>3, HandFacts DEF PostResume, free_saved_state
  <2>4. CASE PostOther
    BY <2>4, HandFacts DEF PostOther
  <2> QED
    BY <2>1, <2>2, <2>3, <2>4
<1> QED
  BY <1>1, <1>2, <1>3

\* The rest of App.
LEMMA AppKeeps ==
  ASSUME IInv, RInv, App \/ process_input
  PROVE  RInv'
<1>1. CASE android_app_entry
  BY <1>1 DEF android_app_entry, Broadcast
<1>2. CASE android_main_returns
  BY <1>2 DEF android_main_returns
<1>3. CASE android_app_read_cmd
  BY <1>3, ReadKeeps
<1>4. CASE ReadCmdDiscard
  BY <1>4, HandFacts DEF ReadCmdDiscard, free_saved_state
<1>5. CASE android_app_pre_exec_cmd \/ onAppCmd \/ android_app_post_exec_cmd
  BY <1>5, CommandKeeps
<1>6. CASE process_input \/ process_input_done
  BY <1>6 DEF process_input, process_input_done, Polling
<1>7. CASE DestroyDiscard
  BY <1>7 DEF DestroyDiscard, free_saved_state
<1>8. CASE android_app_destroy
  BY <1>8 DEF android_app_destroy, Broadcast
<1> QED
  BY <1>1, <1>2, <1>3, <1>4, <1>5, <1>6, <1>7, <1>8 DEF App

LEMMA RendezvousNext == IInv /\ RInv /\ [Next]_vars => RInv'
<1> SUFFICES ASSUME IInv, RInv, [Next]_vars PROVE RInv'
  OBVIOUS
<1>1. CASE UNCHANGED vars
  BY <1>1 DEF vars
<1> QED
  BY <1>1, CreateKeeps, CallbackKeeps, MainKeeps, AppKeeps DEF Next, Crashed

LEMMA RendezvousInvariance == Safety => [](IInv /\ RInv)
<1> HIDE DEF IInv, RInv
<1> QED
  BY Invariance, RendezvousInit, RendezvousNext, PTL DEF Safety

-----------------------------------------------------------------------------
(* What follows.                                                           *)

\* The handlers of APP_CMD_INIT_WINDOW and APP_CMD_TERM_WINDOW find in
\* android_app->window a window that exists, in every interleaving.
THEOREM GlueWindowInHandler == Safety => []WindowInHandler
<1>1. IInv /\ RInv => WindowInHandler
  BY HandFacts DEF WindowInHandler
<1> HIDE DEF IInv, RInv
<1> QED
  BY <1>1, RendezvousInvariance, PTL

\* No synchronous command outlives the callback that wrote it: a later callback
\* cannot be answered by an earlier one's command.
THEOREM GlueNoStaleCommand == Safety => []NoStaleCommand
<1>1. ASSUME IInv, RInv, mainPC = "idle"
      PROVE  pipe \in Seq(AsyncCmds)
  <2>1. Quiet(pipe)
    BY <1>1 DEF Quiet
  <2>2. pipe = [i \in 1 .. Len(pipe) |-> pipe[i]] /\ Len(pipe) \in Nat /\ DOMAIN pipe = 1 .. Len(pipe)
    BY <1>1, LenProperties
  <2>3. \A i \in 1 .. Len(pipe) : pipe[i] \in AsyncCmds
    BY <2>1, <2>2 DEF Quiet
  <2> QED
    BY <2>2, <2>3
<1>2. IInv /\ RInv => NoStaleCommand
  BY <1>1 DEF NoStaleCommand
<1> HIDE DEF IInv, RInv
<1> QED
  BY <1>2, RendezvousInvariance, PTL

\* onSaveInstanceState returns what the application stored for this request:
\* stateSaved is raised by this request's command only, and nothing frees the
\* block between the answer and the return.
THEOREM GlueSavedStateReturned == Safety => SavedStateReturned
<1>1. ASSUME IInv, RInv, [Next]_vars, callback = "SAVE_STATE", mainPC' = "idle"
      PROVE  bundle' = stored
  <2>1. mainPC \in {"check", "wait"} /\ Answered /\ MainReturn
    <3>1. ~(android_app_create \/ android_app_create_fails \/ Callback \/ Crashed \/ UNCHANGED vars)
      BY <1>1 DEF android_app_create, android_app_create_fails, Callback, Enter, onStart, onResume,
         onPause, onStop, onSaveInstanceState, onDestroy, onNativeWindowCreated,
         onNativeWindowDestroyed, onInputQueueCreated, onInputQueueDestroyed, onAsyncEvent,
         NullInstanceCallback, Crashed, vars
    <3>2. mainPC # "idle"
      BY <1>1
    <3>3. ~(App \/ process_input \/ SpuriousWakeup)
      BY <1>1, <3>2 DEF App, android_app_entry, android_main_returns, android_app_read_cmd,
         ReadCmdDiscard, android_app_pre_exec_cmd, onAppCmd, android_app_post_exec_cmd,
         process_input, process_input_done, DestroyDiscard, android_app_destroy, SpuriousWakeup
    <3>4. Main
      BY <1>1, <3>1, <3>3 DEF Next
    <3> QED
      BY <1>1, <3>4 DEF Main, MainLock, MainWriteTerm, MainOfferWindow, MainWrite, MainPost,
         MainCheck, MainWake, MainFree, MainWait
  <2>2. app.savedState = stored
    BY <1>1, <2>1 DEF Answered
  <2> QED
    BY <1>1, <2>1, <2>2 DEF MainReturn
<1>2. IInv /\ RInv /\ [Next]_vars => [callback = "SAVE_STATE" /\ mainPC' = "idle" => bundle' = stored]_vars
  BY <1>1
<1> HIDE DEF IInv, RInv
<1> QED
  BY <1>2, RendezvousInvariance, PTL DEF Safety, SavedStateReturned

-----------------------------------------------------------------------------
(* The handovers implement Handoff, without its fairness.                  *)

\* The window: a step of AppGlue is a step of Handoff or leaves its variables
\* alone.
LEMMA WindowSteps ==
  IInv /\ RInv /\ [Next]_vars => [WindowHandoff!Next]_(WindowHandoff!vars)
<1> SUFFICES ASSUME IInv, RInv, [Next]_vars,
                    ~ UNCHANGED WindowHandoff!vars
             PROVE  WindowHandoff!Next
  OBVIOUS
<1> USE DEF WindowHandoff!vars, WindowHandoff!Next, WindowHandoff!Request, WindowHandoff!Release,
            WindowHandoff!Take, WindowHandoff!Return, WindowHandoff!Reset
<1>1. CASE android_app_create
  BY <1>1 DEF android_app_create, ZeroApp
<1>2. CASE android_app_create_fails
  BY <1>2 DEF android_app_create_fails
<1>3. CASE Callback
  BY <1>3 DEF Callback, Enter, onStart, onResume,
         onPause, onStop, onSaveInstanceState, onDestroy, onNativeWindowCreated,
         onNativeWindowDestroyed, onInputQueueCreated, onInputQueueDestroyed, onAsyncEvent,
         NullInstanceCallback
<1>4. CASE MainLock
  BY <1>4 DEF MainLock, Prepared
<1>5. CASE MainOfferWindow
  BY <1>5 DEF MainOfferWindow
<1>6. CASE MainWriteTerm \/ MainWrite \/ MainPost \/ MainFree \/ SpuriousWakeup
  BY <1>6 DEF MainWriteTerm, MainWrite, MainPost, MainFree, SpuriousWakeup
<1>7. CASE MainCheck \/ MainWake
  BY <1>7 DEF MainCheck, MainWake, MainWait, MainReturn, Answered
<1>8. CASE android_app_pre_exec_cmd
  BY <1>8, HandFacts DEF android_app_pre_exec_cmd, PreInputChanged, PreInitWindow, PreTermWindow,
     PreLifecycle, PreDestroy, PreOther
<1>9. CASE android_app_post_exec_cmd
  BY <1>9, HandFacts DEF android_app_post_exec_cmd, PostTermWindow, PostSaveState, PostResume,
     PostOther, free_saved_state
<1>10. CASE onAppCmd \/ ReadCmdDiscard \/ DestroyDiscard
  BY <1>10 DEF onAppCmd, ReadCmdDiscard, DestroyDiscard, free_saved_state
<1>11. CASE \/ android_app_entry \/ android_main_returns \/ android_app_read_cmd
            \/ process_input \/ process_input_done \/ android_app_destroy
  BY <1>11 DEF android_app_entry, android_main_returns, android_app_read_cmd, process_input,
     process_input_done, android_app_destroy
<1>12. ~(Crashed \/ UNCHANGED vars)
  BY DEF Crashed, vars
<1> QED
  BY <1>1, <1>2, <1>3, <1>4, <1>5, <1>6, <1>7, <1>8, <1>9, <1>10, <1>11, <1>12
  DEF Next, Main, App

\* The window is handed over as Handoff says: it changes only inside a callback,
\* towards the window that callback brought, by way of NULL if need be.
THEOREM GlueWindowHandoff == Safety => WindowHandoff!Safety
<1>1. Init => WindowHandoff!Init
  BY DEF Init, ZeroApp, WindowHandoff!Init
<1> HIDE DEF IInv, RInv
<1> QED
  BY <1>1, WindowSteps, RendezvousInvariance, PTL DEF Safety, WindowHandoff!Safety

\* The same for the input queue.
LEMMA QueueSteps ==
  IInv /\ RInv /\ [Next]_vars => [QueueHandoff!Next]_(QueueHandoff!vars)
<1> SUFFICES ASSUME IInv, RInv, [Next]_vars,
                    ~ UNCHANGED QueueHandoff!vars
             PROVE  QueueHandoff!Next
  OBVIOUS
<1> USE DEF QueueHandoff!vars, QueueHandoff!Next, QueueHandoff!Request, QueueHandoff!Release,
            QueueHandoff!Take, QueueHandoff!Return, QueueHandoff!Reset
<1>1. CASE android_app_create
  BY <1>1 DEF android_app_create, ZeroApp
<1>2. CASE android_app_create_fails
  BY <1>2 DEF android_app_create_fails
<1>3. CASE Callback
  BY <1>3 DEF Callback, Enter, onStart, onResume,
         onPause, onStop, onSaveInstanceState, onDestroy, onNativeWindowCreated,
         onNativeWindowDestroyed, onInputQueueCreated, onInputQueueDestroyed, onAsyncEvent,
         NullInstanceCallback
<1>4. CASE MainLock
  BY <1>4 DEF MainLock, Prepared
<1>5. CASE MainOfferWindow
  BY <1>5 DEF MainOfferWindow
<1>6. CASE MainWriteTerm \/ MainWrite \/ MainPost \/ MainFree \/ SpuriousWakeup
  BY <1>6 DEF MainWriteTerm, MainWrite, MainPost, MainFree, SpuriousWakeup
<1>7. CASE MainCheck \/ MainWake
  BY <1>7 DEF MainCheck, MainWake, MainWait, MainReturn, Answered
<1>8. CASE android_app_pre_exec_cmd
  BY <1>8, HandFacts DEF android_app_pre_exec_cmd, PreInputChanged, PreInitWindow, PreTermWindow,
     PreLifecycle, PreDestroy, PreOther
<1>9. CASE android_app_post_exec_cmd
  BY <1>9, HandFacts DEF android_app_post_exec_cmd, PostTermWindow, PostSaveState, PostResume,
     PostOther, free_saved_state
<1>10. CASE onAppCmd \/ ReadCmdDiscard \/ DestroyDiscard
  BY <1>10 DEF onAppCmd, ReadCmdDiscard, DestroyDiscard, free_saved_state
<1>11. CASE \/ android_app_entry \/ android_main_returns \/ android_app_read_cmd
            \/ process_input \/ process_input_done \/ android_app_destroy
  BY <1>11 DEF android_app_entry, android_main_returns, android_app_read_cmd, process_input,
     process_input_done, android_app_destroy
<1>12. ~(Crashed \/ UNCHANGED vars)
  BY DEF Crashed, vars
<1> QED
  BY <1>1, <1>2, <1>3, <1>4, <1>5, <1>6, <1>7, <1>8, <1>9, <1>10, <1>11, <1>12
  DEF Next, Main, App

\* The input queue is handed over as Handoff says.
THEOREM GlueQueueHandoff == Safety => QueueHandoff!Safety
<1>1. Init => QueueHandoff!Init
  BY DEF Init, ZeroApp, QueueHandoff!Init
<1> HIDE DEF IInv, RInv
<1> QED
  BY <1>1, QueueSteps, RendezvousInvariance, PTL DEF Safety, QueueHandoff!Safety

\* The same for the lifecycle state.
LEMMA StateSteps ==
  IInv /\ RInv /\ [Next]_vars => [StateHandoff!Next]_(StateHandoff!vars)
<1> SUFFICES ASSUME IInv, RInv, [Next]_vars,
                    ~ UNCHANGED StateHandoff!vars
             PROVE  StateHandoff!Next
  OBVIOUS
<1> USE DEF StateHandoff!vars, StateHandoff!Next, StateHandoff!Request, StateHandoff!Release,
            StateHandoff!Take, StateHandoff!Return, StateHandoff!Reset
<1>1. CASE android_app_create
  BY <1>1 DEF android_app_create, ZeroApp
<1>2. CASE android_app_create_fails
  BY <1>2 DEF android_app_create_fails
<1>3. CASE Callback
  BY <1>3 DEF Callback, Enter, onStart, onResume,
         onPause, onStop, onSaveInstanceState, onDestroy, onNativeWindowCreated,
         onNativeWindowDestroyed, onInputQueueCreated, onInputQueueDestroyed, onAsyncEvent,
         NullInstanceCallback
<1>4. CASE MainLock
  BY <1>4 DEF MainLock, Prepared
<1>5. CASE MainOfferWindow
  BY <1>5 DEF MainOfferWindow
<1>6. CASE MainWriteTerm \/ MainWrite \/ MainPost \/ MainFree \/ SpuriousWakeup
  BY <1>6 DEF MainWriteTerm, MainWrite, MainPost, MainFree, SpuriousWakeup
<1>7. CASE MainCheck \/ MainWake
  BY <1>7 DEF MainCheck, MainWake, MainWait, MainReturn, Answered
<1>8. CASE android_app_pre_exec_cmd
  BY <1>8, HandFacts DEF android_app_pre_exec_cmd, PreInputChanged, PreInitWindow, PreTermWindow,
     PreLifecycle, PreDestroy, PreOther
<1>9. CASE android_app_post_exec_cmd
  BY <1>9, HandFacts DEF android_app_post_exec_cmd, PostTermWindow, PostSaveState, PostResume,
     PostOther, free_saved_state
<1>10. CASE onAppCmd \/ ReadCmdDiscard \/ DestroyDiscard
  BY <1>10 DEF onAppCmd, ReadCmdDiscard, DestroyDiscard, free_saved_state
<1>11. CASE \/ android_app_entry \/ android_main_returns \/ android_app_read_cmd
            \/ process_input \/ process_input_done \/ android_app_destroy
  BY <1>11 DEF android_app_entry, android_main_returns, android_app_read_cmd, process_input,
     process_input_done, android_app_destroy
<1>12. ~(Crashed \/ UNCHANGED vars)
  BY DEF Crashed, vars
<1> QED
  BY <1>1, <1>2, <1>3, <1>4, <1>5, <1>6, <1>7, <1>8, <1>9, <1>10, <1>11, <1>12
  DEF Next, Main, App

\* The lifecycle state is handed over as Handoff says: a callback that
\* android_app_set_activity_state serves returns only when App is in its state.
THEOREM GlueStateHandoff == Safety => StateHandoff!Safety
<1>1. Init => StateHandoff!Init
  BY DEF Init, ZeroApp, StateHandoff!Init
<1> HIDE DEF IInv, RInv
<1> QED
  BY <1>1, StateSteps, RendezvousInvariance, PTL DEF Safety, StateHandoff!Safety
=============================================================================
