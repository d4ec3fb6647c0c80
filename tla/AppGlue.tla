------------------------------ MODULE AppGlue ------------------------------
(***************************************************************************)
(* android_native_app_glue.c: the activity's main thread (Main) runs the   *)
(* ANativeActivity callbacks, the application thread (App) runs            *)
(* android_main.  They share struct android_app, guarded by one mutex and  *)
(* one condition variable, and a pipe of one-byte commands from Main to    *)
(* App.                                                                    *)
(*                                                                         *)
(* A critical section of App contains nothing that blocks and is one       *)
(* action, enabled when the mutex is free.  A critical section of Main     *)
(* writes to the pipe while it holds the mutex, and a write to a full pipe *)
(* blocks, so the sections of Main are split at each write and each wait.  *)
(***************************************************************************)
EXTENDS Integers, Sequences

CONSTANTS
  Windows,       \* the ANativeWindow pointers the system hands out
  Queues,        \* the AInputQueue pointers the system hands out
  Data,          \* contents of a saved state
  AsyncCmds,     \* commands the callbacks write without waiting
  PipeCap,       \* capacity of the command pipe (65536 on Linux)
  MaxAsync,      \* bound: commands unread when an asynchronous one is written
  EmptyMain,     \* TRUE: android_main returns at once, as in hook.cpp
  NULL

LifeCmds == {"START", "RESUME", "PAUSE", "STOP"}
SyncCmds == LifeCmds \cup {"INPUT_CHANGED", "INIT_WINDOW", "TERM_WINDOW", "SAVE_STATE", "DESTROY"}
Cmds == SyncCmds \cup AsyncCmds

ASSUME ConstantsAssumption ==
  /\ NULL \notin Windows \cup Queues \cup Data
             \cup Cmds \cup {"CREATE", "WINDOW", "INPUT"}
  /\ AsyncCmds \subseteq {"CONFIG_CHANGED", "LOW_MEMORY", "GAINED_FOCUS", "LOST_FOCUS"}
  /\ PipeCap \in Nat \ {0}
  /\ MaxAsync \in Nat
  /\ EmptyMain \in BOOLEAN

VARIABLES
  app,          \* the fields of struct android_app both threads use
  object,       \* its block: "none" (activity->instance is NULL), "live", "freed"
  blocks,       \* number of malloc'ed saved-state blocks not yet freed
  pipe,         \* unread commands
  mutex,        \* "free" or "main": who holds it between two actions
  signalled,    \* a broadcast since Main began to wait
  attached,     \* the input queues attached to App's looper
  mainPC, callback, arg,    \* Main: where it is, in which callback, with what
  appPC, cmd,               \* App: where it is, and the command in hand
  life,         \* framework: state of the activity in its lifecycle
  liveWindows, liveQueues,  \* framework: windows and queues that exist
  bundle,       \* framework: the state saved last, for the next activity
  stored        \* application: the state it stored last

heapVars == <<object, blocks>>
syncVars == <<mutex, signalled>>
callVars == <<callback, arg>>
liveVars == <<liveWindows, liveQueues>>
sysVars == <<life, liveVars, bundle>>
vars == <<app, heapVars, pipe, syncVars, attached, mainPC, callVars, appPC, cmd, sysVars,
          stored>>

\* struct android_app after memset.
ZeroApp ==
  [window |-> NULL, pendingWindow |-> NULL,
   inputQueue |-> NULL, pendingInputQueue |-> NULL,
   activityState |-> NULL, savedState |-> NULL, stateSaved |-> FALSE,
   running |-> FALSE, destroyed |-> FALSE, destroyRequested |-> FALSE]

\* Nothing is called before ANativeActivity_onCreate; the framework may hold
\* a state that an earlier process saved.
Init ==
  /\ app = ZeroApp
  /\ object = "none" /\ blocks = 0
  /\ pipe = <<>> /\ mutex = "free" /\ signalled = FALSE /\ attached = {}
  /\ mainPC = "off" /\ callback = NULL /\ arg = NULL
  /\ appPC = "off" /\ cmd = NULL
  /\ life = "off" /\ liveWindows = {} /\ liveQueues = {}
  /\ bundle \in Data \cup {NULL} /\ stored = NULL

-----------------------------------------------------------------------------
(* Main: ANativeActivity_onCreate and android_app_create.                  *)

\* malloc, memset, the copy of the state passed in, pipe(), pthread_create;
\* then Main waits for App to report that it runs.
android_app_create ==
  /\ mainPC = "off"
  /\ object' = "live"
  /\ app' = [ZeroApp EXCEPT !.savedState = bundle]
  /\ blocks' = IF bundle = NULL THEN blocks ELSE blocks + 1
  /\ pipe' = <<>>
  /\ appPC' = "entry"
  /\ mainPC' = "wait" /\ callback' = "CREATE" /\ signalled' = FALSE
  /\ life' = "created"
  /\ stored' = bundle
  /\ UNCHANGED <<mutex, attached, arg, cmd, liveVars, bundle>>

\* pipe() fails: activity->instance becomes NULL; the android_app block and
\* the copied state are never freed.
android_app_create_fails ==
  /\ mainPC = "off"
  /\ object' = "none"
  /\ blocks' = IF bundle = NULL THEN blocks ELSE blocks + 1
  /\ mainPC' = "idle"
  /\ life' = "created"
  /\ UNCHANGED <<app, pipe, syncVars, attached, callVars, appPC, cmd, liveVars, bundle,
                 stored>>

-----------------------------------------------------------------------------
(* The callbacks.  Which one may come when is the framework's contract     *)
(* (external): the order of an activity's lifecycle, and a surface or a    *)
(* queue is taken away before onDestroy.                                   *)

Enter(name, value, pc) ==
  /\ mainPC = "idle" /\ object = "live"
  /\ mainPC' = pc /\ callback' = name /\ arg' = value
  /\ UNCHANGED <<app, heapVars, pipe, syncVars, attached, appPC, cmd, bundle, stored>>

onStart ==
  /\ life \in {"created", "stopped"}
  /\ Enter("START", NULL, "lock")
  /\ life' = "started" /\ UNCHANGED liveVars

onResume ==
  /\ life \in {"started", "paused"}
  /\ Enter("RESUME", NULL, "lock")
  /\ life' = "resumed" /\ UNCHANGED liveVars

onPause ==
  /\ life = "resumed"
  /\ Enter("PAUSE", NULL, "lock")
  /\ life' = "paused" /\ UNCHANGED liveVars

onStop ==
  /\ life \in {"started", "paused"}
  /\ Enter("STOP", NULL, "lock")
  /\ life' = "stopped" /\ UNCHANGED liveVars

onSaveInstanceState ==
  /\ life \in {"paused", "stopped"}
  /\ Enter("SAVE_STATE", NULL, "lock")
  /\ UNCHANGED <<life, liveVars>>

onDestroy ==
  /\ life \in {"created", "stopped"} /\ liveWindows = {} /\ liveQueues = {}
  /\ Enter("DESTROY", NULL, "lock")
  /\ life' = "off" /\ UNCHANGED liveVars

\* The new window exists from now on; one it replaces exists until the
\* callback returns.
onNativeWindowCreated ==
  \E w \in Windows \ liveWindows :
    /\ Enter("WINDOW", w, "lock")
    /\ liveWindows' = liveWindows \cup {w} /\ UNCHANGED <<life, liveQueues>>

onNativeWindowDestroyed ==
  /\ liveWindows # {}
  /\ Enter("WINDOW", NULL, "lock")
  /\ UNCHANGED <<life, liveVars>>

onInputQueueCreated ==
  \E q \in Queues \ liveQueues :
    /\ Enter("INPUT", q, "lock")
    /\ liveQueues' = liveQueues \cup {q} /\ UNCHANGED <<life, liveWindows>>

onInputQueueDestroyed ==
  /\ liveQueues # {}
  /\ Enter("INPUT", NULL, "lock")
  /\ UNCHANGED <<life, liveVars>>

\* onConfigurationChanged, onLowMemory, onWindowFocusChanged: a write with
\* neither lock nor wait.
onAsyncEvent ==
  \E c \in AsyncCmds :
    /\ Len(pipe) < MaxAsync
    /\ Enter(c, NULL, "post")
    /\ UNCHANGED <<life, liveVars>>

\* activity->instance is NULL: whichever callback comes next dereferences it.
NullInstanceCallback ==
  /\ mainPC = "idle" /\ object = "none"
  /\ mainPC' = "crashed"
  /\ UNCHANGED <<app, heapVars, pipe, syncVars, attached, callVars, appPC, cmd, sysVars,
                 stored>>

-----------------------------------------------------------------------------
(* Main: the body of the callbacks.                                        *)

\* write() on the pipe blocks while it is full.  A write that fails (EINTR; the
\* pipe is open as long as android_app exists) is left out: the code logs it and
\* goes on, and a callback that waits then waits for ever.
android_app_write_cmd(c) ==
  /\ Len(pipe) < PipeCap
  /\ pipe' = Append(pipe, c)

\* The command a callback writes last.
CommandOf(name) ==
  CASE name = "WINDOW" -> "INIT_WINDOW"
    [] name = "INPUT" -> "INPUT_CHANGED"
    [] OTHER -> name

\* Mutant: onSaveInstanceState forgets stateSaved = 0.
BugFlagNotReset ==
  IF callback = "INPUT" THEN [app EXCEPT !.pendingInputQueue = arg] ELSE app

\* What a callback assigns once it holds the mutex, before its first write.
Prepared ==
  CASE callback = "INPUT" -> [app EXCEPT !.pendingInputQueue = arg]
    [] callback = "SAVE_STATE" -> [app EXCEPT !.stateSaved = FALSE]
    [] OTHER -> app

MainLock ==
  /\ mainPC = "lock" /\ mutex = "free"
  /\ mutex' = "main"
  /\ app' = Prepared
  /\ mainPC' = IF callback # "WINDOW" THEN "write"
               ELSE IF app.pendingWindow # NULL THEN "term" ELSE "offer"
  /\ UNCHANGED <<heapVars, pipe, signalled, attached, callVars, appPC, cmd, sysVars, stored>>

\* android_app_set_window: the old window is terminated first.
MainWriteTerm ==
  /\ mainPC = "term"
  /\ android_app_write_cmd("TERM_WINDOW")
  /\ mainPC' = "offer"
  /\ UNCHANGED <<app, heapVars, syncVars, attached, callVars, appPC, cmd, sysVars, stored>>

\* android_app_set_window: INIT_WINDOW follows only for a window, not for NULL.
MainOfferWindow ==
  /\ mainPC = "offer"
  /\ app' = [app EXCEPT !.pendingWindow = arg]
  /\ mainPC' = IF arg = NULL THEN "check" ELSE "write"
  /\ UNCHANGED <<heapVars, pipe, syncVars, attached, callVars, appPC, cmd, sysVars, stored>>

MainWrite ==
  /\ mainPC = "write"
  /\ android_app_write_cmd(CommandOf(callback))
  /\ mainPC' = "check"
  /\ UNCHANGED <<app, heapVars, syncVars, attached, callVars, appPC, cmd, sysVars, stored>>

MainPost ==
  /\ mainPC = "post"
  /\ android_app_write_cmd(callback)
  /\ mainPC' = "idle" /\ callback' = NULL
  /\ UNCHANGED <<app, heapVars, syncVars, attached, arg, appPC, cmd, sysVars, stored>>

\* Mutant: android_app_free waits for destroyRequested instead of destroyed.
BugAnsweredOnRequest ==
  CASE callback = "CREATE" -> app.running
    [] callback \in LifeCmds -> app.activityState = callback
    [] callback = "WINDOW" -> app.window = app.pendingWindow
    [] callback = "INPUT" -> app.inputQueue = app.pendingInputQueue
    [] callback = "SAVE_STATE" -> app.stateSaved
    [] OTHER -> app.destroyRequested

\* Mutant: window, input and lifecycle callbacks do not wait for App.
BugAnsweredAtOnce ==
  CASE callback = "CREATE" -> app.running
    [] callback = "SAVE_STATE" -> app.stateSaved
    [] callback = "DESTROY" -> app.destroyed
    [] OTHER -> TRUE

\* What each callback's wait loop waits for.
Answered ==
  CASE callback = "CREATE" -> app.running
    [] callback \in LifeCmds -> app.activityState = callback
    [] callback = "WINDOW" -> app.window = app.pendingWindow
    [] callback = "INPUT" -> app.inputQueue = app.pendingInputQueue
    [] callback = "SAVE_STATE" -> app.stateSaved
    [] OTHER -> app.destroyed

\* The callback leaves its wait loop.  onSaveInstanceState hands the block to
\* the framework, which copies and frees it; a window or queue that is taken
\* away ceases to exist; the rest of android_app_free is a step of its own.
MainReturn ==
  /\ mutex' = "free"
  /\ IF callback = "DESTROY" THEN mainPC' = "close" /\ UNCHANGED callVars
     ELSE mainPC' = "idle" /\ callback' = NULL /\ arg' = NULL
  /\ IF callback = "SAVE_STATE"
     THEN /\ bundle' = app.savedState
          /\ app' = [app EXCEPT !.savedState = NULL]
          /\ blocks' = IF app.savedState = NULL THEN blocks ELSE blocks - 1
     ELSE UNCHANGED <<bundle, app, blocks>>
  /\ liveWindows' = IF callback = "WINDOW" THEN {arg} \ {NULL} ELSE liveWindows
  /\ liveQueues' = IF callback = "INPUT" THEN {arg} \ {NULL} ELSE liveQueues
  /\ UNCHANGED <<object, pipe, signalled, attached, appPC, cmd, life, stored>>

\* pthread_cond_wait releases the mutex.
MainWait ==
  /\ mutex' = "free" /\ signalled' = FALSE /\ mainPC' = "wait"
  /\ UNCHANGED <<app, heapVars, pipe, attached, callVars, appPC, cmd, sysVars, stored>>

\* The first test of the loop.
MainCheck ==
  /\ mainPC = "check"
  /\ IF Answered THEN MainReturn ELSE MainWait

\* A wakeup: the mutex is taken again and the condition tested again.
MainWake ==
  /\ mainPC = "wait" /\ mutex = "free" /\ signalled
  /\ IF Answered THEN MainReturn ELSE MainWait

\* pthread_cond_wait may wake up without a broadcast.
SpuriousWakeup ==
  /\ mainPC = "wait" /\ ~signalled
  /\ signalled' = TRUE
  /\ UNCHANGED <<app, heapVars, pipe, mutex, attached, mainPC, callVars, appPC, cmd, sysVars,
                 stored>>

\* android_app_free after the unlock: close both ends of the pipe, destroy the
\* mutex and the condition variable, free.
MainFree ==
  /\ mainPC = "close"
  /\ object' = "freed" /\ pipe' = <<>>
  /\ mainPC' = "off" /\ callback' = NULL
  /\ UNCHANGED <<app, blocks, syncVars, attached, arg, appPC, cmd, sysVars, stored>>

-----------------------------------------------------------------------------
(* App: android_app_entry and the commands.                                *)

\* Mutant: pthread_cond_broadcast is forgotten.
BugNoBroadcast == signalled' = signalled

Broadcast == signalled' = TRUE

\* Mutant: the pointer is not reset to NULL after free.
BugFreeKeepsPointer ==
  /\ app' = app
  /\ blocks' = IF app.savedState = NULL THEN blocks ELSE blocks - 1

\* free_saved_state, the body of its critical section.
free_saved_state ==
  /\ app' = [app EXCEPT !.savedState = NULL]
  /\ blocks' = IF app.savedState = NULL THEN blocks ELSE blocks - 1

\* Configuration and looper are set up, then running = 1.
android_app_entry ==
  /\ appPC = "entry" /\ mutex = "free"
  /\ app' = [app EXCEPT !.running = TRUE]
  /\ Broadcast
  /\ appPC' = "main"
  /\ UNCHANGED <<heapVars, pipe, mutex, attached, mainPC, callVars, cmd, sysVars, stored>>

\* android_main: empty in hook.cpp; otherwise (external) an event loop that
\* returns once destroyRequested is set.
android_main_returns ==
  /\ appPC = "main"
  /\ EmptyMain \/ app.destroyRequested
  /\ appPC' = "destroy"
  /\ UNCHANGED <<app, heapVars, pipe, syncVars, attached, mainPC, callVars, cmd, sysVars,
                 stored>>

Polling == appPC = "main" /\ ~EmptyMain /\ ~app.destroyRequested

\* The looper reports the pipe: process_cmd reads one command.
android_app_read_cmd ==
  /\ Polling
  /\ pipe # <<>>
  /\ cmd' = Head(pipe) /\ pipe' = Tail(pipe)
  /\ appPC' = IF Head(pipe) = "SAVE_STATE" THEN "discard" ELSE "pre"
  /\ UNCHANGED <<app, heapVars, syncVars, attached, mainPC, callVars, sysVars, stored>>

\* android_app_read_cmd for SAVE_STATE: the old state is dropped before the
\* application stores a new one.
ReadCmdDiscard ==
  /\ appPC = "discard" /\ mutex = "free"
  /\ free_saved_state
  /\ appPC' = "pre"
  /\ UNCHANGED <<object, pipe, syncVars, attached, mainPC, callVars, cmd, sysVars, stored>>

\* Mutant: the new queue is attached without the NULL test.
BugAttachUntested(old, new) == (attached \ {old}) \cup {new}

\* Mutant: the old queue is not detached.
BugNotDetached(old, new) == attached \cup ({new} \ {NULL})

\* The old queue leaves the looper, the new one joins it.
Attach(old, new) == (attached \ {old}) \cup ({new} \ {NULL})

PreInputChanged ==
  /\ cmd = "INPUT_CHANGED" /\ mutex = "free"
  /\ app' = [app EXCEPT !.inputQueue = app.pendingInputQueue]
  /\ attached' = Attach(app.inputQueue, app.pendingInputQueue)
  /\ Broadcast

PreInitWindow ==
  /\ cmd = "INIT_WINDOW" /\ mutex = "free"
  /\ app' = [app EXCEPT !.window = app.pendingWindow]
  /\ Broadcast /\ UNCHANGED attached

\* Mutant: the window is cleared before the handler runs.
BugTermWindowEarly ==
  /\ cmd = "TERM_WINDOW" /\ mutex = "free"
  /\ app' = [app EXCEPT !.window = NULL]
  /\ Broadcast /\ UNCHANGED attached

\* A broadcast without the mutex.
PreTermWindow ==
  /\ cmd = "TERM_WINDOW"
  /\ Broadcast /\ UNCHANGED <<app, attached>>

PreLifecycle ==
  /\ cmd \in LifeCmds /\ mutex = "free"
  /\ app' = [app EXCEPT !.activityState = cmd]
  /\ Broadcast /\ UNCHANGED attached

\* destroyRequested is set without the mutex.
PreDestroy ==
  /\ cmd = "DESTROY"
  /\ app' = [app EXCEPT !.destroyRequested = TRUE]
  /\ UNCHANGED <<signalled, attached>>

\* CONFIG_CHANGED reloads the configuration; the others do nothing.
PreOther ==
  /\ cmd \in AsyncCmds \cup {"SAVE_STATE"}
  /\ UNCHANGED <<app, signalled, attached>>

android_app_pre_exec_cmd ==
  /\ appPC = "pre"
  /\ \/ PreInputChanged \/ PreInitWindow \/ PreTermWindow
     \/ PreLifecycle \/ PreDestroy \/ PreOther
  /\ appPC' = "exec"
  /\ UNCHANGED <<heapVars, pipe, mutex, mainPC, callVars, cmd, sysVars, stored>>

\* The application's handler (external): for SAVE_STATE it may malloc a block
\* and place it in savedState.
onAppCmd ==
  /\ appPC = "exec"
  /\ appPC' = "post"
  /\ \/ \E d \in Data :
          /\ cmd = "SAVE_STATE"
          /\ stored' = d
          /\ app' = [app EXCEPT !.savedState = d]
          /\ blocks' = blocks + 1
     \/ /\ stored' = IF cmd = "SAVE_STATE" THEN NULL ELSE stored
        /\ UNCHANGED <<app, blocks>>
  /\ UNCHANGED <<object, pipe, syncVars, attached, mainPC, callVars, cmd, sysVars>>

PostTermWindow ==
  /\ cmd = "TERM_WINDOW" /\ mutex = "free"
  /\ app' = [app EXCEPT !.window = NULL]
  /\ Broadcast /\ UNCHANGED blocks

PostSaveState ==
  /\ cmd = "SAVE_STATE" /\ mutex = "free"
  /\ app' = [app EXCEPT !.stateSaved = TRUE]
  /\ Broadcast /\ UNCHANGED blocks

PostResume ==
  /\ cmd = "RESUME" /\ mutex = "free"
  /\ free_saved_state
  /\ UNCHANGED signalled

PostOther ==
  /\ cmd \notin {"TERM_WINDOW", "SAVE_STATE", "RESUME"}
  /\ UNCHANGED <<app, blocks, signalled>>

android_app_post_exec_cmd ==
  /\ appPC = "post"
  /\ PostTermWindow \/ PostSaveState \/ PostResume \/ PostOther
  /\ appPC' = "main" /\ cmd' = NULL
  /\ UNCHANGED <<object, pipe, mutex, attached, mainPC, callVars, sysVars, stored>>

\* The looper reports an event: process_input takes it from inputQueue, runs
\* onInputEvent and finishes it, all without the mutex.
process_input ==
  /\ Polling
  /\ attached # {}
  /\ appPC' = "input"
  /\ UNCHANGED <<app, heapVars, pipe, syncVars, attached, mainPC, callVars, cmd, sysVars,
                 stored>>

process_input_done ==
  /\ appPC = "input"
  /\ appPC' = "main"
  /\ UNCHANGED <<app, heapVars, pipe, syncVars, attached, mainPC, callVars, cmd, sysVars,
                 stored>>

\* android_app_destroy begins with free_saved_state ...
DestroyDiscard ==
  /\ appPC = "destroy" /\ mutex = "free"
  /\ free_saved_state
  /\ appPC' = "destroyed"
  /\ UNCHANGED <<object, pipe, syncVars, attached, mainPC, callVars, cmd, sysVars, stored>>

\* ... then detaches the input queue and reports destroyed; App ends.
android_app_destroy ==
  /\ appPC = "destroyed" /\ mutex = "free"
  /\ attached' = attached \ {app.inputQueue}
  /\ app' = [app EXCEPT !.destroyed = TRUE]
  /\ Broadcast
  /\ appPC' = "off"
  /\ UNCHANGED <<heapVars, pipe, mutex, mainPC, callVars, cmd, sysVars, stored>>

-----------------------------------------------------------------------------
Callback ==
  \/ onStart \/ onResume \/ onPause \/ onStop \/ onSaveInstanceState \/ onDestroy
  \/ onNativeWindowCreated \/ onNativeWindowDestroyed
  \/ onInputQueueCreated \/ onInputQueueDestroyed
  \/ onAsyncEvent \/ NullInstanceCallback

Main ==
  \/ MainLock \/ MainWriteTerm \/ MainOfferWindow \/ MainWrite \/ MainPost
  \/ MainCheck \/ MainWake \/ MainFree

App ==
  \/ android_app_entry \/ android_main_returns
  \/ android_app_read_cmd \/ ReadCmdDiscard
  \/ android_app_pre_exec_cmd \/ onAppCmd \/ android_app_post_exec_cmd
  \/ process_input_done
  \/ DestroyDiscard \/ android_app_destroy

\* The process is dead.
Crashed == mainPC = "crashed" /\ UNCHANGED vars

Next ==
  \/ android_app_create \/ android_app_create_fails
  \/ Callback \/ Main \/ SpuriousWakeup \/ App \/ process_input \/ Crashed

Safety == Init /\ [][Next]_vars

\* Each thread keeps running while it can, and a pipe that stays readable is
\* reported in spite of input events.  The framework may stop calling, no
\* input event need arrive, and nothing promises a spurious wakeup.
Spec == Safety /\ WF_vars(Main) /\ WF_vars(App) /\ SF_vars(android_app_read_cmd)

-----------------------------------------------------------------------------
(* Properties.                                                             *)

Calls == LifeCmds \cup AsyncCmds \cup {"CREATE", "WINDOW", "INPUT", "SAVE_STATE", "DESTROY"}
MainPCs == {"off", "idle", "lock", "term", "offer", "write", "post", "check", "wait",
            "close", "crashed"}
AppPCs == {"off", "entry", "main", "input", "discard", "pre", "exec", "post", "destroy",
           "destroyed"}

AppRecords ==
  [window : Windows \cup {NULL}, pendingWindow : Windows \cup {NULL},
   inputQueue : Queues \cup {NULL}, pendingInputQueue : Queues \cup {NULL},
   activityState : LifeCmds \cup {NULL}, savedState : Data \cup {NULL},
   stateSaved : BOOLEAN, running : BOOLEAN, destroyed : BOOLEAN, destroyRequested : BOOLEAN]

SharedType ==
  /\ object \in {"none", "live", "freed"} /\ blocks \in Int
  /\ pipe \in Seq(Cmds) /\ mutex \in {"free", "main"} /\ signalled \in BOOLEAN
  /\ attached \in SUBSET Queues

ThreadType ==
  /\ mainPC \in MainPCs /\ callback \in Calls \cup {NULL}
  /\ callback = "WINDOW" => arg \in Windows \cup {NULL}
  /\ callback = "INPUT" => arg \in Queues \cup {NULL}
  /\ callback \notin {"WINDOW", "INPUT"} => arg = NULL
  /\ appPC \in AppPCs /\ cmd \in Cmds \cup {NULL}

SystemType ==
  /\ life \in {"off", "created", "started", "resumed", "paused", "stopped"}
  /\ liveWindows \in SUBSET Windows /\ liveQueues \in SUBSET Queues
  /\ bundle \in Data \cup {NULL} /\ stored \in Data \cup {NULL}

\* Every variable has its type: pointers are NULL or a pointer the framework
\* handed out, commands are APP_CMD_* values.
TypeOK == app \in AppRecords /\ SharedType /\ ThreadType /\ SystemType

\* "Can't touch android_app object after this": App has left before Main
\* frees the block, and no callback of Main goes on in a freed one.  (After a
\* failed pipe() there is none, and the next callback faults at once: that is
\* mainPC = "crashed", which this property leaves alone.)
NoUseAfterFree ==
  /\ appPC # "off" => object = "live"
  /\ mainPC \notin {"off", "idle", "crashed"} => object = "live"

\* android_app->window is NULL or a window the framework has not taken back:
\* onNativeWindowDestroyed does not return while App still holds the window.
WindowAlive ==
  appPC # "off" => app.window \in liveWindows \cup {NULL}

\* The looper never watches, and process_input never reads, a queue that the
\* framework has taken back with onInputQueueDestroyed.
QueueAlive ==
  /\ attached \subseteq liveQueues
  /\ appPC = "input" => app.inputQueue \in liveQueues

\* What the header promises the APP_CMD_INIT_WINDOW and APP_CMD_TERM_WINDOW
\* handlers: android_app->window holds the new window, or still the existing
\* one, and the framework keeps it until the handler has returned.
WindowInHandler ==
  appPC = "exec" /\ cmd \in {"INIT_WINDOW", "TERM_WINDOW"} => app.window \in liveWindows

\* The saved state is malloc'ed and freed exactly once: while android_app
\* lives there is a block exactly when savedState points to it, and none is
\* left when android_app is freed.
SavedStateBlock ==
  /\ object = "live" => blocks = IF app.savedState = NULL THEN 0 ELSE 1
  /\ object = "freed" => blocks = 0

\* onSaveInstanceState returns the very state the application stored while it
\* handled this request: neither an older one nor nothing.
SavedStateReturned ==
  [][callback = "SAVE_STATE" /\ mainPC' = "idle" => bundle' = stored]_vars

\* When a callback that waits has returned, App has read its command: between
\* callbacks only asynchronous commands are unread.
NoStaleCommand ==
  mainPC = "idle" => pipe \in Seq(AsyncCmds)

\* Every callback returns to the framework.
CallbackReturns ==
  mainPC \notin {"off", "idle", "crashed"} ~> mainPC \in {"off", "idle"}

\* The three handovers are synchronous rendezvous, see Handoff.
WindowHandoff == INSTANCE Handoff WITH
  Values <- Windows, None <- NULL, offered <- app.pendingWindow, held <- app.window,
  calling <- callback = "WINDOW" /\ mainPC \in {"write", "check", "wait"}

QueueHandoff == INSTANCE Handoff WITH
  Values <- Queues, None <- NULL,
  offered <- app.pendingInputQueue, held <- app.inputQueue,
  calling <- callback = "INPUT" /\ mainPC \in {"write", "check", "wait"}

StateHandoff == INSTANCE Handoff WITH
  Values <- LifeCmds, None <- NULL, held <- app.activityState,
  offered <- IF callback \in LifeCmds THEN callback ELSE app.activityState,
  calling <- callback \in LifeCmds

\* The window is handed over synchronously: it changes only inside a callback
\* of the framework, towards the window that callback brought, and the
\* callback returns.
WindowImplementsHandoff == WindowHandoff!Spec

\* The same for the input queue.
QueueImplementsHandoff == QueueHandoff!Spec

\* The same for the lifecycle state that android_app_set_activity_state sets.
StateImplementsHandoff == StateHandoff!Spec
=============================================================================
