-------------------------- MODULE Bootstrap --------------------------
(* The library's start: _init creates main_thread, which waits for         *)
(* libUE4.so, looks six symbols up, replaces the input handler of the      *)
(* engine's android_app and installs two hooks, while the loader brings    *)
(* libUE4 into the process, the engine initialises itself and its          *)
(* application thread dispatches input events.                             *)
(*                                                                         *)
(* External: the loader and the engine.  DobbyHook is one step here; its   *)
(* own steps are InlineHook's.                                             *)
EXTENDS Resolver

CONSTANTS
  Worlds,       \* what may be in the process: records, see Init
  UE,           \* the path of libUE4.so
  Named,        \* the paths that contain "libUE4.so"
  Wanted,       \* the symbols main_thread looks up, in order
  MaxEvents     \* input events

(* A symbol table has one entry for a name. *)
TableOK(t) ==
  /\ DOMAIN t \subseteq Nat
  /\ \A k \in DOMAIN t : t[k][2] \in Nat
  /\ \A j, k \in DOMAIN t : t[j][1] = t[k][1] => j = k

(* External: what the linker makes of a file.  The mapping with the ELF       *)
(* header begins where the linker has put the first segment, and that of      *)
(* libUE4 is its first.                                                       *)
WorldOK(w) ==
  /\ UE \in DOMAIN w.files /\ DOMAIN w.base = DOMAIN w.files /\ w.linked \subseteq DOMAIN w.files
  /\ \A p \in DOMAIN w.files :
       /\ w.base[p] \in Nat /\ w.files[p].v0 \in Nat /\ w.files[p].o0 \in Nat
       /\ TableOK(w.files[p].symtab) /\ TableOK(w.files[p].dynsym)
  /\ \A m \in w.maps :
       /\ m.start \in Nat /\ (m.path \in Named <=> m.path = UE)
       /\ m.header /\ m.path \in DOMAIN w.files =>
            m.start = w.base[m.path] + w.files[m.path].v0 - w.files[m.path].o0
       /\ m.path = UE => m.from # "absent"
  /\ \E m \in w.maps : m.path = UE /\ m.header /\ m.from = "first"
  /\ NotFound \notin w.maps /\ w.location \in Nat

ASSUME BootAssumption ==
  /\ \A w \in Worlds : WorldOK(w)
  /\ Len(Wanted) \in Nat \ {0} /\ PhOff \in Nat /\ FileMem \in Nat

VARIABLES
  world,        \* [files, base, maps, linked, location]: constant after Init
  ue,           \* how far libUE4 is: absent, first, mapped, linked, started, ready
  appHandler,   \* g_App->onInputEvent as other threads see it
  pc,           \* main_thread
  module,       \* Data::Module
  found,        \* the addresses of the symbols so far
  gApp,         \* main_thread's local g_App
  orig,         \* orig_onInputEvent as other threads see it
  stores,       \* stores of main_thread that are not visible yet
  hooks,        \* what DobbyHook was called on
  event,        \* the event in dispatch: [stage, fn], or None
  seen,         \* events so far: [given, ui, engine]
  crashed,
  blame         \* history: what went wrong on the way, see FaultsExplained

mainVars == <<pc, module, found, gApp, hooks>>
engineVars == <<event, seen>>
vars == <<world, ue, appHandler, mainVars, orig, stores, engineVars, crashed, blame>>

Stages == <<"absent", "first", "mapped", "linked", "started", "ready">>
Reached(s) ==
  \E i, j \in DOMAIN Stages : Stages[i] = s /\ Stages[j] = ue /\ i <= j

NoEvent == "none"
NoFn == "null"              \* a function or object pointer that is NULL

Init ==
  /\ world \in Worlds
  /\ ue = "absent" /\ appHandler = NoFn
  /\ pc = "poll" /\ module = NULL /\ found = <<>> /\ gApp = NoFn /\ hooks = <<>>
  /\ orig = NoFn /\ stores = <<>>
  /\ event = NoEvent /\ seen = [given |-> 0, ui |-> 0, engine |-> 0]
  /\ crashed = FALSE /\ blame = {}

-----------------------------------------------------------------------------
(* External: the process as /proc/self/maps shows it; of libUE4 as much as *)
(* is mapped.                                                              *)
Maps == {m \in world.maps : m.path = UE => Reached(m.from)}

(* Files that can be opened; one may have been replaced on disk meanwhile. *)
Files == [p \in {q \in DOMAIN world.files : world.files[q].onDisk} |-> world.files[p]]

(* External: where the linker has put the definition of name in p. *)
RuntimeAddress(p, name) ==
  IF ElfSymbol(world.files[p], name) = NULL THEN NULL
  ELSE world.base[p] + ElfSymbol(world.files[p], name)

(* External: dlsym(RTLD_DEFAULT, name). *)
Dlsym(name) ==
  LET hits == {p \in world.linked : /\ p = UE => Reached("linked")
                                    /\ IterateSymbolTable(world.files[p].dynsym, name) # NULL}
  IN  IF hits = {} THEN NULL ELSE RuntimeAddress(CHOOSE p \in hits : TRUE, name)

(* External: the loader maps, links and starts libUE4; the engine publishes *)
(* its android_app and then its input handler.                              *)
EngineAdvances ==
  /\ ue # "ready" /\ ~crashed
  /\ \E i \in DOMAIN Stages : Stages[i] = ue /\ ue' = Stages[i + 1]
  /\ appHandler' = IF ue' = "ready" THEN "engine" ELSE appHandler
  /\ UNCHANGED <<world, mainVars, orig, stores, engineVars, crashed, blame>>

-----------------------------------------------------------------------------
ExecutableBase == 32768     \* 0x8000, where get_module expects no library

(* get_module: the start of the first mapping whose line has the name. *)
GetModule ==
  LET hits == {m \in Maps : m.path \in Named}
  IN  IF hits = {} \/ First(hits).start = ExecutableBase THEN NULL ELSE First(hits).start

BugPoll ==                    \* mutant: the loop does not look again
  /\ pc = "poll" /\ ~crashed
  /\ pc' = IF module = NULL THEN "poll" ELSE "resolve"
  /\ UNCHANGED <<world, ue, appHandler, module, found, gApp, hooks, orig, stores, engineVars, crashed, blame>>

(* while (!Data::Module) *)
Poll ==
  /\ pc = "poll" /\ ~crashed
  /\ module' = GetModule
  /\ pc' = IF GetModule = NULL THEN "poll" ELSE "resolve"
  /\ UNCHANGED <<world, ue, appHandler, found, gApp, hooks, orig, stores, engineVars, crashed, blame>>

(* One look-up, and the early return when it fails. *)
ResolveNext ==
  /\ pc = "resolve" /\ ~crashed
  /\ \E name \in {Wanted[Len(found) + 1]}, maps \in {Maps} :
     \E a \in {DobbySymbolResolver(Dlsym(name), maps, Files, Named, name)} :
         /\ found' = IF a = NULL THEN found ELSE Append(found, a)
         /\ pc' = IF a = NULL THEN "stopped"
                  ELSE IF Len(found) + 1 = Len(Wanted) THEN "app" ELSE "resolve"
  /\ UNCHANGED <<world, ue, appHandler, module, gApp, hooks, orig, stores, engineVars, crashed, blame>>

(* g_App, read from libUE4's data. *)
ReadApp ==
  /\ pc = "app" /\ ~crashed
  /\ crashed' = ~Reached("mapped")
  /\ gApp' = IF Reached("started") THEN "app" ELSE NoFn
  /\ blame' = IF Reached("started") THEN blame ELSE blame \cup {"early"}
  /\ pc' = "save"
  /\ UNCHANGED <<world, ue, appHandler, module, found, hooks, orig, stores, engineVars>>

BugSaveHandler ==             \* mutant: the handler is not saved
  /\ pc = "save" /\ ~crashed
  /\ crashed' = (gApp = NoFn)
  /\ blame' = IF ue = "ready" THEN blame ELSE blame \cup {"early"}
  /\ pc' = "replace"
  /\ UNCHANGED <<world, ue, appHandler, module, found, gApp, hooks, orig, stores, engineVars>>

(* A plain store: visible at once, or when the processor lets it out. *)
SaveHandler ==
  /\ pc = "save" /\ ~crashed
  /\ crashed' = (gApp = NoFn)
  /\ stores' = Append(stores, <<"orig", appHandler>>)
  /\ blame' = IF ue = "ready" THEN blame ELSE blame \cup {"early"}
  /\ pc' = "replace"
  /\ UNCHANGED <<world, ue, appHandler, module, found, gApp, hooks, orig, engineVars>>

ReplaceHandler ==
  /\ pc = "replace" /\ ~crashed
  /\ stores' = Append(stores, <<"handler", "ours">>)
  /\ pc' = "draw"
  /\ UNCHANGED <<world, ue, appHandler, module, found, gApp, hooks, orig, engineVars, crashed, blame>>

(* A store becomes visible; arm64 orders two plain stores to two addresses *)
(* in no way.                                                              *)
StoreVisible ==
  /\ ~crashed
  /\ \E k \in DOMAIN stores :
       /\ orig' = IF stores[k][1] = "orig" THEN stores[k][2] ELSE orig
       /\ appHandler' = IF stores[k][1] = "handler" THEN stores[k][2] ELSE appHandler
       /\ stores' = RemoveAt(stores, k)
       /\ blame' = IF k = 1 THEN blame ELSE blame \cup {"overtaken"}
  /\ UNCHANGED <<world, ue, mainVars, engineVars, crashed>>

BugHookDraw ==                \* mutant: gives up after the handler is replaced
  /\ pc = "draw" /\ ~crashed
  /\ pc' = "stopped"
  /\ UNCHANGED <<world, ue, appHandler, module, found, gApp, hooks, orig, stores, engineVars, crashed, blame>>

(* DobbyHook on AHUD::ReceiveDrawHUD, the first symbol. *)
HookDraw ==
  /\ pc = "draw" /\ ~crashed
  /\ hooks' = Append(hooks, found[1])
  /\ pc' = "location"
  /\ UNCHANGED <<world, ue, appHandler, module, found, gApp, orig, stores, engineVars, crashed, blame>>

BugHookLocation ==            \* mutant: no return after the last hook
  /\ pc = "location" /\ ~crashed
  /\ hooks' = Append(hooks, module + world.location)
  /\ pc' = "draw"
  /\ UNCHANGED <<world, ue, appHandler, module, found, gApp, orig, stores, engineVars, crashed, blame>>

(* DobbyHook on Data::Module + 0x911b99c, and the end of main_thread. *)
HookLocation ==
  /\ pc = "location" /\ ~crashed
  /\ hooks' = Append(hooks, module + world.location)
  /\ pc' = "done"
  /\ UNCHANGED <<world, ue, appHandler, module, found, gApp, orig, stores, engineVars, crashed, blame>>

MainThread == Poll \/ ResolveNext \/ ReadApp \/ SaveHandler \/ ReplaceHandler \/ HookDraw \/ HookLocation

-----------------------------------------------------------------------------
(* The engine's application thread (process_input of the engine's own glue) *)
(* takes an event and reads the handler.                                    *)
EventArrives ==
  /\ event = NoEvent /\ ~crashed
  /\ ue = "ready" /\ seen.given < MaxEvents
  /\ event' = appHandler
  /\ seen' = [seen EXCEPT !.given = @ + 1]
  /\ UNCHANGED <<world, ue, appHandler, mainVars, orig, stores, crashed, blame>>

(* onInputEvent: UI::onEvent, then the call through orig_onInputEvent. *)
OurHandler ==
  /\ event = "ours" /\ ~crashed
  /\ seen' = [seen EXCEPT !.ui = @ + 1]
  /\ event' = "forward"
  /\ UNCHANGED <<world, ue, appHandler, mainVars, orig, stores, crashed, blame>>

BugForwardEvent ==            \* mutant: the menu swallows the event
  /\ event = "forward" /\ ~crashed
  /\ event' = NoEvent
  /\ UNCHANGED <<world, ue, appHandler, mainVars, orig, stores, seen, crashed, blame>>

ForwardEvent ==
  /\ event = "forward" /\ ~crashed
  /\ crashed' = (orig = NoFn)
  /\ event' = IF orig = NoFn THEN event ELSE orig
  /\ UNCHANGED <<world, ue, appHandler, mainVars, orig, stores, seen, blame>>

EngineHandler ==
  /\ event = "engine" /\ ~crashed
  /\ seen' = [seen EXCEPT !.engine = @ + 1]
  /\ event' = NoEvent
  /\ UNCHANGED <<world, ue, appHandler, mainVars, orig, stores, crashed, blame>>

Engine == EventArrives \/ OurHandler \/ ForwardEvent \/ EngineHandler

Next == EngineAdvances \/ MainThread \/ StoreVisible \/ Engine

(* The loader goes on, main_thread is scheduled, stores come out, and the   *)
(* engine finishes the events it began.                                     *)
Spec ==
  /\ Init /\ [][Next]_vars
  /\ WF_vars(EngineAdvances) /\ WF_vars(MainThread) /\ WF_vars(StoreVisible)
  /\ WF_vars(OurHandler \/ ForwardEvent \/ EngineHandler)

-----------------------------------------------------------------------------
BootTypeOK ==
  /\ ue \in Range(Stages)
  /\ pc \in {"poll", "resolve", "app", "save", "replace", "draw", "location", "done", "stopped"}
  /\ Len(found) <= Len(Wanted) /\ Len(hooks) <= 2 /\ Len(stores) <= 2
  /\ event \in {NoEvent, "ours", "forward", "engine"}

(* The addresses at which the process has a definition of name from p. *)
Definitions(p, name) ==
  {world.base[p] + e[2] : e \in {d \in Range(world.files[p].symtab) \cup Range(world.files[p].dynsym) :
                                  d[1] = name /\ d[2] # NULL}}

(* a is a definition of name, and libUE4's own whenever libUE4 has one, can   *)
(* be read, and no library of the linker's global scope has one too.          *)
RightAddress(a, name) ==
  /\ \E p \in DOMAIN world.base : a \in Definitions(p, name)
  /\ /\ Definitions(UE, name) # {} /\ world.files[UE].onDisk
     /\ \A p \in world.linked \ {UE} : Definitions(p, name) = {}
     => a \in Definitions(UE, name)

(* Every address the library goes on with is the right one of the symbol it  *)
(* asked for, where the linker has put it (dobby_symbol_resolver.cc,         *)
(* main_thread).                                                             *)
ResolvedRight == \A k \in DOMAIN found : RightAddress(found[k], Wanted[k])

(* Nothing faults: no unmapped data is read, g_App is not NULL, and no event *)
(* is forwarded through an orig_onInputEvent that is still NULL.             *)
BootSurvives == ~crashed

(* Whatever the timing and the order of the stores, a fault has one of two   *)
(* causes.  Either main_thread was early: it read g_App before the engine    *)
(* had one, or the handler of an engine that was not ready.  Or an event was *)
(* being forwarded (onInputEvent) when the processor had let the store of    *)
(* hook.cpp:210 out before that of hook.cpp:209.  An engine that is up and   *)
(* two stores in order never fault, whatever the input thread is at.         *)
FaultsExplained ==
  crashed => \/ "early" \in blame
             \/ event = "forward" /\ "overtaken" \in blame

(* Each input event reaches the engine's own handler exactly once, and the   *)
(* menu at most once, also the events that are in dispatch while the handler *)
(* is replaced.                                                              *)
EventOnce ==
  LET pending == IF event \in {"ours", "forward", "engine"} THEN 1 ELSE 0 IN
  /\ seen.engine + pending = seen.given
  /\ seen.ui + (IF event = "ours" THEN 1 ELSE 0) <= seen.given

(* main_thread that gives up leaves the game as it was: the handler is the   *)
(* engine's and nothing is hooked.                                           *)
AllOrNothing ==
  pc = "stopped" => hooks = <<>> /\ stores = <<>> /\ orig = NoFn /\ appHandler # "ours"

(* main_thread comes to its end (main_thread's loop and its returns), or a   *)
(* fault has ended the process.  If it found its symbols and was not early,  *)
(* the input handler is replaced for good and what it forwards to is the     *)
(* engine's, also when the stores came out the other way round.              *)
BootEnds ==
  <>[](\/ crashed \/ pc = "stopped"
       \/ pc = "done" /\ ("early" \in blame \/ (appHandler = "ours" /\ orig = "engine")))
=============================================================================
