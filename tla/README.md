# TLA+ models of the overlay library

The repository builds `libCSGOM.so`, a native library that is loaded into an
Android process running Unreal Engine 4.27. It draws a menu from inside the
engine's HUD callback, receives touch input through the native-activity glue and
replaces functions with the bundled Dobby framework. This directory holds TLA+
models of the parts whose correctness depends on interleavings, ordering,
ownership or arithmetic, TLC configurations for small instances, and
machine-checked proofs. Paths below are relative to `src/` of the checkout
(`src/UI.cpp` is `src/src/UI.cpp` in `PROJECT.json`).

## 1. Inventory

| component | source | state | operations | what is hard |
|---|---|---|---|---|
| native-activity glue | `src/android_native_app_glue.c`, `include/android_native_app_glue.h` | `struct android_app`, command pipe, mutex, condition variable, saved-state block | ANativeActivity callbacks (main thread), command loop (application thread) | two threads; windows, queues and memory change hands; writes that block under a lock |
| hook API | `Dobby/source/Interceptor.cpp`, `dobby.cpp`, `InterceptRouting/**` | list of hook entries, near-branch plugin | `DobbyHook`, `DobbyInstrument`, `DobbyDestroy`, plugin on/off | code changes while other threads run it; stacked hooks; order of link, publish, patch |
| code patching | `UserMode/ExecMemory/code-patch-tool-posix.cc` | bytes and page permissions | `CodePatch` | word-wise copy, page boundary, failure between steps |
| relocation, assembler | `InstructionRelocation/arm64/*`, `MemoryAllocator/AssemblyCodeBuilder.cc`, `core/modules/assembler`, `CodeBuffer`, `external/xnucxx` | code buffer, labels and the places that wait for them, relocated chunks | emit, bind, `RelocBind`, `GenRelocateCodeAndBranch` | inverted conditions, literals patched later, another hook's trampoline, register widths |
| instrumentation | `TrampolineBridge/ClosureTrampolineBridge`, `intercept_routing_handler.cc` | closure trampolines, one bridge, the saved context on the stack | trampoline, bridge, handler, next hop | hand-counted stack offsets, handlers that run into instrumented code |
| symbol resolver | `builtin-plugin/SymbolResolver/elf`, `PlatformUtil/Linux/ProcessRuntimeUtility.cc` | none that lasts | `DobbySymbolResolver` | file offsets against mappings, which of several definitions |
| arenas | `MemoryAllocator/MemoryArena.cc`, `NearMemoryArena.cc` | pages with cursors, chunks | `AllocateChunk` (both), `PushPage`, blank search | page boundary, range, `MAP_FIXED`, a search that starts over |
| menu | `src/UI.cpp`, first part of `Data::Draw` in `src/data.cpp` | `MouseDown`, `MousePos`, hover, capture, drag and click flags, widget values | `onEvent` (input thread); `Window` and the widgets (game thread) | unlocked globals between two threads; flags that outlive the press that set them |
| bootstrap | `src/native-start.cpp`, `src/hook.cpp` | module address, resolved symbols, saved handlers | constructor, `main_thread`, `onInputEvent` | runs beside the engine's own start |
| frame data | rest of `src/data.cpp`, `include/data.h` | none of its own that lasts | reads and writes of game memory | out of scope: the state is the game's |
| other processors and systems, plugins, tests | `Dobby/source/**`, `Dobby/builtin-plugin` | | | not built or not called |

How they interact: the bootstrap thread resolves symbols, stores its handler in
the engine's `android_app` and calls `DobbyHook`; `DobbyHook` cuts relocated code
and trampolines from the arenas and patches the function; from then on the game
thread enters `Data::Draw` once a frame and walks through the menu, and the
engine's input thread calls `UI::onEvent`, which writes the two globals the menu
reads. The glue is linked in with an empty `android_main` (`src/hook.cpp:6`); the
process's activity belongs to the engine, which has the same glue.

`PROJECT.json` lists every component with its status, and every hazard at its line.

## 2. Modules

| module | models | checked by | proved in |
|---|---|---|---|
| `Handoff` | abstract: one party hands a value over and waits until the other has taken it | as `PROPERTY` of `AppGlue` | safety part in `GlueRendezvousProofs` |
| `AppGlue` | the glue, both threads | `glue`, `glue_full_pipe` | `AppGlueProofs`, `GlueRendezvousProofs` |
| `InlineHook` | hook API, routing, patching, what relocation does to trampolines, a calling thread | `hook_churn`, `hook_near`, `hook_far_stack` | `InlineHookProofs`, `InlineHookCallProofs`, `InlineHookChainProofs` |
| `CodeArenas` | both arenas over an address space of pages, with the zeros in it | `arenas`, `near_taken` | `CodeArenasProofs` |
| `Menu` | window, widgets, layout, `onEvent` | `menu` | `MenuProofs` |
| `Arm64` | the processor: registers and the meaning of the instructions in play (external) | through `Instrument` | |
| `Relocation` | assembler, labels, `GenRelocateCodeAndBranch` | through `Instrument` | |
| `Instrument` | `DobbyInstrument` at work: relocated code, closure trampoline, bridge, handlers, nested activations | `instrument`, `reloc_literal` | |
| `Resolver` | `DobbySymbolResolver` as operators | through `Bootstrap` | lemmas in `BootstrapProofs` |
| `Bootstrap` | `_init`, `main_thread`, `onInputEvent` beside loader and engine | `bootstrap`, `bootstrap_race` | `BootstrapProofs` |

`MCAppGlue`, `MCInlineHook`, `MCCodeArenas`, `MCMenu`, `MCInstrument` and
`MCBootstrap` hold the constants of the instances. Operators called `Bug...` are deliberate mistakes; each is what
one definition becomes in a mutant of `PROJECT.json` that a property must catch.

### AppGlue and Handoff

State: `app` holds the fields of `struct android_app` that both threads use;
`object` and `blocks` its allocation and that of the saved state; `pipe` the
unread commands; `mutex`, `signalled` the lock and the broadcast; `mainPC`,
`callback`, `arg` the main thread; `appPC`, `cmd` the application thread; the
rest is what the framework knows (lifecycle, live windows and queues, bundle).
Critical sections of the application thread contain nothing that blocks and are
single actions. Those of the main thread write to the pipe while they hold the
mutex, so they are split at each write and each wait. Every callback of
`ANativeActivity_onCreate` is an action, as are creation (with `pipe()` failing),
each stage of `process_cmd` (read, pre, handler, post), and the destruction. After
a failed `pipe()` the instance is NULL and the next callback faults
(`mainPC = "crashed"`); no property forbids it, as nothing in the glue promises
otherwise. A `write()` to the command pipe blocks while the pipe is full and does
not fail otherwise.
`Handoff` says what the window, queue and lifecycle-state protocols promise: the
callback returns only after the application has taken the new value.

### InlineHook

The function is a row of words; a hook saves the words its trampoline covers,
relocates them into a chunk, links its entry, publishes `*origin_call` and then
writes the trampoline word by word after opening the page. `DobbyDestroy` writes
the saved words back and unlinks. One thread calls the function and may be
anywhere (original words, a trampoline, a chunk, a replacement) when a step of
the installing thread happens. `reg` is x17, which trampolines and relocated
branches overwrite; `ran` lists the original words the call in progress has
executed, in the order it executed them. A relocated `ldr` literal still reads its old address; that
is how a stacked literal trampoline goes wrong.

What the code leaves to its client is a constant: `Discipline` (nobody executes
the words being written, or no call runs at all), `Stacking` (how hooks share an
address), `ArenaFails`. The code has no protection of its own against a thread
inside the words that `memcpy` writes; with `Discipline = "none"` the model shows
the half-written trampoline running, so the runs state the discipline and check
that it is enough.

Two faults of the installing thread are in the code itself: `CodePatch` opens the
page of the first byte only, so a trampoline across a page end faults at its
second word, and the NULL chunk of a failed allocation is used before the test
for a failed relocation. `NothingFaults` does not hold where they can happen; it
is checked in `hook_churn`, whose words are on one page and whose allocations
succeed. `hook_near` has both, and checks `PatchFaultsExplained`: the installing
thread faults in these two places and nowhere else, and no call ever does.

### CodeArenas

An address is page * PageSize + offset; `space` says what each page holds, `zero`
which bytes are zero (of their contents nothing else matters: the near arena looks
for zeros). `AllocateChunk` takes the first page with room (the strict `<` of the
code) or maps one, without a look at the size. A near request loops as the code
does: a page in range with room, else map the candidate of
`search_near_blank_page` and search once more, else blank bytes of a code region,
else NULL. `BlankPages` is the search over the sorted regions with its order and
its off-by-one steps. The search for blank bytes keeps what makes it hard: the
pages of the arenas themselves are regions it looks into, `alloc_size` grows by
three in each region (`BlankMemory`), `memmem` is told three bytes more than the
buffer has (`Needle`; what the heap holds there is any value, `Garbage`), and the
match is moved to the next multiple of four even when it is one (`Aligned`).
A chunk is written by the client that asked for it (`Written`): all of a near
chunk, all but four bytes of a normal one, and its outermost bytes may be zeros.
`mmap` may fail at will. `trespassed` is the set of pages that were mapped over
memory in use.

`NearTakesUnused` is what the near arena's comments promise: what it takes was
unused. The code breaks it in three ways. It takes zeros behind the cursor of a
page that an arena still cuts chunks from; that is the trace of `near_taken`. It
maps a page with `MAP_FIXED` over memory in use, when one blank page separates two
regions or the lowest page of the window is taken unseen. And it moves an aligned
match by four bytes, so that the last byte of the chunk need not have been blank.
The image of `near_taken` is chosen so that the first is all that can happen; the
other two happen in the state space of `arenas`, whose invariants hold beside them.

Neither arena tests a size, and a size above a page breaks both: the first chunk
of a page is cut beyond its end, and a near request maps pages for ever. What the
callers ask for is the predicate `SizesFit`: at most a page, near sizes less than
a page and whole words, and a page shorter than the branch range. The instances
satisfy it and the theorems have it as a hypothesis; the specification itself does
not assume it.

### Menu

The input thread is `onEvent`: DOWN and UP store `MouseDown` and then, as a
second step, `MousePos`; MOVE, hover and mouse buttons store one of them; pointer
events and CANCEL are dropped by the code but change which finger has index 0.
The game thread walks `Window` in the steps in which it reads the globals again
(hover test, drop of the captured element, choice of branch, click, cursor,
title test), then each widget. Sizes and paddings are those of the code; layout
(`offset`, `pushY`, `first_element_pos`, `NextColumn`) is computed as the widgets
do. A slider's value is kept in pixels of its bar. A position is stored in one
step (both floats), and a widget's position-then-button test is one step; the
module's header says why this loses no outcome.

### Arm64, Relocation and Instrument

`Arm64` gives each instruction that the library emits or displaces its effect on
a processor state (x0..x30, sp, q0..q31, Z, pc, memory, calls made). Widths are
scaled: halves of four bits make a 16-bit "64-bit" register, immediate fields
have eight bits, pages 64 bytes; a literal is two words. `Relocation` is the
assembler as a value: the words so far, the places that wait for each label, the
`RelocLabelEntry` data. A piece of emitting code is the sequence of the calls it
makes, so `RelocateInstr`, `LiteralLdrBranch`, the closure trampoline and the
bridge read like their sources, and `Linked` patches the `ldr` words when a label
is bound, as `link_confused_instructions` does. `Instrument` runs the generated
words: a thread reaches an instrumented address in any of the given states, goes
through trampoline, bridge, handler, bridge and relocated code one block at a
time, and leaves. A handler is C code: it may write to its context, may itself
call an instrumented function, and leaves scratch registers and flags in any
state. `Expected` executes the displaced instructions where they stood, with the
registers as the handler changed them; `Transparent` compares the two.

What cannot be preserved is a precondition, not a surprise: `Relocatable` says
that displaced code does not use x17 (the hook takes it), needs flags only from
its own instructions (the bridge does not save NZCV), does not look at the link
register after a displaced `bl` (it points into the copy), and does not branch
into its own middle. `ctx->lr` is the trampoline's return address, not the
caller's; `HandlerContext` leaves it out for that reason.

Literal loads are told apart by `opc` alone: the mask that recognises them
(`LoadRegLiteralFixedMask`) leaves out the bit of the SIMD registers. `opc` 01 of
an x register is relocated as it should be. A w register (00) is loaded with 64
bits; an s or d register (00 and 01 with the SIMD bit) is taken for the x register
with its number. `reloc_literal` displaces one of each. The others (`ldrsw`, `prfm`,
`ldr q`) reach `UNIMPLEMENTED`, which ends the process (`ended`).

### Resolver and Bootstrap

A file is its first segment (address, offset), whether it has a `PT_PHDR`, and
its two symbol tables; a process is a set of mappings, which `/proc/self/maps`
lists by address (`First` is the one a search comes to first). `Resolver` is the search
of `DobbySymbolResolver` over them, with the load-bias arithmetic. `Bootstrap`
has three parties: the loader and the engine (stages of libUE4: absent, first
segment mapped, mapped, linked, started, ready), `main_thread`, and the engine's
application thread, which takes events and calls the handler it finds. The two
stores at `hook.cpp:209-210` go through `stores` and become visible later, in
either order. `WorldOK` is what the models know of the linker and of
ELF files, and TLC evaluates it on every process image of the instance: the
mapping with the ELF header begins at the load address of the first segment less
its file offset, a table has one entry for a name, and libUE4's header is in the
mapping that appears first.

The code relies on two things it does not ensure, and the model grants neither.
The engine has to be ready when `main_thread` has its symbols; it may be anywhere,
and `bootstrap_race` crashes. The two stores have to be seen in their order; they
are plain stores, and an event may be forwarded through a NULL
`orig_onInputEvent`. Both faults happen in `bootstrap`, too. The history variable
`blame` records whether `main_thread` was early (it read `g_App` before the engine
had set it, or the handler before the engine was ready) and whether a store has
overtaken an older one; `FaultsExplained` says that every fault comes from one of
the two. No comment of the repository speaks of the order of the stores, so that
fault is a hazard with a note and has no violation run.

## 3. Runs

| run | result | distinct states | shows |
|---|---|---|---|
| `glue` | pass | 292,271 | no use of a freed `android_app`, window, queue or state block; one owner of the saved state; no command left over for a later callback; every callback returns; window, queue and state handovers implement `Handoff` |
| `glue_full_pipe` | violation of `CallbackReturns` | | asynchronous commands fill the pipe; the main thread blocks in `write()` with the mutex the application thread needs |
| `hook_churn` | pass | 205,473 | two replacements on one address and a handler behind them, installed, stacked and destroyed in any order around a running call that is not in the words being written: the call survives (no NULL origin, no way lost), runs the body once and the hooks newest first, and returns; code = original + entries |
| `hook_near` | pass | 41,758 | near, adrp and literal trampolines on different addresses, the plugin switched between them: calls run hooks and words in order. Trampolines cross a page and allocations fail: the installing thread faults there and nowhere else, and no call faults |
| `hook_far_stack` | violation of `ChainOrder` | | a second literal trampoline hides the first hook |
| `arenas` | pass | 292,336 | chunks cut from pages that were free are disjoint; every byte of every chunk is mapped, blank ones too; near chunks are in range; a request maps at most one page |
| `near_taken` | violation of `NearTakesUnused` | | the rest of an arena's page is taken as blank and later handed out again |
| `menu` | pass | 232,459 | a press flips a switch at most once; a press that has acted never moves the window; a menu left alone lets go of slider, drag and hover |
| `instrument` | pass | 72,100 | handlers get the right context; relocated code does what the original did; frames above are kept; every activation ends |
| `reloc_literal` | violation of `Transparent` | | `ldr w, literal` is relocated to a 64-bit load, `ldr d, literal` to a load into an x register |
| `bootstrap` | pass | 120,728 | right addresses; a fault comes from an early `main_thread` or an overtaken store and from nothing else; no event lost or doubled; all hooks or none; `main_thread` ends, with the handler replaced for good if it was not early and nothing faulted |
| `bootstrap_race` | violation of `BootSurvives` | | `g_App` is followed before the engine has set it |

Bounds and why they are enough.

* Glue: two windows and two queues (replacement needs an old and a new one), two
  state contents (a stale one can be told from the right one), unlimited
  activities one after the other, two unread asynchronous commands and a pipe of
  four: the longest burst of one callback is two commands, so the pipe is seen
  empty, with room, and full up to its limit. Asynchronous commands are handled
  alike, so one kind stands for all. In `glue_full_pipe` the pipe holds two, in Linux 65536: the number does not matter
  to the argument.
* Hooks: a function of five words holds a trampoline of two words, one word
  between and a second target; up to four hooks in a behaviour allow install,
  stack, destroy and install again. Pages of three words put a boundary inside a
  trampoline.
* Arenas: pages of twenty-four bytes; sizes of a third of a page (the third chunk
  meets the edge of the strict test) and of a whole one (the untested new page), near sizes of one and two
  words, so that a page takes several; eight pages with gaps of one and two pages
  have every case of the blank search; zeros across the end of a page and at the
  end of the code, fewer than are looked for; anything in the heap behind the
  search buffer; three chunks allow any pair plus a history. The chunk bound is
  on requests, never on the pages a request maps.
* Menu: four events (press, release, press, move) at any step of any frame, four
  points (title, second tab, first widget, outside), two tabs whose widgets share
  id 3. Five events (1.2 million states) give the same result; the run has four
  to keep it short.
* Instrumentation: each kind of displaced instruction alone (the near branch
  displaces one word) and combinations in threes (the adrp trampoline), branches
  taken and not taken, back and forth, to the instrumented address itself; two
  targets and two activations at once, so that every pair nests; one write by a
  handler, to a register that decides a branch or to a q register; both register
  packs.
* Bootstrap: two libraries in both orders, 17 shapes of libUE4's file, a second
  library that imports or defines a wanted symbol, three events (before, during
  and after the replacement).

Deadlock is checked except where the system may stop: the arenas are passive and
bounded by `MaxChunks`; in the full-pipe run the hang is what is looked for;
`UNIMPLEMENTED` ends the process in `instrument`; `main_thread` ends in
`bootstrap`, and its events are bounded.

Fairness. Glue: weak fairness of both threads (the scheduler runs a thread that
can run), strong fairness of reading a command, since the application's poll is
enabled again and again while other sources are served. Hooks: the calling
thread and the installing thread keep running. Arenas: none; that a
request does not map for ever is the invariant `SearchOnceMore`. Menu: the engine keeps drawing frames and
`onEvent` finishes its second store; no fairness for input. Instrumentation: a
processor goes on and handlers return; nothing makes a program reach an address.
Bootstrap: the loader and the engine go on, `main_thread` is scheduled, stores
become visible, and the engine finishes an event it has begun; no event has to
come.

## 4. Proofs

TLAPS checks eight modules of proofs, for every value of the
constants that satisfies the named assumptions: `ConstantsAssumption` (the NULL
handle is none of the values), `HookAssumption` (types of the constants; `None`
is no function and no place), `ArenaAssumption` (types of the constants; files
and permissions are different things), `MenuAssumption` (no panel is empty, the
ids of a tab's widgets are below 32 (the `already` array has 256 elements), a check box has its
own variable, one that is not the window's), `BootAssumption` (`WorldOK`, at least one
wanted symbol). TLC evaluates each of them in the runs.

| module | theorem | property |
|---|---|---|
| `AppGlueProofs` | `TypeCorrect`, `GlueNoUseAfterFree`, `GlueWindowAlive`, `GlueQueueAlive`, `GlueSavedStateBlock` | type invariant; nobody uses what was freed or taken back |
| `GlueRendezvousProofs` | `GlueWindowInHandler`, `GlueNoStaleCommand`, `GlueSavedStateReturned`, `GlueWindowHandoff`, `GlueQueueHandoff`, `GlueStateHandoff` | what handlers may rely on; no command outlives its callback; the safety part of `Handoff`, three times |
| `InlineHookProofs` | `HookTypes`, `HookCodeMatches` | type invariant; code = original + entries |
| `InlineHookCallProofs` | `HookNothingFaults`, `HookBodyRunsOnce` | a call survives and runs every original word once, in order, while hooks come and go |
| `InlineHookChainProofs` | `HookChainOrder`, `HookFaultsExplained`, `HookQuietNothingFaults`, `HookQuietBodyRunsOnce` | hooks run newest first, then the word; with any kind of trampoline a call survives and runs every word once, and the installer faults only in its two places |
| `CodeArenasProofs` | `ArenaTypeCorrect`, `ArenaChunksDisjoint`, `ArenaChunksMapped`, `ArenaNearInRange`, `ArenaSearchOnceMore`, `ArenaAlone` | chunks cut from pages, blank chunks, near requests |
| `MenuProofs` | `MenuTypes`, `MenuSwitchOnce`, `MenuWindowHeld` | type invariant; one flip per press; a press that acted does not move the window |
| `BootstrapProofs` | `BootTypes`, `BootResolvedRight`, `BootEventOnce`, `BootAllOrNothing`, `BootFaultsExplained` | the safety properties of the start, none of them with a hypothesis on timing or the order of stores |

`AppGlueProofs`. The inductive invariant `IInv` adds to the types:
`ControlOK` (which program points of the two threads go together and who holds
the mutex there), `LifetimeOK` (the application thread is gone before the block
is), `WindowOK` and `QueueOK` (a handle that the framework has destroyed is
neither held nor pending, except while its own callback waits), `SavedStateOK`
(exactly one block while `savedState` is set). The property alone is not
inductive: that nobody uses a freed block needs the order destroyed - broadcast -
thread end - free, which only `ControlOK` and `LifetimeOK` record. There is one
step per action and one per conjunct the action disturbs.

`GlueRendezvousProofs` builds on it. What is missing there is the pipe: that a
callback's wait ends for its own command needs to know which synchronous command
is where. `Quiet`, `Only` and `Both` say what a pipe holds besides asynchronous
commands, `Free` that the command in the application's hand is one nobody waits
for, and for each kind of callback a stage invariant lists how far its command
can be (unread, read, handled up to the broadcast). At rest nothing synchronous
is left, which is `NoStaleCommand`. The `...Handoff` theorems state that the
mapped variables begin in `Handoff`'s initial states and that every step of the
glue is one of its steps or a stutter; its fairness is not part of them.

`InlineHookProofs`. `HTypes` and `HRefs` (every chunk, address and hook that a
word of code, a saved or relocated word, an entry, `*origin_call` or a register
refers to exists) are inductive without any hypothesis on the client. For
`CodeMatchesEntries` the saved words matter: `SavedOK` says that each entry has
saved what the entries below it had made of the code, `JobSource` where the words
being written come from, `MemOK` that the code stands between the words of two
lists, as far as the patch has come. The theorem assumes `TargetsApart`: two hooks
are on one address or at least a trampoline apart. Hooks one word apart overlap,
and destroyed in the order they came they write each other's trampolines back
(hazard at `dobby.cpp:26`). The library hooks starts of whole functions.

`InlineHookCallProofs` is about the calling thread, under `SafeUse`: nobody
executes the words being written or no call runs (`Discipline`), trampolines are
`adrp`, the near plugin is off and allocations succeed, `TargetsApart`, and no
trampoline crosses a page. All but the first and the last is how this library
uses Dobby: the plugin is never enabled (`DobbyEnableNearBranchTrampoline` is not
called), every trampoline of an address within 4 GB of its hook is `adrp`, and it
hooks two functions. The first is what the code leaves to its client, and without
it the half-written trampoline runs; the last is needed because `CodePatch` opens
only the first page. The constants of `hook_churn` satisfy `SafeUse`.
The invariant `CInv` says that every place of the code and every saved or
relocated copy holds the two original words or one whole trampoline whose hook
can go on (its origin is published before the trampoline is written), except the
place being patched, where nobody is, and that `ran` is as long as the place of
the thread says (`Progress`).

`InlineHookChainProofs` is about the hooks a call meets. `ChainOrder` is stated
step by step (`Follows`: what runs after a hook, what runs after a word) and not
as one expected sequence, so that it is an invariant of the walk and needs no
induction over the list. It is not inductive alone: the next item depends on the
words, the register and the relocated code ahead of the thread. `EInv` ties these
to the list: the words of an entry are the trampoline to its hook, its relocated
code is what it saved, its origin leads there, no two entries share a
replacement (nor, with `Stacking = "one"`, an address). `ThreadDue` says that at
its present place the thread can only come to what is due after the last item of
the trace: before a `br` the register holds the hook whose turn it is, in
relocated code the entry below continues, behind it the newest hook of the next
address; and that `ran` is as long as the place says. The copies come from
`SavedOK` and `MemOK`: a saved word is the function's own or belongs to the next
older entry of the same address (`CopyIs`). The hypothesis `ChainUse` is
`TargetsApart` and either one hook on an address, of any kind, with the plugin
switched at will, or any number of `adrp` hooks with different replacements. What
it leaves out are the cases in which the order can go wrong: literal trampolines on
top of each other (`hook_far_stack`), sizes mixed on one address, and a
replacement hooked twice on one address (hazards). It asks nothing of
`Discipline`, pages or allocation: `ChainOrder` speaks of calls during which
nothing is installed. The constants of `hook_churn` and `hook_near` satisfy it.

The last three theorems use `ThreadDue` for what `SafeUse` leaves out, near and
literal trampolines: under `CalmUse` (`ChainUse`, and hooks come and go only
between calls) every call is undisturbed (`QInv`), so `ThreadDue` describes all of
it. `HookFaultsExplained` and `HookQuietBodyRunsOnce` need no more, whatever the
pages and the allocator; the constants of `hook_near` satisfy `CalmUse`.
`HookQuietNothingFaults` adds what excludes the two faults of the installing
thread, each trampoline on one page and allocations that succeed (`QuietUse`).

`CodeArenasProofs`. Every theorem has the hypothesis `SizesFit`. Disjointness is
not inductive by itself: `Ledger` says that the pages of the arenas are anonymous
memory, that one that was free when it was mapped is recorded once in one of the
two lists, that the chunks cut from it end at or before its cursor, and that
chunks are in mapped memory and apart. `CutKeepsLedger`, `MapKeepsLedger`,
`TrespassKeepsLedger` and `BlankKeepsLedger` show that the four ways to make a
chunk or a page keep it. `ArenaChunksDisjoint` is about chunks cut from pages
that were free when they were mapped: blank chunks may overlap with others
(`near_taken` begins such a behaviour), and so may chunks of a page that was
mapped over another. `ArenaChunksMapped` is about all chunks, the
blank ones too: regions begin and end at multiples of four, the needle is three
bytes longer than the chunk, so the match leaves room for the move to the next
multiple of four (`BlankFacts`, `RegionAligned`), although not always within the
zeros. `ArenaNearInRange` needs the arithmetic of the window (`WindowInRange`):
`ALIGN` rounds down and `next_page` leaves out a page, which costs pages and makes
the window safe at both ends. `ArenaSearchOnceMore` is the same arithmetic used
for termination: a page that was mapped has its first byte within range
(`MapPageFits`), so the next round takes it. `ArenaAlone`: a client without near
requests, as this library is, has no trespass and no blank chunk, so all its
chunks are apart.

`MenuProofs`. A switch flips at most once in a press because its `already` flag
outlives the flip until the release (`FlipOK`; with ids that tabs share, whatever
widget has the id keeps it), the window's own switch because it needs a grab in a
new press (`OpenOK`). `HoldOK` says that a press that has acted holds the hover
flag, which bars the drag. `WalkOK` keeps the walk within the open tab's widgets,
and `MoreTypes` types what `MenuTypeOK` leaves out.

`BootstrapProofs`: `BootEventOnce` and `BootAllOrNothing` hold whether or not the
engine is timely and whatever order the stores come out in. Their invariant
`BInv` says that before `SaveHandler` nothing of the library is visible
(`Untouched`), so that what `SaveHandler` saves is NULL or the engine's handler
and never the library's own, which would make `onInputEvent` call itself.
`BootResolvedRight` holds on the same terms. `TInv` follows `main_thread` through
its symbols: past the poll libUE4's first mapping, which has its header, is in
the process, so `GetProcessModule` finds libUE4 (`ModuleIsUE`); `InModuleFacts`
is the load-bias arithmetic (file offset, segment address and either source of
the bias cancel out), `ElfSymbolFacts` the search of the two tables, and
`ResolverRight` puts the three answers (linker, named module, any module)
together. `BootFaultsExplained` holds on the same terms, too. `FInv` follows the
two stores on their way out (`OrigOnly`, `Both`, `HandlerOnly`, `Out`) for as long
as nothing is to blame, and concludes that a thread that then sees the new handler
sees what it forwards to; a `main_thread` that follows a NULL `g_App` was early
(`StartedMapped`: what is started is mapped).

Only model-checked. Liveness (`CallbackReturns`, `CallReturns`,
`MenuSettles`, `ActivationEnds`, `BootEnds`) and the liveness
part of `Handoff`: the prover has no fairness and no ENABLED. All invariants of
`Instrument` (`InstrumentTypeOK`, `HandlerContext`, `Transparent`, `FramesKept`):
a block of code is executed by a RECURSIVE operator of `Arm64`, for which the
prover has no backend, and what an execution yields is an induction over its
steps even for the type invariant. `Transparent` moreover compares two executions
of arbitrary displaced programs, and `FramesKept` depends on every store of the
assembled bridge. The runs enumerate the displaced programs instead.

## 5. Findings

Each violation run quotes the line of the repository it contradicts
(`findings` in `PROJECT.json`): the full-pipe hang, the stacked literal
trampoline, blank bytes taken from an arena's page, the 64-bit load of a 32-bit
literal and the SIMD literal loaded into a general register (one run), and the
start that does not wait for the engine. Known weaknesses without a run of their
own are hazards with a note: the patch across a page boundary and the relocation
without memory (in `hook_near`, explained by `PatchFaultsExplained`), `MAP_FIXED`
over live memory and the aligned match that is moved (in `arenas`, against
`NearTakesUnused`), the order of the two plain stores of the bootstrap (in
`bootstrap`, explained by `FaultsExplained`), hooks a word apart, the same
replacement hooked again under another one, near and normal trampolines mixed on
one address, the half-written trampoline, a `pipe()` or a `write()` of the glue
that fails, the finger that takes over a press, the press that is seen with the
previous touch's position.

## 6. Not modelled

Drawing, text and colours; the game's memory, projection and everything in
`Data::Draw` after the menu; line parsing of `/proc/self/maps`; the layout of ELF
files beyond what the look-up reads, and an `mmap` that fails on a file that
opens (`file_mmap` then hands `MAP_FAILED` on, which no test recognises); bit
positions of instruction encodings; label chains of `b` (`Assembler::bind`),
which no modelled code uses; a failing `write()` to the glue's pipe; cache
maintenance after a patch; unused plugins; the containers' own allocation
failures; `CallCache` and the hook functions of `hook.cpp` that are never
installed. Two threads that install hooks at once are not modelled: the library
installs from one thread, and Dobby has no lock.

Most lines of the repository are none of this program's logic, and no model of
it can cover them: about half are XNU headers of an Apple-only plugin
(`SupervisorCallMonitor/XnuInternal`, generated `mach` interfaces), a fifth is
the vendored test framework `catch.hpp`, and the rest of Dobby is for processors
(arm, x86, x64), systems (Darwin, Windows) and plugins that an aarch64 Android
build neither compiles nor calls. The library's own source and the part of Dobby
it runs through are modelled but for what this section names.

## 7. State of the project

`Handoff`, `AppGlue`, `InlineHook`, `CodeArenas`, `Menu`, `Resolver` and
`Bootstrap` are model-checked, and every safety invariant their runs check is
proved. `Arm64`, `Relocation` and `Instrument` are model-checked. Liveness is
model-checked throughout. What would extend the project: two threads that
install at once (Dobby would need a lock to promise anything), and a theorem for
the relocation of one instruction at a time, over words as values, in place of
`Transparent`'s executions.
