----------------------------- MODULE InlineHook -----------------------------
(***************************************************************************)
(* Dobby: DobbyHook, DobbyInstrument and DobbyDestroy over the code of one *)
(* function, with a thread that calls the function meanwhile.              *)
(*                                                                         *)
(* The code is a row of words.  A hook copies the words its trampoline     *)
(* will cover (saved for DobbyDestroy, relocated for the call-through),    *)
(* links an entry at the head of the interceptor's list, publishes         *)
(* *origin_call and then overwrites the words one by one.  Relocated code  *)
(* is never freed.                                                         *)
(***************************************************************************)
EXTENDS Integers, Sequences, SequencesExt

CONSTANTS
  FnLen,        \* words of the function
  Target,       \* replacement or handler -> address it is meant for
  Handlers,     \* those of DOMAIN Target that are DobbyInstrument handlers
  NormalKinds,  \* trampolines GenerateNormalTrampolineBuffer may choose here
  NearPlugin,   \* may the near-branch plugin be enabled?
  PageWords,    \* words of a page
  MaxHooks,     \* bound: hooks installed in a behaviour
  Discipline,   \* what the client ensures while code is patched:
                \* "none", "words" (nobody executes them), "calls" (no call runs)
  Stacking,     \* hooks the client puts on one address: "any", "distinct" (a
                \* replacement is in one hook at a time), "one" (no second hook)
  ArenaFails,   \* may the allocation of relocated code fail?
  None

Fns == DOMAIN Target
Words == 0 .. FnLen - 1
Replacements == Fns \ Handlers

ASSUME HookAssumption ==
  /\ FnLen \in Nat \ {0} /\ PageWords \in Nat \ {0} /\ MaxHooks \in Nat
  /\ Target \in [Fns -> Words] /\ Handlers \subseteq Fns
  /\ NormalKinds \subseteq {"adrp", "ldr"} /\ NormalKinds # {}
  /\ NearPlugin \in BOOLEAN /\ ArenaFails \in BOOLEAN
  /\ Discipline \in {"none", "words", "calls"}
  /\ Stacking \in {"any", "distinct", "one"}
  /\ None \notin Fns /\ None \notin [in : {"hook"}, n : Nat, fn : Fns]

VARIABLES
  mem,      \* the code
  perm,     \* page -> "rx" or "rwx"
  entries,  \* Interceptor's hook_entry_list_, newest first
  chunks,   \* relocated code, by number
  origin,   \* *origin_call of each replacement: a chunk number, 0 for NULL
  near,     \* is the near-branch plugin registered?
  apiPC,    \* the installing thread: "idle", "publish", "patch", "crashed"
  job,      \* the CodePatch in progress
  where,    \* the calling thread: outside, in the code, in a chunk, in a hook
  reg,      \* the hook whose address is in x17 of the calling thread
  trace,    \* hooks and original words it has executed in this call
  ran,      \* the original words alone
  calm      \* no installation step since the call began

apiVars == <<mem, perm, entries, chunks, origin, near, apiPC, job>>
callVars == <<where, reg, trace, ran, calm>>
vars == <<apiVars, callVars>>

\* A word: an instruction of the function, or part of a trampoline to hook fn
\* (through the closure that carries chunk n, for a handler).
Word(op, n, fn) == [op |-> op, n |-> n, fn |-> fn]
Original == [a \in Words |-> Word("orig", a, None)]
Page(a) == a \div PageWords

NoJob == [at |-> 0, words |-> <<>>, next |-> 0, remove |-> FALSE]
Outside == [in |-> "outside", at |-> 0, fn |-> None]

Init ==
  /\ mem = Original
  /\ perm = [p \in {Page(a) : a \in Words} |-> "rx"]
  /\ entries = <<>> /\ chunks = <<>>
  /\ origin = [f \in Replacements |-> 0]
  /\ near = FALSE
  /\ apiPC = "idle" /\ job = NoJob
  /\ where = Outside /\ reg = None /\ trace = <<>> /\ ran = <<>> /\ calm = TRUE

-----------------------------------------------------------------------------
(* The interceptor's list.                                                 *)

Hooked(a) == \E i \in DOMAIN entries : entries[i].at = a

\* FindHookEntry: the newest entry of an address that has one.
Newest(a) ==
  CHOOSE i \in DOMAIN entries :
    entries[i].at = a /\ \A k \in 1 .. i - 1 : entries[k].at # a
FindHookEntry(a) == entries[Newest(a)]

\* The test that makes DobbyHook and DobbyInstrument return RS_FAILED.
AlreadyHooked(f) == Hooked(Target[f]) /\ FindHookEntry(Target[f]).fn = f

\* RemoveHookEntry unlinks that one.
RemoveHookEntry(a) == RemoveAt(entries, Newest(a))

-----------------------------------------------------------------------------
(* Installation.                                                           *)

\* GenerateTrampolineBuffer: one `b` with the plugin, if a chunk is found near
\* enough; otherwise adrp+br, or ldr+literal for a distant target.  A word
\* stands for the instructions between two that matter here: adrp/add and br
\* are two words, ldr/br and the literal they use are two.
TrampolineKinds == (IF near THEN {"b"} ELSE {}) \cup NormalKinds

Trampoline(kind, n, fn) ==
  CASE kind = "b" -> <<Word("b", n, fn)>>
    [] kind = "adrp" -> <<Word("adrp", n, fn), Word("br", 0, None)>>
    [] kind = "ldr" -> <<Word("ldr", 0, None), Word("lit", n, fn)>>

\* The client's side of the bargain.
MayStart(f) ==
  /\ apiPC = "idle"
  /\ Discipline = "calls" => where = Outside
  /\ Stacking = "distinct" => \A i \in DOMAIN entries : entries[i].fn # f
  /\ Stacking = "one" => ~Hooked(Target[f])

\* Mutant: AddHookEntry uses list_add_tail.
BugListAddTail(f, kind) ==
  LET a == Target[f]
      n == Len(chunks) + 1
      tramp == Trampoline(kind, IF f \in Handlers THEN n ELSE 0, f)
      saved == [i \in 1 .. Len(tramp) |-> mem[a + i - 1]]
  IN  /\ a + Len(tramp) <= FnLen
      /\ chunks' = Append(chunks, [at |-> a, words |-> saved])
      /\ entries' = Append(entries, [at |-> a, fn |-> f, saved |-> saved, chunk |-> n,
                                     words |-> tramp])
      /\ job' = [at |-> a, words |-> tramp, next |-> 1, remove |-> FALSE]

\* DispatchRouting and AddHookEntry: trampoline, relocated code, saved words.
\* The client hooks only where the trampoline fits into the function: nothing
\* in the code tests it.
Dispatch(f, kind) ==
  LET a == Target[f]
      n == Len(chunks) + 1
      tramp == Trampoline(kind, IF f \in Handlers THEN n ELSE 0, f)
      saved == [i \in 1 .. Len(tramp) |-> mem[a + i - 1]]
  IN  /\ a + Len(tramp) <= FnLen
      /\ chunks' = Append(chunks, [at |-> a, words |-> saved])
      /\ entries' = <<[at |-> a, fn |-> f, saved |-> saved, chunk |-> n,
                       words |-> tramp]>> \o entries
      /\ job' = [at |-> a, words |-> tramp, next |-> 1, remove |-> FALSE]

\* Mutant: the routing is committed before *origin_call is set.
BugHookUnpublished(f) ==
  /\ MayStart(f) /\ Len(chunks) < MaxHooks
  /\ ~AlreadyHooked(f)
  /\ \E kind \in TrampolineKinds : Dispatch(f, kind)
  /\ apiPC' = "protect"
  /\ calm' = FALSE
  /\ UNCHANGED <<mem, perm, origin, near, where, reg, trace, ran>>

\* DobbyHook up to AddHookEntry; it refuses if the newest hook of the address
\* already goes to this replacement.
DobbyHook(f) ==
  /\ MayStart(f) /\ Len(chunks) < MaxHooks
  /\ ~AlreadyHooked(f)
  /\ \E kind \in TrampolineKinds : Dispatch(f, kind)
  /\ apiPC' = "publish"
  /\ calm' = FALSE
  /\ UNCHANGED <<mem, perm, origin, near, where, reg, trace, ran>>

\* *origin_call = entry->relocated_origin_function.
PublishOrigin ==
  /\ apiPC = "publish"
  /\ origin' = [origin EXCEPT ![Head(entries).fn] = Head(entries).chunk]
  /\ apiPC' = "protect"
  /\ UNCHANGED <<mem, perm, entries, chunks, near, job, callVars>>

\* DobbyInstrument: the closure carries the entry, there is no origin pointer.
DobbyInstrument(h) ==
  /\ MayStart(h) /\ Len(chunks) < MaxHooks
  /\ ~AlreadyHooked(h)
  /\ \E kind \in TrampolineKinds : Dispatch(h, kind)
  /\ apiPC' = "protect"
  /\ calm' = FALSE
  /\ UNCHANGED <<mem, perm, origin, near, where, reg, trace, ran>>

\* GenRelocateCodeAndBranch uses the chunk without testing that it got one, so
\* the failure path of GenerateRelocatedCode is never reached.
RelocationFails(f) ==
  /\ ArenaFails /\ MayStart(f) /\ Len(chunks) < MaxHooks
  /\ ~AlreadyHooked(f)
  /\ apiPC' = "crashed"
  /\ UNCHANGED <<mem, perm, entries, chunks, origin, near, job, callVars>>

\* Mutant: the oldest entry of the address is restored instead of the newest.
Oldest(a) == CHOOSE i \in DOMAIN entries :
  entries[i].at = a /\ \A k \in i + 1 .. Len(entries) : entries[k].at # a

BugDestroyOldest(a) ==
  /\ apiPC = "idle" /\ Hooked(a)
  /\ Discipline = "calls" => where = Outside
  /\ job' = [at |-> a, words |-> entries[Oldest(a)].saved, next |-> 1, remove |-> TRUE]
  /\ apiPC' = "protect"
  /\ calm' = FALSE
  /\ UNCHANGED <<mem, perm, entries, chunks, origin, near, where, reg, trace, ran>>

\* DobbyDestroy: the saved words of the newest entry are patched back, then
\* the entry is unlinked.
DobbyDestroy(a) ==
  /\ apiPC = "idle" /\ Hooked(a)
  /\ Discipline = "calls" => where = Outside
  /\ job' = [at |-> a, words |-> FindHookEntry(a).saved, next |-> 1, remove |-> TRUE]
  /\ apiPC' = "protect"
  /\ calm' = FALSE
  /\ UNCHANGED <<mem, perm, entries, chunks, origin, near, where, reg, trace, ran>>

\* dobby_enable_near_branch_trampoline, dobby_disable_near_branch_trampoline.
TogglePlugin ==
  /\ NearPlugin /\ apiPC = "idle"
  /\ near' = ~near
  /\ UNCHANGED <<mem, perm, entries, chunks, origin, apiPC, job, callVars>>

-----------------------------------------------------------------------------
(* CodePatch.                                                              *)

Patched(j) == j.at .. j.at + Len(j.words) - 1

\* Nobody is in the middle of the words (a thread before the first of them
\* will run all the new ones).
Undisturbed(j) ==
  Discipline = "words" =>
    ~ (where.in = "code" /\ where.at \in Patched(j) \ {j.at})

\* Mutant: mprotect is given the end of the words instead of their beginning.
BugUnprotectEnd ==
  /\ apiPC = "protect" /\ Undisturbed(job)
  /\ perm' = [perm EXCEPT ![Page(job.at + Len(job.words) - 1)] = "rwx"]
  /\ apiPC' = "patch"
  /\ UNCHANGED <<mem, entries, chunks, origin, near, job, callVars>>

\* mprotect makes the page of the first word writable, and only that one.
Unprotect ==
  /\ apiPC = "protect" /\ Undisturbed(job)
  /\ perm' = [perm EXCEPT ![Page(job.at)] = "rwx"]
  /\ apiPC' = "patch"
  /\ UNCHANGED <<mem, entries, chunks, origin, near, job, callVars>>

\* One word of memcpy.
PatchWord ==
  /\ apiPC = "patch" /\ job.next <= Len(job.words)
  /\ LET a == job.at + job.next - 1
     IN  /\ perm[Page(a)] = "rwx"
         /\ mem' = [mem EXCEPT ![a] = job.words[job.next]]
  /\ job' = [job EXCEPT !.next = @ + 1]
  /\ UNCHANGED <<perm, entries, chunks, origin, near, apiPC, callVars>>

\* A store into a page that is not writable is fatal.
PatchFaults ==
  /\ apiPC = "patch" /\ job.next <= Len(job.words)
  /\ perm[Page(job.at + job.next - 1)] # "rwx"
  /\ apiPC' = "crashed"
  /\ UNCHANGED <<mem, perm, entries, chunks, origin, near, job, callVars>>

\* mprotect back, and the caller's last step.
Protect ==
  /\ apiPC = "patch" /\ job.next > Len(job.words)
  /\ perm' = [perm EXCEPT ![Page(job.at)] = "rx"]
  /\ entries' = IF job.remove THEN RemoveHookEntry(job.at) ELSE entries
  /\ apiPC' = "idle" /\ job' = NoJob
  /\ UNCHANGED <<mem, chunks, origin, near, callVars>>

-----------------------------------------------------------------------------
(* A thread that calls the function.                                       *)

Code(a) == IF a = FnLen THEN Outside ELSE [in |-> "code", at |-> a, fn |-> None]
Chunk(n, i) == [in |-> "chunk", n |-> n, i |-> i]
Hook(n, fn) == [in |-> "hook", n |-> n, fn |-> fn]
Crash == [in |-> "crash"]

Call ==
  /\ where = Outside
  /\ Discipline = "calls" => apiPC = "idle"
  /\ where' = Code(0) /\ reg' = None /\ trace' = <<>> /\ ran' = <<>>
  /\ calm' = (apiPC = "idle")
  /\ UNCHANGED apiVars

\* Executes word w of address a, then goes to next unless it branches.
\* Relocation rewrites `ldr literal` to load from the literal's old address,
\* so it reads whatever the code holds there now.
Execute(w, a, next) ==
  CASE w.op = "orig" ->
         /\ trace' = Append(trace, w.n) /\ ran' = Append(ran, w.n)
         /\ where' = next /\ UNCHANGED reg
    [] w.op = "b" ->
         where' = Hook(w.n, w.fn) /\ UNCHANGED <<trace, ran, reg>>
    [] w.op = "adrp" ->
         reg' = Hook(w.n, w.fn) /\ where' = next /\ UNCHANGED <<trace, ran>>
    [] w.op = "br" ->
         where' = (IF reg = None THEN Crash ELSE reg) /\ UNCHANGED <<trace, ran, reg>>
    [] w.op = "ldr" ->
         /\ where' = IF mem[a + 1].op = "lit" THEN Hook(mem[a + 1].n, mem[a + 1].fn)
                     ELSE Crash
         /\ UNCHANGED <<trace, ran, reg>>
    [] w.op = "lit" -> where' = Crash /\ UNCHANGED <<trace, ran, reg>>

RunCode ==
  /\ where.in = "code"
  /\ Discipline = "words" /\ apiPC = "patch" => where.at \notin Patched(job)
  /\ Execute(mem[where.at], where.at, Code(where.at + 1))
  /\ UNCHANGED <<apiVars, calm>>

\* Mutants: the branch after the relocated words goes back to the first one;
\* the size of the relocated words is added twice.
BugBranchLoops ==
  /\ where.in = "chunk" /\ where.i > Len(chunks[where.n].words)
  /\ where' = Code(chunks[where.n].at)
  /\ reg' = None
  /\ UNCHANGED <<apiVars, trace, ran, calm>>

BugBranchTooFar ==
  /\ where.in = "chunk" /\ where.i > Len(chunks[where.n].words)
  /\ where' = Code(chunks[where.n].at + 2 * Len(chunks[where.n].words))
  /\ reg' = None
  /\ UNCHANGED <<apiVars, trace, ran, calm>>

\* The relocated words of a chunk.
RunChunk ==
  /\ where.in = "chunk" /\ where.i <= Len(chunks[where.n].words)
  /\ LET c == chunks[where.n]
     IN  Execute(c.words[where.i], c.at + where.i - 1, Chunk(where.n, where.i + 1))
  /\ UNCHANGED <<apiVars, calm>>

\* The branch behind them to the first word that was not relocated
\* (LiteralLdrBranch, which uses x17).
BranchToRest ==
  /\ where.in = "chunk" /\ where.i > Len(chunks[where.n].words)
  /\ where' = Code(chunks[where.n].at + Len(chunks[where.n].words))
  /\ reg' = None
  /\ UNCHANGED <<apiVars, trace, ran, calm>>

\* A replacement calls through its origin pointer; after a handler the closure
\* bridge goes on with the relocated words of its own entry.  Neither keeps x17.
RunHook ==
  /\ where.in = "hook"
  /\ trace' = Append(trace, where.fn)
  /\ LET n == IF where.fn \in Handlers THEN where.n ELSE origin[where.fn]
     IN  where' = IF n = 0 THEN Crash ELSE Chunk(n, 1)
  /\ reg' = None
  /\ UNCHANGED <<apiVars, ran, calm>>

\* A fault in either thread ends the process.
Alive == where.in # "crash" /\ apiPC # "crashed"

Dead == ~Alive /\ UNCHANGED vars

Install ==
  /\ Alive
  /\ \/ \E f \in Replacements : DobbyHook(f)
     \/ \E h \in Handlers : DobbyInstrument(h)
     \/ \E f \in Fns : RelocationFails(f)
     \/ \E a \in Words : DobbyDestroy(a)
     \/ TogglePlugin

Patch == Alive /\ (PublishOrigin \/ Unprotect \/ PatchWord \/ PatchFaults \/ Protect)

Run == Alive /\ (RunCode \/ RunChunk \/ BranchToRest \/ RunHook)

Next == Install \/ Patch \/ (Alive /\ Call) \/ Run \/ Dead

Safety == Init /\ [][Next]_vars

\* Both threads keep running once they have begun.
Spec == Safety /\ WF_vars(Patch) /\ WF_vars(Run)

-----------------------------------------------------------------------------
(* Properties.                                                             *)

\* Chunk numbers, addresses and program counters are in range.
HookTypeOK ==
  /\ DOMAIN mem = Words
  /\ apiPC \in {"idle", "publish", "protect", "patch", "crashed"}
  /\ where.in \in {"outside", "code", "chunk", "hook", "crash"}
  /\ where.in = "code" => where.at \in Words
  /\ where.in = "chunk" => where.n \in DOMAIN chunks /\ where.i \in 1 .. Len(chunks[where.n].words) + 1
  /\ \A f \in Replacements : origin[f] \in 0 .. Len(chunks)
  /\ Len(entries) <= Len(chunks)

\* Neither thread faults while hooks come and go under a client that keeps its
\* Discipline: the calling thread meets no NULL origin, because DobbyHook
\* publishes *origin_call before the hook is live, and finds its way on from
\* every trampoline, chunk and replacement it is in.  It holds with trampolines
\* on one page and memory to be had; PatchFaultsExplained is about the rest.
NothingFaults == where.in # "crash" /\ apiPC # "crashed"

\* Whatever the pages and the allocator: the calling thread never faults, and
\* the installing thread only in one of two places.  Either there was no memory
\* for relocated code (GenRelocateCodeAndBranch, before anything is patched),
\* or the trampoline crosses a page and CodePatch has come to its second word,
\* on the page that mprotect has not opened.
PatchFaultsExplained ==
  /\ where.in # "crash"
  /\ apiPC = "crashed" =>
       \/ ArenaFails /\ job = NoJob
       \/ job.next = 2 /\ Page(job.at + 1) # Page(job.at)

\* Whatever is hooked and unhooked meanwhile, a call runs the function's own
\* words exactly once and in order, through the code or through relocated copies.
BodyRunsOnce ==
  /\ \A i \in DOMAIN ran : ran[i] = i - 1
  /\ where = Outside /\ trace # <<>> => Len(ran) = FnLen

\* y is what runs at address a below the newest k entries: the hook of the
\* newest of the older entries there, or the word itself.
RunsNext(k, a, y) ==
  \/ y = a /\ \A i \in k + 1 .. Len(entries) : entries[i].at # a
  \/ \E j \in k + 1 .. Len(entries) :
       /\ y = entries[j].fn /\ entries[j].at = a
       /\ \A i \in k + 1 .. j - 1 : entries[i].at # a

\* y runs after x: below a hook what its entry covers, after a word the newest
\* hook of the next address.
Follows(x, y) ==
  \/ \E k \in DOMAIN entries : x = entries[k].fn /\ RunsNext(k, entries[k].at, y)
  \/ x \in Words /\ x + 1 \in Words /\ RunsNext(0, x + 1, y)

\* "set origin call with relocated function": a call that no installation
\* disturbs runs at each address every active hook, newest first, then the
\* original word, from the first address to the last.
ChainOrder ==
  calm =>
    /\ trace # <<>> => RunsNext(0, 0, trace[1])
    /\ \A i \in 1 .. Len(trace) - 1 : Follows(trace[i], trace[i + 1])
    /\ where = Outside /\ trace # <<>> => trace[Len(trace)] = FnLen - 1

\* The word at a as the newest k entries found it: that of the newest of the
\* older entries that covers a, or the function's own.
Under(k, a) ==
  LET covers == {i \in k + 1 .. Len(entries) : a - entries[i].at + 1 \in DOMAIN entries[i].words}
      e == entries[Min(covers)]
  IN  IF covers = {} THEN Original[a] ELSE e.words[a - e.at + 1]

\* Between two calls of the API the code is the original with the active hooks
\* applied from the oldest to the newest, whatever came and went before.
CodeMatchesEntries ==
  apiPC = "idle" => \A a \in Words : mem[a] = Under(0, a)

\* A call of the function returns, through however many hooks.
CallReturns == where.in # "outside" ~> where.in = "outside"
=============================================================================
