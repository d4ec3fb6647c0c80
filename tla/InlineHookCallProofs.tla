------------------------ MODULE InlineHookCallProofs ------------------------
(***************************************************************************)
(* Proofs about the thread that calls a hooked function, under the         *)
(* conditions in which the library uses Dobby (SafeUse): nobody executes   *)
(* the second word of a trampoline while it is written, trampolines are    *)
(* adrp+br, hooks are at least a trampoline apart, each trampoline lies on *)
(* one page and allocation does not fail.                                  *)
(*                                                                         *)
(* CInv is inductive on top of HInv and HPlaces.  Every place of the code  *)
(* and every relocated or saved copy holds the two original words or one   *)
(* whole trampoline, whose hook is able to go on; the number of original   *)
(* words executed is where the calling thread is.                          *)
(***************************************************************************)
EXTENDS InlineHookProofs

SafeUse ==
  /\ Discipline \in {"words", "calls"}
  /\ NormalKinds = {"adrp"} /\ ~NearPlugin
  /\ ~ArenaFails
  /\ TargetsApart
  /\ \A f \in Fns : Target[f] + 1 \in Words => Page(Target[f] + 1) = Page(Target[f])

\* Hook f, entered through a word or a register that says (n, f), has relocated
\* code to go on with, among chunks cs with origins og.
Live(cs, og, n, f) ==
  LET k == IF f \in Handlers THEN n ELSE og[f]
  IN  k \in 1 .. Len(cs) /\ cs[k].at = Target[f]

\* Words x and y at t: the function's own, or a whole trampoline.
Plain(x, y, t) == x = Original[t] /\ y = Original[t + 1]
Tramp(cs, og, x, y, t) ==
  \E n \in Nat, f \in Fns :
    /\ x = Word("adrp", n, f) /\ y = Word("br", 0, None)
    /\ Target[f] = t /\ Live(cs, og, n, f)
PairOK(cs, og, x, y, t) == Plain(x, y, t) \/ Tramp(cs, og, x, y, t)

\* The register r holds the hook of a trampoline at t.
RegAt(cs, og, r, t) ==
  \E n \in Nat, f \in Fns : r = Hook(n, f) /\ Target[f] = t /\ Live(cs, og, n, f)

\* Where trampolines can be.
Site(t) == t \in Words /\ t + 1 \in Words /\ \E f \in Fns : Target[f] = t

ModeOK == near = FALSE /\ apiPC # "crashed" /\ where.in # "crash"

ChunkPairs ==
  \A n \in 1 .. Len(chunks) :
    /\ Site(chunks[n].at) /\ Len(chunks[n].words) = 2
    /\ PairOK(chunks, origin, chunks[n].words[1], chunks[n].words[2], chunks[n].at)

EntryPairs ==
  \A i \in 1 .. Len(entries) :
    /\ Site(entries[i].at) /\ Len(entries[i].saved) = 2
    /\ PairOK(chunks, origin, entries[i].saved[1], entries[i].saved[2], entries[i].at)

\* The trampoline to be written is able to go on once its origin is published.
JobPair ==
  Busy =>
    /\ Site(job.at) /\ Len(job.words) = 2
    /\ apiPC # "patch" => job.next = 1
    /\ apiPC # "publish" => PairOK(chunks, origin, job.words[1], job.words[2], job.at)
    /\ apiPC = "publish" =>
         /\ job.words[1] = Word("adrp", 0, entries[1].fn) /\ job.words[2] = Word("br", 0, None)
         /\ Target[entries[1].fn] = job.at /\ entries[1].fn \in Replacements
         /\ chunks[entries[1].chunk].at = job.at

Patching(t) == apiPC = "patch" /\ t = job.at /\ job.next > 1

MemPairs ==
  /\ \A t \in Words : Site(t) =>
       /\ ~Patching(t) => PairOK(chunks, origin, mem[t], mem[t + 1], t)
       /\ Patching(t) => mem[t] = job.words[1]
       /\ Patching(t) /\ job.next > 2 => mem[t + 1] = job.words[2]
  /\ \A a \in Words : ~Site(a) /\ ~Site(a - 1) => mem[a] = Original[a]

PatchApart ==
  /\ apiPC = "patch" => perm[Page(job.at)] = "rwx"
  /\ apiPC = "patch" => ~(where.in = "code" /\ where.at = job.at + 1)
  /\ Discipline = "calls" /\ Busy => where = Outside

\* The original words run so far are those before the place of the thread.
Progress ==
  /\ ran \in Seq(Nat) /\ \A i \in 1 .. Len(ran) : ran[i] = i - 1
  /\ where = Outside => Len(ran) = FnLen \/ trace = <<>>
  /\ where.in = "code" =>
       /\ mem[where.at].op = "br" =>
            Len(ran) = where.at - 1 /\ RegAt(chunks, origin, reg, where.at - 1)
       /\ mem[where.at].op # "br" => Len(ran) = where.at
  /\ where.in = "chunk" =>
       LET c == chunks[where.n]
       IN  /\ c.words[1].op = "orig" => Len(ran) = c.at + where.i - 1
           /\ c.words[1].op # "orig" =>
                /\ Len(ran) = c.at /\ where.i < 3
                /\ where.i = 2 => RegAt(chunks, origin, reg, c.at)
  /\ where.in = "hook" =>
       Len(ran) = Target[where.fn] /\ Live(chunks, origin, where.n, where.fn)

CInv == ModeOK /\ ChunkPairs /\ EntryPairs /\ JobPair /\ MemPairs /\ PatchApart /\ Progress

-----------------------------------------------------------------------------
(* Words, pairs and sites.                                                 *)

\* The fields of the words that SafeUse admits.
LEMMA WordFields ==
  /\ \A a \in Words : Original[a].op = "orig" /\ Original[a].n = a
  /\ \A n, f : Word("adrp", n, f).op = "adrp" /\ Word("adrp", n, f).n = n
               /\ Word("adrp", n, f).fn = f
  /\ Word("br", 0, None).op = "br"
BY DEF Original, Word

\* What an "adrp" loads is a hook.
LEMMA HookNotNone == \A n \in Nat, f \in Fns : Hook(n, f) # None /\ Hook(n, f) # Outside
<1>1. \A n \in Nat, f \in Fns : Hook(n, f) \in [in : {"hook"}, n : Nat, fn : Fns]
  BY DEF Hook
<1>2. \A n, f : Hook(n, f).in = "hook" /\ Outside.in = "outside"
  BY DEF Hook, Outside
<1> QED
  BY <1>1, <1>2, HookAssumption DEF Fns

\* A site is not next to another.
LEMMA SitesApart ==
  ASSUME TargetsApart, NEW t \in Int, Site(t)
  PROVE  ~Site(t + 1) /\ ~Site(t - 1)
<1>1. ASSUME NEW s \in Int, Site(s), s - t \in {-1, 1} PROVE FALSE
  <2>1. PICK f \in Fns, g \in Fns : Target[f] = s /\ Target[g] = t
    BY <1>1 DEF Site
  <2>2. s = t \/ s - t \notin {-1, 1}
    BY <2>1 DEF TargetsApart
  <2> QED
    BY <1>1, <2>2
<1> QED
  BY <1>1

\* The first word of a pair tells which it is.
LEMMA PairFirst ==
  ASSUME NEW cs, NEW og, NEW x, NEW y, NEW t, Site(t), PairOK(cs, og, x, y, t)
  PROVE  /\ x.op \in {"orig", "adrp"}
         /\ x.op = "orig" => x = Original[t] /\ y = Original[t + 1]
         /\ x.op = "orig" => x.n = t /\ y.n = t + 1 /\ y.op = "orig"
         /\ x.op = "adrp" =>
              /\ y.op = "br"
              /\ \E n \in Nat, f \in Fns :
                   x.n = n /\ x.fn = f /\ Target[f] = t /\ Live(cs, og, n, f)
<1>1. t \in Words /\ t + 1 \in Words
  BY DEF Site
<1>2. CASE Plain(x, y, t)
  BY <1>1, <1>2, WordFields DEF Plain
<1>3. CASE Tramp(cs, og, x, y, t)
  <2>1. PICK n \in Nat, f \in Fns :
          /\ x = Word("adrp", n, f) /\ y = Word("br", 0, None)
          /\ Target[f] = t /\ Live(cs, og, n, f)
    BY <1>3 DEF Tramp
  <2>2. x.op = "adrp" /\ x.n = n /\ x.fn = f /\ y.op = "br"
    BY <2>1, WordFields
  <2> QED
    BY <2>1, <2>2
<1> QED
  BY <1>2, <1>3 DEF PairOK

\* More chunks, and an origin that is published, leave every hook able to go on.
Grows ==
  /\ Len(chunks') >= Len(chunks) /\ Len(chunks') \in Nat
  /\ \A n \in 1 .. Len(chunks) : chunks'[n] = chunks[n]
  /\ \A f \in Replacements :
       \/ origin'[f] = origin[f]
       \/ origin'[f] \in 1 .. Len(chunks') /\ chunks'[origin'[f]].at = Target[f]

\* A hook stays able to go on.
LEMMA LiveGrows ==
  ASSUME HInv, Grows, NEW n, NEW f \in Fns, Live(chunks, origin, n, f)
  PROVE  Live(chunks', origin', n, f)
<1>1. Len(chunks) \in Nat /\ Len(chunks') \in Nat /\ Len(chunks) <= Len(chunks')
  BY DEF HInv, HTypes, Grows
<1>2. \A k \in 1 .. Len(chunks) : k \in 1 .. Len(chunks') /\ chunks'[k] = chunks[k]
  BY <1>1 DEF Grows
<1>3. CASE f \in Handlers
  BY <1>2, <1>3 DEF Live
<1>4. CASE f \notin Handlers
  <2>1. f \in Replacements
    BY <1>4 DEF Replacements
  <2> QED
    BY <1>2, <1>4, <2>1 DEF Live, Grows
<1> QED
  BY <1>3, <1>4

\* So does a trampoline, and the hook in x17.
LEMMA PairGrows ==
  ASSUME HInv, Grows
  PROVE  /\ \A x, y, t : PairOK(chunks, origin, x, y, t) => PairOK(chunks', origin', x, y, t)
         /\ \A r, t : RegAt(chunks, origin, r, t) => RegAt(chunks', origin', r, t)
<1>1. ASSUME NEW x, NEW y, NEW t, Tramp(chunks, origin, x, y, t)
      PROVE  Tramp(chunks', origin', x, y, t)
  BY <1>1, LiveGrows DEF Tramp
<1>2. ASSUME NEW r, NEW t, RegAt(chunks, origin, r, t) PROVE RegAt(chunks', origin', r, t)
  BY <1>2, LiveGrows DEF RegAt
<1> QED
  BY <1>1, <1>2 DEF PairOK

\* Steps that change neither chunks nor origins.
LEMMA SameGrows ==
  ASSUME HInv, UNCHANGED <<chunks, origin>>
  PROVE  Grows
BY DEF Grows, HInv, HTypes

\* Only the word behind a site can be the end of a trampoline.
LEMMA NotBr ==
  ASSUME HInv, CInv, NEW a \in Words, ~Site(a - 1)
  PROVE  mem[a].op # "br"
<1>1. CASE Site(a)
  <2>1. CASE ~Patching(a)
    <3>1. PairOK(chunks, origin, mem[a], mem[a + 1], a)
      BY <1>1, <2>1 DEF CInv, MemPairs
    <3> QED
      BY <1>1, <3>1, PairFirst
  <2>2. CASE Patching(a)
    <3>1. /\ mem[a] = job.words[1] /\ a = job.at
          /\ PairOK(chunks, origin, job.words[1], job.words[2], job.at)
      BY <1>1, <2>2 DEF CInv, MemPairs, JobPair, Busy, Patching
    <3> QED
      BY <1>1, <3>1, PairFirst
  <2> QED
    BY <2>1, <2>2
<1>2. CASE ~Site(a)
  BY <1>2, WordFields DEF CInv, MemPairs
<1> QED
  BY <1>1, <1>2

-----------------------------------------------------------------------------
(* The installing thread.                                                  *)

\* What a step that lets hooks grow keeps of the old chunks and entries.
LEMMA OldKept ==
  ASSUME HInv, CInv, Grows
  PROVE  /\ \A n \in 1 .. Len(chunks) :
              /\ Site(chunks'[n].at) /\ Len(chunks'[n].words) = 2
              /\ PairOK(chunks', origin', chunks'[n].words[1], chunks'[n].words[2], chunks'[n].at)
         /\ \A i \in 1 .. Len(entries) :
              /\ Site(entries[i].at) /\ Len(entries[i].saved) = 2
              /\ PairOK(chunks', origin', entries[i].saved[1], entries[i].saved[2], entries[i].at)
<1>1. ASSUME NEW n \in 1 .. Len(chunks)
      PROVE  /\ Site(chunks'[n].at) /\ Len(chunks'[n].words) = 2
             /\ PairOK(chunks', origin', chunks'[n].words[1], chunks'[n].words[2], chunks'[n].at)
  <2>1. chunks'[n] = chunks[n]
    BY DEF Grows
  <2>2. /\ Site(chunks[n].at) /\ Len(chunks[n].words) = 2
        /\ PairOK(chunks, origin, chunks[n].words[1], chunks[n].words[2], chunks[n].at)
    BY DEF CInv, ChunkPairs
  <2> QED
    BY <2>1, <2>2, PairGrows
<1>2. ASSUME NEW i \in 1 .. Len(entries)
      PROVE  /\ Site(entries[i].at) /\ Len(entries[i].saved) = 2
             /\ PairOK(chunks', origin', entries[i].saved[1], entries[i].saved[2], entries[i].at)
  <2>1. /\ Site(entries[i].at) /\ Len(entries[i].saved) = 2
        /\ PairOK(chunks, origin, entries[i].saved[1], entries[i].saved[2], entries[i].at)
    BY DEF CInv, EntryPairs
  <2> QED
    BY <2>1, PairGrows
<1> QED
  BY <1>1, <1>2

\* Code nobody writes.
LEMMA MemKept ==
  ASSUME HInv, CInv, Grows, UNCHANGED mem,
         \A t \in Words : ~Patching(t) /\ ~Patching(t)'
  PROVE  MemPairs'
<1>1. \A t \in Words : Site(t) => PairOK(chunks, origin, mem[t], mem[t + 1], t)
  BY DEF CInv, MemPairs
<1>2. \A t \in Words : Site(t) => PairOK(chunks', origin', mem'[t], mem'[t + 1], t)
  BY <1>1, PairGrows
<1>3. \A a \in Words : ~Site(a) /\ ~Site(a - 1) => mem'[a] = Original[a]
  BY DEF CInv, MemPairs
<1> QED
  BY <1>2, <1>3 DEF MemPairs

\* A calling thread that does not move.
LEMMA ProgressKept ==
  ASSUME HInv, HPlaces, CInv, Grows, UNCHANGED <<where, reg, trace, ran>>,
         where.in = "code" => (mem'[where.at].op = "br" <=> mem[where.at].op = "br")
  PROVE  Progress'
<1>1. where.in = "chunk" => where.n \in 1 .. Len(chunks)
  BY PlaceFields DEF HPlaces
<1>2. where.in = "hook" => where.fn \in Fns
  BY PlaceFields DEF HPlaces
<1>3. /\ ran' \in Seq(Nat) /\ \A i \in 1 .. Len(ran') : ran'[i] = i - 1
      /\ where' = Outside => Len(ran') = FnLen \/ trace' = <<>>
  BY DEF CInv, Progress
<1>4. ASSUME where.in = "code"
      PROVE  /\ mem'[where.at].op = "br" =>
                  Len(ran) = where.at - 1 /\ RegAt(chunks', origin', reg, where.at - 1)
             /\ mem'[where.at].op # "br" => Len(ran) = where.at
  BY <1>4, PairGrows DEF CInv, Progress
<1>5. ASSUME where.in = "chunk"
      PROVE  LET c == chunks'[where.n]
             IN  /\ c.words[1].op = "orig" => Len(ran) = c.at + where.i - 1
                 /\ c.words[1].op # "orig" =>
                      /\ Len(ran) = c.at /\ where.i < 3
                      /\ where.i = 2 => RegAt(chunks', origin', reg, c.at)
  <2>1. chunks'[where.n] = chunks[where.n]
    BY <1>1, <1>5 DEF Grows
  <2> QED
    BY <1>5, <2>1, PairGrows DEF CInv, Progress
<1>6. ASSUME where.in = "hook"
      PROVE  Len(ran) = Target[where.fn] /\ Live(chunks', origin', where.n, where.fn)
  BY <1>2, <1>6, LiveGrows DEF CInv, Progress
<1> QED
  BY <1>3, <1>4, <1>5, <1>6 DEF Progress

\* A hook is begun: its two words are copied, nothing is written yet.
LEMMA DispatchCalls ==
  ASSUME SafeUse, HInv, HPlaces, CInv, apiPC = "idle",
         NEW f \in Fns, NEW kind \in TrampolineKinds, Dispatch(f, kind),
         f \in Handlers => apiPC' = "protect",
         f \notin Handlers => apiPC' = "publish",
         Discipline = "calls" => where = Outside,
         UNCHANGED <<mem, perm, origin, near, where, reg, trace, ran>>
  PROVE  CInv'
<1>1. kind = "adrp"
  BY DEF SafeUse, CInv, ModeOK, TrampolineKinds
<1>2. PICK e \in Entry, c \in Relocated :
           /\ entries' = <<e>> \o entries /\ chunks' = Append(chunks, c)
           /\ job' = [at |-> e.at, words |-> e.words, next |-> 1, remove |-> FALSE]
           /\ e.fn = f /\ e.at = Target[f] /\ e.chunk = Len(chunks) + 1
           /\ c.at = e.at /\ c.words = e.saved
           /\ e.words = Trampoline(kind, IF f \in Handlers THEN e.chunk ELSE 0, f)
           /\ \A i \in 1 .. Len(e.saved) :
                e.saved[i] = mem[e.at + i - 1] /\ e.at + i - 1 \in Words
           /\ EntryOK(e, Len(chunks) + 1)
  BY DispatchIs
<1> DEFINE m == IF f \in Handlers THEN e.chunk ELSE 0
           t == e.at
<1>3. /\ entries \in Seq(Entry) /\ Len(entries) \in Nat
      /\ chunks \in Seq(Relocated) /\ Len(chunks) \in Nat
  BY DEF HInv, HTypes
<1>4. /\ entries'[1] = e /\ Len(entries') = Len(entries) + 1
      /\ \A k \in 2 .. Len(entries) + 1 : entries'[k] = entries[k - 1]
  BY <1>2, <1>3, PushIs
<1>5. /\ Len(chunks') = Len(chunks) + 1 /\ chunks'[Len(chunks) + 1] = c
      /\ \A i \in 1 .. Len(chunks) : chunks'[i] = chunks[i]
  BY <1>2, <1>3, AppendProperties
<1>6. Grows
  BY <1>3, <1>5 DEF Grows
<1>7. /\ e.words = <<Word("adrp", m, f), Word("br", 0, None)>> /\ Len(e.words) = 2
      /\ e.words[1] = Word("adrp", m, f) /\ e.words[2] = Word("br", 0, None)
      /\ m \in Nat
  <2>1. e.words = <<Word("adrp", m, f), Word("br", 0, None)>>
    BY <1>1, <1>2 DEF Trampoline
  <2>2. m \in Nat
    BY <1>2, <1>3
  <2>3. ASSUME NEW x, NEW y, e.words = <<x, y>>
        PROVE  Len(e.words) = 2 /\ e.words[1] = x /\ e.words[2] = y
    BY <2>3
  <2> QED
    BY <2>1, <2>2, <2>3
<1>8. Site(t) /\ Len(e.saved) = 2
  <2>1. Len(e.saved) = 2 /\ t \in Words
    BY <1>2, <1>7, ConstFacts DEF EntryOK
  <2>2. t + 2 - 1 \in Words /\ t + 2 - 1 = t + 1
    BY <1>2, <2>1, ConstFacts
  <2> QED
    BY <1>2, <2>1, <2>2 DEF Site
<1>9. PairOK(chunks', origin', e.saved[1], e.saved[2], t)
  <2>1. e.saved[1] = mem[t + 1 - 1] /\ e.saved[2] = mem[t + 2 - 1] /\ t \in Words
    BY <1>2, <1>8 DEF Site
  <2>2. t + 1 - 1 = t /\ t + 2 - 1 = t + 1
    BY <2>1, ConstFacts
  <2>3. PairOK(chunks, origin, mem[t], mem[t + 1], t)
    BY <1>8, <2>1 DEF CInv, MemPairs, Patching
  <2> QED
    BY <1>6, <2>1, <2>2, <2>3, PairGrows
<1>10. ChunkPairs'
  <2>1. ASSUME NEW n \in 1 .. Len(chunks')
        PROVE  /\ Site(chunks'[n].at) /\ Len(chunks'[n].words) = 2
               /\ PairOK(chunks', origin', chunks'[n].words[1], chunks'[n].words[2], chunks'[n].at)
    <3>1. n \in 1 .. Len(chunks) \/ n = Len(chunks) + 1
      BY <1>3, <1>5
    <3>2. CASE n = Len(chunks) + 1
      BY <1>2, <1>5, <1>8, <1>9, <3>2
    <3> QED
      BY <1>6, <3>1, <3>2, OldKept
  <2> QED
    BY <2>1 DEF ChunkPairs
<1>11. EntryPairs'
  <2>1. ASSUME NEW i \in 1 .. Len(entries')
        PROVE  /\ Site(entries'[i].at) /\ Len(entries'[i].saved) = 2
               /\ PairOK(chunks', origin', entries'[i].saved[1], entries'[i].saved[2], entries'[i].at)
    <3>1. i = 1 \/ (i - 1 \in 1 .. Len(entries) /\ entries'[i] = entries[i - 1])
      BY <1>3, <1>4
    <3>2. CASE i = 1
      BY <1>4, <1>8, <1>9, <3>2
    <3> QED
      BY <1>6, <3>1, <3>2, OldKept
  <2> QED
    BY <2>1 DEF EntryPairs
<1>12. JobPair'
  <2>1. job'.at = t /\ job'.words = e.words /\ job'.next = 1
    BY <1>2
  <2>2. apiPC' # "patch"
    OBVIOUS
  <2>3. ASSUME apiPC' # "publish"
        PROVE  PairOK(chunks', origin', e.words[1], e.words[2], t)
    <3>1. f \in Handlers /\ m = Len(chunks) + 1
      BY <1>2, <2>3
    <3>2. m \in 1 .. Len(chunks') /\ chunks'[m].at = Target[f]
      BY <1>2, <1>3, <1>5, <3>1
    <3>3. Live(chunks', origin', m, f)
      BY <3>1, <3>2 DEF Live
    <3> HIDE DEF m
    <3>4. Tramp(chunks', origin', e.words[1], e.words[2], t)
      BY <1>2, <1>7, <3>3 DEF Tramp
    <3> QED
      BY <3>4 DEF PairOK
  <2>4. ASSUME apiPC' = "publish"
        PROVE  /\ e.words[1] = Word("adrp", 0, e.fn) /\ e.words[2] = Word("br", 0, None)
               /\ Target[e.fn] = t /\ e.fn \in Replacements /\ chunks'[e.chunk].at = t
    <3>1. f \notin Handlers /\ m = 0
      BY <2>4
    <3> QED
      BY <1>2, <1>5, <1>7, <3>1 DEF Replacements
  <2> HIDE DEF t
  <2> QED
    BY <1>4, <1>7, <1>8, <2>1, <2>2, <2>3, <2>4 DEF JobPair
<1>13. MemPairs'
  BY <1>6, MemKept DEF Patching
<1>14. Progress'
  BY <1>6, ProgressKept
<1>15. ModeOK' /\ PatchApart'
  BY DEF CInv, ModeOK, PatchApart
<1> QED
  BY <1>10, <1>11, <1>12, <1>13, <1>14, <1>15 DEF CInv

\* The origin of a new replacement is published before its words are written.
LEMMA PublishCalls ==
  ASSUME HInv, HPlaces, CInv, PublishOrigin
  PROVE  CInv'
<1> DEFINE g == entries[1].fn
           k == entries[1].chunk
<1>1. /\ apiPC = "publish" /\ apiPC' = "protect" /\ Busy /\ Busy'
      /\ UNCHANGED <<mem, perm, entries, chunks, near, job, where, reg, trace, ran>>
      /\ origin' = [origin EXCEPT ![Head(entries).fn] = Head(entries).chunk]
  BY DEF PublishOrigin, Busy, callVars
<1>2. /\ Site(job.at) /\ Len(job.words) = 2 /\ job.next = 1
      /\ job.words[1] = Word("adrp", 0, g) /\ job.words[2] = Word("br", 0, None)
      /\ Target[g] = job.at /\ g \in Replacements /\ chunks[k].at = job.at
  BY <1>1 DEF CInv, JobPair
<1>3. /\ entries \in Seq(Entry) /\ entries # <<>> /\ Head(entries) = entries[1]
      /\ origin \in [Replacements -> Nat] /\ Len(chunks) \in Nat /\ k \in 1 .. Len(chunks)
  <2>1. /\ entries \in Seq(Entry) /\ JobOK(Len(chunks)) /\ Len(chunks) \in Nat
        /\ origin \in [Replacements -> Nat]
    BY <1>1 DEF HInv, HTypes, HRefs
  <2>2. entries # <<>>
    <3>1. ASSUME Hooked(job.at) PROVE entries # <<>>
      BY <2>1, <3>1 DEF Hooked
    <3> QED
      BY <2>1, <3>1 DEF JobOK
  <2>3. 1 \in 1 .. Len(entries) /\ Head(entries) = entries[1]
    BY <2>1, <2>2
  <2> QED
    BY <2>1, <2>2, <2>3 DEF HInv, HRefs, EntryOK
<1> HIDE DEF g, k
<1>4. \A f \in Replacements : origin'[f] = IF f = g THEN k ELSE origin[f]
  BY <1>1, <1>3 DEF g, k
<1>5. Grows
  BY <1>1, <1>2, <1>3, <1>4 DEF Grows
<1>6. ChunkPairs' /\ EntryPairs'
  BY <1>1, <1>5, OldKept DEF ChunkPairs, EntryPairs
<1>7. JobPair'
  <2>1. Live(chunks, origin', 0, g)
    BY <1>2, <1>3, <1>4 DEF Live, Replacements
  <2>2. Tramp(chunks, origin', job.words[1], job.words[2], job.at)
    BY <1>2, <2>1 DEF Tramp, Replacements
  <2> QED
    BY <1>1, <1>2, <2>2 DEF JobPair, PairOK
<1>8. MemPairs'
  BY <1>1, <1>5, MemKept DEF Patching
<1>9. Progress'
  BY <1>1, <1>5, ProgressKept
<1>10. ModeOK' /\ PatchApart'
  BY <1>1 DEF CInv, ModeOK, PatchApart
<1> QED
  BY <1>6, <1>7, <1>8, <1>9, <1>10 DEF CInv

\* DobbyDestroy: the saved pair is to be written back.
LEMMA DestroyCalls ==
  ASSUME HInv, HPlaces, CInv, NEW a \in Words, DobbyDestroy(a)
  PROVE  CInv'
<1>1. /\ UNCHANGED <<mem, perm, entries, chunks, origin, near, where, reg, trace, ran>>
      /\ apiPC = "idle" /\ apiPC' = "protect" /\ Hooked(a)
      /\ Discipline = "calls" => where = Outside
      /\ job' = [at |-> a, words |-> FindHookEntry(a).saved, next |-> 1, remove |-> TRUE]
  BY DEF DobbyDestroy
<1>2. entries \in Seq(Entry)
  BY DEF HInv, HTypes
<1>3. Newest(a) \in 1 .. Len(entries) /\ entries[Newest(a)].at = a
  BY <1>1, <1>2, NewestIs
<1> DEFINE e == FindHookEntry(a)
<1>4. /\ Site(e.at) /\ Len(e.saved) = 2 /\ e.at = a
      /\ PairOK(chunks, origin, e.saved[1], e.saved[2], e.at)
  BY <1>3 DEF FindHookEntry, CInv, EntryPairs
<1> HIDE DEF e
<1>5. job'.at = a /\ job'.words = e.saved /\ job'.next = 1
  BY <1>1 DEF e
<1>6. Grows
  BY <1>1, SameGrows
<1>7. ChunkPairs' /\ EntryPairs'
  BY <1>1, <1>6, OldKept DEF ChunkPairs, EntryPairs
<1>8. JobPair'
  BY <1>1, <1>4, <1>5 DEF JobPair
<1>9. MemPairs'
  BY <1>1, <1>6, MemKept DEF Patching
<1>10. Progress'
  BY <1>1, <1>6, ProgressKept
<1>11. ModeOK' /\ PatchApart'
  BY <1>1 DEF CInv, ModeOK, PatchApart
<1> QED
  BY <1>7, <1>8, <1>9, <1>10, <1>11 DEF CInv

\* The patch begins when nobody is at its second word.
LEMMA UnprotectCalls ==
  ASSUME SafeUse, HInv, HPlaces, CInv, Unprotect
  PROVE  CInv'
<1>1. /\ UNCHANGED <<mem, entries, chunks, origin, near, job, where, reg, trace, ran>>
      /\ apiPC = "protect" /\ apiPC' = "patch" /\ Busy /\ Busy'
      /\ perm' = [perm EXCEPT ![Page(job.at)] = "rwx"] /\ Undisturbed(job)
  BY DEF Unprotect, Busy, callVars
<1>2. job.at \in Words /\ job.next = 1 /\ perm \in [Pages -> {"rx", "rwx"}] /\ Len(job.words) = 2
  BY <1>1 DEF HInv, HTypes, Job, CInv, JobPair
<1>3. perm'[Page(job.at)] = "rwx"
  BY <1>1, <1>2, PageIn
<1>4. ~(where.in = "code" /\ where.at = job.at + 1)
  <2>1. CASE Discipline = "words"
    <3>1. job.at + 1 \in Patched(job) \ {job.at}
      BY <1>2, ConstFacts DEF Patched
    <3> QED
      BY <1>1, <2>1, <3>1 DEF Undisturbed
  <2>2. CASE Discipline = "calls"
    BY <1>1, <2>2, PlaceFields DEF CInv, PatchApart
  <2> QED
    BY <2>1, <2>2 DEF SafeUse
<1>5. Grows
  BY <1>1, SameGrows
<1>6. ChunkPairs' /\ EntryPairs'
  BY <1>1, <1>5, OldKept DEF ChunkPairs, EntryPairs
<1>7. JobPair'
  BY <1>1 DEF CInv, JobPair
<1>8. MemPairs'
  BY <1>1, <1>2, <1>5, MemKept DEF Patching
<1>9. Progress'
  BY <1>1, <1>5, ProgressKept
<1>10. ModeOK' /\ PatchApart'
  BY <1>1, <1>3, <1>4 DEF CInv, ModeOK, PatchApart
<1> QED
  BY <1>6, <1>7, <1>8, <1>9, <1>10 DEF CInv

\* The job in progress, for the two steps of CodePatch.
LEMMA PatchFacts ==
  ASSUME HInv, CInv, apiPC = "patch"
  PROVE  /\ Busy /\ job.at \in Words /\ job.at + 1 \in Words /\ job.at \in Int
         /\ Site(job.at) /\ Len(job.words) = 2 /\ job.next \in 1 .. 3
         /\ PairOK(chunks, origin, job.words[1], job.words[2], job.at)
         /\ perm[Page(job.at)] = "rwx"
         /\ ~(where.in = "code" /\ where.at = job.at + 1)
<1>1. Busy /\ Len(job.words) = 2
  BY DEF Busy, CInv, JobPair
<1>2. job.next \in 1 .. Len(job.words) + 1
  BY <1>1 DEF HInv, HRefs, JobOK
<1>3. /\ Site(job.at) /\ perm[Page(job.at)] = "rwx"
      /\ PairOK(chunks, origin, job.words[1], job.words[2], job.at)
      /\ ~(where.in = "code" /\ where.at = job.at + 1)
  BY <1>1 DEF CInv, JobPair, PatchApart
<1> QED
  BY <1>1, <1>2, <1>3, ConstFacts DEF Site

\* The words of a job are on the page that is open.
LEMMA PatchOnPage ==
  ASSUME SafeUse, HInv, CInv, apiPC = "patch", job.next <= Len(job.words)
  PROVE  perm[Page(job.at + job.next - 1)] = "rwx"
<1>1. job.next = 1 \/ job.next = 2
  BY PatchFacts
<1>2. PICK f \in Fns : Target[f] = job.at /\ job.at + 1 \in Words
  BY PatchFacts DEF Site
<1>3. Page(job.at + 1) = Page(job.at)
  BY <1>2 DEF SafeUse
<1>4. job.at + 1 - 1 = job.at /\ job.at + 2 - 1 = job.at + 1
  BY PatchFacts
<1> QED
  BY <1>1, <1>3, <1>4, PatchFacts

\* One word of memcpy: only the pair at the address of the job changes.
LEMMA PatchWordCalls ==
  ASSUME SafeUse, HInv, HPlaces, CInv, PatchWord
  PROVE  CInv'
<1> DEFINE b == job.at + job.next - 1
           w == job.words[job.next]
           t0 == job.at
<1>1. /\ UNCHANGED <<perm, entries, chunks, origin, near, apiPC, where, reg, trace, ran>>
      /\ apiPC = "patch" /\ job.next <= Len(job.words)
      /\ mem' = [mem EXCEPT ![b] = w] /\ job' = [job EXCEPT !.next = @ + 1]
  BY DEF PatchWord, callVars
<1>2. /\ Busy /\ t0 \in Words /\ t0 + 1 \in Words /\ t0 \in Int
      /\ Site(t0) /\ Len(job.words) = 2 /\ job.next \in 1 .. 3
      /\ PairOK(chunks, origin, job.words[1], job.words[2], t0)
      /\ ~(where.in = "code" /\ where.at = t0 + 1)
  BY <1>1, PatchFacts
<1>3. /\ job'.at = job.at /\ job'.words = job.words /\ job'.next = job.next + 1
      /\ mem \in [Words -> WordSet]
  <2>1. job \in Job /\ mem \in [Words -> WordSet]
    BY DEF HInv, HTypes
  <2> QED
    BY <1>1, <2>1 DEF Job
<1>4. Busy'
  BY <1>1 DEF Busy
<1>5. \/ job.next = 1 /\ b = t0 /\ w = job.words[1] /\ job'.next = 2
      \/ job.next = 2 /\ b = t0 + 1 /\ w = job.words[2] /\ job'.next = 3
  BY <1>1, <1>2, <1>3
<1>6. \A a \in Words : mem'[a] = IF a = b THEN w ELSE mem[a]
  BY <1>1, <1>3
<1> HIDE DEF b, w
<1>7. Grows
  BY <1>1, SameGrows
<1>8. ChunkPairs' /\ EntryPairs'
  BY <1>1, <1>7, OldKept DEF ChunkPairs, EntryPairs
<1>9. JobPair'
  BY <1>1, <1>2, <1>3 DEF JobPair
<1>10. MemPairs'
  <2>1. ASSUME NEW t \in Words, Site(t), t # t0
        PROVE  ~Patching(t)' /\ PairOK(chunks', origin', mem'[t], mem'[t + 1], t)
    <3>1. t + 1 \in Words /\ t \in Int /\ t + 1 # t0 /\ t # t0 + 1 /\ t + 1 # t0 + 1
      <4>1. t + 1 \in Words /\ t \in Int
        BY <2>1, ConstFacts DEF Site
      <4>2. ~Site(t0 + 1) /\ ~Site(t0 - 1)
        BY <1>2, SitesApart DEF SafeUse
      <4>3. t = t0 - 1 \/ t + 1 # t0
        BY <1>2, <4>1
      <4> QED
        BY <1>2, <2>1, <4>1, <4>2, <4>3
    <3>2. mem'[t] = mem[t] /\ mem'[t + 1] = mem[t + 1]
      BY <1>5, <1>6, <2>1, <3>1
    <3>3. ~Patching(t) /\ ~Patching(t)'
      BY <1>3, <2>1 DEF Patching
    <3> QED
      BY <1>1, <2>1, <3>2, <3>3 DEF CInv, MemPairs
  <2>2. /\ Patching(t0)' /\ mem'[t0] = job.words[1]
        /\ job'.next > 2 => mem'[t0 + 1] = job.words[2]
    <3>1. Patching(t0)'
      BY <1>1, <1>3, <1>5 DEF Patching
    <3>2. mem'[t0] = job.words[1]
      <4>1. job.next = 2 => mem[t0] = job.words[1]
        BY <1>1, <1>2 DEF CInv, MemPairs, Patching
      <4> QED
        BY <1>2, <1>5, <1>6, <4>1
    <3> QED
      BY <1>2, <1>5, <1>6, <3>1, <3>2
  <2>3. ASSUME NEW a \in Words, ~Site(a), ~Site(a - 1) PROVE mem'[a] = Original[a]
    <3>1. a # t0 /\ a # t0 + 1
      BY <1>2, <2>3
    <3> QED
      BY <1>5, <1>6, <2>3, <3>1 DEF CInv, MemPairs
  <2>4. ASSUME NEW t \in Words, Site(t)
        PROVE  /\ ~Patching(t)' => PairOK(chunks', origin', mem'[t], mem'[t + 1], t)
               /\ Patching(t)' => mem'[t] = job'.words[1]
               /\ Patching(t)' /\ job'.next > 2 => mem'[t + 1] = job'.words[2]
    BY <1>3, <2>1, <2>2, <2>4
  <2> QED
    BY <2>3, <2>4 DEF MemPairs
<1>11. Progress'
  <2>1. where.in = "code" => where.at \in Words
    BY PlaceFields DEF HPlaces
  <2>2. ASSUME where.in = "code", where.at = t0
        PROVE  mem'[t0].op # "br" /\ mem[t0].op # "br"
    <3>1. ~Site(t0 - 1)
      BY <1>2, SitesApart DEF SafeUse
    <3>2. mem[t0].op # "br"
      BY <1>2, <3>1, NotBr
    <3>3. job.words[1].op # "br"
      BY <1>2, PairFirst
    <3> QED
      BY <1>2, <1>5, <1>6, <3>2, <3>3
  <2>3. where.in = "code" => (mem'[where.at].op = "br" <=> mem[where.at].op = "br")
    BY <1>2, <1>5, <1>6, <2>1, <2>2
  <2> QED
    BY <1>1, <1>7, <2>3, ProgressKept
<1>12. ModeOK' /\ PatchApart'
  BY <1>1, <1>3 DEF CInv, ModeOK, PatchApart, Busy
<1> QED
  BY <1>8, <1>9, <1>10, <1>11, <1>12 DEF CInv

\* The patch is complete: the pair is whole again.
LEMMA ProtectCalls ==
  ASSUME SafeUse, HInv, HPlaces, CInv, Protect
  PROVE  CInv'
<1>1. /\ UNCHANGED <<mem, chunks, origin, near, where, reg, trace, ran>>
      /\ apiPC = "patch" /\ job.next > Len(job.words) /\ apiPC' = "idle"
      /\ entries' = (IF job.remove THEN RemoveHookEntry(job.at) ELSE entries) /\ ~Busy'
  BY DEF Protect, callVars, Busy
<1>2. /\ Busy /\ Site(job.at) /\ Len(job.words) = 2 /\ job.next = 3
      /\ PairOK(chunks, origin, job.words[1], job.words[2], job.at)
      /\ job.at \in Words
  BY <1>1, PatchFacts
<1>3. Grows
  BY <1>1, SameGrows
<1>4. ChunkPairs'
  BY <1>1, <1>3, OldKept DEF ChunkPairs
<1>5. EntryPairs'
  <2>1. CASE ~job.remove
    BY <1>1, <1>3, <2>1, OldKept DEF EntryPairs
  <2>2. CASE job.remove
    <3>1. entries \in Seq(Entry) /\ Len(entries) \in Nat /\ Hooked(job.at)
      BY <1>2, <2>2 DEF HInv, HTypes, HRefs, JobOK
    <3> DEFINE k == Newest(job.at)
    <3>2. k \in 1 .. Len(entries) /\ entries' = RemoveAt(entries, k)
      BY <1>1, <2>2, <3>1, NewestIs DEF RemoveHookEntry
    <3> HIDE DEF k
    <3>3. /\ Len(entries') = Len(entries) - 1
          /\ \A i \in 1 .. k - 1 : entries'[i] = entries[i]
          /\ \A i \in k .. Len(entries) - 1 : entries'[i] = entries[i + 1]
      BY <3>1, <3>2, RemoveAtIs
    <3>4. ASSUME NEW i \in 1 .. Len(entries')
          PROVE  \E j \in 1 .. Len(entries) : entries'[i] = entries[j]
      BY <3>1, <3>2, <3>3
    <3> QED
      BY <1>3, <3>4, OldKept DEF EntryPairs
  <2> QED
    BY <2>1, <2>2
<1>6. MemPairs'
  <2>1. ASSUME NEW t \in Words, Site(t)
        PROVE  PairOK(chunks, origin, mem[t], mem[t + 1], t)
    <3>1. CASE Patching(t)
      <4>1. t = job.at /\ mem[t] = job.words[1] /\ mem[t + 1] = job.words[2]
        BY <1>2, <2>1, <3>1 DEF CInv, MemPairs, Patching
      <4> QED
        BY <1>2, <4>1
    <3>2. CASE ~Patching(t)
      BY <2>1, <3>2 DEF CInv, MemPairs
    <3> QED
      BY <3>1, <3>2
  <2>2. \A a \in Words : ~Site(a) /\ ~Site(a - 1) => mem[a] = Original[a]
    BY DEF CInv, MemPairs
  <2>3. \A t : ~Patching(t)'
    BY <1>1 DEF Patching
  <2> QED
    BY <1>1, <2>1, <2>2, <2>3 DEF MemPairs
<1>7. Progress'
  BY <1>1, <1>3, ProgressKept
<1>8. ModeOK' /\ PatchApart' /\ JobPair'
  BY <1>1 DEF CInv, ModeOK, PatchApart, JobPair
<1> QED
  BY <1>4, <1>5, <1>6, <1>7, <1>8 DEF CInv

-----------------------------------------------------------------------------
(* The calling thread.                                                     *)

\* The words of the function up to some point, in order.
InOrder(r) == r \in Seq(Nat) /\ \A i \in 1 .. Len(r) : r[i] = i - 1

\* The next original word is run.
LEMMA RunWord ==
  ASSUME NEW r, InOrder(r), NEW a \in Nat, Len(r) = a
  PROVE  InOrder(Append(r, a)) /\ Len(Append(r, a)) = a + 1
<1>1. r \in Seq(Nat)
  BY DEF InOrder
<1> DEFINE s == Append(r, a)
<1>2. /\ s \in Seq(Nat) /\ Len(s) = Len(r) + 1 /\ s[Len(r) + 1] = a
      /\ \A i \in 1 .. Len(r) : s[i] = r[i]
  BY <1>1, AppendProperties
<1> HIDE DEF s
<1>3. ASSUME NEW i \in 1 .. Len(s) PROVE s[i] = i - 1
  <2>1. i \in 1 .. Len(r) \/ i = Len(r) + 1
    BY <1>1, <1>2
  <2> QED
    BY <1>2, <2>1 DEF InOrder
<1> QED
  BY <1>2, <1>3 DEF InOrder, s

\* A step of the calling thread changes nothing the installing thread has.
LEMMA RunRest ==
  ASSUME HInv, CInv, UNCHANGED apiVars, Progress', where'.in # "crash",
         apiPC = "patch" => ~(where'.in = "code" /\ where'.at = job.at + 1),
         Discipline = "calls" /\ Busy => where' = Outside
  PROVE  CInv'
<1>1. UNCHANGED <<mem, perm, entries, chunks, origin, near, apiPC, job>>
  BY DEF apiVars
<1>2. ChunkPairs' /\ EntryPairs'
  BY <1>1 DEF CInv, ChunkPairs, EntryPairs
<1>3. JobPair' /\ (Busy' <=> Busy)
  BY <1>1 DEF CInv, JobPair, Busy
<1>4. MemPairs'
  BY <1>1 DEF CInv, MemPairs, Patching
<1>5. ModeOK' /\ PatchApart'
  BY <1>1, <1>3 DEF CInv, ModeOK, PatchApart
<1> QED
  BY <1>2, <1>3, <1>4, <1>5 DEF CInv

\* The thread goes on at word a of the code, or returns behind the last.
LEMMA AtCode ==
  ASSUME NEW a \in Nat, a <= FnLen, where' = Code(a), UNCHANGED apiVars,
         InOrder(ran'), Len(ran') = a, a < FnLen => mem[a].op # "br"
  PROVE  /\ Progress' /\ where'.in # "crash"
         /\ where'.in = "code" => where'.at = a
<1>1. UNCHANGED <<mem, chunks, origin>>
  BY DEF apiVars
<1>2. CASE a = FnLen
  <2>1. where' = Outside /\ where'.in = "outside"
    BY <1>2, PlaceFields DEF Code
  <2> QED
    BY <1>2, <2>1 DEF Progress, InOrder
<1>3. CASE a # FnLen
  <2>1. where'.in = "code" /\ where'.at = a /\ where' # Outside
    <3>1. where' = [in |-> "code", at |-> a, fn |-> None]
      BY <1>3 DEF Code
    <3>2. where'.in = "code" /\ where'.at = a
      BY <3>1
    <3> QED
      BY <3>2, PlaceFields
  <2>2. mem'[a].op # "br"
    BY <1>1, <1>3, ConstFacts
  <2> QED
    BY <2>1, <2>2 DEF Progress, InOrder
<1> QED
  BY <1>2, <1>3

\* The thread enters the hook of a trampoline at t.
LEMMA AtHook ==
  ASSUME NEW n \in Nat, NEW f \in Fns, where' = Hook(n, f), UNCHANGED apiVars,
         InOrder(ran'), Len(ran') = Target[f], Live(chunks, origin, n, f)
  PROVE  Progress' /\ where'.in = "hook"
<1>1. UNCHANGED <<mem, chunks, origin>>
  BY DEF apiVars
<1>2. where'.in = "hook" /\ where'.n = n /\ where'.fn = f
  BY DEF Hook
<1>3. where' # Outside
  BY <1>2, PlaceFields
<1> QED
  BY <1>1, <1>2, <1>3 DEF Progress, InOrder

\* The thread is at word i of relocated code.
LEMMA AtChunk ==
  ASSUME NEW n, NEW i, where' = Chunk(n, i), UNCHANGED apiVars, InOrder(ran'),
         chunks[n].words[1].op = "orig" => Len(ran') = chunks[n].at + i - 1,
         chunks[n].words[1].op # "orig" =>
           /\ Len(ran') = chunks[n].at /\ i < 3
           /\ i = 2 => RegAt(chunks, origin, reg', chunks[n].at)
  PROVE  Progress' /\ where'.in = "chunk"
<1>1. UNCHANGED <<mem, chunks, origin>>
  BY DEF apiVars
<1>2. where'.in = "chunk" /\ where'.n = n /\ where'.i = i
  BY DEF Chunk
<1>3. where' # Outside
  BY <1>2, PlaceFields
<1> QED
  BY <1>1, <1>2, <1>3 DEF Progress, InOrder

\* A call begins.
LEMMA CallCalls ==
  ASSUME SafeUse, HInv, CInv, Call
  PROVE  CInv'
<1>1. /\ where' = Code(0) /\ UNCHANGED apiVars /\ ran' = <<>>
      /\ Discipline = "calls" => apiPC = "idle"
  BY DEF Call
<1>2. InOrder(ran') /\ Len(ran') = 0 /\ 0 \in Nat /\ 0 <= FnLen
  BY <1>1, ConstFacts DEF InOrder
<1>3. 0 \in Words /\ ~Site(0 - 1)
  BY ConstFacts DEF Site
<1>4. mem[0].op # "br"
  BY <1>3, NotBr
<1>5. Progress' /\ where'.in # "crash" /\ (where'.in = "code" => where'.at = 0)
  BY <1>1, <1>2, <1>4, AtCode
<1>6. apiPC = "patch" => job.at \in Nat
  BY PatchFacts, ConstFacts
<1>7. apiPC = "patch" => ~(where'.in = "code" /\ where'.at = job.at + 1)
  BY <1>5, <1>6
<1>8. ~(Discipline = "calls" /\ Busy)
  BY <1>1 DEF Busy
<1> QED
  BY <1>1, <1>5, <1>7, <1>8, RunRest

\* A thread in the code is not where it is written.
LEMMA RunsApart ==
  ASSUME SafeUse, HInv, HPlaces, CInv, RunCode
  PROVE  /\ where.in = "code" /\ where.at \in Words
         /\ ~(Discipline = "calls" /\ Busy)
         /\ apiPC = "patch" => where.at # job.at /\ where.at # job.at + 1
<1>1. where.in = "code" /\ where.at \in Words
  BY PlaceFields DEF RunCode, HPlaces
<1>2. ~(Discipline = "calls" /\ Busy)
  BY <1>1, PlaceFields DEF CInv, PatchApart
<1>3. ASSUME apiPC = "patch" PROVE where.at # job.at /\ where.at # job.at + 1
  <2>1. Discipline = "words"
    BY <1>2, <1>3 DEF SafeUse, Busy
  <2>2. where.at \notin Patched(job)
    BY <1>3, <2>1 DEF RunCode
  <2>3. job.at \in Patched(job) /\ job.at + 1 \in Patched(job)
    BY <1>3, PatchFacts DEF Patched
  <2> QED
    BY <2>2, <2>3
<1> QED
  BY <1>1, <1>2, <1>3

\* A word of the code.
LEMMA RunCodeCalls ==
  ASSUME SafeUse, HInv, HPlaces, CInv, RunCode
  PROVE  CInv'
<1> DEFINE a == where.at
           w == mem[a]
<1>1. /\ where.in = "code" /\ a \in Words
      /\ ~(Discipline = "calls" /\ Busy)
      /\ apiPC = "patch" => a # job.at /\ a # job.at + 1
  BY RunsApart
<1>2. Execute(w, a, Code(a + 1)) /\ UNCHANGED apiVars
  BY DEF RunCode
<1>3. a \in Nat /\ a + 1 \in Nat /\ a + 1 <= FnLen /\ a < FnLen /\ (a + 1) - 1 = a
  BY <1>1, ConstFacts
<1>4. InOrder(ran)
  BY DEF CInv, Progress, InOrder
<1> DEFINE Goal == /\ Progress' /\ where'.in # "crash"
                   /\ where'.in = "code" => where'.at = a + 1
<1>5. SUFFICES Goal
  <2>1. apiPC = "patch" => job.at \in Int
    BY PatchFacts
  <2>2. apiPC = "patch" => ~(where'.in = "code" /\ where'.at = job.at + 1)
    BY <1>1, <1>3, <2>1
  <2> QED
    BY <1>1, <1>2, <2>2, RunRest
\* An original word of the function.
<1>6. ASSUME w = Original[a], a + 1 < FnLen => mem[a + 1].op # "br" PROVE Goal
  <2>1. w.op = "orig" /\ w.n = a
    BY <1>1, <1>6, WordFields
  <2>2. ran' = Append(ran, a) /\ where' = Code(a + 1)
    BY <1>2, <2>1 DEF Execute
  <2>3. Len(ran) = a
    BY <1>1, <2>1 DEF CInv, Progress
  <2>4. InOrder(ran') /\ Len(ran') = a + 1
    BY <1>3, <1>4, <2>2, <2>3, RunWord
  <2> HIDE DEF a, w
  <2> QED
    BY <1>2, <1>3, <1>6, <2>2, <2>4, AtCode
<1>7. ASSUME NEW b \in Words, ~Site(b - 1) PROVE mem[b].op # "br"
  BY <1>7, NotBr
<1>8. ASSUME ~Site(a) PROVE a + 1 < FnLen => mem[a + 1].op # "br"
  <2>1. a + 1 < FnLen => a + 1 \in Words
    BY <1>3, ConstFacts
  <2> HIDE DEF a
  <2> QED
    BY <1>3, <1>7, <1>8, <2>1
<1>9. CASE Site(a)
  <2>1. ~Patching(a) /\ ~Site(a - 1)
    BY <1>1, <1>3, <1>9, SitesApart DEF Patching, SafeUse
  <2>2. PairOK(chunks, origin, w, mem[a + 1], a)
    BY <1>1, <1>9, <2>1 DEF CInv, MemPairs
  <2>3. w.op # "br" /\ Len(ran) = a
    <3>1. w.op # "br"
      BY <1>1, <1>7, <2>1
    <3> QED
      BY <1>1, <3>1 DEF CInv, Progress
  <2>4. CASE w.op = "orig"
    <3>1. w = Original[a] /\ mem[a + 1].op = "orig"
      BY <1>9, <2>2, <2>4, PairFirst
    <3> QED
      BY <1>6, <3>1
  <2>5. CASE w.op = "adrp"
    <3>1. /\ mem[a + 1].op = "br"
          /\ \E n \in Nat, f \in Fns :
               w.n = n /\ w.fn = f /\ Target[f] = a /\ Live(chunks, origin, n, f)
      BY <1>9, <2>2, <2>5, PairFirst
    <3>2. reg' = Hook(w.n, w.fn) /\ where' = Code(a + 1) /\ ran' = ran
      BY <1>2, <2>5 DEF Execute
    <3>3. RegAt(chunks, origin, reg', a)
      BY <3>1, <3>2 DEF RegAt
    <3>4. a + 1 \in Words
      BY <1>9 DEF Site
    <3>5. where' = [in |-> "code", at |-> a + 1, fn |-> None]
      BY <3>2, <3>4, ConstFacts DEF Code
    <3>6. where'.in = "code" /\ where'.at = a + 1
      BY <3>5
    <3>7. where' # Outside
      BY <3>6, PlaceFields
    <3>8. mem' = mem /\ chunks' = chunks /\ origin' = origin
      BY <1>2 DEF apiVars
    <3>9. Progress'
      BY <1>3, <1>4, <2>3, <3>1, <3>2, <3>3, <3>6, <3>7, <3>8 DEF Progress, InOrder
    <3> QED
      BY <3>6, <3>9
  <2> QED
    BY <1>9, <2>2, <2>4, <2>5, PairFirst
<1>10. CASE Site(a - 1)
  <2>1. ~Patching(a - 1) /\ ~Site(a) /\ a - 1 \in Words /\ (a - 1) + 1 = a
    <3>1. a - 1 \in Int /\ (a - 1) + 1 = a /\ a - 1 \in Words
      BY <1>3, <1>10 DEF Site
    <3>2. ~Site((a - 1) + 1)
      BY <1>10, <3>1, SitesApart DEF SafeUse
    <3>3. ~Patching(a - 1)
      BY <1>1, <3>1 DEF Patching
    <3> QED
      BY <3>1, <3>2, <3>3
  <2>2. PairOK(chunks, origin, mem[a - 1], w, a - 1)
    BY <1>10, <2>1 DEF CInv, MemPairs
  <2>3. CASE mem[a - 1].op = "orig"
    <3>1. w = Original[a]
      BY <1>10, <2>1, <2>2, <2>3, PairFirst
    <3> QED
      BY <1>6, <1>8, <2>1, <3>1
  <2>4. CASE mem[a - 1].op = "adrp"
    <3>1. w.op = "br"
      BY <1>10, <2>2, <2>4, PairFirst
    <3>2. Len(ran) = a - 1 /\ RegAt(chunks, origin, reg, a - 1)
      BY <1>1, <3>1 DEF CInv, Progress
    <3>3. PICK n \in Nat, f \in Fns :
            reg = Hook(n, f) /\ Target[f] = a - 1 /\ Live(chunks, origin, n, f)
      BY <3>2 DEF RegAt
    <3>4. where' = Hook(n, f) /\ ran' = ran
      BY <1>2, <3>1, <3>3, HookNotNone DEF Execute
    <3>5. Progress' /\ where'.in = "hook"
      BY <1>2, <1>4, <3>2, <3>3, <3>4, AtHook
    <3> QED
      BY <3>5
  <2> QED
    BY <1>10, <2>2, <2>3, <2>4, PairFirst
<1>11. CASE ~Site(a) /\ ~Site(a - 1)
  <2>1. w = Original[a]
    BY <1>1, <1>11 DEF CInv, MemPairs
  <2> QED
    BY <1>6, <1>8, <1>11, <2>1
<1> QED
  BY <1>9, <1>10, <1>11

\* A thread in relocated code or in a hook.
LEMMA ChunkFacts ==
  ASSUME HInv, HPlaces, CInv, where.in = "chunk"
  PROVE  /\ where.n \in 1 .. Len(chunks) /\ where.i \in 1 .. 3 /\ where.i \in Nat
         /\ Site(chunks[where.n].at) /\ chunks[where.n].at \in Nat
         /\ chunks[where.n].at + 2 <= FnLen /\ Len(chunks[where.n].words) = 2
         /\ PairOK(chunks, origin, chunks[where.n].words[1], chunks[where.n].words[2],
                   chunks[where.n].at)
         /\ ~(Discipline = "calls" /\ Busy)
<1> DEFINE n == where.n
<1>1. n \in 1 .. Len(chunks) /\ where.i \in 1 .. Len(chunks[n].words) + 1
  BY PlaceFields DEF HPlaces
<1>2. /\ Site(chunks[n].at) /\ Len(chunks[n].words) = 2
      /\ PairOK(chunks, origin, chunks[n].words[1], chunks[n].words[2], chunks[n].at)
  BY <1>1 DEF CInv, ChunkPairs
<1>3. chunks[n].at \in Nat /\ chunks[n].at + 2 <= FnLen
  <2>1. chunks[n].at \in Words /\ chunks[n].at + 1 \in Words
    BY <1>2 DEF Site
  <2> QED
    BY <2>1, ConstFacts
<1>4. ~(Discipline = "calls" /\ Busy)
  BY PlaceFields DEF CInv, PatchApart
<1> QED
  BY <1>1, <1>2, <1>3, <1>4

\* A word of relocated code.
LEMMA RunChunkCalls ==
  ASSUME HInv, HPlaces, CInv, RunChunk
  PROVE  CInv'
<1> DEFINE n == where.n
           i == where.i
           t == chunks[n].at
           x == chunks[n].words[1]
           y == chunks[n].words[2]
           w == chunks[n].words[i]
<1>1. /\ where.in = "chunk" /\ i <= Len(chunks[n].words)
      /\ Execute(w, t + i - 1, Chunk(n, i + 1)) /\ UNCHANGED apiVars
  BY DEF RunChunk
<1>2. /\ i \in 1 .. 3 /\ Site(t) /\ t \in Nat /\ Len(chunks[n].words) = 2
      /\ PairOK(chunks, origin, x, y, t) /\ ~(Discipline = "calls" /\ Busy)
  BY <1>1, ChunkFacts
<1>3. (i = 1 /\ w = x) \/ (i = 2 /\ w = y)
  BY <1>1, <1>2
<1>4. InOrder(ran)
  BY DEF CInv, Progress, InOrder
<1>5. SUFFICES Progress' /\ where'.in \in {"chunk", "hook"}
  BY <1>1, <1>2, RunRest
<1>6. CASE x.op = "orig"
  <2>1. x.n = t /\ y.n = t + 1 /\ y.op = "orig"
    BY <1>2, <1>6, PairFirst
  <2>2. w.op = "orig" /\ w.n = t + i - 1 /\ t + i - 1 \in Nat
    BY <1>2, <1>3, <1>6, <2>1
  <2>3. ran' = Append(ran, t + i - 1) /\ where' = Chunk(n, i + 1)
    <3>1. ran' = Append(ran, w.n) /\ where' = Chunk(n, i + 1)
      BY <1>1, <2>2 DEF Execute
    <3> QED
      BY <2>2, <3>1
  <2>4. Len(ran) = t + i - 1
    BY <1>1, <1>6 DEF CInv, Progress
  <2>5. InOrder(ran') /\ Len(ran') = (t + i - 1) + 1
    BY <1>4, <2>2, <2>3, <2>4, RunWord
  <2>6. Len(ran') = t + (i + 1) - 1
    BY <1>2, <2>5
  <2> QED
    BY <1>1, <1>6, <2>3, <2>5, <2>6, AtChunk
<1>7. CASE x.op = "adrp"
  <2>1. /\ y.op = "br"
        /\ \E m \in Nat, f \in Fns :
             x.n = m /\ x.fn = f /\ Target[f] = t /\ Live(chunks, origin, m, f)
    BY <1>2, <1>7, PairFirst
  <2>2. Len(ran) = t /\ (i = 2 => RegAt(chunks, origin, reg, t))
    BY <1>1, <1>7 DEF CInv, Progress
  <2>3. CASE i = 1
    <3>1. reg' = Hook(x.n, x.fn) /\ where' = Chunk(n, 2) /\ ran' = ran
      <4>1. w = x /\ i + 1 = 2
        BY <1>3, <2>3
      <4> QED
        BY <1>1, <1>7, <4>1 DEF Execute
    <3>2. RegAt(chunks, origin, reg', t)
      BY <2>1, <3>1 DEF RegAt
    <3>3. InOrder(ran') /\ Len(ran') = t /\ x.op # "orig"
      BY <1>4, <1>7, <2>2, <3>1
    <3>4. UNCHANGED apiVars
      BY <1>1
    <3> HIDE DEF x, t
    <3>5. Progress' /\ where'.in = "chunk"
      BY <3>1, <3>2, <3>3, <3>4, AtChunk DEF x, t
    <3> QED
      BY <3>5
  <2>4. CASE i = 2
    <3>1. PICK m \in Nat, f \in Fns :
            reg = Hook(m, f) /\ Target[f] = t /\ Live(chunks, origin, m, f)
      BY <2>2, <2>4 DEF RegAt
    <3>2. w.op = "br"
      BY <1>3, <2>1, <2>4
    <3>3. where' = Hook(m, f) /\ ran' = ran
      BY <1>1, <3>1, <3>2, HookNotNone DEF Execute
    <3> QED
      BY <1>1, <1>4, <2>2, <3>1, <3>3, AtHook
  <2> QED
    BY <1>3, <2>3, <2>4
<1> QED
  BY <1>2, <1>6, <1>7, PairFirst

\* The branch behind relocated code.
LEMMA BranchCalls ==
  ASSUME SafeUse, HInv, HPlaces, CInv, BranchToRest
  PROVE  CInv'
<1> DEFINE n == where.n
           t == chunks[n].at
<1>1. /\ where.in = "chunk" /\ where.i > Len(chunks[n].words)
      /\ where' = Code(t + Len(chunks[n].words)) /\ UNCHANGED apiVars /\ ran' = ran
  BY DEF BranchToRest
<1>2. /\ where.i \in 1 .. 3 /\ Site(t) /\ t \in Nat /\ Len(chunks[n].words) = 2
      /\ t + 2 <= FnLen /\ ~(Discipline = "calls" /\ Busy)
      /\ PairOK(chunks, origin, chunks[n].words[1], chunks[n].words[2], t)
  BY <1>1, ChunkFacts
<1>3. where.i = 3 /\ where' = Code(t + 2) /\ t + 2 \in Nat
  BY <1>1, <1>2
<1>4. Len(ran') = t + 2 /\ InOrder(ran')
  <2>1. chunks[n].words[1].op = "orig"
    BY <1>1, <1>3 DEF CInv, Progress
  <2>2. Len(ran) = t + 3 - 1
    BY <1>1, <1>3, <2>1 DEF CInv, Progress
  <2>3. InOrder(ran)
    BY DEF CInv, Progress, InOrder
  <2> QED
    BY <1>1, <1>2, <2>2, <2>3
<1>5. ~Site(t + 1)
  BY <1>2, SitesApart DEF SafeUse
<1>6. t + 2 < FnLen => mem[t + 2].op # "br"
  <2>1. (t + 2) - 1 = t + 1 /\ (t + 2 < FnLen => t + 2 \in Words)
    BY <1>2, <1>3, ConstFacts
  <2> HIDE DEF t
  <2> QED
    BY <1>5, <2>1, NotBr
<1>7. Progress' /\ where'.in # "crash" /\ (where'.in = "code" => where'.at = t + 2)
  BY <1>1, <1>2, <1>3, <1>4, <1>6, AtCode
<1>8. ASSUME apiPC = "patch", where'.in = "code", where'.at = job.at + 1 PROVE FALSE
  <2>1. Site(job.at) /\ job.at \in Int
    BY <1>8, PatchFacts
  <2>2. job.at = t + 1
    BY <1>2, <1>7, <1>8, <2>1
  <2> QED
    BY <1>5, <2>1, <2>2
<1> QED
  BY <1>1, <1>2, <1>7, <1>8, RunRest

\* A hook goes on with relocated code.
LEMMA RunHookCalls ==
  ASSUME HInv, HPlaces, CInv, RunHook
  PROVE  CInv'
<1> DEFINE k == IF where.fn \in Handlers THEN where.n ELSE origin[where.fn]
<1>1. /\ where.in = "hook" /\ where' = (IF k = 0 THEN Crash ELSE Chunk(k, 1))
      /\ UNCHANGED apiVars /\ ran' = ran
  BY DEF RunHook
<1>2. Len(ran) = Target[where.fn] /\ Live(chunks, origin, where.n, where.fn)
  BY <1>1 DEF CInv, Progress
<1>3. k \in 1 .. Len(chunks) /\ chunks[k].at = Target[where.fn]
  BY <1>2 DEF Live
<1> HIDE DEF k
<1>4. where' = Chunk(k, 1)
  BY <1>1, <1>3
<1>5. Len(ran') = chunks[k].at /\ InOrder(ran')
  BY <1>1, <1>2, <1>3 DEF CInv, Progress, InOrder
<1>6. chunks[k].at + 1 - 1 = chunks[k].at
  <2>1. chunks[k].at \in Words
    BY <1>3 DEF CInv, ChunkPairs, Site
  <2> QED
    BY <2>1, ConstFacts
<1>7. Progress' /\ where'.in = "chunk"
  BY <1>1, <1>4, <1>5, <1>6, AtChunk
<1>8. ~(Discipline = "calls" /\ Busy)
  BY <1>1, PlaceFields DEF CInv, PatchApart
<1> QED
  BY <1>1, <1>7, <1>8, RunRest

-----------------------------------------------------------------------------
(* The theorems.                                                           *)

\* The initial state.
LEMMA CInit ==
  ASSUME SafeUse, Init
  PROVE  CInv
<1>1. /\ mem = Original /\ entries = <<>> /\ chunks = <<>> /\ Len(entries) = 0 /\ Len(chunks) = 0
      /\ near = FALSE /\ apiPC = "idle" /\ where = Outside /\ trace = <<>> /\ ran = <<>>
      /\ Len(ran) = 0 /\ ~Busy
  BY DEF Init, Busy
<1>2. ModeOK /\ PatchApart
  BY <1>1, PlaceFields DEF ModeOK, PatchApart
<1>3. ChunkPairs /\ EntryPairs /\ JobPair
  BY <1>1 DEF ChunkPairs, EntryPairs, JobPair
<1>4. MemPairs
  BY <1>1 DEF MemPairs, Patching, PairOK, Plain
<1>5. Progress
  BY <1>1, PlaceFields DEF Progress
<1> QED
  BY <1>2, <1>3, <1>4, <1>5 DEF CInv

\* Every step keeps CInv.
LEMMA CInvStep ==
  ASSUME SafeUse, HInv, HPlaces, CInv, [Next]_vars
  PROVE  CInv'
<1>1. ASSUME NEW f \in Replacements, DobbyHook(f) PROVE CInv'
  <2>1. f \in Fns /\ f \notin Handlers
    BY DEF Replacements
  <2>2. /\ apiPC = "idle" /\ (Discipline = "calls" => where = Outside) /\ apiPC' = "publish"
        /\ UNCHANGED <<mem, perm, origin, near, where, reg, trace, ran>>
    BY <1>1 DEF DobbyHook, MayStart
  <2>3. PICK kind \in TrampolineKinds : Dispatch(f, kind)
    BY <1>1 DEF DobbyHook
  <2> QED
    BY <2>1, <2>2, <2>3, DispatchCalls
<1>2. ASSUME NEW h \in Handlers, DobbyInstrument(h) PROVE CInv'
  <2>1. h \in Fns
    BY ConstFacts
  <2>2. /\ apiPC = "idle" /\ (Discipline = "calls" => where = Outside) /\ apiPC' = "protect"
        /\ UNCHANGED <<mem, perm, origin, near, where, reg, trace, ran>>
    BY <1>2 DEF DobbyInstrument, MayStart
  <2>3. PICK kind \in TrampolineKinds : Dispatch(h, kind)
    BY <1>2 DEF DobbyInstrument
  <2> QED
    BY <2>1, <2>2, <2>3, DispatchCalls
<1>3. ASSUME NEW f \in Fns, RelocationFails(f) PROVE CInv'
  BY <1>3 DEF RelocationFails, SafeUse
<1>4. ASSUME NEW a \in Words, DobbyDestroy(a) PROVE CInv'
  BY <1>4, DestroyCalls
<1>5. ASSUME TogglePlugin PROVE CInv'
  BY <1>5 DEF TogglePlugin, SafeUse
<1>6. ASSUME PublishOrigin PROVE CInv'
  BY <1>6, PublishCalls
<1>7. ASSUME Unprotect PROVE CInv'
  BY <1>7, UnprotectCalls
<1>8. ASSUME PatchWord PROVE CInv'
  BY <1>8, PatchWordCalls
<1>9. ASSUME PatchFaults PROVE CInv'
  BY <1>9, PatchOnPage DEF PatchFaults
<1>10. ASSUME Protect PROVE CInv'
  BY <1>10, ProtectCalls
<1>11. ASSUME Call PROVE CInv'
  BY <1>11, CallCalls
<1>12. ASSUME Run PROVE CInv'
  BY <1>12, RunCodeCalls, RunChunkCalls, BranchCalls, RunHookCalls DEF Run
<1>13. ASSUME Dead \/ UNCHANGED vars PROVE CInv'
  <2>1. UNCHANGED <<apiVars, where, reg, trace, ran>>
    BY <1>13 DEF Dead, vars, callVars
  <2>2. UNCHANGED <<chunks, origin, mem, job, apiPC>>
    BY <2>1 DEF apiVars
  <2>3. Grows
    BY <2>2, SameGrows
  <2>4. Progress'
    BY <2>1, <2>2, <2>3, ProgressKept
  <2> QED
    BY <2>1, <2>4, RunRest DEF CInv, ModeOK, PatchApart
<1> QED
  BY <1>1, <1>2, <1>3, <1>4, <1>5, <1>6, <1>7, <1>8, <1>9, <1>10, <1>11, <1>12, <1>13
     DEF Next, Install, Patch

\* CInv holds in every reachable state.
LEMMA CAlways ==
  ASSUME SafeUse
  PROVE  Safety => []CInv
<1>1. ASSUME HInv /\ HPlaces, CInv, [Next]_vars PROVE CInv'
  BY <1>1, CInvStep
<1> QED
  BY <1>1, HAlways, CInit, PTL DEF Safety

\* Under SafeUse neither thread faults, however many hooks there are and
\* however calls and installations interleave: the calling thread never runs
\* half a trampoline and never reaches a NULL *origin_call (DobbyHook publishes
\* it before CodePatch writes the first word), and CodePatch writes only to the
\* page it has opened.
THEOREM HookNothingFaults ==
  ASSUME SafeUse
  PROVE  Safety => []NothingFaults
<1>1. CInv => NothingFaults
  BY DEF CInv, ModeOK, NothingFaults
<1> QED
  BY <1>1, CAlways, PTL

\* Under SafeUse a call runs the words of the function once and in order,
\* through the code, relocated copies and trampolines that come and go.
THEOREM HookBodyRunsOnce ==
  ASSUME SafeUse
  PROVE  Safety => []BodyRunsOnce
<1>1. ASSUME CInv PROVE BodyRunsOnce
  <2>1. ran \in Seq(Nat) /\ DOMAIN ran = 1 .. Len(ran)
    BY <1>1 DEF CInv, Progress
  <2> QED
    BY <1>1, <2>1 DEF CInv, Progress, BodyRunsOnce
<1> QED
  BY <1>1, CAlways, PTL
=============================================================================
