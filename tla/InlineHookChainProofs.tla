------------------------ MODULE InlineHookChainProofs ------------------------
(***************************************************************************)
(* The order in which a call runs hooks and words, for every function and  *)
(* every set of hooks, when each address carries one hook of any kind, or  *)
(* several adrp+br hooks with different replacements (ChainUse).  It needs *)
(* no discipline of the client: ChainOrder is about calls that no          *)
(* installation disturbs.                                                  *)
(*                                                                         *)
(* EInv describes the entries: each one's words are the trampoline to its  *)
(* hook, its relocated code is what it saved, and its origin leads there.  *)
(* ThreadDue says of the calling thread that whatever it will run next, by *)
(* the words, the register and the relocated code before it, is what has   *)
(* to follow the last item of the trace, and how many of the function's    *)
(* words have run.  Both rest on HInv, HPlaces and LInv of                 *)
(* InlineHookProofs.                                                       *)
(*                                                                         *)
(* When hooks come and go only between calls (CalmUse), every call is      *)
(* undisturbed: QInv adds the pages and where the installing thread may    *)
(* fault.  Calls never do, and run each word once, for near, adrp and      *)
(* literal trampolines alike; on one page and with memory for relocation   *)
(* (QuietUse) neither thread faults.                                       *)
(***************************************************************************)
EXTENDS InlineHookCallProofs

ChainUse ==
  /\ TargetsApart
  /\ \/ Stacking = "one"
     \/ Stacking = "distinct" /\ NormalKinds = {"adrp"} /\ ~NearPlugin

\* RunsNext and Follows for a list s.
RunsIn(s, k, a, y) ==
  \/ y = a /\ \A i \in k + 1 .. Len(s) : s[i].at # a
  \/ \E j \in k + 1 .. Len(s) :
       /\ y = s[j].fn /\ s[j].at = a
       /\ \A i \in k + 1 .. j - 1 : s[i].at # a

FollowsIn(s, x, y) ==
  \/ \E k \in 1 .. Len(s) : x = s[k].fn /\ RunsIn(s, k, s[k].at, y)
  \/ x \in Words /\ x + 1 \in Words /\ RunsIn(s, 0, x + 1, y)

\* The trace tr is in order as far as it goes.
Chained(s, tr) ==
  /\ tr # <<>> => RunsIn(s, 0, 0, tr[1])
  /\ \A i \in 1 .. Len(tr) - 1 : FollowsIn(s, tr[i], tr[i + 1])

\* y may be its next item.
Due(s, tr, y) ==
  /\ tr = <<>> => RunsIn(s, 0, 0, y)
  /\ tr # <<>> => FollowsIn(s, tr[Len(tr)], y)

Ended(tr, x) == tr # <<>> /\ tr[Len(tr)] = x

\* The chunk number that the trampoline of entry e carries.
Through(e) == IF e.fn \in Handlers THEN e.chunk ELSE 0

\* p is the hook of an entry, and its turn has come: after l of the words.
HookDue(s, tr, l, p) ==
  \E k \in 1 .. Len(s) :
    p = Hook(Through(s[k]), s[k].fn) /\ l = s[k].at /\ Due(s, tr, s[k].fn)

CodeDue(s, tr, l, m, r, a) ==
  /\ m[a].op # "lit"
  /\ m[a].op = "br" => HookDue(s, tr, l, r)
  /\ m[a].op # "br" => l = a /\ \A y : RunsIn(s, 0, a, y) => Due(s, tr, y)

\* Place i of the relocated code of entry k.
CopyDue(s, k, tr, l, r, i) ==
  /\ i = 1 => l = s[k].at /\ \A y : RunsIn(s, k, s[k].at, y) => Due(s, tr, y)
  /\ i # 1 /\ s[k].saved[1].op = "adrp" => i = 2 /\ HookDue(s, tr, l, r)
  /\ i # 1 /\ s[k].saved[1].op # "adrp" => l = s[k].at + i - 1 /\ Ended(tr, s[k].at + i - 2)

ChunkDue(s, tr, l, r, n, i) ==
  \E k \in 1 .. Len(s) : s[k].chunk = n /\ CopyDue(s, k, tr, l, r, i)

\* At place w with x17 = r over code m, after l words of the function, only
\* what is due can run next.
PlaceDue(s, tr, l, m, r, w) ==
  /\ w.in # "crash"
  /\ w = Outside => tr = <<>> \/ (l = FnLen /\ Ended(tr, FnLen - 1))
  /\ w.in = "code" => CodeDue(s, tr, l, m, r, w.at)
  /\ w.in = "chunk" => ChunkDue(s, tr, l, r, w.n, w.i)
  /\ w.in = "hook" => HookDue(s, tr, l, w)

Items == Fns \cup Nat

ThreadDue ==
  /\ trace \in Seq(Items)
  /\ calm => /\ ~Busy /\ Chained(entries, trace) /\ InOrder(ran)
             /\ PlaceDue(entries, trace, Len(ran), mem, reg, where)

\* The words of entry e are the trampoline to its hook.
Formed(e) ==
  \E kind \in {"b", "adrp", "ldr"} :
    /\ e.words = Trampoline(kind, Through(e), e.fn)
    /\ Stacking # "one" => kind = "adrp"

EntriesFormed == \A i \in 1 .. Len(entries) : Formed(entries[i])

\* The relocated code of an entry is what it saved.
EntriesCopied ==
  \A i \in 1 .. Len(entries) :
    /\ chunks[entries[i].chunk].at = entries[i].at
    /\ chunks[entries[i].chunk].words = entries[i].saved

EntriesDistinct ==
  \A i, j \in 1 .. Len(entries) :
    /\ entries[i].fn = entries[j].fn => i = j
    /\ Stacking = "one" /\ entries[i].at = entries[j].at => i = j

\* A replacement calls through to the relocated code of its own entry.
OriginsSet ==
  \A i \in 1 .. Len(entries) :
    entries[i].fn \in Replacements /\ ~(apiPC = "publish" /\ i = 1)
      => origin[entries[i].fn] = entries[i].chunk

EInv ==
  /\ EntriesFormed /\ EntriesCopied /\ EntriesDistinct /\ OriginsSet
  /\ NearPlugin \/ near = FALSE

-----------------------------------------------------------------------------
(* Entries.                                                                *)

\* What the installing client and the choice of trampolines leave possible.
LEMMA KindIs ==
  ASSUME ChainUse, NearPlugin \/ near = FALSE, NEW kind \in TrampolineKinds
  PROVE  kind \in {"b", "adrp", "ldr"} /\ (Stacking # "one" => kind = "adrp")
<1>1. kind \in {"b", "adrp", "ldr"}
  BY ConstFacts DEF TrampolineKinds
<1>2. ASSUME Stacking # "one" PROVE kind = "adrp"
  BY <1>2 DEF ChainUse, TrampolineKinds
<1> QED
  BY <1>1, <1>2

\* A hook that may be installed differs from those that are.
LEMMA FreshHook ==
  ASSUME ChainUse, HInv, NEW f \in Fns, MayStart(f), NEW i \in 1 .. Len(entries)
  PROVE  /\ entries[i].fn # f
         /\ Stacking = "one" => entries[i].at # Target[f]
<1>1. entries \in Seq(Entry) /\ i \in DOMAIN entries /\ entries[i].at = Target[entries[i].fn]
  BY DEF HInv, HTypes, HRefs, EntryOK
<1>2. ASSUME Stacking = "one" PROVE entries[i].at # Target[f]
  BY <1>1, <1>2 DEF MayStart, Hooked
<1>3. ASSUME Stacking = "distinct" PROVE entries[i].fn # f
  BY <1>1, <1>3 DEF MayStart
<1> QED
  BY <1>1, <1>2, <1>3 DEF ChainUse

\* DobbyHook and DobbyInstrument up to AddHookEntry.
LEMMA DispatchEntries ==
  ASSUME ChainUse, HInv, EInv, NEW f \in Fns, NEW kind \in TrampolineKinds,
         MayStart(f), Dispatch(f, kind), UNCHANGED <<origin, near>>,
         f \notin Handlers => apiPC' = "publish"
  PROVE  EInv'
<1>1. PICK e \in Entry, c \in Relocated :
        /\ entries' = <<e>> \o entries /\ chunks' = Append(chunks, c)
        /\ job' = [at |-> e.at, words |-> e.words, next |-> 1, remove |-> FALSE]
        /\ e.fn = f /\ e.at = Target[f] /\ e.chunk = Len(chunks) + 1
        /\ c.at = e.at /\ c.words = e.saved
        /\ e.words = Trampoline(kind, IF f \in Handlers THEN e.chunk ELSE 0, f)
        /\ \A i \in 1 .. Len(e.saved) :
             e.saved[i] = mem[e.at + i - 1] /\ e.at + i - 1 \in Words
        /\ EntryOK(e, Len(chunks) + 1)
  BY DispatchIs
<1>2. /\ entries \in Seq(Entry) /\ Len(entries) \in Nat
      /\ chunks \in Seq(Relocated) /\ Len(chunks) \in Nat /\ apiPC = "idle"
  BY DEF HInv, HTypes, MayStart
<1>3. /\ Len(entries') = Len(entries) + 1 /\ entries'[1] = e
      /\ \A k \in 2 .. Len(entries) + 1 : entries'[k] = entries[k - 1]
  BY <1>1, <1>2, PushIs
<1>4. /\ chunks'[Len(chunks) + 1] = c
      /\ \A n \in 1 .. Len(chunks) : chunks'[n] = chunks[n]
  BY <1>1, <1>2
<1>5. ASSUME NEW i \in 1 .. Len(entries')
      PROVE  \/ i = 1 /\ entries'[i] = e
             \/ /\ i # 1 /\ i - 1 \in 1 .. Len(entries) /\ entries'[i] = entries[i - 1]
                /\ i \in Nat
  <2>1. i \in Nat /\ (i = 1 \/ i \in 2 .. Len(entries) + 1)
    BY <1>2, <1>3
  <2> QED
    BY <1>2, <1>3, <2>1
<1>6. ASSUME NEW i \in 1 .. Len(entries) PROVE entries[i].chunk \in 1 .. Len(chunks)
  BY <1>2 DEF HInv, HRefs, EntryOK
<1>7. EntriesFormed'
  <2>1. Formed(e)
    BY <1>1, KindIs DEF Formed, Through, EInv
  <2>2. ASSUME NEW i \in 1 .. Len(entries') PROVE Formed(entries'[i])
    BY <1>5, <2>1 DEF EInv, EntriesFormed
  <2> QED
    BY <2>2 DEF EntriesFormed
<1>8. EntriesCopied'
  <2>1. ASSUME NEW i \in 1 .. Len(entries')
        PROVE  /\ chunks'[entries'[i].chunk].at = entries'[i].at
               /\ chunks'[entries'[i].chunk].words = entries'[i].saved
    <3>1. CASE i = 1 /\ entries'[i] = e
      BY <1>1, <1>4, <3>1
    <3>2. CASE i - 1 \in 1 .. Len(entries) /\ entries'[i] = entries[i - 1]
      BY <1>4, <1>6, <3>2 DEF EInv, EntriesCopied
    <3> QED
      BY <1>5, <3>1, <3>2
  <2> QED
    BY <2>1 DEF EntriesCopied
<1>9. EntriesDistinct'
  <2>1. ASSUME NEW i \in 1 .. Len(entries)
        PROVE  entries[i].fn # e.fn /\ (Stacking = "one" => entries[i].at # e.at)
    BY <1>1, FreshHook
  <2>2. ASSUME NEW i \in 1 .. Len(entries'), NEW j \in 1 .. Len(entries')
        PROVE  /\ entries'[i].fn = entries'[j].fn => i = j
               /\ Stacking = "one" /\ entries'[i].at = entries'[j].at => i = j
    <3>1. CASE i = 1
      BY <1>5, <2>1, <3>1
    <3>2. CASE j = 1
      BY <1>5, <2>1, <3>2
    <3>3. CASE i # 1 /\ j # 1
      <4>1. /\ i - 1 \in 1 .. Len(entries) /\ entries'[i] = entries[i - 1] /\ i \in Nat
            /\ j - 1 \in 1 .. Len(entries) /\ entries'[j] = entries[j - 1] /\ j \in Nat
        BY <1>5, <3>3
      <4>2. i - 1 = j - 1 => i = j
        BY <4>1
      <4> QED
        BY <4>1, <4>2 DEF EInv, EntriesDistinct
    <3> QED
      BY <3>1, <3>2, <3>3
  <2> QED
    BY <2>2 DEF EntriesDistinct
<1>10. OriginsSet'
  <2>1. ASSUME NEW i \in 1 .. Len(entries'), entries'[i].fn \in Replacements,
               ~(apiPC' = "publish" /\ i = 1)
        PROVE  origin'[entries'[i].fn] = entries'[i].chunk
    <3>1. CASE i = 1 /\ entries'[i] = e
      BY <1>1, <2>1, <3>1 DEF Replacements
    <3>2. CASE i - 1 \in 1 .. Len(entries) /\ entries'[i] = entries[i - 1]
      BY <1>2, <2>1, <3>2 DEF EInv, OriginsSet
    <3> QED
      BY <1>5, <3>1, <3>2
  <2> QED
    BY <2>1 DEF OriginsSet
<1> QED
  BY <1>7, <1>8, <1>9, <1>10 DEF EInv

\* *origin_call is set.
LEMMA PublishEntries ==
  ASSUME HInv, EInv, PublishOrigin
  PROVE  EInv'
<1>1. /\ UNCHANGED <<entries, chunks, near>> /\ apiPC = "publish" /\ apiPC' = "protect" /\ Busy
      /\ origin' = [origin EXCEPT ![Head(entries).fn] = Head(entries).chunk]
  BY DEF PublishOrigin, Busy
<1>2. /\ entries \in Seq(Entry) /\ Len(entries) \in Nat
      /\ origin \in [Replacements -> Nat]
  BY DEF HInv, HTypes
<1>3. ASSUME NEW i \in 1 .. Len(entries), entries[i].fn \in Replacements
      PROVE  origin'[entries[i].fn] = entries[i].chunk
  <2>1. entries # <<>> /\ Head(entries) = entries[1] /\ 1 \in 1 .. Len(entries)
    BY <1>2, <1>3
  <2>2. origin'[entries[i].fn] = IF entries[i].fn = entries[1].fn THEN entries[1].chunk
                                 ELSE origin[entries[i].fn]
    BY <1>1, <1>2, <1>3, <2>1
  <2>3. CASE i = 1
    BY <2>2, <2>3
  <2>4. CASE i # 1
    <3>1. entries[i].fn # entries[1].fn
      BY <2>1, <2>4 DEF EInv, EntriesDistinct
    <3> QED
      BY <1>3, <2>2, <2>4, <3>1 DEF EInv, OriginsSet
  <2> QED
    BY <2>3, <2>4
<1>4. OriginsSet'
  BY <1>1, <1>3 DEF OriginsSet
<1>5. EntriesFormed' /\ EntriesCopied' /\ EntriesDistinct'
  BY <1>1 DEF EInv, EntriesFormed, EntriesCopied, EntriesDistinct
<1> QED
  BY <1>1, <1>4, <1>5 DEF EInv

\* An entry is unlinked, or none.
LEMMA ProtectEntries ==
  ASSUME HInv, EInv, Protect
  PROVE  EInv'
<1>1. /\ UNCHANGED <<chunks, origin, near>> /\ apiPC = "patch" /\ apiPC' = "idle" /\ Busy
      /\ entries' = IF job.remove THEN RemoveHookEntry(job.at) ELSE entries
  BY DEF Protect, Busy
<1>2. entries \in Seq(Entry) /\ Len(entries) \in Nat /\ (job.remove => Hooked(job.at))
  BY <1>1 DEF HInv, HTypes, HRefs, JobOK
<1>3. PICK d \in 1 .. Len(entries) + 1 :
        \A i \in 1 .. Len(entries') :
          \/ i < d /\ i \in 1 .. Len(entries) /\ entries'[i] = entries[i]
          \/ i >= d /\ i + 1 \in 1 .. Len(entries) /\ entries'[i] = entries[i + 1]
  <2>1. CASE ~job.remove
    <3>1. \A i \in 1 .. Len(entries') : i < Len(entries) + 1 /\ entries'[i] = entries[i] /\ i \in 1 .. Len(entries)
      BY <1>1, <1>2, <2>1
    <3> QED
      BY <1>2, <3>1
  <2>2. CASE job.remove
    <3> DEFINE d == Newest(job.at)
    <3>1. d \in 1 .. Len(entries)
      BY <1>2, <2>2, NewestIs
    <3>2. entries' = RemoveAt(entries, d)
      BY <1>1, <2>2 DEF RemoveHookEntry
    <3> HIDE DEF d
    <3>3. /\ Len(entries') = Len(entries) - 1
          /\ \A k \in 1 .. d - 1 : entries'[k] = entries[k]
          /\ \A k \in d .. Len(entries) - 1 : entries'[k] = entries[k + 1]
      BY <1>2, <3>1, <3>2, RemoveAtIs
    <3>4. ASSUME NEW i \in 1 .. Len(entries')
          PROVE  \/ i < d /\ i \in 1 .. Len(entries) /\ entries'[i] = entries[i]
                 \/ i >= d /\ i + 1 \in 1 .. Len(entries) /\ entries'[i] = entries[i + 1]
      <4>1. \/ i < d /\ i \in 1 .. Len(entries) /\ i \in 1 .. d - 1
            \/ i >= d /\ i + 1 \in 1 .. Len(entries) /\ i \in d .. Len(entries) - 1
        BY <1>2, <3>1, <3>3
      <4> QED
        BY <3>3, <4>1
    <3>5. d \in 1 .. Len(entries) + 1
      BY <1>2, <3>1
    <3> QED
      BY <3>4, <3>5
  <2> QED
    BY <2>1, <2>2
<1> DEFINE old(i) == IF i < d THEN i ELSE i + 1
<1>4. \A i \in 1 .. Len(entries') : old(i) \in 1 .. Len(entries) /\ entries'[i] = entries[old(i)]
  BY <1>3
<1>5. \A i, j \in 1 .. Len(entries') : old(i) = old(j) => i = j
  <2>1. \A i \in 1 .. Len(entries') : i \in Int
    OBVIOUS
  <2> QED
    BY <1>2, <2>1
<1> HIDE DEF old
<1>6. EntriesFormed'
  BY <1>4 DEF EInv, EntriesFormed
<1>7. EntriesCopied'
  BY <1>1, <1>4 DEF EInv, EntriesCopied
<1>8. EntriesDistinct'
  BY <1>4, <1>5 DEF EInv, EntriesDistinct
<1>9. OriginsSet'
  BY <1>1, <1>4 DEF EInv, OriginsSet
<1> QED
  BY <1>1, <1>6, <1>7, <1>8, <1>9 DEF EInv

\* Steps that leave list, relocated code and origins alone.
LEMMA QuietEntries ==
  ASSUME EInv, UNCHANGED <<entries, chunks, origin>>, near' = near \/ NearPlugin,
         apiPC # "publish" \/ apiPC' = "publish"
  PROVE  EInv'
BY DEF EInv, EntriesFormed, EntriesCopied, EntriesDistinct, OriginsSet

-----------------------------------------------------------------------------
(* The words that the calling thread meets.                                *)

\* The three trampolines, word by word.
LEMMA FormedWords ==
  ASSUME NEW e, Formed(e)
  PROVE  \/ /\ Len(e.words) = 1 /\ Stacking = "one"
            /\ e.words[1] = Word("b", Through(e), e.fn)
         \/ /\ Len(e.words) = 2
            /\ e.words[1] = Word("adrp", Through(e), e.fn) /\ e.words[2] = Word("br", 0, None)
         \/ /\ Len(e.words) = 2 /\ Stacking = "one"
            /\ e.words[1] = Word("ldr", 0, None) /\ e.words[2] = Word("lit", Through(e), e.fn)
<1>1. PICK kind \in {"b", "adrp", "ldr"} :
        /\ e.words = Trampoline(kind, Through(e), e.fn)
        /\ Stacking # "one" => kind = "adrp"
  BY DEF Formed
<1>2. CASE kind = "b"
  BY <1>1, <1>2 DEF Trampoline
<1>3. CASE kind = "adrp"
  BY <1>1, <1>3 DEF Trampoline
<1>4. CASE kind = "ldr"
  BY <1>1, <1>4 DEF Trampoline
<1> QED
  BY <1>1, <1>2, <1>3, <1>4

\* The fields of words.
LEMMA ChainFields ==
  /\ \A a \in Words : Original[a].op = "orig" /\ Original[a].n = a
  /\ \A op, n, f : Word(op, n, f).op = op /\ Word(op, n, f).n = n /\ Word(op, n, f).fn = f
BY DEF Original, Word

\* An entry, for the provers.
LEMMA EntryFacts ==
  ASSUME HInv, NEW i \in 1 .. Len(entries)
  PROVE  /\ entries[i].at \in Nat /\ entries[i].at \in Words /\ entries[i].fn \in Fns
         /\ Len(entries[i].words) \in 1 .. 2 /\ Len(entries[i].saved) = Len(entries[i].words)
         /\ entries[i].at + Len(entries[i].words) <= FnLen
         /\ entries[i].at = Target[entries[i].fn]
         /\ entries[i].chunk \in 1 .. Len(chunks) /\ entries[i].chunk \in Nat
<1>1. entries[i] \in Entry /\ EntryOK(entries[i], Len(chunks))
  BY DEF HInv, HTypes, HRefs
<1> QED
  BY <1>1, ConstFacts DEF Entry, EntryOK, Row

\* An entry covers its own words and no others.
LEMMA CoversIs ==
  ASSUME HInv, NEW i \in 1 .. Len(entries), NEW b \in Int
  PROVE  Covers(entries, i, b) <=>
           b = entries[i].at \/ (b = entries[i].at + 1 /\ Len(entries[i].words) = 2)
<1>1. entries[i].at \in Nat /\ Len(entries[i].words) \in 1 .. 2
  BY EntryFacts
<1>2. \A x, l \in Int : l \in 1 .. 2 => (b - x + 1 \in 1 .. l <=> b = x \/ (b = x + 1 /\ l = 2))
  OBVIOUS
<1>3. Len(entries[i].words) \in Int /\ entries[i].at \in Int
  BY <1>1
<1> QED
  BY <1>1, <1>2, <1>3 DEF Covers

\* The first entry of s below k that covers b decides the word.
LEMMA UnderFirst ==
  ASSUME NEW s \in Seq(Entry), NEW k \in Nat, NEW j \in k + 1 .. Len(s), NEW b, NEW v,
         UnderIn(s, k, b, v), Covers(s, j, b), \A i \in k + 1 .. j - 1 : ~Covers(s, i, b)
  PROVE  v = s[j].words[b - s[j].at + 1]
<1>1. PICK i \in k + 1 .. Len(s) :
        /\ Covers(s, i, b) /\ v = s[i].words[b - s[i].at + 1]
        /\ \A l \in k + 1 .. i - 1 : ~Covers(s, l, b)
  BY DEF UnderIn
<1>2. Len(s) \in Nat /\ i \in Nat /\ j \in Nat
  OBVIOUS
<1>3. ~(i < j) /\ ~(j < i)
  BY <1>1, <1>2
<1>4. i = j
  BY <1>2, <1>3
<1> QED
  BY <1>1, <1>4

\* Of the entries of an address below k one is the newest.
LEMMA FirstAt ==
  ASSUME entries \in Seq(Entry), NEW k \in Nat, NEW a,
         \E i \in k + 1 .. Len(entries) : entries[i].at = a
  PROVE  \E j \in k + 1 .. Len(entries) :
           entries[j].at = a /\ \A i \in k + 1 .. j - 1 : entries[i].at # a
<1> DEFINE S == {i \in k + 1 .. Len(entries) : entries[i].at = a}
<1>1. S \subseteq Nat /\ S # {} /\ Len(entries) \in Nat
  OBVIOUS
<1>2. PICK j : j \in S /\ \A y \in S : j <= y
  BY <1>1, MinIn
<1>3. ASSUME NEW i \in k + 1 .. j - 1, entries[i].at = a PROVE FALSE
  <2>1. i \in S /\ i < j
    BY <1>1, <1>2, <1>3
  <2> QED
    BY <1>2, <2>1
<1> QED
  BY <1>2, <1>3

\* The words an entry saved, which are its relocated code: the function's own,
\* or the trampoline of the newest older entry of the address.
CopyPlain(k) ==
  /\ \A i \in k + 1 .. Len(entries) : entries[i].at # entries[k].at
  /\ \A p \in 1 .. Len(entries[k].saved) : entries[k].saved[p] = Original[entries[k].at + p - 1]

CopyHook(k, j) ==
  /\ entries[j].at = entries[k].at
  /\ \A i \in k + 1 .. j - 1 : entries[i].at # entries[k].at
  /\ Len(entries[k].saved) = 2
  /\ entries[k].saved[1] = Word("adrp", Through(entries[j]), entries[j].fn)
  /\ entries[k].saved[2] = Word("br", 0, None)

LEMMA CopyIs ==
  ASSUME ChainUse, HInv, LInv, EInv, NEW k \in 1 .. Len(entries)
  PROVE  CopyPlain(k) \/ \E j \in k + 1 .. Len(entries) : CopyHook(k, j)
<1> DEFINE a == entries[k].at
<1>1. /\ a \in Nat /\ Len(entries[k].words) \in 1 .. 2
      /\ Len(entries[k].saved) = Len(entries[k].words)
  BY EntryFacts
<1>2. entries \in Seq(Entry) /\ Len(entries) \in Nat /\ k \in Nat /\ TargetsApart
  BY DEF HInv, HTypes, ChainUse
<1>3. ASSUME NEW p \in 1 .. Len(entries[k].saved)
      PROVE  /\ UnderIn(entries, k, a + p - 1, entries[k].saved[p])
             /\ Covers(entries, k, a + p - 1) /\ a + p - 1 \in Int
  <2>1. UnderIn(entries, k, a + p - 1, entries[k].saved[p])
    BY DEF LInv, SavedOK
  <2>2. p \in Int /\ a + p - 1 \in Int /\ (a + p - 1) - a + 1 = p
    BY <1>1
  <2>3. Covers(entries, k, a + p - 1)
    BY <1>1, <2>2 DEF Covers
  <2> QED
    BY <2>1, <2>2, <2>3
<1>4. ASSUME NEW p \in 1 .. Len(entries[k].saved), NEW i \in 1 .. Len(entries), entries[i].at # a
      PROVE  ~Covers(entries, i, a + p - 1)
  BY <1>2, <1>3, <1>4, SameAt
<1>5. CASE \A i \in k + 1 .. Len(entries) : entries[i].at # a
  <2>1. ASSUME NEW p \in 1 .. Len(entries[k].saved)
        PROVE  entries[k].saved[p] = Original[a + p - 1]
    <3>1. \A i \in k + 1 .. Len(entries) : ~Covers(entries, i, a + p - 1)
      BY <1>2, <1>4, <1>5
    <3> QED
      BY <1>3, <3>1 DEF UnderIn
  <2> QED
    BY <1>5, <2>1 DEF CopyPlain
<1>6. CASE \E i \in k + 1 .. Len(entries) : entries[i].at = a
  <2>1. PICK j \in k + 1 .. Len(entries) :
          entries[j].at = a /\ \A i \in k + 1 .. j - 1 : entries[i].at # a
    BY <1>2, <1>6, FirstAt
  <2>2. j \in 1 .. Len(entries) /\ j # k /\ \A i \in k + 1 .. j - 1 : i \in 1 .. Len(entries)
    BY <1>2
  <2>3. Stacking # "one"
    BY <2>1, <2>2 DEF EInv, EntriesDistinct
  <2>4. Formed(entries[k]) /\ Formed(entries[j])
    BY <2>2 DEF EInv, EntriesFormed
  <2>5. Len(entries[k].words) = 2
    BY <2>3, <2>4, FormedWords
  <2>6. /\ Len(entries[j].words) = 2
        /\ entries[j].words[1] = Word("adrp", Through(entries[j]), entries[j].fn)
        /\ entries[j].words[2] = Word("br", 0, None)
    BY <2>3, <2>4, FormedWords
  <2>7. ASSUME NEW p \in 1 .. 2 PROVE entries[k].saved[p] = entries[j].words[p]
    <3>1. p \in 1 .. Len(entries[k].saved) /\ p \in Int
      BY <1>1, <2>5
    <3>2. (a + p - 1) - entries[j].at + 1 = p
      BY <1>1, <2>1, <3>1
    <3>3. Covers(entries, j, a + p - 1)
      BY <2>6, <3>2 DEF Covers
    <3>4. \A i \in k + 1 .. j - 1 : ~Covers(entries, i, a + p - 1)
      BY <1>4, <2>1, <2>2, <3>1
    <3>5. UnderIn(entries, k, a + p - 1, entries[k].saved[p])
      BY <1>3, <3>1
    <3>6. entries[k].saved[p] = entries[j].words[(a + p - 1) - entries[j].at + 1]
      BY <1>2, <3>3, <3>4, <3>5, UnderFirst
    <3> QED
      BY <3>2, <3>6
  <2>8. CopyHook(k, j)
    BY <1>1, <2>1, <2>5, <2>6, <2>7 DEF CopyHook
  <2> QED
    BY <2>8
<1> QED
  BY <1>5, <1>6

\* Only the second word of a trampoline is a bare branch or a literal.
LEMMA NotBare ==
  ASSUME HInv, LInv, EInv, apiPC = "idle", NEW b \in Words,
         \A i \in 1 .. Len(entries) : Len(entries[i].words) = 2 => entries[i].at # b - 1
  PROVE  mem[b].op \notin {"br", "lit"}
<1>1. UnderIn(entries, 0, b, mem[b]) /\ b \in Int
  BY ConstFacts DEF LInv, MemOK, Busy, Written
<1>2. CASE mem[b] = Original[b]
  BY <1>2, ChainFields
<1>3. CASE \E i \in 1 .. Len(entries) :
             Covers(entries, i, b) /\ mem[b] = entries[i].words[b - entries[i].at + 1]
  <2>1. PICK i \in 1 .. Len(entries) :
          Covers(entries, i, b) /\ mem[b] = entries[i].words[b - entries[i].at + 1]
    BY <1>3
  <2>2. entries[i].at \in Nat
    BY EntryFacts
  <2>3. b = entries[i].at
    BY <1>1, <2>1, <2>2, CoversIs
  <2>4. mem[b] = entries[i].words[1]
    BY <1>1, <2>1, <2>2, <2>3
  <2>5. Formed(entries[i])
    BY DEF EInv, EntriesFormed
  <2>6. entries[i].words[1].op \in {"b", "adrp", "ldr"}
    BY <2>5, FormedWords, ChainFields
  <2> QED
    BY <2>4, <2>6
<1> QED
  BY <1>1, <1>2, <1>3 DEF UnderIn

\* The word at a: the function's own, the start of the trampoline of the
\* newest entry there, or the rest of a trampoline.
CodePlain(a) ==
  /\ mem[a] = Original[a]
  /\ \A i \in 1 .. Len(entries) : entries[i].at # a
  /\ a + 1 \in Words => mem[a + 1].op \notin {"br", "lit"}

CodeHook(a, i) ==
  /\ entries[i].at = a /\ \A j \in 1 .. i - 1 : entries[j].at # a
  /\ \/ mem[a] = Word("b", Through(entries[i]), entries[i].fn)
     \/ /\ a + 1 \in Words /\ mem[a] = Word("adrp", Through(entries[i]), entries[i].fn)
        /\ mem[a + 1] = Word("br", 0, None)
     \/ /\ a + 1 \in Words /\ mem[a] = Word("ldr", 0, None)
        /\ mem[a + 1] = Word("lit", Through(entries[i]), entries[i].fn)

LEMMA CodeIs ==
  ASSUME ChainUse, HInv, LInv, EInv, apiPC = "idle", NEW a \in Words
  PROVE  \/ CodePlain(a)
         \/ \E i \in 1 .. Len(entries) : CodeHook(a, i)
         \/ mem[a].op \in {"br", "lit"}
<1>1. /\ entries \in Seq(Entry) /\ Len(entries) \in Nat /\ TargetsApart /\ a \in Int
      /\ \A b \in Words : b \in Int
  BY ConstFacts DEF HInv, HTypes, ChainUse
<1>2. \A b \in Words : UnderIn(entries, 0, b, mem[b])
  BY DEF LInv, MemOK, Busy, Written
<1>3. ASSUME \E i \in 1 .. Len(entries) : entries[i].at = a
      PROVE  \E i \in 1 .. Len(entries) : CodeHook(a, i)
  <2>1. PICK j \in 1 .. Len(entries) :
          entries[j].at = a /\ \A i \in 1 .. j - 1 : entries[i].at # a
    <3>1. 0 \in Nat /\ 0 + 1 = 1
      OBVIOUS
    <3>2. \E i \in 0 + 1 .. Len(entries) : entries[i].at = a
      BY <1>3, <3>1
    <3>3. \E j \in 0 + 1 .. Len(entries) :
            entries[j].at = a /\ \A i \in 0 + 1 .. j - 1 : entries[i].at # a
      BY <1>1, <3>1, <3>2, FirstAt
    <3> QED
      BY <3>1, <3>3
  <2>2. \A i \in 1 .. j - 1 : i \in 1 .. Len(entries)
    BY <1>1
  <2>3. /\ entries[j].at \in Nat /\ a + Len(entries[j].words) <= FnLen
    BY <2>1, EntryFacts
  <2>4. ASSUME NEW b \in Words, Covers(entries, j, b)
        PROVE  mem[b] = entries[j].words[b - a + 1]
    <3>1. \A i \in 1 .. j - 1 : ~Covers(entries, i, b)
      BY <1>1, <2>1, <2>2, <2>4, SameAt
    <3>2. UnderIn(entries, 0, b, mem[b]) /\ 0 \in Nat /\ j \in 0 + 1 .. Len(entries)
          /\ \A i \in 0 + 1 .. j - 1 : ~Covers(entries, i, b)
      BY <1>2, <3>1
    <3>3. mem[b] = entries[j].words[b - entries[j].at + 1]
      BY <1>1, <2>4, <3>2, UnderFirst
    <3> QED
      BY <2>1, <3>3
  <2>5. mem[a] = entries[j].words[1]
    <3>1. Covers(entries, j, a) /\ a - a + 1 = 1
      BY <1>1, <2>1, CoversIs
    <3> QED
      BY <2>4, <3>1
  <2>6. ASSUME Len(entries[j].words) = 2
        PROVE  a + 1 \in Words /\ mem[a + 1] = entries[j].words[2]
    <3>1. a + 1 \in Words
      BY <1>1, <2>1, <2>3, <2>6, ConstFacts
    <3>2. Covers(entries, j, a + 1) /\ (a + 1) - a + 1 = 2
      BY <1>1, <2>1, <2>6, CoversIs
    <3> QED
      BY <2>4, <3>1, <3>2
  <2>7. Formed(entries[j])
    BY DEF EInv, EntriesFormed
  <2>8. CodeHook(a, j)
    BY <2>1, <2>5, <2>6, <2>7, FormedWords DEF CodeHook
  <2> QED
    BY <2>8
<1>4. ASSUME \A i \in 1 .. Len(entries) : entries[i].at # a
      PROVE  CodePlain(a) \/ mem[a].op \in {"br", "lit"}
  <2>1. CASE mem[a] = Original[a]
    <3>1. ASSUME a + 1 \in Words PROVE mem[a + 1].op \notin {"br", "lit"}
      <4>1. (a + 1) - 1 = a
        BY <1>1
      <4> QED
        BY <1>4, <3>1, <4>1, NotBare
    <3> QED
      BY <1>4, <2>1, <3>1 DEF CodePlain
  <2>2. CASE \E i \in 1 .. Len(entries) :
               Covers(entries, i, a) /\ mem[a] = entries[i].words[a - entries[i].at + 1]
    <3>1. PICK i \in 1 .. Len(entries) :
            Covers(entries, i, a) /\ mem[a] = entries[i].words[a - entries[i].at + 1]
      BY <2>2
    <3>2. a = entries[i].at + 1 /\ Len(entries[i].words) = 2 /\ entries[i].at \in Nat
      BY <1>1, <1>4, <3>1, CoversIs, EntryFacts
    <3>3. a - entries[i].at + 1 = 2
      BY <3>2
    <3>4. Formed(entries[i])
      BY DEF EInv, EntriesFormed
    <3>5. entries[i].words[2].op \in {"br", "lit"}
      BY <3>2, <3>4, FormedWords, ChainFields
    <3> QED
      BY <3>1, <3>3, <3>5
  <2>3. UnderIn(entries, 0, a, mem[a])
    BY <1>2
  <2> QED
    BY <2>1, <2>2, <2>3 DEF UnderIn
<1> QED
  BY <1>3, <1>4

-----------------------------------------------------------------------------
(* The calling thread.                                                     *)

\* The trace grows by an item that is due.
LEMMA ChainGrows ==
  ASSUME NEW s, NEW tr \in Seq(Items), NEW y \in Items, Chained(s, tr), Due(s, tr, y)
  PROVE  /\ Append(tr, y) \in Seq(Items) /\ Chained(s, Append(tr, y)) /\ Ended(Append(tr, y), y)
         /\ \A z : FollowsIn(s, y, z) => Due(s, Append(tr, y), z)
<1> DEFINE u == Append(tr, y)
<1>1. /\ u \in Seq(Items) /\ Len(u) = Len(tr) + 1 /\ Len(tr) \in Nat /\ u[Len(tr) + 1] = y
      /\ \A i \in 1 .. Len(tr) : u[i] = tr[i]
  OBVIOUS
<1>2. tr = <<>> <=> Len(tr) = 0
  OBVIOUS
<1> HIDE DEF u
<1>3. u # <<>> /\ u[Len(u)] = y
  BY <1>1
<1>4. RunsIn(s, 0, 0, u[1])
  <2>1. CASE Len(tr) = 0
    BY <1>1, <1>2, <2>1 DEF Due
  <2>2. CASE Len(tr) # 0
    <3>1. u[1] = tr[1]
      BY <1>1, <2>2
    <3> QED
      BY <1>2, <2>2, <3>1 DEF Chained
  <2> QED
    BY <2>1, <2>2
<1>5. ASSUME NEW i \in 1 .. Len(u) - 1 PROVE FollowsIn(s, u[i], u[i + 1])
  <2>1. i \in 1 .. Len(tr) /\ i \in Nat
    BY <1>1
  <2>2. CASE i = Len(tr)
    <3>1. u[i] = tr[Len(tr)] /\ u[i + 1] = y /\ tr # <<>>
      BY <1>1, <1>2, <2>1, <2>2
    <3> QED
      BY <3>1 DEF Due
  <2>3. CASE i # Len(tr)
    <3>1. i \in 1 .. Len(tr) - 1 /\ i + 1 \in 1 .. Len(tr)
      BY <1>1, <2>1, <2>3
    <3>2. u[i] = tr[i] /\ u[i + 1] = tr[i + 1]
      BY <1>1, <2>1, <3>1
    <3> QED
      BY <3>1, <3>2 DEF Chained
  <2> QED
    BY <2>2, <2>3
<1>6. Chained(s, u) /\ Ended(u, y)
  BY <1>3, <1>4, <1>5 DEF Chained, Ended
<1>7. \A z : FollowsIn(s, y, z) => Due(s, u, z)
  BY <1>3 DEF Due
<1> QED
  BY <1>1, <1>6, <1>7 DEF u

\* Behind the word b - 1.
LEMMA DueAtCode ==
  ASSUME NEW s, NEW tr, NEW m, NEW r, NEW b \in Nat, b # 0, b <= FnLen, Ended(tr, b - 1),
         b \in Words => m[b].op \notin {"br", "lit"}
  PROVE  PlaceDue(s, tr, b, m, r, Code(b))
<1>1. CASE b = FnLen
  <2>1. Code(b) = Outside /\ Outside.in = "outside"
    BY <1>1 DEF Code, Outside
  <2> QED
    BY <1>1, <2>1 DEF PlaceDue
<1>2. CASE b # FnLen
  <2>1. Code(b) = [in |-> "code", at |-> b, fn |-> None]
    BY <1>2 DEF Code
  <2> DEFINE w == Code(b)
  <2>2. w.in = "code" /\ w.at = b /\ w # Outside
    BY <2>1 DEF Outside
  <2>3. b \in Words /\ b - 1 \in Words /\ (b - 1) + 1 = b
    BY <1>2, ConstFacts
  <2>4. ASSUME NEW y, RunsIn(s, 0, b, y) PROVE Due(s, tr, y)
    <3>1. FollowsIn(s, b - 1, y)
      BY <2>3, <2>4 DEF FollowsIn
    <3> QED
      BY <3>1 DEF Due, Ended
  <2>5. CodeDue(s, tr, b, m, r, b)
    BY <2>3, <2>4 DEF CodeDue
  <2> QED
    BY <2>2, <2>5 DEF PlaceDue
<1> QED
  BY <1>1, <1>2

\* In relocated code or in a hook.
LEMMA DueAtOther ==
  ASSUME NEW s, NEW tr, NEW l, NEW m, NEW r
  PROVE  /\ \A n, i : ChunkDue(s, tr, l, r, n, i) => PlaceDue(s, tr, l, m, r, Chunk(n, i))
         /\ \A p : HookDue(s, tr, l, p) => PlaceDue(s, tr, l, m, r, p)
<1>1. Outside.in = "outside"
  BY DEF Outside
<1>2. ASSUME NEW n, NEW i, ChunkDue(s, tr, l, r, n, i)
      PROVE  PlaceDue(s, tr, l, m, r, Chunk(n, i))
  <2>1. Chunk(n, i).in = "chunk" /\ Chunk(n, i).n = n /\ Chunk(n, i).i = i
    BY DEF Chunk
  <2> QED
    BY <1>1, <1>2, <2>1 DEF PlaceDue
<1>3. ASSUME NEW p, HookDue(s, tr, l, p) PROVE PlaceDue(s, tr, l, m, r, p)
  <2>1. p.in = "hook"
    BY <1>3 DEF HookDue, Hook
  <2> QED
    BY <1>1, <1>3, <2>1 DEF PlaceDue
<1> QED
  BY <1>2, <1>3

\* A register with a hook in it is not empty.
LEMMA HookDueReg ==
  ASSUME HInv, NEW tr, NEW l, NEW p, HookDue(entries, tr, l, p)
  PROVE  p # None
<1>1. PICK k \in 1 .. Len(entries) : p = Hook(Through(entries[k]), entries[k].fn)
  BY DEF HookDue
<1>2. entries[k].fn \in Fns /\ Through(entries[k]) \in Nat
  BY EntryFacts DEF Through
<1> QED
  BY <1>1, <1>2, HookNotNone

\* A step of the calling thread has only its own state to show.
LEMMA StepDue ==
  ASSUME ThreadDue, UNCHANGED <<apiVars, calm>>, trace' \in Seq(Items),
         calm => /\ Chained(entries, trace') /\ InOrder(ran')
                 /\ PlaceDue(entries, trace', Len(ran'), mem, reg', where')
  PROVE  ThreadDue'
<1>1. entries' = entries /\ mem' = mem /\ calm' = calm /\ apiPC' = apiPC
  BY DEF apiVars
<1> QED
  BY <1>1 DEF ThreadDue, Busy

\* A thread that runs undisturbed runs while no call of the API is in progress.
LEMMA CalmIdle ==
  ASSUME HInv, ThreadDue, Alive, calm
  PROVE  /\ apiPC = "idle" /\ Chained(entries, trace) /\ trace \in Seq(Items) /\ InOrder(ran)
         /\ PlaceDue(entries, trace, Len(ran), mem, reg, where)
BY DEF HInv, HTypes, ThreadDue, Alive, Busy

\* Executed words are numbered.
LEMMA ExecuteTrace ==
  ASSUME trace \in Seq(Items), NEW w \in WordSet, NEW a, NEW next, Execute(w, a, next)
  PROVE  trace' \in Seq(Items)
<1>1. w.op \in Ops /\ w.n \in Items
  BY DEF WordSet, Items
<1>2. trace' = trace \/ trace' = Append(trace, w.n)
  BY <1>1 DEF Execute, Ops
<1> QED
  BY <1>1, <1>2

\* A step through the code.
LEMMA RunCodeDue ==
  ASSUME ChainUse, HInv, HPlaces, LInv, EInv, ThreadDue, Alive, RunCode
  PROVE  ThreadDue'
<1> DEFINE a == where.at
           w == mem[a]
<1>1. a \in Words /\ a \in Nat /\ where.in = "code" /\ w \in WordSet
  BY PlaceFields, ConstFacts DEF RunCode, HPlaces, HInv, HTypes
<1>2. UNCHANGED <<apiVars, calm>> /\ Execute(w, a, Code(a + 1))
  BY DEF RunCode
<1>3. trace' \in Seq(Items)
  BY <1>1, <1>2, ExecuteTrace DEF ThreadDue
<1>4. ASSUME calm
      PROVE  /\ Chained(entries, trace') /\ InOrder(ran')
             /\ PlaceDue(entries, trace', Len(ran'), mem, reg', where')
  <2>1. /\ apiPC = "idle" /\ Chained(entries, trace) /\ trace \in Seq(Items)
        /\ InOrder(ran) /\ CodeDue(entries, trace, Len(ran), mem, reg, a)
    BY <1>1, <1>4, CalmIdle DEF PlaceDue
  <2>2. CASE CodePlain(a)
    <3>1. w.op = "orig" /\ w.n = a
      BY <1>1, <2>2, ChainFields DEF CodePlain
    <3>2. trace' = Append(trace, a) /\ ran' = Append(ran, a) /\ where' = Code(a + 1)
      BY <1>2, <3>1 DEF Execute
    <3>3. Due(entries, trace, a) /\ Len(ran) = a
      <4>1. RunsIn(entries, 0, a, a)
        BY <2>2 DEF CodePlain, RunsIn
      <4> QED
        BY <2>1, <3>1, <4>1 DEF CodeDue
    <3>4. a \in Items /\ a + 1 \in Nat /\ a + 1 # 0 /\ a + 1 <= FnLen /\ (a + 1) - 1 = a
      BY <1>1, ConstFacts DEF Items
    <3>5. Chained(entries, trace') /\ Ended(trace', a)
      BY <2>1, <3>2, <3>3, <3>4, ChainGrows
    <3>6. PlaceDue(entries, trace', a + 1, mem, reg', Code(a + 1))
      BY <2>2, <3>4, <3>5, DueAtCode DEF CodePlain
    <3>7. InOrder(ran') /\ Len(ran') = a + 1
      BY <1>1, <2>1, <3>2, <3>3, RunWord
    <3> QED
      BY <3>2, <3>5, <3>6, <3>7
  <2>3. CASE \E i \in 1 .. Len(entries) : CodeHook(a, i)
    <3>1. PICK i \in 1 .. Len(entries) : CodeHook(a, i)
      BY <2>3
    <3> DEFINE h == Hook(Through(entries[i]), entries[i].fn)
    <3>2. w.op \in {"b", "adrp", "ldr"}
      BY <3>1, ChainFields DEF CodeHook
    <3>3. HookDue(entries, trace, Len(ran), h)
      <4>1. RunsIn(entries, 0, a, entries[i].fn)
        BY <3>1 DEF CodeHook, RunsIn
      <4>2. Due(entries, trace, entries[i].fn) /\ Len(ran) = entries[i].at
        BY <2>1, <3>1, <3>2, <4>1 DEF CodeDue, CodeHook
      <4> QED
        BY <4>2 DEF HookDue
    <3> HIDE DEF h
    <3>4. trace' = trace /\ ran' = ran
      BY <1>2, <3>2 DEF Execute
    <3>5. CASE w.op = "b" \/ w.op = "ldr"
      <4>1. where' = h
        <5>1. CASE w.op = "b"
          <6>1. w = Word("b", Through(entries[i]), entries[i].fn)
            BY <3>1, <5>1, ChainFields DEF CodeHook
          <6> QED
            BY <1>2, <5>1, <6>1, ChainFields DEF Execute, h
        <5>2. CASE w.op = "ldr"
          <6>1. mem[a + 1] = Word("lit", Through(entries[i]), entries[i].fn)
            BY <3>1, <5>2, ChainFields DEF CodeHook
          <6> QED
            BY <1>2, <5>2, <6>1, ChainFields DEF Execute, h
        <5> QED
          BY <3>5, <5>1, <5>2
      <4> QED
        BY <2>1, <3>3, <3>4, <4>1, DueAtOther
    <3>6. CASE w.op = "adrp"
      <4>1. /\ a + 1 \in Words /\ w = Word("adrp", Through(entries[i]), entries[i].fn)
            /\ mem[a + 1].op = "br"
        BY <3>1, <3>6, ChainFields DEF CodeHook
      <4>2. reg' = h /\ where' = Code(a + 1)
        BY <1>2, <3>6, <4>1, ChainFields DEF Execute, h
      <4>3. where' = [in |-> "code", at |-> a + 1, fn |-> None]
        BY <4>1, <4>2, ConstFacts DEF Code
      <4>4. where'.in = "code" /\ where'.at = a + 1 /\ where' # Outside
        BY <4>3 DEF Outside
      <4>5. CodeDue(entries, trace, Len(ran), mem, reg', a + 1)
        BY <3>3, <4>1, <4>2 DEF CodeDue
      <4> QED
        BY <2>1, <3>4, <4>4, <4>5 DEF PlaceDue
    <3> QED
      BY <3>2, <3>5, <3>6
  <2>4. CASE w.op = "br"
    <3>1. HookDue(entries, trace, Len(ran), reg)
      BY <2>1, <2>4 DEF CodeDue
    <3>2. reg # None
      BY <3>1, HookDueReg
    <3>3. trace' = trace /\ ran' = ran /\ where' = reg
      BY <1>2, <2>4, <3>2 DEF Execute
    <3> QED
      BY <2>1, <3>1, <3>3, DueAtOther
  <2>5. w.op # "lit"
    BY <2>1 DEF CodeDue
  <2> QED
    BY <1>1, <2>1, <2>2, <2>3, <2>4, <2>5, CodeIs
<1> QED
  BY <1>2, <1>3, <1>4, StepDue

\* The entry whose relocated code the thread is in.
LEMMA ChunkEntry ==
  ASSUME HInv, HPlaces, EInv, ThreadDue, Alive, calm, where.in = "chunk"
  PROVE  \E k \in 1 .. Len(entries) :
           /\ where.n = entries[k].chunk /\ CopyDue(entries, k, trace, Len(ran), reg, where.i)
           /\ chunks[where.n].at = entries[k].at /\ chunks[where.n].words = entries[k].saved
           /\ where.i \in 1 .. Len(entries[k].saved) + 1
<1>1. PlaceDue(entries, trace, Len(ran), mem, reg, where)
  BY CalmIdle
<1>2. PICK k \in 1 .. Len(entries) :
        entries[k].chunk = where.n /\ CopyDue(entries, k, trace, Len(ran), reg, where.i)
  BY <1>1 DEF PlaceDue, ChunkDue
<1>3. chunks[where.n].at = entries[k].at /\ chunks[where.n].words = entries[k].saved
  BY <1>2 DEF EInv, EntriesCopied
<1>4. where.i \in 1 .. Len(chunks[where.n].words) + 1
  BY PlaceFields DEF HPlaces
<1> QED
  BY <1>2, <1>3, <1>4

\* A step through relocated code.
LEMMA RunChunkDue ==
  ASSUME ChainUse, HInv, HPlaces, LInv, EInv, ThreadDue, Alive, RunChunk
  PROVE  ThreadDue'
<1> DEFINE n == where.n
           i == where.i
           c == chunks[n]
           w == c.words[i]
<1>1. /\ UNCHANGED <<apiVars, calm>> /\ Execute(w, c.at + i - 1, Chunk(n, i + 1))
      /\ where.in = "chunk" /\ i <= Len(c.words)
  BY DEF RunChunk
<1>2. n \in 1 .. Len(chunks) /\ i \in 1 .. Len(c.words) + 1
  BY <1>1, PlaceFields DEF HPlaces
<1>3. w \in WordSet
  <2>1. c \in Relocated
    BY <1>2 DEF HInv, HTypes
  <2>2. c.words \in Seq(WordSet)
    BY <2>1 DEF Relocated
  <2>3. i \in 1 .. Len(c.words)
    BY <1>1, <1>2, <2>2
  <2> QED
    BY <2>2, <2>3
<1>4. trace' \in Seq(Items)
  BY <1>1, <1>3, ExecuteTrace DEF ThreadDue
<1>5. ASSUME calm
      PROVE  /\ Chained(entries, trace') /\ InOrder(ran')
             /\ PlaceDue(entries, trace', Len(ran'), mem, reg', where')
  <2>1. Chained(entries, trace) /\ trace \in Seq(Items) /\ InOrder(ran)
    BY <1>5, CalmIdle
  <2>2. PICK k \in 1 .. Len(entries) :
          /\ n = entries[k].chunk /\ CopyDue(entries, k, trace, Len(ran), reg, i)
          /\ c.at = entries[k].at /\ c.words = entries[k].saved
          /\ i \in 1 .. Len(entries[k].saved) + 1
    BY <1>1, <1>5, ChunkEntry
  <2> DEFINE a == entries[k].at
             sv == entries[k].saved
  <2>3. /\ a \in Nat /\ a \in Words /\ a = Target[entries[k].fn] /\ entries[k].fn \in Fns
        /\ Len(sv) \in 1 .. 2 /\ a + Len(sv) <= FnLen
    BY EntryFacts
  <2>4. i \in 1 .. Len(sv) /\ i \in Nat /\ w = sv[i] /\ (i = 1 \/ i = 2)
    <3>1. w = sv[i] /\ i <= Len(sv) /\ i \in 1 .. Len(sv) + 1
      BY <1>1, <2>2
    <3> HIDE DEF sv, i, w
    <3>2. i \in 1 .. Len(sv) /\ i \in Nat /\ (i = 1 \/ i = 2)
      BY <2>3, <3>1
    <3> QED
      BY <3>1, <3>2
  <2>5. i + 1 # 1 /\ (i + 1) - 2 = i - 1 /\ a + (i + 1) - 2 = a + i - 1
    BY <2>3, <2>4
  <2> HIDE DEF sv
  <2>6. CASE CopyPlain(k)
    <3>1. /\ a + i - 1 \in Words /\ a + i - 1 \in Items
      BY <2>3, <2>4, ConstFacts DEF Items
    <3>2. w = Original[a + i - 1] /\ sv[1] = Original[a + 1 - 1] /\ a + 1 - 1 = a
      BY <2>3, <2>4, <2>6 DEF CopyPlain, sv
    <3>3. w.op = "orig" /\ w.n = a + i - 1 /\ sv[1].op = "orig"
      BY <2>3, <3>1, <3>2, ChainFields
    <3>4. /\ trace' = Append(trace, a + i - 1) /\ ran' = Append(ran, a + i - 1)
          /\ where' = Chunk(n, i + 1)
      BY <1>1, <3>3 DEF Execute
    <3>5. Due(entries, trace, a + i - 1) /\ Len(ran) = a + i - 1
      <4>1. CASE i = 1
        <5>1. RunsIn(entries, k, a, a) /\ a + i - 1 = a
          BY <2>3, <2>6, <4>1 DEF CopyPlain, RunsIn
        <5> QED
          BY <2>2, <4>1, <5>1 DEF CopyDue
      <4>2. CASE i = 2
        <5>1. Ended(trace, a) /\ Len(ran) = a + i - 1
          <6>1. a + i - 2 = a /\ i # 1
            BY <2>3, <4>2
          <6> QED
            BY <2>2, <3>3, <6>1 DEF CopyDue, sv
        <5>2. a + i - 1 = a + 1 /\ a + 1 \in Words
          BY <2>3, <3>1, <4>2
        <5>3. ASSUME NEW j \in 0 + 1 .. Len(entries), entries[j].at = a + 1 PROVE FALSE
          <6>1. entries[j].at = Target[entries[j].fn] /\ entries[j].fn \in Fns
            BY EntryFacts
          <6>2. Target[entries[j].fn] - Target[entries[k].fn] = 1
                /\ Target[entries[j].fn] # Target[entries[k].fn]
            BY <2>3, <5>3, <6>1
          <6> QED
            BY <2>3, <6>1, <6>2 DEF ChainUse, TargetsApart
        <5>4. RunsIn(entries, 0, a + 1, a + 1)
          BY <5>3 DEF RunsIn
        <5>5. FollowsIn(entries, a, a + 1)
          BY <2>3, <5>2, <5>4 DEF FollowsIn
        <5> QED
          BY <5>1, <5>2, <5>5 DEF Due, Ended
      <4> QED
        BY <2>4, <4>1, <4>2
    <3>6. Chained(entries, trace') /\ Ended(trace', a + i - 1)
      BY <2>1, <3>1, <3>4, <3>5, ChainGrows
    <3>7. InOrder(ran') /\ Len(ran') = a + (i + 1) - 1
      <4>1. a + i - 1 \in Nat /\ (a + i - 1) + 1 = a + (i + 1) - 1
        BY <2>3, <2>4
      <4> QED
        BY <2>1, <3>4, <3>5, <4>1, RunWord
    <3>8. CopyDue(entries, k, trace', Len(ran'), reg', i + 1)
      BY <2>5, <3>3, <3>6, <3>7 DEF CopyDue, sv
    <3>9. ChunkDue(entries, trace', Len(ran'), reg', n, i + 1)
      BY <2>2, <3>8 DEF ChunkDue
    <3> QED
      BY <3>4, <3>6, <3>7, <3>9, DueAtOther
  <2>7. CASE \E j \in k + 1 .. Len(entries) : CopyHook(k, j)
    <3>1. PICK j \in k + 1 .. Len(entries) : CopyHook(k, j)
      BY <2>7
    <3> DEFINE h == Hook(Through(entries[j]), entries[j].fn)
    <3>2. /\ sv[1] = Word("adrp", Through(entries[j]), entries[j].fn) /\ sv[1].op = "adrp"
          /\ sv[2].op = "br"
      BY <3>1, ChainFields DEF CopyHook, sv
    <3>3. CASE i = 1
      <4>1. RunsIn(entries, k, a, entries[j].fn)
        BY <3>1 DEF CopyHook, RunsIn
      <4>2. Due(entries, trace, entries[j].fn) /\ Len(ran) = entries[j].at
        BY <2>2, <3>1, <3>3, <4>1 DEF CopyDue, CopyHook
      <4>3. j \in 1 .. Len(entries)
        OBVIOUS
      <4>4. HookDue(entries, trace, Len(ran), h)
        BY <4>2, <4>3 DEF HookDue
      <4>5. trace' = trace /\ ran' = ran /\ reg' = h /\ where' = Chunk(n, i + 1)
        <5>1. w = sv[1] /\ w.op = "adrp"
          BY <2>4, <3>2, <3>3
        <5>2. w.n = Through(entries[j]) /\ w.fn = entries[j].fn
          BY <3>2, <5>1, ChainFields
        <5>3. /\ trace' = trace /\ ran' = ran /\ reg' = Hook(w.n, w.fn)
              /\ where' = Chunk(n, i + 1)
          BY <1>1, <5>1 DEF Execute
        <5> QED
          BY <5>2, <5>3
      <4> HIDE DEF h
      <4>6. i + 1 = 2 /\ i + 1 # 1
        BY <3>3
      <4>7. CopyDue(entries, k, trace, Len(ran), reg', i + 1)
        BY <3>2, <4>4, <4>5, <4>6 DEF CopyDue, sv
      <4>8. ChunkDue(entries, trace', Len(ran'), reg', n, i + 1)
        BY <2>2, <4>5, <4>7 DEF ChunkDue
      <4> QED
        BY <2>1, <4>5, <4>8, DueAtOther
    <3>4. CASE i = 2
      <4>1. HookDue(entries, trace, Len(ran), reg)
        BY <2>2, <3>2, <3>4 DEF CopyDue, sv
      <4>2. reg # None /\ w.op = "br"
        BY <2>4, <3>2, <3>4, <4>1, HookDueReg
      <4>3. trace' = trace /\ ran' = ran /\ where' = reg
        BY <1>1, <4>2 DEF Execute
      <4> QED
        BY <2>1, <4>1, <4>3, DueAtOther
    <3> QED
      BY <2>4, <3>3, <3>4
  <2> QED
    BY <2>6, <2>7, CopyIs
<1> QED
  BY <1>1, <1>4, <1>5, StepDue

\* No trampoline reaches across the end of the words an entry covers.
LEMMA NotBareBehind ==
  ASSUME ChainUse, HInv, LInv, EInv, apiPC = "idle", NEW k \in 1 .. Len(entries),
         entries[k].at + Len(entries[k].words) \in Words
  PROVE  mem[entries[k].at + Len(entries[k].words)].op \notin {"br", "lit"}
<1> DEFINE b == entries[k].at + Len(entries[k].words)
<1>1. /\ entries[k].at \in Nat /\ Len(entries[k].words) \in 1 .. 2 /\ entries[k].fn \in Fns
      /\ entries[k].at = Target[entries[k].fn]
  BY EntryFacts
<1>2. ASSUME NEW i \in 1 .. Len(entries), Len(entries[i].words) = 2, entries[i].at = b - 1
      PROVE  FALSE
  <2>1. entries[i].fn \in Fns /\ entries[i].at = Target[entries[i].fn]
    BY EntryFacts
  <2>2. CASE Len(entries[k].words) = 1
    <3>1. entries[i].at = entries[k].at
      BY <1>1, <1>2, <2>2
    <3>2. Stacking = "one"
      BY <2>2, FormedWords DEF EInv, EntriesFormed
    <3>3. i = k
      BY <3>1, <3>2 DEF EInv, EntriesDistinct
    <3>4. Len(entries[k].words) = 2
      BY <1>2, <3>3
    <3>5. \A x : x = 1 => x # 2
      OBVIOUS
    <3> QED
      BY <2>2, <3>4, <3>5
  <2>3. CASE Len(entries[k].words) = 2
    <3>1. entries[i].at - entries[k].at = 1 /\ entries[i].at # entries[k].at
      BY <1>1, <1>2, <2>3
    <3>2. /\ Target[entries[i].fn] - Target[entries[k].fn] = 1
          /\ Target[entries[i].fn] # Target[entries[k].fn]
      BY <1>1, <2>1, <3>1
    <3> QED
      BY <1>1, <2>1, <3>2 DEF ChainUse, TargetsApart
  <2> QED
    BY <1>1, <2>2, <2>3
<1>3. b \in Words
  OBVIOUS
<1> QED
  BY <1>2, <1>3, NotBare

\* The branch behind relocated code.
LEMMA BranchDue ==
  ASSUME ChainUse, HInv, HPlaces, LInv, EInv, ThreadDue, Alive, BranchToRest
  PROVE  ThreadDue'
<1> DEFINE n == where.n
           i == where.i
<1>1. /\ UNCHANGED <<apiVars, calm>> /\ where.in = "chunk" /\ i > Len(chunks[n].words)
      /\ where' = Code(chunks[n].at + Len(chunks[n].words)) /\ trace' = trace /\ ran' = ran
  BY DEF BranchToRest
<1>2. trace' \in Seq(Items)
  BY <1>1 DEF ThreadDue
<1>3. ASSUME calm
      PROVE  /\ Chained(entries, trace') /\ InOrder(ran')
             /\ PlaceDue(entries, trace', Len(ran'), mem, reg', where')
  <2>1. Chained(entries, trace) /\ apiPC = "idle" /\ InOrder(ran)
    BY <1>3, CalmIdle
  <2>2. PICK k \in 1 .. Len(entries) :
          /\ n = entries[k].chunk /\ CopyDue(entries, k, trace, Len(ran), reg, i)
          /\ chunks[n].at = entries[k].at /\ chunks[n].words = entries[k].saved
          /\ i \in 1 .. Len(entries[k].saved) + 1
    BY <1>1, <1>3, ChunkEntry
  <2> DEFINE a == entries[k].at
             l == Len(entries[k].saved)
  <2>3. /\ a \in Nat /\ l \in 1 .. 2 /\ a + l <= FnLen /\ l = Len(entries[k].words) /\ a \in Words
    BY EntryFacts
  <2>4. i = l + 1 /\ i # 1 /\ 1 \in 1 .. l
    <3>1. i > l /\ i \in 1 .. l + 1 /\ l \in 1 .. 2
      BY <1>1, <2>2, <2>3
    <3> HIDE DEF l, i
    <3> QED
      BY <3>1
  <2>5. entries[k].saved[1].op # "adrp"
    <3>1. CASE CopyPlain(k)
      <4>1. a + 1 - 1 = a
        <5>1. a \in Nat
          BY <2>3
        <5> HIDE DEF a
        <5> QED
          BY <5>1
      <4>2. entries[k].saved[1] = Original[a]
        BY <2>4, <3>1, <4>1 DEF CopyPlain
      <4> QED
        BY <2>3, <4>2, ChainFields
    <3>2. CASE \E j \in k + 1 .. Len(entries) : CopyHook(k, j)
      <4>1. l = 2
        BY <3>2 DEF CopyHook
      <4>2. i # 2
        BY <2>4, <4>1
      <4> QED
        BY <2>2, <2>4, <4>2 DEF CopyDue
    <3> QED
      BY <3>1, <3>2, CopyIs
  <2>6. Ended(trace, a + i - 2) /\ Len(ran) = a + i - 1
    BY <2>2, <2>4, <2>5 DEF CopyDue
  <2>7. /\ a + l \in Nat /\ a + l # 0 /\ a + l <= FnLen /\ a + i - 2 = (a + l) - 1
        /\ a + i - 1 = a + l
    BY <2>3, <2>4
  <2>8. Ended(trace, (a + l) - 1) /\ Len(ran) = a + l /\ where' = Code(a + l)
    BY <1>1, <2>2, <2>6, <2>7
  <2>9. a + l \in Words => mem[a + l].op \notin {"br", "lit"}
    BY <2>1, <2>3, NotBareBehind
  <2>10. PlaceDue(entries, trace, a + l, mem, reg', Code(a + l))
    BY <2>7, <2>8, <2>9, DueAtCode
  <2> QED
    BY <1>1, <2>1, <2>8, <2>10
<1> QED
  BY <1>1, <1>2, <1>3, StepDue

\* A hook runs and goes on with the relocated code of its entry.
LEMMA RunHookDue ==
  ASSUME HInv, HPlaces, EInv, ThreadDue, Alive, RunHook
  PROVE  ThreadDue'
<1> DEFINE f == where.fn
           n == IF f \in Handlers THEN where.n ELSE origin[f]
<1>1. /\ UNCHANGED <<apiVars, calm>> /\ where.in = "hook" /\ trace' = Append(trace, f)
      /\ where' = (IF n = 0 THEN Crash ELSE Chunk(n, 1)) /\ ran' = ran
  BY DEF RunHook
<1>2. f \in Fns /\ f \in Items
  BY <1>1, PlaceFields DEF HPlaces, Items
<1>3. trace' \in Seq(Items)
  BY <1>1, <1>2 DEF ThreadDue
<1>4. ASSUME calm
      PROVE  /\ Chained(entries, trace') /\ InOrder(ran')
             /\ PlaceDue(entries, trace', Len(ran'), mem, reg', where')
  <2>1. /\ Chained(entries, trace) /\ apiPC = "idle" /\ trace \in Seq(Items)
        /\ InOrder(ran) /\ HookDue(entries, trace, Len(ran), where)
    BY <1>1, <1>4, CalmIdle DEF PlaceDue
  <2>2. PICK k \in 1 .. Len(entries) :
          /\ where = Hook(Through(entries[k]), entries[k].fn) /\ Len(ran) = entries[k].at
          /\ Due(entries, trace, entries[k].fn)
    BY <2>1 DEF HookDue
  <2>3. where.n = Through(entries[k]) /\ f = entries[k].fn
    BY <2>2 DEF Hook
  <2>4. n = entries[k].chunk
    <3>1. CASE f \in Handlers
      BY <2>3, <3>1 DEF Through
    <3>2. CASE f \notin Handlers
      <4>1. entries[k].fn \in Replacements /\ apiPC # "publish"
        BY <1>2, <2>1, <2>3, <3>2 DEF Replacements
      <4>2. origin[entries[k].fn] = entries[k].chunk
        BY <4>1 DEF EInv, OriginsSet
      <4> QED
        BY <2>3, <3>2, <4>2
    <3> QED
      BY <3>1, <3>2
  <2>5. where' = Chunk(entries[k].chunk, 1)
    <3>1. entries[k].chunk # 0
      BY EntryFacts
    <3> QED
      BY <1>1, <2>4, <3>1
  <2>6. /\ Chained(entries, trace')
        /\ \A z : FollowsIn(entries, f, z) => Due(entries, trace', z)
    BY <1>1, <1>2, <2>1, <2>2, <2>3, ChainGrows
  <2>7. ASSUME NEW y, RunsIn(entries, k, entries[k].at, y) PROVE Due(entries, trace', y)
    <3>1. FollowsIn(entries, f, y)
      BY <2>3, <2>7 DEF FollowsIn
    <3> QED
      BY <2>6, <3>1
  <2>8. CopyDue(entries, k, trace', Len(ran), reg', 1)
    BY <2>2, <2>7 DEF CopyDue
  <2>9. ChunkDue(entries, trace', Len(ran), reg', entries[k].chunk, 1)
    BY <2>8 DEF ChunkDue
  <2> QED
    BY <1>1, <2>1, <2>5, <2>6, <2>9, DueAtOther
<1> QED
  BY <1>1, <1>3, <1>4, StepDue

\* A call begins.
LEMMA CallDue ==
  ASSUME HInv, LInv, EInv, Call
  PROVE  ThreadDue'
<1>1. /\ UNCHANGED apiVars /\ trace' = <<>> /\ ran' = <<>> /\ where' = Code(0)
      /\ calm' = (apiPC = "idle")
  BY DEF Call
<1>2. UNCHANGED <<entries, mem, apiPC>>
  BY <1>1 DEF apiVars
<1>3. 0 \in Words /\ where' = [in |-> "code", at |-> 0, fn |-> None]
  BY <1>1, ConstFacts DEF Code
<1>4. where'.in = "code" /\ where'.at = 0 /\ where' # Outside
  BY <1>3 DEF Outside
<1>5. /\ trace' \in Seq(Items) /\ Chained(entries, trace') /\ InOrder(ran') /\ Len(ran') = 0
      /\ \A y : RunsIn(entries, 0, 0, y) => Due(entries, trace', y)
  <2>1. trace' \in Seq(Items) /\ Len(trace') = 0 /\ 1 .. Len(trace') - 1 = {}
    BY <1>1
  <2> QED
    BY <1>1, <2>1 DEF Chained, Due, InOrder
<1>6. ASSUME calm' PROVE ~Busy /\ PlaceDue(entries, trace', Len(ran'), mem, reg', where')
  <2>1. apiPC = "idle"
    BY <1>1, <1>6
  <2>2. mem[0].op \notin {"br", "lit"}
    <3>1. ASSUME NEW i \in 1 .. Len(entries) PROVE entries[i].at # 0 - 1
      <4>1. entries[i].at \in Nat
        BY EntryFacts
      <4> QED
        BY <4>1
    <3> QED
      BY <1>3, <2>1, <3>1, NotBare
  <2>3. CodeDue(entries, trace', Len(ran'), mem, reg', 0)
    BY <1>5, <2>2 DEF CodeDue
  <2> QED
    BY <1>4, <2>1, <2>3 DEF PlaceDue, Busy
<1> QED
  BY <1>2, <1>5, <1>6 DEF ThreadDue, Busy

\* Steps of the installing thread disturb the call or leave all it meets alone.
LEMMA InstallDue ==
  ASSUME ThreadDue, UNCHANGED <<trace, ran>>,
         \/ calm' = FALSE
         \/ Busy /\ calm' = calm
         \/ UNCHANGED <<entries, mem, reg, where, calm>> /\ ~Busy'
  PROVE  ThreadDue'
BY DEF ThreadDue

-----------------------------------------------------------------------------
(* All steps.                                                              *)

LEMMA EInvStep ==
  ASSUME ChainUse, HInv, EInv, [Next]_vars
  PROVE  EInv'
<1>1. ASSUME NEW f \in Replacements, DobbyHook(f) PROVE EInv'
  <2>1. f \in Fns /\ MayStart(f) /\ UNCHANGED <<origin, near>> /\ apiPC' = "publish"
    BY <1>1 DEF DobbyHook, Replacements
  <2>2. PICK kind \in TrampolineKinds : Dispatch(f, kind)
    BY <1>1 DEF DobbyHook
  <2> QED
    BY <2>1, <2>2, DispatchEntries
<1>2. ASSUME NEW h \in Handlers, DobbyInstrument(h) PROVE EInv'
  <2>1. h \in Fns /\ MayStart(h) /\ UNCHANGED <<origin, near>>
    BY <1>2, ConstFacts DEF DobbyInstrument
  <2>2. PICK kind \in TrampolineKinds : Dispatch(h, kind)
    BY <1>2 DEF DobbyInstrument
  <2> QED
    BY <2>1, <2>2, DispatchEntries
<1>3. ASSUME NEW f \in Fns, RelocationFails(f) PROVE EInv'
  <2>1. UNCHANGED <<entries, chunks, origin, near>> /\ apiPC = "idle"
    BY <1>3 DEF RelocationFails, MayStart
  <2> QED
    BY <2>1, QuietEntries
<1>4. ASSUME NEW a \in Words, DobbyDestroy(a) PROVE EInv'
  <2>1. UNCHANGED <<entries, chunks, origin, near>> /\ apiPC = "idle"
    BY <1>4 DEF DobbyDestroy
  <2> QED
    BY <2>1, QuietEntries
<1>5. ASSUME TogglePlugin PROVE EInv'
  <2>1. UNCHANGED <<entries, chunks, origin>> /\ NearPlugin /\ apiPC = "idle"
    BY <1>5 DEF TogglePlugin
  <2> QED
    BY <2>1, QuietEntries
<1>6. ASSUME Unprotect \/ PatchWord \/ PatchFaults PROVE EInv'
  <2>1. UNCHANGED <<entries, chunks, origin, near>> /\ apiPC # "publish"
    BY <1>6 DEF Unprotect, PatchWord, PatchFaults
  <2> QED
    BY <2>1, QuietEntries
<1>7. ASSUME Call \/ Run \/ Dead \/ UNCHANGED vars PROVE EInv'
  <2>1. UNCHANGED <<entries, chunks, origin, near, apiPC>>
    BY <1>7 DEF Call, Run, RunCode, RunChunk, BranchToRest, RunHook, Dead, vars, apiVars
  <2> QED
    BY <2>1, QuietEntries
<1> QED
  BY <1>1, <1>2, <1>3, <1>4, <1>5, <1>6, <1>7, PublishEntries, ProtectEntries
  DEF Next, Install, Patch

LEMMA ThreadDueStep ==
  ASSUME ChainUse, HInv, HPlaces, LInv, EInv, ThreadDue, [Next]_vars
  PROVE  ThreadDue'
<1>1. ASSUME Install PROVE ThreadDue'
  <2>1. ASSUME \/ \E f \in Replacements : DobbyHook(f)
               \/ \E h \in Handlers : DobbyInstrument(h)
               \/ \E a \in Words : DobbyDestroy(a)
        PROVE  ThreadDue'
    <3>1. UNCHANGED <<trace, ran>> /\ calm' = FALSE
      BY <2>1 DEF DobbyHook, DobbyInstrument, DobbyDestroy
    <3> QED
      BY <3>1, InstallDue
  <2>2. ASSUME (\E f \in Fns : RelocationFails(f)) \/ TogglePlugin PROVE ThreadDue'
    <3>1. UNCHANGED <<entries, mem, reg, where, calm, trace, ran>> /\ ~Busy'
      BY <2>2 DEF RelocationFails, TogglePlugin, callVars, Busy
    <3> QED
      BY <3>1, InstallDue
  <2> QED
    BY <1>1, <2>1, <2>2 DEF Install
<1>2. ASSUME Patch PROVE ThreadDue'
  <2>1. UNCHANGED <<trace, ran>> /\ calm' = calm /\ Busy
    BY <1>2 DEF Patch, PublishOrigin, Unprotect, PatchWord, PatchFaults, Protect, callVars, Busy
  <2> QED
    BY <2>1, InstallDue
<1>3. ASSUME Run PROVE ThreadDue'
  BY <1>3, RunCodeDue, RunChunkDue, BranchDue, RunHookDue DEF Run
<1>4. ASSUME UNCHANGED vars PROVE ThreadDue'
  <2>1. UNCHANGED <<entries, mem, reg, where, calm, trace, ran, apiPC>>
    BY <1>4 DEF vars, apiVars, callVars
  <2> QED
    BY <2>1 DEF ThreadDue, Busy
<1> QED
  BY <1>1, <1>2, <1>3, <1>4, CallDue DEF Next, Dead

LEMMA ChainInit ==
  ASSUME Init
  PROVE  EInv /\ ThreadDue
<1>1. /\ entries = <<>> /\ Len(entries) = 0 /\ near = FALSE /\ trace = <<>> /\ ran = <<>> /\ where = Outside
      /\ apiPC = "idle" /\ 1 .. Len(entries) = {}
  BY DEF Init
<1>2. EInv
  BY <1>1 DEF EInv, EntriesFormed, EntriesCopied, EntriesDistinct, OriginsSet
<1>3. PlaceDue(entries, trace, Len(ran), mem, reg, where)
  <2>1. where.in = "outside"
    BY <1>1 DEF Outside
  <2> QED
    BY <1>1, <2>1 DEF PlaceDue
<1>4. trace \in Seq(Items) /\ Chained(entries, trace) /\ InOrder(ran)
  <2>1. trace \in Seq(Items) /\ Len(trace) = 0 /\ 1 .. Len(trace) - 1 = {}
    BY <1>1
  <2> QED
    BY <1>1, <2>1 DEF Chained, InOrder
<1> QED
  BY <1>1, <1>2, <1>3, <1>4 DEF ThreadDue, Busy

\* The invariant is about RunsNext and Follows of the list of entries.
LEMMA ThreadDueOrder ==
  ASSUME HInv, ThreadDue
  PROVE  ChainOrder
<1>1. DOMAIN entries = 1 .. Len(entries)
  BY DEF HInv, HTypes
<1>2. \A k, a, y : RunsIn(entries, k, a, y) => RunsNext(k, a, y)
  BY DEF RunsIn, RunsNext
<1>3. \A x, y : FollowsIn(entries, x, y) => Follows(x, y)
  BY <1>1, <1>2 DEF FollowsIn, Follows
<1> QED
  BY <1>2, <1>3 DEF ThreadDue, Chained, PlaceDue, Ended, ChainOrder

\* The invariants of the chain hold in every reachable state.
LEMMA ChainAlways ==
  ASSUME ChainUse
  PROVE  Safety => [](HInv /\ LInv /\ ThreadDue)
<1>1. ASSUME HInv, HPlaces, LInv, EInv, ThreadDue, [Next]_vars PROVE (LInv /\ EInv /\ ThreadDue)'
  <2>1. LInv'
    BY <1>1, LInvStep DEF ChainUse
  <2>2. EInv'
    BY <1>1, EInvStep
  <2>3. ThreadDue'
    BY <1>1, ThreadDueStep
  <2> QED
    BY <2>1, <2>2, <2>3
<1>2. Init => LInv /\ EInv /\ ThreadDue
  BY LInit, ChainInit
<1> QED
  BY <1>1, <1>2, HAlways, PTL DEF Safety

\* When every address carries one hook of any kind, or several adrp+br hooks
\* with different replacements, and hooks are at least a trampoline apart, a
\* call that no installation disturbs runs at each address every active hook,
\* newest first, and then the original word, to the end of the function: the
\* relocated code that *origin_call or a closure leads to (DobbyHook,
\* DobbyInstrument) continues with the hook below.  Nothing is asked of the
\* client's discipline, of pages or of the arena, and the hooks may have come
\* and gone in any order before.
THEOREM HookChainOrder ==
  ASSUME ChainUse
  PROVE  Safety => []ChainOrder
<1>1. HInv /\ ThreadDue => ChainOrder
  BY ThreadDueOrder
<1> QED
  BY <1>1, ChainAlways, PTL

-----------------------------------------------------------------------------
(* Installation while no call runs.                                        *)

\* The use of ChainUse by a client that installs and removes hooks only while
\* no call runs.
CalmUse == ChainUse /\ Discipline = "calls"

\* CalmUse with each trampoline on one page and memory for relocation.
QuietUse ==
  /\ CalmUse /\ ~ArenaFails
  /\ \A f \in Fns : Target[f] + 1 \in Words => Page(Target[f] + 1) = Page(Target[f])

\* The job in progress has come to the second word of a trampoline that
\* crosses a page.
Straddles ==
  /\ job.next = 2
  /\ \E f \in Fns : job.at = Target[f] /\ Target[f] + 1 \in Words
  /\ Page(job.at + 1) # Page(job.at)

\* Every call is undisturbed, and between calls nothing is left half done.
QInv ==
  /\ where = Outside \/ calm
  /\ where.in # "crash" /\ InOrder(ran)
  /\ where = Outside /\ trace # <<>> => Len(ran) = FnLen
  /\ apiPC = "idle" => job = NoJob
  /\ apiPC = "patch" => perm[Page(job.at)] = "rwx"
  /\ apiPC = "crashed" => (ArenaFails /\ job = NoJob) \/ Straddles

\* The address of a job is that of a hook, and it writes at most two words.
LEMMA QuietJob ==
  ASSUME HInv, LInv, Busy
  PROVE  /\ \E f \in Fns : job.at = Target[f]
         /\ job.at \in Words /\ job.at \in Nat /\ Len(job.words) \in 1 .. 2
         /\ job.at + Len(job.words) <= FnLen
<1>1. PICK i \in 1 .. Len(entries) :
        job.at = entries[i].at /\ (job.words = entries[i].words \/ job.words = entries[i].saved)
  <2>1. CASE job.remove
    <3>1. Hooked(job.at) /\ entries \in Seq(Entry)
      BY <2>1 DEF HInv, HTypes, HRefs, JobOK
    <3>2. Newest(job.at) \in 1 .. Len(entries) /\ entries[Newest(job.at)].at = job.at
      BY <3>1, NewestIs
    <3> QED
      BY <2>1, <3>2 DEF LInv, JobSource, FindHookEntry
  <2>2. CASE ~job.remove
    <3>1. entries # <<>> /\ entries \in Seq(Entry)
      BY <2>2 DEF HInv, HTypes, HRefs, JobOK
    <3>2. 1 \in 1 .. Len(entries)
      BY <3>1
    <3> QED
      BY <2>2, <3>2 DEF LInv, JobSource
  <2> QED
    BY <2>1, <2>2
<1> QED
  BY <1>1, EntryFacts

\* CodePatch writes only to the page it has opened, or is at the second word
\* of a trampoline that crosses one.
LEMMA QuietPage ==
  ASSUME HInv, LInv, QInv, apiPC = "patch", job.next <= Len(job.words)
  PROVE  perm[Page(job.at + job.next - 1)] = "rwx" \/ Straddles
<1>1. Busy
  BY DEF Busy
<1>2. PICK f \in Fns : job.at = Target[f]
  BY <1>1, QuietJob
<1>3. /\ job.at \in Nat /\ Len(job.words) \in 1 .. 2 /\ job.at + Len(job.words) <= FnLen
      /\ job.next \in 1 .. Len(job.words) + 1
  BY <1>1, QuietJob DEF HInv, HRefs, JobOK
<1>4. ASSUME NEW t \in Nat, NEW l \in 1 .. 2, NEW n \in 1 .. l + 1, n <= l, t + l <= FnLen
      PROVE  \/ n = 1 /\ t + n - 1 = t
             \/ n = 2 /\ t + n - 1 = t + 1 /\ t + 1 \in Words
  <2>1. n = 1 \/ (n = 2 /\ l = 2)
    BY <1>4
  <2>2. CASE n = 1
    BY <2>2
  <2>3. CASE n = 2 /\ l = 2
    <3>1. t + 1 <= FnLen - 1 /\ t + 1 \in Nat
      BY <1>4, <2>3, ConstFacts
    <3> QED
      BY <2>3, <3>1, ConstFacts DEF Words
  <2> QED
    BY <2>1, <2>2, <2>3
<1>5. \/ job.next = 1 /\ job.at + job.next - 1 = job.at
      \/ job.next = 2 /\ job.at + job.next - 1 = job.at + 1 /\ job.at + 1 \in Words
  BY <1>3, <1>4
<1> QED
  BY <1>2, <1>5 DEF Straddles, QInv

LEMMA QInvStep ==
  ASSUME CalmUse, HInv, LInv, QInv, ThreadDue', [Next]_vars
  PROVE  QInv'
<1>1. ASSUME calm', apiPC' = apiPC, UNCHANGED <<perm, job>> PROVE QInv'
  <2>1. /\ where'.in # "crash" /\ InOrder(ran')
        /\ where' = Outside /\ trace' # <<>> => Len(ran') = FnLen
    BY <1>1 DEF ThreadDue, PlaceDue
  <2> QED
    BY <1>1, <2>1 DEF QInv, Straddles
<1>2. ASSUME UNCHANGED <<where, ran, trace>>, where = Outside \/ calm' = calm,
             apiPC' # "crashed", apiPC' = "idle" => job' = NoJob,
             apiPC' = "patch" => perm'[Page(job'.at)] = "rwx"
      PROVE  QInv'
  BY <1>2 DEF QInv
<1>3. ASSUME Install PROVE QInv'
  <2>1. ASSUME \/ \E f \in Replacements : DobbyHook(f)
               \/ \E h \in Handlers : DobbyInstrument(h)
               \/ \E a \in Words : DobbyDestroy(a)
        PROVE  QInv'
    <3>1. UNCHANGED <<where, ran, trace>> /\ where = Outside /\ apiPC' \in {"publish", "protect"}
      BY <2>1 DEF DobbyHook, DobbyInstrument, DobbyDestroy, MayStart, CalmUse
    <3> QED
      BY <1>2, <3>1
  <2>2. ASSUME TogglePlugin PROVE QInv'
    <3>1. /\ UNCHANGED <<where, ran, trace, calm, job>> /\ apiPC' = "idle"
          /\ apiPC = "idle"
      BY <2>2 DEF TogglePlugin, callVars
    <3> QED
      BY <1>2, <3>1 DEF QInv
  <2>3. ASSUME NEW f \in Fns, RelocationFails(f) PROVE QInv'
    <3>1. /\ UNCHANGED <<where, ran, trace, calm, job>> /\ apiPC' = "crashed"
          /\ apiPC = "idle" /\ ArenaFails
      BY <2>3 DEF RelocationFails, MayStart, callVars
    <3> QED
      BY <3>1 DEF QInv
  <2> QED
    BY <1>3, <2>1, <2>2, <2>3 DEF Install
<1>4. ASSUME Patch PROVE QInv'
  <2>1. UNCHANGED <<where, ran, trace, calm>>
    BY <1>4 DEF Patch, PublishOrigin, Unprotect, PatchWord, PatchFaults, Protect, callVars
  <2>2. ASSUME PublishOrigin \/ Protect PROVE QInv'
    <3>1. apiPC' = "protect" \/ (apiPC' = "idle" /\ job' = NoJob)
      BY <2>2 DEF PublishOrigin, Protect
    <3> QED
      BY <1>2, <2>1, <3>1
  <2>3. ASSUME Unprotect PROVE QInv'
    <3>1. /\ perm' = [perm EXCEPT ![Page(job.at)] = "rwx"] /\ job' = job /\ apiPC' = "patch"
          /\ Busy
      BY <2>3 DEF Unprotect, Busy
    <3>2. Page(job.at) \in Pages
      BY <3>1, QuietJob, PageIn
    <3>3. perm'[Page(job'.at)] = "rwx"
      BY <3>1, <3>2 DEF HInv, HTypes
    <3> QED
      BY <1>2, <2>1, <3>1, <3>3
  <2>4. ASSUME PatchWord PROVE QInv'
    <3>1. /\ perm' = perm /\ job' = [job EXCEPT !.next = @ + 1] /\ apiPC' = "patch"
          /\ apiPC = "patch"
      BY <2>4 DEF PatchWord
    <3>2. job'.at = job.at
      BY <3>1 DEF HInv, HTypes, Job
    <3>3. perm'[Page(job'.at)] = "rwx"
      BY <3>1, <3>2 DEF QInv
    <3> QED
      BY <1>2, <2>1, <3>1, <3>3
  <2>5. ASSUME PatchFaults PROVE QInv'
    <3>1. apiPC' = "crashed" /\ job' = job /\ Straddles
      BY <2>5, QuietPage DEF PatchFaults
    <3>2. Straddles'
      BY <3>1 DEF Straddles
    <3> QED
      BY <2>1, <3>1, <3>2 DEF QInv
  <2> QED
    BY <1>4, <2>2, <2>3, <2>4, <2>5 DEF Patch
<1>5. ASSUME Call PROVE QInv'
  <2>1. calm' /\ apiPC' = apiPC /\ UNCHANGED <<perm, job>>
    BY <1>5 DEF Call, CalmUse, apiVars
  <2> QED
    BY <1>1, <2>1
<1>6. ASSUME Run PROVE QInv'
  <2>1. /\ apiPC' = apiPC /\ UNCHANGED <<perm, job, calm>>
        /\ where.in \in {"code", "chunk", "hook"}
    BY <1>6 DEF Run, RunCode, RunChunk, BranchToRest, RunHook, apiVars
  <2>2. where # Outside
    BY <2>1 DEF Outside
  <2>3. calm'
    BY <2>1, <2>2 DEF QInv
  <2> QED
    BY <1>1, <2>1, <2>3
<1>7. ASSUME UNCHANGED vars PROVE QInv'
  <2>1. UNCHANGED <<where, ran, trace, calm, apiPC, perm, job>>
    BY <1>7 DEF vars, apiVars, callVars
  <2> QED
    BY <2>1 DEF QInv, Straddles
<1> QED
  BY <1>3, <1>4, <1>5, <1>6, <1>7 DEF Next, Dead

LEMMA QAlways ==
  ASSUME CalmUse
  PROVE  Safety => []QInv
<1>1. ChainUse
  BY DEF CalmUse
<1>2. Init => QInv
  BY DEF Init, QInv, Outside, InOrder
<1>3. ASSUME HInv, LInv, QInv, ThreadDue', [Next]_vars PROVE QInv'
  BY <1>3, QInvStep
<1>4. Safety => [](HInv /\ LInv /\ ThreadDue)
  BY <1>1, ChainAlways
<1> QED
  BY <1>2, <1>3, <1>4, PTL DEF Safety

\* Trampolines of any kind, on any pages, with an allocator that may fail: when
\* hooks come and go only between calls, no call faults, and CodePatch and
\* DobbyHook fault only as PatchFaultsExplained says.
THEOREM HookFaultsExplained ==
  ASSUME CalmUse
  PROVE  Safety => []PatchFaultsExplained
<1>1. QInv => PatchFaultsExplained
  BY DEF QInv, Straddles, PatchFaultsExplained
<1> QED
  BY <1>1, QAlways, PTL

\* With trampolines of any kind (near b, adrp+br, ldr+literal) neither thread
\* faults when hooks are installed and removed only between calls, under
\* QuietUse: no call meets a register, a literal or an origin that is not set,
\* and CodePatch stays on the page that mprotect has opened.
THEOREM HookQuietNothingFaults ==
  ASSUME QuietUse
  PROVE  Safety => []NothingFaults
<1>1. CalmUse
  BY DEF QuietUse
<1>2. ASSUME QInv PROVE NothingFaults
  <2>1. ~Straddles
    BY DEF Straddles, QuietUse
  <2> QED
    BY <1>2, <2>1 DEF QInv, NothingFaults, QuietUse
<1> QED
  BY <1>1, <1>2, QAlways, PTL

\* When hooks come and go only between calls every call runs the words of the
\* function once and in order, whatever was hooked, instrumented and destroyed
\* before it; pages and the allocator do not matter, a faulting installer
\* leaves no call under way.
THEOREM HookQuietBodyRunsOnce ==
  ASSUME CalmUse
  PROVE  Safety => []BodyRunsOnce
<1>1. ASSUME QInv PROVE BodyRunsOnce
  <2>1. ran \in Seq(Nat) /\ DOMAIN ran = 1 .. Len(ran)
    BY <1>1 DEF QInv, InOrder
  <2> QED
    BY <1>1, <2>1 DEF QInv, InOrder, BodyRunsOnce
<1> QED
  BY <1>1, QAlways, PTL
=============================================================================
