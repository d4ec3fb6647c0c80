-------------------------- MODULE InlineHookProofs --------------------------
(***************************************************************************)
(* Proofs about InlineHook, for every function, every set of hooks, every  *)
(* choice of trampolines and every discipline of the client.               *)
(*                                                                         *)
(* HTypes and HRefs are inductive: every chunk number and every address    *)
(* that a word of code, a relocated or saved word, an entry or a register  *)
(* refers to exists.  They give HookTypeOK.  With hooks at least a         *)
(* trampoline apart, LInv is inductive on top of them: each entry's saved  *)
(* words are those of the entries below it, and the patch in progress      *)
(* stands between the words of two lists.  It gives CodeMatchesEntries.    *)
(***************************************************************************)
EXTENDS InlineHook, SequenceTheorems, WellFoundedInduction, TLAPS

Ops == {"orig", "b", "adrp", "br", "ldr", "lit"}
WordSet == [op : Ops, n : Nat, fn : Fns \cup {None}]
Entry == [at : Words, fn : Fns, saved : Seq(WordSet), chunk : Nat, words : Seq(WordSet)]
Relocated == [at : Words, words : Seq(WordSet)]
Job == [at : Words, words : Seq(WordSet), next : Nat, remove : BOOLEAN]
Pages == {Page(a) : a \in Words}

HTypes ==
  /\ mem \in [Words -> WordSet]
  /\ perm \in [Pages -> {"rx", "rwx"}]
  /\ entries \in Seq(Entry)
  /\ chunks \in Seq(Relocated)
  /\ origin \in [Replacements -> Nat]
  /\ near \in BOOLEAN
  /\ apiPC \in {"idle", "publish", "protect", "patch", "crashed"}
  /\ job \in Job

\* Word w at address a refers to a hook, to one of N chunks, or to the word
\* behind it.
Refers(w, a, N) ==
  /\ w.op \in {"b", "adrp", "lit"} => w.fn \in Fns /\ w.n <= N
  /\ w.op = "ldr" => a + 1 \in Words

Row(ws, a, N) ==
  /\ a + Len(ws) <= FnLen
  /\ \A i \in 1 .. Len(ws) : Refers(ws[i], a + i - 1, N)

EntryOK(e, N) ==
  /\ e.at = Target[e.fn] /\ e.chunk \in 1 .. N
  /\ Len(e.words) \in 1 .. 2 /\ Len(e.saved) = Len(e.words)
  /\ Row(e.saved, e.at, N) /\ Row(e.words, e.at, N)

JobOK(N) ==
  /\ Row(job.words, job.at, N)
  /\ job.next \in 1 .. Len(job.words) + 1
  /\ job.remove => Hooked(job.at)
  /\ ~job.remove => entries # <<>>

HookPlace(p, N) == \E n \in 0 .. N, f \in Fns : p = Hook(n, f)

CodePlace(p) == \E a \in Words : p = [in |-> "code", at |-> a, fn |-> None]

ChunkPlace(p) ==
  \E n \in 1 .. Len(chunks) : \E i \in 1 .. Len(chunks[n].words) + 1 : p = Chunk(n, i)

\* A call of the API is in progress.
Busy == apiPC \in {"publish", "protect", "patch"}

HRefs ==
  /\ \A a \in Words : Refers(mem[a], a, Len(chunks))
  /\ \A n \in 1 .. Len(chunks) : Row(chunks[n].words, chunks[n].at, Len(chunks))
  /\ \A i \in 1 .. Len(entries) : EntryOK(entries[i], Len(chunks))
  /\ \A f \in Replacements : origin[f] <= Len(chunks)
  /\ Busy => JobOK(Len(chunks))
  /\ Len(entries) <= Len(chunks)

HPlaces ==
  /\ where = Outside \/ where = Crash \/ CodePlace(where) \/ ChunkPlace(where)
     \/ HookPlace(where, Len(chunks))
  /\ reg = None \/ HookPlace(reg, Len(chunks))

\* Hooks a word apart have overlapping trampolines: what they save depends on
\* the order in which they came.  The library hooks whole functions.
TargetsApart ==
  \A f, g \in Fns : Target[f] = Target[g] \/ Target[f] - Target[g] \notin {-1, 1}

\* Under for a list s.
Covers(s, i, a) == a - s[i].at + 1 \in 1 .. Len(s[i].words)
UnderIn(s, k, a, v) ==
  \/ v = Original[a] /\ \A i \in k + 1 .. Len(s) : ~Covers(s, i, a)
  \/ \E i \in k + 1 .. Len(s) :
       /\ Covers(s, i, a) /\ v = s[i].words[a - s[i].at + 1]
       /\ \A j \in k + 1 .. i - 1 : ~Covers(s, j, a)

\* Each entry saved what the entries below it had made of the code.
SavedOK ==
  \A i \in 1 .. Len(entries) : \A k \in 1 .. Len(entries[i].saved) :
    UnderIn(entries, i, entries[i].at + k - 1, entries[i].saved[k])

\* The patch writes the words of the new entry, or the saved words of the
\* entry that goes.
JobSource ==
  Busy =>
    /\ ~job.remove => job.at = entries[1].at /\ job.words = entries[1].words
    /\ job.remove => job.words = FindHookEntry(job.at).saved
    /\ apiPC # "patch" => job.next = 1

Written(a) == Busy /\ a - job.at + 1 \in 1 .. job.next - 1

MemOK ==
  apiPC # "crashed" =>
    \A a \in Words :
      /\ Written(a) => mem[a] = job.words[a - job.at + 1]
      /\ ~Written(a) => UnderIn(entries, IF Busy /\ ~job.remove THEN 1 ELSE 0, a, mem[a])

LInv == SavedOK /\ JobSource /\ MemOK

-----------------------------------------------------------------------------
(* Operators of the model.                                                 *)

\* A set of naturals that is not empty has a least element.
LEMMA MinIn ==
  ASSUME NEW S, S \subseteq Nat, S # {}
  PROVE  Min(S) \in S /\ \A y \in S : Min(S) <= y
<1> DEFINE R == {ss \in Nat \X Nat : ss[1] < ss[2]}
<1>1. IsWellFoundedOn(R, Nat)
  BY NatLessThanWellFounded DEF OpToRel
<1> HIDE DEF R
<1>2. PICK x \in S : \A y \in S : ~(<<y, x>> \in R)
  BY <1>1, WFMin
<1>3. ASSUME NEW y \in S PROVE x <= y
  <2>1. x \in Nat /\ y \in Nat /\ <<y, x>> \in Nat \X Nat
    OBVIOUS
  <2>2. y < x => <<y, x>> \in R
    BY <2>1 DEF R
  <2> QED
    BY <1>2, <2>1, <2>2
<1> QED
  BY <1>3 DEF Min

\* The constants, for the provers.
LEMMA ConstFacts ==
  /\ FnLen \in Nat /\ FnLen > 0 /\ PageWords \in Nat /\ PageWords > 0 /\ MaxHooks \in Nat
  /\ \A f \in Fns : Target[f] \in Words
  /\ Handlers \subseteq Fns /\ None \notin Fns
  /\ \A a \in Words : a \in Nat /\ a < FnLen
  /\ \A a \in Nat : a < FnLen => a \in Words
  /\ NormalKinds \subseteq {"adrp", "ldr"}
BY HookAssumption DEF Words, Fns

\* The newest entry of a hooked address exists.
LEMMA NewestIs ==
  ASSUME NEW a, Hooked(a), entries \in Seq(Entry)
  PROVE  /\ Newest(a) \in 1 .. Len(entries) /\ entries[Newest(a)].at = a
         /\ \A k \in 1 .. Newest(a) - 1 : entries[k].at # a
<1> DEFINE S == {i \in 1 .. Len(entries) : entries[i].at = a}
<1>1. DOMAIN entries = 1 .. Len(entries) /\ Len(entries) \in Nat
  OBVIOUS
<1>2. S \subseteq Nat /\ S # {}
  BY <1>1 DEF Hooked
<1>3. Min(S) \in S /\ \A y \in S : Min(S) <= y
  BY <1>2, MinIn
<1> DEFINE m == Min(S)
<1> HIDE DEF m
<1>4. m \in S /\ \A y \in S : m <= y
  BY <1>3 DEF m
<1>5. m \in DOMAIN entries /\ entries[m].at = a /\ \A k \in 1 .. m - 1 : entries[k].at # a
  <2>1. ASSUME NEW k \in 1 .. m - 1, entries[k].at = a PROVE FALSE
    BY <1>1, <1>4, <2>1
  <2> QED
    BY <1>1, <1>4, <2>1
<1> QED
  BY <1>1, <1>5 DEF Newest

\* RemoveAt, index by index.
LEMMA RemoveAtIs ==
  ASSUME NEW S, NEW s \in Seq(S), NEW i \in 1 .. Len(s)
  PROVE  /\ RemoveAt(s, i) \in Seq(S) /\ Len(RemoveAt(s, i)) = Len(s) - 1
         /\ \A k \in 1 .. i - 1 : RemoveAt(s, i)[k] = s[k]
         /\ \A k \in i .. Len(s) - 1 : RemoveAt(s, i)[k] = s[k + 1]
<1> DEFINE p == SubSeq(s, 1, i - 1)
           q == SubSeq(s, i + 1, Len(s))
<1>1. Len(s) \in Nat /\ i \in Nat /\ i >= 1 /\ i <= Len(s) /\ i - 1 \in Int /\ i + 1 \in Int
  OBVIOUS
<1>2. /\ p \in Seq(S) /\ Len(p) = IF 1 <= i - 1 THEN i - 1 - 1 + 1 ELSE 0
      /\ \A k \in 1 .. i - 1 - 1 + 1 : p[k] = s[1 + k - 1]
  <2>1. \A k \in 1 .. i - 1 : s[k] \in S
    BY <1>1
  <2> QED
    BY <1>1, <2>1, SubSeqProperties
<1>3. /\ q \in Seq(S) /\ Len(q) = IF i + 1 <= Len(s) THEN Len(s) - (i + 1) + 1 ELSE 0
      /\ \A k \in 1 .. Len(s) - (i + 1) + 1 : q[k] = s[i + 1 + k - 1]
  <2>1. \A k \in i + 1 .. Len(s) : s[k] \in S
    BY <1>1
  <2> QED
    BY <1>1, <2>1, SubSeqProperties
<1> HIDE DEF p, q
<1>4. Len(p) = i - 1 /\ Len(q) = Len(s) - i
  BY <1>1, <1>2, <1>3
<1>5. /\ p \o q \in Seq(S) /\ Len(p \o q) = Len(p) + Len(q)
      /\ \A k \in 1 .. Len(p) + Len(q) :
           (p \o q)[k] = IF k <= Len(p) THEN p[k] ELSE q[k - Len(p)]
  BY <1>2, <1>3, ConcatProperties
<1> DEFINE r == p \o q
<1> HIDE DEF r
<1>6. /\ r \in Seq(S) /\ Len(r) = Len(s) - 1
      /\ \A k \in 1 .. Len(s) - 1 : r[k] = IF k <= i - 1 THEN p[k] ELSE q[k - (i - 1)]
  BY <1>1, <1>4, <1>5 DEF r
<1>7. ASSUME NEW k \in 1 .. i - 1 PROVE r[k] = s[k]
  <2>1. k \in 1 .. Len(s) - 1 /\ k \in 1 .. i - 1 - 1 + 1 /\ 1 + k - 1 = k
    BY <1>1
  <2> QED
    BY <1>2, <1>6, <2>1
<1>8. ASSUME NEW k \in i .. Len(s) - 1 PROVE r[k] = s[k + 1]
  <2>1. /\ k \in 1 .. Len(s) - 1 /\ ~(k <= i - 1) /\ k - (i - 1) \in 1 .. Len(s) - (i + 1) + 1
        /\ i + 1 + (k - (i - 1)) - 1 = k + 1
    BY <1>1
  <2> QED
    BY <1>3, <1>6, <2>1
<1>9. RemoveAt(s, i) = r
  BY DEF RemoveAt, r, p, q
<1> QED
  BY <1>6, <1>7, <1>8, <1>9

\* A list with a new head, index by index.
LEMMA PushIs ==
  ASSUME NEW S, NEW s \in Seq(S), NEW e \in S
  PROVE  /\ <<e>> \o s \in Seq(S) /\ Len(<<e>> \o s) = Len(s) + 1
         /\ (<<e>> \o s)[1] = e
         /\ \A k \in 2 .. Len(s) + 1 : (<<e>> \o s)[k] = s[k - 1]
<1>1. <<e>> \in Seq(S) /\ Len(<<e>>) = 1 /\ <<e>>[1] = e
  OBVIOUS
<1> DEFINE h == <<e>>
<1> HIDE DEF h
<1>2. h \in Seq(S) /\ Len(h) = 1 /\ h[1] = e
  BY <1>1 DEF h
<1>3. /\ h \o s \in Seq(S) /\ Len(h \o s) = Len(h) + Len(s)
      /\ \A k \in 1 .. Len(h) + Len(s) :
           (h \o s)[k] = IF k <= Len(h) THEN h[k] ELSE s[k - Len(h)]
  BY <1>2, ConcatProperties
<1> DEFINE r == h \o s
<1> HIDE DEF r
<1>4. /\ r \in Seq(S) /\ Len(r) = 1 + Len(s)
      /\ \A k \in 1 .. 1 + Len(s) : r[k] = IF k <= 1 THEN h[k] ELSE s[k - 1]
  BY <1>2, <1>3 DEF r
<1>5. r[1] = e /\ \A k \in 2 .. Len(s) + 1 : r[k] = s[k - 1]
  <2>1. Len(s) \in Nat
    OBVIOUS
  <2> QED
    BY <1>2, <1>4, <2>1
<1> QED
  BY <1>4, <1>5 DEF r, h

\* A trampoline is one or two words, and refers to its hook.
LEMMA TrampolineOK ==
  ASSUME NEW kind \in {"b", "adrp", "ldr"}, NEW n \in Nat, NEW f \in Fns
  PROVE  /\ Trampoline(kind, n, f) \in Seq(WordSet)
         /\ Len(Trampoline(kind, n, f)) \in 1 .. 2
         /\ \A a \in Words, N \in Nat :
              n <= N /\ a + Len(Trampoline(kind, n, f)) <= FnLen
                => Row(Trampoline(kind, n, f), a, N)
<1> DEFINE w == Word(kind, n, f)
           l == Word("lit", n, f)
           d == Word("ldr", 0, None)
           b == Word("br", 0, None)
<1>1. /\ w \in WordSet /\ l \in WordSet /\ b \in WordSet /\ d \in WordSet
  BY DEF WordSet, Word, Ops
<1>2. /\ w.op = kind /\ w.fn = f /\ w.n = n /\ l.op = "lit" /\ l.fn = f /\ l.n = n
      /\ b.op = "br" /\ d.op = "ldr"
  BY DEF Word
<1> HIDE DEF w, l, b, d
<1>3. ASSUME NEW a \in Words, NEW N \in Nat, n <= N
      PROVE  /\ kind # "ldr" => Refers(w, a, N)
             /\ Refers(l, a + 1, N) /\ Refers(b, a + 1, N)
             /\ a + 2 <= FnLen => Refers(d, a, N)
  BY <1>2, <1>3, ConstFacts DEF Refers
<1>4. CASE kind = "b"
  <2>1. Trampoline(kind, n, f) = <<w>>
    BY <1>4 DEF Trampoline, w
  <2>2. <<w>> \in Seq(WordSet) /\ Len(<<w>>) = 1 /\ <<w>>[1] = w
    BY <1>1
  <2>3. ASSUME NEW a \in Words, NEW N \in Nat, n <= N, a + 1 <= FnLen
        PROVE  Row(<<w>>, a, N)
    <3>1. a + 1 - 1 = a
      BY ConstFacts
    <3> QED
      BY <1>3, <1>4, <2>2, <2>3, <3>1 DEF Row
  <2> QED
    BY <2>1, <2>2, <2>3
<1>5. CASE kind = "adrp"
  <2>1. Trampoline(kind, n, f) = <<w, b>>
    BY <1>5 DEF Trampoline, w, b
  <2>2. /\ <<w, b>> \in Seq(WordSet) /\ Len(<<w, b>>) = 2 /\ <<w, b>>[1] = w
        /\ <<w, b>>[2] = b
    BY <1>1
  <2>3. ASSUME NEW a \in Words, NEW N \in Nat, n <= N, a + 2 <= FnLen
        PROVE  Row(<<w, b>>, a, N)
    <3>1. a + 1 - 1 = a /\ a + 2 - 1 = a + 1
      BY ConstFacts
    <3> QED
      BY <1>3, <1>5, <2>2, <2>3, <3>1 DEF Row
  <2> QED
    BY <2>1, <2>2, <2>3
<1>6. CASE kind = "ldr"
  <2>1. Trampoline(kind, n, f) = <<d, l>>
    BY <1>6 DEF Trampoline, d, l
  <2>2. /\ <<d, l>> \in Seq(WordSet) /\ Len(<<d, l>>) = 2 /\ <<d, l>>[1] = d
        /\ <<d, l>>[2] = l
    BY <1>1
  <2>3. ASSUME NEW a \in Words, NEW N \in Nat, n <= N, a + 2 <= FnLen
        PROVE  Row(<<d, l>>, a, N)
    <3>1. a + 1 - 1 = a /\ a + 2 - 1 = a + 1
      BY ConstFacts
    <3> QED
      BY <1>3, <1>6, <2>2, <2>3, <3>1 DEF Row
  <2> QED
    BY <2>1, <2>2, <2>3
<1> QED
  BY <1>4, <1>5, <1>6

-----------------------------------------------------------------------------
(* What the words refer to.                                                *)

\* A row of N chunks is one of N + 1.
LEMMA RefersMore ==
  ASSUME NEW w \in WordSet, NEW a \in Int, NEW N \in Nat, NEW M \in Nat, N <= M, Refers(w, a, N)
  PROVE  Refers(w, a, M)
<1>1. w.n \in Nat
  BY DEF WordSet
<1> QED
  BY <1>1 DEF Refers

\* The same for a row of words.
LEMMA RowMore ==
  ASSUME NEW ws \in Seq(WordSet), NEW a \in Int, NEW N \in Nat, NEW M \in Nat, N <= M,
         Row(ws, a, N)
  PROVE  Row(ws, a, M)
<1>1. ASSUME NEW i \in 1 .. Len(ws) PROVE Refers(ws[i], a + i - 1, M)
  <2>1. ws[i] \in WordSet /\ a + i - 1 \in Int /\ Refers(ws[i], a + i - 1, N)
    BY DEF Row
  <2> QED
    BY <2>1, RefersMore
<1> QED
  BY <1>1 DEF Row

\* What a row says of one of its words.
LEMMA RowAt ==
  ASSUME NEW ws \in Seq(WordSet), NEW a \in Nat, NEW N, Row(ws, a, N), NEW i \in 1 .. Len(ws)
  PROVE  /\ ws[i] \in WordSet /\ Refers(ws[i], a + i - 1, N) /\ a + i - 1 \in Words
         /\ i + 1 \in 1 .. Len(ws) + 1
<1>1. Len(ws) \in Nat /\ a + Len(ws) <= FnLen
  BY DEF Row
<1>2. a + i - 1 \in Nat /\ a + i - 1 < FnLen /\ i + 1 \in 1 .. Len(ws) + 1
  BY <1>1, ConstFacts
<1> QED
  BY <1>2, ConstFacts DEF Row

\* The same for an entry.
LEMMA EntryMore ==
  ASSUME NEW e \in Entry, NEW N \in Nat, NEW M \in Nat, N <= M, EntryOK(e, N)
  PROVE  EntryOK(e, M)
<1>1. /\ e.saved \in Seq(WordSet) /\ e.words \in Seq(WordSet) /\ e.at \in Int
      /\ e.chunk \in Nat
  BY ConstFacts DEF Entry
<1>2. Row(e.saved, e.at, M) /\ Row(e.words, e.at, M)
  BY <1>1, RowMore DEF EntryOK
<1> QED
  BY <1>1, <1>2 DEF EntryOK

HInv == HTypes /\ HRefs

\* Dispatch, field by field.
LEMMA DispatchIs ==
  ASSUME HInv, NEW f \in Fns, NEW kind \in TrampolineKinds, Dispatch(f, kind)
  PROVE  \E e \in Entry, c \in Relocated :
           /\ entries' = <<e>> \o entries /\ chunks' = Append(chunks, c)
           /\ job' = [at |-> e.at, words |-> e.words, next |-> 1, remove |-> FALSE]
           /\ e.fn = f /\ e.at = Target[f] /\ e.chunk = Len(chunks) + 1
           /\ c.at = e.at /\ c.words = e.saved
           /\ e.words = Trampoline(kind, IF f \in Handlers THEN e.chunk ELSE 0, f)
           /\ \A i \in 1 .. Len(e.saved) :
                e.saved[i] = mem[e.at + i - 1] /\ e.at + i - 1 \in Words
           /\ EntryOK(e, Len(chunks) + 1)
<1> DEFINE a == Target[f]
           n == Len(chunks) + 1
           tramp == Trampoline(kind, IF f \in Handlers THEN n ELSE 0, f)
           saved == [i \in 1 .. Len(tramp) |-> mem[a + i - 1]]
           e == [at |-> a, fn |-> f, saved |-> saved, chunk |-> n, words |-> tramp]
           c == [at |-> a, words |-> saved]
<1>1. /\ a + Len(tramp) <= FnLen
      /\ chunks' = Append(chunks, c)
      /\ entries' = <<e>> \o entries
      /\ job' = [at |-> a, words |-> tramp, next |-> 1, remove |-> FALSE]
  BY DEF Dispatch
<1>2. /\ mem \in [Words -> WordSet] /\ Len(chunks) \in Nat /\ n \in Nat /\ n >= 1
      /\ kind \in {"b", "adrp", "ldr"} /\ a \in Words /\ a \in Nat
  BY ConstFacts DEF HInv, HTypes, TrampolineKinds
<1>3. /\ tramp \in Seq(WordSet) /\ Len(tramp) \in 1 .. 2 /\ Row(tramp, a, n)
  <2>1. (IF f \in Handlers THEN n ELSE 0) \in Nat /\ (IF f \in Handlers THEN n ELSE 0) <= n
    BY <1>2
  <2> QED
    BY <1>1, <1>2, <2>1, TrampolineOK
<1> HIDE DEF tramp
<1>4. ASSUME NEW i \in 1 .. Len(tramp)
      PROVE  a + i - 1 \in Words /\ mem[a + i - 1] \in WordSet
  <2>1. a + i - 1 \in Words
    BY <1>1, <1>2, <1>3, ConstFacts
  <2> QED
    BY <1>2, <2>1
<1>5. /\ saved \in Seq(WordSet) /\ Len(saved) = Len(tramp)
      /\ \A i \in 1 .. Len(tramp) : saved[i] = mem[a + i - 1]
  BY <1>3, <1>4
<1>6. Row(saved, a, n)
  <2>1. ASSUME NEW i \in 1 .. Len(saved) PROVE Refers(saved[i], a + i - 1, n)
    <3>1. a + i - 1 \in Words /\ mem[a + i - 1] \in WordSet /\ saved[i] = mem[a + i - 1]
      BY <1>4, <1>5
    <3>2. Refers(mem[a + i - 1], a + i - 1, Len(chunks)) /\ a + i - 1 \in Int
      BY <3>1, ConstFacts DEF HInv, HRefs
    <3> QED
      BY <1>2, <3>1, <3>2, RefersMore
  <2> QED
    BY <1>1, <1>5, <2>1 DEF Row
<1> HIDE DEF saved
<1>7. /\ e.at = a /\ e.fn = f /\ e.saved = saved /\ e.chunk = n /\ e.words = tramp
      /\ c.at = a /\ c.words = saved
  OBVIOUS
<1>8. e \in Entry /\ c \in Relocated
  BY <1>2, <1>3, <1>5 DEF Entry, Relocated
<1> HIDE DEF e, c
<1>9. EntryOK(e, n)
  BY <1>2, <1>3, <1>5, <1>6, <1>7 DEF EntryOK
<1>10. job' = [at |-> e.at, words |-> e.words, next |-> 1, remove |-> FALSE]
  BY <1>1, <1>7
<1>11. \A i \in 1 .. Len(e.saved) : e.saved[i] = mem[e.at + i - 1] /\ e.at + i - 1 \in Words
  BY <1>4, <1>5, <1>7
<1>12. e.words = Trampoline(kind, IF f \in Handlers THEN e.chunk ELSE 0, f)
  BY <1>7 DEF tramp
<1> QED
  BY <1>1, <1>7, <1>8, <1>9, <1>10, <1>11, <1>12

\* DobbyHook and DobbyInstrument keep words and entries in range.
LEMMA DispatchKeeps ==
  ASSUME HInv, NEW f \in Fns, NEW kind \in TrampolineKinds, Dispatch(f, kind),
         apiPC' \in {"publish", "protect"}, UNCHANGED <<mem, perm, origin, near>>
  PROVE  HInv'
<1>1. PICK e \in Entry, c \in Relocated :
        /\ entries' = <<e>> \o entries /\ chunks' = Append(chunks, c)
        /\ job' = [at |-> e.at, words |-> e.words, next |-> 1, remove |-> FALSE]
        /\ c.at = e.at /\ c.words = e.saved
        /\ EntryOK(e, Len(chunks) + 1)
  BY DispatchIs
<1>2. /\ entries \in Seq(Entry) /\ Len(entries) \in Nat /\ Len(chunks) \in Nat
      /\ chunks \in Seq(Relocated)
      /\ mem \in [Words -> WordSet] /\ origin \in [Replacements -> Nat]
  BY DEF HInv, HTypes
<1>3. /\ entries' \in Seq(Entry) /\ Len(entries') = Len(entries) + 1 /\ entries'[1] = e
      /\ \A k \in 2 .. Len(entries) + 1 : entries'[k] = entries[k - 1]
  BY <1>1, <1>2, PushIs
<1>4. /\ chunks' \in Seq(Relocated) /\ Len(chunks') = Len(chunks) + 1
      /\ \A i \in 1 .. Len(chunks) : chunks'[i] = chunks[i]
      /\ chunks'[Len(chunks) + 1] = c
  BY <1>1, <1>2, AppendProperties
<1>5. HTypes'
  <2>1. job' \in Job
    BY <1>1 DEF Job, Entry
  <2> QED
    BY <1>3, <1>4, <2>1 DEF HInv, HTypes
<1> DEFINE N == Len(chunks)
<1>6. N \in Nat /\ N + 1 \in Nat /\ N <= N + 1 /\ Len(chunks') = N + 1
  BY <1>2, <1>4
<1>7. ASSUME NEW a \in Words PROVE Refers(mem'[a], a, N + 1)
  <2>1. mem'[a] = mem[a] /\ mem[a] \in WordSet /\ a \in Int /\ Refers(mem[a], a, N)
    BY <1>2, ConstFacts DEF HInv, HRefs
  <2> QED
    BY <1>6, <2>1, RefersMore
<1>8. ASSUME NEW n \in 1 .. N + 1 PROVE Row(chunks'[n].words, chunks'[n].at, N + 1)
  <2>1. CASE n = N + 1
    BY <1>1, <1>4, <2>1 DEF EntryOK
  <2>2. CASE n # N + 1
    <3>1. n \in 1 .. N /\ chunks'[n] = chunks[n] /\ chunks[n] \in Relocated
      BY <1>2, <1>4, <2>2
    <3>2. /\ chunks[n].words \in Seq(WordSet) /\ chunks[n].at \in Int
          /\ Row(chunks[n].words, chunks[n].at, N)
      BY <3>1, ConstFacts DEF HInv, HRefs, Relocated
    <3> QED
      BY <1>6, <3>1, <3>2, RowMore
  <2> QED
    BY <2>1, <2>2
<1>9. ASSUME NEW i \in 1 .. Len(entries) + 1 PROVE EntryOK(entries'[i], N + 1)
  <2>1. CASE i = 1
    BY <1>1, <1>3, <2>1
  <2>2. CASE i # 1
    <3>1. i - 1 \in 1 .. Len(entries) /\ entries'[i] = entries[i - 1] /\ entries[i - 1] \in Entry
      BY <1>2, <1>3, <2>2
    <3>2. EntryOK(entries[i - 1], N)
      BY <3>1 DEF HInv, HRefs
    <3> QED
      BY <1>6, <3>1, <3>2, EntryMore
  <2> QED
    BY <2>1, <2>2
<1>10. JobOK(Len(chunks))'
  <2>1. job'.at = e.at /\ job'.words = e.words /\ job'.next = 1 /\ job'.remove = FALSE
    BY <1>1
  <2>2. entries' # <<>>
    BY <1>2, <1>3
  <2>3. Row(e.words, e.at, N + 1) /\ Len(e.words) \in Nat /\ Len(chunks') = N + 1
    BY <1>1, <1>6 DEF EntryOK, Entry
  <2> QED
    BY <1>1, <1>6, <2>1, <2>2, <2>3 DEF JobOK
<1>11. Len(entries') <= N + 1 /\ \A f1 \in Replacements : origin'[f1] <= N + 1
  BY <1>2, <1>3 DEF HInv, HRefs
<1>12. HRefs'
  BY <1>3, <1>6, <1>7, <1>8, <1>9, <1>10, <1>11 DEF HRefs
<1> QED
  BY <1>5, <1>12 DEF HInv

\* The other steps of the installing thread.
LEMMA PublishKeeps ==
  ASSUME HInv, PublishOrigin
  PROVE  HInv'
<1>1. /\ entries \in Seq(Entry) /\ Len(entries) \in Nat /\ entries # <<>>
      /\ origin \in [Replacements -> Nat] /\ Len(chunks) \in Nat
      /\ JobOK(Len(chunks))
  <2>1. /\ entries \in Seq(Entry) /\ origin \in [Replacements -> Nat]
        /\ Len(chunks) \in Nat /\ Busy
    BY DEF HInv, HTypes, PublishOrigin, Busy
  <2>2. JobOK(Len(chunks))
    BY <2>1 DEF HInv, HRefs
  <2>3. entries # <<>>
    <3>1. ASSUME Hooked(job.at) PROVE entries # <<>>
      BY <2>1, <3>1 DEF Hooked
    <3> QED
      BY <2>2, <3>1 DEF JobOK
  <2> QED
    BY <2>1, <2>2, <2>3
<1>2. 1 \in 1 .. Len(entries) /\ Head(entries) = entries[1] /\ entries[1] \in Entry
  BY <1>1
<1>3. Head(entries).chunk \in 1 .. Len(chunks)
  BY <1>2 DEF HInv, HRefs, EntryOK
<1>4. /\ origin' \in [Replacements -> Nat]
      /\ \A f \in Replacements : origin'[f] <= Len(chunks)
  <2> DEFINE g == Head(entries).fn
             n == Head(entries).chunk
  <2>1. n \in Nat /\ n <= Len(chunks) /\ origin' = [origin EXCEPT ![g] = n]
    BY <1>1, <1>3 DEF PublishOrigin
  <2> HIDE DEF g, n
  <2>2. \A f \in Replacements : origin[f] \in Nat /\ origin[f] <= Len(chunks)
    BY <1>1 DEF HInv, HRefs
  <2> QED
    BY <1>1, <2>1, <2>2
<1>5. /\ UNCHANGED <<mem, perm, entries, chunks, near, job>>
      /\ apiPC' = "protect"
  BY DEF PublishOrigin
<1>6. HTypes'
  BY <1>4, <1>5 DEF HInv, HTypes
<1>7. JobOK(Len(chunks))'
  BY <1>1, <1>5 DEF JobOK, Hooked
<1>8. HRefs'
  BY <1>4, <1>5, <1>7 DEF HInv, HRefs
<1> QED
  BY <1>6, <1>8 DEF HInv

\* DobbyDestroy: the words to write back are those of an entry.
LEMMA DestroyKeeps ==
  ASSUME HInv, NEW a \in Words, DobbyDestroy(a)
  PROVE  HInv'
<1>1. entries \in Seq(Entry) /\ Hooked(a) /\ Len(chunks) \in Nat
  BY DEF HInv, HTypes, DobbyDestroy
<1>2. /\ Newest(a) \in 1 .. Len(entries) /\ entries[Newest(a)].at = a
      /\ FindHookEntry(a) = entries[Newest(a)]
  BY <1>1, NewestIs DEF FindHookEntry
<1> DEFINE e == FindHookEntry(a)
<1> HIDE DEF e
<1>3. e \in Entry /\ e.at = a /\ EntryOK(e, Len(chunks))
  BY <1>1, <1>2 DEF e, HInv, HRefs
<1>4. /\ job' = [at |-> a, words |-> e.saved, next |-> 1, remove |-> TRUE]
      /\ UNCHANGED <<mem, perm, entries, chunks, origin, near>> /\ apiPC' = "protect"
  BY DEF DobbyDestroy, e
<1>5. job' \in Job /\ job'.at = a /\ job'.words = e.saved /\ job'.next = 1 /\ job'.remove
  BY <1>3, <1>4 DEF Job, Entry
<1>6. HTypes'
  BY <1>4, <1>5 DEF HInv, HTypes
<1>7. Row(e.saved, a, Len(chunks)) /\ Len(e.saved) \in Nat
  BY <1>3 DEF EntryOK, Entry
<1>8. JobOK(Len(chunks))'
  BY <1>1, <1>4, <1>5, <1>7 DEF JobOK, Hooked
<1>9. HRefs'
  BY <1>4, <1>8 DEF HInv, HRefs
<1> QED
  BY <1>6, <1>9 DEF HInv

\* Steps that change neither code nor list.
LEMMA QuietKeeps ==
  ASSUME HInv, UNCHANGED <<mem, entries, chunks, origin, job>>, near' \in BOOLEAN,
         perm' \in [Pages -> {"rx", "rwx"}],
         apiPC' \in {"idle", "publish", "protect", "patch", "crashed"},
         Busy' => Busy
  PROVE  HInv'
<1>1. HTypes'
  BY DEF HInv, HTypes
<1>2. JobOK(Len(chunks)) => JobOK(Len(chunks))'
  BY DEF JobOK, Hooked
<1>3. HRefs'
  BY <1>2 DEF HInv, HRefs
<1> QED
  BY <1>1, <1>3 DEF HInv

\* One word of memcpy.
LEMMA PatchWordKeeps ==
  ASSUME HInv, PatchWord
  PROVE  HInv'
<1>1. /\ mem \in [Words -> WordSet] /\ Len(chunks) \in Nat /\ job \in Job
      /\ Row(job.words, job.at, Len(chunks)) /\ job.next \in 1 .. Len(job.words) + 1
      /\ job.next <= Len(job.words) /\ JobOK(Len(chunks))
  BY DEF HInv, HTypes, HRefs, PatchWord, Busy, JobOK
<1> DEFINE a == job.at + job.next - 1
           w == job.words[job.next]
<1>2. /\ job.at \in Nat /\ job.words \in Seq(WordSet) /\ Len(job.words) \in Nat /\ job.next \in Nat
  BY <1>1, ConstFacts DEF Job
<1>3. a \in Words /\ w \in WordSet /\ Refers(w, a, Len(chunks))
  <2>1. job.next \in 1 .. Len(job.words)
    BY <1>1, <1>2
  <2>2. a \in Nat /\ a < FnLen
    BY <1>1, <1>2, <2>1, ConstFacts DEF Row
  <2> QED
    BY <1>1, <1>2, <2>1, <2>2, ConstFacts DEF Row
<1>4. /\ mem' = [mem EXCEPT ![a] = w] /\ job' = [job EXCEPT !.next = @ + 1]
      /\ UNCHANGED <<perm, entries, chunks, origin, near, apiPC>>
  BY DEF PatchWord
<1> HIDE DEF a, w
<1>5. mem' \in [Words -> WordSet] /\ \A b \in Words : Refers(mem'[b], b, Len(chunks))
  <2>1. \A b \in Words : mem'[b] = IF b = a THEN w ELSE mem[b]
    BY <1>1, <1>3, <1>4
  <2> QED
    BY <1>1, <1>3, <1>4, <2>1 DEF HInv, HRefs
<1>6. /\ job' \in Job /\ job'.at = job.at /\ job'.words = job.words
      /\ job'.next = job.next + 1 /\ job'.remove = job.remove
  BY <1>1, <1>2, <1>4 DEF Job
<1>7. HTypes'
  BY <1>4, <1>5, <1>6 DEF HInv, HTypes
<1>8. JobOK(Len(chunks))'
  BY <1>1, <1>2, <1>4, <1>6 DEF JobOK, Hooked
<1>9. HRefs'
  BY <1>4, <1>5, <1>8 DEF HInv, HRefs
<1> QED
  BY <1>7, <1>9 DEF HInv

\* The end of CodePatch, where an entry may be unlinked.
LEMMA ProtectKeeps ==
  ASSUME HInv, Protect
  PROVE  HInv'
<1>1. /\ entries \in Seq(Entry) /\ Len(entries) \in Nat /\ Len(chunks) \in Nat
      /\ perm \in [Pages -> {"rx", "rwx"}] /\ JobOK(Len(chunks)) /\ Len(entries) <= Len(chunks)
  BY DEF HInv, HTypes, HRefs, Protect, Busy
<1>2. /\ UNCHANGED <<mem, chunks, origin, near>> /\ apiPC' = "idle" /\ job' = NoJob
      /\ perm' \in [Pages -> {"rx", "rwx"}]
  BY <1>1 DEF Protect
<1>3. /\ entries' \in Seq(Entry) /\ Len(entries') <= Len(chunks)
      /\ \A i \in 1 .. Len(entries') : EntryOK(entries'[i], Len(chunks))
  <2>1. CASE ~job.remove
    <3>1. entries' = entries
      BY <2>1 DEF Protect
    <3> QED
      BY <1>1, <3>1 DEF HInv, HRefs
  <2>2. CASE job.remove
    <3> DEFINE k == Newest(job.at)
    <3>1. k \in 1 .. Len(entries) /\ entries' = RemoveAt(entries, k)
      BY <1>1, <2>2, NewestIs DEF Protect, RemoveHookEntry, JobOK
    <3> HIDE DEF k
    <3>2. /\ entries' \in Seq(Entry) /\ Len(entries') = Len(entries) - 1
          /\ \A i \in 1 .. k - 1 : entries'[i] = entries[i]
          /\ \A i \in k .. Len(entries) - 1 : entries'[i] = entries[i + 1]
      BY <1>1, <3>1, RemoveAtIs
    <3>3. ASSUME NEW i \in 1 .. Len(entries')
          PROVE  \E j \in 1 .. Len(entries) : entries'[i] = entries[j]
      BY <1>1, <3>1, <3>2
    <3> QED
      BY <1>1, <3>2, <3>3 DEF HInv, HRefs
  <2> QED
    BY <2>1, <2>2
<1>4. NoJob \in Job
  BY ConstFacts DEF NoJob, Job
<1>5. HTypes'
  BY <1>2, <1>3, <1>4 DEF HInv, HTypes
<1>6. ~Busy'
  BY <1>2 DEF Busy
<1>7. HRefs'
  BY <1>2, <1>3, <1>6 DEF HInv, HRefs
<1> QED
  BY <1>5, <1>7 DEF HInv

\* The pages of the code.
LEMMA PageIn == \A a \in Words : Page(a) \in Pages
BY DEF Pages

\* Every step keeps words and entries in range.
LEMMA HInvStep ==
  ASSUME HInv, [Next]_vars
  PROVE  HInv'
<1>0. perm \in [Pages -> {"rx", "rwx"}] /\ near \in BOOLEAN
      /\ apiPC \in {"idle", "publish", "protect", "patch", "crashed"}
  BY DEF HInv, HTypes
<1>1. ASSUME UNCHANGED apiVars PROVE HInv'
  <2>1. UNCHANGED <<mem, perm, entries, chunks, origin, near, apiPC, job>>
    BY <1>1 DEF apiVars
  <2> QED
    BY <1>0, <2>1, QuietKeeps DEF Busy
<1>2. ASSUME NEW f \in Replacements, DobbyHook(f) PROVE HInv'
  BY <1>2, DispatchKeeps, ConstFacts DEF DobbyHook, Replacements
<1>3. ASSUME NEW h \in Handlers, DobbyInstrument(h) PROVE HInv'
  BY <1>3, DispatchKeeps, ConstFacts DEF DobbyInstrument
<1>4. ASSUME NEW f \in Fns, RelocationFails(f) PROVE HInv'
  BY <1>0, <1>4, QuietKeeps DEF RelocationFails, Busy
<1>5. ASSUME NEW a \in Words, DobbyDestroy(a) PROVE HInv'
  BY <1>5, DestroyKeeps
<1>6. ASSUME TogglePlugin PROVE HInv'
  BY <1>0, <1>6, QuietKeeps DEF TogglePlugin, Busy
<1>7. ASSUME PublishOrigin PROVE HInv'
  BY <1>7, PublishKeeps
<1>8. ASSUME Unprotect PROVE HInv'
  <2>1. perm' \in [Pages -> {"rx", "rwx"}]
    BY <1>0, <1>8 DEF Unprotect
  <2> QED
    BY <1>0, <1>8, <2>1, QuietKeeps DEF Unprotect, Busy
<1>9. ASSUME PatchWord PROVE HInv'
  BY <1>9, PatchWordKeeps
<1>10. ASSUME PatchFaults PROVE HInv'
  BY <1>0, <1>10, QuietKeeps DEF PatchFaults, Busy
<1>11. ASSUME Protect PROVE HInv'
  BY <1>11, ProtectKeeps
<1>12. ASSUME Call \/ Run \/ Dead \/ UNCHANGED vars PROVE HInv'
  <2>1. UNCHANGED apiVars
    BY <1>12 DEF Call, Run, RunCode, RunChunk, BranchToRest, RunHook, Dead, vars
  <2> QED
    BY <1>1, <2>1
<1> QED
  BY <1>2, <1>3, <1>4, <1>5, <1>6, <1>7, <1>8, <1>9, <1>10, <1>11, <1>12
     DEF Next, Install, Patch

-----------------------------------------------------------------------------
(* Where the calling thread is.                                            *)

\* A word leads to the next one, to a hook, or to a fault.
LEMMA ExecuteGoes ==
  ASSUME HInv, reg = None \/ HookPlace(reg, Len(chunks)),
         NEW w \in WordSet, NEW a \in Words, NEW next,
         Refers(w, a, Len(chunks)), Execute(w, a, next)
  PROVE  /\ where' = next \/ where' = Crash \/ HookPlace(where', Len(chunks))
         /\ reg' = None \/ HookPlace(reg', Len(chunks))
<1>1. w.op \in Ops /\ w.n \in Nat /\ Len(chunks) \in Nat
  BY DEF WordSet, HInv, HTypes
<1>2. ASSUME NEW v \in WordSet, v.fn \in Fns, v.n <= Len(chunks)
      PROVE  HookPlace(Hook(v.n, v.fn), Len(chunks))
  <2>1. v.n \in 0 .. Len(chunks)
    BY <1>1, <1>2 DEF WordSet
  <2> QED
    BY <1>2, <2>1 DEF HookPlace
<1>3. CASE w.op = "orig"
  BY <1>3 DEF Execute
<1>4. CASE w.op = "b"
  <2>1. where' = Hook(w.n, w.fn) /\ reg' = reg
    BY <1>4 DEF Execute
  <2> QED
    BY <1>2, <1>4, <2>1 DEF Refers
<1>5. CASE w.op = "adrp"
  <2>1. reg' = Hook(w.n, w.fn) /\ where' = next
    BY <1>5 DEF Execute
  <2> QED
    BY <1>2, <1>5, <2>1 DEF Refers
<1>6. CASE w.op = "br"
  <2>1. where' = (IF reg = None THEN Crash ELSE reg) /\ reg' = reg
    BY <1>6 DEF Execute
  <2> QED
    BY <2>1
<1>7. CASE w.op = "ldr"
  <2> DEFINE v == mem[a + 1]
  <2>1. a + 1 \in Words
    BY <1>7 DEF Refers
  <2>2. v \in WordSet /\ Refers(v, a + 1, Len(chunks))
    BY <2>1 DEF HInv, HTypes, HRefs
  <2>3. /\ where' = (IF v.op = "lit" THEN Hook(v.n, v.fn) ELSE Crash)
        /\ reg' = reg
    BY <1>7 DEF Execute
  <2> QED
    BY <1>2, <2>2, <2>3 DEF Refers
<1>8. CASE w.op = "lit"
  BY <1>8 DEF Execute
<1> QED
  BY <1>1, <1>3, <1>4, <1>5, <1>6, <1>7, <1>8 DEF Ops

\* The forms of a place, for the provers.
LEMMA PlaceFields ==
  /\ Outside.in = "outside" /\ Crash.in = "crash"
  /\ \A p : CodePlace(p) => p.in = "code" /\ p.at \in Words
  /\ \A p : ChunkPlace(p) => /\ p.in = "chunk" /\ p.n \in 1 .. Len(chunks)
                             /\ p.i \in 1 .. Len(chunks[p.n].words) + 1
  /\ \A p, N : HookPlace(p, N) => p.in = "hook" /\ p.n \in 0 .. N /\ p.fn \in Fns
BY DEF Outside, Crash, CodePlace, ChunkPlace, HookPlace, Chunk, Hook

\* The next word of the code, or the return to the caller.
LEMMA CodeGoes ==
  ASSUME NEW a \in Nat, a <= FnLen
  PROVE  Code(a) = Outside \/ CodePlace(Code(a))
BY ConstFacts DEF Code, CodePlace

\* More chunks do not move the calling thread.
LEMMA PlacesKept ==
  ASSUME HInv, HPlaces, UNCHANGED <<where, reg>>,
         chunks' = chunks \/ \E c \in Relocated : chunks' = Append(chunks, c)
  PROVE  HPlaces'
<1>1. chunks \in Seq(Relocated) /\ Len(chunks) \in Nat
  BY DEF HInv, HTypes
<1>2. /\ Len(chunks') \in Nat /\ Len(chunks) <= Len(chunks')
      /\ \A n \in 1 .. Len(chunks) : chunks'[n] = chunks[n]
  <2>1. CASE chunks' = chunks
    BY <1>1, <2>1
  <2>2. ASSUME NEW c \in Relocated, chunks' = Append(chunks, c)
        PROVE  /\ Len(chunks') \in Nat /\ Len(chunks) <= Len(chunks')
               /\ \A n \in 1 .. Len(chunks) : chunks'[n] = chunks[n]
    BY <1>1, <2>2, AppendProperties
  <2> QED
    BY <2>1, <2>2
<1>3. \A p : HookPlace(p, Len(chunks)) => HookPlace(p, Len(chunks'))
  <2>1. \A n \in 0 .. Len(chunks) : n \in 0 .. Len(chunks')
    BY <1>1, <1>2
  <2> QED
    BY <2>1 DEF HookPlace
<1>4. ChunkPlace(where) => ChunkPlace(where)'
  <2>1. \A n \in 1 .. Len(chunks) : n \in 1 .. Len(chunks')
    BY <1>1, <1>2
  <2> QED
    BY <1>2, <2>1 DEF ChunkPlace, Chunk
<1>5. CodePlace(where) => CodePlace(where)'
  BY DEF CodePlace
<1> QED
  BY <1>3, <1>4, <1>5 DEF HPlaces, Outside, Crash

\* A step of the calling thread.
LEMMA RunKeeps ==
  ASSUME HInv, HPlaces, Run
  PROVE  HPlaces'
<1> USE PlaceFields
<1>1. UNCHANGED <<mem, perm, entries, chunks, origin, near, apiPC, job>>
  BY DEF Run, RunCode, RunChunk, BranchToRest, RunHook, apiVars
<1>2. chunks \in Seq(Relocated) /\ Len(chunks) \in Nat /\ mem \in [Words -> WordSet]
  BY DEF HInv, HTypes
<1>3. SUFFICES /\ where' = Outside \/ where' = Crash \/ CodePlace(where')
                  \/ ChunkPlace(where') \/ HookPlace(where', Len(chunks))
               /\ reg' = None \/ HookPlace(reg', Len(chunks))
  BY <1>1 DEF HPlaces, ChunkPlace, HookPlace, CodePlace
<1>4. reg = None \/ HookPlace(reg, Len(chunks))
  BY DEF HPlaces
<1>5. CASE RunCode
  <2>1. where.in = "code" /\ CodePlace(where)
    BY <1>5 DEF RunCode, HPlaces
  <2>2. where.at \in Words /\ where.at + 1 \in Nat /\ where.at + 1 <= FnLen
    BY <2>1, ConstFacts
  <2> DEFINE a == where.at
             w == mem[a]
  <2>3. Execute(w, a, Code(a + 1)) /\ w \in WordSet /\ Refers(w, a, Len(chunks))
    BY <1>2, <1>5, <2>2 DEF RunCode, HInv, HRefs
  <2> HIDE DEF w
  <2>4. /\ where' = Code(a + 1) \/ where' = Crash \/ HookPlace(where', Len(chunks))
        /\ reg' = None \/ HookPlace(reg', Len(chunks))
    BY <1>4, <2>2, <2>3, ExecuteGoes
  <2>5. Code(a + 1) = Outside \/ CodePlace(Code(a + 1))
    BY <2>2, CodeGoes
  <2> QED
    BY <2>4, <2>5
<1>6. ASSUME where.in = "chunk"
      PROVE  /\ ChunkPlace(where) /\ where.n \in 1 .. Len(chunks) /\ where.i \in Nat
             /\ where.i >= 1 /\ chunks[where.n] \in Relocated
             /\ chunks[where.n].words \in Seq(WordSet) /\ chunks[where.n].at \in Nat
             /\ Row(chunks[where.n].words, chunks[where.n].at, Len(chunks))
             /\ Len(chunks[where.n].words) \in Nat
  <2>1. ChunkPlace(where)
    BY <1>6 DEF HPlaces
  <2>2. where.n \in 1 .. Len(chunks) /\ where.i \in 1 .. Len(chunks[where.n].words) + 1
    BY <2>1
  <2>3. chunks[where.n] \in Relocated /\ Row(chunks[where.n].words, chunks[where.n].at, Len(chunks))
    BY <1>2, <2>2 DEF HInv, HRefs
  <2>4. chunks[where.n].words \in Seq(WordSet) /\ chunks[where.n].at \in Nat
    BY <2>3, ConstFacts DEF Relocated
  <2> QED
    BY <2>1, <2>2, <2>3, <2>4
<1>7. CASE RunChunk
  <2> DEFINE n == where.n
             i == where.i
             a == chunks[n].at + i - 1
             w == chunks[n].words[i]
  <2>1. where.in = "chunk" /\ i <= Len(chunks[n].words) /\ Execute(w, a, Chunk(n, i + 1))
    BY <1>7 DEF RunChunk
  <2>2. /\ n \in 1 .. Len(chunks) /\ i \in 1 .. Len(chunks[n].words)
        /\ chunks[n].words \in Seq(WordSet) /\ chunks[n].at \in Nat
        /\ Row(chunks[n].words, chunks[n].at, Len(chunks)) /\ Len(chunks[n].words) \in Nat
    BY <1>6, <2>1
  <2>3. /\ w \in WordSet /\ Refers(w, a, Len(chunks)) /\ a \in Words
        /\ i + 1 \in 1 .. Len(chunks[n].words) + 1
    BY <2>2, RowAt
  <2>4. ChunkPlace(Chunk(n, i + 1))
    BY <2>2, <2>3 DEF ChunkPlace
  <2> HIDE DEF w, a, n, i
  <2>5. /\ where' = Chunk(n, i + 1) \/ where' = Crash \/ HookPlace(where', Len(chunks))
        /\ reg' = None \/ HookPlace(reg', Len(chunks))
    BY <1>4, <2>1, <2>3, ExecuteGoes
  <2> QED
    BY <2>4, <2>5
<1>8. CASE BranchToRest
  <2> DEFINE a == chunks[where.n].at + Len(chunks[where.n].words)
  <2>1. where.in = "chunk" /\ where' = Code(a) /\ reg' = None
    BY <1>8 DEF BranchToRest
  <2>2. a \in Nat /\ a <= FnLen
    BY <1>6, <2>1 DEF Row
  <2>3. Code(a) = Outside \/ CodePlace(Code(a))
    BY <2>2, CodeGoes
  <2> QED
    BY <2>1, <2>3
<1>9. CASE RunHook
  <2> DEFINE n == IF where.fn \in Handlers THEN where.n ELSE origin[where.fn]
  <2>1. where.in = "hook" /\ where' = (IF n = 0 THEN Crash ELSE Chunk(n, 1)) /\ reg' = None
    BY <1>9 DEF RunHook
  <2>2. where.n \in 0 .. Len(chunks) /\ where.fn \in Fns
    BY <2>1 DEF HPlaces
  <2>3. n \in 0 .. Len(chunks)
    <3>1. ASSUME where.fn \notin Handlers PROVE origin[where.fn] \in 0 .. Len(chunks)
      BY <1>2, <2>2, <3>1 DEF HInv, HTypes, HRefs, Replacements
    <3> QED
      BY <2>2, <3>1
  <2> HIDE DEF n
  <2>4. ASSUME n # 0 PROVE ChunkPlace(Chunk(n, 1))
    <3>1. n \in 1 .. Len(chunks)
      BY <1>2, <2>3, <2>4
    <3>2. chunks[n] \in Relocated
      BY <1>2, <3>1
    <3>3. 1 \in 1 .. Len(chunks[n].words) + 1
      BY <3>2 DEF Relocated
    <3> QED
      BY <3>1, <3>3 DEF ChunkPlace
  <2> QED
    BY <2>1, <2>4
<1> QED
  BY <1>5, <1>7, <1>8, <1>9 DEF Run

\* Every step keeps the calling thread in range.
LEMMA HPlacesStep ==
  ASSUME HInv, HPlaces, [Next]_vars
  PROVE  HPlaces'
<1>1. ASSUME NEW f \in Fns, NEW kind \in TrampolineKinds, Dispatch(f, kind), UNCHANGED <<where, reg>>
      PROVE  HPlaces'
  <2>1. \E c \in Relocated : chunks' = Append(chunks, c)
    BY <1>1, DispatchIs
  <2> QED
    BY <1>1, <2>1, PlacesKept
<1>2. ASSUME NEW f \in Replacements, DobbyHook(f) PROVE HPlaces'
  BY <1>1, <1>2, ConstFacts DEF DobbyHook, Replacements
<1>3. ASSUME NEW h \in Handlers, DobbyInstrument(h) PROVE HPlaces'
  BY <1>1, <1>3, ConstFacts DEF DobbyInstrument
<1>4. ASSUME \/ \E f \in Fns : RelocationFails(f)
             \/ \E a \in Words : DobbyDestroy(a)
             \/ TogglePlugin \/ PublishOrigin \/ Unprotect \/ PatchWord \/ PatchFaults
             \/ Protect \/ Dead \/ UNCHANGED vars
      PROVE  HPlaces'
  <2>1. UNCHANGED <<where, reg>> /\ chunks' = chunks
    BY <1>4 DEF RelocationFails, DobbyDestroy, TogglePlugin, PublishOrigin, Unprotect,
       PatchWord, PatchFaults, Protect, Dead, vars, callVars, apiVars
  <2> QED
    BY <2>1, PlacesKept
<1>5. ASSUME Call PROVE HPlaces'
  <2>1. where' = Code(0) /\ reg' = None
    BY <1>5 DEF Call
  <2>2. Code(0) = Outside \/ CodePlace(Code(0))
    BY CodeGoes, ConstFacts
  <2>3. CodePlace(where') => CodePlace(where)'
    BY DEF CodePlace
  <2> QED
    BY <2>1, <2>2, <2>3 DEF HPlaces, Outside
<1>6. ASSUME Run PROVE HPlaces'
  BY <1>6, RunKeeps
<1> QED
  BY <1>2, <1>3, <1>4, <1>5, <1>6 DEF Next, Install, Patch

\* The initial state.
LEMMA HInit ==
  ASSUME Init
  PROVE  HInv /\ HPlaces
<1> USE ConstFacts DEF Init
<1>1. /\ mem \in [Words -> WordSet]
      /\ \A a \in Words : mem[a].op = "orig"
  BY DEF Original, Word, WordSet, Ops
<1>2. perm \in [Pages -> {"rx", "rwx"}]
  BY DEF Pages
<1>3. job \in Job
  BY DEF NoJob, Job
<1>4. entries \in Seq(Entry) /\ chunks \in Seq(Relocated) /\ Len(chunks) = 0 /\ Len(entries) = 0
  OBVIOUS
<1>5. HTypes
  BY <1>1, <1>2, <1>3, <1>4 DEF HTypes
<1>6. \A a \in Words : Refers(mem[a], a, Len(chunks))
  BY <1>1 DEF Refers
<1>7. ~Busy
  BY DEF Busy
<1>8. HRefs
  BY <1>4, <1>6, <1>7 DEF HRefs
<1>9. HPlaces
  BY DEF HPlaces
<1> QED
  BY <1>5, <1>8, <1>9 DEF HInv

\* What the invariant is for.
LEMMA HInvTypeOK ==
  ASSUME HInv, HPlaces
  PROVE  HookTypeOK
<1> USE PlaceFields
<1>1. DOMAIN mem = Words /\ apiPC \in {"idle", "publish", "protect", "patch", "crashed"}
  BY DEF HInv, HTypes
<1>2. DOMAIN chunks = 1 .. Len(chunks) /\ Len(chunks) \in Nat
  BY DEF HInv, HTypes
<1>3. \A f \in Replacements : origin[f] \in 0 .. Len(chunks)
  BY <1>2 DEF HInv, HTypes, HRefs
<1>4. where.in \in {"outside", "code", "chunk", "hook", "crash"}
  BY DEF HPlaces
<1>5. where.in = "code" => where.at \in Words
  BY DEF HPlaces
<1>6. where.in = "chunk" =>
        where.n \in DOMAIN chunks /\ where.i \in 1 .. Len(chunks[where.n].words) + 1
  BY <1>2 DEF HPlaces
<1>7. Len(entries) <= Len(chunks)
  BY DEF HInv, HRefs
<1> QED
  BY <1>1, <1>3, <1>4, <1>5, <1>6, <1>7 DEF HookTypeOK

\* The invariant holds in every reachable state.
LEMMA HAlways == Safety => [](HInv /\ HPlaces)
<1>1. ASSUME HInv /\ HPlaces, [Next]_vars PROVE (HInv /\ HPlaces)'
  BY <1>1, HInvStep, HPlacesStep
<1> QED
  BY <1>1, HInit, PTL DEF Safety

\* Whatever is hooked, unhooked and called in whatever order, relocated code,
\* saved words, trampolines and the calling thread refer only to chunks and
\* addresses that exist (DobbyHook, DobbyInstrument, DobbyDestroy, CodePatch).
THEOREM HookTypes == Safety => []HookTypeOK
BY HAlways, HInvTypeOK, PTL

-----------------------------------------------------------------------------
(* The code under a list of entries.                                       *)

\* A list moved by d places, below place k.
LEMMA UnderShift ==
  ASSUME NEW s \in Seq(Entry), NEW t \in Seq(Entry), NEW d \in Int, NEW k \in Nat, NEW a, NEW v,
         Len(t) = Len(s) + d, k + d \in Nat,
         \A j \in k + 1 .. Len(s) : t[j + d] = s[j],
         UnderIn(s, k, a, v)
  PROVE  UnderIn(t, k + d, a, v)
<1>1. Len(s) \in Nat /\ Len(t) \in Nat
  OBVIOUS
<1>2. ASSUME NEW j \in k + d + 1 .. Len(t)
      PROVE  j - d \in k + 1 .. Len(s) /\ t[j] = s[j - d]
  <2>1. j - d \in k + 1 .. Len(s) /\ (j - d) + d = j
    BY <1>1
  <2> QED
    BY <2>1
<1>3. CASE v = Original[a] /\ \A i \in k + 1 .. Len(s) : ~Covers(s, i, a)
  BY <1>2, <1>3 DEF UnderIn, Covers
<1>4. ASSUME NEW i \in k + 1 .. Len(s),
             Covers(s, i, a), v = s[i].words[a - s[i].at + 1],
             \A j \in k + 1 .. i - 1 : ~Covers(s, j, a)
      PROVE  UnderIn(t, k + d, a, v)
  <2>1. i + d \in k + d + 1 .. Len(t) /\ t[i + d] = s[i]
    BY <1>1
  <2>2. Covers(t, i + d, a) /\ v = t[i + d].words[a - t[i + d].at + 1]
    BY <1>4, <2>1 DEF Covers
  <2>3. ASSUME NEW j \in k + d + 1 .. i + d - 1 PROVE ~Covers(t, j, a)
    <3>1. j \in k + d + 1 .. Len(t) /\ j - d \in k + 1 .. i - 1
      BY <1>1
    <3> QED
      BY <1>2, <1>4, <3>1 DEF Covers
  <2> QED
    BY <2>1, <2>2, <2>3 DEF UnderIn
<1> QED
  BY <1>3, <1>4 DEF UnderIn

\* Entries that do not cover a make no difference to it.
LEMMA UnderSkip ==
  ASSUME NEW s \in Seq(Entry), NEW k \in 0 .. Len(s), NEW m \in 0 .. k, NEW a, NEW v,
         UnderIn(s, k, a, v), \A j \in m + 1 .. k : ~Covers(s, j, a)
  PROVE  UnderIn(s, m, a, v)
<1>1. Len(s) \in Nat /\ k \in Nat /\ m \in Nat /\ m <= k /\ k <= Len(s)
  OBVIOUS
<1>2. CASE v = Original[a] /\ \A i \in k + 1 .. Len(s) : ~Covers(s, i, a)
  <2>1. ASSUME NEW i \in m + 1 .. Len(s) PROVE ~Covers(s, i, a)
    <3>1. i \in m + 1 .. k \/ i \in k + 1 .. Len(s)
      BY <1>1
    <3> QED
      BY <1>2, <3>1
  <2> QED
    BY <1>2, <2>1 DEF UnderIn
<1>3. ASSUME NEW i \in k + 1 .. Len(s),
             Covers(s, i, a), v = s[i].words[a - s[i].at + 1],
             \A j \in k + 1 .. i - 1 : ~Covers(s, j, a)
      PROVE  UnderIn(s, m, a, v)
  <2>1. i \in m + 1 .. Len(s)
    BY <1>1
  <2>2. ASSUME NEW j \in m + 1 .. i - 1 PROVE ~Covers(s, j, a)
    <3>1. j \in m + 1 .. k \/ j \in k + 1 .. i - 1
      BY <1>1
    <3> QED
      BY <1>3, <3>1
  <2> QED
    BY <1>3, <2>1, <2>2 DEF UnderIn
<1> QED
  BY <1>2, <1>3 DEF UnderIn

\* Nor does the removal of one that does not.
LEMMA UnderRemove ==
  ASSUME NEW s \in Seq(Entry), NEW t \in Seq(Entry), NEW i \in 1 .. Len(s), NEW k \in Nat, k < i,
         NEW a, NEW v, Len(t) = Len(s) - 1,
         \A j \in 1 .. i - 1 : t[j] = s[j],
         \A j \in i .. Len(s) - 1 : t[j] = s[j + 1],
         ~Covers(s, i, a), UnderIn(s, k, a, v)
  PROVE  UnderIn(t, k, a, v)
<1>1. Len(s) \in Nat /\ i \in Nat
  OBVIOUS
<1>2. ASSUME NEW j \in k + 1 .. Len(t), Covers(t, j, a)
      PROVE  \/ j < i /\ Covers(s, j, a) /\ t[j] = s[j]
             \/ j >= i /\ Covers(s, j + 1, a) /\ t[j] = s[j + 1]
  <2>1. (j \in 1 .. i - 1 /\ j < i) \/ (j \in i .. Len(s) - 1 /\ j >= i)
    BY <1>1
  <2>2. ASSUME t[j] = s[j] PROVE Covers(s, j, a)
    BY <1>2, <2>2 DEF Covers
  <2>3. ASSUME t[j] = s[j + 1] PROVE Covers(s, j + 1, a)
    BY <1>2, <2>3 DEF Covers
  <2> QED
    BY <2>1, <2>2, <2>3
<1>3. CASE v = Original[a] /\ \A j \in k + 1 .. Len(s) : ~Covers(s, j, a)
  <2>1. ASSUME NEW j \in k + 1 .. Len(t), Covers(t, j, a) PROVE FALSE
    <3>1. j \in k + 1 .. Len(s) /\ j + 1 \in k + 1 .. Len(s)
      BY <1>1
    <3> QED
      BY <1>2, <1>3, <2>1, <3>1
  <2> QED
    BY <1>3, <2>1 DEF UnderIn
<1>4. ASSUME NEW p \in k + 1 .. Len(s),
             Covers(s, p, a), v = s[p].words[a - s[p].at + 1],
             \A j \in k + 1 .. p - 1 : ~Covers(s, j, a)
      PROVE  UnderIn(t, k, a, v)
  <2> DEFINE q == IF p < i THEN p ELSE p - 1
  <2>1. p # i /\ p \in Nat
    BY <1>4
  <2>2. q \in k + 1 .. Len(t) /\ t[q] = s[p]
    <3>1. CASE p < i
      BY <1>1, <2>1, <3>1
    <3>2. CASE p > i
      <4>1. p - 1 \in i .. Len(s) - 1 /\ (p - 1) + 1 = p /\ q = p - 1
        BY <1>1, <2>1, <3>2
      <4> QED
        BY <1>1, <4>1
    <3> QED
      BY <1>1, <2>1, <3>1, <3>2
  <2>3. Covers(t, q, a) /\ v = t[q].words[a - t[q].at + 1]
    BY <1>4, <2>2 DEF Covers
  <2>4. ASSUME NEW j \in k + 1 .. q - 1, Covers(t, j, a) PROVE FALSE
    <3>1. j \in k + 1 .. Len(t) /\ q \in Nat
      BY <1>1, <2>2
    <3>2. /\ j < i => j \in k + 1 .. p - 1
          /\ j >= i => j + 1 \in k + 1 .. p - 1
      BY <1>1, <2>1, <3>1
    <3> QED
      BY <1>2, <1>4, <2>4, <3>1, <3>2
  <2> HIDE DEF q
  <2> QED
    BY <2>2, <2>3, <2>4 DEF UnderIn
<1> QED
  BY <1>3, <1>4 DEF UnderIn

\* UnderIn is the relation of which Under is the function.
LEMMA UnderInIs ==
  ASSUME entries \in Seq(Entry), NEW k \in Nat, NEW a, NEW v, UnderIn(entries, k, a, v)
  PROVE  v = Under(k, a)
<1> DEFINE C == {i \in k + 1 .. Len(entries) : a - entries[i].at + 1 \in DOMAIN entries[i].words}
<1>1. Len(entries) \in Nat
  OBVIOUS
<1>2. \A i \in k + 1 .. Len(entries) : i \in C <=> Covers(entries, i, a)
  <2>1. ASSUME NEW i \in k + 1 .. Len(entries)
        PROVE  DOMAIN entries[i].words = 1 .. Len(entries[i].words)
    <3>1. entries[i] \in Entry
      BY <1>1
    <3> QED
      BY <3>1 DEF Entry
  <2> QED
    BY <2>1 DEF Covers
<1>3. Under(k, a) = IF C = {} THEN Original[a]
                    ELSE entries[Min(C)].words[a - entries[Min(C)].at + 1]
  BY DEF Under
<1>4. C \subseteq k + 1 .. Len(entries) /\ C \subseteq Nat
  BY <1>1
<1> HIDE DEF C
<1>5. CASE v = Original[a] /\ \A i \in k + 1 .. Len(entries) : ~Covers(entries, i, a)
  BY <1>2, <1>3, <1>4, <1>5
<1>6. ASSUME NEW i \in k + 1 .. Len(entries),
             Covers(entries, i, a), v = entries[i].words[a - entries[i].at + 1],
             \A j \in k + 1 .. i - 1 : ~Covers(entries, j, a)
      PROVE  v = Under(k, a)
  <2>1. i \in C /\ C # {}
    BY <1>2, <1>6
  <2>2. Min(C) \in C /\ \A y \in C : Min(C) <= y
    BY <1>4, <2>1, MinIn
  <2> DEFINE m == Min(C)
  <2> HIDE DEF m
  <2>3. m \in k + 1 .. Len(entries) /\ Covers(entries, m, a) /\ m <= i
    BY <1>2, <1>4, <2>1, <2>2 DEF m
  <2>4. m = i
    <3>1. m \notin k + 1 .. i - 1
      BY <1>6, <2>3
    <3> QED
      BY <1>1, <2>3, <3>1
  <2> QED
    BY <1>3, <1>6, <2>1, <2>4 DEF m
<1> QED
  BY <1>5, <1>6 DEF UnderIn

\* Entries that cover one word have one address.
LEMMA SameAt ==
  ASSUME TargetsApart, HInv, NEW i \in 1 .. Len(entries), NEW j \in 1 .. Len(entries), NEW a \in Int,
         Covers(entries, i, a), Covers(entries, j, a)
  PROVE  entries[i].at = entries[j].at
<1>1. ASSUME NEW k \in 1 .. Len(entries), Covers(entries, k, a)
      PROVE  /\ entries[k].fn \in Fns /\ entries[k].at = Target[entries[k].fn]
             /\ entries[k].at \in Int /\ a - entries[k].at \in {0, 1}
  <2>1. entries[k] \in Entry /\ EntryOK(entries[k], Len(chunks))
    BY DEF HInv, HTypes, HRefs
  <2>2. /\ entries[k].fn \in Fns /\ entries[k].at = Target[entries[k].fn]
        /\ entries[k].at \in Int /\ Len(entries[k].words) \in 1 .. 2
    BY <2>1, ConstFacts DEF Entry, EntryOK
  <2> DEFINE x == entries[k].at
             l == Len(entries[k].words)
  <2>3. a - x + 1 \in 1 .. l /\ x \in Int /\ l \in 1 .. 2
    BY <1>1, <2>2 DEF Covers
  <2> HIDE DEF x, l
  <2>4. a - x \in {0, 1}
    BY <2>3
  <2> QED
    BY <2>2, <2>4 DEF x
<1>2. /\ a - entries[i].at \in {0, 1} /\ a - entries[j].at \in {0, 1}
      /\ entries[i].at \in Int /\ entries[j].at \in Int
  BY <1>1
<1>3. \/ entries[i].at = entries[j].at \/ entries[i].at - entries[j].at \in {-1, 1}
  BY <1>2
<1> QED
  BY <1>1, <1>3 DEF TargetsApart

\* A hook is put at the head of the list: what it saves is what is there.
LEMMA DispatchLists ==
  ASSUME HInv, LInv, apiPC = "idle", NEW f \in Fns, NEW kind \in TrampolineKinds,
         Dispatch(f, kind), apiPC' \in {"publish", "protect"}, mem' = mem
  PROVE  LInv'
<1>1. PICK e \in Entry :
        /\ entries' = <<e>> \o entries
        /\ job' = [at |-> e.at, words |-> e.words, next |-> 1, remove |-> FALSE]
        /\ \A i \in 1 .. Len(e.saved) :
             e.saved[i] = mem[e.at + i - 1] /\ e.at + i - 1 \in Words
  BY DispatchIs
<1>2. entries \in Seq(Entry) /\ Len(entries) \in Nat
  BY DEF HInv, HTypes
<1>3. /\ entries' \in Seq(Entry) /\ Len(entries') = Len(entries) + 1 /\ entries'[1] = e
      /\ \A k \in 2 .. Len(entries) + 1 : entries'[k] = entries[k - 1]
  BY <1>1, <1>2, PushIs
<1>4. job'.at = e.at /\ job'.words = e.words /\ job'.next = 1 /\ job'.remove = FALSE
  BY <1>1
<1>5. Busy' /\ ~Busy
  BY DEF Busy
<1>6. \A k \in Nat : \A a, v : UnderIn(entries, k, a, v) => UnderIn(entries', k + 1, a, v)
  <2>1. ASSUME NEW k \in Nat, NEW j \in k + 1 .. Len(entries) PROVE entries'[j + 1] = entries[j]
    <3>1. j + 1 \in 2 .. Len(entries) + 1 /\ (j + 1) - 1 = j
      BY <1>2
    <3> QED
      BY <1>3, <3>1
  <2>2. SUFFICES ASSUME NEW k \in Nat, NEW a, NEW v, UnderIn(entries, k, a, v)
                 PROVE  UnderIn(entries', k + 1, a, v)
    OBVIOUS
  <2>3. 1 \in Int /\ k + 1 \in Nat
    OBVIOUS
  <2> QED
    BY <1>2, <1>3, <2>1, <2>2, <2>3, UnderShift
<1>7. \A a \in Words : UnderIn(entries', 1, a, mem[a])
  <2>1. \A a \in Words : UnderIn(entries, 0, a, mem[a])
    BY <1>5 DEF LInv, MemOK, Written
  <2>2. 0 \in Nat /\ 0 + 1 = 1
    OBVIOUS
  <2> QED
    BY <1>6, <2>1, <2>2
<1>8. SavedOK'
  <2>1. SUFFICES ASSUME NEW i \in 1 .. Len(entries'), NEW k \in 1 .. Len(entries'[i].saved)
                 PROVE  UnderIn(entries', i, entries'[i].at + k - 1, entries'[i].saved[k])
    BY DEF SavedOK
  <2>2. CASE i = 1
    BY <1>1, <1>3, <1>7, <2>2
  <2>3. CASE i # 1
    <3>1. /\ i - 1 \in 1 .. Len(entries) /\ i - 1 \in Nat /\ (i - 1) + 1 = i
          /\ entries'[i] = entries[i - 1]
      BY <1>2, <1>3, <2>3
    <3>2. UnderIn(entries, i - 1, entries[i - 1].at + k - 1, entries[i - 1].saved[k])
      BY <3>1 DEF LInv, SavedOK
    <3> QED
      BY <1>6, <3>1, <3>2
  <2> QED
    BY <2>2, <2>3
<1>9. JobSource'
  BY <1>3, <1>4 DEF JobSource
<1>10. MemOK'
  <2>1. \A a \in Words : ~Written(a)'
    BY <1>4, ConstFacts DEF Written
  <2> QED
    BY <1>4, <1>5, <1>7, <2>1 DEF MemOK
<1> QED
  BY <1>8, <1>9, <1>10 DEF LInv

\* A step that leaves code and list alone.
LEMMA SavedKept ==
  ASSUME LInv, UNCHANGED entries
  PROVE  SavedOK'
BY DEF LInv, SavedOK

\* Steps that change neither code nor list.
LEMMA QuietLists ==
  ASSUME LInv, UNCHANGED <<mem, entries, job>>,
         \/ apiPC' = apiPC
         \/ apiPC' = "crashed"
         \/ apiPC \in {"publish", "protect"} /\ apiPC' \in {"protect", "patch"}
  PROVE  LInv'
<1>1. SavedOK'
  BY SavedKept
<1>2. JobSource'
  <2>1. FindHookEntry(job.at)' = FindHookEntry(job.at)
    BY DEF FindHookEntry, Newest
  <2> QED
    BY <2>1 DEF LInv, JobSource, Busy
<1>3. MemOK'
  <2>1. CASE apiPC' = "crashed"
    BY <2>1 DEF MemOK
  <2>2. CASE apiPC' # "crashed"
    <3>1. Busy' <=> Busy
      BY <2>2 DEF Busy
    <3>2. apiPC # "crashed"
      BY <2>2
    <3>3. \A a : Written(a)' <=> Written(a)
      BY <3>1 DEF Written
    <3>4. \A k, a, v : UnderIn(entries, k, a, v)' <=> UnderIn(entries, k, a, v)
      BY DEF UnderIn, Covers, Original
    <3> QED
      BY <3>1, <3>2, <3>3, <3>4 DEF LInv, MemOK
  <2> QED
    BY <2>1, <2>2
<1> QED
  BY <1>1, <1>2, <1>3 DEF LInv

\* DobbyDestroy: nothing is written yet.
LEMMA DestroyLists ==
  ASSUME LInv, NEW a \in Words, DobbyDestroy(a)
  PROVE  LInv'
<1>1. /\ UNCHANGED <<mem, entries>> /\ apiPC = "idle" /\ apiPC' = "protect"
      /\ job' = [at |-> a, words |-> FindHookEntry(a).saved, next |-> 1, remove |-> TRUE]
  BY DEF DobbyDestroy
<1>2. job'.at = a /\ job'.words = FindHookEntry(a).saved /\ job'.next = 1 /\ job'.remove
  BY <1>1
<1>3. SavedOK'
  BY <1>1, SavedKept
<1>4. JobSource'
  <2>1. FindHookEntry(job.at)' = FindHookEntry(a)
    BY <1>1, <1>2 DEF FindHookEntry, Newest
  <2> QED
    BY <1>2, <2>1 DEF JobSource
<1>5. MemOK'
  <2>1. \A b \in Words : ~Written(b)' /\ ~Written(b)
    BY <1>1, <1>2, ConstFacts DEF Written, Busy
  <2>2. \A b \in Words : UnderIn(entries, 0, b, mem[b])
    BY <1>1, <2>1 DEF LInv, MemOK, Busy
  <2> QED
    BY <1>1, <1>2, <2>1, <2>2 DEF MemOK
<1> QED
  BY <1>3, <1>4, <1>5 DEF LInv

\* One word of memcpy.
LEMMA PatchWordLists ==
  ASSUME HInv, LInv, PatchWord
  PROVE  LInv'
<1>1. /\ mem \in [Words -> WordSet] /\ job \in Job
      /\ job.next \in 1 .. Len(job.words) + 1 /\ Busy
      /\ job.next <= Len(job.words) /\ apiPC = "patch"
  BY DEF HInv, HTypes, HRefs, PatchWord, Busy, JobOK
<1> DEFINE a == job.at + job.next - 1
           w == job.words[job.next]
<1>2. /\ mem' = [mem EXCEPT ![a] = w] /\ job' = [job EXCEPT !.next = @ + 1]
      /\ UNCHANGED <<entries, apiPC>>
  BY DEF PatchWord
<1>3. job.at \in Nat /\ job.next \in Nat /\ job.next >= 1
  BY <1>1, ConstFacts DEF Job
<1>4. /\ job'.at = job.at /\ job'.words = job.words
      /\ job'.next = job.next + 1 /\ job'.remove = job.remove
  BY <1>1, <1>2 DEF Job
<1>5. SavedOK'
  BY <1>2, SavedKept
<1>6. JobSource'
  <2>1. FindHookEntry(job.at)' = FindHookEntry(job.at)
    BY <1>2, <1>4 DEF FindHookEntry, Newest
  <2> QED
    BY <1>1, <1>2, <1>4, <2>1 DEF LInv, JobSource
<1>7. MemOK'
  <2> DEFINE k == IF Busy /\ ~job.remove THEN 1 ELSE 0
  <2>1. ASSUME NEW b \in Words
        PROVE  /\ Written(b)' => mem'[b] = job.words[b - job.at + 1]
               /\ ~Written(b)' => UnderIn(entries, k, b, mem'[b])
    <3>1. mem'[b] = IF b = a THEN w ELSE mem[b]
      BY <1>1, <1>2
    <3>2. Written(b)' <=> b - job.at + 1 \in 1 .. job.next
      BY <1>1, <1>2, <1>3, <1>4 DEF Written, Busy
    <3>3. Written(b) <=> b - job.at + 1 \in 1 .. job.next - 1
      BY <1>1 DEF Written
    <3>4. b = a => b - job.at + 1 = job.next
      BY <1>3
    <3>5. b # a => (b - job.at + 1 \in 1 .. job.next <=> b - job.at + 1 \in 1 .. job.next - 1)
      BY <1>3, ConstFacts
    <3>6. b = a => Written(b)'
      BY <1>3, <3>2, <3>4
    <3>7. /\ Written(b) => mem[b] = job.words[b - job.at + 1]
          /\ ~Written(b) => UnderIn(entries, k, b, mem[b])
      BY <1>1 DEF LInv, MemOK
    <3> QED
      BY <3>1, <3>2, <3>3, <3>4, <3>5, <3>6, <3>7
  <2>2. (IF Busy' /\ ~job'.remove THEN 1 ELSE 0) = k
    BY <1>1, <1>2, <1>4 DEF Busy
  <2> HIDE DEF k
  <2> QED
    BY <1>1, <1>2, <1>4, <2>1, <2>2 DEF MemOK
<1> QED
  BY <1>5, <1>6, <1>7 DEF LInv

\* The patch is complete when its words are written: the code is that of the
\* list with the new entry, or without the one that goes.
LEMMA InstalledLists ==
  ASSUME HInv, LInv, Protect, ~job.remove
  PROVE  LInv'
<1>1. /\ UNCHANGED <<mem, entries>> /\ apiPC = "patch" /\ apiPC' = "idle"
      /\ job.next > Len(job.words) /\ Busy /\ ~Busy'
  BY DEF Protect, Busy
<1>2. /\ entries \in Seq(Entry) /\ entries # <<>> /\ job \in Job
      /\ job.next \in 1 .. Len(job.words) + 1
      /\ job.at = entries[1].at /\ job.words = entries[1].words
  BY <1>1 DEF HInv, HTypes, HRefs, JobOK, LInv, JobSource
<1>3. /\ job.at \in Int /\ Len(job.words) \in Nat /\ job.next = Len(job.words) + 1
      /\ 1 \in 0 .. Len(entries) /\ 0 \in 0 .. 1 /\ 1 \in 1 .. Len(entries)
  BY <1>1, <1>2, ConstFacts DEF Job
<1>4. ASSUME NEW a \in Words PROVE UnderIn(entries, 0, a, mem[a])
  <2>1. Written(a) <=> Covers(entries, 1, a)
    <3>1. Written(a) <=> a - job.at + 1 \in 1 .. Len(job.words)
      BY <1>1, <1>3 DEF Written
    <3> QED
      BY <1>2, <3>1 DEF Covers
  <2>2. CASE Written(a)
    <3>1. mem[a] = entries[1].words[a - entries[1].at + 1] /\ Covers(entries, 1, a)
      BY <1>1, <1>2, <2>1, <2>2 DEF LInv, MemOK
    <3>2. 1 \in 0 + 1 .. Len(entries) /\ \A j \in 0 + 1 .. 1 - 1 : ~Covers(entries, j, a)
      BY <1>3
    <3> QED
      BY <3>1, <3>2 DEF UnderIn
  <2>3. CASE ~Written(a)
    <3>1. UnderIn(entries, 1, a, mem[a])
      BY <1>1, <2>3 DEF LInv, MemOK
    <3>2. \A j \in 0 + 1 .. 1 : ~Covers(entries, j, a)
      BY <2>1, <2>3
    <3> QED
      BY <1>2, <1>3, <3>1, <3>2, UnderSkip
  <2> QED
    BY <2>2, <2>3
<1>5. MemOK'
  BY <1>1, <1>4 DEF MemOK, Written
<1>6. SavedOK' /\ JobSource'
  BY <1>1, SavedKept DEF JobSource
<1> QED
  BY <1>5, <1>6 DEF LInv

\* The same when an entry goes.
LEMMA RemovedLists ==
  ASSUME TargetsApart, HInv, LInv, Protect, job.remove
  PROVE  LInv'
<1> DEFINE i == Newest(job.at)
<1>1. /\ UNCHANGED mem /\ apiPC = "patch" /\ apiPC' = "idle" /\ entries' = RemoveAt(entries, i)
      /\ job.next > Len(job.words) /\ Busy /\ ~Busy'
  BY DEF Protect, Busy, RemoveHookEntry
<1>2. /\ entries \in Seq(Entry) /\ Hooked(job.at) /\ job \in Job
      /\ job.next \in 1 .. Len(job.words) + 1 /\ job.words = entries[i].saved
  BY <1>1 DEF HInv, HTypes, HRefs, JobOK, LInv, JobSource, FindHookEntry
<1>3. /\ i \in 1 .. Len(entries) /\ entries[i].at = job.at
      /\ \A k \in 1 .. i - 1 : entries[k].at # job.at
  BY <1>2, NewestIs
<1> HIDE DEF i
<1>4. /\ entries' \in Seq(Entry) /\ Len(entries') = Len(entries) - 1
      /\ \A k \in 1 .. i - 1 : entries'[k] = entries[k]
      /\ \A k \in i .. Len(entries) - 1 : entries'[k] = entries[k + 1]
  BY <1>1, <1>2, <1>3, RemoveAtIs
<1>5. /\ job.at \in Int /\ Len(job.words) \in Nat /\ job.next = Len(job.words) + 1
      /\ i \in Nat /\ i >= 1 /\ i <= Len(entries) /\ Len(entries) \in Nat
      /\ Len(entries[i].words) = Len(job.words)
  <2>1. EntryOK(entries[i], Len(chunks))
    BY <1>3 DEF HInv, HRefs
  <2>2. Len(entries[i].words) = Len(job.words)
    BY <1>2, <2>1 DEF EntryOK
  <2>3. job.at \in Int /\ Len(job.words) \in Nat
    BY <1>2, ConstFacts DEF Job
  <2>4. job.next = Len(job.words) + 1
    BY <1>1, <1>2, <2>3
  <2>5. i \in Nat /\ i >= 1 /\ i <= Len(entries) /\ Len(entries) \in Nat
    BY <1>2, <1>3
  <2> QED
    BY <2>2, <2>3, <2>4, <2>5
<1>6. ASSUME NEW a \in Int, Covers(entries, i, a), NEW k \in 1 .. i - 1
      PROVE  ~Covers(entries, k, a)
  <2>1. k \in 1 .. Len(entries)
    BY <1>5
  <2> QED
    BY <1>3, <1>6, <2>1, SameAt
\* Below the entry that goes, the list only moves up.
<1>7. ASSUME NEW k \in i .. Len(entries), NEW a, NEW v, UnderIn(entries, k, a, v)
      PROVE  UnderIn(entries', k - 1, a, v)
  <2>1. k \in Nat /\ k + (-1) = k - 1 /\ k + (-1) \in Nat /\ -1 \in Int
        /\ Len(entries') = Len(entries) + (-1)
    BY <1>4, <1>5
  <2>2. ASSUME NEW j \in k + 1 .. Len(entries) PROVE entries'[j + (-1)] = entries[j]
    <3>1. j - 1 \in i .. Len(entries) - 1 /\ (j - 1) + 1 = j /\ j + (-1) = j - 1
      BY <1>5
    <3> QED
      BY <1>4, <3>1
  <2>3. UnderIn(entries', k + (-1), a, v)
    BY <1>2, <1>4, <1>7, <2>1, <2>2, UnderShift
  <2> QED
    BY <2>1, <2>3
<1>8. ASSUME NEW a \in Words PROVE UnderIn(entries', 0, a, mem[a])
  <2>0. a \in Int
    BY ConstFacts
  <2>1. Written(a) <=> Covers(entries, i, a)
    <3>1. Written(a) <=> a - job.at + 1 \in 1 .. Len(job.words)
      BY <1>1, <1>5 DEF Written
    <3> QED
      BY <1>3, <1>5, <3>1 DEF Covers
  <2>2. CASE Written(a)
    <3> DEFINE k == a - job.at + 1
    <3>1. mem[a] = entries[i].saved[k] /\ Covers(entries, i, a) /\ k \in 1 .. Len(entries[i].saved)
      BY <1>1, <1>2, <1>5, <2>1, <2>2 DEF LInv, MemOK, Written
    <3>2. entries[i].at + k - 1 = a
      BY <1>3, <1>5, <2>0
    <3>3. UnderIn(entries, i, a, mem[a])
      BY <1>3, <3>1, <3>2 DEF LInv, SavedOK
    <3>4. UnderIn(entries', i - 1, a, mem[a])
      BY <1>5, <1>7, <3>3
    <3>5. ASSUME NEW j \in 0 + 1 .. i - 1 PROVE ~Covers(entries', j, a)
      <4>1. j \in 1 .. i - 1
        OBVIOUS
      <4>2. ~Covers(entries, j, a) /\ entries'[j] = entries[j]
        BY <1>4, <1>6, <2>0, <3>1, <4>1
      <4> QED
        BY <4>2 DEF Covers
    <3>6. i - 1 \in 0 .. Len(entries') /\ 0 \in 0 .. i - 1
      BY <1>4, <1>5
    <3> QED
      BY <1>4, <3>4, <3>5, <3>6, UnderSkip
  <2>3. CASE ~Written(a)
    <3>1. UnderIn(entries, 0, a, mem[a]) /\ ~Covers(entries, i, a)
      BY <1>1, <2>1, <2>3 DEF LInv, MemOK
    <3>2. 0 \in Nat /\ 0 < i
      BY <1>5
    <3> QED
      BY <1>2, <1>3, <1>4, <3>1, <3>2, UnderRemove
  <2> QED
    BY <2>2, <2>3
<1>9. MemOK'
  BY <1>1, <1>8 DEF MemOK, Written
<1>10. SavedOK'
  <2>1. SUFFICES ASSUME NEW j \in 1 .. Len(entries'), NEW k \in 1 .. Len(entries'[j].saved)
                 PROVE  UnderIn(entries', j, entries'[j].at + k - 1, entries'[j].saved[k])
    BY DEF SavedOK
  <2>2. CASE j < i
    <3>1. j \in 1 .. i - 1 /\ j \in 1 .. Len(entries) /\ j \in Nat
      BY <1>4, <1>5, <2>2
    <3> DEFINE e == entries[j]
               a == e.at + k - 1
    <3>2. entries'[j] = e /\ k \in 1 .. Len(e.saved) /\ e \in Entry /\ EntryOK(e, Len(chunks))
      BY <1>2, <1>4, <3>1 DEF HInv, HRefs
    <3>3. a \in Int /\ a - e.at + 1 = k /\ Len(e.saved) = Len(e.words)
      BY <3>2, ConstFacts DEF Entry, EntryOK
    <3>4. Covers(entries, j, a)
      BY <3>2, <3>3 DEF Covers
    <3>5. ~Covers(entries, i, a)
      BY <1>6, <3>1, <3>3, <3>4
    <3>6. UnderIn(entries, j, a, e.saved[k])
      BY <3>1, <3>2 DEF LInv, SavedOK
    <3>7. UnderIn(entries', j, a, e.saved[k])
      BY <1>2, <1>3, <1>4, <2>2, <3>1, <3>5, <3>6, UnderRemove
    <3> QED
      BY <3>2, <3>7
  <2>3. CASE j >= i
    <3>1. /\ j \in i .. Len(entries) - 1 /\ j + 1 \in i .. Len(entries) /\ (j + 1) - 1 = j
          /\ j + 1 \in 1 .. Len(entries)
      BY <1>4, <1>5, <2>3
    <3>2. entries'[j] = entries[j + 1]
      BY <1>4, <3>1
    <3>3. UnderIn(entries, j + 1, entries[j + 1].at + k - 1, entries[j + 1].saved[k])
      BY <3>1, <3>2 DEF LInv, SavedOK
    <3> QED
      BY <1>7, <3>1, <3>2, <3>3
  <2> QED
    BY <1>4, <1>5, <2>2, <2>3
<1>11. JobSource'
  BY <1>1 DEF JobSource
<1> QED
  BY <1>9, <1>10, <1>11 DEF LInv

\* Every step keeps the saved words and the code in step with the list.
LEMMA LInvStep ==
  ASSUME TargetsApart, HInv, LInv, [Next]_vars
  PROVE  LInv'
<1>1. ASSUME NEW f \in Replacements, DobbyHook(f) PROVE LInv'
  BY <1>1, DispatchLists, ConstFacts DEF DobbyHook, MayStart, Replacements
<1>2. ASSUME NEW h \in Handlers, DobbyInstrument(h) PROVE LInv'
  BY <1>2, DispatchLists, ConstFacts DEF DobbyInstrument, MayStart
<1>3. ASSUME NEW a \in Words, DobbyDestroy(a) PROVE LInv'
  BY <1>3, DestroyLists
<1>4. ASSUME \/ \E f \in Fns : RelocationFails(f)
             \/ TogglePlugin \/ PublishOrigin \/ Unprotect \/ PatchFaults
             \/ Call \/ Run \/ Dead \/ UNCHANGED vars
      PROVE  LInv'
  <2>1. /\ UNCHANGED <<mem, entries, job>>
        /\ \/ apiPC' = apiPC
           \/ apiPC' = "crashed"
           \/ apiPC \in {"publish", "protect"} /\ apiPC' \in {"protect", "patch"}
    BY <1>4 DEF RelocationFails, TogglePlugin, PublishOrigin, Unprotect, PatchFaults,
       Call, Run, RunCode, RunChunk, BranchToRest, RunHook, Dead, vars, apiVars
  <2> QED
    BY <2>1, QuietLists
<1>5. ASSUME PatchWord PROVE LInv'
  BY <1>5, PatchWordLists
<1>6. ASSUME Protect PROVE LInv'
  BY <1>6, InstalledLists, RemovedLists
<1> QED
  BY <1>1, <1>2, <1>3, <1>4, <1>5, <1>6 DEF Next, Install, Patch

\* The initial state.
LEMMA LInit ==
  ASSUME Init
  PROVE  LInv
<1>1. entries = <<>> /\ Len(entries) = 0 /\ ~Busy /\ mem = Original
  BY DEF Init, Busy
<1>2. SavedOK /\ JobSource
  BY <1>1 DEF SavedOK, JobSource
<1>3. MemOK
  BY <1>1 DEF MemOK, Written, UnderIn
<1> QED
  BY <1>2, <1>3 DEF LInv

\* DobbyDestroy writes back "the origin code" of the entry it unlinks
\* (dobby.cpp:30): with hooks at least a trampoline apart, whatever hooks were
\* stacked, destroyed and installed again, between two calls of the API the code
\* is the original with the entries of the list applied to it, oldest first.
THEOREM HookCodeMatches ==
  ASSUME TargetsApart
  PROVE  Safety => []CodeMatchesEntries
<1>1. ASSUME HInv, LInv, [Next]_vars PROVE LInv'
  BY <1>1, LInvStep
<1>2. ASSUME HInv, LInv PROVE CodeMatchesEntries
  <2>1. ASSUME apiPC = "idle", NEW a \in Words PROVE mem[a] = Under(0, a)
    <3>1. ~Busy /\ entries \in Seq(Entry)
      BY <1>2, <2>1 DEF Busy, HInv, HTypes
    <3>2. UnderIn(entries, 0, a, mem[a])
      BY <1>2, <2>1, <3>1 DEF LInv, MemOK, Written
    <3> QED
      BY <3>1, <3>2, UnderInIs
  <2> QED
    BY <2>1 DEF CodeMatchesEntries
<1> QED
  BY <1>1, <1>2, HAlways, LInit, PTL DEF Safety
=============================================================================
