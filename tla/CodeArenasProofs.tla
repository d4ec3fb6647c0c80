-------------------------- MODULE CodeArenasProofs --------------------------
(***************************************************************************)
(* Proofs about CodeArenas for every page size, address space, memory      *)
(* image and contents, and every set of requests whose sizes fit a page.   *)
(*                                                                         *)
(* ChunksDisjoint is not inductive: that a new chunk is apart from the old *)
(* ones follows from what the cursors say about the pages, which is Ledger.*)
(* The two arenas have the same part in it, so the lemmas speak of the     *)
(* list a chunk is cut from and of the other list.                         *)
(***************************************************************************)
EXTENDS CodeArenas, TLAPS, WellFoundedInduction, FiniteSetTheorems

\* The pages of a list are anonymous memory.  One that was free when it was
\* mapped is recorded once, and no chunk cut from it reaches beyond its cursor.
Sound(sp, over, pcs, cs) ==
  /\ \A i \in DOMAIN pcs : sp[pcs[i].page] \in Permissions
  /\ \A i, j \in DOMAIN pcs : i # j /\ pcs[i].page \notin over => pcs[i].page # pcs[j].page
  /\ \A k \in DOMAIN cs, i \in DOMAIN pcs :
       ~cs[k].blank /\ cs[k].page = pcs[i].page /\ pcs[i].page \notin over
         => cs[k].offset + cs[k].length <= pcs[i].cursor

\* The lists share no such page, and the chunks cut from them are in mapped
\* memory and apart.
Ledger(sp, over, pcs, ncs, cs) ==
  /\ Sound(sp, over, pcs, cs) /\ Sound(sp, over, ncs, cs)
  /\ \A i \in DOMAIN pcs, j \in DOMAIN ncs :
       pcs[i].page \notin over => pcs[i].page # ncs[j].page
  /\ \A k \in DOMAIN cs : ~cs[k].blank => sp[cs[k].page] # Free
  /\ \A i, j \in DOMAIN cs :
       i # j /\ ~cs[i].blank /\ ~cs[j].blank /\ cs[i].page \notin over => Apart(cs[i], cs[j])

IInv ==
  /\ ArenaTypeOK /\ ChunksMapped
  /\ Ledger(space, trespassed, page_chunks, near_chunks, chunks)

-----------------------------------------------------------------------------
(* Lists.                                                                  *)

LEMMA SizeFacts ==
  ASSUME SizesFit
  PROVE  /\ PageSize \in Nat \ {0} /\ AllocRange \in Nat \ {0} /\ PageSize < AllocRange
         /\ \A size \in Sizes : size \in Nat /\ 1 <= size /\ size <= PageSize
         /\ \A size \in NearSizes : size \in Nat /\ 1 <= size /\ size < PageSize
<1>1. PageSize \in Nat \ {0} /\ AllocRange \in Nat \ {0}
  BY ArenaAssumption
<1>2. Sizes \subseteq 1 .. PageSize /\ NearSizes \subseteq 1 .. PageSize - 1
      /\ PageSize < AllocRange
  BY DEF SizesFit
<1> QED
  BY <1>1, <1>2

LEMMA AnySize == PageSize \in Nat /\ \A size \in Sizes \cup NearSizes : size \in Nat
BY ArenaAssumption

\* page_cursor += alloc_size keeps the type and the pages of the list.
LEMMA AdvanceFacts ==
  ASSUME NEW pcs \in Seq(PageChunkType), NEW i \in DOMAIN pcs, NEW size \in Nat,
         pcs[i].cursor + size < PageSize
  PROVE  /\ Advance(pcs, i, size) \in Seq(PageChunkType)
         /\ DOMAIN Advance(pcs, i, size) = DOMAIN pcs
         /\ \A j \in DOMAIN pcs : Advance(pcs, i, size)[j].page = pcs[j].page
         /\ \A j \in DOMAIN pcs : j # i => Advance(pcs, i, size)[j] = pcs[j]
         /\ Advance(pcs, i, size)[i].cursor = pcs[i].cursor + size
<1> DEFINE new == Advance(pcs, i, size)
           e == [pcs[i] EXCEPT !.cursor = @ + size]
<1>1. pcs[i] \in PageChunkType /\ PageSize \in Nat
  BY ArenaAssumption
<1>2. e \in PageChunkType /\ e.page = pcs[i].page /\ e.cursor = pcs[i].cursor + size
  <2> DEFINE c == pcs[i].cursor + size
  <2>1. pcs[i].cursor \in 0 .. PageSize
    BY <1>1 DEF PageChunkType
  <2>2. c \in 0 .. PageSize
    BY <1>1, <2>1
  <2>3. e = [pcs[i] EXCEPT !.cursor = c]
    OBVIOUS
  <2> HIDE DEF c, e
  <2>4. e \in PageChunkType /\ e.page = pcs[i].page /\ e.cursor = c
    BY <1>1, <2>2, <2>3 DEF PageChunkType
  <2> QED
    BY <2>4 DEF c
<1>3. new = [pcs EXCEPT ![i] = e]
  BY DEF Advance
<1>4. /\ DOMAIN new = DOMAIN pcs /\ Len(new) = Len(pcs)
      /\ \A j \in DOMAIN pcs : new[j] = IF j = i THEN e ELSE pcs[j]
      /\ new \in Seq(PageChunkType)
  BY <1>2, <1>3
<1> QED
  BY <1>2, <1>4

\* pushObject lengthens a list by one element.
LEMMA AppendFacts ==
  ASSUME NEW S, NEW s \in Seq(S), NEW e \in S
  PROVE  /\ Append(s, e) \in Seq(S)
         /\ DOMAIN Append(s, e) = DOMAIN s \cup {Len(s) + 1}
         /\ Len(s) + 1 \notin DOMAIN s
         /\ \A i \in DOMAIN s : Append(s, e)[i] = s[i]
         /\ Append(s, e)[Len(s) + 1] = e
OBVIOUS

LEMMA PageChunkFacts ==
  ASSUME NEW p \in Pages, NEW cursor \in 0 .. PageSize, NEW permission \in Permissions
  PROVE  LET e == PageChunk(p, cursor, permission)
         IN  /\ e \in PageChunkType /\ e.page = p /\ e.cursor = cursor
             /\ e.permission = permission
BY DEF PageChunk, PageChunkType

\* The fields of the elements of a list.
LEMMA PageChunkFields ==
  ASSUME NEW pcs \in Seq(PageChunkType), NEW i \in DOMAIN pcs
  PROVE  /\ pcs[i] \in PageChunkType /\ pcs[i].page \in Pages
         /\ pcs[i].cursor \in Nat /\ pcs[i].cursor <= PageSize
<1>1. pcs[i] \in PageChunkType
  OBVIOUS
<1> QED
  BY <1>1, ArenaAssumption DEF PageChunkType

LEMMA ChunkFields ==
  ASSUME NEW cs \in Seq(ChunkType), NEW k \in DOMAIN cs
  PROVE  /\ cs[k].page \in Pages /\ cs[k].offset \in Nat /\ cs[k].length \in Nat
         /\ cs[k].blank \in BOOLEAN
<1>1. cs[k] \in ChunkType
  OBVIOUS
<1>2. /\ cs[k].page \in Pages /\ cs[k].offset \in Nat /\ cs[k].length \in Sizes \cup NearSizes
      /\ cs[k].blank \in BOOLEAN
  BY <1>1 DEF ChunkType
<1> QED
  BY <1>2, ArenaAssumption

\* Addresses are numbers, and so are those of bytes that are written.
LEMMA AddressFacts ==
  ASSUME NEW p \in Nat, NEW offset \in Nat
  PROVE  Address(p, offset) \in Nat
BY ArenaAssumption DEF Address

LEMMA WrittenFacts ==
  ASSUME NEW z, z \subseteq Nat, NEW a \in Nat, NEW n \in Int, NEW w \in Written(z, a, n)
  PROVE  w \subseteq Nat
<1>1. PICK kept \in {{}, {a, a + n - 1} \cap Bytes(a, n)} : w = (z \ Bytes(a, n)) \cup kept
  BY DEF Written
<1>2. Bytes(a, n) \subseteq Nat
  BY DEF Bytes
<1> QED
  BY <1>1, <1>2

LEMMA MappedFacts ==
  ASSUME zero \subseteq Nat, NEW p \in Nat
  PROVE  Mapped(p) \subseteq Nat
<1>1. PageSize \in Nat /\ Address(p, 0) \in Nat
  BY ArenaAssumption, AddressFacts
<1>2. Bytes(Address(p, 0), PageSize) \subseteq Nat
  BY <1>1 DEF Bytes
<1> QED
  BY <1>2 DEF Mapped

-----------------------------------------------------------------------------
(* What the operations do to the ledger.                                   *)

\* The ledger does not tell the arenas apart.
LEMMA LedgerSymmetric ==
  ASSUME NEW sp, NEW over, NEW pcs, NEW ncs, NEW cs, Ledger(sp, over, pcs, ncs, cs)
  PROVE  Ledger(sp, over, ncs, pcs, cs)
BY DEF Ledger

\* A chunk cut at the cursor of a page with room, by either AllocateChunk.
LEMMA CutKeepsLedger ==
  ASSUME NEW sp, NEW over, NEW pcs \in Seq(PageChunkType), NEW ncs \in Seq(PageChunkType),
         NEW cs \in Seq(ChunkType), NEW i \in DOMAIN pcs, NEW size \in Sizes \cup NearSizes,
         NEW site \in Sites \cup {None},
         pcs[i].cursor + size < PageSize, Ledger(sp, over, pcs, ncs, cs)
  PROVE  Ledger(sp, over, Advance(pcs, i, size), ncs,
                Append(cs, Chunk(pcs[i].page, pcs[i].cursor, size, site, FALSE)))
<1> DEFINE c == Chunk(pcs[i].page, pcs[i].cursor, size, site, FALSE)
           new == Advance(pcs, i, size)
           csn == Append(cs, c)
<1>1. pcs[i] \in PageChunkType /\ pcs[i].page \in Pages /\ pcs[i].cursor \in Nat
  BY PageChunkFields
<1>2. /\ c \in ChunkType /\ c.page = pcs[i].page /\ c.offset = pcs[i].cursor
      /\ c.length = size /\ ~c.blank
  BY <1>1 DEF Chunk, ChunkType
<1>0. size \in Nat
  BY ArenaAssumption
<1>3. /\ new \in Seq(PageChunkType) /\ DOMAIN new = DOMAIN pcs
      /\ \A j \in DOMAIN pcs : new[j].page = pcs[j].page
      /\ \A j \in DOMAIN pcs : j # i => new[j] = pcs[j]
      /\ new[i].cursor = pcs[i].cursor + size
  BY <1>0, AdvanceFacts
<1> HIDE DEF c, new
<1>4. /\ DOMAIN csn = DOMAIN cs \cup {Len(cs) + 1} /\ Len(cs) + 1 \notin DOMAIN cs
      /\ \A k \in DOMAIN cs : csn[k] = cs[k]
      /\ csn[Len(cs) + 1] = c
  BY <1>2, AppendFacts
<1> HIDE DEF csn
<1>5. \A k \in DOMAIN cs : cs[k].offset \in Nat /\ cs[k].length \in Nat
  BY ChunkFields
<1>6. \A j \in DOMAIN pcs : pcs[j].cursor \in Nat
  BY PageChunkFields
<1>7. Sound(sp, over, new, csn)
  <2>1. \A j \in DOMAIN new : sp[new[j].page] \in Permissions
    BY <1>3 DEF Ledger, Sound
  <2>2. \A j, k \in DOMAIN new : j # k /\ new[j].page \notin over => new[j].page # new[k].page
    BY <1>3 DEF Ledger, Sound
  <2>3. ASSUME NEW k \in DOMAIN csn, NEW j \in DOMAIN new, ~csn[k].blank,
               csn[k].page = new[j].page, new[j].page \notin over
        PROVE  csn[k].offset + csn[k].length <= new[j].cursor
    <3>1. CASE k = Len(cs) + 1
      <4>1. j = i
        BY <1>2, <1>3, <1>4, <2>3, <3>1 DEF Ledger, Sound
      <4> QED
        BY <1>0, <1>1, <1>2, <1>3, <1>4, <3>1, <4>1
    <3>2. CASE k # Len(cs) + 1
      <4>1. k \in DOMAIN cs /\ csn[k] = cs[k]
        BY <1>4, <3>2
      <4>2. cs[k].offset + cs[k].length <= pcs[j].cursor
        BY <1>3, <2>3, <4>1 DEF Ledger, Sound
      <4>3. CASE j = i
        BY <1>0, <1>1, <1>2, <1>3, <1>5, <4>1, <4>2, <4>3
      <4>4. CASE j # i
        BY <1>3, <4>1, <4>2, <4>4
      <4> QED
        BY <4>3, <4>4
    <3> QED
      BY <3>1, <3>2
  <2> QED
    BY <2>1, <2>2, <2>3 DEF Sound
<1>8. Sound(sp, over, ncs, csn)
  <2>1. \A j \in DOMAIN ncs : ncs[j].page = c.page => ncs[j].page \in over
    BY <1>2 DEF Ledger
  <2> QED
    BY <1>4, <2>1 DEF Ledger, Sound
<1>9. \A k \in DOMAIN cs : ~cs[k].blank /\ c.page \notin over => Apart(cs[k], c) /\ Apart(c, cs[k])
  BY <1>1, <1>2, <1>5 DEF Apart, Ledger, Sound
<1>10. \A k, l \in DOMAIN csn : k # l /\ ~csn[k].blank /\ ~csn[l].blank /\ csn[k].page \notin over
         => Apart(csn[k], csn[l])
  <2> SUFFICES ASSUME NEW k \in DOMAIN csn, NEW l \in DOMAIN csn, k # l, ~csn[k].blank,
                      ~csn[l].blank, csn[k].page \notin over
               PROVE  Apart(csn[k], csn[l])
    OBVIOUS
  <2>1. CASE k = Len(cs) + 1
    BY <1>4, <1>9, <2>1
  <2>2. CASE l = Len(cs) + 1
    <3>1. k \in DOMAIN cs /\ csn[k] = cs[k] /\ csn[l] = c
      BY <1>4, <2>2
    <3>2. CASE c.page = cs[k].page
      BY <1>9, <3>1, <3>2
    <3>3. CASE c.page # cs[k].page
      BY <3>1, <3>3 DEF Apart
    <3> QED
      BY <3>2, <3>3
  <2>3. CASE k \in DOMAIN cs /\ l \in DOMAIN cs
    BY <1>4, <2>3 DEF Ledger
  <2> QED
    BY <1>4, <2>1, <2>2, <2>3
<1>11. \A k \in DOMAIN csn : ~csn[k].blank => sp[csn[k].page] # Free
  BY <1>2, <1>4, ArenaAssumption DEF Ledger, Sound
<1>12. \A k \in DOMAIN new, j \in DOMAIN ncs :
         new[k].page \notin over => new[k].page # ncs[j].page
  BY <1>3 DEF Ledger
<1> QED
  BY <1>7, <1>8, <1>10, <1>11, <1>12 DEF Ledger, c, new, csn

\* A page mapped where nothing was, with its cursor at any place.
LEMMA MapKeepsLedger ==
  ASSUME NEW sp \in [Pages -> Files \cup Permissions \cup {Free}], NEW over,
         NEW pcs \in Seq(PageChunkType), NEW ncs \in Seq(PageChunkType),
         NEW cs \in Seq(ChunkType), NEW p \in Pages, sp[p] = Free \/ p \in over,
         NEW permission \in Permissions, NEW cursor \in 0 .. PageSize,
         Ledger(sp, over, pcs, ncs, cs)
  PROVE  Ledger([sp EXCEPT ![p] = permission], over,
                Append(pcs, PageChunk(p, cursor, permission)), ncs, cs)
<1> DEFINE e == PageChunk(p, cursor, permission)
           new == Append(pcs, e)
           spn == [sp EXCEPT ![p] = permission]
<1>1. e \in PageChunkType /\ e.page = p
  BY PageChunkFacts
<1>2. /\ DOMAIN new = DOMAIN pcs \cup {Len(pcs) + 1} /\ Len(pcs) + 1 \notin DOMAIN pcs
      /\ \A j \in DOMAIN pcs : new[j] = pcs[j]
      /\ new[Len(pcs) + 1] = e
  BY <1>1, AppendFacts
<1>3. /\ spn[p] = permission
      /\ \A q \in Pages : q # p => spn[q] = sp[q]
      /\ Free \notin Permissions
  BY ArenaAssumption
<1> HIDE DEF e, new, spn
<1>4. /\ \A j \in DOMAIN pcs : pcs[j].page \in Pages
      /\ \A j \in DOMAIN ncs : ncs[j].page \in Pages
      /\ \A k \in DOMAIN cs : cs[k].page \in Pages
  BY PageChunkFields, ChunkFields
<1>5. p \notin over => /\ \A j \in DOMAIN pcs : pcs[j].page # p
                       /\ \A j \in DOMAIN ncs : ncs[j].page # p
                       /\ \A k \in DOMAIN cs : ~cs[k].blank => cs[k].page # p
  BY <1>3 DEF Ledger, Sound
<1>6. Sound(spn, over, new, cs)
  <2>1. \A j \in DOMAIN new : spn[new[j].page] \in Permissions
    BY <1>1, <1>2, <1>3, <1>4 DEF Ledger, Sound
  <2>2. \A j, k \in DOMAIN new : j # k /\ new[j].page \notin over => new[j].page # new[k].page
    BY <1>1, <1>2, <1>5 DEF Ledger, Sound
  <2>3. \A k \in DOMAIN cs, j \in DOMAIN new :
          ~cs[k].blank /\ cs[k].page = new[j].page /\ new[j].page \notin over
            => cs[k].offset + cs[k].length <= new[j].cursor
    BY <1>1, <1>2, <1>5 DEF Ledger, Sound
  <2> QED
    BY <2>1, <2>2, <2>3 DEF Sound
<1>7. Sound(spn, over, ncs, cs)
  <2>1. \A j \in DOMAIN ncs : spn[ncs[j].page] \in Permissions
    BY <1>3, <1>4 DEF Ledger, Sound
  <2> QED
    BY <2>1 DEF Ledger, Sound
<1>8. /\ \A j \in DOMAIN new, k \in DOMAIN ncs :
           new[j].page \notin over => new[j].page # ncs[k].page
      /\ \A k \in DOMAIN cs : ~cs[k].blank => spn[cs[k].page] # Free
  BY <1>1, <1>2, <1>3, <1>4, <1>5 DEF Ledger
<1> QED
  BY <1>6, <1>7, <1>8 DEF Ledger, e, new, spn

\* More pages mapped over.
LEMMA TrespassKeepsLedger ==
  ASSUME NEW sp, NEW over, NEW more, over \subseteq more,
         NEW pcs, NEW ncs, NEW cs, Ledger(sp, over, pcs, ncs, cs)
  PROVE  Ledger(sp, more, pcs, ncs, cs)
<1>1. \A p : p \notin more => p \notin over
  OBVIOUS
<1>2. Sound(sp, more, pcs, cs) /\ Sound(sp, more, ncs, cs)
  BY <1>1 DEF Ledger, Sound
<1> QED
  BY <1>1, <1>2 DEF Ledger

\* Blank bytes: the ledger knows nothing of them.
LEMMA BlankKeepsLedger ==
  ASSUME NEW sp, NEW over, NEW pcs \in Seq(PageChunkType), NEW ncs \in Seq(PageChunkType),
         NEW cs \in Seq(ChunkType), NEW c \in ChunkType, c.blank,
         Ledger(sp, over, pcs, ncs, cs)
  PROVE  Ledger(sp, over, pcs, ncs, Append(cs, c))
<1> DEFINE csn == Append(cs, c)
<1>1. /\ DOMAIN csn = DOMAIN cs \cup {Len(cs) + 1} /\ Len(cs) + 1 \notin DOMAIN cs
      /\ \A k \in DOMAIN cs : csn[k] = cs[k]
      /\ csn[Len(cs) + 1] = c
  BY AppendFacts
<1> HIDE DEF csn
<1>2. \A k \in DOMAIN csn : ~csn[k].blank => k \in DOMAIN cs /\ csn[k] = cs[k]
  BY <1>1
<1>3. Sound(sp, over, pcs, csn) /\ Sound(sp, over, ncs, csn)
  BY <1>2 DEF Ledger, Sound
<1>4. \A k, l \in DOMAIN csn : k # l /\ ~csn[k].blank /\ ~csn[l].blank /\ csn[k].page \notin over
        => Apart(csn[k], csn[l])
  BY <1>2 DEF Ledger
<1> QED
  BY <1>2, <1>3, <1>4 DEF Ledger, csn

-----------------------------------------------------------------------------
(* Numbers and regions.                                                    *)

\* A nonempty set of numbers has a least element.
LEMMA LeastNumber ==
  ASSUME NEW S, S \subseteq Nat, S # {}
  PROVE  \E x \in S : \A y \in S : x <= y
<1> DEFINE R == {ss \in Nat \X Nat : ss[1] < ss[2]}
<1>1. IsWellFoundedOn(R, Nat)
  BY NatLessThanWellFounded DEF OpToRel
<1> HIDE DEF R
<1>2. PICK x \in S : \A y \in S : ~(<<y, x>> \in R)
  BY <1>1, WFMin
<1>3. ASSUME NEW y \in S PROVE x <= y
  <2>1. x \in Nat /\ y \in Nat /\ <<y, x>> \in Nat \X Nat
    OBVIOUS
  <2>2. y < x => <<y, x>> \in R
    BY <2>1 DEF R
  <2> QED
    BY <1>2, <2>1, <2>2
<1> QED
  BY <1>3

\* What \div means, and multiples of the page size are ordered.
LEMMA Quotient ==
  ASSUME NEW a \in Nat, NEW n \in Nat \ {0}
  PROVE  a \div n \in Nat /\ (a \div n) * n <= a /\ a < (a \div n + 1) * n
OBVIOUS

LEMMA Multiples ==
  ASSUME NEW a \in Int, NEW b \in Int, NEW n \in Nat, a <= b
  PROVE  a * n <= b * n
OBVIOUS

LEMMA NextMultiple ==
  ASSUME NEW a \in Int, NEW n \in Nat
  PROVE  (a + 1) * n = a * n + n /\ a * n \in Int
OBVIOUS

\* The run of pages that begins at a page ends behind it.
LEMMA RunEndFacts ==
  ASSUME NEW p \in Pages
  PROVE  /\ RunEnd(p) \in Nat /\ p < RunEnd(p) /\ RunEnd(p) <= NumPages
         /\ \A q \in p .. RunEnd(p) - 1 : space[q] = space[p]
<1> DEFINE T == {e \in p + 1 .. NumPages : e = NumPages \/ space[e] # space[p]}
<1>1. NumPages \in Nat /\ p \in Nat /\ p < NumPages
  BY ArenaAssumption DEF Pages
<1>2. T \subseteq Nat /\ NumPages \in T
  BY <1>1
<1>3. PICK e \in T : \A y \in T : e <= y
  <2> HIDE DEF T
  <2> QED
    BY <1>2, LeastNumber
<1>4. \A q \in p .. e - 1 : space[q] = space[p]
  <2> SUFFICES ASSUME NEW q \in p .. e - 1, q # p PROVE space[q] = space[p]
    OBVIOUS
  <2>1. q \in p + 1 .. NumPages /\ ~(e <= q)
    BY <1>1, <1>3
  <2> QED
    BY <1>3, <2>1
<1>5. \E x \in p + 1 .. NumPages : /\ \A q \in p .. x - 1 : space[q] = space[p]
                                   /\ x = NumPages \/ space[x] # space[p]
  BY <1>3, <1>4
<1>6. RunEnd(p) \in p + 1 .. NumPages /\ \A q \in p .. RunEnd(p) - 1 : space[q] = space[p]
  BY <1>5 DEF RunEnd
<1> QED
  BY <1>1, <1>6

\* A region is a run of mapped pages.
LEMMA RegionFacts ==
  ASSUME NEW r \in Regions
  PROVE  /\ r.start \in Pages /\ r.start \in Nat /\ r.end \in Nat /\ r.start < r.end
         /\ r.end <= NumPages
         /\ \A q \in r.start .. r.end - 1 : q \in Pages /\ space[q] # Free
<1>1. PICK p \in Pages : space[p] # Free /\ r = [start |-> p, end |-> RunEnd(p)]
  BY DEF Regions
<1>2. r.start = p /\ r.end = RunEnd(p) /\ p \in Nat /\ NumPages \in Nat
  BY <1>1, ArenaAssumption DEF Pages
<1>3. /\ RunEnd(p) \in Nat /\ p < RunEnd(p) /\ RunEnd(p) <= NumPages
      /\ \A q \in p .. RunEnd(p) - 1 : space[q] = space[p]
  BY RunEndFacts
<1>4. \A q \in p .. RunEnd(p) - 1 : q \in Pages
  BY <1>2, <1>3 DEF Pages
<1> QED
  BY <1>1, <1>2, <1>3, <1>4

\* The window of the search, in pages and in bytes.
LEMMA WindowFacts ==
  ASSUME SizesFit, NEW site \in Nat
  PROVE  /\ MinPage(site) \in Nat /\ MaxPage(site) \in Nat
         /\ site - AllocRange < MinPage(site) * PageSize
         /\ MinPage(site) * PageSize < site + AllocRange
         /\ MaxPage(site) > 0 => MaxPage(site) * PageSize + PageSize <= site + AllocRange
         /\ 1 <= MinPage(site)
<1> DEFINE low == IF site > AllocRange THEN site - AllocRange ELSE 0
           lo == low \div PageSize
           high == site + AllocRange
           m == high \div PageSize
<1>1. PageSize \in Nat \ {0} /\ AllocRange \in Nat \ {0} /\ PageSize < AllocRange
  BY SizeFacts
<1>2. /\ low \in Nat /\ site - AllocRange <= low /\ high \in Nat
      /\ low + PageSize < high
  BY <1>1
<1>3. MinPage(site) = lo + 1 /\ MaxPage(site) = IF m = 0 THEN 0 ELSE m - 1
  BY DEF MinPage, MaxPage, NextPage
<1> HIDE DEF low
<1>4. lo \in Nat /\ low < (lo + 1) * PageSize /\ lo * PageSize <= low
  BY <1>1, <1>2, Quotient
<1>5. m \in Nat /\ m * PageSize <= high
  BY <1>1, <1>2, Quotient
<1> HIDE DEF lo, m, high
<1>6. (lo + 1) * PageSize = lo * PageSize + PageSize /\ lo * PageSize \in Int
  BY <1>1, <1>4, NextMultiple
<1>7. m > 0 => m * PageSize = (m - 1) * PageSize + PageSize /\ (m - 1) * PageSize \in Int
  BY <1>1, <1>5, NextMultiple
<1>8. MinPage(site) * PageSize = lo * PageSize + PageSize
  BY <1>3, <1>6
<1>9. m > 0 => MaxPage(site) * PageSize = (m - 1) * PageSize
  BY <1>3
<1> DEFINE bottom == lo * PageSize
           top == (m - 1) * PageSize
<1>10. /\ bottom \in Int /\ bottom + PageSize > low /\ bottom <= low
       /\ m > 0 => top \in Int /\ top + PageSize <= high
  BY <1>4, <1>5, <1>6, <1>7
<1> HIDE DEF bottom, top
<1>11. site - AllocRange < bottom + PageSize /\ bottom + PageSize < high
  BY <1>1, <1>2, <1>10
<1>12. /\ site - AllocRange < MinPage(site) * PageSize
       /\ MinPage(site) * PageSize < site + AllocRange
  BY <1>8, <1>11 DEF bottom, high
<1>13. MaxPage(site) > 0 => MaxPage(site) * PageSize + PageSize <= site + AllocRange
  <2>1. MaxPage(site) > 0 => m > 0
    BY <1>3, <1>5
  <2> QED
    BY <1>9, <1>10, <2>1 DEF top, high
<1>14. MinPage(site) \in Nat /\ MaxPage(site) \in Nat /\ 1 <= MinPage(site)
  BY <1>3, <1>4, <1>5
<1> QED
  BY <1>12, <1>13, <1>14

\* min_page_addr and max_page_addr: an address between them is in range.
LEMMA WindowInRange ==
  ASSUME SizesFit, NEW site \in Nat, NEW a \in Nat,
         MinPage(site) * PageSize <= a,
         MaxPage(site) > 0, a <= MaxPage(site) * PageSize
  PROVE  Distance(a, site) < AllocRange
<1> DEFINE lo == MinPage(site) * PageSize
           hi == MaxPage(site) * PageSize
<1>1. PageSize \in Nat \ {0} /\ AllocRange \in Nat \ {0}
  BY SizeFacts
<1>2. lo \in Int /\ hi \in Int /\ site - AllocRange < lo /\ hi + PageSize <= site + AllocRange
  BY <1>1, WindowFacts
<1>3. lo <= a /\ a <= hi
  OBVIOUS
<1> HIDE DEF lo, hi
<1> QED
  BY <1>1, <1>2, <1>3 DEF Distance

\* Every page that search_near_blank_page maps is in the window.
LEMMA BlankPageInRange ==
  ASSUME SizesFit, NEW site \in Nat, NEW p \in BlankPages(site)
  PROVE  p \in Pages /\ Distance(Address(p, 0), site) < AllocRange
<1> DEFINE lo == MinPage(site)
           hi == MaxPage(site)
<1>1. PageSize \in Nat \ {0} /\ AllocRange \in Nat \ {0} /\ lo \in Nat /\ hi \in Nat /\ 1 <= lo
  BY SizeFacts, WindowFacts
<1>2. p \in Pages
  BY DEF BlankPages
<1>3. p \in Nat /\ p * PageSize \in Nat /\ Address(p, 0) = p * PageSize
  BY <1>1, <1>2 DEF Pages, Address
<1>4. p = lo \/ (lo <= p /\ p <= hi)
  <2>1. CASE p = lo
    BY <2>1
  <2>2. CASE \E q \in Regions, r \in Regions :
               /\ r.end < hi /\ r.start > NextPage(q.end)
               /\ p = IF lo > NextPage(q.end) THEN lo ELSE NextPage(q.end)
    <3>1. PICK q \in Regions, r \in Regions :
               /\ r.end < hi /\ r.start > NextPage(q.end)
               /\ p = IF lo > NextPage(q.end) THEN lo ELSE NextPage(q.end)
      BY <2>2
    <3>2. q.end \in Nat /\ r.end \in Nat /\ r.start \in Nat /\ r.start < r.end
      BY RegionFacts
    <3> HIDE DEF lo, hi
    <3> QED
      BY <1>1, <3>1, <3>2 DEF NextPage
  <2>3. CASE \E r \in Regions : r.end < hi /\ r.start >= lo /\ p = NextPage(r.end)
    <3>1. PICK r \in Regions : r.end < hi /\ r.start >= lo /\ p = NextPage(r.end)
      BY <2>3
    <3>2. r.end \in Nat /\ r.start \in Nat /\ r.start < r.end
      BY RegionFacts
    <3> HIDE DEF lo, hi
    <3> QED
      BY <1>1, <3>1, <3>2 DEF NextPage
  <2> QED
    BY <2>1, <2>2, <2>3 DEF BlankPages
<1>5. CASE p = lo
  <2>1. site - AllocRange < p * PageSize /\ p * PageSize < site + AllocRange
    BY <1>5, WindowFacts
  <2> DEFINE a == p * PageSize
  <2>2. a \in Nat /\ site - AllocRange < a /\ a < site + AllocRange
    BY <1>3, <2>1
  <2> HIDE DEF a
  <2>3. Distance(a, site) < AllocRange
    BY <1>1, <2>2 DEF Distance
  <2> QED
    BY <1>2, <1>3, <2>3 DEF a
<1>6. CASE lo <= p /\ p <= hi
  <2>1. MinPage(site) * PageSize <= p * PageSize /\ p * PageSize <= MaxPage(site) * PageSize
    BY <1>1, <1>3, <1>6, Multiples
  <2>2. MaxPage(site) > 0
    <3> HIDE DEF lo
    <3> QED
      BY <1>1, <1>3, <1>6
  <2> QED
    BY <1>2, <1>3, <2>1, <2>2, WindowInRange
<1> QED
  BY <1>4, <1>5, <1>6

\* A match moved to the next aligned address ends inside its region: the zeros
\* looked for are three more than the size, and where the match is aligned, a
\* fourth byte follows because sizes and regions are whole words.
LEMMA AlignedInside ==
  ASSUME NEW a \in Nat, NEW size \in Nat, NEW end \in Nat, a + size + 3 <= end,
         size % 4 = 0, end % 4 = 0
  PROVE  Aligned(a) \in Nat /\ a < Aligned(a) /\ Aligned(a) + size <= end
BY DEF Aligned

LEMMA RegionAligned ==
  ASSUME SizesFit, NEW p \in Nat
  PROVE  (p * PageSize) % 4 = 0 /\ p * PageSize \in Nat
<1>1. PageSize \in Nat /\ PageSize % 4 = 0
  BY SizeFacts DEF SizesFit
<1>2. PICK m \in Nat : PageSize = 4 * m
  <2>1. PageSize = 4 * (PageSize \div 4) /\ PageSize \div 4 \in Nat
    BY <1>1
  <2> QED
    BY <2>1
<1>3. p * PageSize = 4 * (p * m) /\ p * m \in Nat
  BY <1>2
<1> DEFINE n == p * m
<1>4. p * PageSize = 4 * n /\ n \in Nat
  BY <1>3
<1> HIDE DEF n
<1>5. (4 * n) % 4 = 0 /\ 4 * n \in Nat
  BY <1>4
<1> QED
  BY <1>4, <1>5

\* search_near_blank_memory_chunk: where a blank chunk lies.
LEMMA BlankFacts ==
  ASSUME SizesFit, NEW r \in Searched(request.site), NEW a \in Found(r),
         request.size \in NearSizes, request.site \in Nat
  PROVE  /\ r \in Regions
         /\ Aligned(a) \in Nat /\ Address(r.start, 0) <= Aligned(a)
         /\ Aligned(a) + request.size <= Address(r.end, 0)
         /\ Aligned(a) - Address(r.start, 0) \in Nat
         /\ Address(r.start, Aligned(a) - Address(r.start, 0)) = Aligned(a)
         /\ Distance(Aligned(a), request.site) < AllocRange
<1> DEFINE n == BlankMemory(r)
           size == request.size
           base == r.start * PageSize
           end == r.end * PageSize
           b == Aligned(a)
           before == {q.start : q \in Searched(request.site)} \cap 0 .. r.start - 1
<1>1. /\ r \in Regions /\ r.end <= MaxPage(request.site) /\ r.start >= MinPage(request.site)
  BY DEF Searched
<1>2. /\ r.start \in Pages /\ r.start \in Nat /\ r.end \in Nat /\ r.start < r.end
  BY <1>1, RegionFacts
<1>3. Cardinality(before) \in Nat
  <2>1. IsFiniteSet(0 .. r.start - 1)
    BY <1>2, FS_Interval
  <2>2. IsFiniteSet(before)
    BY <2>1, FS_Subset
  <2> HIDE DEF before
  <2> QED
    BY <2>2, FS_CardinalityType
<1>4. n = size + 3 * Cardinality(before)
  BY DEF BlankMemory
<1>5. size \in Nat /\ 1 <= size /\ size % 4 = 0 /\ PageSize \in Nat \ {0}
  BY SizeFacts DEF SizesFit
<1>6. base \in Nat /\ end \in Nat /\ end % 4 = 0
  BY <1>2, RegionAligned
<1>7. Address(r.start, 0) = base /\ Address(r.end, 0) = end
  <2>1. Address(r.start, 0) = base + 0 /\ Address(r.end, 0) = end + 0
    BY DEF Address
  <2> HIDE DEF base, end
  <2> QED
    BY <1>6, <2>1
<1>8. a \in base .. end - (n + 3)
  BY <1>7 DEF Found, Hits, Needle
<1> HIDE DEF n, size, base, end, before
<1>9. n \in Nat /\ size <= n
  BY <1>3, <1>4, <1>5
<1>10. a \in Nat /\ base <= a /\ a + size + 3 <= end
  BY <1>5, <1>6, <1>8, <1>9
<1>11. b \in Nat /\ a < b /\ b + size <= end
  BY <1>5, <1>6, <1>10, AlignedInside
<1> HIDE DEF b
<1>12. base <= b /\ b - base \in Nat /\ base + (b - base) = b /\ b <= end
  BY <1>5, <1>6, <1>10, <1>11
<1>13. Address(r.start, b - base) = b
  BY <1>12 DEF Address, base
<1>14. Distance(b, request.site) < AllocRange
  <2>1. MinPage(request.site) \in Nat /\ MaxPage(request.site) \in Nat
    BY WindowFacts
  <2>2. MinPage(request.site) * PageSize <= base /\ end <= MaxPage(request.site) * PageSize
    BY <1>1, <1>2, <1>5, <2>1, Multiples DEF base, end
  <2>3. MinPage(request.site) * PageSize \in Int /\ MaxPage(request.site) * PageSize \in Int
    BY <1>5, <2>1
  <2>4. MaxPage(request.site) > 0
    BY <1>1, <1>2, <2>1
  <2> DEFINE lo == MinPage(request.site) * PageSize
             hi == MaxPage(request.site) * PageSize
  <2>5. lo \in Int /\ hi \in Int /\ lo <= base /\ end <= hi
    BY <2>2, <2>3
  <2> HIDE DEF lo, hi
  <2>6. lo <= b /\ b <= hi
    BY <1>6, <1>11, <1>12, <2>5
  <2> QED
    BY <1>11, <2>4, <2>6, WindowInRange DEF lo, hi
<1> QED
  BY <1>1, <1>7, <1>11, <1>12, <1>13, <1>14 DEF b, size

-----------------------------------------------------------------------------
(* Chunks are in mapped memory.                                            *)

\* The property of one chunk.
InMapped(sp, c) ==
  \A a \in ChunkBytes(c) : \E p \in Pages : sp[p] # Free /\ a \in Bytes(Address(p, 0), PageSize)

\* A chunk that does not pass the end of its page.
LEMMA CutInMapped ==
  ASSUME NEW sp, NEW c, c.page \in Pages, sp[c.page] # Free, c.offset \in Nat, c.length \in Nat,
         c.offset + c.length <= PageSize
  PROVE  InMapped(sp, c)
<1> DEFINE base == c.page * PageSize
<1>1. PageSize \in Nat /\ base \in Nat
  BY ArenaAssumption DEF Pages
<1>2. ChunkBytes(c) = base + c.offset .. base + c.offset + c.length - 1
  BY DEF ChunkBytes, Bytes, Address
<1>3. Bytes(Address(c.page, 0), PageSize) = base + 0 .. base + 0 + PageSize - 1
  BY DEF Bytes, Address
<1> HIDE DEF base
<1>4. \A a \in base + c.offset .. base + c.offset + c.length - 1 :
        a \in base + 0 .. base + 0 + PageSize - 1
  BY <1>1
<1> QED
  BY <1>2, <1>3, <1>4 DEF InMapped

\* A chunk that does not leave its region.
LEMMA RegionInMapped ==
  ASSUME NEW r \in Regions, NEW c, Address(r.start, 0) <= Address(c.page, c.offset),
         Address(c.page, c.offset) \in Nat, c.length \in Nat,
         Address(c.page, c.offset) + c.length <= Address(r.end, 0)
  PROVE  InMapped(space, c)
<1> DEFINE b == Address(c.page, c.offset)
           base == r.start * PageSize
           end == r.end * PageSize
<1>1. /\ r.start \in Nat /\ r.end \in Nat /\ PageSize \in Nat \ {0}
      /\ \A q \in r.start .. r.end - 1 : q \in Pages /\ space[q] # Free
  BY RegionFacts, ArenaAssumption
<1>2. base \in Nat /\ end \in Nat /\ Address(r.start, 0) = base /\ Address(r.end, 0) = end
  <2>1. base \in Nat /\ end \in Nat
    BY <1>1
  <2>2. Address(r.start, 0) = base + 0 /\ Address(r.end, 0) = end + 0
    BY DEF Address
  <2> HIDE DEF base, end
  <2> QED
    BY <2>1, <2>2
<1>3. b \in Nat /\ base <= b /\ b + c.length <= end
  BY <1>2
<1> SUFFICES ASSUME NEW a \in ChunkBytes(c)
             PROVE  \E p \in Pages : space[p] # Free /\ a \in Bytes(Address(p, 0), PageSize)
  BY DEF InMapped
<1>4. a \in b .. b + c.length - 1
  BY DEF ChunkBytes, Bytes
<1> HIDE DEF b, base, end
<1>5. a \in Nat /\ base <= a /\ a < end
  BY <1>2, <1>3, <1>4
<1> DEFINE q == a \div PageSize
<1>6. q \in Nat /\ q * PageSize <= a /\ a < (q + 1) * PageSize
  BY <1>1, <1>5, Quotient
<1> HIDE DEF q
<1>7. (q + 1) * PageSize = q * PageSize + PageSize /\ q * PageSize \in Int
  BY <1>1, <1>6, NextMultiple
<1>8. r.start <= q
  <2>1. CASE q + 1 <= r.start
    <3>1. (q + 1) * PageSize <= base /\ (q + 1) * PageSize \in Int
      BY <1>1, <1>6, <2>1, Multiples DEF base
    <3> QED
      BY <1>2, <1>5, <1>6, <3>1
  <2> QED
    BY <1>1, <1>6, <2>1
<1>9. q < r.end
  <2>1. CASE r.end <= q
    <3>1. end <= q * PageSize
      BY <1>1, <1>6, <2>1, Multiples DEF end
    <3> QED
      BY <1>2, <1>5, <1>6, <1>7, <3>1
  <2> QED
    BY <1>1, <1>6, <2>1
<1>10. q \in r.start .. r.end - 1
  BY <1>1, <1>6, <1>8, <1>9
<1>11. a \in Bytes(Address(q, 0), PageSize)
  <2> DEFINE w == q * PageSize
  <2>1. Address(q, 0) = w + 0
    BY DEF Address
  <2>2. w \in Int /\ w <= a /\ a < w + PageSize
    BY <1>6, <1>7
  <2> HIDE DEF w
  <2> QED
    BY <1>1, <1>5, <2>1, <2>2 DEF Bytes
<1> QED
  BY <1>1, <1>10, <1>11

\* Nothing is ever unmapped, and a new chunk is in mapped memory.
LEMMA MappedStays ==
  ASSUME ChunksMapped, chunks \in Seq(ChunkType),
         \A p \in Pages : space[p] # Free => space'[p] # Free,
         chunks' = chunks \/ \E c \in ChunkType : InMapped(space', c) /\ chunks' = Append(chunks, c)
  PROVE  ChunksMapped'
<1>1. \A k \in DOMAIN chunks : InMapped(space', chunks[k])
  BY DEF ChunksMapped, InMapped
<1>2. CASE chunks' = chunks
  BY <1>1, <1>2 DEF ChunksMapped, InMapped
<1>3. ASSUME NEW c \in ChunkType, InMapped(space', c), chunks' = Append(chunks, c)
      PROVE  ChunksMapped'
  <2>1. /\ DOMAIN chunks' = DOMAIN chunks \cup {Len(chunks) + 1}
        /\ \A k \in DOMAIN chunks : chunks'[k] = chunks[k]
        /\ chunks'[Len(chunks) + 1] = c
    BY <1>3, AppendFacts
  <2>2. \A k \in DOMAIN chunks' : InMapped(space', chunks'[k])
    BY <1>1, <1>3, <2>1
  <2> QED
    BY <2>2 DEF ChunksMapped, InMapped
<1> QED
  BY <1>2, <1>3

-----------------------------------------------------------------------------
(* The invariant.                                                          *)

\* The arenas start empty.
LEMMA ArenaInit == Init => IInv
<1> SUFFICES ASSUME Init PROVE IInv
  OBVIOUS
<1>1. /\ page_chunks = <<>> /\ near_chunks = <<>> /\ chunks = <<>>
      /\ request = None /\ trespassed = {} /\ space = Image /\ zero = Zeros
  BY DEF Init
<1>2. Image \in [Pages -> Files \cup Permissions \cup {Free}] /\ Zeros \subseteq Nat
  BY ArenaAssumption
<1>3. ArenaTypeOK
  <2>1. page_chunks \in Seq(PageChunkType) /\ near_chunks \in Seq(PageChunkType)
    BY <1>1
  <2>2. chunks \in Seq(ChunkType)
    BY <1>1
  <2> QED
    BY <1>1, <1>2, <2>1, <2>2 DEF ArenaTypeOK
<1>4. ChunksMapped /\ Ledger(space, trespassed, page_chunks, near_chunks, chunks)
  BY <1>1 DEF ChunksMapped, Ledger, Sound
<1> QED
  BY <1>3, <1>4 DEF IInv

\* What IInv says in the terms of the lemmas.
LEMMA IInvFacts ==
  ASSUME IInv
  PROVE  /\ space \in [Pages -> Files \cup Permissions \cup {Free}]
         /\ zero \subseteq Nat /\ trespassed \subseteq Pages
         /\ page_chunks \in Seq(PageChunkType) /\ near_chunks \in Seq(PageChunkType)
         /\ chunks \in Seq(ChunkType) /\ ChunksMapped
         /\ Ledger(space, trespassed, page_chunks, near_chunks, chunks)
         /\ Ledger(space, trespassed, near_chunks, page_chunks, chunks)
         /\ request # None => /\ request \in Requests /\ request.site \in Sites
                              /\ request.size \in NearSizes /\ request.permission \in Permissions
<1>1. Ledger(space, trespassed, near_chunks, page_chunks, chunks)
  BY LedgerSymmetric DEF IInv
<1> QED
  BY <1>1 DEF IInv, ArenaTypeOK, Requests

LEMMA EmittedFacts ==
  ASSUME NEW z, z \subseteq Nat, NEW a \in Nat, NEW size \in Sizes, NEW permission,
         NEW w \in Emitted(z, a, size, permission)
  PROVE  w \subseteq Nat
<1>1. size - 4 \in Int
  BY ArenaAssumption
<1> QED
  BY <1>1, WrittenFacts DEF Emitted

LEMMA NearEmittedFacts ==
  ASSUME zero \subseteq Nat, NEW a \in Nat, request.size \in NearSizes, NEW w \in NearEmitted(a)
  PROVE  w \subseteq Nat
<1>1. request.size \in Int
  BY AnySize
<1> QED
  BY <1>1, WrittenFacts DEF NearEmitted

\* MemoryArena::AllocateChunk from a page that has room.
LEMMA AllocateChunkKeeps ==
  ASSUME IInv, NEW size \in Sizes, NEW permission \in Permissions,
         AllocateChunk(size, permission)
  PROVE  IInv'
<1>1. PICK i \in DOMAIN page_chunks :
        /\ Fits(i, size, permission)
        /\ chunks' = Append(chunks, Chunk(page_chunks[i].page, page_chunks[i].cursor, size, None,
                                          FALSE))
        /\ page_chunks' = Advance(page_chunks, i, size)
        /\ zero' \in Emitted(zero, Address(page_chunks[i].page, page_chunks[i].cursor),
                             size, permission)
  BY DEF AllocateChunk
<1> DEFINE c == Chunk(page_chunks[i].page, page_chunks[i].cursor, size, None, FALSE)
<1>2. UNCHANGED <<space, near_chunks, request, trespassed>>
  BY DEF AllocateChunk
<1>3. page_chunks[i].cursor + size < PageSize
  BY <1>1 DEF Fits, Room
<1>4. /\ page_chunks[i].page \in Pages /\ page_chunks[i].cursor \in Nat /\ size \in Nat
      /\ page_chunks[i].page \in Nat
  BY IInvFacts, PageChunkFields, ArenaAssumption DEF Pages
<1>5. /\ c \in ChunkType /\ c.page = page_chunks[i].page /\ c.offset = page_chunks[i].cursor
      /\ c.length = size
  BY <1>4 DEF Chunk, ChunkType
<1>6. zero' \subseteq Nat
  BY <1>1, <1>4, IInvFacts, AddressFacts, EmittedFacts
<1>7. page_chunks' \in Seq(PageChunkType)
  BY <1>1, <1>3, <1>4, IInvFacts, AdvanceFacts
<1>8. chunks' \in Seq(ChunkType)
  <2> HIDE DEF c
  <2> QED
    BY <1>1, <1>5, IInvFacts, AppendFacts DEF c
<1>9. ChunksMapped'
  <2>1. space[page_chunks[i].page] # Free
    BY IInvFacts, ArenaAssumption DEF Ledger, Sound
  <2>3. chunks' = Append(chunks, c)
    BY <1>1
  <2> HIDE DEF c
  <2>2. c.offset + c.length <= PageSize
    BY <1>3, <1>4, <1>5, AnySize
  <2>4. InMapped(space', c)
    BY <1>2, <1>4, <1>5, <2>1, <2>2, CutInMapped
  <2> QED
    BY <1>2, <1>5, <2>3, <2>4, IInvFacts, MappedStays
<1>10. Ledger(space, trespassed, page_chunks, near_chunks, chunks)'
  BY <1>1, <1>2, <1>3, IInvFacts, CutKeepsLedger
<1>11. ArenaTypeOK'
  BY <1>2, <1>6, <1>7, <1>8 DEF IInv, ArenaTypeOK
<1> QED
  BY <1>9, <1>10, <1>11 DEF IInv

\* MemoryArena::AllocateChunk from a new page.
LEMMA NewPageKeeps ==
  ASSUME SizesFit, IInv, NEW size \in Sizes, NEW permission \in Permissions,
         AllocateChunkNewPage(size, permission)
  PROVE  IInv'
<1>1. PICK p \in Pages :
        /\ space[p] = Free
        /\ space' = [space EXCEPT ![p] = permission]
        /\ page_chunks' = Append(page_chunks, PageChunk(p, size, permission))
        /\ chunks' = Append(chunks, Chunk(p, 0, size, None, FALSE))
        /\ zero' \in Emitted(Mapped(p), Address(p, 0), size, permission)
  BY DEF AllocateChunkNewPage
<1>2. UNCHANGED <<near_chunks, request, trespassed>>
  BY DEF AllocateChunkNewPage
<1> DEFINE c == Chunk(p, 0, size, None, FALSE)
           e == PageChunk(p, size, permission)
<1>3. size \in Nat /\ size <= PageSize /\ PageSize \in Nat /\ p \in Nat /\ 0 \in Nat
  BY SizeFacts DEF Pages
<1>4. /\ c \in ChunkType /\ c.page = p /\ c.offset = 0 /\ c.length = size /\ ~c.blank
  BY DEF Chunk, ChunkType
<1>5. e \in PageChunkType /\ e.page = p /\ e.cursor = size
  BY <1>3, PageChunkFacts
<1>6. zero' \subseteq Nat
  <2>1. Mapped(p) \subseteq Nat /\ Address(p, 0) \in Nat
    BY <1>3, IInvFacts, MappedFacts, AddressFacts
  <2> QED
    BY <1>1, <2>1, EmittedFacts
<1>7. chunks' = Append(chunks, c) /\ page_chunks' = Append(page_chunks, e)
  BY <1>1
<1> HIDE DEF c, e
<1>8. chunks' \in Seq(ChunkType) /\ page_chunks' \in Seq(PageChunkType)
  BY <1>4, <1>5, <1>7, IInvFacts, AppendFacts
<1>9. /\ space' \in [Pages -> Files \cup Permissions \cup {Free}]
      /\ space'[p] = permission /\ permission # Free
      /\ \A q \in Pages : space[q] # Free => space'[q] # Free
  BY <1>1, IInvFacts, ArenaAssumption
<1>10. ArenaTypeOK'
  BY <1>2, <1>6, <1>8, <1>9 DEF IInv, ArenaTypeOK
<1>11. ChunksMapped'
  <2>1. c.offset + c.length <= PageSize
    BY <1>3, <1>4
  <2>2. InMapped(space', c)
    BY <1>3, <1>4, <1>9, <2>1, CutInMapped
  <2> QED
    BY <1>4, <1>7, <1>9, <2>2, IInvFacts, MappedStays
<1>12. Ledger(space, trespassed, page_chunks, near_chunks, chunks)'
  <2> DEFINE over == trespassed
  <2>1. \A k \in DOMAIN chunks : ~chunks[k].blank => chunks[k].page # p
    BY <1>1, IInvFacts DEF Ledger
  <2>2. Ledger(space', over, page_chunks', near_chunks, chunks)
    <3>1. size \in 0 .. PageSize
      BY <1>3
    <3> QED
      BY <1>1, <3>1, IInvFacts, MapKeepsLedger
  <2>3. /\ DOMAIN chunks' = DOMAIN chunks \cup {Len(chunks) + 1}
        /\ \A k \in DOMAIN chunks : chunks'[k] = chunks[k]
        /\ chunks'[Len(chunks) + 1] = c
    BY <1>4, <1>7, IInvFacts, AppendFacts
  <2>4. /\ DOMAIN page_chunks' = DOMAIN page_chunks \cup {Len(page_chunks) + 1}
        /\ page_chunks'[Len(page_chunks) + 1] = e
    BY <1>5, <1>7, IInvFacts, AppendFacts
  <2>5. Len(page_chunks) + 1 \in DOMAIN page_chunks'
    BY <2>4
  <2>6. p \notin over =>
          /\ \A j \in DOMAIN page_chunks' : page_chunks'[j].page = p => j = Len(page_chunks) + 1
          /\ \A j \in DOMAIN near_chunks : near_chunks[j].page # p
    BY <1>5, <2>2, <2>4, <2>5 DEF Ledger, Sound
  <2>7. Sound(space', over, page_chunks', chunks')
    <3>1. \A k \in DOMAIN chunks', j \in DOMAIN page_chunks' :
            ~chunks'[k].blank /\ chunks'[k].page = page_chunks'[j].page
              /\ page_chunks'[j].page \notin over
            => chunks'[k].offset + chunks'[k].length <= page_chunks'[j].cursor
      <4> SUFFICES ASSUME NEW k \in DOMAIN chunks', NEW j \in DOMAIN page_chunks',
                          ~chunks'[k].blank, chunks'[k].page = page_chunks'[j].page,
                          page_chunks'[j].page \notin over
                   PROVE  chunks'[k].offset + chunks'[k].length <= page_chunks'[j].cursor
        OBVIOUS
      <4>1. CASE k \in DOMAIN chunks
        BY <2>2, <2>3, <4>1 DEF Ledger, Sound
      <4>2. CASE k = Len(chunks) + 1
        <5>1. j = Len(page_chunks) + 1
          BY <1>4, <2>3, <2>6, <4>2
        <5> QED
          BY <1>3, <1>4, <1>5, <2>3, <2>4, <4>2, <5>1
      <4> QED
        BY <2>3, <4>1, <4>2
    <3> QED
      BY <2>2, <3>1 DEF Ledger, Sound
  <2>8. Sound(space', over, near_chunks, chunks')
    BY <1>4, <2>2, <2>3, <2>6 DEF Ledger, Sound
  <2>9. \A k \in DOMAIN chunks' : ~chunks'[k].blank => space'[chunks'[k].page] # Free
    BY <1>4, <1>9, <2>2, <2>3 DEF Ledger
  <2>10. \A k, l \in DOMAIN chunks' :
           k # l /\ ~chunks'[k].blank /\ ~chunks'[l].blank /\ chunks'[k].page \notin over
             => Apart(chunks'[k], chunks'[l])
    <3>1. \A k \in DOMAIN chunks : ~chunks[k].blank /\ p \notin over
            => Apart(chunks[k], c) /\ Apart(c, chunks[k])
      BY <1>4, <2>1 DEF Apart
    <3>2. \A k \in DOMAIN chunks : chunks[k].page # p => Apart(chunks[k], c)
      BY <1>4 DEF Apart
    <3> QED
      BY <1>4, <2>2, <2>3, <3>1, <3>2 DEF Ledger
  <2> QED
    BY <1>2, <2>2, <2>7, <2>8, <2>9, <2>10 DEF Ledger
<1> QED
  BY <1>10, <1>11, <1>12 DEF IInv

\* NearMemoryArena::AllocateChunk from a page in range that has room.
LEMMA NearFromPageKeeps ==
  ASSUME IInv, NearFromPage
  PROVE  IInv'
<1>1. PICK i \in DOMAIN near_chunks :
        /\ NearFits(i)
        /\ chunks' = Append(chunks, Chunk(near_chunks[i].page, near_chunks[i].cursor,
                                          request.size, request.site, FALSE))
        /\ near_chunks' = Advance(near_chunks, i, request.size)
        /\ zero' \in NearEmitted(Address(near_chunks[i].page, near_chunks[i].cursor))
  BY DEF NearFromPage
<1> DEFINE c == Chunk(near_chunks[i].page, near_chunks[i].cursor, request.size, request.site, FALSE)
<1>2. UNCHANGED <<space, page_chunks, trespassed>> /\ request' = None
      /\ request.site \in Sites /\ request.size \in NearSizes
  BY IInvFacts DEF NearFromPage
<1>3. near_chunks[i].cursor + request.size < PageSize
  BY <1>1 DEF NearFits, Room
<1>4. /\ near_chunks[i].page \in Pages /\ near_chunks[i].cursor \in Nat /\ request.size \in Nat
      /\ near_chunks[i].page \in Nat
  <2>1. request.size \in Nat
    BY <1>2, AnySize
  <2>2. near_chunks[i].page \in Pages /\ near_chunks[i].cursor \in Nat
    BY IInvFacts, PageChunkFields
  <2> QED
    BY <2>1, <2>2 DEF Pages
<1>5. /\ c \in ChunkType /\ c.page = near_chunks[i].page /\ c.offset = near_chunks[i].cursor
      /\ c.length = request.size
  BY <1>2, <1>4 DEF Chunk, ChunkType
<1>6. zero' \subseteq Nat
  BY <1>1, <1>2, <1>4, IInvFacts, AddressFacts, NearEmittedFacts
<1>7. near_chunks' \in Seq(PageChunkType)
  BY <1>1, <1>3, <1>4, IInvFacts, AdvanceFacts
<1>8. chunks' \in Seq(ChunkType)
  <2> HIDE DEF c
  <2> QED
    BY <1>1, <1>5, IInvFacts, AppendFacts DEF c
<1>9. ChunksMapped'
  <2>1. space[near_chunks[i].page] # Free
    BY IInvFacts, ArenaAssumption DEF Ledger, Sound
  <2>3. chunks' = Append(chunks, c)
    BY <1>1
  <2> HIDE DEF c
  <2>2. c.offset + c.length <= PageSize
    BY <1>3, <1>4, <1>5, AnySize
  <2>4. InMapped(space', c)
    BY <1>2, <1>4, <1>5, <2>1, <2>2, CutInMapped
  <2> QED
    BY <1>2, <1>5, <2>3, <2>4, IInvFacts, MappedStays
<1>10. Ledger(space, trespassed, page_chunks, near_chunks, chunks)'
  <2>1. Ledger(space, trespassed, near_chunks', page_chunks, chunks')
    BY <1>1, <1>2, <1>3, IInvFacts, CutKeepsLedger
  <2> QED
    BY <1>2, <2>1, LedgerSymmetric
<1>11. ArenaTypeOK'
  BY <1>2, <1>6, <1>7, <1>8 DEF IInv, ArenaTypeOK
<1> QED
  BY <1>9, <1>10, <1>11 DEF IInv

\* PushPage after mmap.
LEMMA NearMapPageKeeps ==
  ASSUME IInv, NearMapPage
  PROVE  IInv'
<1>1. PICK p \in BlankPages(request.site) :
        /\ trespassed' = trespassed \cup {q \in {p} : space[q] # Free}
        /\ space' = [space EXCEPT ![p] = request.permission]
        /\ zero' = Mapped(p)
        /\ near_chunks' = PushPage(p)
  BY DEF NearMapPage
<1>2. p \in Pages /\ p \in Nat
  BY <1>1 DEF BlankPages, Pages
<1>3. /\ UNCHANGED <<page_chunks, chunks>> /\ request.permission \in Permissions
      /\ request' = [request EXCEPT !.again = TRUE] /\ request \in Requests
  BY IInvFacts DEF NearMapPage, NoNearPage
<1>4. 0 \in 0 .. PageSize
  BY ArenaAssumption
<1>5. PageChunk(p, 0, request.permission) \in PageChunkType
  BY <1>2, <1>3, <1>4, PageChunkFacts
<1>6. near_chunks' \in Seq(PageChunkType)
  BY <1>1, <1>5, IInvFacts, AppendFacts DEF PushPage
<1>7. /\ space' \in [Pages -> Files \cup Permissions \cup {Free}]
      /\ \A q \in Pages : space[q] # Free => space'[q] # Free
  BY <1>1, <1>3, IInvFacts, ArenaAssumption
<1>8. trespassed' \subseteq Pages /\ zero' \subseteq Nat /\ request' \in Requests
  BY <1>1, <1>2, <1>3, IInvFacts, MappedFacts DEF Requests
<1>9. ArenaTypeOK'
  BY <1>3, <1>6, <1>7, <1>8 DEF IInv, ArenaTypeOK
<1>10. ChunksMapped'
  BY <1>3, <1>7, IInvFacts, MappedStays
<1>11. Ledger(space, trespassed, page_chunks, near_chunks, chunks)'
  <2>1. Ledger(space, trespassed', near_chunks, page_chunks, chunks)
    BY <1>1, IInvFacts, TrespassKeepsLedger
  <2>2. space[p] = Free \/ p \in trespassed'
    BY <1>1
  <2>3. Ledger(space', trespassed', near_chunks', page_chunks, chunks)
    BY <1>1, <1>2, <1>3, <1>4, <2>1, <2>2, IInvFacts, MapKeepsLedger DEF PushPage
  <2> QED
    BY <1>3, <2>3, LedgerSymmetric
<1> QED
  BY <1>9, <1>10, <1>11 DEF IInv

\* Bytes of a code region that look blank.
LEMMA NearBlankChunkKeeps ==
  ASSUME SizesFit, IInv, NearBlankChunk
  PROVE  IInv'
<1>1. /\ request # None /\ UNCHANGED <<space, page_chunks, near_chunks, trespassed>>
      /\ request' = None
  BY DEF NearBlankChunk, NoBlankPage, NoNearPage
<1>2. /\ request.site \in Sites /\ request.size \in NearSizes /\ request.site \in Nat
      /\ request.size \in Nat
  BY <1>1, IInvFacts, ArenaAssumption
<1>0. PICK r \in Searched(request.site) : \E a \in Found(r) :
        /\ chunks' = Append(chunks, Chunk(r.start, Aligned(a) - Address(r.start, 0),
                                          request.size, request.site, TRUE))
        /\ zero' \in NearEmitted(Aligned(a))
  BY DEF NearBlankChunk
<1>3. PICK a \in Found(r) :
        /\ chunks' = Append(chunks, Chunk(r.start, Aligned(a) - Address(r.start, 0),
                                          request.size, request.site, TRUE))
        /\ zero' \in NearEmitted(Aligned(a))
  BY <1>0
<1> DEFINE c == Chunk(r.start, Aligned(a) - Address(r.start, 0), request.size, request.site, TRUE)
<1>4. /\ r \in Regions
      /\ Aligned(a) \in Nat /\ Address(r.start, 0) <= Aligned(a)
      /\ Aligned(a) + request.size <= Address(r.end, 0)
      /\ Aligned(a) - Address(r.start, 0) \in Nat
      /\ Address(r.start, Aligned(a) - Address(r.start, 0)) = Aligned(a)
  BY <1>2, <1>3, BlankFacts
<1>5. r.start \in Pages
  BY <1>4, RegionFacts
<1>6. /\ c \in ChunkType /\ c.page = r.start /\ c.offset = Aligned(a) - Address(r.start, 0)
      /\ c.length = request.size /\ c.blank
  BY <1>2, <1>4, <1>5 DEF Chunk, ChunkType
<1>7. zero' \subseteq Nat
  BY <1>2, <1>3, <1>4, IInvFacts, NearEmittedFacts
<1>8. chunks' = Append(chunks, c)
  BY <1>3
<1> HIDE DEF c
<1>9. chunks' \in Seq(ChunkType)
  BY <1>6, <1>8, IInvFacts, AppendFacts
<1>10. ArenaTypeOK'
  BY <1>1, <1>7, <1>9 DEF IInv, ArenaTypeOK
<1>11. ChunksMapped'
  <2>1. Address(c.page, c.offset) = Aligned(a)
    BY <1>4, <1>6
  <2>2. InMapped(space, c)
    BY <1>2, <1>4, <1>6, <2>1, RegionInMapped
  <2> QED
    BY <1>1, <1>6, <1>8, <2>2, IInvFacts, MappedStays
<1>12. Ledger(space, trespassed, page_chunks, near_chunks, chunks)'
  BY <1>1, <1>6, <1>8, IInvFacts, BlankKeepsLedger
<1> QED
  BY <1>10, <1>11, <1>12 DEF IInv

\* Every step keeps the invariant.
LEMMA ArenaStep ==
  ASSUME SizesFit
  PROVE  IInv /\ [Next]_vars => IInv'
<1> SUFFICES ASSUME IInv, [Next]_vars PROVE IInv'
  OBVIOUS
<1>1. CASE UNCHANGED vars
  BY <1>1 DEF vars, IInv, ArenaTypeOK, ChunksMapped
<1>2. ASSUME NEW size \in Sizes, NEW permission \in Permissions,
             AllocateChunk(size, permission)
      PROVE  IInv'
  BY <1>2, AllocateChunkKeeps
<1>3. ASSUME NEW size \in Sizes, NEW permission \in Permissions,
             AllocateChunkNewPage(size, permission)
      PROVE  IInv'
  BY <1>3, NewPageKeeps
<1>4. ASSUME NEW size \in NearSizes, NEW permission \in Permissions, NEW site \in Sites,
             NearRequest(site, size, permission)
      PROVE  IInv'
  <2>1. request' \in Requests
    BY <1>4 DEF NearRequest, Requests
  <2> QED
    BY <1>4, <2>1 DEF NearRequest, IInv, ArenaTypeOK, ChunksMapped
<1>5. CASE NearFromPage
  BY <1>5, NearFromPageKeeps
<1>6. CASE NearMapPage
  BY <1>6, NearMapPageKeeps
<1>7. CASE NearBlankChunk
  BY <1>7, NearBlankChunkKeeps
<1>8. CASE NearFails
  BY <1>8 DEF NearFails, IInv, ArenaTypeOK, ChunksMapped
<1> QED
  BY <1>1, <1>2, <1>3, <1>4, <1>5, <1>6, <1>7, <1>8 DEF Next

\* Both arenas keep their lists, cursors and chunks in range, as long as nobody
\* asks for more than a page.
THEOREM ArenaTypeCorrect ==
  ASSUME SizesFit
  PROVE  Safety => []ArenaTypeOK
<1>1. IInv => ArenaTypeOK
  BY DEF IInv
<1>2. IInv /\ [Next]_vars => IInv'
  BY ArenaStep
<1> QED
  BY <1>1, <1>2, ArenaInit, PTL DEF Safety

\* Chunks cut from the pages of both arenas are apart after every sequence of
\* requests, on each page that was free when it was mapped.  (Nothing is said of
\* blank chunks: they violate NearTakesUnused.)
THEOREM ArenaChunksDisjoint ==
  ASSUME SizesFit
  PROVE  Safety => []ChunksDisjoint
<1>1. IInv => ChunksDisjoint
  BY DEF IInv, ChunksDisjoint, Ledger
<1>2. IInv /\ [Next]_vars => IInv'
  BY ArenaStep
<1> QED
  BY <1>1, <1>2, ArenaInit, PTL DEF Safety

\* Every byte of every chunk is mapped, blank ones included: the alignment moves
\* those past the bytes found blank and never past the end of the region.
THEOREM ArenaChunksMapped ==
  ASSUME SizesFit
  PROVE  Safety => []ChunksMapped
<1>1. IInv => ChunksMapped
  BY DEF IInv
<1>2. IInv /\ [Next]_vars => IInv'
  BY ArenaStep
<1> QED
  BY <1>1, <1>2, ArenaInit, PTL DEF Safety

\* Without near requests (this library never enables the near-branch plugin)
\* nothing is ever mapped over memory in use and no chunk is blank, so all
\* chunks are apart.
THEOREM ArenaAlone ==
  ASSUME SizesFit, Sites = {}
  PROVE  Safety => [](NeverTrespassed /\ \A i, j \in DOMAIN chunks :
                                           i # j => Apart(chunks[i], chunks[j]))
<1> DEFINE Quiet == /\ request = None /\ NeverTrespassed
                    /\ \A k \in DOMAIN chunks : ~chunks[k].blank
           Goal == NeverTrespassed /\ \A i, j \in DOMAIN chunks :
                                        i # j => Apart(chunks[i], chunks[j])
<1>1. Init => Quiet
  BY DEF Init, NeverTrespassed
<1>2. IInv /\ Quiet /\ [Next]_vars => Quiet'
  <2> SUFFICES ASSUME IInv, Quiet, [Next]_vars PROVE Quiet'
    OBVIOUS
  <2>1. ASSUME NEW c \in ChunkType, ~c.blank, chunks' = Append(chunks, c)
        PROVE  \A k \in DOMAIN chunks' : ~chunks'[k].blank
    <3>1. /\ DOMAIN chunks' = DOMAIN chunks \cup {Len(chunks) + 1}
          /\ \A k \in DOMAIN chunks : chunks'[k] = chunks[k]
          /\ chunks'[Len(chunks) + 1] = c
      BY <2>1, IInvFacts, AppendFacts
    <3> QED
      BY <2>1, <3>1
  <2>2. ASSUME NEW size \in Sizes, NEW permission \in Permissions,
               AllocateChunk(size, permission)
        PROVE  Quiet'
    <3>1. PICK i \in DOMAIN page_chunks :
            chunks' = Append(chunks, Chunk(page_chunks[i].page, page_chunks[i].cursor, size, None,
                                           FALSE))
      BY <2>2 DEF AllocateChunk
    <3> DEFINE c == Chunk(page_chunks[i].page, page_chunks[i].cursor, size, None, FALSE)
    <3>2. page_chunks[i].page \in Pages /\ page_chunks[i].cursor \in Nat
      BY IInvFacts, PageChunkFields
    <3>3. c \in ChunkType /\ ~c.blank
      BY <3>2 DEF Chunk, ChunkType
    <3>4. chunks' = Append(chunks, c)
      BY <3>1
    <3> HIDE DEF c
    <3> QED
      BY <2>1, <2>2, <3>3, <3>4 DEF AllocateChunk, NeverTrespassed
  <2>3. ASSUME NEW size \in Sizes, NEW permission \in Permissions,
               AllocateChunkNewPage(size, permission)
        PROVE  Quiet'
    <3>1. PICK p \in Pages : chunks' = Append(chunks, Chunk(p, 0, size, None, FALSE))
      BY <2>3 DEF AllocateChunkNewPage
    <3> DEFINE c == Chunk(p, 0, size, None, FALSE)
    <3>2. c \in ChunkType /\ ~c.blank
      BY DEF Chunk, ChunkType
    <3>3. chunks' = Append(chunks, c)
      BY <3>1
    <3> HIDE DEF c
    <3> QED
      BY <2>1, <2>3, <3>2, <3>3 DEF AllocateChunkNewPage, NeverTrespassed
  <2>4. CASE UNCHANGED vars
    BY <2>4 DEF vars, NeverTrespassed
  <2> QED
    BY <2>2, <2>3, <2>4
    DEF Next, NearFromPage, NearMapPage, NearBlankChunk, NearFails, NoBlankPage, NoNearPage
<1>3. IInv /\ Quiet => Goal
  BY DEF IInv, NeverTrespassed, Ledger
<1>4. IInv /\ [Next]_vars => IInv'
  BY ArenaStep
<1> HIDE DEF Quiet, Goal
<1>5. Safety => []Goal
  BY <1>1, <1>2, <1>3, <1>4, ArenaInit, PTL DEF Safety
<1> QED
  BY <1>5 DEF Goal

-----------------------------------------------------------------------------
(* Near chunks are in range.                                               *)

\* The property of one chunk.
Reaches(c) == c.site # None => Distance(Address(c.page, c.offset), c.site) < AllocRange

\* A new chunk that is in range keeps all in range.
LEMMA ReachAppended ==
  ASSUME IInv, NearInRange, NEW c \in ChunkType, Reaches(c), chunks' = Append(chunks, c)
  PROVE  NearInRange'
<1>1. chunks \in Seq(ChunkType)
  BY IInvFacts
<1>2. /\ DOMAIN chunks' = DOMAIN chunks \cup {Len(chunks) + 1}
      /\ \A k \in DOMAIN chunks : chunks'[k] = chunks[k]
      /\ chunks'[Len(chunks) + 1] = c
  BY <1>1, AppendFacts
<1>3. \A k \in DOMAIN chunks' : Reaches(chunks'[k])
  BY <1>2 DEF NearInRange, Reaches
<1> QED
  BY <1>3 DEF NearInRange, Reaches

LEMMA NearStepInRange ==
  ASSUME SizesFit
  PROVE  IInv /\ NearInRange /\ [Next]_vars => NearInRange'
<1> SUFFICES ASSUME IInv, NearInRange, [Next]_vars PROVE NearInRange'
  OBVIOUS
<1>1. CASE UNCHANGED chunks
  BY <1>1 DEF NearInRange
<1>2. ASSUME NEW size \in Sizes, NEW permission \in Permissions,
             AllocateChunk(size, permission)
      PROVE  NearInRange'
  <2>1. PICK i \in DOMAIN page_chunks :
          chunks' = Append(chunks, Chunk(page_chunks[i].page, page_chunks[i].cursor, size, None,
                                         FALSE))
    BY <1>2 DEF AllocateChunk
  <2> DEFINE c == Chunk(page_chunks[i].page, page_chunks[i].cursor, size, None, FALSE)
  <2>2. page_chunks[i].page \in Pages /\ page_chunks[i].cursor \in Nat
    BY IInvFacts, PageChunkFields
  <2>3. c \in ChunkType /\ Reaches(c) /\ chunks' = Append(chunks, c)
    BY <2>1, <2>2 DEF Chunk, ChunkType, Reaches
  <2> HIDE DEF c
  <2> QED
    BY <2>3, ReachAppended
<1>3. ASSUME NEW size \in Sizes, NEW permission \in Permissions,
             AllocateChunkNewPage(size, permission)
      PROVE  NearInRange'
  <2>1. PICK p \in Pages : chunks' = Append(chunks, Chunk(p, 0, size, None, FALSE))
    BY <1>3 DEF AllocateChunkNewPage
  <2> DEFINE c == Chunk(p, 0, size, None, FALSE)
  <2>2. c \in ChunkType /\ Reaches(c) /\ chunks' = Append(chunks, c)
    BY <2>1 DEF Chunk, ChunkType, Reaches
  <2> HIDE DEF c
  <2> QED
    BY <2>2, ReachAppended
<1>4. CASE NearFromPage
  <2>1. PICK i \in DOMAIN near_chunks :
          /\ NearFits(i)
          /\ chunks' = Append(chunks, Chunk(near_chunks[i].page, near_chunks[i].cursor,
                                            request.size, request.site, FALSE))
    BY <1>4 DEF NearFromPage
  <2> DEFINE c == Chunk(near_chunks[i].page, near_chunks[i].cursor, request.size, request.site,
                        FALSE)
  <2>2. /\ near_chunks[i].page \in Pages /\ near_chunks[i].cursor \in Nat
        /\ request.size \in NearSizes /\ request.site \in Sites
    BY <1>4, IInvFacts, PageChunkFields DEF NearFromPage
  <2>3. c \in ChunkType
    BY <2>2 DEF Chunk, ChunkType
  <2>4. Reaches(c)
    BY <2>1 DEF Reaches, Chunk, NearFits
  <2>5. chunks' = Append(chunks, c)
    BY <2>1
  <2> HIDE DEF c
  <2> QED
    BY <2>3, <2>4, <2>5, ReachAppended
<1>5. CASE NearBlankChunk
  <2>1. request.size \in NearSizes /\ request.site \in Sites /\ request.site \in Nat
    BY <1>5, IInvFacts, ArenaAssumption DEF NearBlankChunk, NoBlankPage, NoNearPage
  <2>2. PICK r \in Searched(request.site) : \E a \in Found(r) :
          chunks' = Append(chunks, Chunk(r.start, Aligned(a) - Address(r.start, 0),
                                         request.size, request.site, TRUE))
    BY <1>5 DEF NearBlankChunk
  <2>3. PICK a \in Found(r) :
          chunks' = Append(chunks, Chunk(r.start, Aligned(a) - Address(r.start, 0),
                                         request.size, request.site, TRUE))
    BY <2>2
  <2> DEFINE c == Chunk(r.start, Aligned(a) - Address(r.start, 0), request.size, request.site, TRUE)
  <2>4. /\ r \in Regions /\ Aligned(a) - Address(r.start, 0) \in Nat
        /\ Address(r.start, Aligned(a) - Address(r.start, 0)) = Aligned(a)
        /\ Distance(Aligned(a), request.site) < AllocRange
    BY <2>1, BlankFacts
  <2>5. r.start \in Pages
    BY <2>4, RegionFacts
  <2>6. /\ c \in ChunkType /\ c.page = r.start /\ c.offset = Aligned(a) - Address(r.start, 0)
        /\ c.site = request.site /\ chunks' = Append(chunks, c)
    BY <2>1, <2>3, <2>4, <2>5 DEF Chunk, ChunkType
  <2> HIDE DEF c
  <2>7. Reaches(c)
    BY <2>4, <2>6 DEF Reaches
  <2> QED
    BY <2>6, <2>7, ReachAppended
<1> QED
  BY <1>1, <1>2, <1>3, <1>4, <1>5 DEF Next, NearRequest, NearMapPage, NearFails, vars

\* A near chunk begins within branch range of its site, whichever of the three
\* ways it was found by: in a recorded page by the test of the distance, among
\* blank bytes by the rounding of the window, which keeps off both ends.
THEOREM ArenaNearInRange ==
  ASSUME SizesFit
  PROVE  Safety => []NearInRange
<1>1. Init => NearInRange
  BY DEF Init, NearInRange
<1>2. IInv /\ [Next]_vars => IInv'
  BY ArenaStep
<1>3. IInv /\ NearInRange /\ [Next]_vars => NearInRange'
  BY NearStepInRange
<1> QED
  BY <1>1, <1>2, <1>3, ArenaInit, PTL DEF Safety

-----------------------------------------------------------------------------
(* The search starts over at most once.                                    *)

LEMMA MapPageFits ==
  ASSUME SizesFit, IInv, NearMapPage
  PROVE  SearchOnceMore'
<1>1. PICK p \in BlankPages(request.site) : near_chunks' = PushPage(p)
  BY DEF NearMapPage
<1>2. /\ request \in Requests /\ request.site \in Nat /\ request.size \in NearSizes
      /\ request.permission \in Permissions /\ request' = [request EXCEPT !.again = TRUE]
  BY IInvFacts, ArenaAssumption DEF NearMapPage, NoNearPage
<1>3. request'.site = request.site /\ request'.size = request.size
      /\ request'.permission = request.permission
  BY <1>2 DEF Requests
<1>4. p \in Pages /\ Distance(Address(p, 0), request.site) < AllocRange
  BY <1>2, BlankPageInRange
<1>5. 0 \in 0 .. PageSize /\ request.size \in Nat /\ request.size < PageSize
  BY <1>2, SizeFacts
<1> DEFINE e == PageChunk(p, 0, request.permission)
<1>6. /\ e \in PageChunkType /\ e.page = p /\ e.cursor = 0 /\ e.permission = request.permission
  BY <1>2, <1>4, <1>5, PageChunkFacts
<1>7. near_chunks' = Append(near_chunks, e)
  BY <1>1 DEF PushPage
<1> HIDE DEF e
<1>8. PICK n \in DOMAIN near_chunks' : near_chunks'[n] = e
  BY <1>6, <1>7, IInvFacts, AppendFacts
<1>9. 0 + request.size < PageSize
  BY <1>5
<1>10. NearFits(n)'
  BY <1>3, <1>4, <1>6, <1>8, <1>9 DEF NearFits, Room
<1> QED
  BY <1>8, <1>10 DEF SearchOnceMore

\* A page that search_near_blank_page has mapped passes the tests of the next
\* round, for every layout of memory: its address by the rounding of the
\* window, its space because the sizes are shorter than a page.  So goto
\* search_once_more is taken at most once in a request.
THEOREM ArenaSearchOnceMore ==
  ASSUME SizesFit
  PROVE  Safety => []SearchOnceMore
<1>1. Init => SearchOnceMore
  BY DEF Init, SearchOnceMore
<1>2. IInv /\ [Next]_vars => IInv'
  BY ArenaStep
<1>3. IInv /\ SearchOnceMore /\ [Next]_vars => SearchOnceMore'
  <2> SUFFICES ASSUME IInv, SearchOnceMore, [Next]_vars PROVE SearchOnceMore'
    OBVIOUS
  <2>1. CASE UNCHANGED vars
    BY <2>1 DEF vars, SearchOnceMore, NearFits
  <2>2. CASE request' = None
    BY <2>2 DEF SearchOnceMore
  <2>3. CASE NearMapPage
    BY <2>3, MapPageFits
  <2>4. ASSUME NEW size \in NearSizes, NEW permission \in Permissions, NEW site \in Sites,
               NearRequest(site, size, permission)
        PROVE  SearchOnceMore'
    BY <2>4 DEF NearRequest, SearchOnceMore
  <2> QED
    BY <2>1, <2>2, <2>3, <2>4
    DEF Next, AllocateChunk, AllocateChunkNewPage, NearFromPage, NearBlankChunk, NearFails
<1> QED
  BY <1>1, <1>2, <1>3, ArenaInit, PTL DEF Safety
=============================================================================
