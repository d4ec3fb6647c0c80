----------------------------- MODULE CodeArenas -----------------------------
(***************************************************************************)
(* Dobby's two allocators of executable and data chunks.  MemoryArena cuts *)
(* chunks from pages that mmap places anywhere; NearMemoryArena wants them *)
(* within branch range of a hook site: it maps pages at addresses it picks *)
(* from the process's memory layout (MAP_FIXED) and, where it finds none,  *)
(* takes bytes of mapped code that look blank.                             *)
(*                                                                         *)
(* Addresses are page * PageSize + offset.  Of the memory's contents only  *)
(* which bytes are zero is kept.  A chunk is never given back              *)
(* (MemoryArena::Destroy is empty).                                        *)
(***************************************************************************)
EXTENDS Integers, Sequences, FiniteSets

CONSTANTS
  PageSize,   \* bytes of a page
  NumPages,   \* bound: pages of the address space
  Image,      \* page -> the file mapped there, or Free
  Free,       \* a page without mapping
  Files,      \* what else is mapped
  Code,       \* those files that are mapped read-execute
  Zeros,      \* the bytes of the code that are zero
  Sizes,      \* sizes asked of MemoryArena
  NearSizes,  \* sizes asked of NearMemoryArena
  Sites,      \* addresses that near chunks are wanted for
  AllocRange, \* alloc_range
  MmapFails,  \* may mmap fail?
  Garbage,    \* may the heap behind the blank_memory buffer hold anything but zeros?
  MaxChunks,  \* bound: chunks handed out
  None

Pages == 0 .. NumPages - 1
Permissions == {"rx", "rw"}
Requests == [site : Sites, size : NearSizes, permission : Permissions, again : BOOLEAN]

ASSUME ArenaAssumption ==
  /\ PageSize \in Nat \ {0} /\ NumPages \in Nat /\ MaxChunks \in Nat
  /\ AllocRange \in Nat \ {0} /\ MmapFails \in BOOLEAN /\ Garbage \in BOOLEAN
  /\ Sizes \subseteq Nat \ {0} /\ NearSizes \subseteq Nat \ {0}
  /\ Sites \subseteq Nat /\ Zeros \subseteq Nat
  /\ Code \subseteq Files /\ Image \in [Pages -> Files \cup {Free}]
  /\ Free \notin Files \cup Permissions /\ Files \cap Permissions = {}
  /\ None \notin Requests /\ None \notin Sites

VARIABLES
  space,       \* page -> Free, a file, or the permission of anonymous memory
  zero,        \* the addresses of bytes that are zero
  page_chunks, \* MemoryArena::page_chunks
  near_chunks, \* NearMemoryArena::page_chunks
  chunks,      \* the chunks handed out, of both
  request,     \* the NearMemoryArena::AllocateChunk in progress
  trespassed   \* pages the near arena has mapped over memory in use

vars == <<space, zero, page_chunks, near_chunks, chunks, request, trespassed>>

PageChunk(p, cursor, permission) ==
  [page |-> p, cursor |-> cursor, permission |-> permission]

Address(p, offset) == p * PageSize + offset
Bytes(a, n) == a .. a + n - 1

Init ==
  /\ space = Image /\ zero = Zeros
  /\ page_chunks = <<>> /\ near_chunks = <<>> /\ chunks = <<>>
  /\ request = None /\ trespassed = {}

-----------------------------------------------------------------------------
(* What both arenas do with a page that has room.                          *)

Room(pc, size, permission) ==
  /\ pc.permission = permission
  /\ pc.cursor + size < PageSize

\* A chunk at an offset of a page it is cut from or, if blank, at an offset of
\* a region that begins with this page.
Chunk(p, offset, size, site, blank) ==
  [page |-> p, offset |-> offset, length |-> size, site |-> site, blank |-> blank]

Apart(c, d) ==
  c.page # d.page \/ c.offset + c.length <= d.offset \/ d.offset + d.length <= c.offset

\* Mutant: the cursor is left where it was.
BugCursorKept(pcs, i, size) == pcs

\* page_cursor += alloc_size
Advance(pcs, i, size) == [pcs EXCEPT ![i].cursor = @ + size]

\* A fresh mapping is zero.
Mapped(p) == zero \cup Bytes(Address(p, 0), PageSize)

\* CodePatch of n bytes at a by the client that asked for the chunk: what may be
\* zero in the end.  The outermost bytes written may be zeros (the low byte of
\* an instruction, the high byte of an address); runs of zeros as long as those
\* looked for are not in what Dobby emits.
Written(z, a, n) ==
  {(z \ Bytes(a, n)) \cup kept : kept \in {{}, {a, a + n - 1} \cap Bytes(a, n)}}

-----------------------------------------------------------------------------
(* MemoryArena.                                                            *)

\* FinalizeFromTurboAssembler asks for four bytes more than it writes.  (Nobody
\* looks for zeros among data.)
Emitted(z, a, size, permission) == IF permission = "rx" THEN Written(z, a, size - 4) ELSE {z}

\* Mutant: the remaining space is not looked at.
BugFitsUnchecked(i, size, permission) == page_chunks[i].permission = permission

Fits(i, size, permission) == Room(page_chunks[i], size, permission)

\* AllocateChunk from the first page that has room.
AllocateChunk(size, permission) ==
  /\ request = None /\ Len(chunks) < MaxChunks
  /\ \E i \in DOMAIN page_chunks :
       LET pc == page_chunks[i]
       IN  /\ Fits(i, size, permission)
           /\ \A j \in 1 .. i - 1 : ~Fits(j, size, permission)
           /\ chunks' = Append(chunks, Chunk(pc.page, pc.cursor, size, None, FALSE))
           /\ page_chunks' = Advance(page_chunks, i, size)
           /\ zero' \in Emitted(zero, Address(pc.page, pc.cursor), size, permission)
  /\ UNCHANGED <<space, near_chunks, request, trespassed>>

\* AllocateChunk from a new page, wherever the kernel puts it; the size is not
\* compared with the page.  (If mmap fails it returns NULL and changes nothing.)
AllocateChunkNewPage(size, permission) ==
  /\ request = None /\ Len(chunks) < MaxChunks
  /\ \A i \in DOMAIN page_chunks : ~Fits(i, size, permission)
  /\ \E p \in Pages :
       /\ space[p] = Free
       /\ space' = [space EXCEPT ![p] = permission]
       /\ page_chunks' = Append(page_chunks, PageChunk(p, size, permission))
       /\ chunks' = Append(chunks, Chunk(p, 0, size, None, FALSE))
       /\ zero' \in Emitted(Mapped(p), Address(p, 0), size, permission)
  /\ UNCHANGED <<near_chunks, request, trespassed>>

-----------------------------------------------------------------------------
(* NearMemoryArena: the process's memory layout.                           *)

\* GetProcessMemoryLayout, the lines of /proc/self/maps: runs of pages of one
\* mapping.
RunEnd(p) == CHOOSE e \in p + 1 .. NumPages :
               /\ \A q \in p .. e - 1 : space[q] = space[p]
               /\ e = NumPages \/ space[e] # space[p]
Regions == {[start |-> p, end |-> RunEnd(p)] :
             p \in {p \in Pages : space[p] # Free /\ (p = 0 \/ space[p - 1] # space[p])}}

\* ALIGN rounds down, so next_page leaves out the page at an aligned address.
NextPage(p) == p + 1

\* Mutant: the address is rounded down.
BugMinPage(pos) == (IF pos > AllocRange THEN pos - AllocRange ELSE 0) \div PageSize

MinPage(pos) == NextPage((IF pos > AllocRange THEN pos - AllocRange ELSE 0) \div PageSize)
MaxPage(pos) == LET p == (pos + AllocRange) \div PageSize IN IF p = 0 THEN 0 ELSE p - 1

\* search_near_blank_page: the pages it maps, from the lowest to the highest,
\* until mmap succeeds (outside the address space it never does).  The blank to
\* the left of a region is only tried at the first region of the window: later
\* ones have been tried as the blank to the right of the region before.
BlankPages(pos) ==
  LET lo == MinPage(pos)
      hi == MaxPage(pos)
      layout == Regions
      before(r) == {s \in layout : s.start < r.start}
      after(r) == {s \in layout : s.start > r.start}
      window == {r \in layout : r.end < hi /\ r.start >= lo}
      belowFirst == {lo : r \in {r \in layout : before(r) = {} /\ lo < r.start}}
      beyondLast == {lo : r \in {r \in layout : after(r) = {} /\ hi < r.end}}
      left == {IF lo > NextPage(q.end) THEN lo ELSE NextPage(q.end) :
                q \in {q \in layout :
                   \E r \in window : /\ before(r) \cap window = {}
                                    /\ q \in before(r) /\ before(r) \cap after(q) = {}
                                    /\ r.start > NextPage(q.end)}}
      right == {NextPage(r.end) : r \in {r \in window :
                 after(r) # {} /\ \A q \in after(r) : r.end < q.start}}
  IN  Pages \cap (belowFirst \cup beyondLast \cup left \cup right)

-----------------------------------------------------------------------------
(* NearMemoryArena: search_near_blank_memory_chunk.                        *)

\* The regions it looks into, in the order of their addresses.
Searched(pos) == {r \in Regions : /\ space[r.start] \in Code \cup {"rx"}
                                  /\ r.end <= MaxPage(pos) /\ r.start >= MinPage(pos)}

\* The length of the buffer of zeros: alloc_size grows by three in each region
\* that is looked into.
BlankMemory(r) ==
  request.size + 3 * Cardinality({q.start : q \in Searched(request.site)} \cap 0 .. r.start - 1)

\* Mutant: no room for alignment.
BugNeedle(r) == BlankMemory(r)

\* memmem is told three bytes more than the buffer has: whatever the heap holds
\* behind it is looked for as well.
Needle(r) == BlankMemory(r) + 3

\* The places of the region where the zeros of the buffer can match, and those
\* where zeros behind it match too.
Hits(r) == {a \in Address(r.start, 0) .. Address(r.end, 0) - Needle(r) :
              Bytes(a, BlankMemory(r)) \subseteq zero}
CleanHits(r) == {a \in Hits(r) : Bytes(a, Needle(r)) \subseteq zero}

\* memmem finds the first place of all if those bytes are zero.  If they are
\* not, it is any place with the same bytes, or none.
Found(r) == {a \in Hits(r) : IF a \in CleanHits(r) THEN \A b \in CleanHits(r) : a <= b
                                                   ELSE Garbage}
Missed(r) == Garbage \/ CleanHits(r) = {}

\* An aligned address is moved, too.
Aligned(a) == a + 4 - (a % 4)

-----------------------------------------------------------------------------
(* NearMemoryArena: AllocateChunk.                                         *)

Distance(a, b) == IF a < b THEN b - a ELSE a - b

\* Mutant: any page with room will do.
BugNearAnywhere(i) == Room(near_chunks[i], request.size, request.permission)

NearFits(i) ==
  /\ Room(near_chunks[i], request.size, request.permission)
  /\ Distance(Address(near_chunks[i].page, near_chunks[i].cursor), request.site) < AllocRange

\* The client writes all of a near code chunk, or drops the chunk because its
\* target is too far for it (and asks for a longer one).
NearEmitted(a) == IF request.permission = "rx" THEN Written(zero, a, request.size) \cup {zero}
                                               ELSE {zero}

NearRequest(site, size, permission) ==
  /\ request = None /\ Len(chunks) < MaxChunks
  /\ request' = [site |-> site, size |-> size, permission |-> permission, again |-> FALSE]
  /\ UNCHANGED <<space, zero, page_chunks, near_chunks, chunks, trespassed>>

NearFromPage ==
  /\ request # None
  /\ \E i \in DOMAIN near_chunks :
       LET pc == near_chunks[i]
       IN  /\ NearFits(i)
           /\ \A j \in 1 .. i - 1 : ~NearFits(j)
           /\ chunks' = Append(chunks, Chunk(pc.page, pc.cursor, request.size, request.site, FALSE))
           /\ near_chunks' = Advance(near_chunks, i, request.size)
           /\ zero' \in NearEmitted(Address(pc.page, pc.cursor))
  /\ request' = None
  /\ UNCHANGED <<space, page_chunks, trespassed>>

NoNearPage == request # None /\ \A i \in DOMAIN near_chunks : ~NearFits(i)

PushPage(p) == Append(near_chunks, PageChunk(p, 0, request.permission))

\* A page is mapped (over whatever is there) and recorded; search_once_more.
NearMapPage ==
  /\ NoNearPage
  /\ LET tries == BlankPages(request.site)
     IN  \E p \in tries :
           /\ ~MmapFails => \A q \in tries : p <= q
           /\ trespassed' = trespassed \cup {q \in {p} : space[q] # Free}
           /\ space' = [space EXCEPT ![p] = request.permission]
           /\ zero' = Mapped(p)
           /\ near_chunks' = PushPage(p)
  /\ request' = [request EXCEPT !.again = TRUE]
  /\ UNCHANGED <<page_chunks, chunks>>

NoBlankPage == NoNearPage /\ (MmapFails \/ BlankPages(request.site) = {})

\* No page was mapped: bytes that look blank are taken from the first region
\* with a match, and not recorded.
NearBlankChunk ==
  /\ NoBlankPage /\ request.permission = "rx"
  /\ \E r \in Searched(request.site) :
       /\ \A q \in Searched(request.site) : q.start < r.start => Missed(q)
       /\ \E a \in Found(r) :
            /\ chunks' = Append(chunks, Chunk(r.start, Aligned(a) - Address(r.start, 0),
                                              request.size, request.site, TRUE))
            /\ zero' \in NearEmitted(Aligned(a))
  /\ request' = None
  /\ UNCHANGED <<space, page_chunks, near_chunks, trespassed>>

\* NULL, if nothing was found; for data blank bytes are not looked for.
NearFails ==
  /\ NoBlankPage
  /\ request.permission = "rx" => \A r \in Searched(request.site) : Missed(r)
  /\ request' = None
  /\ UNCHANGED <<space, zero, page_chunks, near_chunks, chunks, trespassed>>

Next ==
  \/ \E size \in Sizes, permission \in Permissions :
       AllocateChunk(size, permission) \/ AllocateChunkNewPage(size, permission)
  \/ \E size \in NearSizes, permission \in Permissions, site \in Sites :
       NearRequest(site, size, permission)
  \/ NearFromPage \/ NearMapPage \/ NearBlankChunk \/ NearFails

Safety == Init /\ [][Next]_vars

-----------------------------------------------------------------------------
(* Properties.                                                             *)

\* What the callers' sizes have to be, as neither arena looks: MemoryArena cuts
\* the first chunk of a page, and NearMemoryArena starts its search over, on
\* the understanding that the size fits a page.  Relocated code, trampolines
\* and bridges are whole instructions and far shorter than a page, and a page
\* far shorter than the range of a branch.
SizesFit ==
  /\ Sizes \subseteq 1 .. PageSize /\ NearSizes \subseteq 1 .. PageSize - 1
  /\ PageSize < AllocRange
  /\ PageSize % 4 = 0 /\ \A size \in NearSizes : size % 4 = 0

PageChunkType == [page : Pages, cursor : 0 .. PageSize, permission : Permissions]
ChunkType == [page : Pages, offset : Nat, length : Sizes \cup NearSizes,
              site : Sites \cup {None}, blank : BOOLEAN]

\* Pages, cursors and chunks are in range: the cursor of a page never passes
\* its end.
ArenaTypeOK ==
  /\ space \in [Pages -> Files \cup Permissions \cup {Free}]
  /\ zero \subseteq Nat /\ trespassed \subseteq Pages
  /\ page_chunks \in Seq(PageChunkType) /\ near_chunks \in Seq(PageChunkType)
  /\ chunks \in Seq(ChunkType)
  /\ request \in Requests \cup {None}

\* Code emitted into a chunk that was cut from a page never lands in another
\* one, of either arena, unless the near arena has mapped that page over memory
\* in use.
ChunksDisjoint ==
  \A i, j \in DOMAIN chunks :
    (/\ i # j /\ ~chunks[i].blank /\ ~chunks[j].blank
     /\ chunks[i].page \notin trespassed) => Apart(chunks[i], chunks[j])

ChunkBytes(c) == Bytes(Address(c.page, c.offset), c.length)

\* Every byte of a chunk is mapped memory, so that the client can write it:
\* chunks cut from pages stay within them, and blank ones within the region
\* they were found in, although they have been moved past the bytes found.
ChunksMapped ==
  \A i \in DOMAIN chunks : \A a \in ChunkBytes(chunks[i]) :
    \E p \in Pages : space[p] # Free /\ a \in Bytes(Address(p, 0), PageSize)

\* A near chunk begins within branch range of the site it was asked for, so
\* that the `b` at the site reaches it.
NearInRange ==
  \A i \in DOMAIN chunks :
    chunks[i].site # None =>
      Distance(Address(chunks[i].page, chunks[i].offset), chunks[i].site) < AllocRange

\* search_once_more: the page just mapped satisfies the tests of the search, so
\* that a request never maps a second one (and a third, for ever).
SearchOnceMore == request # None /\ request.again => \E i \in DOMAIN near_chunks : NearFits(i)

\* A page the near arena maps was free.
NeverTrespassed == trespassed = {}

\* What remains of the pages an arena has recorded, behind their cursors.
Remaining(pcs) ==
  UNION {Bytes(Address(pcs[i].page, pcs[i].cursor), PageSize - pcs[i].cursor) : i \in DOMAIN pcs}

\* The near arena takes only memory that nobody uses ("check if have blank cave
\* page", "Search code cave from MemoryLayout"): a page it maps was free, and a
\* chunk it finds was blank to its last byte and is not in what MemoryArena
\* ("check the page remain space is enough for the new chunk") or the near
\* arena itself will hand out later.
NearTakesUnused ==
  [][/\ NeverTrespassed'
     /\ \A k \in DOMAIN chunks' \ DOMAIN chunks :
          chunks'[k].blank =>
            ChunkBytes(chunks'[k]) \subseteq zero \ (Remaining(page_chunks) \cup Remaining(near_chunks))]_vars
=============================================================================
