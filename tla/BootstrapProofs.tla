-------------------------- MODULE BootstrapProofs --------------------------
(***************************************************************************)
(* Proofs about Bootstrap for every process image, every list of wanted    *)
(* symbols and any number of events.                                       *)
(*                                                                         *)
(* Three inductive invariants.  BInv holds however early main_thread runs  *)
(* and in whatever order its stores come out: until the handler is saved   *)
(* nothing of the library is visible.  FInv follows the two stores on      *)
(* their way out as long as main_thread was not early and no store has     *)
(* overtaken another, and blames every fault on one of these.  TInv says   *)
(* how far main_thread is and that the addresses it has are right.         *)
(***************************************************************************)
EXTENDS Bootstrap, SequenceTheorems, TLAPS, WellFoundedInduction

Store == {<<"orig", NoFn>>, <<"orig", "engine">>, <<"handler", "ours">>}

\* main_thread before its first store, or after an early return.
Early == {"poll", "resolve", "app", "save", "stopped"}

\* The handlers are functions, and the engine has one once it is ready.
Handlers ==
  /\ appHandler \in {NoFn, "engine", "ours"}
  /\ orig \in {NoFn, "engine"}
  /\ ue = "ready" => appHandler # NoFn
  /\ stores \in Seq(Store)

\* Nothing of the library is in the game yet.
Untouched == hooks = <<>> /\ stores = <<>> /\ orig = NoFn /\ appHandler # "ours"

\* The events are counted.
Counts ==
  /\ event \in {NoEvent, "ours", "forward", "engine"}
  /\ seen \in [given : Nat, ui : Nat, engine : Nat]
  /\ EventOnce

BInv == Handlers /\ (pc \in Early => Untouched) /\ Counts

\* orig_onInputEvent is stored before the handler, so whoever sees the handler
\* sees what it forwards to.
OrigOnly == stores = <<<<"orig", "engine">>>>
Both == stores = <<<<"orig", "engine">>, <<"handler", "ours">>>>
HandlerOnly == stores = <<<<"handler", "ours">>>>
Out == stores = <<>>

Ordered ==
  /\ pc \in Early => Out
  /\ pc = "replace" => OrigOnly \/ (Out /\ orig = "engine")
  /\ pc \in {"draw", "location", "done"} => Both \/ ((HandlerOnly \/ Out) /\ orig = "engine")
  /\ pc \in Early \cup {"replace", "draw", "location", "done"}
  /\ appHandler = "ours" => orig = "engine"
  /\ event \in {"ours", "forward"} => orig = "engine"

FInv ==
  /\ blame \subseteq {"early", "overtaken"}
  /\ gApp \in {NoFn, "app"}
  /\ pc = "save" /\ gApp = NoFn => "early" \in blame
  /\ blame = {} => Ordered
  /\ FaultsExplained

-----------------------------------------------------------------------------
\* A list of stores without one of them is a list of stores (StoreVisible).
LEMMA RemoveAtType ==
  ASSUME NEW S, NEW s \in Seq(S), NEW k \in DOMAIN s
  PROVE  RemoveAt(s, k) \in Seq(S)
<1>1. k \in 1 .. Len(s) /\ Len(s) \in Nat
  BY LenProperties
<1>2. SubSeq(s, 1, k - 1) \in Seq(S)
  <2>1. \A i \in 1 .. k - 1 : s[i] \in S
    BY <1>1, LenProperties, ElementOfSeq
  <2> QED
    BY <1>1, <2>1, SubSeqProperties
<1>3. SubSeq(s, k + 1, Len(s)) \in Seq(S)
  <2>1. \A i \in k + 1 .. Len(s) : s[i] \in S
    BY <1>1, LenProperties, ElementOfSeq
  <2> QED
    BY <1>1, <2>1, SubSeqProperties
<1> QED
  BY <1>2, <1>3, ConcatProperties DEF RemoveAt

\* ... and is shorter.
LEMMA RemoveAtLen ==
  ASSUME NEW S, NEW s \in Seq(S), NEW k \in DOMAIN s
  PROVE  Len(RemoveAt(s, k)) < Len(s) /\ Len(RemoveAt(s, k)) \in Nat /\ Len(s) \in Nat
<1> DEFINE l == SubSeq(s, 1, k - 1)
           r == SubSeq(s, k + 1, Len(s))
<1>1. k \in 1 .. Len(s) /\ Len(s) \in Nat
  BY LenProperties
<1>2. l \in Seq(S) /\ Len(l) = k - 1
  <2>1. \A i \in 1 .. k - 1 : s[i] \in S
    BY <1>1, LenProperties, ElementOfSeq
  <2>2. Len(l) = IF 1 <= k - 1 THEN k - 1 - 1 + 1 ELSE 0
    BY <1>1, <2>1, SubSeqProperties
  <2>3. l \in Seq(S)
    BY <1>1, <2>1, SubSeqProperties
  <2> HIDE DEF l
  <2> QED
    BY <1>1, <2>2, <2>3
<1>3. r \in Seq(S) /\ Len(r) = Len(s) - k
  <2>1. \A i \in k + 1 .. Len(s) : s[i] \in S
    BY <1>1, LenProperties, ElementOfSeq
  <2>2. Len(r) = IF k + 1 <= Len(s) THEN Len(s) - (k + 1) + 1 ELSE 0
    BY <1>1, <2>1, SubSeqProperties
  <2>3. r \in Seq(S)
    BY <1>1, <2>1, SubSeqProperties
  <2> HIDE DEF r
  <2> QED
    BY <1>1, <2>2, <2>3
<1> HIDE DEF l, r
<1>4. Len(l \o r) = Len(l) + Len(r)
  BY <1>2, <1>3, ConcatProperties
<1>5. Len(l \o r) = Len(s) - 1
  BY <1>1, <1>2, <1>3, <1>4
<1>6. RemoveAt(s, k) = l \o r
  BY DEF RemoveAt, l, r
<1> QED
  BY <1>1, <1>5, <1>6

\* The oldest of one or two stores comes out.
LEMMA RemoveFirstOfOne ==
  ASSUME NEW a
  PROVE  RemoveAt(<<a>>, 1) = <<>>
<1>1. SubSeq(<<a>>, 1, 0) = <<>> /\ SubSeq(<<a>>, 2, 1) = <<>>
  BY SubSeqEmpty
<1>2. Len(<<a>>) = 1 /\ <<>> \o <<>> = <<>>
  BY ConcatEmptySeq, EmptySeq
<1> QED
  BY <1>1, <1>2 DEF RemoveAt

LEMMA RemoveFirstOfTwo ==
  ASSUME NEW a, NEW b
  PROVE  RemoveAt(<<a, b>>, 1) = <<b>>
<1> DEFINE rest == SubSeq(<<a, b>>, 2, 2)
<1>1. SubSeq(<<a, b>>, 1, 0) = <<>>
  BY SubSeqEmpty
<1>2. rest \in Seq({a, b}) /\ Len(rest) = 1 /\ rest[1] = b
  <2>1. \A i \in 2 .. 2 : <<a, b>>[i] \in {a, b}
    OBVIOUS
  <2> HIDE DEF rest
  <2>2. /\ rest \in Seq({a, b})
        /\ Len(rest) = IF 2 <= 2 THEN 2 - 2 + 1 ELSE 0
        /\ \A i \in 1 .. 2 - 2 + 1 : rest[i] = <<a, b>>[2 + i - 1]
    BY <2>1, SubSeqProperties DEF rest
  <2> QED
    BY <2>2
<1>3. <<>> \o rest = rest
  BY <1>2, ConcatEmptySeq
<1>4. rest = <<b>>
  <2> HIDE DEF rest
  <2>1. rest \in [1 .. 1 -> {a, b}]
    BY <1>2, LenProperties
  <2> QED
    BY <1>2, <2>1
<1>5. Len(<<a, b>>) = 2 /\ 1 - 1 = 0 /\ 1 + 1 = 2
  OBVIOUS
<1>6. RemoveAt(<<a, b>>, 1) = <<>> \o rest
  BY <1>1, <1>5, Zenon DEF RemoveAt
<1> QED
  BY <1>3, <1>4, <1>6, Zenon

\* A second store.
LEMMA AppendToOne ==
  ASSUME NEW a, NEW b
  PROVE  Append(<<a>>, b) = <<a, b>>
<1>1. <<a>> \in Seq({a, b}) /\ Len(<<a>>) = 1 /\ <<a>>[1] = a
  OBVIOUS
<1> DEFINE two == Append(<<a>>, b)
<1> HIDE DEF two
<1>2. two \in Seq({a, b}) /\ Len(two) = 2 /\ two[1] = a /\ two[2] = b
  BY <1>1, AppendProperties DEF two
<1>3. two \in [1 .. 2 -> {a, b}]
  BY <1>2, LenProperties
<1>4. <<a, b>> \in [1 .. 2 -> {a, b}] /\ <<a, b>>[1] = a /\ <<a, b>>[2] = b
  OBVIOUS
<1>5. \A i \in 1 .. 2 : two[i] = <<a, b>>[i]
  BY <1>2, <1>4
<1>6. two = <<a, b>>
  BY <1>3, <1>4, <1>5
<1> QED
  BY <1>6 DEF two

-----------------------------------------------------------------------------
(* Whatever the order of main_thread and the engine.                       *)

LEMMA BInvInit == Init => BInv
<1> SUFFICES ASSUME Init PROVE BInv
  OBVIOUS
<1> USE DEF Init, NoFn, NoEvent
<1>1. Handlers
  BY EmptySeq DEF Handlers
<1>2. Untouched
  BY DEF Untouched
<1>3. Counts
  BY DEF Counts, EventOnce
<1> QED
  BY <1>1, <1>2, <1>3 DEF BInv

\* The engine and the loader: an event takes its handler from the android_app.
LEMMA BInvEngine ==
  ASSUME BInv, EngineAdvances \/ Engine
  PROVE  BInv'
<1> USE DEF BInv, NoFn, NoEvent, mainVars, engineVars
<1>1. CASE EngineAdvances
  <2>1. Handlers'
    BY <1>1 DEF EngineAdvances, Handlers
  <2>2. pc' \in Early => Untouched'
    BY <1>1 DEF EngineAdvances, Untouched
  <2>3. Counts'
    BY <1>1 DEF EngineAdvances, Counts, EventOnce
  <2> QED
    BY <2>1, <2>2, <2>3
<1>2. CASE Engine
  <2>1. Handlers' /\ (pc' \in Early => Untouched')
    BY <1>2 DEF Engine, EventArrives, OurHandler, ForwardEvent, EngineHandler, Handlers, Untouched
  <2>2. Counts'
    <3> USE DEF Counts, EventOnce
    <3>1. CASE EventArrives
      BY <3>1 DEF EventArrives, Handlers
    <3>2. CASE OurHandler
      BY <3>2 DEF OurHandler
    <3>3. CASE ForwardEvent
      BY <3>3 DEF ForwardEvent, Handlers
    <3>4. CASE EngineHandler
      BY <3>4 DEF EngineHandler
    <3> QED
      BY <1>2, <3>1, <3>2, <3>3, <3>4 DEF Engine
  <2> QED
    BY <2>1, <2>2
<1> QED
  BY <1>1, <1>2

\* main_thread: only SaveHandler leaves Early, and what it saves is the engine's.
LEMMA BInvMain ==
  ASSUME BInv, MainThread \/ StoreVisible
  PROVE  BInv'
<1> USE DEF BInv, NoFn, NoEvent, mainVars, engineVars
<1>1. Counts'
  BY DEF MainThread, Poll, ResolveNext, ReadApp, SaveHandler, ReplaceHandler, HookDraw,
         HookLocation, StoreVisible, Counts, EventOnce
<1>2. CASE Poll \/ ResolveNext \/ ReadApp
  <2>1. UNCHANGED <<ue, appHandler, hooks, orig, stores>> /\ pc \in Early /\ Handlers' /\ Untouched'
    BY <1>2 DEF Poll, ResolveNext, ReadApp, Early, Handlers, Untouched
  <2> QED
    BY <1>1, <2>1
<1>3. CASE SaveHandler
  <2>1. pc \in Early /\ Untouched /\ pc' \notin Early
    BY <1>3 DEF SaveHandler, Early
  <2>2. <<"orig", appHandler>> \in Store
    BY <2>1 DEF Store, Handlers, Untouched
  <2>3. Handlers'
    BY <1>3, <2>2, AppendProperties DEF SaveHandler, Handlers
  <2> QED
    BY <1>1, <2>1, <2>3
<1>4. CASE ReplaceHandler \/ HookDraw \/ HookLocation
  <2>1. pc' \notin Early
    BY <1>4 DEF ReplaceHandler, HookDraw, HookLocation, Early
  <2>2. <<"handler", "ours">> \in Store
    BY DEF Store
  <2>3. Handlers'
    BY <1>4, <2>2, AppendProperties DEF ReplaceHandler, HookDraw, HookLocation, Handlers
  <2> QED
    BY <1>1, <2>1, <2>3
<1>5. CASE StoreVisible
  <2>1. PICK k \in DOMAIN stores :
          /\ orig' = IF stores[k][1] = "orig" THEN stores[k][2] ELSE orig
          /\ appHandler' = IF stores[k][1] = "handler" THEN stores[k][2] ELSE appHandler
          /\ stores' = RemoveAt(stores, k)
    BY <1>5 DEF StoreVisible
  <2>2. UNCHANGED <<ue, pc>>
    BY <1>5 DEF StoreVisible
  <2>3. stores \in Seq(Store) /\ stores[k] \in Store
    BY LenProperties, ElementOfSeq DEF Handlers
  <2>4. stores' \in Seq(Store)
    BY <2>1, <2>3, RemoveAtType
  <2>5. stores[k] = <<"orig", NoFn>> \/ stores[k] = <<"orig", "engine">> \/ stores[k] = <<"handler", "ours">>
    BY <2>3 DEF Store
  <2>6. Handlers'
    BY <2>1, <2>2, <2>4, <2>5 DEF Handlers
  <2>7. stores # <<>>
    BY <2>1, EmptySeq
  <2>8. pc' \notin Early
    BY <2>2, <2>7 DEF Untouched
  <2> QED
    BY <1>1, <2>6, <2>8
<1> QED
  BY <1>2, <1>3, <1>4, <1>5 DEF MainThread

LEMMA BInvNext == BInv /\ [Next]_vars => BInv'
<1> SUFFICES ASSUME BInv, [Next]_vars PROVE BInv'
  OBVIOUS
<1>1. CASE UNCHANGED vars
  BY <1>1 DEF vars, mainVars, engineVars, BInv, Handlers, Untouched, Counts, EventOnce
<1> QED
  BY <1>1, BInvEngine, BInvMain DEF Next

\* In every order of the loader, main_thread, its stores and the engine's
\* events, each event reaches the engine's handler exactly once and the menu at
\* most once (onInputEvent, main_thread).
THEOREM BootEventOnce == Spec => []EventOnce
<1>1. BInv => EventOnce
  BY DEF BInv, Counts
<1> QED
  BY <1>1, BInvInit, BInvNext, PTL DEF Spec

\* main_thread that returns early has changed nothing in the game.
THEOREM BootAllOrNothing == Spec => []AllOrNothing
<1>1. BInv => AllOrNothing
  BY DEF BInv, Early, Untouched, AllOrNothing
<1> QED
  BY <1>1, BInvInit, BInvNext, PTL DEF Spec

-----------------------------------------------------------------------------
(* What a fault comes from.                                                *)

\* Data that is started is mapped.
LEMMA StartedMapped == Reached("started") => Reached("mapped")
<1>1. DOMAIN Stages = 1 .. 6 /\ Stages[3] = "mapped" /\ Stages[5] = "started"
  BY DEF Stages
<1>2. \A i \in 1 .. 6 : Stages[i] = "started" => i = 5
  <2>1. /\ Stages[1] = "absent" /\ Stages[2] = "first" /\ Stages[3] = "mapped"
        /\ Stages[4] = "linked" /\ Stages[5] = "started" /\ Stages[6] = "ready"
    BY DEF Stages
  <2>2. \A i \in 1 .. 6 : i = 1 \/ i = 2 \/ i = 3 \/ i = 4 \/ i = 5 \/ i = 6
    OBVIOUS
  <2> QED
    BY <2>1, <2>2
<1> SUFFICES ASSUME Reached("started") PROVE Reached("mapped")
  OBVIOUS
<1>3. PICK i \in 1 .. 6, j \in 1 .. 6 : Stages[i] = "started" /\ Stages[j] = ue /\ i <= j
  BY <1>1 DEF Reached
<1>4. 3 \in DOMAIN Stages /\ j \in DOMAIN Stages /\ 3 <= j
  BY <1>1, <1>2, <1>3
<1> QED
  BY <1>1, <1>3, <1>4, Zenon DEF Reached

LEMMA FInvInit == Init => FInv
  BY DEF Init, FInv, Ordered, FaultsExplained, Early, Out, NoFn, NoEvent

\* An event goes through orig_onInputEvent only after the handler was seen.
LEMMA FInvEngine ==
  ASSUME BInv, FInv, EngineAdvances \/ Engine
  PROVE  FInv'
<1> USE DEF NoFn, NoEvent, mainVars, engineVars
<1>1. UNCHANGED <<pc, gApp, stores, orig, blame>> /\ ~crashed
  BY DEF EngineAdvances, Engine, EventArrives, OurHandler, ForwardEvent, EngineHandler
<1>2. blame = {} => Ordered'
  <2> SUFFICES ASSUME blame = {} PROVE Ordered'
    OBVIOUS
  <2>0. Ordered
    BY DEF FInv
  <2> USE <2>0 DEF Ordered, OrigOnly, Both, HandlerOnly, Out
  <2>1. CASE EngineAdvances
    BY <2>1 DEF EngineAdvances
  <2>2. CASE EventArrives
    BY <2>2 DEF EventArrives, BInv, Handlers
  <2>3. CASE OurHandler
    BY <2>3 DEF OurHandler
  <2>4. CASE ForwardEvent
    BY <2>4 DEF ForwardEvent
  <2>5. CASE EngineHandler
    BY <2>5 DEF EngineHandler
  <2> QED
    BY <2>1, <2>2, <2>3, <2>4, <2>5 DEF Engine
<1>3. FaultsExplained'
  <2>1. CASE ForwardEvent
    <3>1. crashed' => orig = NoFn /\ event = "forward" /\ event' = "forward"
      BY <2>1 DEF ForwardEvent
    <3>2. crashed' => blame # {}
      BY <3>1 DEF FInv, Ordered
    <3>3. crashed' => "early" \in blame \/ "overtaken" \in blame
      BY <3>2 DEF FInv
    <3> QED
      BY <1>1, <3>1, <3>3 DEF FaultsExplained
  <2>2. CASE EngineAdvances \/ EventArrives \/ OurHandler \/ EngineHandler
    BY <1>1, <2>2 DEF EngineAdvances, EventArrives, OurHandler, EngineHandler, FaultsExplained
  <2> QED
    BY <2>1, <2>2 DEF Engine
<1> QED
  BY <1>1, <1>2, <1>3 DEF FInv

\* main_thread: with a g_App and an engine that is ready, what it saves is the
\* engine's own handler.
LEMMA FInvMain ==
  ASSUME BInv, FInv, MainThread
  PROVE  FInv'
<1> USE DEF NoFn, NoEvent, mainVars, engineVars
<1>1. CASE Poll \/ ResolveNext
  <2>1. /\ UNCHANGED <<gApp, stores, orig, appHandler, event, blame, crashed>> /\ pc \in Early
        /\ pc' \in {"poll", "resolve", "app", "stopped"}
    BY <1>1 DEF Poll, ResolveNext, Early
  <2>2. blame = {} => Ordered'
    BY <2>1 DEF FInv, Ordered, Out, Early
  <2> QED
    BY <2>1, <2>2 DEF FInv, FaultsExplained
<1>2. CASE ReadApp
  <2>1. /\ pc = "app" /\ pc' = "save" /\ ~crashed /\ crashed' = ~Reached("mapped")
        /\ gApp' = IF Reached("started") THEN "app" ELSE NoFn
        /\ blame' = IF Reached("started") THEN blame ELSE blame \cup {"early"}
        /\ UNCHANGED <<stores, orig, appHandler, event>>
    BY <1>2 DEF ReadApp
  <2>2. blame' = {} => Ordered'
    BY <2>1 DEF FInv, Ordered, Out, Early
  <2>3. FaultsExplained'
    BY <2>1, StartedMapped DEF FaultsExplained
  <2> QED
    BY <2>1, <2>2, <2>3 DEF FInv
<1>3. CASE SaveHandler
  <2>1. /\ pc = "save" /\ pc' = "replace" /\ ~crashed /\ crashed' = (gApp = NoFn)
        /\ blame' = IF ue = "ready" THEN blame ELSE blame \cup {"early"}
        /\ stores' = Append(stores, <<"orig", appHandler>>)
        /\ UNCHANGED <<ue, gApp, orig, appHandler, event>>
    BY <1>3 DEF SaveHandler
  <2>2. stores = <<>> /\ appHandler # "ours"
    BY <2>1 DEF BInv, Early, Untouched
  <2>3. ASSUME blame' = {} PROVE Ordered'
    <3>1. ue = "ready" /\ Ordered
      BY <2>1, <2>3 DEF FInv
    <3>2. appHandler = "engine"
      BY <2>2, <3>1 DEF BInv, Handlers
    <3>3. stores' = <<<<"orig", "engine">>>>
      BY <2>1, <2>2, <3>2
    <3> QED
      BY <2>1, <3>1, <3>3 DEF Ordered, Early, OrigOnly
  <2>4. FaultsExplained'
    BY <2>1 DEF FaultsExplained, FInv
  <2> QED
    BY <2>1, <2>3, <2>4 DEF FInv
<1>4. CASE ReplaceHandler
  <2>1. /\ pc = "replace" /\ pc' = "draw" /\ ~crashed
        /\ stores' = Append(stores, <<"handler", "ours">>)
        /\ UNCHANGED <<gApp, orig, appHandler, event, crashed, blame>>
    BY <1>4 DEF ReplaceHandler
  <2>2. OrigOnly => Both'
    BY <2>1, AppendToOne DEF OrigOnly, Both
  <2>3. Out => HandlerOnly'
    BY <2>1 DEF Out, HandlerOnly
  <2>4. blame = {} => Ordered'
    BY <2>1, <2>2, <2>3 DEF FInv, Ordered, Early
  <2> QED
    BY <2>1, <2>4 DEF FInv, FaultsExplained
<1>5. CASE HookDraw \/ HookLocation
  <2>1. /\ pc \in {"draw", "location"} /\ pc' \in {"location", "done"} /\ ~crashed
        /\ UNCHANGED <<gApp, orig, stores, appHandler, event, crashed, blame>>
    BY <1>5 DEF HookDraw, HookLocation
  <2>2. blame = {} => Ordered'
    BY <2>1 DEF FInv, Ordered, Early, Both, HandlerOnly, Out
  <2> QED
    BY <2>1, <2>2 DEF FInv, FaultsExplained
<1> QED
  BY <1>1, <1>2, <1>3, <1>4, <1>5 DEF MainThread

\* The oldest store comes out first, or the other has overtaken it.
LEMMA FInvStore ==
  ASSUME FInv, StoreVisible
  PROVE  FInv'
<1> USE DEF NoFn, mainVars, engineVars
<1>1. PICK k \in DOMAIN stores :
        /\ orig' = IF stores[k][1] = "orig" THEN stores[k][2] ELSE orig
        /\ appHandler' = IF stores[k][1] = "handler" THEN stores[k][2] ELSE appHandler
        /\ stores' = RemoveAt(stores, k)
        /\ blame' = IF k = 1 THEN blame ELSE blame \cup {"overtaken"}
  BY DEF StoreVisible
<1>2. UNCHANGED <<ue, pc, gApp, event, crashed>> /\ ~crashed
  BY DEF StoreVisible
<1>3. FaultsExplained'
  BY <1>2 DEF FaultsExplained
<1>4. ASSUME blame' = {} PROVE Ordered'
  <2>1. k = 1 /\ Ordered
    BY <1>1, <1>4 DEF FInv
  <2>2. ~Out
    BY <1>1, EmptySeq DEF Out
  <2>3. CASE OrigOnly
    <3>1. Out' /\ orig' = "engine" /\ appHandler' = appHandler
      BY <1>1, <2>1, <2>3, RemoveFirstOfOne DEF OrigOnly, Out
    <3>2. pc = "replace"
      BY <2>1, <2>2, <2>3 DEF Ordered, OrigOnly, Both, HandlerOnly
    <3> QED
      BY <1>2, <3>1, <3>2 DEF Ordered, Early
  <2>4. CASE Both
    <3>1. stores[1] = <<"orig", "engine">>
      BY <2>4 DEF Both
    <3>2. HandlerOnly' /\ orig' = "engine" /\ appHandler' = appHandler
      BY <1>1, <2>1, <2>4, <3>1, RemoveFirstOfTwo DEF Both, HandlerOnly
    <3>3. pc \in {"draw", "location", "done"}
      BY <2>1, <2>2, <2>4 DEF Ordered, OrigOnly, Both
    <3> QED
      BY <1>2, <3>2, <3>3 DEF Ordered, Early
  <2>5. CASE HandlerOnly
    <3>1. Out' /\ orig' = orig /\ appHandler' = "ours"
      BY <1>1, <2>1, <2>5, RemoveFirstOfOne DEF HandlerOnly, Out
    <3>2. pc \in {"draw", "location", "done"} /\ orig = "engine"
      BY <2>1, <2>2, <2>5 DEF Ordered, OrigOnly, Both, HandlerOnly
    <3> QED
      BY <1>2, <3>1, <3>2 DEF Ordered, Early
  <2> QED
    BY <2>1, <2>2, <2>3, <2>4, <2>5 DEF Ordered
<1> QED
  BY <1>1, <1>2, <1>3, <1>4 DEF FInv

LEMMA FInvNext == BInv /\ FInv /\ [Next]_vars => FInv'
<1> SUFFICES ASSUME BInv, FInv, [Next]_vars PROVE FInv'
  OBVIOUS
<1>1. CASE UNCHANGED vars
  BY <1>1 DEF vars, mainVars, engineVars, FInv, Ordered, FaultsExplained, OrigOnly, Both, HandlerOnly, Out
<1> QED
  BY <1>1, FInvEngine, FInvMain, FInvStore DEF Next

\* However early main_thread runs and in whatever order its stores come out, a
\* fault comes from a g_App or a handler read before the engine had it, or from
\* an event forwarded while the second store had overtaken the first: nothing
\* else that the loader, main_thread, the engine and its events do together can
\* fault (main_thread, onInputEvent).
THEOREM BootFaultsExplained == Spec => []FaultsExplained
<1>1. FInv => FaultsExplained
  BY DEF FInv
<1> QED
  BY <1>1, BInvInit, BInvNext, FInvInit, FInvNext, PTL DEF Spec

-----------------------------------------------------------------------------
(* The resolver.                                                           *)

\* A nonempty set of numbers has a least element.
LEMMA LeastNumber ==
  ASSUME NEW S, S \subseteq Nat, S # {}
  PROVE  \E x \in S : \A y \in S : x <= y
<1> DEFINE R == {ss \in Nat \X Nat : ss[1] < ss[2]}
<1>1. IsWellFoundedOn(R, Nat)
  BY NatLessThanWellFounded DEF OpToRel
<1> HIDE DEF R
<1>2. PICK x \in S : \A y \in S : ~(<<y, x>> \in R)
  BY <1>1, WFMin
<1>3. ASSUME NEW y \in S PROVE x <= y
  <2>1. x \in Nat /\ y \in Nat /\ <<y, x>> \in Nat \X Nat
    OBVIOUS
  <2>2. y < x => <<y, x>> \in R
    BY <2>1 DEF R
  <2> QED
    BY <1>2, <2>1, <2>2
<1> QED
  BY <1>3

\* The first of some mappings is one of them (GetProcessModule).
LEMMA FirstIn ==
  ASSUME NEW S, \A m \in S : m.start \in Nat, S # {}
  PROVE  First(S) \in S
<1> DEFINE T == {m.start : m \in S}
<1>1. T \subseteq Nat /\ T # {}
  OBVIOUS
<1>2. PICK x \in T : \A y \in T : x <= y
  <2> HIDE DEF T
  <2> QED
    BY <1>1, LeastNumber
<1>3. \E m \in S : \A n \in S : m.start <= n.start
  BY <1>2
<1> QED
  BY <1>3, Zenon DEF First

\* What iterate_symbol_table_impl returns is the value of an entry, and with
\* one entry for the name it is that entry's.
LEMMA TableFacts ==
  ASSUME NEW t, TableOK(t), NEW name
  PROVE  /\ IterateSymbolTable(t, name) \in Nat
         /\ IterateSymbolTable(t, name) # NULL =>
              \E e \in Range(t) : e[1] = name /\ e[2] = IterateSymbolTable(t, name)
         /\ \A e \in Range(t) : e[1] = name => IterateSymbolTable(t, name) = e[2]
<1> DEFINE hits == {k \in DOMAIN t : t[k][1] = name}
<1>1. CASE hits = {}
  <2>1. IterateSymbolTable(t, name) = NULL
    BY <1>1 DEF IterateSymbolTable
  <2>2. \A e \in Range(t) : e[1] # name
    BY <1>1 DEF Range
  <2> QED
    BY <2>1, <2>2 DEF NULL
<1>2. CASE hits # {}
  <2> DEFINE k == CHOOSE k \in hits : \A j \in hits : k <= j
  <2>1. IterateSymbolTable(t, name) = t[k][2]
    BY <1>2, Zenon DEF IterateSymbolTable
  <2>2. hits \subseteq Nat
    BY DEF TableOK
  <2>3. \E x \in hits : \A j \in hits : x <= j
    <3> HIDE DEF hits
    <3> QED
      BY <1>2, <2>2, LeastNumber
  <2>4. k \in hits
    <3> HIDE DEF hits
    <3> QED
      BY <2>3, Zenon
  <2> HIDE DEF k
  <2>5. k \in DOMAIN t /\ t[k][1] = name /\ t[k] \in Range(t) /\ t[k][2] \in Nat
    BY <2>4 DEF Range, TableOK
  <2>6. \A e \in Range(t) : e[1] = name => e = t[k]
    BY <2>5 DEF Range, TableOK
  <2> QED
    BY <2>1, <2>5, <2>6
<1> QED
  BY <1>1, <1>2

\* The world the process is in.
LEMMA WorldFacts ==
  ASSUME world \in Worlds
  PROVE  WorldOK(world)
BY BootAssumption

\* elf_ctx_iterate_symbol_table: an address in a library is a definition, and
\* a library with a definition has an address.
LEMMA ElfSymbolFacts ==
  ASSUME world \in Worlds, NEW p \in DOMAIN world.files, NEW name
  PROVE  /\ ElfSymbol(world.files[p], name) \in Nat
         /\ ElfSymbol(world.files[p], name) # NULL =>
              world.base[p] + ElfSymbol(world.files[p], name) \in Definitions(p, name)
         /\ Definitions(p, name) # {} => ElfSymbol(world.files[p], name) # NULL
<1> DEFINE f == world.files[p]
           s == IterateSymbolTable(f.symtab, name)
           d == IterateSymbolTable(f.dynsym, name)
<1>1. TableOK(f.symtab) /\ TableOK(f.dynsym)
  BY WorldFacts DEF WorldOK
<1>2. /\ s \in Nat
      /\ s # NULL => \E e \in Range(f.symtab) : e[1] = name /\ e[2] = s
      /\ \A e \in Range(f.symtab) : e[1] = name => s = e[2]
  BY <1>1, TableFacts
<1>3. /\ d \in Nat
      /\ d # NULL => \E e \in Range(f.dynsym) : e[1] = name /\ e[2] = d
      /\ \A e \in Range(f.dynsym) : e[1] = name => d = e[2]
  BY <1>1, TableFacts
<1>4. ElfSymbol(f, name) = IF s # NULL THEN s ELSE d
  BY DEF ElfSymbol
<1> DEFINE E == {e \in Range(f.symtab) \cup Range(f.dynsym) : e[1] = name /\ e[2] # NULL}
<1>5. Definitions(p, name) = {world.base[p] + e[2] : e \in E}
  BY DEF Definitions
<1>6. ASSUME ElfSymbol(f, name) # NULL PROVE \E e \in E : e[2] = ElfSymbol(f, name)
  BY <1>2, <1>3, <1>4, <1>6
<1>7. E # {} => ElfSymbol(f, name) # NULL
  BY <1>2, <1>3, <1>4
<1>8. ElfSymbol(f, name) \in Nat
  BY <1>2, <1>3, <1>4
<1> HIDE DEF E, f
<1>9. ElfSymbol(f, name) # NULL => world.base[p] + ElfSymbol(f, name) \in Definitions(p, name)
  BY <1>5, <1>6
<1>10. Definitions(p, name) # {} => E # {}
  BY <1>5
<1> QED
  BY <1>7, <1>8, <1>9, <1>10 DEF f

\* The address computed from a mapping with an ELF header is where the linker
\* has put the symbol, whatever the first segment's address and offset are and
\* whether PT_PHDR or PT_LOAD decides the bias.
LEMMA InModuleFacts ==
  ASSUME world \in Worlds, NEW m \in world.maps, m.header, NEW name
  PROVE  /\ m.path \in DOMAIN Files /\ ElfSymbol(world.files[m.path], name) # NULL =>
              InModule(m, Files, name) = world.base[m.path] + ElfSymbol(world.files[m.path], name)
         /\ InModule(m, Files, name) # NULL =>
              m.path \in DOMAIN Files /\ ElfSymbol(world.files[m.path], name) # NULL
<1>1. m # NotFound
  BY WorldFacts DEF WorldOK
<1>2. CASE m.path \notin DOMAIN Files
  BY <1>2 DEF InModule
<1>3. CASE m.path \in DOMAIN Files
  <2> DEFINE f == world.files[m.path]
             r == ElfSymbol(f, name)
  <2>1. Files[m.path] = f /\ m.path \in DOMAIN world.files
    BY <1>3 DEF Files
  <2>2. InModule(m, Files, name) =
          IF r = NULL THEN NULL ELSE r + m.start - (FileMem - LoadBias(f, FileMem))
    BY <1>1, <1>3, <2>1 DEF InModule
  <2>3. f.v0 \in Nat /\ f.o0 \in Nat /\ world.base[m.path] \in Nat /\ r \in Nat
    BY <2>1, WorldFacts, ElfSymbolFacts DEF WorldOK
  <2>4. m.start = world.base[m.path] + f.v0 - f.o0
    BY <2>1, WorldFacts DEF WorldOK
  <2>5. FileMem - LoadBias(f, FileMem) = f.v0 - f.o0
    <3>1. PhOff \in Nat /\ FileMem \in Nat
      BY BootAssumption
    <3> QED
      BY <2>3, <3>1 DEF LoadBias
  <2> HIDE DEF f, r
  <2>6. r + m.start - (FileMem - LoadBias(f, FileMem)) = world.base[m.path] + r
    BY <2>3, <2>4, <2>5
  <2> QED
    BY <1>3, <2>2, <2>6 DEF f, r
<1> QED
  BY <1>2, <1>3

\* Once a mapping of libUE4 was seen, so is the one with its header.
LEMMA HeaderSeen ==
  ASSUME world \in Worlds, ue \in Range(Stages), ue # "absent"
  PROVE  \E m \in Maps : m.path = UE /\ m.header
<1>1. /\ DOMAIN Stages = 1 .. 6 /\ Stages[1] = "absent" /\ Stages[2] = "first"
  BY DEF Stages
<1>2. PICK j \in 1 .. 6 : Stages[j] = ue
  BY <1>1 DEF Range
<1>3. 2 <= j /\ 2 \in 1 .. 6
  BY <1>1, <1>2
<1>4. Reached("first")
  BY <1>1, <1>2, <1>3, Zenon DEF Reached
<1>5. PICK m \in world.maps : m.path = UE /\ m.header /\ m.from = "first"
  BY WorldFacts DEF WorldOK
<1> QED
  BY <1>4, <1>5 DEF Maps

\* GetProcessModule finds libUE4, and it alone.
LEMMA ModuleIsUE ==
  ASSUME world \in Worlds, ue \in Range(Stages), ue # "absent"
  PROVE  /\ GetProcessModule(Maps, Named) \in world.maps
         /\ GetProcessModule(Maps, Named).path = UE /\ GetProcessModule(Maps, Named).header
<1> DEFINE hits == {m \in ProcessModuleMap(Maps) : m.path \in Named}
<1>1. hits # {}
  <2>1. PICK m \in Maps : m.path = UE /\ m.header
    BY HeaderSeen
  <2>2. m \in world.maps /\ m.path \in Named
    BY <2>1, WorldFacts DEF Maps, WorldOK
  <2> QED
    BY <2>1, <2>2 DEF ProcessModuleMap
<1>2. \A m \in hits : m \in world.maps /\ m.start \in Nat /\ m.header /\ m.path = UE
  BY WorldFacts DEF ProcessModuleMap, Maps, WorldOK
<1>3. GetProcessModule(Maps, Named) = First(hits)
  BY <1>1 DEF GetProcessModule
<1> HIDE DEF hits
<1>4. First(hits) \in hits
  BY <1>1, <1>2, FirstIn
<1> QED
  BY <1>2, <1>3, <1>4

\* What dlsym gives is a definition of a library in the global scope.
LEMMA DlsymFacts ==
  ASSUME world \in Worlds, NEW name, Dlsym(name) # NULL
  PROVE  \E p \in world.linked : Dlsym(name) \in Definitions(p, name)
<1> DEFINE hits == {p \in world.linked : /\ p = UE => Reached("linked")
                                         /\ IterateSymbolTable(world.files[p].dynsym, name) # NULL}
           p == CHOOSE p \in hits : TRUE
<1>1. hits # {} /\ Dlsym(name) = RuntimeAddress(p, name)
  BY DEF Dlsym
<1>2. p \in hits
  BY <1>1
<1>3. p \in world.linked /\ p \in DOMAIN world.files
  BY <1>2, WorldFacts DEF WorldOK
<1> HIDE DEF p
<1>4. ElfSymbol(world.files[p], name) # NULL
  BY <1>1 DEF RuntimeAddress
<1>5. Dlsym(name) = world.base[p] + ElfSymbol(world.files[p], name)
  BY <1>1, <1>4 DEF RuntimeAddress
<1> QED
  BY <1>3, <1>4, <1>5, ElfSymbolFacts

\* Definitions are numbers and never NULL.
LEMMA DefinitionFacts ==
  ASSUME world \in Worlds, NEW p \in DOMAIN world.files, NEW name, NEW a \in Definitions(p, name)
  PROVE  a \in Nat /\ a # NULL
<1>1. world.base[p] \in Nat /\ TableOK(world.files[p].symtab) /\ TableOK(world.files[p].dynsym)
  BY WorldFacts DEF WorldOK
<1>2. PICK e \in Range(world.files[p].symtab) \cup Range(world.files[p].dynsym) :
        e[2] # NULL /\ a = world.base[p] + e[2]
  BY DEF Definitions
<1>3. e[2] \in Nat
  BY <1>1, <1>2 DEF Range, TableOK
<1> QED
  BY <1>1, <1>2, <1>3 DEF NULL

\* DobbySymbolResolver gives the right address or NULL.
LEMMA ResolverRight ==
  ASSUME world \in Worlds, ue \in Range(Stages), ue # "absent", NEW name, NEW a,
         a = DobbySymbolResolver(Dlsym(name), Maps, Files, Named, name), a # NULL
  PROVE  a \in Nat /\ RightAddress(a, name)
<1> SUFFICES \E p \in DOMAIN world.base :
               /\ a \in Definitions(p, name)
               /\ /\ Definitions(UE, name) # {} /\ world.files[UE].onDisk
                  /\ \A q \in world.linked \ {UE} : Definitions(q, name) = {}
                  => p = UE
  <2>1. DOMAIN world.base = DOMAIN world.files
    BY WorldFacts DEF WorldOK
  <2> QED
    BY <2>1, DefinitionFacts DEF RightAddress
<1>1. /\ DOMAIN world.base = DOMAIN world.files /\ world.linked \subseteq DOMAIN world.files
      /\ UE \in DOMAIN world.files
  BY WorldFacts DEF WorldOK
<1>2. CASE Dlsym(name) # NULL
  <2>1. a = Dlsym(name)
    BY <1>2 DEF DobbySymbolResolver
  <2>2. PICK p \in world.linked : a \in Definitions(p, name)
    BY <1>2, <2>1, DlsymFacts
  <2> QED
    BY <1>1, <2>2
<1>3. CASE Dlsym(name) = NULL
  <2> DEFINE ueModule == GetProcessModule(Maps, Named)
             r == InModule(ueModule, Files, name)
             hits == {m \in ProcessModuleMap(Maps) : InModule(m, Files, name) # NULL}
  <2>1. a = IF r # NULL THEN r ELSE IF hits = {} THEN NULL ELSE InModule(First(hits), Files, name)
    BY <1>3 DEF DobbySymbolResolver, ResolveElfInternalSymbol
  <2>2. ueModule \in world.maps /\ ueModule.path = UE /\ ueModule.header
    BY ModuleIsUE
  <2> HIDE DEF ueModule
  <2>3. /\ UE \in DOMAIN Files /\ ElfSymbol(world.files[UE], name) # NULL =>
             r = world.base[UE] + ElfSymbol(world.files[UE], name)
        /\ r # NULL => UE \in DOMAIN Files /\ ElfSymbol(world.files[UE], name) # NULL
    BY <2>2, InModuleFacts
  <2> HIDE DEF r
  <2>4. CASE r # NULL
    <3>1. a = r
      BY <2>1, <2>4
    <3>2. a \in Definitions(UE, name)
      BY <1>1, <2>3, <2>4, <3>1, ElfSymbolFacts
    <3> QED
      BY <1>1, <3>2
  <2>5. CASE r = NULL
    <3>1. hits # {} /\ a = InModule(First(hits), Files, name)
      BY <2>1, <2>5
    <3>2. \A m \in hits : m \in world.maps /\ m.start \in Nat /\ m.header /\ InModule(m, Files, name) # NULL
      BY WorldFacts DEF ProcessModuleMap, Maps, WorldOK
    <3> DEFINE m == First(hits)
    <3>3. m \in hits
      <4> HIDE DEF hits
      <4> QED
        BY <3>1, <3>2, FirstIn
    <3> HIDE DEF m, hits
    <3>4. m \in world.maps /\ m.header /\ InModule(m, Files, name) # NULL
      BY <3>2, <3>3
    <3>5. m.path \in DOMAIN Files /\ ElfSymbol(world.files[m.path], name) # NULL
      BY <3>4, InModuleFacts
    <3>6. a = world.base[m.path] + ElfSymbol(world.files[m.path], name)
      BY <3>1, <3>4, <3>5, InModuleFacts DEF m
    <3>7. m.path \in DOMAIN world.files
      BY <3>5 DEF Files
    <3>8. a \in Definitions(m.path, name)
      BY <3>5, <3>6, <3>7, ElfSymbolFacts
    <3>9. ~(Definitions(UE, name) # {} /\ world.files[UE].onDisk)
      <4> SUFFICES ASSUME Definitions(UE, name) # {}, world.files[UE].onDisk PROVE FALSE
        OBVIOUS
      <4>1. UE \in DOMAIN Files
        BY <1>1 DEF Files
      <4>2. ElfSymbol(world.files[UE], name) # NULL
        BY <1>1, ElfSymbolFacts
      <4>3. r \in Definitions(UE, name)
        BY <1>1, <2>3, <4>1, <4>2, ElfSymbolFacts
      <4> QED
        BY <1>1, <2>5, <4>3, DefinitionFacts
    <3> QED
      BY <1>1, <3>7, <3>8, <3>9
  <2> QED
    BY <2>4, <2>5
<1> QED
  BY <1>2, <1>3

-----------------------------------------------------------------------------
(* main_thread's way through its symbols and hooks.                        *)

\* main_thread has all its symbols.
Resolved == {"app", "save", "replace", "draw", "location", "done"}

Progress ==
  /\ pc \in {"poll", "resolve", "stopped"} \cup Resolved
  /\ pc # "poll" => ue # "absent"
  /\ pc = "poll" => found = <<>>
  /\ pc = "resolve" => Len(found) < Len(Wanted)
  /\ pc \in Resolved => Len(found) = Len(Wanted)
  /\ pc \notin {"location", "done"} => hooks = <<>>
  /\ pc = "location" => Len(hooks) <= 1
  /\ pc = "replace" => Len(stores) <= 1

TInv ==
  /\ world \in Worlds /\ ue \in Range(Stages) /\ module \in Nat
  /\ found \in Seq(Nat) /\ Len(found) <= Len(Wanted)
  /\ hooks \in Seq(Nat) /\ Len(hooks) <= 2 /\ Len(stores) <= 2
  /\ Progress /\ ResolvedRight

LEMMA StageFacts ==
  /\ DOMAIN Stages = 1 .. 6 /\ Stages[1] = "absent"
  /\ \A i \in 1 .. 6 : Stages[i] \in Range(Stages) /\ (Stages[i] = "absent" => i = 1)
  /\ \A i \in 1 .. 6 : Stages[i] # "ready" => i + 1 \in 1 .. 6
<1>1. /\ DOMAIN Stages = 1 .. 6
      /\ Stages[1] = "absent" /\ Stages[2] = "first" /\ Stages[3] = "mapped"
      /\ Stages[4] = "linked" /\ Stages[5] = "started" /\ Stages[6] = "ready"
  BY DEF Stages
<1>2. \A i \in 1 .. 6 : i = 1 \/ i = 2 \/ i = 3 \/ i = 4 \/ i = 5 \/ i = 6
  OBVIOUS
<1>3. \A i \in 1 .. 6 : Stages[i] \in Range(Stages)
  BY <1>1, Zenon DEF Range
<1>4. \A i \in 1 .. 6 : Stages[i] = "absent" => i = 1
  BY <1>1, <1>2
<1>5. \A i \in 1 .. 6 : Stages[i] # "ready" => i + 1 \in 1 .. 6
  BY <1>1, <1>2
<1> QED
  BY <1>1, <1>3, <1>4, <1>5

\* get_module sees libUE4 only when it is in the process.
LEMMA GetModuleFacts ==
  ASSUME TInv
  PROVE  GetModule \in Nat /\ (GetModule # NULL => ue # "absent")
<1> DEFINE hits == {m \in Maps : m.path \in Named}
<1>1. GetModule = IF hits = {} \/ First(hits).start = ExecutableBase THEN NULL ELSE First(hits).start
  BY DEF GetModule
<1>2. world \in Worlds
  BY DEF TInv
<1>3. \A m \in hits : m.start \in Nat /\ m.path = UE /\ m.from # "absent" /\ Reached(m.from)
  BY <1>2, WorldFacts DEF WorldOK, Maps
<1> HIDE DEF hits
<1>4. hits # {} => First(hits) \in hits
  BY <1>3, FirstIn
<1>5. ASSUME NEW m \in hits PROVE ue # "absent"
  <2>1. PICK i \in 1 .. 6, j \in 1 .. 6 : Stages[i] = m.from /\ Stages[j] = ue /\ i <= j
    BY <1>3, <1>5, StageFacts DEF Reached
  <2>2. i # 1
    BY <1>3, <2>1, StageFacts
  <2>3. j # 1
    BY <2>1, <2>2
  <2> QED
    BY <2>1, <2>3, StageFacts
<1> QED
  BY <1>1, <1>3, <1>4, <1>5 DEF NULL

LEMMA TInvInit == Init => TInv
<1> SUFFICES ASSUME Init PROVE TInv
  OBVIOUS
<1>1. <<>> \in Seq(Nat) /\ Len(<<>>) = 0 /\ DOMAIN <<>> = {}
  BY EmptySeq
<1>2. Len(Wanted) \in Nat
  BY BootAssumption
<1>3. ResolvedRight
  BY DEF Init, ResolvedRight
<1>4. "absent" \in Range(Stages)
  BY StageFacts
<1>5. Progress
  BY <1>1 DEF Init, Progress, Resolved
<1> QED
  BY <1>1, <1>2, <1>3, <1>4, <1>5 DEF Init, TInv, NULL

\* The addresses stay right while world and found stay.
LEMMA RightKept ==
  ASSUME ResolvedRight, UNCHANGED <<world, found>>
  PROVE  ResolvedRight'
BY DEF ResolvedRight, RightAddress, Definitions

LEMMA TInvEngine ==
  ASSUME TInv, EngineAdvances \/ Engine
  PROVE  TInv'
<1>1. UNCHANGED <<world, pc, module, found, gApp, hooks, stores>>
  BY DEF EngineAdvances, Engine, EventArrives, OurHandler, ForwardEvent, EngineHandler, mainVars
<1>2. ResolvedRight'
  BY <1>1, RightKept DEF TInv
<1>3. ue' \in Range(Stages) /\ (ue # "absent" => ue' # "absent")
  <2>1. CASE EngineAdvances
    <3>1. PICK i \in 1 .. 6 : Stages[i] = ue /\ ue' = Stages[i + 1] /\ ue # "ready"
      BY <2>1, StageFacts DEF EngineAdvances
    <3>2. i + 1 \in 1 .. 6 /\ i + 1 # 1
      BY <3>1, StageFacts
    <3> QED
      BY <3>1, <3>2, StageFacts
  <2>2. CASE Engine
    BY <2>2 DEF Engine, EventArrives, OurHandler, ForwardEvent, EngineHandler, TInv
  <2> QED
    BY <2>1, <2>2
<1> QED
  BY <1>1, <1>2, <1>3 DEF TInv, Progress

\* One look-up more, or the early return.
LEMMA TInvResolve ==
  ASSUME TInv, ResolveNext
  PROVE  TInv'
<1>1. /\ pc = "resolve" /\ ue # "absent" /\ Len(found) < Len(Wanted)
      /\ world \in Worlds /\ ue \in Range(Stages) /\ found \in Seq(Nat) /\ ResolvedRight
  BY DEF TInv, Progress, ResolveNext
<1>2. UNCHANGED <<world, ue, module, hooks, stores>>
  BY DEF ResolveNext
<1> DEFINE name == Wanted[Len(found) + 1]
           a == DobbySymbolResolver(Dlsym(name), Maps, Files, Named, name)
<1>3. /\ found' = IF a = NULL THEN found ELSE Append(found, a)
      /\ pc' = IF a = NULL THEN "stopped"
               ELSE IF Len(found) + 1 = Len(Wanted) THEN "app" ELSE "resolve"
  BY DEF ResolveNext
<1>4. a # NULL => a \in Nat /\ RightAddress(a, name)
  BY <1>1, ResolverRight
<1> HIDE DEF a
<1>5. Len(Wanted) \in Nat /\ Len(found) \in Nat
  BY <1>1, BootAssumption, LenProperties
<1>6. CASE a = NULL
  <2>1. UNCHANGED found /\ pc' = "stopped"
    BY <1>3, <1>6
  <2>2. ResolvedRight'
    BY <1>1, <1>2, <2>1, RightKept
  <2> QED
    BY <1>1, <1>2, <2>1, <2>2 DEF TInv, Progress, Resolved
<1>7. CASE a # NULL
  <2>1. found' = Append(found, a) /\ a \in Nat
    BY <1>3, <1>4, <1>7
  <2>2. /\ found' \in Seq(Nat) /\ Len(found') = Len(found) + 1
        /\ \A k \in 1 .. Len(found) : found'[k] = found[k]
        /\ found'[Len(found) + 1] = a
    BY <1>1, <2>1, AppendProperties
  <2>3. DOMAIN found = 1 .. Len(found) /\ DOMAIN found' = 1 .. Len(found) + 1
    BY <1>1, <2>2, LenProperties
  <2>4. \A k \in DOMAIN found' : RightAddress(found'[k], Wanted[k])
    <3> SUFFICES ASSUME NEW k \in DOMAIN found' PROVE RightAddress(found'[k], Wanted[k])
      OBVIOUS
    <3>1. CASE k \in DOMAIN found
      BY <1>1, <2>2, <2>3, <3>1 DEF ResolvedRight
    <3>2. CASE k = Len(found) + 1
      BY <1>4, <1>7, <2>2, <3>2
    <3> QED
      BY <1>5, <2>3, <3>1, <3>2
  <2>5. ResolvedRight'
    BY <1>2, <2>4 DEF ResolvedRight, RightAddress, Definitions
  <2>6. Len(found') <= Len(Wanted) /\ pc' \in {"app", "resolve"}
        /\ (pc' = "resolve" => Len(found') < Len(Wanted))
        /\ (pc' = "app" => Len(found') = Len(Wanted))
    BY <1>1, <1>3, <1>5, <1>7, <2>2
  <2> QED
    BY <1>1, <1>2, <2>2, <2>5, <2>6 DEF TInv, Progress, Resolved
<1> QED
  BY <1>6, <1>7

\* The stores and the hooks.
LEMMA TInvMain ==
  ASSUME BInv, TInv, MainThread
  PROVE  TInv'
<1>1. CASE Poll
  <2>1. UNCHANGED <<world, ue, found, hooks, stores>> /\ module' = GetModule /\ pc = "poll"
        /\ pc' = IF GetModule = NULL THEN "poll" ELSE "resolve"
    BY <1>1 DEF Poll
  <2>2. ResolvedRight'
    BY <2>1, RightKept DEF TInv
  <2>3. found = <<>> /\ Len(found) = 0 /\ Len(Wanted) > 0
    BY <2>1, BootAssumption, EmptySeq DEF TInv, Progress
  <2>4. Progress'
    BY <2>1, <2>3, GetModuleFacts DEF TInv, Progress, Resolved
  <2> QED
    BY <2>1, <2>2, <2>4, GetModuleFacts DEF TInv
<1>2. CASE ResolveNext
  BY <1>2, TInvResolve
<1>3. CASE ReadApp
  <2>1. UNCHANGED <<world, ue, found, hooks, stores, module>> /\ pc = "app" /\ pc' = "save"
    BY <1>3 DEF ReadApp
  <2>2. ResolvedRight'
    BY <2>1, RightKept DEF TInv
  <2> QED
    BY <2>1, <2>2 DEF TInv, Progress, Resolved
<1>4. CASE SaveHandler
  <2>1. UNCHANGED <<world, ue, found, hooks, module>> /\ pc = "save" /\ pc' = "replace"
        /\ stores' = Append(stores, <<"orig", appHandler>>)
    BY <1>4 DEF SaveHandler
  <2>2. stores = <<>>
    BY <2>1 DEF BInv, Early, Untouched
  <2>3. Len(stores') = 1
    BY <2>1, <2>2
  <2>4. ResolvedRight'
    BY <2>1, RightKept DEF TInv
  <2> QED
    BY <2>1, <2>3, <2>4 DEF TInv, Progress, Resolved
<1>5. CASE ReplaceHandler
  <2>1. UNCHANGED <<world, ue, found, hooks, module>> /\ pc = "replace" /\ pc' = "draw"
        /\ stores' = Append(stores, <<"handler", "ours">>)
    BY <1>5 DEF ReplaceHandler
  <2>2. Len(stores) <= 1 /\ stores \in Seq(Store) /\ <<"handler", "ours">> \in Store
    BY <2>1 DEF TInv, Progress, BInv, Handlers, Store
  <2>3. Len(stores') = Len(stores) + 1 /\ Len(stores) \in Nat
    BY <2>1, <2>2, AppendProperties, LenProperties
  <2>4. Len(stores') <= 2
    BY <2>2, <2>3
  <2>5. ResolvedRight'
    BY <2>1, RightKept DEF TInv
  <2> QED
    BY <2>1, <2>4, <2>5 DEF TInv, Progress, Resolved
<1>6. CASE HookDraw
  <2>1. UNCHANGED <<world, ue, found, stores, module>> /\ pc = "draw" /\ pc' = "location"
        /\ hooks' = Append(hooks, found[1])
    BY <1>6 DEF HookDraw
  <2>2. found \in Seq(Nat) /\ Len(found) = Len(Wanted) /\ hooks = <<>>
    BY <2>1 DEF TInv, Progress, Resolved
  <2>3. found[1] \in Nat
    <3>1. 1 \in 1 .. Len(found)
      BY <2>2, BootAssumption
    <3> QED
      BY <2>2, <3>1, ElementOfSeq
  <2>4. hooks' \in Seq(Nat) /\ Len(hooks') = 1
    BY <2>1, <2>2, <2>3, AppendProperties, EmptySeq
  <2>5. ResolvedRight'
    BY <2>1, RightKept DEF TInv
  <2> QED
    BY <2>1, <2>4, <2>5 DEF TInv, Progress, Resolved
<1>7. CASE HookLocation
  <2>1. UNCHANGED <<world, ue, found, stores, module>> /\ pc = "location" /\ pc' = "done"
        /\ hooks' = Append(hooks, module + world.location)
    BY <1>7 DEF HookLocation
  <2>2. hooks \in Seq(Nat) /\ Len(hooks) <= 1 /\ Len(hooks) \in Nat
    BY <2>1, LenProperties DEF TInv, Progress
  <2>3. module + world.location \in Nat
    BY WorldFacts DEF TInv, WorldOK
  <2>4. hooks' \in Seq(Nat) /\ Len(hooks') = Len(hooks) + 1
    BY <2>1, <2>2, <2>3, AppendProperties
  <2>5. Len(hooks') <= 2
    BY <2>2, <2>4
  <2>6. ResolvedRight'
    BY <2>1, RightKept DEF TInv
  <2> QED
    BY <2>1, <2>4, <2>5, <2>6 DEF TInv, Progress, Resolved
<1> QED
  BY <1>1, <1>2, <1>3, <1>4, <1>5, <1>6, <1>7 DEF MainThread

\* A store that comes out shortens the list.
LEMMA TInvStore ==
  ASSUME BInv, TInv, StoreVisible
  PROVE  TInv'
<1>1. PICK k \in DOMAIN stores : stores' = RemoveAt(stores, k)
  BY DEF StoreVisible
<1>2. stores \in Seq(Store)
  BY DEF BInv, Handlers
<1>3. Len(stores') < Len(stores) /\ Len(stores') \in Nat /\ Len(stores) \in Nat
  BY <1>1, <1>2, RemoveAtLen
<1>4. UNCHANGED <<world, ue, pc, module, found, hooks>>
  BY DEF StoreVisible, mainVars
<1>5. ResolvedRight'
  BY <1>4, RightKept DEF TInv
<1>6. Len(stores') <= 2 /\ (pc = "replace" => Len(stores') <= 1)
  BY <1>3 DEF TInv, Progress
<1> QED
  BY <1>4, <1>5, <1>6 DEF TInv, Progress

LEMMA TInvNext == BInv /\ TInv /\ [Next]_vars => TInv'
<1> SUFFICES ASSUME BInv, TInv, [Next]_vars PROVE TInv'
  OBVIOUS
<1>1. CASE UNCHANGED vars
  <2>1. UNCHANGED <<world, ue, pc, module, found, hooks, stores>>
    BY <1>1 DEF vars, mainVars
  <2>2. ResolvedRight'
    BY <2>1, RightKept DEF TInv
  <2> QED
    BY <2>1, <2>2 DEF TInv, Progress
<1> QED
  BY <1>1, TInvEngine, TInvMain, TInvStore DEF Next

\* main_thread's program counter, its lists and the event in dispatch are what
\* the code allows: at most the wanted symbols, two hooks and two stores.
THEOREM BootTypes == Spec => []BootTypeOK
<1>1. BInv /\ TInv => BootTypeOK
  BY DEF BInv, Counts, TInv, Progress, Resolved, BootTypeOK
<1> QED
  BY <1>1, BInvInit, BInvNext, TInvInit, TInvNext, PTL DEF Spec

\* Every address main_thread goes on with is a definition of the symbol it
\* asked for, and libUE4's own where it has one: for every ELF layout of the
\* libraries, whenever the look-ups happen while the loader is at work.
THEOREM BootResolvedRight == Spec => []ResolvedRight
<1>1. TInv => ResolvedRight
  BY DEF TInv
<1> QED
  BY <1>1, BInvInit, BInvNext, TInvInit, TInvNext, PTL DEF Spec
=============================================================================
