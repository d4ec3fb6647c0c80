----------------------------- MODULE MenuProofs -----------------------------
(***************************************************************************)
(* Proofs about Menu, for every set of panels whose ids fit the array,     *)
(* every set of positions and any number of events.                        *)
(***************************************************************************)
EXTENDS Menu, TLAPS, WellFoundedInduction

Sliders == {"sliderInt", "sliderFloat"}
Places == Int \X Int
Layouts == [x : Int, y : Int, pushY : BOOLEAN, pushYvalue : Int, first : Places]

-----------------------------------------------------------------------------
(* The inductive invariant, in named parts.                                *)

\* MenuTypeOK says nothing of the layout, of the events counted, and of how
\* the history of presses is bounded.
MoreTypes ==
  /\ lay \in Layouts /\ events \in 0 .. MaxEvents /\ press <= events
  /\ flipped \in [Switches \cup {IsOpen} -> Nat]
  /\ \A s \in Switches \cup {IsOpen} : flipped[s] <= press

\* The walk stays within the open tab's widgets, and a slide is at a slider.
WalkOK ==
  /\ pc \in {"element", "slide"} => elements_count < Len(Panels) + Len(Panels[tab])
  /\ pc = "slide" => Item.kind \in Sliders

\* A switch that flipped in this press is remembered as clicked until the
\* release, by whatever widget shares its id.
FlipOK ==
  \A t \in Tabs : \A i \in DOMAIN Panels[t] :
    /\ Panels[t][i].kind = "checkbox" /\ mouseDown
    /\ flipped[Panels[t][i].name] = press
    => already[Len(Panels) + i]

\* The window's own switch flips on a release; it needs a grab in a new press
\* to flip again.
OpenOK ==
  flipped[IsOpen] = press => ~mouseDown /\ ~tempValue /\ pc \notin {"cursor", "title"}

\* A press that has acted on a widget holds the hover flag, and the flag keeps
\* the walk out of the drag block.
HoldOK ==
  /\ acted /\ mouseDown => hover_element
  /\ pc = "click" => ~hover_element
  /\ pc \in {"cursor", "title"} => ~acted

MInv == MenuTypeOK /\ MoreTypes /\ WalkOK /\ FlipOK /\ OpenOK /\ HoldOK

USE DEF input, frame, menu, window, history

-----------------------------------------------------------------------------
(* Operators of the model.                                                 *)

\* The lowest free pointer id is one of them.
LEMMA MinIn ==
  ASSUME NEW S, S \subseteq Nat, S # {}
  PROVE  Min(S) \in S
<1> DEFINE R == {ss \in Nat \X Nat : ss[1] < ss[2]}
<1>1. IsWellFoundedOn(R, Nat)
  BY NatLessThanWellFounded DEF OpToRel
<1> HIDE DEF R
<1>2. PICK x \in S : \A y \in S : ~(<<y, x>> \in R)
  BY <1>1, WFMin
<1>3. ASSUME NEW y \in S PROVE x <= y
  <2>1. x \in Nat /\ y \in Nat /\ <<y, x>> \in Nat \X Nat
    OBVIOUS
  <2>2. y < x => <<y, x>> \in R
    BY <2>1 DEF R
  <2> QED
    BY <1>2, <2>1, <2>2
<1> QED
  BY <1>3 DEF Min

\* The panels, from the assumption on them.
LEMMA PanelFacts ==
  ASSUME NEW t \in Tabs
  PROVE  /\ Len(Panels) \in Nat \ {0} /\ Len(Panels[t]) \in Nat \ {0}
         /\ t \in Nat /\ 1 <= t /\ t <= Len(Panels)
         /\ Len(Panels) + Len(Panels[t]) <= 31
         /\ DOMAIN Panels[t] = 1 .. Len(Panels[t])
         /\ \A i \in DOMAIN Panels[t] : Panels[t][i].kind \in Kinds
<1>1. Len(Panels) \in Nat \ {0}
  BY MenuAssumption
<1>2. Len(Panels[t]) \in Nat \ {0} /\ Len(Panels) + Len(Panels[t]) \in Ids
  BY MenuAssumption
<1>3. /\ DOMAIN Panels[t] = 1 .. Len(Panels[t])
      /\ \A i \in DOMAIN Panels[t] : Panels[t][i].kind \in Kinds
  BY MenuAssumption
<1>4. Len(Panels) + Len(Panels[t]) <= 31
  <2>1. \A n \in Ids : n <= 31
    BY DEF Ids
  <2> QED
    BY <1>2, <2>1
<1>5. t \in Nat /\ 1 <= t /\ t <= Len(Panels)
  BY <1>1 DEF Tabs
<1> QED
  BY <1>1, <1>2, <1>3, <1>5, <1>4

\* A widget's id lies in the array of remembered clicks.
LEMMA PanelIds ==
  ASSUME NEW t \in Tabs, NEW i \in DOMAIN Panels[t]
  PROVE  Len(Panels) + i \in Ids
<1>1. i \in Nat /\ i <= Len(Panels[t]) /\ Len(Panels) \in Nat /\ Len(Panels[t]) \in Nat
  BY PanelFacts
<1>2. Len(Panels) + Len(Panels[t]) <= 31
  BY PanelFacts
<1>3. \A a, b, c \in Nat : a + b <= 31 /\ c <= b => a + c \in Ids
  BY DEF Ids
<1> QED
  BY <1>1, <1>2, <1>3

LEMMA PlaceSums ==
  ASSUME NEW p \in Places, NEW q \in Places
  PROVE  Plus(p, q) \in Places /\ Minus(p, q) \in Places /\ Origin \in Places
  BY DEF Places, Plus, Minus, Origin

\* Every kind of widget has its measures, a slider's bar is at most 200 wide.
LEMMA MetricsType ==
  ASSUME NEW k \in Kinds \cup {"tab"}
  PROVE  /\ Metrics(k).pad \in Places /\ Metrics(k).height \in Int
         /\ Metrics(k).at \in Places /\ Metrics(k).size \in Places
         /\ k \in Sliders => Metrics(k).size[1] \in 0 .. 200
  BY DEF Metrics, Kinds, Places, Origin, Sliders

\* A slider's value stays on its bar.
LEMMA SliderBounds ==
  ASSUME NEW x \in Int, NEW bar \in 0 .. 200
  PROVE  SliderValue(x, bar) \in 0 .. 200
  BY DEF SliderValue

\* The widget of a walk in progress: a tab's button, or a widget of the open tab.
LEMMA ItemFacts ==
  ASSUME MInv, pc \in {"element", "slide"}
  PROVE  /\ elements_count + 1 \in Ids \ {0} /\ Item.kind \in Kinds \cup {"tab"}
         /\ \/ elements_count + 1 \in Tabs /\ Item.kind = "tab" /\ Item.name = elements_count + 1
            \/ /\ elements_count + 1 - Len(Panels) \in DOMAIN Panels[tab]
               /\ Item = Panels[tab][elements_count + 1 - Len(Panels)]
               /\ Item.kind \in Kinds /\ elements_count >= Len(Panels)
<1>1. elements_count \in Nat /\ elements_count < Len(Panels) + Len(Panels[tab]) /\ tab \in Tabs
  BY DEF MInv, MenuTypeOK, WalkOK, Ids
<1>2. elements_count + 1 \in Ids \ {0}
  BY <1>1, PanelFacts DEF Ids
<1>3. CASE elements_count + 1 \in Tabs
  BY <1>2, <1>3 DEF Item
<1>4. CASE elements_count + 1 \notin Tabs
  <2>1. elements_count + 1 - Len(Panels) \in 1 .. Len(Panels[tab]) /\ elements_count >= Len(Panels)
    BY <1>1, <1>4, PanelFacts DEF Tabs
  <2>2. Item = Panels[tab][elements_count + 1 - Len(Panels)]
    BY <1>1, <1>4, PanelFacts DEF Item
  <2> QED
    BY <1>1, <1>2, <2>1, <2>2, PanelFacts
<1> QED
  BY <1>3, <1>4

\* Only a panel's widget is a checkbox, and its name is a switch.
LEMMA CheckboxFacts ==
  ASSUME MInv, pc \in {"element", "slide"}, Item.kind = "checkbox"
  PROVE  /\ Item.name \in Switches /\ Item.name # IsOpen
         /\ \A t \in Tabs : \A i \in DOMAIN Panels[t] :
              /\ Panels[t][i].kind = "checkbox" /\ Panels[t][i].name = Item.name
              => Len(Panels) + i = elements_count + 1
<1> DEFINE k == elements_count + 1 - Len(Panels)
<1>1. k \in DOMAIN Panels[tab] /\ Item = Panels[tab][k] /\ tab \in Tabs
  BY ItemFacts DEF MInv, MenuTypeOK
<1>2. Item.name \in Switches
  BY <1>1 DEF Switches
<1>3. \A t \in Tabs : \A i \in DOMAIN Panels[t] :
        /\ Panels[t][i].kind = "checkbox" /\ Panels[t][i].name = Item.name
        => i = k
  BY <1>1, MenuAssumption
<1>4. Len(Panels) + k = elements_count + 1
  BY <1>1, PanelFacts DEF MInv, MenuTypeOK, Ids
<1>5. Item.name # IsOpen
  BY <1>2, MenuAssumption
<1> QED
  BY <1>2, <1>3, <1>4, <1>5

LEMMA ItemPosType ==
  ASSUME MInv, pc \in {"element", "slide"}
  PROVE  ItemPos \in Places /\ PlaceItem(lay) \in Layouts /\ NextColumn(PlaceItem(lay)) \in Layouts
<1>1. /\ Metrics(Item.kind).pad \in Places /\ Metrics(Item.kind).height \in Int
      /\ lay \in Layouts /\ pos \in Places
  BY ItemFacts, MetricsType DEF MInv, MenuTypeOK, MoreTypes, Places
<1>2. /\ lay.x \in Int /\ lay.y \in Int /\ lay.pushY \in BOOLEAN /\ lay.pushYvalue \in Int
      /\ lay.first \in Places
  BY <1>1 DEF Layouts
<1>3. ItemPos \in Places
  BY <1>1, <1>2 DEF ItemPos, Places
<1>4. PlaceItem(lay) \in Layouts
  BY <1>1, <1>2, <1>3 DEF PlaceItem, Places, Layouts
<1>5. \A l \in Layouts : NextColumn(l) \in Layouts
  BY DEF NextColumn, Layouts, Places
<1> QED
  BY <1>3, <1>4, <1>5

\* After a widget the walk goes on within the panel, or the frame ends.
LEMMA ItemDoneKeeps ==
  ASSUME MInv, pc \in {"element", "slide"}, ItemDone, tab' \in Tabs,
         tab' = tab \/ elements_count + 1 \in Tabs
  PROVE  /\ lay' \in Layouts /\ elements_count' \in Ids /\ pc' \in {"idle", "element"}
         /\ WalkOK'
<1>1. elements_count + 1 \in Ids
  BY ItemFacts
<1>2. elements_count \in Nat /\ elements_count + 1 \in Ids
  BY <1>1 DEF MInv, MenuTypeOK, Ids
<1>3. /\ Len(Panels) \in Nat \ {0} /\ Len(Panels[tab']) \in Nat \ {0}
      /\ elements_count + 1 <= Len(Panels) + Len(Panels[tab'])
  <2>1. CASE tab' = tab
    BY <1>2, <2>1, PanelFacts DEF MInv, WalkOK, Tabs
  <2>2. CASE elements_count + 1 \in Tabs
    BY <1>2, <2>2, PanelFacts
  <2> QED
    BY <2>1, <2>2
<1>4. FirstLayout \in Layouts
  BY DEF FirstLayout, Layouts, Places, Origin
<1> QED
  BY <1>2, <1>4, <1>3, ItemPosType DEF ItemDone, WalkOK, Ids

-----------------------------------------------------------------------------
LEMMA MenuInit == Init => MInv
<1> SUFFICES ASSUME Init PROVE MInv
  OBVIOUS
<1>1. 1 \in Tabs /\ Origin \in Places /\ WindowPos \in Places /\ MaxEvents \in Nat
  BY MenuAssumption DEF Tabs, Places, Origin
<1>2. /\ already \in [Ids -> BOOLEAN] /\ value \in [Switches \cup {IsOpen} -> BOOLEAN]
      /\ mouseDown \in BOOLEAN /\ hovered \in BOOLEAN /\ scaled \in BOOLEAN
      /\ hover_element \in BOOLEAN /\ tempValue \in BOOLEAN /\ acted \in BOOLEAN
  BY DEF Init
<1>3. elements_count \in Ids /\ level \in 0 .. 200 /\ press \in 0 .. MaxEvents
  BY <1>1 DEF Init, Ids
<1>4. MenuTypeOK
  BY <1>1, <1>2, <1>3 DEF Init, MenuTypeOK, Places
<1>5. MoreTypes
  BY <1>1 DEF Init, MoreTypes, FirstLayout, Layouts, Origin, Places
<1> QED
  BY <1>4, <1>5 DEF Init, MInv, WalkOK, FlipOK, OpenOK, HoldOK

-----------------------------------------------------------------------------
(* The input thread.                                                       *)

\* The button goes down or up.
LEMMA StoreDownKeeps ==
  ASSUME MInv, NEW b \in BOOLEAN, StoreDown(b), Arrives, UNCHANGED <<frame, menu, window, flipped>>
  PROVE  /\ mouseDown' \in BOOLEAN /\ press' \in 0 .. MaxEvents /\ acted' \in BOOLEAN
         /\ MoreTypes' /\ WalkOK' /\ FlipOK' /\ OpenOK' /\ HoldOK'
<1>1. /\ events \in Nat /\ press \in Nat /\ press <= events /\ events < MaxEvents
      /\ events' = events + 1 /\ MaxEvents \in Nat
  BY MenuAssumption DEF Arrives, MInv, MenuTypeOK, MoreTypes
<1>2. /\ mouseDown \in BOOLEAN /\ acted \in BOOLEAN
      /\ mouseDown' = b /\ acted' = (acted /\ (b => mouseDown))
      /\ press' = IF b /\ ~mouseDown THEN press + 1 ELSE press
  BY DEF StoreDown, MInv, MenuTypeOK
<1>3. mouseDown' \in BOOLEAN /\ press' \in 0 .. MaxEvents /\ acted' \in BOOLEAN
  <2>1. mouseDown' \in BOOLEAN /\ acted' \in BOOLEAN
    BY <1>2
  <2>2. press' \in 0 .. MaxEvents
    BY <1>1, <1>2
  <2> QED
    BY <2>1, <2>2
<1>4. MoreTypes'
  BY <1>1, <1>2 DEF MInv, MoreTypes
<1>5. WalkOK'
  BY DEF MInv, WalkOK, Item
<1>6. mouseDown' => acted' = (acted /\ mouseDown)
  BY <1>2
<1>7. \A s \in Switches \cup {IsOpen} : mouseDown' /\ flipped'[s] = press' => mouseDown /\ flipped[s] = press
  BY <1>1, <1>2 DEF MInv, MoreTypes
<1>8. FlipOK'
  <2> SUFFICES ASSUME NEW t \in Tabs, NEW i \in DOMAIN Panels[t], Panels[t][i].kind = "checkbox",
                      mouseDown', flipped'[Panels[t][i].name] = press'
               PROVE  already[Len(Panels) + i]
    BY DEF FlipOK
  <2>1. Panels[t][i].name \in Switches
    BY DEF Switches
  <2> QED
    BY <1>7, <2>1 DEF MInv, FlipOK
<1>9. OpenOK'
  <2> SUFFICES ASSUME flipped[IsOpen] = press'
               PROVE  ~mouseDown' /\ ~tempValue /\ pc \notin {"cursor", "title"}
    BY DEF OpenOK
  <2>1. flipped[IsOpen] \in Nat /\ flipped[IsOpen] <= press
    BY DEF MInv, MoreTypes
  <2>2. press' = press
    BY <1>1, <1>2, <2>1
  <2>3. ~mouseDown'
    BY <1>7, <2>2 DEF MInv, OpenOK
  <2> QED
    BY <2>2, <2>3 DEF MInv, OpenOK
<1>10. HoldOK'
  BY <1>2 DEF MInv, HoldOK
<1> QED
  BY <1>3, <1>4, <1>5, <1>8, <1>9, <1>10

\* Motion without a button.
LEMMA MotionKeeps ==
  ASSUME MInv, UNCHANGED <<mouseDown, frame, menu, window, history>>,
         events' \in 0 .. MaxEvents, events' >= events
  PROVE  MoreTypes' /\ WalkOK' /\ FlipOK' /\ OpenOK' /\ HoldOK'
<1>1. press \in Nat /\ events \in Nat /\ press <= events'
  BY MenuAssumption DEF MInv, MenuTypeOK, MoreTypes
<1>2. MoreTypes'
  BY <1>1 DEF MInv, MoreTypes
<1> QED
  BY <1>2 DEF MInv, WalkOK, Item, FlipOK, OpenOK, HoldOK

LEMMA InputKeeps ==
  ASSUME MInv, onEvent \/ StorePos
  PROVE  MInv'
<1>1. \A p \in Points : Scaled(p) \in Points \cup {Origin}
  BY DEF Scaled
<1>2. Min(Fingers) \in Fingers /\ (Fingers \ fingers # {} => Min(Fingers \ fingers) \in Fingers)
  <2>1. Fingers \subseteq Nat /\ Fingers # {} /\ Fingers \ fingers \subseteq Nat
    BY MenuAssumption
  <2> QED
    BY <2>1, MinIn
<1>3. events \in Nat /\ MaxEvents \in Nat
  BY MenuAssumption DEF MInv, MoreTypes
<1>4. ASSUME NEW p \in Points, TouchDown(p) \/ TouchUp(p)
      PROVE  MInv'
  <2>1. /\ Arrives /\ (StoreDown(TRUE) \/ StoreDown(FALSE))
        /\ UNCHANGED <<mousePos, frame, menu, window, flipped>>
        /\ fingers' \subseteq Fingers /\ event' \in Points \cup {Origin}
    BY <1>1, <1>2, <1>4 DEF TouchDown, TouchUp
  <2>2. /\ mouseDown' \in BOOLEAN /\ press' \in 0 .. MaxEvents /\ acted' \in BOOLEAN
        /\ MoreTypes' /\ WalkOK' /\ FlipOK' /\ OpenOK' /\ HoldOK'
    BY <1>4, StoreDownKeeps DEF TouchDown, TouchUp
  <2> QED
    BY <2>1, <2>2 DEF MInv, MenuTypeOK
<1>5. ASSUME NEW p \in Points, TouchMove(p) \/ MouseMove(p)
      PROVE  MInv'
  <2>1. /\ UNCHANGED <<mouseDown, fingers, event, frame, menu, window, history>>
        /\ mousePos' \in Points \cup {Origin}
        /\ events' \in 0 .. MaxEvents /\ events' >= events
    BY <1>1, <1>3, <1>5 DEF TouchMove, MouseMove, Arrives
  <2> QED
    BY <2>1, MotionKeeps DEF MInv, MenuTypeOK
<1>6. ASSUME \/ PointerDown \/ TouchCancel \/ \E f \in Fingers : PointerUp(f)
      PROVE  MInv'
  <2>1. /\ UNCHANGED <<mouseDown, mousePos, event, frame, menu, window, history>>
        /\ fingers' \subseteq Fingers
    BY <1>2, <1>6 DEF PointerDown, TouchCancel, PointerUp, MInv, MenuTypeOK
  <2>2. events' \in 0 .. MaxEvents /\ events' >= events
    BY <1>3, <1>6 DEF PointerDown, TouchCancel, PointerUp, Arrives
  <2> QED
    BY <2>1, <2>2, MotionKeeps DEF MInv, MenuTypeOK
<1>7. ASSUME NEW b \in BOOLEAN, MouseButton(b)
      PROVE  MInv'
  <2>1. UNCHANGED <<mousePos, fingers, event, frame, menu, window, flipped>>
    BY <1>7 DEF MouseButton
  <2>2. /\ mouseDown' \in BOOLEAN /\ press' \in 0 .. MaxEvents /\ acted' \in BOOLEAN
        /\ MoreTypes' /\ WalkOK' /\ FlipOK' /\ OpenOK' /\ HoldOK'
    BY <1>7, StoreDownKeeps DEF MouseButton
  <2> QED
    BY <2>1, <2>2 DEF MInv, MenuTypeOK
<1>8. CASE StorePos
  <2>1. /\ UNCHANGED <<mouseDown, fingers, events, frame, menu, window, history>>
        /\ mousePos' \in Points \cup {Origin} /\ event' = None
    BY <1>8 DEF StorePos, MInv, MenuTypeOK
  <2>2. events' \in 0 .. MaxEvents /\ events' >= events
    BY <2>1 DEF MInv, MoreTypes
  <2> QED
    BY <2>1, <2>2, MotionKeeps DEF MInv, MenuTypeOK
<1> QED
  BY <1>4, <1>5, <1>6, <1>7, <1>8 DEF onEvent

-----------------------------------------------------------------------------
(* The game thread: the window.                                            *)

LEMMA WindowDoneKeeps ==
  ASSUME MInv, NEW open, WindowDone(open), tab' = tab
  PROVE  /\ pc' \in {"element", "idle"} /\ elements_count' \in Ids /\ lay' \in Layouts
         /\ hovered' \in BOOLEAN /\ cursor' \in Int \X Int /\ WalkOK'
<1>1. FirstLayout \in Layouts /\ Origin \in Int \X Int
  BY DEF FirstLayout, Layouts, Places, Origin
<1>2. tab \in Tabs
  BY DEF MInv, MenuTypeOK
<1>3. 0 < Len(Panels) + Len(Panels[tab])
  BY <1>2, PanelFacts
<1>4. WalkOK'
  BY <1>3 DEF WindowDone, WalkOK
<1>5. hovered' \in BOOLEAN
  BY DEF WindowDone
<1> QED
  BY <1>1, <1>4, <1>5 DEF WindowDone, Ids

\* IsMouseClicked remembers the button: a flag that a flip in this press relies
\* on is not lost.
LEMMA RememberKeeps ==
  ASSUME MInv, NEW id \in Ids, RememberMouse(id), UNCHANGED <<mouseDown, press, flipped>>
  PROVE  already' \in [Ids -> BOOLEAN] /\ FlipOK'
<1>1. already \in [Ids -> BOOLEAN] /\ mouseDown \in BOOLEAN
  BY DEF MInv, MenuTypeOK
<1>2. already' \in [Ids -> BOOLEAN]
  BY <1>1 DEF RememberMouse
<1>3. mouseDown => \A j \in Ids : already[j] => already'[j]
  BY <1>1 DEF RememberMouse
<1>4. FlipOK'
  BY <1>3, PanelIds DEF MInv, FlipOK
<1> QED
  BY <1>2, <1>4

LEMMA WindowKeeps ==
  ASSUME MInv, \/ BeginFrame \/ DropElement \/ HeldByElement \/ MayDrag \/ ForgetHover
               \/ ReleaseWindow \/ ClickWindow \/ GrabWindow \/ TestTitle \/ MoveWindow
  PROVE  MInv'
<1>1. 0 \in Ids
  BY DEF Ids
<1>2. CASE BeginFrame
  <2>1. hovered' \in BOOLEAN /\ scaled' \in BOOLEAN
    BY <1>2 DEF BeginFrame, MouseInZone
  <2> QED
    BY <1>2, <2>1 DEF BeginFrame, Goto, MInv, MenuTypeOK, MoreTypes, WalkOK, FlipOK, OpenOK, HoldOK
<1>3. CASE DropElement
  BY <1>3 DEF DropElement, Goto, MInv, MenuTypeOK, MoreTypes, WalkOK, FlipOK, OpenOK, HoldOK
<1>4. CASE HeldByElement
  BY <1>4, WindowDoneKeeps DEF HeldByElement, MInv, MenuTypeOK, MoreTypes, FlipOK, OpenOK, HoldOK
<1>5. CASE MayDrag
  BY <1>5 DEF MayDrag, Goto, MInv, MenuTypeOK, MoreTypes, WalkOK, FlipOK, OpenOK, HoldOK
<1>6. CASE ForgetHover
  <2>1. hover_element' = FALSE /\ (hover_element => ~mouseDown) /\ UNCHANGED <<acted, mouseDown>>
    BY <1>6 DEF ForgetHover, MInv, MenuTypeOK
  <2>2. HoldOK'
    BY <1>6, <2>1, WindowDoneKeeps DEF ForgetHover, MInv, HoldOK
  <2>3. MenuTypeOK'
    BY <1>6, <2>1, WindowDoneKeeps DEF ForgetHover, MInv, MenuTypeOK
  <2> QED
    BY <1>6, <2>2, <2>3, WindowDoneKeeps DEF ForgetHover, MInv, MoreTypes, FlipOK, OpenOK
<1>7. CASE ReleaseWindow
  <2>1. ~mouseDown /\ UNCHANGED <<mouseDown, press>>
    BY <1>7 DEF ReleaseWindow, IsMouseClicked
  <2>2. already' \in [Ids -> BOOLEAN] /\ FlipOK'
    <3>1. RememberMouse(0)
      BY <1>7 DEF ReleaseWindow
    <3>2. already' \in [Ids -> BOOLEAN]
      BY <1>1, <3>1 DEF RememberMouse, MInv, MenuTypeOK
    <3> QED
      BY <2>1, <3>2 DEF FlipOK
  <2> DEFINE moved == Minus(origPos, pos)
             click == tempValue /\ Abs(moved[1]) <= Slack /\ Abs(moved[2]) <= Slack
  <2> HIDE DEF moved, click
  <2>3. /\ dragPos' = Origin /\ tempValue' = (tempValue /\ ~click) /\ (click => tempValue)
        /\ value' = IF click THEN [value EXCEPT ![IsOpen] = ~@] ELSE value
        /\ flipped' = IF click THEN [flipped EXCEPT ![IsOpen] = press] ELSE flipped
        /\ WindowDone(value'[IsOpen])
        /\ UNCHANGED <<input, scaled, hover_element, current_element,
                       tab, level, origPos, pos, press, acted>>
    BY <1>7 DEF ReleaseWindow, click, moved
  <2>4. /\ tempValue' \in BOOLEAN /\ value' \in [Switches \cup {IsOpen} -> BOOLEAN]
        /\ flipped' \in [Switches \cup {IsOpen} -> Nat]
    BY <2>3 DEF MInv, MenuTypeOK, MoreTypes
  <2>5. \A s \in Switches \cup {IsOpen} : flipped'[s] <= press
    BY <2>3 DEF MInv, MenuTypeOK, MoreTypes
  <2>6. OpenOK'
    <3>1. pc' \notin {"cursor", "title"} /\ ~mouseDown'
      BY <2>1, <2>3, WindowDoneKeeps
    <3>2. CASE click
      BY <2>3, <3>1, <3>2 DEF OpenOK
    <3>3. CASE ~click
      BY <2>3, <3>1, <3>3 DEF MInv, OpenOK
    <3> QED
      BY <3>2, <3>3
  <2>7. HoldOK'
    BY <2>1, <2>3, WindowDoneKeeps DEF HoldOK
  <2>8. Origin \in Int \X Int
    BY DEF Origin
  <2>9. MenuTypeOK'
    BY <2>2, <2>3, <2>4, <2>8, WindowDoneKeeps DEF MInv, MenuTypeOK
  <2>10. MoreTypes'
    BY <2>3, <2>4, <2>5, WindowDoneKeeps DEF MInv, MoreTypes
  <2> QED
    BY <2>2, <2>3, <2>6, <2>7, <2>9, <2>10, WindowDoneKeeps DEF MInv
<1>8. CASE ClickWindow
  <2>1. mouseDown /\ ~hover_element
    BY <1>8 DEF ClickWindow, IsMouseClicked, MInv, HoldOK
  <2>2. ~acted /\ flipped[IsOpen] # press
    BY <2>1 DEF MInv, HoldOK, OpenOK
  <2>3. already' \in [Ids -> BOOLEAN] /\ FlipOK'
    BY <1>1, <1>8, RememberKeeps DEF ClickWindow
  <2> QED
    BY <1>8, <2>2, <2>3 DEF ClickWindow, Goto, MInv, MenuTypeOK, MoreTypes, WalkOK, OpenOK, HoldOK
<1>9. ASSUME GrabWindow \/ TestTitle \/ MoveWindow
      PROVE  /\ cursor' \in Int \X Int /\ dragPos' \in Int \X Int /\ origPos' \in Int \X Int
             /\ pos' \in Int \X Int /\ tempValue' \in BOOLEAN
  <2>1. /\ mousePos \in Places /\ Size \in Places /\ pos \in Places /\ dragPos \in Places
        /\ origPos \in Places /\ cursor \in Places /\ Origin \in Places
    <3>1. Points \subseteq Places
      BY MenuAssumption DEF Places
    <3>2. Origin \in Places /\ Size \in Places
      BY DEF Places, Origin, Size
    <3>3. /\ mousePos \in Points \cup {Origin} /\ cursor \in Places
          /\ pos \in Places /\ dragPos \in Places /\ origPos \in Places
      BY DEF MInv, MenuTypeOK, Places
    <3> QED
      BY <3>1, <3>2, <3>3
  <2>2. tempValue' \in BOOLEAN
    BY <1>9 DEF GrabWindow, TestTitle, MoveWindow, MouseInZone, MInv, MenuTypeOK
  <2>3. \A p, q \in Places : Minus(p, q) \in Places
    BY PlaceSums
  <2> QED
    BY <1>9, <2>1, <2>2, <2>3 DEF GrabWindow, TestTitle, MoveWindow, WindowDone, Places
<1>10. CASE GrabWindow
  BY <1>9, <1>10 DEF GrabWindow, Goto, MInv, MenuTypeOK, MoreTypes, WalkOK, FlipOK, OpenOK, HoldOK
<1>11. CASE TestTitle \/ MoveWindow
  <2>1. /\ WindowDone(value[IsOpen]) /\ pc \in {"cursor", "title"}
        /\ UNCHANGED <<input, menu, history>>
    BY <1>11 DEF TestTitle, MoveWindow
  <2>2. flipped[IsOpen] # press
    BY <2>1 DEF MInv, OpenOK
  <2>3. MenuTypeOK'
    BY <1>9, <1>11, <2>1, WindowDoneKeeps DEF MInv, MenuTypeOK
  <2> QED
    BY <2>1, <2>2, <2>3, WindowDoneKeeps DEF MInv, MoreTypes, FlipOK, OpenOK, HoldOK
<1> QED
  BY <1>2, <1>3, <1>4, <1>5, <1>6, <1>7, <1>8, <1>10, <1>11

-----------------------------------------------------------------------------
(* The game thread: the widgets.                                           *)

\* A button, tab or checkbox that is hit claims the hover flag; one that is only
\* hovered may.
LEMMA PressKeeps ==
  ASSUME MInv, pc = "element", NEW kind, Press(kind, elements_count + 1),
         UNCHANGED <<mouseDown, press, flipped>>
  PROVE  /\ hover_element' \in BOOLEAN /\ (hover_element => hover_element')
         /\ already' \in [Ids -> BOOLEAN] /\ FlipOK'
         /\ Hit(elements_count + 1) /\ Claims(kind, Item.name) => hover_element'
<1>1. elements_count + 1 \in Ids
  BY ItemFacts
<1>2. hover_element' \in BOOLEAN /\ (hover_element => hover_element')
  BY DEF Press
<1>3. Hit(elements_count + 1) /\ Claims(kind, Item.name) => hover_element'
  BY DEF Press, Hit
<1>4. already' \in [Ids -> BOOLEAN] /\ FlipOK'
  <2>1. CASE ItemHovered
    BY <1>1, <2>1, RememberKeeps DEF Press
  <2>2. CASE ~ItemHovered
    BY <2>2 DEF Press, MInv, MenuTypeOK, FlipOK
  <2> QED
    BY <2>1, <2>2
<1> QED
  BY <1>2, <1>3, <1>4

\* A hit means that the button is down and the widget was not yet clicked in
\* this press.
LEMMA HitFacts ==
  ASSUME NEW id, Hit(id)
  PROVE  mouseDown /\ ~already[id]
  BY DEF Hit, IsMouseClicked

LEMMA WidgetKeeps ==
  ASSUME MInv, Text \/ ButtonTab \/ Button \/ Checkbox \/ Slider \/ Slide
  PROVE  MInv'
<1> DEFINE id == elements_count + 1
<1>1. /\ pc \in {"element", "slide"} /\ UNCHANGED <<input, hovered, cursor, scaled, window, press>>
      /\ id \in Ids
  BY ItemFacts DEF Text, ButtonTab, Button, Checkbox, Slider, Slide, NextItem
<1>2. CASE Text
  BY <1>1, <1>2, ItemDoneKeeps
  DEF Text, NextItem, MInv, MenuTypeOK, MoreTypes, FlipOK, OpenOK, HoldOK
<1>3. CASE ButtonTab
  <2>1. /\ pc = "element" /\ Item.kind = "tab" /\ Press("tab", id) /\ ItemDone
        /\ tab' = IF Hit(id) THEN Item.name ELSE tab
        /\ acted' = (acted \/ tab' # tab)
        /\ UNCHANGED <<current_element, value, level, flipped>>
    BY <1>3 DEF ButtonTab, NextItem
  <2>2. id \in Tabs /\ Item.name = id
    BY <2>1, ItemFacts DEF Kinds
  <2>3. tab' \in Tabs
    BY <2>1, <2>2 DEF MInv, MenuTypeOK
  <2>4. tab' # tab => hover_element' /\ mouseDown
    BY <1>1, <2>1, PressKeeps, HitFacts DEF Claims
  <2>5. HoldOK'
    BY <1>1, <2>1, <2>3, <2>2, <2>4, PressKeeps, ItemDoneKeeps DEF MInv, HoldOK
  <2>6. MenuTypeOK'
    <3>1. acted' \in BOOLEAN
      BY <2>1 DEF MInv, MenuTypeOK
    <3> QED
      BY <1>1, <2>1, <2>2, <2>3, <3>1, PressKeeps, ItemDoneKeeps DEF MInv, MenuTypeOK
  <2> QED
    BY <1>1, <2>1, <2>2, <2>3, <2>5, <2>6, PressKeeps, ItemDoneKeeps DEF MInv, MoreTypes, OpenOK
<1>4. CASE Button
  <2>1. /\ pc = "element" /\ Item.kind = "button" /\ Press("button", id) /\ ItemDone
        /\ tab' = tab /\ acted' = (acted \/ Hit(id)) /\ tab \in Tabs
        /\ UNCHANGED <<current_element, value, level, flipped>>
    BY <1>4 DEF Button, NextItem, MInv, MenuTypeOK
  <2>2. Hit(id) => hover_element' /\ mouseDown
    BY <1>1, <2>1, PressKeeps, HitFacts DEF Claims
  <2>3. HoldOK'
    BY <1>1, <2>1, <2>2, PressKeeps, ItemDoneKeeps DEF MInv, HoldOK
  <2>4. MenuTypeOK'
    <3>1. acted' \in BOOLEAN
      BY <2>1 DEF MInv, MenuTypeOK
    <3> QED
      BY <1>1, <2>1, <3>1, PressKeeps, ItemDoneKeeps DEF MInv, MenuTypeOK
  <2> QED
    BY <1>1, <2>1, <2>3, <2>4, PressKeeps, ItemDoneKeeps DEF MInv, MoreTypes, OpenOK
<1>5. CASE Checkbox
  <2>1. /\ pc = "element" /\ Item.kind = "checkbox" /\ Press("checkbox", id) /\ ItemDone
        /\ tab' = tab /\ acted' = (acted \/ Hit(id)) /\ tab \in Tabs
        /\ value' = IF Hit(id) THEN [value EXCEPT ![Item.name] = ~@] ELSE value
        /\ flipped' = IF Hit(id) THEN [flipped EXCEPT ![Item.name] = press] ELSE flipped
        /\ UNCHANGED <<current_element, level>>
    BY <1>5 DEF Checkbox, NextItem, MInv, MenuTypeOK
  <2>2. CASE ~Hit(id)
    <3>1. /\ value' = value /\ flipped' = flipped /\ acted' = acted
      BY <2>1, <2>2 DEF MInv, MenuTypeOK
    <3>2. HoldOK'
      BY <1>1, <2>1, <3>1, PressKeeps, ItemDoneKeeps DEF MInv, HoldOK
    <3>3. MenuTypeOK'
      BY <1>1, <2>1, <3>1, PressKeeps, ItemDoneKeeps DEF MInv, MenuTypeOK
    <3> QED
      BY <1>1, <2>1, <3>1, <3>2, <3>3, PressKeeps, ItemDoneKeeps DEF MInv, MoreTypes, OpenOK
  <2>3. CASE Hit(id)
    <3>1. /\ mouseDown /\ ~already[id] /\ acted' = TRUE
          /\ value' = [value EXCEPT ![Item.name] = ~@]
          /\ flipped' = [flipped EXCEPT ![Item.name] = press]
      BY <2>1, <2>3, HitFacts DEF MInv, MenuTypeOK
    <3>2. hover_element' = TRUE
      BY <2>1, <2>3 DEF Press, Hit, Claims
    <3>3. already' = [already EXCEPT ![id] = TRUE]
      BY <2>1, <2>3, <3>1 DEF Press, Hit, RememberMouse, MInv, MenuTypeOK
    <3>4. already' \in [Ids -> BOOLEAN] /\ already'[id] /\ \A j \in Ids : already[j] => already'[j]
      BY <1>1, <3>3 DEF MInv, MenuTypeOK
    <3>5. FlipOK'
      <4> SUFFICES ASSUME NEW t \in Tabs, NEW i \in DOMAIN Panels[t],
                          Panels[t][i].kind = "checkbox",
                          flipped'[Panels[t][i].name] = press
                   PROVE  already'[Len(Panels) + i]
        BY <1>1 DEF FlipOK
      <4>1. Panels[t][i].name \in Switches
        BY DEF Switches
      <4>2. CASE Panels[t][i].name = Item.name
        BY <2>1, <3>4, <4>2, CheckboxFacts
      <4>3. CASE Panels[t][i].name # Item.name
        <5>1. flipped[Panels[t][i].name] = press
          BY <3>1, <4>1, <4>3 DEF MInv, MoreTypes
        <5>2. already[Len(Panels) + i]
          BY <3>1, <5>1 DEF MInv, FlipOK
        <5> QED
          BY <3>4, <5>2, PanelIds
      <4> QED
        BY <4>2, <4>3
    <3>6. Item.name \in Switches /\ Item.name # IsOpen
      BY <2>1, CheckboxFacts
    <3>7. value' \in [Switches \cup {IsOpen} -> BOOLEAN]
      BY <3>1, <3>6 DEF MInv, MenuTypeOK
    <3>8. /\ flipped' \in [Switches \cup {IsOpen} -> Nat] /\ flipped'[IsOpen] = flipped[IsOpen]
          /\ \A s \in Switches \cup {IsOpen} : flipped'[s] <= press
      BY <3>1, <3>6 DEF MInv, MenuTypeOK, MoreTypes
    <3>9. HoldOK'
      BY <1>1, <2>1, <3>2, ItemDoneKeeps DEF MInv, HoldOK
    <3>10. MenuTypeOK'
      BY <1>1, <2>1, <3>1, <3>2, <3>4, <3>7, ItemDoneKeeps DEF MInv, MenuTypeOK
    <3> QED
      BY <1>1, <2>1, <3>5, <3>8, <3>9, <3>10, ItemDoneKeeps DEF MInv, MoreTypes, OpenOK
  <2> QED
    BY <2>2, <2>3
<1>6. CASE Slider
  <2> DEFINE touched == ItemHovered \/ current_element = id
             click == touched /\ IsMouseClicked(id, TRUE)
  <2> HIDE DEF touched, click
  <2>1. /\ pc = "element" /\ Item.kind \in Sliders
        /\ hover_element' = (hover_element \/ touched)
        /\ IF touched THEN RememberMouse(id) ELSE UNCHANGED already
        /\ current_element' = IF click THEN id ELSE current_element
        /\ acted' = (acted \/ click) /\ tab' = tab
        /\ IF click THEN Goto("slide") ELSE ItemDone
        /\ UNCHANGED <<value, level, flipped>>
    BY <1>6 DEF Slider, Sliders, click, touched
  <2>2. tab \in Tabs /\ hover_element \in BOOLEAN /\ acted \in BOOLEAN
    BY DEF MInv, MenuTypeOK
  <2>3. hover_element' \in BOOLEAN /\ acted' \in BOOLEAN
    BY <2>1, <2>2
  <2>4. click => touched /\ mouseDown
    BY DEF click, IsMouseClicked
  <2>5. already' \in [Ids -> BOOLEAN] /\ FlipOK'
    <3>1. CASE touched
      BY <1>1, <2>1, <3>1, RememberKeeps
    <3>2. CASE ~touched
      BY <1>1, <2>1, <3>2 DEF MInv, MenuTypeOK, FlipOK
    <3> QED
      BY <3>1, <3>2
  <2>6. /\ lay' \in Layouts /\ elements_count' \in Ids /\ pc' \in {"idle", "element", "slide"}
        /\ WalkOK'
    <3>1. CASE click
      BY <2>1, <3>1 DEF Goto, MInv, MenuTypeOK, MoreTypes, WalkOK, Item
    <3>2. CASE ~click
      BY <1>1, <2>1, <2>2, <3>2, ItemDoneKeeps
    <3> QED
      BY <3>1, <3>2
  <2>7. current_element' \in {-1} \cup Ids
    BY <1>1, <2>1 DEF MInv, MenuTypeOK
  <2>8. HoldOK'
    BY <1>1, <2>1, <2>2, <2>4, <2>6 DEF MInv, HoldOK
  <2>9. MenuTypeOK'
    BY <1>1, <2>1, <2>3, <2>5, <2>6, <2>7 DEF MInv, MenuTypeOK
  <2> QED
    BY <1>1, <2>1, <2>5, <2>6, <2>8, <2>9 DEF MInv, MoreTypes, OpenOK
<1>7. CASE Slide
  <2>1. pc = "slide" /\ Item.kind \in Sliders
    BY <1>7 DEF Slide, MInv, WalkOK
  <2>2. mousePos \in Places
    BY MenuAssumption DEF MInv, MenuTypeOK, Places, Origin
  <2>3. mousePos \in Places /\ ItemPos \in Places /\ Metrics(Item.kind).size[1] \in 0 .. 200
    BY <2>1, <2>2, ItemFacts, ItemPosType, MetricsType
  <2>4. mousePos[1] - ItemPos[1] \in Int
    BY <2>3 DEF Places
  <2>5. level' \in 0 .. 200
    BY <1>7, <2>3, <2>4, SliderBounds DEF Slide
  <2>6. tab' = tab /\ tab \in Tabs /\ ItemDone
    BY <1>7 DEF Slide, MInv, MenuTypeOK
  <2>7. UNCHANGED <<already, hover_element, current_element, value, history>>
    BY <1>7 DEF Slide
  <2>8. /\ lay' \in Layouts /\ elements_count' \in Ids /\ pc' \in {"idle", "element"}
        /\ WalkOK'
    BY <1>1, <2>6, ItemDoneKeeps
  <2>9. MenuTypeOK'
    BY <1>1, <2>5, <2>6, <2>7, <2>8 DEF MInv, MenuTypeOK
  <2> QED
    BY <1>1, <2>6, <2>7, <2>8, <2>9 DEF MInv, MoreTypes, FlipOK, OpenOK, HoldOK
<1> QED
  BY <1>2, <1>3, <1>4, <1>5, <1>6, <1>7

-----------------------------------------------------------------------------
LEMMA MenuInvariance == Spec => []MInv
<1>1. MInv /\ [Next]_vars => MInv'
  <2> SUFFICES ASSUME MInv, [Next]_vars PROVE MInv'
    OBVIOUS
  <2>1. CASE UNCHANGED vars
    BY <2>1 DEF vars, MInv, MenuTypeOK, MoreTypes, WalkOK, Item, FlipOK, OpenOK, HoldOK
  <2> QED
    BY <2>1, InputKeeps, WindowKeeps, WidgetKeeps DEF Next, Draw
<1> QED
  BY <1>1, MenuInit, PTL DEF Spec

\* Types, the sliders' bars and the array of remembered clicks are kept, however
\* the two threads interleave.
THEOREM MenuTypes == Spec => []MenuTypeOK
<1>1. MInv => MenuTypeOK
  BY DEF MInv
<1> QED
  BY <1>1, MenuInvariance, PTL

\* One press flips each switch at most once: a checkbox because its flag stays
\* set while the button is down, the window because a release ends the grab.
THEOREM MenuSwitchOnce == Spec => SwitchOncePerPress
<1>1. ASSUME MInv, [Next]_vars, NEW s \in Switches \cup {IsOpen}, value'[s] # value[s],
             flipped[s] = press
      PROVE  FALSE
  <2>1. value' # value
    BY <1>1
  <2>2. ReleaseWindow \/ Checkbox
    BY <1>1, <2>1 DEF Next, onEvent, TouchDown, TouchUp, TouchMove, MouseMove, PointerUp, MouseButton,
       PointerDown, TouchCancel, StorePos, Draw, BeginFrame, DropElement, HeldByElement, MayDrag,
       ForgetHover, ClickWindow, GrabWindow, TestTitle, MoveWindow, Text, ButtonTab, Button, Slider,
       Slide, vars
  <2>3. CASE ReleaseWindow
    <3>1. tempValue /\ s = IsOpen
      BY <1>1, <2>3 DEF ReleaseWindow, MInv, MenuTypeOK
    <3> QED
      BY <1>1, <3>1 DEF MInv, OpenOK
  <2>4. CASE Checkbox
    <3>1. /\ pc = "element" /\ Item.kind = "checkbox" /\ s = Item.name
          /\ Hit(elements_count + 1)
      BY <1>1, <2>4 DEF Checkbox, NextItem, MInv, MenuTypeOK
    <3>2. mouseDown /\ ~already[elements_count + 1]
      BY <3>1, HitFacts
    <3>3. /\ elements_count + 1 - Len(Panels) \in DOMAIN Panels[tab] /\ tab \in Tabs
          /\ Item = Panels[tab][elements_count + 1 - Len(Panels)]
      BY <1>1, <3>1, ItemFacts DEF MInv, MenuTypeOK
    <3>4. already[Len(Panels) + (elements_count + 1 - Len(Panels))]
      BY <1>1, <3>1, <3>2, <3>3 DEF MInv, FlipOK
    <3>5. Len(Panels) + (elements_count + 1 - Len(Panels)) = elements_count + 1
      BY <1>1, <3>1, <3>3, CheckboxFacts
    <3> QED
      BY <3>2, <3>4, <3>5
  <2> QED
    BY <2>2, <2>3, <2>4
<1>2. MInv /\ [Next]_vars => [\A s \in Switches \cup {IsOpen} :
                                value'[s] # value[s] => flipped[s] # press]_vars
  BY <1>1
<1> QED
  BY <1>2, MenuInvariance, PTL DEF Spec, SwitchOncePerPress

\* Once a press has acted on a widget the window does not move until the next.
THEOREM MenuWindowHeld == Spec => WindowHeld
<1>1. ASSUME MInv, [Next]_vars, pos' # pos, acted
      PROVE  FALSE
  <2>1. TestTitle \/ MoveWindow
    BY <1>1 DEF Next, onEvent, TouchDown, TouchUp, TouchMove, MouseMove, PointerUp, MouseButton,
       PointerDown, TouchCancel, StorePos, Draw, BeginFrame, DropElement, HeldByElement, MayDrag,
       ForgetHover, ReleaseWindow, ClickWindow, GrabWindow, Text, ButtonTab, Button, Checkbox, Slider,
       Slide, vars
  <2> QED
    BY <1>1, <2>1 DEF TestTitle, MoveWindow, MInv, HoldOK
<1>2. MInv /\ [Next]_vars => [pos' # pos => ~acted]_vars
  BY <1>1
<1> QED
  BY <1>2, MenuInvariance, PTL DEF Spec, WindowHeld
=============================================================================
