-------------------------------- MODULE Menu --------------------------------
(***************************************************************************)
(* The menu of UI.cpp: an immediate-mode window that the game thread walks *)
(* through once a frame, widget by widget, and that the input thread feeds *)
(* through two plain globals, MouseDown and MousePos, without a lock.      *)
(*                                                                         *)
(* Every read of the two globals that can see a different value from the   *)
(* previous read is a step of its own.  A widget that tests the position   *)
(* and then the button is one step: onEvent writes the button first, so    *)
(* the outcomes of a torn test are those of a test before or between the   *)
(* two writes.  Drawing is left out.                                       *)
(***************************************************************************)
EXTENDS Integers, Sequences, FiniteSets, FiniteSetsExt

CONSTANTS
  Panels,    \* for every tab, the sequence of its widgets [kind, name]
  Points,    \* positions (pixels) at which pointers are put and moved
  WindowPos, \* where the window starts
  Fingers,   \* pointer ids of the touch screen
  Mouse,     \* is a mouse attached, too?
  MaxEvents, \* bound: motion events
  None

Tabs == 1 .. Len(Panels)
Kinds == {"text", "button", "checkbox", "sliderInt", "sliderFloat"}
Switches ==
  UNION {{Panels[t][i].name :
            i \in {j \in DOMAIN Panels[t] : Panels[t][j].kind = "checkbox"}} :
         t \in Tabs}
IsOpen == "isOpen"   \* the window's own switch
Ids == 0 .. 31       \* element ids in use; the array has 256

\* Every checkbox has a variable of its own, as in Data::Draw.
ASSUME MenuAssumption ==
  /\ Len(Panels) \in Nat \ {0} /\ Fingers \subseteq Nat /\ Fingers # {}
  /\ \A t \in Tabs :
       /\ DOMAIN Panels[t] = 1 .. Len(Panels[t])
       /\ Len(Panels[t]) \in Nat \ {0} /\ Len(Panels) + Len(Panels[t]) \in Ids
       /\ \A i \in DOMAIN Panels[t] : Panels[t][i].kind \in Kinds
  /\ \A t, u \in Tabs : \A i \in DOMAIN Panels[t], j \in DOMAIN Panels[u] :
       /\ Panels[t][i].kind = "checkbox" /\ Panels[u][j].kind = "checkbox"
       /\ Panels[t][i].name = Panels[u][j].name
       => t = u /\ i = j
  /\ Points \subseteq Int \X Int /\ WindowPos \in Int \X Int
  /\ Mouse \in BOOLEAN /\ MaxEvents \in Nat /\ IsOpen \notin Switches

VARIABLES
  \* written by the input thread
  mouseDown, mousePos,
  fingers,    \* ids of the fingers on the screen
  event,      \* position that onEvent has still to store, or None
  events,     \* events so far (for the bound)
  \* the game thread's place in the frame
  pc, elements_count, lay,
  hovered, cursor,       \* locals of Window: isHovered, cursorPos
  \* state kept from frame to frame
  scaled, already, hover_element, current_element,
  dragPos, origPos, pos, tempValue, tab, value, level,
  \* history: presses so far, the press in which a switch last flipped, has
  \* a widget acted in this press
  press, flipped, acted

input == <<mouseDown, mousePos, fingers, event, events>>
frame == <<pc, elements_count, lay, hovered, cursor>>
menu == <<scaled, already, hover_element, current_element, tab, value, level>>
window == <<dragPos, origPos, pos, tempValue>>
history == <<press, flipped, acted>>
vars == <<input, frame, menu, window, history>>

-----------------------------------------------------------------------------
(* Geometry.                                                               *)

Plus(p, q) == <<p[1] + q[1], p[2] + q[2]>>
Minus(p, q) == <<p[1] - q[1], p[2] - q[2]>>
Origin == <<0, 0>>

MouseInZone(p, at, size) ==
  /\ p[1] > at[1] /\ p[2] > at[2]
  /\ p[1] < at[1] + size[1] /\ p[2] < at[2] + size[2]

Size == <<500, 500>>
Header == <<Size[1], 25>>
Slack == 10          \* a press that moves the window no further is a click

\* Padding, height, hit zone (relative to the widget) of each kind.
Metrics(kind) ==
  CASE kind = "text" ->
         [pad |-> <<10, 10>>, height |-> 25, at |-> Origin, size |-> Origin]
    [] kind = "tab" ->
         [pad |-> <<5, 10>>, height |-> 25, at |-> Origin, size |-> <<110, 25>>]
    [] kind = "button" ->
         [pad |-> <<5, 10>>, height |-> 25, at |-> Origin, size |-> <<110, 25>>]
    [] kind = "checkbox" ->
         [pad |-> <<10, 10>>, height |-> 30, at |-> Origin, size |-> <<30, 30>>]
    [] kind = "sliderInt" ->
         [pad |-> <<10, 15>>, height |-> 50, at |-> <<0, 25>>, size |-> <<200, 10>>]
    [] kind = "sliderFloat" ->
         [pad |-> <<10, 15>>, height |-> 40, at |-> <<0, 2>>, size |-> <<170, 37>>]

FirstLayout == [x |-> 0, y |-> 25, pushY |-> FALSE, pushYvalue |-> 0, first |-> Origin]

\* The widget that comes next: the tab buttons, then the open tab's panel.
Item ==
  LET n == elements_count + 1 IN
  IF n \in Tabs THEN [kind |-> "tab", name |-> n]
                ELSE Panels[tab][n - Len(Panels)]

ItemPos ==
  LET pad == Metrics(Item.kind).pad IN
  <<pos[1] + pad[1] + lay.x,
    IF lay.pushY THEN lay.pushYvalue ELSE pos[2] + pad[2] + lay.y>>

ItemHovered ==
  LET m == Metrics(Item.kind) IN
  MouseInZone(mousePos, Plus(ItemPos, m.at), m.size)

PlaceItem(l) ==
  LET m == Metrics(Item.kind)
      y == IF l.pushY THEN l.pushYvalue - pos[2] ELSE l.y
  IN  [x |-> l.x, y |-> y + m.height + m.pad[2], pushY |-> FALSE, pushYvalue |-> 0,
       first |-> IF l.first[1] = 0 THEN ItemPos ELSE l.first]

NextColumn(l) ==
  [x |-> 130, y |-> l.y, pushY |-> TRUE, pushYvalue |-> l.first[2], first |-> l.first]

\* The coordinate of the slider's knob, in pixels of the bar.
BugSliderValue(x, bar) == x
SliderValue(x, bar) == IF x < 0 THEN 0 ELSE IF x > bar THEN bar ELSE x

-----------------------------------------------------------------------------
Init ==
  /\ mouseDown = FALSE /\ mousePos = Origin /\ fingers = {} /\ event = None /\ events = 0
  /\ pc = "idle" /\ elements_count = 0 /\ lay = FirstLayout
  /\ hovered = FALSE /\ cursor = Origin
  /\ scaled = FALSE /\ already = [i \in Ids |-> FALSE]
  /\ hover_element = FALSE /\ current_element = -1
  /\ dragPos = Origin /\ origPos = Origin /\ pos = WindowPos /\ tempValue = FALSE
  /\ tab = 1 /\ value = [s \in Switches \cup {IsOpen} |-> TRUE] /\ level = 0
  /\ press = 0 /\ flipped = [s \in Switches \cup {IsOpen} |-> 0]
  /\ acted = FALSE

-----------------------------------------------------------------------------
(* The input thread: onEvent.  A DOWN or UP stores MouseDown, then         *)
(* MousePos; other motion stores only one of them.                         *)

\* Raw coordinates are scaled by what the last frame's SetupUI set.
Scaled(p) == IF scaled THEN p ELSE Origin

StoreDown(b) ==
  /\ mouseDown' = b
  /\ press' = IF b /\ ~mouseDown THEN press + 1 ELSE press
  /\ acted' = (acted /\ (b => mouseDown))

\* onEvent is called with the next event; the previous call has returned.
Arrives == event = None /\ events < MaxEvents /\ events' = events + 1

\* ACTION_DOWN: the first finger; it gets the lowest id.
TouchDown(p) ==
  /\ Arrives /\ fingers = {}
  /\ fingers' = {Min(Fingers)}
  /\ StoreDown(TRUE) /\ event' = Scaled(p)
  /\ UNCHANGED <<mousePos, frame, menu, window, flipped>>

\* ACTION_UP: the last finger.
TouchUp(p) ==
  /\ Arrives /\ Cardinality(fingers) = 1
  /\ fingers' = {}
  /\ StoreDown(FALSE) /\ event' = Scaled(p)
  /\ UNCHANGED <<mousePos, frame, menu, window, flipped>>

StorePos ==
  /\ event # None
  /\ mousePos' = event /\ event' = None
  /\ UNCHANGED <<mouseDown, fingers, events, frame, menu, window, history>>

\* ACTION_MOVE: the position of pointer index 0, the lowest id on the screen.
TouchMove(p) ==
  /\ Arrives /\ fingers # {}
  /\ mousePos' = Scaled(p)
  /\ UNCHANGED <<mouseDown, fingers, event, frame, menu, window, history>>

\* ACTION_POINTER_DOWN and _UP: dropped, by the index or by the switch.
PointerDown ==
  /\ Arrives /\ fingers # {} /\ Fingers \ fingers # {}
  /\ fingers' = fingers \cup {Min(Fingers \ fingers)}
  /\ UNCHANGED <<mouseDown, mousePos, event, frame, menu, window, history>>

PointerUp(f) ==
  /\ Arrives /\ f \in fingers /\ Cardinality(fingers) > 1
  /\ fingers' = fingers \ {f}
  /\ UNCHANGED <<mouseDown, mousePos, event, frame, menu, window, history>>

\* ACTION_CANCEL ends the gesture and is dropped by the switch.
TouchCancel ==
  /\ Arrives /\ fingers # {}
  /\ fingers' = {}
  /\ UNCHANGED <<mouseDown, mousePos, event, frame, menu, window, history>>

\* ACTION_BUTTON_PRESS and _RELEASE, ACTION_HOVER_MOVE of a mouse.
MouseButton(b) ==
  /\ Mouse /\ Arrives /\ b # mouseDown
  /\ StoreDown(b)
  /\ UNCHANGED <<mousePos, fingers, event, frame, menu, window,
                 flipped>>

MouseMove(p) ==
  /\ Mouse /\ Arrives
  /\ mousePos' = Scaled(p)
  /\ UNCHANGED <<mouseDown, fingers, event, frame, menu, window, history>>

onEvent ==
  \/ \E p \in Points : TouchDown(p) \/ TouchUp(p) \/ TouchMove(p) \/ MouseMove(p)
  \/ \E f \in Fingers : PointerUp(f)
  \/ \E b \in BOOLEAN : MouseButton(b)
  \/ PointerDown \/ TouchCancel

-----------------------------------------------------------------------------
(* The game thread: one frame.                                             *)

\* IsMouseClicked(element_id, repeat): its result and what it remembers.
BugIsMouseClicked(id, repeat) == mouseDown
IsMouseClicked(id, repeat) == mouseDown /\ (repeat \/ ~already[id])
RememberMouse(id) == already' = [already EXCEPT ![id] = mouseDown]

Goto(l) == pc' = l /\ UNCHANGED <<elements_count, lay>>

\* The end of Window: the layout starts at the top; a closed window has no
\* widgets.
WindowDone(open) ==
  /\ pc' = IF open THEN "element" ELSE "idle"
  /\ elements_count' = 0 /\ lay' = FirstLayout
  /\ hovered' = FALSE /\ cursor' = Origin   \* locals: out of scope

\* SetupUI, and isHovered of Window.
BeginFrame ==
  /\ pc = "idle"
  /\ scaled' = TRUE
  /\ hovered' = MouseInZone(mousePos, pos, IF value[IsOpen] THEN Size ELSE Header)
  /\ Goto("drop")
  /\ UNCHANGED <<input, cursor, already, hover_element, current_element,
                 tab, value, level, window, history>>

DropElement ==
  /\ pc = "drop"
  /\ current_element' = IF mouseDown THEN current_element ELSE -1
  /\ Goto("drag")
  /\ UNCHANGED <<input, hovered, cursor, scaled, already, hover_element,
                 tab, value, level, window, history>>

\* Which of the three branches of Window's drag block is taken.
HeldByElement ==
  /\ pc = "drag" /\ hover_element /\ mouseDown
  /\ WindowDone(value[IsOpen])
  /\ UNCHANGED <<input, menu, window, history>>

MayDrag ==
  /\ pc = "drag" /\ ~hover_element /\ (hovered \/ dragPos[1] # 0)
  /\ Goto("click")
  /\ UNCHANGED <<input, hovered, cursor, menu, window, history>>

ForgetHover ==
  /\ pc = "drag"
  /\ IF hover_element THEN ~mouseDown ELSE ~hovered /\ dragPos[1] = 0
  /\ hover_element' = FALSE
  /\ WindowDone(value[IsOpen])
  /\ UNCHANGED <<input, scaled, already, current_element,
                 tab, value, level, window, history>>

\* The button is up: a drag ends, and a click on the title flips isOpen.
BugReleaseWindow ==
  /\ pc = "click" /\ ~IsMouseClicked(0, TRUE) /\ RememberMouse(0)
  /\ WindowDone(value[IsOpen])
  /\ UNCHANGED <<input, scaled, hover_element, current_element,
                 tab, level, value, window, history>>

Abs(n) == IF n < 0 THEN -n ELSE n

ReleaseWindow ==
  LET moved == Minus(origPos, pos)
      click == tempValue /\ Abs(moved[1]) <= Slack /\ Abs(moved[2]) <= Slack
  IN
  /\ pc = "click" /\ ~IsMouseClicked(0, TRUE) /\ RememberMouse(0)
  /\ dragPos' = Origin
  /\ tempValue' = (tempValue /\ ~click)
  /\ value' = IF click THEN [value EXCEPT ![IsOpen] = ~@] ELSE value
  /\ flipped' = IF click THEN [flipped EXCEPT ![IsOpen] = press] ELSE flipped
  /\ WindowDone(value'[IsOpen])
  /\ UNCHANGED <<input, scaled, hover_element, current_element,
                 tab, level, origPos, pos, press, acted>>

ClickWindow ==
  /\ pc = "click" /\ IsMouseClicked(0, TRUE) /\ RememberMouse(0)
  /\ Goto("cursor")
  /\ UNCHANGED <<input, hovered, cursor, scaled, hover_element, current_element,
                 tab, value, level, window, history>>

\* CursorPos is read; a first grab records the offset.
GrabWindow ==
  LET c == Minus(mousePos, Size) IN
  /\ pc = "cursor" /\ dragPos[1] = 0
  /\ cursor' = c /\ dragPos' = Minus(c, pos)
  /\ origPos' = Minus(c, dragPos')
  /\ Goto("title")
  /\ UNCHANGED <<input, hovered, menu, pos, tempValue, history>>

\* The title test reads the position again.
TestTitle ==
  /\ pc = "title"
  /\ tempValue' = MouseInZone(mousePos, pos, Header)
  /\ pos' = Minus(cursor, dragPos)
  /\ WindowDone(value[IsOpen])
  /\ UNCHANGED <<input, menu, dragPos, origPos, history>>

MoveWindow ==
  LET c == Minus(mousePos, Size) IN
  /\ pc = "cursor" /\ dragPos[1] # 0
  /\ pos' = Minus(c, dragPos)
  /\ WindowDone(value[IsOpen])
  /\ UNCHANGED <<input, menu, dragPos, origPos, tempValue, history>>

\* The end of a widget: the layout moves on, NextColumn follows the tabs; the
\* layout of a frame does not outlive it.
ItemDone ==
  LET n == elements_count + 1
      placed == PlaceItem(lay)
      last == n = Len(Panels) + Len(Panels[tab'])
  IN  /\ pc' = IF last THEN "idle" ELSE "element"
      /\ elements_count' = IF last THEN 0 ELSE n
      /\ lay' = IF last THEN FirstLayout
                ELSE IF n = Len(Panels) THEN NextColumn(placed) ELSE placed

NextItem(kind) == pc = "element" /\ Item.kind = kind

Text ==
  /\ NextItem("text") /\ tab' = tab /\ ItemDone
  /\ UNCHANGED <<input, hovered, cursor, menu, window, history>>

\* Does a hovered widget keep the window from being dragged?  A tab button
\* only while its tab is not the open one.
BugClaims(kind, name) == kind # "checkbox"
Claims(kind, name) == kind = "tab" => tab # name

\* A button of either kind; a hovered one is asked for the click.
Press(kind, id) ==
  /\ hover_element' = (hover_element \/ (ItemHovered /\ Claims(kind, Item.name)))
  /\ IF ItemHovered THEN RememberMouse(id) ELSE UNCHANGED already

Hit(id) == ItemHovered /\ IsMouseClicked(id, FALSE)

ButtonTab ==
  LET id == elements_count + 1 IN
  /\ NextItem("tab") /\ Press("tab", id)
  /\ tab' = IF Hit(id) THEN Item.name ELSE tab
  /\ acted' = (acted \/ tab' # tab)
  /\ ItemDone
  /\ UNCHANGED <<input, hovered, cursor, scaled, current_element, value, level,
                 window, press, flipped>>

Button ==
  LET id == elements_count + 1 IN
  /\ NextItem("button") /\ Press("button", id)
  /\ acted' = (acted \/ Hit(id))
  /\ tab' = tab /\ ItemDone
  /\ UNCHANGED <<input, hovered, cursor, scaled, current_element, value, level,
                 window, press, flipped>>

Checkbox ==
  LET id == elements_count + 1
      hit == Hit(id)
  IN
  /\ NextItem("checkbox") /\ Press("checkbox", id)
  /\ value' = IF hit THEN [value EXCEPT ![Item.name] = ~@] ELSE value
  /\ flipped' = IF hit THEN [flipped EXCEPT ![Item.name] = press] ELSE flipped
  /\ acted' = (acted \/ hit)
  /\ tab' = tab /\ ItemDone
  /\ UNCHANGED <<input, hovered, cursor, scaled, current_element, level,
                 window, press>>

\* SliderInt and SliderFloat: a hovered or captured slider claims the pointer
\* and, with the button down, captures it ...
Slider ==
  LET id == elements_count + 1
      touched == ItemHovered \/ current_element = id
      click == touched /\ IsMouseClicked(id, TRUE)
  IN
  /\ pc = "element" /\ Item.kind \in {"sliderInt", "sliderFloat"}
  /\ hover_element' = (hover_element \/ touched)
  /\ IF touched THEN RememberMouse(id) ELSE UNCHANGED already
  /\ current_element' = IF click THEN id ELSE current_element
  /\ acted' = (acted \/ click)
  /\ tab' = tab
  /\ IF click THEN Goto("slide") ELSE ItemDone
  /\ UNCHANGED <<input, hovered, cursor, scaled, value, level,
                 window, press, flipped>>

\* ... and its value follows CursorPos, clamped.
Slide ==
  /\ pc = "slide"
  /\ level' = SliderValue(mousePos[1] - ItemPos[1], Metrics(Item.kind).size[1])
  /\ tab' = tab /\ ItemDone
  /\ UNCHANGED <<input, hovered, cursor, scaled, already, hover_element,
                 current_element, value, window, history>>

Draw ==
  \/ BeginFrame \/ DropElement
  \/ HeldByElement \/ MayDrag \/ ForgetHover
  \/ ReleaseWindow \/ ClickWindow \/ GrabWindow \/ TestTitle \/ MoveWindow
  \/ Text \/ ButtonTab \/ Button \/ Checkbox \/ Slider \/ Slide

Next == onEvent \/ StorePos \/ Draw

\* The engine keeps drawing frames, and onEvent finishes.
Spec == Init /\ [][Next]_vars /\ WF_vars(Draw) /\ WF_vars(StorePos)

-----------------------------------------------------------------------------
(* Properties.                                                             *)

\* Types; the knob stays on its bar wherever a captured slider is dragged
\* (SliderInt, SliderFloat), and element ids within the array of remembered
\* clicks.
MenuTypeOK ==
  /\ mouseDown \in BOOLEAN /\ mousePos \in Points \cup {Origin}
  /\ fingers \subseteq Fingers /\ event \in Points \cup {Origin, None}
  /\ pc \in {"idle", "drop", "drag", "click", "cursor", "title", "element", "slide"}
  /\ elements_count \in Ids /\ hovered \in BOOLEAN /\ cursor \in Int \X Int
  /\ scaled \in BOOLEAN /\ already \in [Ids -> BOOLEAN]
  /\ hover_element \in BOOLEAN /\ current_element \in {-1} \cup Ids
  /\ dragPos \in Int \X Int /\ origPos \in Int \X Int /\ pos \in Int \X Int
  /\ tempValue \in BOOLEAN /\ tab \in Tabs
  /\ value \in [Switches \cup {IsOpen} -> BOOLEAN] /\ level \in 0 .. 200
  /\ press \in 0 .. MaxEvents /\ acted \in BOOLEAN

\* One press flips a checkbox, or opens or closes the window, at most once,
\* however many frames it lasts, whatever the finger slides over and whichever
\* tab's widgets share an element id (IsMouseClicked, mouseDownAlready).
SwitchOncePerPress ==
  [][\A s \in Switches \cup {IsOpen} :
       value'[s] # value[s] => flipped[s] # press]_vars

\* Once a press has acted on a widget (checkbox, button, tab, slider) the
\* window stays where it is until the release, wherever the finger goes and
\* however the two threads interleave (Window's drag block, hover_element).
WindowHeld == [][pos' # pos => ~acted]_vars

\* When the button stays up and the pointer rests on no widget, the menu comes
\* to rest: no captured slider, no drag, no hover flag (Drop last element, the
\* release branch, the reset of hover_element).
MenuSettles ==
  <>[](~mouseDown /\ (pc = "element" => ~ItemHovered))
    => <>[](current_element = -1 /\ dragPos[1] = 0 /\ ~hover_element)
=============================================================================
