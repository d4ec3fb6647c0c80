------------------------------- MODULE MCMenu -------------------------------
(* Small instances of Menu for TLC: two tabs whose widgets share ids.      *)
EXTENDS Menu

Widget(k, n) == [kind |-> k, name |-> n]

\* Tab 1: a checkbox (id 3); tab 2: a slider (id 3), a text, a button.
TwoTabs == <<<<Widget("checkbox", "line")>>,
             <<Widget("sliderFloat", "range"), Widget("text", "hint"),
               Widget("button", "apply")>>>>

Home == <<200, 200>>

\* The title bar, the second tab's button, the first widget of the second
\* column, a place beside the window.
FourPoints == {<<400, 210>>, <<250, 280>>, <<350, 250>>, <<100, 100>>}
=============================================================================
