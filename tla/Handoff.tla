------------------------------ MODULE Handoff ------------------------------
(***************************************************************************)
(* What the activity's main thread is promised when it hands something (a  *)
(* window, an input queue, a lifecycle state) to the application thread: a *)
(* synchronous rendezvous.  The value the application holds changes only   *)
(* while a callback is in progress, only towards the value that callback   *)
(* offers (possibly by way of None), and the callback returns only once    *)
(* the application holds what was offered.                                 *)
(***************************************************************************)
CONSTANTS Values, None

VARIABLES
  offered,   \* the value of the last callback
  held,      \* the value the application thread works with
  calling    \* is the main thread inside a callback that hands over a value?

vars == <<offered, held, calling>>

Init ==
  /\ offered = None
  /\ held = None
  /\ calling = FALSE

\* The system calls back with a value that differs from the current one.
Request ==
  /\ ~calling
  /\ calling' = TRUE
  /\ offered' \in (Values \cup {None}) \ {offered}
  /\ UNCHANGED held

\* The application drops the value it held on the way to the new one.
Release ==
  /\ calling
  /\ held \notin {None, offered}
  /\ held' = None
  /\ UNCHANGED <<offered, calling>>

\* The application takes the value that is offered.
Take ==
  /\ calling
  /\ held # offered
  /\ held' = offered
  /\ UNCHANGED <<offered, calling>>

\* The callback returns.
Return ==
  /\ calling
  /\ held = offered
  /\ calling' = FALSE
  /\ UNCHANGED <<offered, held>>

\* The activity is gone; a later one starts afresh.
Reset ==
  /\ ~calling
  /\ offered' = None
  /\ held' = None
  /\ UNCHANGED calling

Next == Request \/ Release \/ Take \/ Return \/ Reset

Safety == Init /\ [][Next]_vars

Spec == Safety /\ WF_vars(Release \/ Take) /\ WF_vars(Return)
=============================================================================
