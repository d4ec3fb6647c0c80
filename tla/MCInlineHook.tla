--------------------------- MODULE MCInlineHook ---------------------------
(* Small instances of InlineHook for TLC. *)
EXTENDS InlineHook, TLC

CONSTANTS r1, r2, h1

\* Two replacements of the function, one handler inside its body.
TargetApart == r1 :> 0 @@ r2 :> 0 @@ h1 :> 2
=============================================================================
