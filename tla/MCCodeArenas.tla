---------------------------- MODULE MCCodeArenas ----------------------------
(* Small instances of CodeArenas for TLC. *)
EXTENDS CodeArenas, TLC

CONSTANTS lib, app, stack

\* The instances are of the sizes that callers ask for.
ASSUME InstancesFit == SizesFit

\* Code between other mappings, with gaps of one and of two pages.
ImageGaps == [p \in Pages |->
  IF p \in {4, 5} THEN lib ELSE IF p = 3 THEN stack ELSE IF p \in {0, 7} THEN app ELSE Free]

\* One free page, at the end, where the near arena does not look for one.
ImageFull == [p \in Pages |->
  IF p \in {3, 4} THEN lib ELSE IF p = 7 THEN Free ELSE IF p < 3 THEN app ELSE stack]

\* Zeros across the two pages of the code, and at the end of it: fewer than
\* are looked for.
ZerosAcross == 110 .. 126 \cup 140 .. 143
=============================================================================
