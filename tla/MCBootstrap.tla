------------------------- MODULE MCBootstrap -------------------------
(* libUE4 beside another library, with the shapes an ELF file may have. *)
EXTENDS Bootstrap

CONSTANTS
  ue4, other,
  PageBytes     \* bytes of a page

PageFloor(a) == a - (a % PageBytes)

WantedMC == <<"ReceiveDrawHUD", "DrawText", "DrawLine", "AddToViewport", "GetTextSize", "Say">>

Table(names, first) == [k \in DOMAIN names |-> <<names[k], first + 8 * k>>]
Imports(names) == [k \in DOMAIN names |-> <<names[k], 0>>]
NoSay == SubSeq(WantedMC, 1, 5)

(* First segment at 0, or at 136 with the file offset 8 of the same page place. *)
File(v, o, ph, sym, dyn, disk) ==
  [v0 |-> v, o0 |-> o, phdr |-> ph, symtab |-> sym, dynsym |-> dyn, onDisk |-> disk]

UEFiles ==
  {File(s[1], s[2], ph, t[1], t[2], TRUE) :
     s \in {<<0, 0>>, <<136, 8>>}, ph \in BOOLEAN,
     t \in {<< <<>>, Table(WantedMC, 200)>>, <<Table(WantedMC, 200), Imports(WantedMC)>>,
            << <<>>, Table(NoSay, 200)>>,
            <<Imports(NoSay), Table(WantedMC, 200)>>}}
  \cup {File(0, 0, FALSE, <<>>, Table(WantedMC, 200), FALSE)}

OtherFiles ==
  {File(0, 0, FALSE, <<>>, t, TRUE) : t \in {Imports(WantedMC), <<<<"Say", 40>>>>}}

(* The mappings of u at b: its header, and for libUE4 its data. *)
Mappings(p, u, b) ==
  LET start == b + PageFloor(u.v0) IN
  {[path |-> p, start |-> start, header |-> TRUE, from |-> "first"]}
  \cup (IF p = ue4 THEN {[path |-> p, start |-> start + 512, header |-> FALSE, from |-> "mapped"]}
        ELSE {})

WorldsMC ==
  {[files |-> (ue4 :> u) @@ (other :> f), base |-> (ue4 :> b[1]) @@ (other :> b[2]),
    maps |-> Mappings(ue4, u, b[1]) \cup Mappings(other, f, b[2]),
    linked |-> l, location |-> 24] :
     u \in UEFiles, f \in OtherFiles, b \in {<<1024, 8192>>, <<8192, 1024>>}, l \in {{}, {ue4}, {other}}}
=============================================================================
