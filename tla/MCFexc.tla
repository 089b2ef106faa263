------------------------------- MODULE MCFexc -------------------------------
(* Every kind of line, with strings around a word and around MAX_LINE, and *)
(* numbers around both ends of a word.                                     *)
EXTENDS Fexc

A == Name("a", 1)
Long == Name("long", 40)
Text(l) == [id |-> "t", l |-> l]

\* What the end of these strings looks like.
MCTails == [id \in {"hash", "pair"} |->
               IF id = "hash" THEN Nothing ELSE KeyLine(A, TextVal(Text(2), 1))]

MCHexaIds == {"dram_tpr"}

Sections == {SectionLine(A, "closed"), SectionLine(Long, "closed")}
Keys ==
    {KeyLine(A, NullVal), KeyLine(Long, TextVal(NoText, 5)),
     KeyLine(A, TextVal(Text(3), 5)), KeyLine(A, TextVal(Text(4), 1)),
     KeyLine(A, TextVal(Text(249), 5)), KeyLine(A, TextVal(Text(252), 1)),
     KeyLine(A, TextVal(Text(253), 1)),
     KeyLine(A, TextVal([id |-> "hash", l |-> 252], 1)),
     KeyLine(A, TextVal([id |-> "pair", l |-> 252], 1)),
     KeyLine(Name("dram_tpr", 8), IntVal(-1)), KeyLine(A, IntVal(8)),
     KeyLine(Name("dram_clk", 8), IntVal(-17)),
     KeyLine(A, PortVal(14, 255, <<7, -1>>)),
     KeyLine(A, PortVal(15, 0, <<>>)),
     KeyLine(A, PortVal(PortPower, 3, <<0, 1, -1, 7>>))}
Refused ==
    {SectionLine(A, "open"), SectionLine(NoName, "closed"), NoEquals(A),
     KeyLine(NoName, NullVal), KeyLine(A, IntVal(16)), KeyLine(A, IntJunk(1)),
     KeyLine(A, PortVal(16, 0, <<>>)),
     KeyLine(A, PortVal(1, 256, <<>>)), KeyLine(A, PortVal(1, 0, <<-2>>)),
     KeyLine(A, PortVal(1, 0, <<0, 0, 0, 0, 0>>))}

MCUserFiles ==
    {<<s, k, l>> : s \in {SectionLine(Name("dram_para", 9), "closed")},
                   k \in Keys, l \in Keys}
      \cup {<<SectionLine(A, "closed"), k, SectionLine(Long, "closed"), l>> :
               k \in Keys, l \in {x \in Keys : x.value.v # "text" \/ x.value.text.l = 3}}
      \cup {<<Nothing, k, l>> : k \in Sections \cup Keys, l \in Refused}
      \cup {<<s, t, u, k>> : s \in Sections, t \in Sections, u \in Sections,
                             k \in {KeyLine(A, NullVal)}}
=============================================================================
