---------------------------- MODULE MCControlFlow ----------------------------
(***************************************************************************)
(* Programs of four nodes: every shape of ifs, selects and straight lines  *)
(* without a loop, with dead nodes, parallel edges and early ends.         *)
(***************************************************************************)
EXTENDS MakeSsa

To(n, label) == [to |-> <<n, 0>>, label |-> label]

Plains(n) == {<<"other", <<>>>>} \cup {<<"other", <<To(m, 0)>>>> : m \in (n + 1)..4}

Ifs(n) == {<<"if", <<To(p[1], 1), To(p[2], 0)>>>> : p \in ((n + 1)..4) \X ((n + 1)..4)}

Selects3 ==
    {<<"select", <<To(p[1], 0), To(p[2], 1), To(p[3], 2)>>>> :
        p \in {<<2, 3, 4>>, <<3, 2, 2>>, <<2, 4, 4>>}}

Program(choice, keys) ==
    [graph |-> [n \in keys |-> choice[n[1]][2]],
     kind |-> [n \in {<<i, 0>> : i \in 1..4} |-> choice[n[1]][1]]]

MCPrograms ==
    {Program(<<c1, c2, c3, <<"other", <<>>>>>>, {<<1, 0>>, <<2, 0>>, <<3, 0>>}) :
        c1 \in Plains(1) \cup Ifs(1) \cup Selects3,
        c2 \in Plains(2) \cup Ifs(2),
        c3 \in Plains(3) \cup Ifs(3)}

MCCodes ==
    {<<c1, c2, c3, "r">> : c1 \in {"w", "-"}, c2 \in {"rw", "r", "-"}, c3 \in {"w", "-"}}
=============================================================================
