-------------------------- MODULE MCSynthesisInput --------------------------
(***************************************************************************)
(* Updates of three components, each one an addition, a deletion, or a     *)
(* modification that grows or shrinks; and specs with up to two assumption *)
(* lines and two assertion lines of up to two literals.  Of the atoms,     *)
(* color is a field with "packet" in its name (packet_color), and bare a   *)
(* metadata field that does not say where it is read.                      *)
(***************************************************************************)
EXTENDS SynthesisInput

CONSTANTS a, b, c, p, same, color, bare, x, y, z

MCUsages == {<<0, 2>>, <<2, 0>>, <<1, 2>>, <<2, 1>>, <<2, 2>>}

Eq(atom) == [atom |-> atom, rel |-> "=="]

Ne(atom) == [atom |-> atom, rel |-> "!="]

MkLine(op, neg, lits) == [op |-> op, negated |-> neg, lits |-> lits]

AssumeLines ==
    {MkLine("unary", FALSE, <<Eq(same)>>), MkLine("unary", FALSE, <<Ne(x)>>),
     MkLine("and", FALSE, <<Eq(same), Eq(x)>>), MkLine("or", FALSE, <<Eq(x), Eq(y)>>),
     MkLine("and", FALSE, <<Eq(color), Eq(x)>>), MkLine("unary", FALSE, <<Ne(bare)>>)}

AssertLines ==
    {MkLine("unary", neg, <<Eq(y)>>) : neg \in BOOLEAN}
        \cup {MkLine(op, neg, <<Eq(y), Ne(z)>>) : op \in {"and", "or"}, neg \in BOOLEAN}
        \cup {MkLine("and", FALSE, <<Eq(y), Eq(color)>>), MkLine("or", FALSE, <<Eq(y), Eq(bare)>>)}

UpTo2(S) == {<<s>> : s \in S} \cup S \X S

Definitions ==
    [assume : {<< >>} \cup UpTo2(AssumeLines), assert : UpTo2(AssertLines),
     concat : {"none", "and", "or"}]

(***************************************************************************)
(* The definitions of the specs of two.                                    *)
(***************************************************************************)
Short ==
    {d \in Definitions :
        /\ Len(d.assume) <= 1
        /\ Len(d.assert) = 1 => d.concat = "none"
        /\ Len(d.assert) = 2 => d.assert[1].negated /\ d.assert[2].op = "unary"}

MCSpecFiles == {[defs |-> <<d>>] : d \in Definitions} \cup {[defs |-> ds] : ds \in Short \X Short}
=============================================================================
