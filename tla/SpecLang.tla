------------------------------ MODULE SpecLang ------------------------------
(***************************************************************************)
(* The specification language: what parser.py reads from a .spec file, and *)
(* the violation condition that spec_interpret.py makes of it.             *)
(*                                                                         *)
(* A spec is a sequence of definitions and the way its assert line joins   *)
(* them.  A definition has assumption lines, assertion lines, and the      *)
(* connective that may stand between its assertion lines.  A line is one   *)
(* literal, or literals joined by one connective; an assertion line may be *)
(* negated as a whole, !( ... ).                                           *)
(*                                                                         *)
(* An atom is a comparison of fields of one packet in one state.  An       *)
(* environment is the set of atoms that are true of that packet there.     *)
(***************************************************************************)
EXTENDS Integers, Sequences

CONSTANTS
    Atom,         \* the comparisons a spec can mention
    Skipped,      \* those whose text is "placeholder" or has "packet" in it
    SamePacket,   \* those of Skipped that compare the packets two programs get
    Unplaced      \* those of a metadata field without .eg. or .ig.

ASSUME AtomAssumption ==
    /\ Skipped \cup Unplaced \subseteq Atom
    /\ SamePacket \subseteq Skipped

(***************************************************************************)
(* The compared programs get the same packet.  Any other atom, also one    *)
(* that merely has "packet" in the name of its field, may be true or not.  *)
(***************************************************************************)
Environment == {env \in SUBSET Atom : SamePacket \subseteq env}

Literal == [atom : Atom, rel : {"==", "!="}]

Line == [op : {"unary", "and", "or"}, negated : BOOLEAN, lits : Seq(Literal)]

Holds(lit, env) == IF lit.rel = "==" THEN lit.atom \in env ELSE lit.atom \notin env

Dual(op) == IF op = "and" THEN "or" ELSE IF op = "or" THEN "and" ELSE op

Last(ks) == CHOOSE k \in ks : \A m \in ks : m <= k

-----------------------------------------------------------------------------
(***************************************************************************)
(* parser.py turns every assertion line around, so that it is true of a    *)
(* violation.  A line !( ... ) already is one.                             *)
(***************************************************************************)
reverse_op(lits) ==
    [i \in DOMAIN lits |->
        [lits[i] EXCEPT !.rel = IF lits[i].rel = "==" THEN "!=" ELSE "=="]]

\* Mutant of parse_assertion: the literals are reversed and their connective kept.
parse_assertion_same_op(line) ==
    IF line.negated
    THEN [op |-> line.op, lits |-> line.lits]
    ELSE [op |-> line.op, lits |-> reverse_op(line.lits)]

parse_assertion(line) ==
    IF line.negated
    THEN [op |-> line.op, lits |-> line.lits]
    ELSE [op |-> Dual(line.op), lits |-> reverse_op(line.lits)]

(***************************************************************************)
(* A connective on a line of its own joins the assertion lines; it is      *)
(* turned around too.  The last one in the file counts, and where there is *)
(* none a violation of any line is a violation.                            *)
(***************************************************************************)
concatenator(spec) ==
    LET with == {k \in DOMAIN spec.defs : spec.defs[k].concat # "none"}
    IN  IF with = {} THEN "or" ELSE Dual(spec.defs[Last(with)].concat)

-----------------------------------------------------------------------------
(***************************************************************************)
(* spec_interpret.py.  It drops a metadata literal that does not say where *)
(* in the pipeline the field is read, and from the assumptions, but not    *)
(* from the assertions, every literal with "packet" in its text.           *)
(***************************************************************************)
KeptAssume(line) ==
    {i \in DOMAIN line.lits : line.lits[i].atom \notin Skipped \cup Unplaced}

\* Mutant of KeptAssert: assertions are skipped by the test for assumptions.
KeptAssertSkipping(line) ==
    {i \in DOMAIN line.lits : line.lits[i].atom \notin Skipped \cup Unplaced}

KeptAssert(line) == {i \in DOMAIN line.lits : line.lits[i].atom \notin Unplaced}

KeptLines(def) == {j \in DOMAIN def.assume : KeptAssume(def.assume[j]) # {}}

(***************************************************************************)
(* Each assumption line that keeps a literal overwrites assume_string.     *)
(***************************************************************************)
assume_string(def, env) ==
    LET line == def.assume[Last(KeptLines(def))]
    IN  \/ KeptLines(def) = {}
        \/ IF line.op = "or"
           THEN \E i \in KeptAssume(line) : Holds(line.lits[i], env)
           ELSE \A i \in KeptAssume(line) : Holds(line.lits[i], env)

(***************************************************************************)
(* The literals of an "or" line follow the assumption without parentheses: *)
(* the assumption binds to the first one only.  (A line that keeps no      *)
(* literal makes a condition that does not compile.)                       *)
(***************************************************************************)
condition(def, line, env) ==
    LET rev  == parse_assertion(line)
        kept == KeptAssert(line)
    IN  IF rev.op = "or"
        THEN \E i \in kept :
                /\ Holds(rev.lits[i], env)
                /\ assume_string(def, env) \/ \E m \in kept : m < i
        ELSE assume_string(def, env) /\ \A i \in kept : Holds(rev.lits[i], env)

(***************************************************************************)
(* The conditions of the definitions ks, joined: what synthesizer_spec.py  *)
(* writes for all of them, and distill_spec.py, for a spec that joins two  *)
(* definitions with ||, for each one in a formula of its own.              *)
(***************************************************************************)
Joined(spec, ks, env) ==
    LET holds(k, j) == condition(spec.defs[k], spec.defs[k].assert[j], env)
    IN  IF concatenator(spec) = "or"
        THEN \E k \in ks : \E j \in DOMAIN spec.defs[k].assert : holds(k, j)
        ELSE \A k \in ks : \A j \in DOMAIN spec.defs[k].assert : holds(k, j)

SUBVIOLATION(spec, env) == Joined(spec, DOMAIN spec.defs, env)

violation_cond(spec, k, env) == Joined(spec, {k}, env)

-----------------------------------------------------------------------------
(***************************************************************************)
(* Reference: the spec as it reads.                                        *)
(***************************************************************************)
LineTrue(line, env) ==
    LET all == IF line.op = "or"
               THEN \E i \in DOMAIN line.lits : Holds(line.lits[i], env)
               ELSE \A i \in DOMAIN line.lits : Holds(line.lits[i], env)
    IN  IF line.negated THEN ~all ELSE all

Assumed(def, env) == \A j \in DOMAIN def.assume : LineTrue(def.assume[j], env)

Asserted(def, env) ==
    IF def.concat = "or"
    THEN \E j \in DOMAIN def.assert : LineTrue(def.assert[j], env)
    ELSE \A j \in DOMAIN def.assert : LineTrue(def.assert[j], env)

ViolatedDef(def, env) == Assumed(def, env) /\ ~Asserted(def, env)

(***************************************************************************)
(* assert d1 || d2 is violated when both definitions are.                  *)
(***************************************************************************)
Violated(spec, env) == \A k \in DOMAIN spec.defs : ViolatedDef(spec.defs[k], env)

(***************************************************************************)
(* Definitions as parser.py accepts them.                                  *)
(***************************************************************************)
IsLine(line) ==
    /\ line \in Line
    /\ line.lits # << >>
    /\ line.op = "unary" => Len(line.lits) = 1

Unplaceds(line) == {i \in DOMAIN line.lits : line.lits[i].atom \in Unplaced}

IsDefinition(def) ==
    /\ def.assume \in Seq(Line)
    /\ def.assert \in Seq(Line)
    /\ \A j \in DOMAIN def.assume : IsLine(def.assume[j]) /\ ~def.assume[j].negated
    /\ \A j \in DOMAIN def.assert : IsLine(def.assert[j])
    /\ def.assert # << >>
    /\ def.concat \in {"none", "and", "or"}

(***************************************************************************)
(* The definitions of which nothing is lost or misread: a dropped literal  *)
(* is an assumption that the packets are the same, at most one assumption  *)
(* line is kept, whole or out of a conjunction, and under an assumption no *)
(* violation is a disjunction.                                             *)
(***************************************************************************)
Translatable(def) ==
    /\ IsDefinition(def)
    /\ \A i, j \in KeptLines(def) : i = j
    /\ \A j \in DOMAIN def.assume :
         LET line == def.assume[j] IN
         /\ line.op = "and" \/ KeptAssume(line) \in {{}, DOMAIN line.lits}
         /\ \A i \in DOMAIN line.lits \ KeptAssume(line) :
              line.lits[i].atom \in SamePacket /\ line.lits[i].rel = "=="
    /\ \A j \in DOMAIN def.assert :
         /\ Unplaceds(def.assert[j]) = {}
         /\ KeptLines(def) = {} \/ parse_assertion(def.assert[j]).op # "or"

(***************************************************************************)
(* The definitions of which literals, assumption lines or parentheses may  *)
(* be lost, but no alternative of a disjunction, be it an assumption or a  *)
(* violation, and of no assertion line all literals.                       *)
(***************************************************************************)
Covered(def) ==
    /\ IsDefinition(def)
    /\ \A j \in DOMAIN def.assume :
         LET line == def.assume[j]
         IN  line.op = "or" => KeptAssume(line) \in {{}, DOMAIN line.lits}
    /\ \A j \in DOMAIN def.assert :
         LET line == def.assert[j]
         IN  /\ Unplaceds(line) # DOMAIN line.lits
             /\ parse_assertion(line).op = "or" => Unplaceds(line) = {}

(***************************************************************************)
(* The file has one concatenator: it is right for definition k when k says *)
(* the same, or has one assertion line.                                    *)
(***************************************************************************)
Agrees(spec, k) ==
    \/ Len(spec.defs[k].assert) = 1
    \/ concatenator(spec) = "or" <=> spec.defs[k].concat # "or"
=============================================================================
