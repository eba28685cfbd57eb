------------------------------- MODULE Lists -------------------------------
(***************************************************************************)
(* Idioms of the code on lists: what is left of one when some elements or  *)
(* repetitions are dropped, in its order, and one list made of many.       *)
(***************************************************************************)
EXTENDS Integers, Sequences, FiniteSets, SequencesExt, Functions

IsList(s) == s \in Seq(ToSet(s))

\* Every element once.
EachOnce(s) == s \in Seq(ToSet(s)) /\ IsInjective(s)

\* The function of a table: rows of names and their value.
Table(rows) ==
    [name \in UNION {row[1] : row \in rows} |->
        (CHOOSE row \in rows : name \in row[1])[2]]

FirstOf(s, places) == s[CHOOSE i \in places : \A j \in places : i <= j]

\* What is at some places, in their order.
Picked(s, places) ==
    LET Upto(i) == Cardinality({j \in places : j <= i})
    IN [n \in 1 .. Cardinality(places) |-> s[CHOOSE i \in places : Upto(i) = n]]

Selected(s, Test(_)) == Picked(s, {i \in DOMAIN s : Test(s[i])})

\* Of elements with the same key the first is kept.
Distinct(s, Key(_)) ==
    Picked(s, {i \in DOMAIN s : \A j \in DOMAIN s : j < i => Key(s[j]) # Key(s[i])})

MapSeq(s, Op(_)) == [i \in DOMAIN s |-> Op(s[i])]

Concat(s, Op(_)) == FlattenSeq([i \in DOMAIN s |-> Op(s[i])])
=============================================================================
