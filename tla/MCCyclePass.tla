----------------------------- MODULE MCCyclePass -----------------------------
EXTENDS CyclePass

Declared(name, supers) == [name |-> name, extends |-> supers]

\* Lists of superclasses: repeated and unknown names included.
Lists2 == (UNION {[1..n -> {"A", "B", "C"}] : n \in 0..2}) \cup {<<"Unknown", "A">>}
AtMostOne == {<<>>, <<"A">>, <<"B">>, <<"C">>, <<"Unknown">>}

\* Three classes in every inheritance graph, or two of them under one name; a
\* fourth class adds the shapes in which two ways lead to one ancestor.
Classes == {[pass |-> "classes",
             declarations |-> <<Declared("A", a), Declared("B", b), Declared(c, d)>>] :
               a, b, d \in Lists2, c \in {"B", "C"}}
Diamonds == {[pass |-> "classes",
              declarations |-> <<Declared("A", a), Declared("B", <<"D", "A">>),
                                 Declared("C", <<"B">>), Declared("D", d)>>] :
               a \in {<<"B", "C">>, <<"C", "D">>, <<"D">>}, d \in {<<>>, <<"C", "A">>, <<"A">>}}
\* Every class extends all those before it: eight ways lead up from the fourth.
Ladder == [pass |-> "classes",
           declarations |-> <<Declared("A", <<>>), Declared("B", <<"A">>), Declared("C", <<"A", "B">>),
                              Declared("D", <<"A", "B", "C">>), Declared("E", <<"D">>)>>]
Actors == {[pass |-> "actors",
            declarations |-> <<Declared("A", a), Declared("B", b), Declared(c, d)>>] :
              a, b, d \in AtMostOne, c \in {"B", "C"}}

SomeInputs == Classes \cup Diamonds \cup Actors \cup {Ladder, [pass |-> "free", declarations |-> <<>>]}
=============================================================================
