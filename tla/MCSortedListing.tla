--------------------------- MODULE MCSortedListing ---------------------------
(***************************************************************************)
(* Instances of SortedListing for TLC.                                     *)
(***************************************************************************)
EXTENDS SortedListing, TLC

Digit(code, value) == [code |-> code, type |-> NumberType, weight |-> value, fold |-> code, lower |-> FALSE]
Letter(code, weight, fold) ==
    [code |-> code, type |-> LetterType, weight |-> weight, fold |-> fold, lower |-> code = fold]
Han(code) == [code |-> code, type |-> HanType, weight |-> code, fold |-> code, lower |-> FALSE]
Symbol(code) == [code |-> code, type |-> SymbolType, weight |-> 0, fold |-> code, lower |-> FALSE]

d0 == Digit(48, 0)
d1 == Digit(49, 1)
w1 == Digit(65297, 1)     \* a full-width 1
s1 == Digit(120783, 1)    \* a mathematical bold 1, two UTF-16 units
a == Letter(97, 1, 97)
A == Letter(65, 1, 97)
b == Letter(98, 2, 98)
wa == Letter(65345, 1, 65345)   \* a full-width a
han == Han(25991)
dot == Symbol(46)

Entry(name, dir, size, sec, ns) ==
    [name |-> name, dir |-> dir, size |-> size, modified |-> <<sec, ns>>, read |-> <<3 - sec, ns>>]

File(name) == Entry(name, FALSE, 1, 1, 0)

\* One directory of names that differ in every rule: all of one or two characters, and some others.
Alphabet == <<a, dot, d1, han, A>>
Names == [i \in 1..30 |-> IF i <= 5 THEN <<Alphabet[i]>>
                          ELSE <<Alphabet[(i - 1) \div 5], Alphabet[1 + (i % 5)]>>]
         \o << <<d1, d0>>, <<d0, d1, A>>, <<d0, w1, a>>, <<a, d1, d0>>, <<a, d0, w1>>, <<b, a, dot>> >>
NamesDirectory == [i \in DOMAIN Names |-> File(Names[i])]

\* Two names, one or both with a digit or a letter out of the ordinary.
OddNames == {<<a, s1>>, <<s1, a>>, <<d1, s1>>, <<wa, d1>>, <<A, d1>>, <<w1, a>>}
OddPairs == {<<File(p[1]), File(p[2])>> : p \in {q \in OddNames \X OddNames : q[1] # q[2]}}

\* Three entries: directories and files, two sizes, times in one second and in two.
Mixture == {Entry(<<a>>, TRUE, 0, 1, 1), Entry(<<d1>>, TRUE, 0, 2, 0), Entry(<<b>>, FALSE, 2, 1, 2),
            Entry(<<A>>, FALSE, 2, 1, 0), Entry(<<s1>>, FALSE, 1, 2, 1)}
Mixtures == {t \in {<<e, f, g>> : e, f, g \in Mixture} : IsInjective(t)}

AllDirectories == {<<>>, NamesDirectory} \cup OddPairs \cup Mixtures
=============================================================================
