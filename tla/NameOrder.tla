------------------------------ MODULE NameOrder ------------------------------
(***************************************************************************)
(* The order of names: DLocalHelper::compareByStringEx() of dfm-io, and    *)
(* the rules that the comment of compareByString() promises.               *)
(*                                                                         *)
(* A name is a sequence of characters (code points).  Of a character the   *)
(* module keeps its code, its type, its weight (where the collator, which  *)
(* ignores case and width, puts it; of a digit, its value), the code of    *)
(* its lower-case form and whether it is lower case.                       *)
(***************************************************************************)
EXTENDS Integers, Sequences, FiniteSetsExt

NumberType == 0
LetterType == 1
HanType == 2
SymbolType == 3
Char ==
    {c \in [code : Nat, type : NumberType..SymbolType, weight : Nat, fold : Nat, lower : BOOLEAN] :
        c.lower => c.type = LetterType}

-----------------------------------------------------------------------------
(* Comparing two names *)

Endless == 2   \* the comparison does not return

Order(x, y) == IF x < y THEN -1 ELSE IF x > y THEN 1 ELSE 0

\* Mutant: only the digits of ASCII.
isNumberAscii(c) == c.type = NumberType /\ c.code < 128

\* A helper on one UTF-16 unit: a digit of two units is not a number to it.
isNumber(c) == c.type = NumberType /\ c.code < 65536

\* The length of the run of digits that begins at a position.
RunLength(s, i) == Min({k \in i..(Len(s) + 1) : k <= Len(s) => ~isNumber(s[k])}) - i

numberStr(s, i) == SubSeq(s, i, i + RunLength(s, i) - 1)

\* The collator in numeric mode; nothing is less than any number.
RunValue(run) ==
    LET value[n \in 0..Len(run)] == IF n = 0 THEN 0 ELSE 10 * value[n - 1] + run[n].weight
    IN IF run = <<>> THEN -1 ELSE value[Len(run)]

\* Mutant: of two runs of one value, the shorter one first.
CompareNumbersShortFirst(s1, s2, i) ==
    LET byValue == Order(RunValue(numberStr(s1, i)), RunValue(numberStr(s2, i)))
    IN IF byValue # 0 THEN byValue ELSE Order(RunLength(s1, i), RunLength(s2, i))

\* Two runs of digits, by value, then the longer one first.
CompareNumbers(s1, s2, i) ==
    LET byValue == Order(RunValue(numberStr(s1, i)), RunValue(numberStr(s2, i)))
    IN IF byValue # 0 THEN byValue ELSE Order(RunLength(s2, i), RunLength(s1, i))

\* a A b B; letters that differ in width only are equal.
CompareLetters(c1, c2) ==
    IF c1.weight # c2.weight THEN Order(c1.weight, c2.weight)
    ELSE IF c1.fold = c2.fold /\ c1.lower # c2.lower THEN IF c1.lower THEN -1 ELSE 1
    ELSE 0

CompareChars(c1, c2) ==
    IF c1.type = SymbolType THEN Order(c1.code, c2.code) ELSE CompareLetters(c1, c2)

\* What the two names say at a position that both have.
CompareAt(s1, s2, i) ==
    IF s1[i].type # s2[i].type THEN Order(s1[i].type, s2[i].type)
    ELSE IF s1[i].type = NumberType THEN CompareNumbers(s1, s2, i)
    ELSE CompareChars(s1[i], s2[i])

\* As long as both names say the same, both iterators are at the same position.
compareUnified(s1, s2) ==
    LET from[i \in 1..(Len(s1) + 1)] ==
            IF i > Len(s1) \/ i > Len(s2) THEN Order(Len(s1), Len(s2))
            ELSE LET step == IF s1[i].type = NumberType THEN RunLength(s1, i) ELSE 1
                 IN IF CompareAt(s1, s2, i) # 0 THEN CompareAt(s1, s2, i)
                    ELSE IF step = 0 THEN Endless
                    ELSE from[i + step]
    IN from[1]

-----------------------------------------------------------------------------
(* The rules *)

\* What the rules of compareByString() say of a name: each run of digits (by value, then the
\* longer run first) and each other character (by type; letters by alphabet, then lower case
\* first; others by code) is a key, which stands where it starts.
RunAt(s, i) == SubSeq(s, i, CHOOSE j \in i..Len(s) :
                   /\ \A k \in i..j : s[k].type = NumberType
                   /\ j < Len(s) => s[j + 1].type # NumberType)
KeyAt(s, i) ==
    CASE s[i].type = NumberType -> LET run == RunAt(s, i) IN <<NumberType, RunValue(run), -Len(run)>>
      [] s[i].type \in {LetterType, HanType} -> <<s[i].type, s[i].weight, IF s[i].lower THEN 0 ELSE 1>>
      [] s[i].type = SymbolType -> <<SymbolType, s[i].code, 0>>
KeyStarts(s) == {i \in DOMAIN s : s[i].type = NumberType /\ i > 1 => s[i - 1].type # NumberType}
KeysBefore(s, i) == [k \in {j \in KeyStarts(s) : j < i} |-> KeyAt(s, k)]

\* Where the names first differ, the one that comes first has ended or has the lesser key.
KeyLess(k1, k2) == \E p \in 1..3 : k1[p] < k2[p] /\ \A q \in 1..(p - 1) : k1[q] = k2[q]
ComesFirst(s1, s2) ==
    \E i \in KeyStarts(s2) :
        /\ KeysBefore(s1, i) = KeysBefore(s2, i)
        /\ i > Len(s1) \/ (i \in KeyStarts(s1) /\ KeyLess(KeyAt(s1, i), KeyAt(s2, i)))

\* Letters of one weight are one letter, and digits are of one unit: no full-width letters, no
\* digits outside the BMP.
Plain(chars) ==
    /\ \A c \in chars : c.type = NumberType => c.code < 65536
    /\ \A c, d \in chars :
           c.type = LetterType /\ d.type = LetterType /\ c.weight = d.weight => c.fold = d.fold
=============================================================================
