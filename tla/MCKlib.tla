------------------------------- MODULE MCKlib -------------------------------
(***************************************************************************)
(* Klib on buffers of four characters with every content and every pair of *)
(* areas; numbers of eight bits; formats of up to three conversions, %u    *)
(* first, last and between others, and one too long for printf's buffer of *)
(* eight characters; the three ways this repository's targets pass         *)
(* arguments: riscv64 and x86_64, i386, and riscv32.                       *)
(***************************************************************************)
EXTENDS Klib

Lp64 == [words |-> 1, aligned |-> FALSE]
I386 == [words |-> 2, aligned |-> FALSE]
Ilp32 == [words |-> 2, aligned |-> TRUE]
AllTargets == {Lp64, I386, Ilp32}

SmallestInt == -128
AllNumbers == 0 .. 255
SomeNumbers == {-128, -127, -100, -10, -1, 0, 1, 9, 10, 99, 100, 101, 127}
Strings == {<<>>, <<"a">>, <<"a", "b">>}

SignedInt(x) == [type |-> "int", value |-> x]
Unsigned(x) == [type |-> "unsigned", value |-> x]
String(s) == [type |-> "char *", value |-> s]

SomeFormats ==
    {<<<<"%d">>, <<SignedInt(x)>>>> : x \in -128 .. 127} \union
    {<<<<"%u">>, <<Unsigned(x)>>>> : x \in AllNumbers} \union
    {<<<<"x", "%d", "%s", "y", "%u">>, <<SignedInt(x), String(s), Unsigned(y)>>>> :
        x \in SomeNumbers, s \in Strings, y \in {0, 7, 255}} \union
    {<<<<"%u", "-", "%s", "%d">>, <<Unsigned(y), String(s), SignedInt(x)>>>> :
        x \in {-128, 5}, s \in Strings, y \in {0, 7, 255}} \union
    {<<<<"%d", "%u", "%u">>, <<SignedInt(x), Unsigned(y), Unsigned(z)>>>> :
        x \in {-1, 5}, y, z \in {0, 255}} \union
    {<<<<"%%", "%s", "%d">>, <<String(s), SignedInt(x)>>>> : x \in SomeNumbers, s \in Strings}
=============================================================================
