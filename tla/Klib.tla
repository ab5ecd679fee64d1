-------------------------------- MODULE Klib --------------------------------
(***************************************************************************)
(* klib's strings, memory areas and formatting (string.c, stdio.c and      *)
(* atoi of stdlib.c).  A call works on a small buffer of Size characters,  *)
(* 0 being the terminator; its pointers are offsets into the buffer, so    *)
(* that areas may overlap.  Characters are ASCII: what a byte above 127    *)
(* compares as depends on the target's char.  A formatting call also knows *)
(* the target it is compiled for, on which the place of a variadic         *)
(* argument depends.  The native platform has the host's functions.        *)
(***************************************************************************)
EXTENDS Integers, Sequences, SequencesExt

CONSTANTS Size, Chars, IntMin,
          Targets,   \* how they pass arguments: [words, aligned]
          BUF_SIZE,  \* of printf's buffer
          Formats,   \* the formats called with, each with its arguments
          Numbers

ASSUME KlibAssumption ==
    /\ Size \in Nat \ {0} /\ 0 \in Chars /\ Chars \subseteq Nat
    /\ Targets \subseteq [words : {1, 2}, aligned : BOOLEAN] /\ BUF_SIZE \in Nat

Cells == 0 .. Size - 1

VARIABLES call, out

klibVars == <<call, out>>

-----------------------------------------------------------------------------
\* string.c, loop by loop: m is memory, d, s and t are pointers into it.
Terminated(m, s) == \E c \in s .. Size - 1 : m[c] = 0

strlen(m, s) == CHOOSE i \in 0 .. Size - 1 - s :
                    m[s + i] = 0 /\ \A j \in 0 .. i - 1 : m[s + j] # 0

RECURSIVE CopyUp(_, _, _, _, _), CopyDown(_, _, _, _), CopyString(_, _, _, _, _)
CopyUp(m, d, s, i, n) ==
    IF i = n THEN m ELSE CopyUp([m EXCEPT ![d + i] = m[s + i]], d, s, i + 1, n)
CopyDown(m, d, s, i) ==
    IF i < 0 THEN m ELSE CopyDown([m EXCEPT ![d + i] = m[s + i]], d, s, i - 1)

memset(m, d, c, n) == [x \in Cells |-> IF x \in d .. d + n - 1 THEN c ELSE m[x]]

\* strncpy's two loops: copy up to the terminator, then pad with terminators.
CopyString(m, d, s, i, n) ==
    IF i < n /\ m[s + i] # 0
    THEN CopyString([m EXCEPT ![d + i] = m[s + i]], d, s, i + 1, n)
    ELSE memset(m, d + i, 0, n - i)
strncpy(m, d, s, n) == CopyString(m, d, s, 0, n)

strcpy(m, d, s) ==
    LET n == strlen(m, s) IN [CopyUp(m, d, s, 0, n) EXCEPT ![d + n] = 0]

strcat(m, d, s) ==
    LET e == d + strlen(m, d)
        n == strlen(m, s)
    IN  [CopyUp(m, e, s, 0, n) EXCEPT ![e + n] = 0]

memmoveUp(m, d, s, n) == CopyUp(m, d, s, 0, n)
memmove(m, d, s, n) ==
    IF d < s THEN CopyUp(m, d, s, 0, n) ELSE CopyDown(m, d, s, n - 1)

memcpy(m, d, s, n) == CopyUp(m, d, s, 0, n)

\* The first offset, n at most, where the loop of a comparison stops.
Stop(n, stops(_)) ==
    CHOOSE i \in 0 .. n : (i = n \/ stops(i)) /\ \A j \in 0 .. i - 1 : ~stops(j)

strncmp(m, s, t, n) ==
    LET i == Stop(n, LAMBDA j : m[s + j] # m[t + j] \/ m[s + j] = 0)
    IN  IF i = n THEN 0 ELSE m[s + i] - m[t + i]

strcmp(m, s, t) == strncmp(m, s, t, Size)

memcmp(m, s, t, n) ==
    LET i == Stop(n, LAMBDA j : m[s + j] # m[t + j])
    IN  IF i = n THEN 0 ELSE m[s + i] - m[t + i]

-----------------------------------------------------------------------------
\* stdio.c: numbers are written last digit first and then turned around.
Digit(k) == <<"0", "1", "2", "3", "4", "5", "6", "7", "8", "9">>[k + 1]

RECURSIVE swap_str(_, _, _), LastDigitFirst(_)
swap_str(str, l, r) ==
    IF l > r THEN str
    ELSE swap_str([str EXCEPT ![l] = str[r], ![r] = str[l]], l + 1, r - 1)

LastDigitFirst(num) ==
    IF num = 0 THEN <<>> ELSE <<Digit(num % 10)>> \o LastDigitFirst(num \div 10)

uint_to_str(num) ==
    IF num = 0 THEN <<Digit(0)>>
    ELSE LET str == LastDigitFirst(num) IN swap_str(str, 1, Len(str))

\* The smallest number, whose negation overflows, is a literal in the code.
int_to_str(num) ==
    CASE num = IntMin -> <<"-">> \o uint_to_str(-IntMin)
      [] num = 0 -> <<Digit(0)>>
      [] num > 0 -> LET str == LastDigitFirst(num) IN swap_str(str, 1, Len(str))
      [] num < 0 /\ num # IntMin ->
            LET str == <<"-">> \o LastDigitFirst(-num)
            IN  swap_str(str, 2, Len(str))

\* Variadic arguments lie behind the named ones, a word each: an int as its
\* bits, an unsigned, or the characters a char * points to.
NoWord == [kind |-> "none", value |-> 0]
IntSize == -2 * IntMin
WordOf(arg) ==
    IF arg.type = "char *" THEN [kind |-> "pointer", value |-> arg.value]
    ELSE [kind |-> "number", value |-> arg.value % IntSize]

va_start(named, args) ==
    [words |-> [i \in 1 .. named |-> NoWord] \o [i \in DOMAIN args |-> WordOf(args[i])],
     at |-> named]

NextWord(ap) == IF ap.at < Len(ap.words) THEN ap.words[ap.at + 1] ELSE NoWord
Past(ap, n) == [ap EXCEPT !.at = @ + n]

\* Where a uint64_t is looked for: it is two words of a 32-bit target, some of
\* which pass it in an even place only.
Wide(target, ap) == IF target.words = 2 /\ target.aligned THEN Past(ap, ap.at % 2) ELSE ap

\* What comes of a word that is not of the kind expected, or of a write past
\* the end of a buffer: anything.
Undefined == <<"undefined">>
IntIn(word) ==
    CASE word.kind # "number" -> Undefined
      [] word.kind = "number" /\ word.value < -IntMin -> int_to_str(word.value)
      [] word.kind = "number" /\ word.value >= -IntMin -> int_to_str(word.value - IntSize)
UnsignedIn(word) == IF word.kind = "number" THEN uint_to_str(word.value) ELSE Undefined
StringIn(word) == IF word.kind = "pointer" THEN word.value ELSE Undefined

\* A format is a sequence of conversions and of other characters; a percent
\* sign before any other letter stands for that letter and takes no argument.
\* %u takes a uint64_t and keeps its lower half, an unsigned int: of the two
\* words of a 32-bit target the first.
RECURSIVE vsprintf(_, _, _)
vsprintf(target, fmt, ap) ==
    LET wide == Wide(target, ap) IN
    IF fmt = <<>> THEN <<>>
    ELSE CASE Head(fmt) = "%d" -> IntIn(NextWord(ap)) \o vsprintf(target, Tail(fmt), Past(ap, 1))
           [] Head(fmt) = "%s" -> StringIn(NextWord(ap)) \o vsprintf(target, Tail(fmt), Past(ap, 1))
           [] Head(fmt) = "%u" -> UnsignedIn(NextWord(wide))
                                    \o vsprintf(target, Tail(fmt), Past(wide, target.words))
           [] OTHER -> <<Head(fmt)>> \o vsprintf(target, Tail(fmt), ap)

\* sprintf's named arguments are out and fmt; its caller's buffer is large
\* enough. printf's is fmt, and what it puts out has gone through its buffer.
sprintf(target, fmt, args) == vsprintf(target, fmt, va_start(2, args))
printf(target, fmt, args) ==
    LET s == vsprintf(target, fmt, va_start(1, args))
    IN  IF Len(s) < BUF_SIZE THEN s ELSE Undefined

\* Not implemented: the program panics, and the call never returns.
snprintf == <<"panic">>
NeverReturns == {"snprintf"}

\* stdlib.c
RECURSIVE atoi(_), AtoiFrom(_, _)
AtoiFrom(x, str) ==
    IF str # <<>> /\ \E k \in 0 .. 9 : Head(str) = Digit(k)
    THEN AtoiFrom(x * 10 + (CHOOSE k \in 0 .. 9 : Head(str) = Digit(k)), Tail(str))
    ELSE x
atoi(str) ==
    IF str # <<>> /\ Head(str) = " " THEN atoi(Tail(str)) ELSE AtoiFrom(0, str)

-----------------------------------------------------------------------------
NoCall == [fn |-> "none"]

KlibInit == call = NoCall /\ out = <<>>

Disjoint(d, n, s, k) == d + n <= s \/ s + k <= d

\* The calls C defines: every area lies in the buffer, strings end in it, and
\* only memmove's areas overlap.
CallMemory ==
    \E m \in [Cells -> Chars], d, s \in Cells, n \in 0 .. Size :
        /\ d + n <= Size /\ s + n <= Size
        /\ \E f \in {"memmove", "memcpy", "memcmp", "memset", "strncpy", "strncmp"} :
              /\ f \in {"memcpy", "strncpy"} => Disjoint(d, n, s, n)
              /\ call' = [fn |-> f, m |-> m, d |-> d, s |-> s, n |-> n]

CallString ==
    \E m \in [Cells -> Chars], d, s \in Cells :
        /\ Terminated(m, s)
        /\ \E f \in {"strcpy", "strcat", "strcmp"} :
              LET size == strlen(m, s) + 1
                  start == IF f = "strcat" /\ Terminated(m, d) THEN d + strlen(m, d) ELSE d
              IN  /\ f # "strcpy" => Terminated(m, d)
                  /\ f # "strcmp" => start + size <= Size /\ Disjoint(d, start - d + size, s, size)
                  /\ call' = [fn |-> f, m |-> m, d |-> d, s |-> s, n |-> size]

CallFormat ==
    \/ \E f \in Formats, t \in Targets, fn \in {"sprintf", "printf", "snprintf"} :
           call' = [fn |-> fn, target |-> t, fmt |-> f[1], args |-> f[2]]
    \/ \E x \in Numbers, lead \in {<<>>, <<" ">>, <<" ", " ">>}, rest \in {<<>>, <<"-", "1">>} :
           call' = [fn |-> "atoi", num |-> x, str |-> lead \o uint_to_str(x) \o rest]

KlibCall == call = NoCall /\ (CallMemory \/ CallString \/ CallFormat) /\ UNCHANGED out

KlibResult(c) ==
    CASE c.fn = "memmove" -> memmove(c.m, c.d, c.s, c.n)
      [] c.fn = "memcpy" -> memcpy(c.m, c.d, c.s, c.n)
      [] c.fn = "memset" -> memset(c.m, c.d, c.m[c.s], c.n)
      [] c.fn = "strncpy" -> strncpy(c.m, c.d, c.s, c.n)
      [] c.fn = "strcpy" -> strcpy(c.m, c.d, c.s)
      [] c.fn = "strcat" -> strcat(c.m, c.d, c.s)
      [] c.fn = "memcmp" -> memcmp(c.m, c.d, c.s, c.n)
      [] c.fn = "strncmp" -> strncmp(c.m, c.d, c.s, c.n)
      [] c.fn = "strcmp" -> strcmp(c.m, c.d, c.s)
      [] c.fn = "sprintf" -> sprintf(c.target, c.fmt, c.args)
      [] c.fn = "printf" -> printf(c.target, c.fmt, c.args)
      [] c.fn = "snprintf" -> snprintf
      [] c.fn = "atoi" -> atoi(c.str)

KlibReturn == call # NoCall /\ out = <<>> /\ out' = <<KlibResult(call)>> /\ UNCHANGED call

KlibLeave == out # <<>> /\ call.fn \notin NeverReturns /\ call' = NoCall /\ out' = <<>>

KlibNext == KlibCall \/ KlibReturn \/ KlibLeave

KlibSpec == KlibInit /\ [][KlibNext]_klibVars

-----------------------------------------------------------------------------
Returned(fns) == out # <<>> /\ call.fn \in fns

\* What strcat appends to, and where the others write: the written area.
To == IF call.fn = "strcat" THEN call.d + strlen(call.m, call.d) ELSE call.d

(***************************************************************************)
(* A copy puts the old contents of the source at the destination, however  *)
(* the two overlap, and changes nothing else; strncpy pads with            *)
(* terminators to exactly n characters.                                    *)
(***************************************************************************)
CopiesExactly ==
    Returned({"memmove", "memcpy", "strcpy", "strcat", "strncpy"}) =>
        LET ended(i) == call.fn = "strncpy" /\ \E j \in 0 .. i : call.m[call.s + j] = 0
        IN  out[1] = [x \in Cells |->
                        IF x \notin To .. To + call.n - 1 THEN call.m[x]
                        ELSE IF ended(x - To) THEN 0
                        ELSE call.m[call.s + x - To]]

\* The order of C's comparisons: the first difference decides, nothing
\* behind a terminator counts.
Before(m, s, t, n, ends) ==
    \E i \in 0 .. n - 1 :
        /\ m[s + i] < m[t + i]
        /\ \A j \in 0 .. i - 1 : m[s + j] = m[t + j] /\ (ends => m[s + j] # 0)

(***************************************************************************)
(* The comparisons return a negative number, zero or a positive one as the *)
(* first area comes before, equals or comes behind the second.             *)
(***************************************************************************)
ComparesInOrder ==
    Returned({"memcmp", "strncmp", "strcmp"}) =>
        LET n == IF call.fn = "strcmp"
                 THEN Size - (IF call.d < call.s THEN call.s ELSE call.d) ELSE call.n
            ends == call.fn # "memcmp"
        IN  /\ (out[1] < 0) <=> Before(call.m, call.d, call.s, n, ends)
            /\ (out[1] > 0) <=> Before(call.m, call.s, call.d, n, ends)

\* Decimal notation, from its positional definition.
Decimal(x) ==
    LET k == CHOOSE k \in 1 .. 4 : x < 10 ^ k /\ (k > 1 => 10 ^ (k - 1) <= x)
    IN  [i \in 1 .. k |-> Digit((x \div 10 ^ (k - i)) % 10)]
Written(x) == IF x < 0 THEN <<"-">> \o Decimal(-x) ELSE Decimal(x)

\* What a format and its arguments ask for: each argument in the place of its
\* conversion, numbers in decimal notation.
IsConversion(token) == token \in {"%d", "%u", "%s"}
Formatted ==
    LET arg(i) == call.args[Len(SelectSeq(SubSeq(call.fmt, 1, i), IsConversion))].value
    IN  FlattenSeq([i \in DOMAIN call.fmt |->
            IF call.fmt[i] = "%s" THEN arg(i)
            ELSE IF IsConversion(call.fmt[i]) THEN Written(arg(i)) ELSE <<call.fmt[i]>>])
Fits == call.fn = "printf" => Len(Formatted) < BUF_SIZE
HasUnsigned == \E i \in DOMAIN call.fmt : call.fmt[i] = "%u"

(***************************************************************************)
(* sprintf and printf write each argument in the place of its conversion,  *)
(* the smallest number too, and atoi reads numbers back (stdio.c:26-65):   *)
(* on 64-bit targets every format, on 32-bit ones those without %u, and    *)
(* printf what its buffer holds (stdio.c:11).                              *)
(***************************************************************************)
FormatsExactly ==
    /\ Returned({"sprintf", "printf"}) /\ Fits /\ (HasUnsigned => call.target.words = 1) =>
          out[1] = Formatted
    /\ Returned({"atoi"}) => out[1] = call.num

(***************************************************************************)
(* Every function of string.c, and sprintf, printf and atoi within the     *)
(* limits FormatsExactly names, returns what the C library's would, for    *)
(* all contents and overlaps of the buffer.                                *)
(***************************************************************************)
StringsExact == CopiesExactly /\ ComparesInOrder /\ FormatsExactly

(***************************************************************************)
(* %u writes the unsigned int it is given and leaves the arguments of the  *)
(* conversions behind it alone, on every target, as the program of         *)
(* coremark that prints "[%u]ERROR! list crc 0x%04x" counts on             *)
(* (core_main.c:274).  stdio.c:48 takes a uint64_t instead.                *)
(***************************************************************************)
UnsignedAsPassed ==
    Returned({"sprintf", "printf"}) /\ Fits /\ HasUnsigned => out[1] = Formatted
=============================================================================
