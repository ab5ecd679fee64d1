------------------------------- MODULE LibGcc -------------------------------
(***************************************************************************)
(* am/src/riscv/npc/libgcc: the multiplications and shifts the compiler    *)
(* calls on a processor without the M extension, and the portable part of  *)
(* longlong.h.  UWtype is a word of Int64, DWtype a double word.           *)
(***************************************************************************)
EXTENDS Int64

UWtype == Word
DWunion(high, low) == Join(high, low)

\* __ll_B, __ll_lowpart and __ll_highpart
H == 2 ^ (W \div 2)
LowPart(x) == x % H
HighPart(x) == x \div H

Carry(c) == IF c THEN 1 ELSE 0

\* muldi3.S: add the shifted multiplicand for each bit of the multiplier.
__muluw3(x, y) ==
    LET mul[acc \in UWtype, m \in UWtype, k \in UWtype] ==
            LET sum == IF k % 2 = 1 THEN (acc + m) % B ELSE acc
            IN  IF k < 2 THEN sum ELSE mul[sum, Shl(m, 1), Shr(k, 1)]
    IN  mul[0, x, y]

\* The double word product of two words: wh:wl accumulates, t:ul is the
\* multiplicand shifted so far.
CarryOutLost(new, old) == 0
CarryOut(new, old) == Carry(new < old)
LowProduct(u, v) ==
    LET mul[vl, ul, wl, wh, t \in UWtype] ==
            LET new == (wl + ul) % B
                odd == vl % 2 = 1
                wl1 == IF odd THEN new ELSE wl
                wh1 == IF odd THEN (CarryOut(new, wl) + wh + t) % B ELSE wh
            IN  IF vl < 2 THEN DWunion(wh1, wl1)
                ELSE mul[Shr(vl, 1), Shl(ul, 1), wl1, wh1,
                         Shr(ul, W - 1) + Shl(t, 1)]
    IN  mul[v, u, 0, 0, 0]

__multi3(u, v) ==
    LET low == LowProduct(Low(u), Low(v))
        hi == (IF High(u) # 0 THEN __muluw3(Low(v), High(u)) ELSE 0)
              + (IF High(v) # 0 THEN __muluw3(Low(u), High(v)) ELSE 0)
    IN  DWunion((High(low) + hi) % B, Low(low))

__ashldi3(u, n) ==
    CASE n = 0 -> u
      [] n >= W -> DWunion(Shl(Low(u), n - W), 0)
      [] n \in 1 .. W - 1 ->
            DWunion(Shl(High(u), n) + Shr(Low(u), W - n), Shl(Low(u), n))

add_ssaaaa(ah, al, bh, bl) ==
    LET x == (al + bl) % B
    IN  <<(ah + bh + Carry(x < al)) % B, x>>

sub_ddmmss(ah, al, bh, bl) ==
    LET x == (al - bl) % B
    IN  <<(ah - bh - Carry(x > al)) % B, x>>

\* riscv's umul_ppmm, which multiplies half words with __muluw3, and the
\* portable one it is a copy of.
umul_ppmm(u, v) ==
    LET x0 == __muluw3(LowPart(u), LowPart(v))
        x2 == __muluw3(HighPart(u), LowPart(v))
        x1 == (__muluw3(LowPart(u), HighPart(v)) + HighPart(x0) + x2) % B
        x3 == (__muluw3(HighPart(u), HighPart(v)) + (IF x1 < x2 THEN H ELSE 0)) % B
    IN  <<(x3 + HighPart(x1)) % B, (LowPart(x1) * H + LowPart(x0)) % B>>

umul_ppmm_c(u, v) ==
    LET x0 == LowPart(u) * LowPart(v)
        x2 == HighPart(u) * LowPart(v)
        x1 == (LowPart(u) * HighPart(v) + HighPart(x0) + x2) % B
        x3 == HighPart(u) * HighPart(v) + (IF x1 < x2 THEN H ELSE 0)
    IN  <<(x3 + HighPart(x1)) % B, LowPart(x1) * H + LowPart(x0)>>

\* umul_ppmm from a signed product: smul_ppmm is an instruction elsewhere.
smul_ppmm(u, v) ==
    LET s(x) == IF x >= B \div 2 THEN x - B ELSE x
        p == (s(u) * s(v)) % DB
    IN  <<High(p), Low(p)>>
umul_of_smul(u, v) ==
    LET p == smul_ppmm(u, v)
    IN  <<(p[1] + (IF u >= B \div 2 THEN v ELSE 0)
                + (IF v >= B \div 2 THEN u ELSE 0)) % B, p[2]>>

\* One half-word quotient digit: estimate with the high half of d, then
\* correct the estimate down at most twice.
QuotientDigit(n, nlow, d) ==
    LET q == n \div HighPart(d)
        r == (n % HighPart(d)) * H + nlow
        m == q * LowPart(d)
        r1 == (r + d) % B
        r2 == (r1 + d) % B
    IN  CASE r >= m -> <<q, r - m>>
          [] r < m /\ r1 >= d /\ r1 < m -> <<q - 2, (r2 - m) % B>>
          [] r < m /\ ~(r1 >= d /\ r1 < m) -> <<q - 1, (r1 - m) % B>>

__udiv_qrnnd_c(n1, n0, d) ==
    LET first == QuotientDigit(n1, HighPart(n0), d)
        second == QuotientDigit(first[2], LowPart(n0), d)
    IN  <<first[1] * H + second[1], second[2]>>

\* clz_tab[x] is the number of bits x needs; the table is libgcc's.
clz_tab(x) == CHOOSE n \in 0 .. W : x < 2 ^ n /\ \A m \in 0 .. n - 1 : 2 ^ m <= x

\* The quarter of the word its highest bit is in, then the table; a word of
\* more than 32 bits is scanned by bytes, a quarter of a scaled word.
Byte == IF W > 8 THEN 8 ELSE W \div 4
count_leading_zeros_wide(x) ==
    LET scan[k \in 0 .. W] ==
            IF k = 0 \/ Shr(x, k) % 2 ^ Byte # 0 THEN k ELSE scan[k - Byte]
        k == scan[W - Byte]
    IN  W - (clz_tab(Shr(x, k)) + k)

count_leading_zeros(x) ==
    LET q == W \div 4
        k == CASE x < 2 ^ q -> 0
               [] x >= 2 ^ q /\ x < 2 ^ (2 * q) -> q
               [] x >= 2 ^ (2 * q) /\ x < 2 ^ (3 * q) -> 2 * q
               [] x >= 2 ^ (3 * q) -> 3 * q
    IN  W - (clz_tab(Shr(x, k)) + k)

\* x & -x is the lowest bit of x.
LowestBit(x) == IF x = 0 THEN 0 ELSE 2 ^ (CHOOSE i \in 0 .. W - 1 :
                    x % 2 ^ i = 0 /\ x % 2 ^ (i + 1) # 0)
count_trailing_zeros(x) == W - 1 - count_leading_zeros(LowestBit(x))

-----------------------------------------------------------------------------
(***************************************************************************)
(* Calls of these functions return in one step.                            *)
(***************************************************************************)
WordFns == {"umul_ppmm", "umul_ppmm_c", "umul_of_smul",
            "count_leading_zeros", "count_leading_zeros_wide", "count_trailing_zeros"}
DoubleFns == {"__multi3", "add_ssaaaa", "sub_ddmmss"}

CallLibGcc ==
    /\ pc = "idle"
    /\ \/ \E f \in DoubleFns, x \in Dividends, y \in Divisors : Call(f, x, y)
       \/ \E f \in WordFns, x \in Word, y \in Word \ {0} : Call(f, x, y)
       \/ \E x \in Dividends, n \in 0 .. 2 * W - 1 : Call("__ashldi3", x, n)
       \* The high word of the dividend is below the divisor, whose highest bit
       \* is set (UDIV_NEEDS_NORMALIZATION).
       \/ \E x \in DWord, y \in B \div 2 .. B - 1 :
               High(x) < y /\ Call("__udiv_qrnnd_c", x, y)

ReturnLibGcc ==
    /\ pc = "called"
    /\ fn \in WordFns \union DoubleFns \union {"__ashldi3", "__udiv_qrnnd_c"}
    /\ ret' = CASE fn = "__multi3" -> <<__multi3(a, b)>>
                [] fn = "__ashldi3" -> <<__ashldi3(a, b)>>
                [] fn = "add_ssaaaa" -> add_ssaaaa(High(a), Low(a), High(b), Low(b))
                [] fn = "sub_ddmmss" -> sub_ddmmss(High(a), Low(a), High(b), Low(b))
                [] fn = "umul_ppmm" -> umul_ppmm(a, b)
                [] fn = "umul_ppmm_c" -> umul_ppmm_c(a, b)
                [] fn = "umul_of_smul" -> umul_of_smul(a, b)
                [] fn = "__udiv_qrnnd_c" -> __udiv_qrnnd_c(High(a), Low(a), b)
                [] fn = "count_leading_zeros" -> <<count_leading_zeros(b)>>
                [] fn = "count_leading_zeros_wide" -> <<count_leading_zeros_wide(b)>>
                [] fn = "count_trailing_zeros" -> <<count_trailing_zeros(b)>>
    /\ pc' = "returned"
    /\ UNCHANGED <<fn, a, b, div>>

Next == Int64Next \/ CallLibGcc \/ ReturnLibGcc

Spec == Init /\ [][Next]_vars

(***************************************************************************)
(* Whatever is carried between half words, words and turns of a loop, the  *)
(* results are those of the arithmetic on whole numbers.                   *)
(***************************************************************************)
ArithmeticExact ==
    pc = "returned" =>
        CASE fn = "__multi3" -> ret = <<(a * b) % DB>>
          [] fn = "__ashldi3" -> ret = <<(a * 2 ^ b) % DB>>
          [] fn = "add_ssaaaa" -> Join(ret[1], ret[2]) = (a + b) % DB
          [] fn = "sub_ddmmss" -> Join(ret[1], ret[2]) = (a - b) % DB
          [] fn \in {"umul_ppmm", "umul_ppmm_c", "umul_of_smul"} ->
                Join(ret[1], ret[2]) = a * b
          [] fn = "__udiv_qrnnd_c" -> ret = <<a \div b, a % b>>
          [] fn \in {"count_leading_zeros", "count_leading_zeros_wide"} ->
                2 ^ (W - ret[1]) > b /\ 2 ^ (W - ret[1]) <= 2 * b
          [] fn = "count_trailing_zeros" -> b % 2 ^ ret[1] = 0 /\ b % 2 ^ (ret[1] + 1) # 0
          [] OTHER -> TRUE


(***************************************************************************)
(* Every function on whole numbers returns what arithmetic says: quotient  *)
(* and remainder with the signs of C, positions of bits, sums and shifts   *)
(* of two words (int64.c, longlong.h, libgcc2.h).                          *)
(***************************************************************************)
IntegersExact == QuotientBuildsUp /\ DivisionExact /\ ScansExact /\ ArithmeticExact
=============================================================================
