------------------------------- MODULE Int64 --------------------------------
(***************************************************************************)
(* klib/src/int64.c: the compiler's 64-bit division and bit scans, on a    *)
(* machine whose words have W bits (W is 32 in the code).  A word is a     *)
(* number below 2^W, a double word (di_int, du_int) a number below         *)
(* 2^(2W); a shift to the left drops what leaves the word.                 *)
(*                                                                         *)
(* A call of a division function is a sequence of steps: Call, Begin (the  *)
(* special cases, or the normalisation), Iterate (one turn of the loop of  *)
(* __udivmoddi4), Return, and Leave back to the caller.  A scan returns in *)
(* one step.                                                               *)
(***************************************************************************)
EXTENDS Integers

CONSTANTS W, Dividends, Divisors

B == 2 ^ W
DB == 2 ^ (2 * W)
Word == 0 .. B - 1
DWord == 0 .. DB - 1

ASSUME Int64Assumption ==
    /\ W \in {4, 8, 16, 32}
    /\ Dividends \subseteq DWord
    /\ Divisors \subseteq DWord \ {0}

VARIABLES fn, a, b, pc, div, ret

vars == <<fn, a, b, pc, div, ret>>

High(x) == x \div B
Low(x) == x % B
Join(h, l) == h * B + l

Shl(x, k) == (x * 2 ^ k) % B
Shr(x, k) == x \div 2 ^ k
IsPow2(x) == \E i \in 0 .. W - 1 : x = 2 ^ i

Negative(x) == x >= DB \div 2
Negated(x) == (DB - x) % DB

-----------------------------------------------------------------------------
(***************************************************************************)
(* The scans halve the part of the word the answer is in.                  *)
(***************************************************************************)
ClzStep(k, x) == IF Shr(x, k) = 0 THEN <<k, x>> ELSE <<0, Shr(x, k)>>

__clzsi2(x0) ==
    LET f[k \in 1 .. W, x \in Word] ==
            IF k = 1
            THEN IF Shr(x, 1) = 0 THEN 2 - x ELSE 0
            ELSE LET t == ClzStep(k, x) IN t[1] + f[k \div 2, t[2]]
    IN  f[W \div 2, x0]

__ctzsi2(x0) ==
    LET f[k \in 1 .. W, x \in Word] ==
            IF k = 1
            THEN IF x % 2 = 0 THEN 2 - (x % 4) \div 2 ELSE 0
            ELSE IF x % 2 ^ k = 0
                 THEN k + f[k \div 2, Shr(x, k)]
                 ELSE f[k \div 2, x]
    IN  f[W \div 2, x0]

__clzdi2(x) == IF High(x) = 0 THEN W + __clzsi2(Low(x)) ELSE __clzsi2(High(x))

__ctzdi2(x) == IF Low(x) = 0 THEN W + __ctzsi2(High(x)) ELSE __ctzsi2(Low(x))

-----------------------------------------------------------------------------
(***************************************************************************)
(* __udivmoddi4.  Early is the set of pairs <<quotient, remainder>> of the *)
(* special case that applies to n / d, empty when none does.  A zero       *)
(* divisor is the caller's error and is not modelled.                      *)
(***************************************************************************)
Excess(n, d) == __clzsi2(High(d)) - __clzsi2(High(n))

\* n >> clz-distance of the power of two d, a single word
ShiftedOut(n, d) ==
    LET s == __ctzsi2(d)
    IN  IF d = 1 THEN n
        ELSE Join(Shr(High(n), s), Shl(High(n), W - s) + Shr(Low(n), s))

Early(n, d) ==
    CASE High(n) = 0 /\ High(d) = 0 ->
            {<<Low(n) \div Low(d), Low(n) % Low(d)>>}
      [] High(n) = 0 /\ High(d) # 0 ->
            {<<0, n>>}
      [] High(n) # 0 /\ Low(d) = 0 /\ Low(n) = 0 ->
            {<<High(n) \div High(d), Join(High(n) % High(d), 0)>>}
      [] High(n) # 0 /\ Low(d) = 0 /\ Low(n) # 0 /\ IsPow2(High(d)) ->
            {<<Shr(High(n), __ctzsi2(High(d))),
               Join(High(n) % High(d), Low(n))>>}
      [] High(n) # 0 /\ Low(d) = 0 /\ Low(n) # 0 /\ ~IsPow2(High(d)) ->
            IF Excess(n, d) \in 0 .. W - 2 THEN {} ELSE {<<0, n>>}
      [] High(n) # 0 /\ Low(d) # 0 /\ High(d) = 0 ->
            IF IsPow2(Low(d)) THEN {<<ShiftedOut(n, Low(d)), Low(n) % Low(d)>>}
            ELSE {}
      [] High(n) # 0 /\ Low(d) # 0 /\ High(d) # 0 ->
            IF Excess(n, d) \in 0 .. W - 1 THEN {} ELSE {<<0, n>>}

\* The shift after which the loop has that many quotient bits to find.
Sr(n, d) ==
    IF High(d) = 0
    THEN 1 + W + __clzsi2(Low(d)) - __clzsi2(High(n))
    ELSE Excess(n, d) + 1

Normalised(n, sr) ==
    CASE sr = W -> [sr |-> sr, carry |-> 0, q |-> Join(Low(n), 0), r |-> High(n)]
      [] sr < W -> [sr |-> sr, carry |-> 0,
                    q |-> Join(Shl(Low(n), W - sr), 0),
                    r |-> Join(Shr(High(n), sr),
                               Shl(High(n), W - sr) + Shr(Low(n), sr))]
      [] sr > W -> [sr |-> sr, carry |-> 0,
                    q |-> Join(Shl(High(n), 2 * W - sr) + Shr(Low(n), sr - W),
                               Shl(Low(n), 2 * W - sr)),
                    r |-> Shr(High(n), sr - W)]

\* The turn with the comparison one off: an equal remainder stays.
NextTurnStrict(v, d) ==
    LET r1 == (2 * v.r + v.q \div 2 ^ (2 * W - 1)) % DB
        q1 == (2 * v.q + v.carry) % DB
    IN  [sr |-> v.sr - 1, q |-> q1,
         carry |-> IF r1 > d THEN 1 ELSE 0, r |-> IF r1 > d THEN r1 - d ELSE r1]

\* One turn: shift r:q left by one, bring the carry in, subtract d from r if
\* the sign of d - r - 1 says that it fits.
NextTurn(v, d) ==
    LET r1 == (2 * v.r + v.q \div 2 ^ (2 * W - 1)) % DB
        q1 == (2 * v.q + v.carry) % DB
        fits == Negative((d - r1 - 1) % DB)
    IN  [sr |-> v.sr - 1, q |-> q1,
         carry |-> IF fits THEN 1 ELSE 0,
         r |-> IF fits THEN (r1 - d) % DB ELSE r1]

-----------------------------------------------------------------------------
Divide == {"__udivdi3", "__umoddi3", "__divdi3", "__moddi3", "__divmoddi4"}
SignedDivide == {"__divdi3", "__moddi3", "__divmoddi4"}
Scan == {"__clzsi2", "__ctzsi2", "__clzdi2", "__ctzdi2"}

\* The operands __udivmoddi4 is called with.
Magnitude(x) == IF fn \in SignedDivide /\ Negative(x) THEN Negated(x) ELSE x
N == Magnitude(a)
D == Magnitude(b)

NoDivision == [sr |-> 0, carry |-> 0, q |-> 0, r |-> 0]

\* What the function makes of the quotient and remainder of N / D.
Quotient(qr) ==
    IF fn \in SignedDivide /\ Negative(a) # Negative(b) THEN Negated(qr[1]) ELSE qr[1]
Remainder(qr) ==
    CASE fn = "__divmoddi4" -> (a - Quotient(qr) * b) % DB
      [] fn = "__moddi3" /\ Negative(a) -> Negated(qr[2])
      [] OTHER -> qr[2]

Finish(qr) ==
    /\ ret' = CASE fn \in {"__udivdi3", "__divdi3"} -> <<Quotient(qr)>>
                [] fn \in {"__umoddi3", "__moddi3"} -> <<Remainder(qr)>>
                [] fn = "__divmoddi4" -> <<Quotient(qr), Remainder(qr)>>
    /\ pc' = "returned"
    /\ UNCHANGED <<fn, a, b>>

Init ==
    /\ pc = "idle" /\ fn = "none"
    /\ a = 0 /\ b = 0
    /\ div = NoDivision /\ ret = <<>>

Call(f, x, y) ==
    /\ pc' = "called"
    /\ fn' = f /\ a' = x /\ b' = y
    /\ UNCHANGED <<div, ret>>

CallDivide ==
    /\ pc = "idle"
    /\ \E f \in Divide, x \in Dividends, y \in Divisors : Call(f, x, y)

CallScan ==
    /\ pc = "idle"
    /\ \/ \E f \in {"__clzsi2", "__ctzsi2"}, x \in Word \ {0} : Call(f, x, 0)
       \/ \E f \in {"__clzdi2", "__ctzdi2"}, x \in DWord \ {0} : Call(f, x, 0)

Begin ==
    /\ pc = "called" /\ fn \in Divide
    /\ \/ /\ \E qr \in Early(N, D) : Finish(qr)
          /\ UNCHANGED div
       \/ /\ Early(N, D) = {}
          /\ div' = Normalised(N, Sr(N, D))
          /\ pc' = "loop"
          /\ UNCHANGED <<fn, a, b, ret>>

Iterate ==
    /\ pc = "loop" /\ div.sr > 0
    /\ div' = NextTurn(div, D)
    /\ UNCHANGED <<fn, a, b, pc, ret>>

Return ==
    /\ pc = "loop" /\ div.sr = 0
    /\ Finish(<<(2 * div.q + div.carry) % DB, div.r>>)
    /\ UNCHANGED div

ReturnScan ==
    /\ pc = "called" /\ fn \in Scan
    /\ ret' = CASE fn = "__clzsi2" -> <<__clzsi2(a)>>
                [] fn = "__ctzsi2" -> <<__ctzsi2(a)>>
                [] fn = "__clzdi2" -> <<__clzdi2(a)>>
                [] fn = "__ctzdi2" -> <<__ctzdi2(a)>>
    /\ pc' = "returned"
    /\ UNCHANGED <<fn, a, b, div>>

Leave ==
    /\ pc = "returned"
    /\ pc' = "idle" /\ fn' = "none"
    /\ a' = 0 /\ b' = 0
    /\ div' = NoDivision /\ ret' = <<>>

Int64Next ==
    \/ CallDivide \/ CallScan \/ Begin \/ Iterate \/ Return \/ ReturnScan \/ Leave
-----------------------------------------------------------------------------
(***************************************************************************)
(* The loop invariant of __udivmoddi4: with sr bits of n still in the top  *)
(* of q, the quotient bits found so far (the last of them in carry) times  *)
(* d, plus r, is what has been shifted out of n; r stays below d, or one   *)
(* subtraction per turn would not do.                                      *)
(***************************************************************************)
QuotientBuildsUp ==
    pc = "loop" =>
        LET left == 2 ^ (2 * W - div.sr)
            found == 2 * (div.q % left) + div.carry
        IN  /\ div.sr \in 0 .. 2 * W - 1
            /\ div.r < D
            /\ (found * D + div.r) * 2 ^ div.sr + div.q \div left = N

ToInt(x) == IF Negative(x) THEN x - DB ELSE x
Truncated(x, y) ==
    LET abs(z) == IF z < 0 THEN -z ELSE z
        m == abs(x) \div abs(y)
    IN  IF (x < 0) # (y < 0) THEN -m ELSE m

(***************************************************************************)
(* The divisions return C's quotient and remainder: truncated toward zero, *)
(* the remainder with the sign of the dividend, modulo the double word in  *)
(* the one case that overflows.                                            *)
(***************************************************************************)
DivisionExact ==
    pc = "returned" /\ fn \in Divide =>
        LET q == IF fn \in SignedDivide THEN Truncated(ToInt(a), ToInt(b)) ELSE a \div b
            x == IF fn \in SignedDivide THEN ToInt(a) - q * ToInt(b) ELSE a % b
        IN  ret = CASE fn \in {"__udivdi3", "__divdi3"} -> <<q % DB>>
                    [] fn \in {"__umoddi3", "__moddi3"} -> <<x % DB>>
                    [] fn = "__divmoddi4" -> <<q % DB, x % DB>>

(***************************************************************************)
(* The scans count the zeros above the highest, or below the lowest, bit   *)
(* of a nonzero number, across the two words of a double one.              *)
(***************************************************************************)
ScansExact ==
    pc = "returned" /\ fn \in Scan =>
        LET bits == IF fn \in {"__clzdi2", "__ctzdi2"} THEN 2 * W ELSE W
        IN  \E i \in 0 .. bits - 1 :
                /\ ret = <<IF fn \in {"__clzsi2", "__clzdi2"} THEN bits - 1 - i ELSE i>>
                /\ IF fn \in {"__clzsi2", "__clzdi2"}
                   THEN 2 ^ i <= a /\ a < 2 ^ (i + 1)
                   ELSE a % 2 ^ i = 0 /\ a % 2 ^ (i + 1) # 0
=============================================================================
