----------------------------- MODULE FpVariants -----------------------------
(***************************************************************************)
(* The other implementations of F_p: fasterfp.c (a zero flag and limbs),    *)
(* fastfp.c (limbs), tinyfp.c (one machine word) and naivefp.c (a gmp       *)
(* integer).  Those without a flag have it always Live.                     *)
(***************************************************************************)
EXTENDS MontFp

(***************************************************************************)
(* fasterfp.c.  Addition, doubling, halving, negation and subtraction are   *)
(* those of montfp.c, function by function.                                *)
(***************************************************************************)
\* A multiple of p other than 0 gives a live element of zero limbs.
FasterSetMpz(F, c, z) == IF z = 0 THEN Zero(c) ELSE Is(z % F.p)
FasterSetSi(F, c, n) == IF n = 0 THEN Zero(c) ELSE Is(IF n < 0 THEN F.p + n ELSE n)
FasterToMpz(a) == IF IsZeroFlag(a) THEN 0 ELSE a.d
FasterIs1(a) == ~IsZeroFlag(a) /\ a.d = 1
FasterAdd(F, c, a, b) == MontAdd(F, c, a, b)
FasterDouble(F, c, a) == MontDouble(F, c, a)
FasterHalve(F, c, a) == MontHalve(F, c, a)
FasterSub(F, c, a, b) == MontSub(F, c, a, b)
FasterNeg(F, c, a) == MontNeg(F, c, a)

FasterMul(F, c, a, b) ==
    IF IsZeroFlag(a) \/ IsZeroFlag(b) THEN Zero(c) ELSE Is((a.d * b.d) % F.p)
FasterSquare(F, c, a) == IF IsZeroFlag(a) THEN Zero(c) ELSE Is((a.d * a.d) % F.p)

\* |n| first, then the sign.
Abs(n) == IF n < 0 THEN -n ELSE n
FasterMulSi(F, c, a, n) ==
    IF IsZeroFlag(a) \/ n = 0 THEN Zero(c)
    ELSE LET r == Is((a.d * Abs(n)) % F.p) IN IF n < 0 THEN FasterNeg(F, r, r) ELSE r

FasterPow(F, c, a, n) == IF IsZeroFlag(a) THEN Zero(c) ELSE Is(PowerMod(a.d, n, F.p))
FasterInvert(F, a) == Is(InverseMod(FasterToMpz(a), F.p))
FasterFromBytes(c, n) == IF n = 0 THEN Zero(c) ELSE Is(n)
FasterCmp(a, b) == IF IsZeroFlag(a) THEN b.flag # 0 ELSE a.d # b.d
FasterSign(a) == CASE IsZeroFlag(a) -> 0 [] Odd(a.d) -> 1 [] OTHER -> -1
FasterIsSqr(F, a) == IsZeroFlag(a) \/ QuadraticResidue(a.d, F.p)

(***************************************************************************)
(* fastfp.c                                                                *)
(***************************************************************************)
FastSetMpz(F, z) == Is(z % F.p)
FastSetSi(F, n) == Is(IF n < 0 THEN F.p + n ELSE n)
FastReduce(F, x) == Is(IF Carry(F, x) \/ x >= F.p THEN Limbs(F, Limbs(F, x) - F.p) ELSE x)
FastAdd(F, a, b) == FastReduce(F, a.d + b.d)
FastDouble(F, a) == FastReduce(F, 2 * a.d)
FastHalve(F, a) == Is(IF Odd(a.d) THEN (a.d + F.p) \div 2 ELSE a.d \div 2)
FastSub(F, a, b) == Is(IF a.d < b.d THEN Limbs(F, Limbs(F, a.d - b.d) + F.p) ELSE a.d - b.d)
FastMul(F, a, b) == Is((a.d * b.d) % F.p)
FastSquare(F, a) == Is((a.d * a.d) % F.p)
\* Mutant of FastNeg: zero is not set apart.
FastNegAny(F, a) == Is(F.p - a.d)

FastNeg(F, a) == Is(IF a.d = 0 THEN 0 ELSE F.p - a.d)

FastMulSi(F, a, n) ==
    LET r == Is((a.d * Abs(n)) % F.p) IN IF n < 0 THEN FastNeg(F, r) ELSE r
FastPow(F, a, n) == Is(PowerMod(a.d, n, F.p))
FastInvert(F, a) == Is(InverseMod(a.d, F.p))
FastFromBytes(F, n) == FastSetMpz(F, n)
FastSign(a) == CASE a.d = 0 -> 0 [] Odd(a.d) -> 1 [] OTHER -> -1
FastIsSqr(F, a) == a.d = 0 \/ QuadraticResidue(a.d, F.p)

(***************************************************************************)
(* tinyfp.c: B is the word, here, and products are taken modulo B.         *)
(***************************************************************************)
TinySetMpz(F, z) == Is(z % F.p)
\* A negative multiple of p gives p itself.
TinySetSi(F, n) == Is(IF n < 0 THEN F.p - (Abs(n) % F.p) ELSE n % F.p)
TinyAdd(F, a, b) ==
    LET x == Limbs(F, a.d + b.d) IN Is((IF x < a.d THEN Limbs(F, x - F.p) ELSE x) % F.p)
TinyDouble(F, a) ==
    LET x == Limbs(F, 2 * a.d) IN Is((IF x < a.d THEN Limbs(F, x - F.p) ELSE x) % F.p)
TinySub(F, a, b) == Is(IF a.d >= b.d THEN a.d - b.d ELSE F.p - b.d + a.d)
TinyMul(F, a, b) == Is(Limbs(F, a.d * b.d) % F.p)
TinyNeg(F, a) == Is(IF a.d # 0 THEN F.p - a.d ELSE 0)
TinyMulSi(F, a, n) == Is(Limbs(F, a.d * n) % F.p)
TinyPow(F, a, n) == Is(PowerMod(a.d, n, F.p))
TinyInvert(F, a) == Is(InverseMod(a.d, F.p))
TinySign(a) == CASE a.d = 0 -> 0 [] Odd(a.d) -> 1 [] OTHER -> -1
TinyFromBytes(n) == Is(n)

(***************************************************************************)
(* naivefp.c                                                               *)
(***************************************************************************)
NaiveSet(F, z) == Is(z % F.p)
NaiveAdd(F, a, b) == LET x == a.d + b.d IN Is(IF x >= F.p THEN x - F.p ELSE x)
NaiveSub(F, a, b) == LET x == a.d - b.d IN Is(IF x < 0 THEN x + F.p ELSE x)
NaiveSquare(F, a) == Is(PowerMod(a.d, 2, F.p))
NaiveDouble(F, a) == LET x == 2 * a.d IN Is(IF x >= F.p THEN x - F.p ELSE x)
NaiveHalve(F, a) == Is((IF Odd(a.d) THEN a.d + F.p ELSE a.d) \div 2)
NaiveMul(F, a, b) == Is((a.d * b.d) % F.p)
NaiveMulSi(F, a, n) == Is((a.d * n) % F.p)
NaivePow(F, a, n) == Is(PowerMod(a.d, n, F.p))
NaiveNeg(F, a) == Is(IF a.d = 0 THEN 0 ELSE F.p - a.d)
NaiveInvert(F, a) == Is(InverseMod(a.d, F.p))
NaiveFromBytes(n) == Is(n)
NaiveSign(a) == CASE a.d = 0 -> 0 [] Odd(a.d) -> 1 [] OTHER -> -1
NaiveIsSqr(F, a) == a.d = 0 \/ QuadraticResidue(a.d, F.p)
=============================================================================
