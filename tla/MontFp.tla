------------------------------- MODULE MontFp -------------------------------
(***************************************************************************)
(* arith/montfp.c, the representation of F_p that pbc uses unless told      *)
(* otherwise: what a function leaves in the element it writes, given what   *)
(* was there.  An element is a flag, 0 for zero, and its limbs, which a     *)
(* zero flag leaves as they were.  The limbs are taken together as one      *)
(* number below B = W^t; mont_mul and mont_reduce go word by word.          *)
(***************************************************************************)
EXTENDS Integers, FiniteSets, FiniteSetsExt, SequencesExt

Live == 2

\* A field: W the number of values of a limb, t the limbs, p the modulus.
B(F) == F.W ^ F.t

Zero(c) == [c EXCEPT !.flag = 0]
Is(v) == [flag |-> Live, d |-> v]
IsZeroFlag(a) == a.flag = 0

\* montfp.c and fasterfp.c flag a zero; the others have limbs only.
HasFlag(F) == F.fp \in {"mont", "faster"}

\* gmp's mpn functions on t limbs
Carry(F, x) == x >= B(F)
Limbs(F, x) == x % B(F)

\* mpz_powm and mpz_invert
RECURSIVE PowerMod(_, _, _)
PowerMod(x, n, p) == IF n = 0 THEN 1 % p ELSE (x * PowerMod(x, n - 1, p)) % p
InverseMod(x, p) == CHOOSE y \in 0..p - 1 : (x * y) % p = 1 % p
QuadraticResidue(x, p) == \E y \in 1..p - 1 : (y * y) % p = x % p
Odd(x) == x % 2 = 1

\* x is kept as x * B mod p.
MontSetMpz(F, c, z) ==
    LET v == (z * B(F)) % F.p IN IF z = 0 \/ v = 0 THEN Zero(c) ELSE Is(v)
MontSet1(F) == Is(B(F) % F.p)
MontIs1(F, a) == ~IsZeroFlag(a) /\ a.d = B(F) % F.p

FpSet(c, a) == IF IsZeroFlag(a) THEN Zero(c) ELSE a

\* After an addition or a doubling to x: the sum less p if it does not fit or is more.
Fold(F, c, x) ==
    CASE Carry(F, x) -> Is(Limbs(F, Limbs(F, x) - F.p))
      [] x = F.p -> Zero([c EXCEPT !.d = x])
      [] OTHER -> Is(IF x > F.p THEN x - F.p ELSE x)

MontAdd(F, c, a, b) ==
    CASE IsZeroFlag(a) -> FpSet(c, b)
      [] IsZeroFlag(b) -> FpSet(c, a)
      [] OTHER -> Fold(F, c, a.d + b.d)

MontDouble(F, c, a) == IF IsZeroFlag(a) THEN Zero(c) ELSE Fold(F, c, 2 * a.d)

\* An even a is copied with its flag; for an odd one the flag of c stays what it was.
MontHalve(F, c, a) ==
    CASE IsZeroFlag(a) -> Zero(c)
      [] ~IsZeroFlag(a) /\ Odd(a.d) -> [c EXCEPT !.d = (a.d + F.p) \div 2]
      [] OTHER -> Is(a.d \div 2)

MontNeg(F, c, a) == IF IsZeroFlag(a) THEN Zero(c) ELSE Is(Limbs(F, F.p - a.d))

MontSub(F, c, a, b) ==
    CASE IsZeroFlag(a) -> MontNeg(F, c, b)
      [] IsZeroFlag(b) -> FpSet(c, a)
      [] OTHER -> IF a.d = b.d THEN Zero(c)
                  ELSE Is(IF a.d > b.d THEN a.d - b.d
                          ELSE Limbs(F, Limbs(F, a.d - b.d) + F.p))

\* -p^-1 modulo a limb
NegPInv(F) == (-InverseMod(F.p % F.W, F.W)) % F.W

\* Words i to i + t - 1 of z as one number, and z with x put there.
Low(F, z, i) == MapThenSumSet(LAMBDA j : z[i + j] * F.W ^ j, 0..F.t - 1)
Put(F, z, i, x) ==
    [k \in DOMAIN z |-> IF k \in i..i + F.t - 1 THEN (x \div F.W ^ (k - i)) % F.W ELSE z[k]]

\* mpn_addmul_1(z + i, b, t, u): z with b * u added, and the limb carried out.
AddMul(F, z, i, b, u) ==
    LET x == Low(F, z, i) + b * u IN [z |-> Put(F, z, i, x), carry |-> x \div B(F)]

Word(F, a, i) == (a \div F.W ^ i) % F.W

\* One turn of the loop of mont_mul: b * a[i] and a multiple u of p are added
\* so that word i becomes 0; z[t + i + 1] says whether z[t + i] ran over.
SecondSum(F, i, m, v, u) ==
    LET n == AddMul(F, [m.z EXCEPT ![F.t + i] = v], i, F.p, u) IN [z |-> n.z, v |-> v, carry |-> n.carry]
FirstSum(F, i, m, u) == SecondSum(F, i, m, (m.z[F.t + i] + m.carry) % F.W, u)
MontSums(F, z, i, a, b) ==
    FirstSum(F, i, AddMul(F, z, i, b, Word(F, a, i)),
             ((z[i] + Word(F, a, i) * (b % F.W)) * NegPInv(F)) % F.W)

\* Mutant of Overflowed: the overflow of z[t + i] is forgotten.
OverflowForgotten(F, i, m, s) == [m.z EXCEPT ![F.t + i] = s]

Overflowed(F, i, m, s) == [m.z EXCEPT ![F.t + i] = s, ![F.t + i + 1] = IF s < m.v THEN 1 ELSE 0]

MontRow(F, z, i, a, b) ==
    LET m == MontSums(F, z, i, a, b) IN Overflowed(F, i, m, (m.z[F.t + i] + m.carry) % F.W)

\* x less p if it is not below p or a word ran over.
LessP(F, x, over) == IF over # 0 \/ x >= F.p THEN Limbs(F, x - F.p) ELSE x

MontMulLimbs(F, a, b) ==
    LET z == FoldLeft(LAMBDA y, i : MontRow(F, y, i, a, b),
                      [k \in 0..2 * F.t |-> 0], [i \in 1..F.t |-> i - 1])
    IN  LessP(F, Low(F, z, F.t), z[2 * F.t])

MontMul(F, c, a, b) ==
    IF IsZeroFlag(a) \/ IsZeroFlag(b) THEN Zero(c) ELSE Is(MontMulLimbs(F, a.d, b.d))

\* mont_reduce: y, of 2t words, divided by B modulo p.
MontReduceRow(F, y, i) ==
    LET u == (y[i] * NegPInv(F)) % F.W
        m == AddMul(F, y, i, F.p, u)
        high == MapThenSumSet(LAMBDA j : m.z[i + F.t + j] * F.W ^ j, 0..F.t - i - 1) + m.carry
    IN  [k \in 0..2 * F.t |->
            CASE k < i + F.t -> m.z[k]
              [] k = 2 * F.t -> m.z[k] + high \div F.W ^ (F.t - i)
              [] OTHER -> (high \div F.W ^ (k - i - F.t)) % F.W]

MontReduce(F, d) ==
    LET y == FoldLeft(LAMBDA x, i : MontReduceRow(F, x, i),
                      [k \in 0..2 * F.t |-> IF k < F.t THEN Word(F, d, k) ELSE 0],
                      [i \in 1..F.t |-> i - 1])
    IN  LessP(F, Low(F, y, F.t), y[2 * F.t])

MontToMpz(F, a) == IF IsZeroFlag(a) THEN 0 ELSE MontReduce(F, a.d)

MontPow(F, c, a, n) ==
    IF IsZeroFlag(a) THEN Zero(c) ELSE Is((PowerMod(MontToMpz(F, a), n, F.p) * B(F)) % F.p)

\* The inverse of xB is x^-1 B^-1: multiplied by B^3, and divided by B, it is x^-1 B.
MontInvert(F, a) ==
    Is(MontMulLimbs(F, InverseMod(a.d, F.p), PowerMod(B(F), 3, F.p)))

MontFromBytes(F, c, n) == IF n = 0 THEN Zero(c) ELSE Is((n * B(F)) % F.p)
MontCmp(a, b) == IF IsZeroFlag(a) THEN b.flag # 0 ELSE a.d # b.d
MontSign(F, a) ==
    CASE IsZeroFlag(a) -> 0 [] Odd(MontToMpz(F, a)) -> 1 [] OTHER -> -1
MontIsSqr(F, a) == IsZeroFlag(a) \/ QuadraticResidue(MontToMpz(F, a), F.p)
=============================================================================
