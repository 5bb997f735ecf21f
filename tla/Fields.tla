------------------------------- MODULE Fields -------------------------------
(***************************************************************************)
(* Fields: F_p, the extensions of arith/fieldquadratic.c (fq: x + y          *)
(* sqrt(nqr), fi: x + iy) and arith/poly.c (polymod), and the functions      *)
(* field.c has for fields that lack their own.                             *)
(*                                                                         *)
(* A field is a record, pbc's field_s: its order, its nqr and the functions *)
(* to compute with its elements; for an extension the base field, for a     *)
(* polymod its degree n and the powers x^n .. x^(2n-1) modulo its           *)
(* polynomial.  An element of F_p is its number (FpRegisters shows that     *)
(* every implementation of F_p is that), one of fq or fi the pair <<x, y>>, *)
(* one of a polymod the tuple of its n coefficients.                        *)
(***************************************************************************)
EXTENDS Powers

\* The calls of pbc_field.h, element_add(c, a, b) with c of F and so on.
element_set_si(F, n) == F.set_si[n]
element_add(F, a, b) == F.add[a, b]
element_sub(F, a, b) == F.sub[a, b]
element_neg(F, a) == F.neg[a]
element_double(F, a) == F.doub[a]
element_mul(F, a, b) == F.mul[a, b]
element_square(F, a) == F.square[a]
element_mul_si(F, a, n) == F.mul_si[a, n]
element_invert(F, a) == F.invert[a]
element_is0(F, a) == F.is0[a]
element_is1(F, a) == F.is1[a]
element_is_sqr(F, a) == F.is_sqr[a]
element_sqrt(F, a) == F.sqrt[a]
element_sign(F, a) == F.sign[a]
element_to_mpz(F, a) == F.to_mpz[a]
element_to_bytes(F, a) == F.to_bytes[a]
\* What element_random may give.
Elements(F) == F.set

Zero0(F) == element_set_si(F, 0)
One1(F) == element_set_si(F, 1)
Group(F) == [mul |-> F.mul, square |-> F.square, one |-> One1(F)]
element_pow_mpz(F, a, n) == generic_pow_mpz(Group(F), a, n)

\* The n coefficients c(1) .. c(n); SubSeq has TLC compute them once.
Coefficients(n, c(_)) == SubSeq([i \in 1..n |-> c(i)], 1, n)

PowMod(x, n, p) ==
    generic_pow_mpz([mul |-> [a \in Int, b \in Int |-> (a * b) % p], square |-> [a \in Int |-> (a * a) % p],
                     one |-> 1], x % p, n)
\* mpz_invert; 0 has no inverse and is not inverted where the result matters.
InvMod(x, p) == IF x % p = 0 THEN 0 ELSE CHOOSE y \in 1..p - 1 : (x * y) % p = 1
\* mpz_legendre
Legendre(x, p) == IF x % p = 0 THEN 0 ELSE IF PowMod(x, (p - 1) \div 2, p) = 1 THEN 1 ELSE -1

(***************************************************************************)
(* x + y sqrt(nqr)                                                         *)
(***************************************************************************)
fq_set_si(F, i) == <<element_set_si(F.base, i), Zero0(F.base)>>
fq_is0(F, e) == element_is0(F.base, e[1]) /\ element_is0(F.base, e[2])
fq_is1(F, e) == element_is1(F.base, e[1]) /\ element_is0(F.base, e[2])
fq_sign(F, e) ==
    IF element_sign(F.base, e[1]) # 0 THEN element_sign(F.base, e[1]) ELSE element_sign(F.base, e[2])
fq_add(F, a, b) == <<element_add(F.base, a[1], b[1]), element_add(F.base, a[2], b[2])>>
fq_double(F, a) == <<element_double(F.base, a[1]), element_double(F.base, a[2])>>
fq_sub(F, a, b) == <<element_sub(F.base, a[1], b[1]), element_sub(F.base, a[2], b[2])>>
fq_neg(F, a) == <<element_neg(F.base, a[1]), element_neg(F.base, a[2])>>
fq_mul_si(F, a, z) == <<element_mul_si(F.base, a[1], z), element_mul_si(F.base, a[2], z)>>
fq_to_mpz(F, e) == element_to_mpz(F.base, e[1])
fq_to_bytes(F, e) == element_to_bytes(F.base, e[1]) \o element_to_bytes(F.base, e[2])

\* Karatsuba
fq_mul(F, a, b) ==
    LET K == F.base
        e2 == element_mul(K, element_add(K, a[1], a[2]), element_add(K, b[1], b[2]))
        e0 == element_mul(K, a[1], b[1])
        e1 == element_mul(K, a[2], b[2])
    IN  <<element_add(K, element_mul(K, e1, K.nqr), e0),
          element_sub(K, element_sub(K, e2, e0), e1)>>

fq_square(F, a) ==
    LET K == F.base
        e0 == element_square(K, a[1])
        e1 == element_mul(K, element_square(K, a[2]), K.nqr)
    IN  <<element_add(K, e0, e1), element_double(K, element_mul(K, a[1], a[2]))>>

\* x^2 - nqr y^2
fq_norm(F, a) ==
    LET K == F.base
    IN  element_sub(K, element_square(K, a[1]), element_mul(K, element_square(K, a[2]), K.nqr))

fq_invert(F, a) ==
    LET K == F.base
        e0 == element_invert(K, fq_norm(F, a))
    IN  <<element_mul(K, a[1], e0), element_mul(K, a[2], element_neg(K, e0))>>

fq_is_sqr(F, e) == element_is_sqr(F.base, fq_norm(F, e))

\* From a root of the norm: 2 a^2 = x +- root, with the sign for which a exists.
RootFromNorm(F, e, root) ==
    LET K == F.base
        half == element_invert(K, element_set_si(K, 2))
        e1 == element_mul(K, element_add(K, e[1], root), half)
        square == IF element_is_sqr(K, e1) THEN e1 ELSE element_sub(K, e1, root)
        a == element_sqrt(K, square)
    IN  <<a, element_mul(K, e[2], element_invert(K, element_add(K, a, a)))>>

fq_sqrt(F, e) == RootFromNorm(F, e, element_sqrt(F.base, fq_norm(F, e)))

(***************************************************************************)
(* x + iy                                                                  *)
(***************************************************************************)
fi_mul(F, a, b) ==
    LET K == F.base
        e2 == element_mul(K, element_add(K, a[1], a[2]), element_add(K, b[1], b[2]))
        e0 == element_mul(K, a[1], b[1])
        e1 == element_mul(K, a[2], b[2])
    IN  <<element_sub(K, e0, e1), element_sub(K, element_sub(K, e2, e0), e1)>>

fi_square(F, a) ==
    LET K == F.base
        e1 == element_mul(K, a[1], a[2])
    IN  <<element_mul(K, element_add(K, a[1], a[2]), element_sub(K, a[1], a[2])),
          element_add(K, e1, e1)>>

fi_norm(F, a) == element_add(F.base, element_square(F.base, a[1]), element_square(F.base, a[2]))

fi_invert(F, a) ==
    LET K == F.base
        e0 == element_invert(K, fi_norm(F, a))
    IN  <<element_mul(K, a[1], e0), element_mul(K, a[2], element_neg(K, e0))>>

fi_is_sqr(F, e) == element_is_sqr(F.base, fi_norm(F, e))
\* Mutant of fi_sqrt: the sign for which a exists is not looked for.
FiSqrtEitherSign(F, e) ==
    LET K == F.base
        half == element_invert(K, element_set_si(K, 2))
        a == element_sqrt(K, element_mul(K, element_add(K, e[1], element_sqrt(K, fi_norm(F, e))), half))
    IN  <<a, element_mul(K, e[2], element_invert(K, element_add(K, a, a)))>>
fi_sqrt(F, e) == RootFromNorm(F, e, element_sqrt(F.base, fi_norm(F, e)))

(***************************************************************************)
(* Polynomials over a field K: their coefficients from the constant on,     *)
(* the last of them not zero.                                              *)
(***************************************************************************)
RECURSIVE poly_remove_leading_zeroes(_, _)
poly_remove_leading_zeroes(K, f) ==
    IF f = <<>> \/ ~element_is0(K, Last(f)) THEN f ELSE poly_remove_leading_zeroes(K, Front(f))

poly_degree(f) == Len(f) - 1
poly_coeff(f, i) == f[i + 1]
poly_set_si(K, n) == poly_remove_leading_zeroes(K, <<element_set_si(K, n)>>)
element_field_to_poly(K, a) == poly_remove_leading_zeroes(K, <<a>>)
poly_is1(K, f) == Len(f) = 1 /\ element_is1(K, f[1])

poly_sgn(K, f) ==
    LET S == {i \in DOMAIN f : element_sign(K, f[i]) # 0}
    IN  IF S = {} THEN 0 ELSE element_sign(K, f[Min(S)])

poly_add(K, f, g) ==
    LET big == IF Len(f) > Len(g) THEN f ELSE g
        both == IF Len(f) > Len(g) THEN Len(g) ELSE Len(f)
    IN  poly_remove_leading_zeroes(K,
            Coefficients(Len(big), LAMBDA i : IF i <= both THEN element_add(K, f[i], g[i]) ELSE big[i]))

poly_sub(K, f, g) ==
    LET big == IF Len(f) > Len(g) THEN f ELSE g
        both == IF Len(f) > Len(g) THEN Len(g) ELSE Len(f)
    IN  poly_remove_leading_zeroes(K,
            Coefficients(Len(big), LAMBDA i :
                CASE i <= both -> element_sub(K, f[i], g[i])
                  [] i > both /\ Len(f) > Len(g) -> f[i]
                  [] OTHER -> element_neg(K, g[i])))

poly_neg(K, f) == Coefficients(Len(f), LAMBDA i : element_neg(K, f[i]))
poly_double(K, f) == Coefficients(Len(f), LAMBDA i : element_double(K, f[i]))
\* The coefficients are multiplied one by one and leading zeroes stay.
poly_mul_si(K, f, z) == Coefficients(Len(f), LAMBDA i : element_mul_si(K, f[i], z))
poly_const_mul(K, a, f) ==
    poly_remove_leading_zeroes(K, Coefficients(Len(f), LAMBDA i : element_mul(K, a, f[i])))

poly_mul(K, f, g) ==
    LET Coefficient(i) ==
            FoldLeft(LAMBDA x, j : IF j < Len(f) /\ i - j < Len(g)
                                   THEN element_add(K, x, element_mul(K, f[j + 1], g[i - j + 1]))
                                   ELSE x,
                     Zero0(K), LowToHigh(i + 1))
    IN  IF f = <<>> \/ g = <<>> THEN <<>>
        ELSE poly_remove_leading_zeroes(K,
                 Coefficients(Len(f) + Len(g) - 1, LAMBDA i : Coefficient(i - 1)))

\* b # 0: the quotient's coefficient k from the remainder's m, which it cancels.
poly_div(K, a, b) ==
    LET n == poly_degree(b)
        m == poly_degree(a)
        binv == element_invert(K, poly_coeff(b, n))
        Step(st, k) ==
            LET qe == element_mul(K, binv, st.r[n + k + 1])
            IN  [q |-> <<qe>> \o st.q,
                 r |-> Coefficients(Len(st.r), LAMBDA i :
                           IF i - 1 \in k..k + n
                           THEN element_sub(K, st.r[i], element_mul(K, qe, poly_coeff(b, i - 1 - k)))
                           ELSE st.r[i])]
        st == FoldLeft(Step, [q |-> <<>>, r |-> a], Reverse(LowToHigh(m - n + 1)))
    IN  IF n > m THEN [quot |-> <<>>, rem |-> a]
        ELSE [quot |-> st.q, rem |-> poly_remove_leading_zeroes(K, st.r)]

\* Euclid's algorithm with the factor b1 of f, until what is left divides.
RECURSIVE PolyEuclid(_, _, _, _, _)
PolyEuclid(K, b0, b1, r0, r1) ==
    LET d == poly_div(K, r0, r1)
    IN  IF d.rem = <<>> THEN [b |-> b1, r |-> r1]
        ELSE PolyEuclid(K, b1, poly_sub(K, b0, poly_mul(K, b1, d.quot)), r1, d.rem)

poly_invert(K, f, m) ==
    LET e == PolyEuclid(K, <<>>, <<One1(K)>>, m, f)
    IN  poly_const_mul(K, element_invert(K, poly_coeff(e.r, 0)), e.b)

RECURSIVE poly_gcd(_, _, _)
poly_gcd(K, f, g) ==
    LET r == poly_div(K, f, g).rem IN IF r = <<>> THEN g ELSE poly_gcd(K, g, r)

poly_make_monic(K, g) ==
    IF g = <<>> THEN <<>>
    ELSE LET e0 == element_invert(K, Last(g))
         IN  Append(Coefficients(Len(g) - 1, LAMBDA i : element_mul(K, g[i], e0)), One1(K))

(***************************************************************************)
(* Polynomials modulo one of degree n over F.base.                         *)
(***************************************************************************)
polymod_set_si(F, x) ==
    Coefficients(F.n, LAMBDA i : IF i = 1 THEN element_set_si(F.base, x) ELSE Zero0(F.base))
element_field_to_polymod(F, g) == Coefficients(F.n, LAMBDA i : IF i = 1 THEN g ELSE Zero0(F.base))
polymod_is0(F, e) == \A i \in 1..F.n : element_is0(F.base, e[i])
polymod_is1(F, e) == element_is1(F.base, e[1]) /\ \A i \in 2..F.n : element_is0(F.base, e[i])
polymod_neg(F, f) == Coefficients(F.n, LAMBDA i : element_neg(F.base, f[i]))
polymod_add(F, e, f) == Coefficients(F.n, LAMBDA i : element_add(F.base, e[i], f[i]))
polymod_double(F, f) == Coefficients(F.n, LAMBDA i : element_double(F.base, f[i]))
polymod_sub(F, e, f) == Coefficients(F.n, LAMBDA i : element_sub(F.base, e[i], f[i]))
polymod_mul_si(F, f, z) == Coefficients(F.n, LAMBDA i : element_mul_si(F.base, f[i], z))
polymod_const_mul(F, a, e) == Coefficients(F.n, LAMBDA i : element_mul(F.base, e[i], a))
polymod_to_mpz(F, e) == element_to_mpz(F.base, e[1])
polymod_to_bytes(F, f) == FlattenSeq(Coefficients(F.n, LAMBDA i : element_to_bytes(F.base, f[i])))
polymod_sgn(F, e) ==
    LET S == {i \in 1..F.n : element_sign(F.base, e[i]) # 0}
    IN  IF S = {} THEN 0 ELSE element_sign(F.base, e[Min(S)])

poly_to_polymod_truncate(F, f) ==
    Coefficients(F.n, LAMBDA i : IF i <= Len(f) THEN f[i] ELSE Zero0(F.base))
polymod_to_poly(F, e) == poly_remove_leading_zeroes(F.base, e)

polymod_invert(F, e) ==
    poly_to_polymod_truncate(F, poly_invert(F.base, polymod_to_poly(F, e), F.poly))

\* The sum of the high coefficients times their powers of x, and the low ones.
Reduced(F, low, high) ==
    FoldLeft(LAMBDA r, i : polymod_add(F, r, polymod_const_mul(F, high[i], F.xpwr[i])),
             low, [i \in 1..Len(high) |-> i])

\* The product of two polynomials of degree 2 with six multiplications:
\* its coefficients 0, 1, 2 and 3, 4.
kar_poly_2(K, a, b) ==
    LET Cross(i, j) == element_mul(K, element_add(K, a[i], a[j]), element_add(K, b[i], b[j]))
        d1 == element_mul(K, a[2], b[2])
        d0 == element_mul(K, a[1], b[1])
        c4 == element_mul(K, a[3], b[3])
        c3 == element_sub(K, Cross(2, 3), element_add(K, d1, c4))
        c02 == element_sub(K, Cross(1, 3), element_add(K, c4, d0))
    IN  <<d0, element_sub(K, element_sub(K, Cross(1, 2), d0), d1), element_add(K, d1, c02), c3, c4>>

polymod_mul_degree3(F, e, f) ==
    LET d == kar_poly_2(F.base, e, f) IN Reduced(F, SubSeq(d, 1, 3), SubSeq(d, 4, 5))

\* Karatsuba again, of halves of three coefficients.
SixFromHalves(F, m, l, h) ==
    LET K == F.base
        Mid(i) == element_sub(K, element_sub(K, m[i], l[i]), h[i])
    IN  Reduced(F, <<l[1], l[2], l[3], element_add(K, l[4], Mid(1)),
                     element_add(K, l[5], Mid(2)), Mid(3)>>,
                   <<element_add(K, Mid(4), h[1]), element_add(K, Mid(5), h[2]), h[3], h[4], h[5]>>)
polymod_mul_degree6(F, e, f) ==
    LET Sum3(a) == [i \in 1..3 |-> element_add(F.base, a[i], a[i + 3])]
    IN  SixFromHalves(F, kar_poly_2(F.base, Sum3(e), Sum3(f)), kar_poly_2(F.base, e, f),
                         kar_poly_2(F.base, SubSeq(e, 4, 6), SubSeq(f, 4, 6)))

\* The pairs (i, j), i <= n, of the coefficients that make up coefficient k of a product.
Pairs(n, k) == [i \in 1..n |-> <<i, k - i>>]
polymod_mul(F, e, f) ==
    LET K == F.base
        Coefficient(k) ==
            FoldLeft(LAMBDA x, ij : IF ij[2] \in 1..F.n
                                    THEN element_add(K, x, element_mul(K, e[ij[1]], f[ij[2]]))
                                    ELSE x,
                     Zero0(K), Pairs(F.n, k + 1))
        d == Coefficients(2 * F.n - 1, Coefficient)
    IN  Reduced(F, SubSeq(d, 1, F.n), SubSeq(d, F.n + 1, 2 * F.n - 1))

polymod_square_degree3(F, e) ==
    LET K == F.base
        Twice(x) == element_add(K, x, x)
        c3 == element_mul(K, e[1], e[2])
        c1 == element_mul(K, e[1], e[3])
        c2 == element_mul(K, e[2], e[3])
    IN  Reduced(F, <<element_square(K, e[1]), Twice(c3), element_add(K, element_square(K, e[2]), Twice(c1))>>,
                   <<Twice(c2), element_square(K, e[3])>>)

\* Each product of two coefficients is taken once and doubled.
polymod_square(F, e) ==
    LET K == F.base
        Term(i, j) ==
            CASE j = i -> element_square(K, e[i])
              [] j > i /\ j <= F.n -> LET c0 == element_mul(K, e[i], e[j]) IN element_add(K, c0, c0)
              [] OTHER -> Zero0(K)
        Coefficient(k) ==
            FoldLeft(LAMBDA x, ij : element_add(K, x, Term(ij[1], ij[2])), Zero0(K), Pairs(F.n, k + 1))
        d == Coefficients(2 * F.n - 1, Coefficient)
    IN  Reduced(F, SubSeq(d, 1, F.n), SubSeq(d, F.n + 1, 2 * F.n - 1))

polymod_is_sqr(F, e) == element_is1(F, element_pow_mpz(F, e, (F.order - 1) \div 2))

ThatOf(S) == CHOOSE r \in S : TRUE

\* Cantor-Zassenhaus: s = (X + x)^((q-1)/2) modulo X^2 - a, of which no term
\* beyond s[2] X is left; from 1 + s[1] over s[2] the root follows if it does.
\* What a drawn x leads to: a root, or nothing, when another x is drawn.
SqrtDraw(F, a, x) ==
    LET Fold2(s) ==
            IF poly_degree(s) = 2
            THEN poly_remove_leading_zeroes(F, <<element_add(F, s[1], element_mul(F, s[3], a)), s[2]>>)
            ELSE s
        z == (F.order - 1) \div 2
        r == <<x, One1(F)>>
        Step(s, i) ==
            LET s2 == Fold2(poly_mul(F, s, s)) IN IF Bit(z, i) = 1 THEN Fold2(poly_mul(F, s2, r)) ELSE s2
        s == FoldLeft(Step, <<One1(F)>>, HighToLow(z))
        e0 == element_mul(F, element_invert(F, s[2]), element_add(F, s[1], One1(F)))
    IN  CASE element_square(F, x) = a -> {x}
          [] element_square(F, x) # a /\ poly_degree(s) < 1 -> {}
          [] OTHER -> IF element_mul(F, e0, e0) = a THEN {e0} ELSE {}

\* The draws end with either root; here with that of a draw which is none itself.
polymod_sqrt(F, a) ==
    LET Splits(x) == element_square(F, x) # a /\ SqrtDraw(F, a, x) # {}
    IN  ThatOf(SqrtDraw(F, a, CHOOSE x \in Elements(F) : Splits(x)))

(***************************************************************************)
(* The root of a square in a field with an nqr.  q - 1 = 2^s t.            *)
(***************************************************************************)
element_tonelli(F, a) ==
    LET ginv == element_invert(F, F.nqr)
        s == Valuation(F.order - 1, 2)
        t == (F.order - 1) \div 2 ^ s
        Lifted(e) == element_mul(F, element_pow_mpz(F, ginv, e), a)
        Step(e, i) ==
            IF element_is1(F, element_pow_mpz(F, Lifted(e), (F.order - 1) \div 2 ^ i))
            THEN e ELSE e + 2 ^ (i - 1)
        e == FoldLeft(Step, 0, [i \in 1..s - 1 |-> i + 1])
    IN  element_mul(F, element_pow_mpz(F, F.nqr, e \div 2),
                    element_pow_mpz(F, Lifted(e), (t + 1) \div 2))

\* Any element that is no square.
field_gen_nqr(F) == {x \in Elements(F) : ~element_is_sqr(F, x)}

\* field.c: what a field has by default.
generic_halve(F, a) == element_mul(F, a, element_invert(F, element_set_si(F, 2)))
generic_div(F, a, b) == element_mul(F, element_invert(F, b), a)
generic_add_ui(F, a, b) == element_add(F, a, element_set_si(F, b))

(***************************************************************************)
(* Setting fields up                                                       *)
(***************************************************************************)
\* The functions are defined for all tuples of numbers (all), of which a field
\* has those in set.  Orders beyond TLC's integers are 0; nothing asks for them.
Order(b, n) == IF n * Bits(b) > 30 THEN 0 ELSE b ^ n

field_init_fp(p, nqr) ==
    LET S == Int
        F == [kind |-> "fp", order |-> p, nqr |-> nqr, set |-> 0..p - 1, all |-> S,
              set_si |-> [n \in Int |-> n % p],
              add |-> [a \in S, b \in S |-> (a + b) % p],
              sub |-> [a \in S, b \in S |-> (a - b) % p],
              neg |-> [a \in S |-> (-a) % p],
              doub |-> [a \in S |-> (2 * a) % p],
              mul |-> [a \in S, b \in S |-> (a * b) % p],
              square |-> [a \in S |-> (a * a) % p],
              mul_si |-> [a \in S, n \in Int |-> (a * n) % p],
              invert |-> [a \in S |-> InvMod(a, p)],
              is0 |-> [a \in S |-> a = 0],
              is1 |-> [a \in S |-> a = 1],
              is_sqr |-> [a \in S |-> a = 0 \/ Legendre(a, p) = 1],
              sqrt |-> <<>>,
              sign |-> [a \in S |-> IF a = 0 THEN 0 ELSE IF a % 2 = 1 THEN 1 ELSE -1],
              to_mpz |-> [a \in S |-> a],
              to_bytes |-> [a \in S |-> pbc_mpz_out_raw_n((Bits(p) + 7) \div 8, a)]]
    IN  [F EXCEPT !.sqrt = [a \in S |-> element_tonelli(F, a)]]
\* With some nqr, as field_get_nqr finds one when it is asked for.
PrimeField(p) == field_init_fp(p, CHOOSE n \in 1..p - 1 : Legendre(n, p) = -1)

\* An extension gets its nqr later, if it is asked for one.
field_set_nqr(F, nqr) == [F EXCEPT !.nqr = nqr]

field_init_quadratic(K) ==
    LET S == K.all \X K.all
        F == [base |-> K]
    IN  [kind |-> "fq", order |-> Order(K.order, 2), nqr |-> <<>>, base |-> K, set |-> K.set \X K.set, all |-> S,
         set_si |-> [n \in Int |-> fq_set_si(F, n)],
         add |-> [a \in S, b \in S |-> fq_add(F, a, b)],
         sub |-> [a \in S, b \in S |-> fq_sub(F, a, b)],
         neg |-> [a \in S |-> fq_neg(F, a)],
         doub |-> [a \in S |-> fq_double(F, a)],
         mul |-> [a \in S, b \in S |-> fq_mul(F, a, b)],
         square |-> [a \in S |-> fq_square(F, a)],
         mul_si |-> [a \in S, n \in Int |-> fq_mul_si(F, a, n)],
         invert |-> [a \in S |-> fq_invert(F, a)],
         is0 |-> [a \in S |-> fq_is0(F, a)],
         is1 |-> [a \in S |-> fq_is1(F, a)],
         is_sqr |-> [a \in S |-> fq_is_sqr(F, a)],
         sqrt |-> [a \in S |-> fq_sqrt(F, a)],
         sign |-> [a \in S |-> fq_sign(F, a)],
         to_mpz |-> [a \in S |-> fq_to_mpz(F, a)],
         to_bytes |-> [a \in S |-> fq_to_bytes(F, a)]]

\* The same functions but for the multiplication and what follows from it.
field_init_fi(K) ==
    LET S == K.all \X K.all
        F == [base |-> K]
    IN  [field_init_quadratic(K) EXCEPT
            !.kind = "fi",
            !.mul = [a \in S, b \in S |-> fi_mul(F, a, b)],
            !.square = [a \in S |-> fi_square(F, a)],
            !.invert = [a \in S |-> fi_invert(F, a)],
            !.is_sqr = [a \in S |-> fi_is_sqr(F, a)],
            !.sqrt = [a \in S |-> fi_sqrt(F, a)]]

\* x^n, ..., x^(2n-1) modulo poly: each is the one before, moved up, with the
\* coefficient that falls out times x^n.
compute_x_powers(F, poly) ==
    LET K == F.base
        pwrn == polymod_neg(F, poly_to_polymod_truncate(F, poly))
        Next1(c) == polymod_add(F, <<Zero0(K)>> \o Front(c), polymod_const_mul(F, Last(c), pwrn))
    IN  FoldLeft(LAMBDA w, i : Append(w, Next1(Last(w))), <<pwrn>>, LowToHigh(F.n - 1))

\* Degrees 3 and 6 have a multiplication, degree 3 a squaring of their own.
PolymodTable(K, n, F, S) ==
    [kind |-> "polymod", order |-> Order(K.order, n), nqr |-> <<>>, base |-> K, n |-> n, poly |-> F.poly,
     xpwr |-> F.xpwr, set |-> [1..n -> K.set], all |-> S,
     set_si |-> [x \in Int |-> polymod_set_si(F, x)],
     add |-> [a \in S, b \in S |-> polymod_add(F, a, b)],
     sub |-> [a \in S, b \in S |-> polymod_sub(F, a, b)],
     neg |-> [a \in S |-> polymod_neg(F, a)],
     doub |-> [a \in S |-> polymod_double(F, a)],
     mul |-> [a \in S, b \in S |->
                 CASE n = 3 -> polymod_mul_degree3(F, a, b)
                   [] n = 6 -> polymod_mul_degree6(F, a, b)
                   [] n \notin {3, 6} -> polymod_mul(F, a, b)],
     square |-> [a \in S |-> IF n = 3 THEN polymod_square_degree3(F, a) ELSE polymod_square(F, a)],
     mul_si |-> [a \in S, z \in Int |-> polymod_mul_si(F, a, z)],
     invert |-> [a \in S |-> polymod_invert(F, a)],
     is0 |-> [a \in S |-> polymod_is0(F, a)],
     is1 |-> [a \in S |-> polymod_is1(F, a)],
     is_sqr |-> <<>>,
     sqrt |-> <<>>,
     sign |-> [a \in S |-> polymod_sgn(F, a)],
     to_mpz |-> [a \in S |-> polymod_to_mpz(F, a)],
     to_bytes |-> [a \in S |-> polymod_to_bytes(F, a)]]

Modulus(K, poly) == [base |-> K, n |-> poly_degree(poly), poly |-> poly]
WithPowers(F) == [base |-> F.base, n |-> F.n, poly |-> F.poly, xpwr |-> compute_x_powers(F, F.poly)]
WithRoots(R, S) ==
    [R EXCEPT !.is_sqr = [a \in S |-> polymod_is_sqr(R, a)], !.sqrt = [a \in S |-> polymod_sqrt(R, a)]]

field_init_polymod(K, poly) ==
    LET S == [1..poly_degree(poly) -> K.all]
    IN  WithRoots(PolymodTable(K, poly_degree(poly), WithPowers(Modulus(K, poly)), S), S)

(***************************************************************************)
(* Irreducible polynomials and roots                                       *)
(***************************************************************************)
\* x^(q^e) - x modulo f, by e powers of q, which TLC's integers hold.
Frobenius(K, R, e) ==
    LET x == [i \in 1..R.n |-> IF i = 2 THEN One1(K) ELSE Zero0(K)]
    IN  element_sub(R, FoldLeft(LAMBDA y, i : element_pow_mpz(R, y, K.order), x, LowToHigh(e)), x)

checkgcd(K, R, f, fac) ==
    LET xpow == Frobenius(K, R, poly_degree(f) \div fac)
    IN  element_is0(R, xpow) \/ poly_degree(poly_gcd(K, f, polymod_to_poly(R, xpow))) # 0

IrredIn(K, R, f, factors) ==
    /\ \A i \in DOMAIN factors : ~checkgcd(K, R, f, factors[i].fac)
    /\ element_is0(R, Frobenius(K, R, poly_degree(f)))
poly_is_irred(K, f) ==
    \/ poly_degree(f) = 1
    \/ /\ poly_degree(f) > 1
       /\ IrredIn(K, field_init_polymod(K, f), f, pbc_trial_divide(poly_degree(f), 0))

\* The factors of g that a draw of the monic r of degree 1 gives, or nothing,
\* when another r is drawn.  g is a product of different monic factors of degree 1.
FactorsBy(K, R, g, r) ==
    LET fac == poly_gcd(K, r, g)
        power == polymod_to_poly(R, element_pow_mpz(R, poly_to_polymod_truncate(R, r), (K.order - 1) \div 2))
        fac2 == poly_gcd(K, poly_add(K, power, <<One1(K)>>), g)
    IN  CASE poly_degree(fac) > 0 -> {poly_make_monic(K, fac)}
          [] poly_degree(fac) = 0 /\ poly_degree(fac2) \in 1..poly_degree(g) - 1 -> {poly_make_monic(K, fac2)}
          [] OTHER -> {}

\* The roots that draws may lead to.
RECURSIVE RootsByDraws(_, _)
RootsByDraws(K, g) ==
    IF poly_degree(g) = 1 THEN {element_neg(K, g[1])}
    ELSE UNION {RootsByDraws(K, h) : h \in UNION {FactorsBy(K, field_init_polymod(K, g), g, <<c, One1(K)>>) :
                                                    c \in Elements(K)}}

\* x^q - x has every element of K as its root.  {} when it says there is no root.
RootPart(K, R, poly) == poly_make_monic(K, poly_gcd(K, polymod_to_poly(R, Frobenius(K, R, 1)), poly))
RootsOf(K, g) == IF poly_degree(g) = 0 THEN {} ELSE RootsByDraws(K, g)
poly_findroot(K, poly) == RootsOf(K, RootPart(K, field_init_polymod(K, poly), poly))
=============================================================================
