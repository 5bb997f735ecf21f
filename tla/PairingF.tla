------------------------------- MODULE PairingF -------------------------------
(***************************************************************************)
(* ecc/f_param.c: the pairings of type F, on a Barreto-Naehrig curve         *)
(* Y^2 = X^3 + b of embedding degree 12, and its sextic twist over Fq2.     *)
(*                                                                         *)
(* An element of Fq2 is a pair, one of Fq12 = Fq2[x] / (x^6 + alpha) the    *)
(* tuple of six of them.  A line is [a, b, c] with a, b, c in F_q; at the   *)
(* untwisted point it is a Qx x^4 + b Qy x^3 + c.                           *)
(***************************************************************************)
EXTENDS Curve

ScaleBy(A, e, a) == <<(e[1] * a) % A.Fq.order, (e[2] * a) % A.Fq.order>>

\* Coefficient i of v times the line: x^6 is -alpha where the product goes over it.
f_term(A, v, line, Q, i) ==
    LET K == A.Fq2
        e1 == ScaleBy(A, element_mul(K, v[((i + 2) % 6) + 1], Q.x), line.a)
        e2 == ScaleBy(A, element_mul(K, v[((i + 3) % 6) + 1], Q.y), line.b)
        high == CASE i < 3 -> element_mul(K, element_add(K, e2, e1), A.negalpha)
                  [] i = 3 -> element_add(K, e2, element_mul(K, e1, A.negalpha))
                  [] i > 3 -> element_add(K, e2, e1)
    IN  element_add(K, high, ScaleBy(A, v[i + 1], line.c))
f_miller_evalfn(A, v, line, Q) == Coefficients(6, LAMBDA n : f_term(A, v, line, Q, n - 1))

f_tangent(q, Z) ==
    LET a == (-3 * Z.x ^ 2) % q
    IN  [a |-> a, b |-> (2 * Z.y) % q, c |-> (-(2 * Z.y ^ 2 + a * Z.x)) % q]
f_line(q, Z, P) ==
    LET a == Z.y - P.y
        b == P.x - Z.x
    IN  [a |-> a % q, b |-> b % q, c |-> (-(b * Z.y + a * Z.x)) % q]

cc_miller_no_denom(A, P, Q) ==
    LET q == A.Fq.order
        Step(st, call) ==
            CASE call = "tangent" -> [st EXCEPT !.v = f_miller_evalfn(A, @, f_tangent(q, st.Z), Q)]
              [] call = "double" -> [st EXCEPT !.Z = curve_double(A.Eq, @, @)]
              [] call = "line" -> [v |-> f_miller_evalfn(A, st.v, f_line(q, st.Z, P), Q),
                                   Z |-> curve_mul(A.Eq, st.Z, st.Z, P)]
              [] call = "square" -> [st EXCEPT !.v = element_square(A.Fq12, @)]
    IN  FoldLeft(Step, [v |-> One1(A.Fq12), Z |-> P], MillerCalls(A.r)).v

\* The power q^2, q^6 or q^8, from the power e of x: coefficient i times e^i.
qpower6(A, out, e) ==
    LET K == A.Fq2
        powers == FoldLeft(LAMBDA w, i : Append(w, element_mul(K, Last(w), e)), <<One1(K)>>, LowToHigh(5))
    IN  Coefficients(6, LAMBDA i : element_mul(K, out[i], powers[i]))

\* (q^6 - 1) (q^2 + 1) (q^4 - q^2 + 1) / r
f_tateexp(A, out) ==
    LET y == element_mul(A.Fq12, qpower6(A, out, A.xpowq8), qpower6(A, out, A.xpowq6))
        x == element_mul(A.Fq12, qpower6(A, out, A.xpowq2), out)
    IN  element_pow_mpz(A.Fq12, element_mul(A.Fq12, y, element_invert(A.Fq12, x)), A.tateexp)

f_pairing(A, in1, in2) ==
    LET Q == [x |-> element_mul(A.Fq2, in2.x, A.negalphainv), y |-> element_mul(A.Fq2, in2.y, A.negalphainv)]
    IN  f_tateexp(A, cc_miller_no_denom(A, in1, Q))

(***************************************************************************)
(* Setting up                                                              *)
(***************************************************************************)
\* x^(q^n), which is a multiple of x when n is even.
XPower(F, q, n) ==
    FoldLeft(LAMBDA e, i : element_pow_mpz(F, e, q),
             Coefficients(6, LAMBDA i : IF i = 2 THEN One1(F.base) ELSE Zero0(F.base)), LowToHigh(n))[2]

\* The number of points over q^12 divided by r^2 is beyond TLC's integers.  The
\* orders of the two sextic twists without r divide it: so does their product
\* take the same points of a twist to O.
QuotientCmp(q, r) ==
    LET right == r * (2 * q - r)
        wrong == 2 * (q ^ 2 + 1) - ((q - r + 1) ^ 2 - 2 * q) - right
    IN  (2 * q - r) * wrong

FPairing(par, Fq, Fq2, Fq12, alpha) ==
    LET negalpha == element_neg(Fq2, alpha)
        twist == field_init_curve_ab(Fq2, Zero0(Fq2), ScaleBy([Fq |-> Fq], negalpha, par.b), par.r, 0)
    IN  [type |-> "f", r |-> par.r, Fq |-> Fq, Fq2 |-> Fq2, Fq12 |-> Fq12,
         Eq |-> field_init_curve_ab(Fq, 0, par.b, par.r, 0),
         Etwist |-> field_curve_set_quotient_cmp(twist, QuotientCmp(par.q, par.r)),
         negalpha |-> negalpha, negalphainv |-> element_invert(Fq2, negalpha),
         tateexp |-> ((par.q ^ 2 - 1) * par.q ^ 2 + 1) \div par.r,
         xpowq2 |-> XPower(Fq12, par.q, 2), xpowq6 |-> XPower(Fq12, par.q, 6), xpowq8 |-> XPower(Fq12, par.q, 8)]

SixthRoot(K, alpha) == <<alpha>> \o Coefficients(5, LAMBDA i : Zero0(K)) \o <<One1(K)>>
FPairingOver(par, Fq, Fq2, alpha) ==
    FPairing(par, Fq, Fq2, field_init_polymod(Fq2, SixthRoot(Fq2, alpha)), alpha)
FPairingFrom(par, Fq) ==
    FPairingOver(par, Fq, field_init_quadratic(Fq), <<par.alpha0, par.alpha1>>)
f_init_pairing(par) == FPairingFrom(par, field_init_fp(par.q, par.beta))

\* The prime pair of the first x, with either sign, that has one.
tryminusx(x) == (((x - 1) * x * 36 + 24) * x - 6) * x + 1
tryplusx(x) == (((x + 1) * x * 36 + 24) * x + 6) * x + 1
RECURSIVE BNFrom(_)
BNFrom(x) ==
    LET t == 6 * x ^ 2 + 1
        Good(q) == IsPrime(q) /\ IsPrime(q - t + 1)
        Of(q) == [q |-> q, r |-> q - t + 1]
    IN  CASE Good(tryminusx(x)) -> Of(tryminusx(x))
          [] ~Good(tryminusx(x)) /\ Good(tryplusx(x)) -> Of(tryplusx(x))
          [] OTHER -> BNFrom(x + 1)

\* The b that may be drawn: r takes the point drawn with it to O.
FCurves(bn, Fq) ==
    {b \in Elements(Fq) \ {0} :
        LET C == CurveOf(Fq, 0, b, bn.r, 0)
        IN  RandomPoints(C) # {} /\ curve_is1(element_mul_mpz(C, Draw(C), Draw(C), bn.r))}
\* The alpha: x^6 + alpha does not split; its fifth power if the twist has no points of order r.
FAlphas(Fq2) == {alpha \in Elements(Fq2) : poly_is_irred(Fq2, SixthRoot(Fq2, alpha))}
RightTwist(bn, Fq, Fq2, b, alpha) ==
    LET C == CurveOf(Fq2, Zero0(Fq2), element_neg(Fq2, ScaleBy([Fq |-> Fq], alpha, b)), bn.r, 0)
        P == Draw(C)
    IN  IF curve_is1(element_mul_mpz(C, P, P, QuotientCmp(bn.q, bn.r))) THEN element_pow_mpz(Fq2, alpha, 5) ELSE alpha
=============================================================================
