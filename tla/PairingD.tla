------------------------------- MODULE PairingD -------------------------------
(***************************************************************************)
(* ecc/d_param.c: the pairings of type D, on a curve over F_q of even       *)
(* embedding degree k, with the twist over F_q^d, d = k/2, as second group. *)
(*                                                                         *)
(* F_q is a prime field, written with arithmetic modulo q; an element of    *)
(* Fqd is the tuple of its d coefficients, one of Fqk = Fqd[sqrt(v)] a pair *)
(* of those.  A line is [a, b, c] with a, b, c in F_q.                     *)
(***************************************************************************)
EXTENDS Curve

\* a X + b Y + c at (Qx, Qy sqrt(v)): c goes to the constant coefficient.
d_miller_evalfn(q, line, Q) ==
    LET At(i) == IF i = 1 THEN line.a * Q.x[i] + line.c ELSE line.a * Q.x[i]
    IN  <<Coefficients(Len(Q.x), LAMBDA i : At(i) % q), Coefficients(Len(Q.y), LAMBDA i : (line.b * Q.y[i]) % q)>>

cc_tangent(q, cca, Z) ==
    LET a == (-(3 * Z.x ^ 2 + cca)) % q
    IN  [a |-> a, b |-> (2 * Z.y) % q, c |-> (-(2 * Z.y ^ 2 + a * Z.x)) % q]
cc_line(q, Z, P) ==
    LET a == Z.y - P.y
        b == P.x - Z.x
    IN  [a |-> a % q, b |-> b % q, c |-> (-(a * Z.x + b * Z.y)) % q]

\* v line(Q)
TakeIn(A, v, line, Q) == element_mul(A.Fqk, v, d_miller_evalfn(A.Fq.order, line, Q))

\* The untwisted point: (v^-1 x, v^-2 y) stands for (v^-1 x, v^-(3/2) y).
Untwisted(A, Q) ==
    [x |-> element_mul(A.Fqd, Q.x, A.nqrinv), y |-> element_mul(A.Fqd, Q.y, A.nqrinv2)]

cc_miller_no_denom_affine(A, P, Q) ==
    LET q == A.Fq.order
        Step(st, call) ==
            CASE call = "tangent" -> [st EXCEPT !.v = TakeIn(A, @, cc_tangent(q, A.Eq.a, st.Z), Q)]
              [] call = "double" -> [st EXCEPT !.Z = curve_double(A.Eq, @, @)]
              [] call = "line" -> [v |-> TakeIn(A, st.v, cc_line(q, st.Z, P), Q), Z |-> curve_mul(A.Eq, st.Z, st.Z, P)]
              [] call = "square" -> [st EXCEPT !.v = element_square(A.Fqk, @)]
    IN  FoldLeft(Step, [v |-> One1(A.Fqk), Z |-> P], MillerCalls(A.r)).v

(***************************************************************************)
(* Jacobian coordinates                                                    *)
(***************************************************************************)
cc_tangent_proj(q, cca, Z) ==
    LET a == (-(((Z.z2 ^ 2) % q) * cca + 3 * Z.x ^ 2)) % q
    IN  [a |-> (a * Z.z2) % q, b |-> (2 * ((Z.z * Z.z2) % q) * Z.y) % q, c |-> (-(Z.x * a + 2 * Z.y ^ 2)) % q]
cc_line_proj(q, Z, P) ==
    LET xz == (Z.x * Z.z) % q
        z3 == (Z.z2 * Z.z) % q
    IN  [a |-> (Z.y - P.y * z3) % q, b |-> (P.x * z3 - xz) % q, c |-> (xz * P.y - Z.y * P.x) % q]

cc_proj_double(q, cca, Z) ==
    LET t0 == (3 * Z.x ^ 2 + ((Z.z2 ^ 2) % q) * cca) % q
        z == (2 * Z.y * Z.z) % q
        y2 == (Z.y ^ 2) % q
        t1 == (4 * Z.x * y2) % q
        x == (t0 ^ 2 - 2 * t1) % q
    IN  [x |-> x, y |-> (t0 * (t1 - x) - 8 * y2 ^ 2) % q, z |-> z, z2 |-> (z * z) % q]

proj_mixin(q, Z, P) ==
    LET t2 == (Z.z2 * P.x) % q
        t0 == (((Z.z2 * P.y) % q) * Z.z) % q
        t3 == Z.x - t2
        t1 == Z.y - t0
        e7 == ((Z.x + t2) * ((t3 * t3) % q)) % q
        x == (t1 ^ 2 - e7) % q
        z == (Z.z * t3) % q
        y == ((e7 - 2 * x) * t1 - (((Z.y + t0) * t3) % q) * t3 ^ 2) % q
    IN  [x |-> x, y |-> (y * InvMod(2, q)) % q, z |-> z, z2 |-> (z * z) % q]

\* Zy is set to the x coordinate: the two are one variable, which y, written
\* last, is left in.
OneCoordinate(Z) == [Z EXCEPT !.x = Z.y]
cc_miller_no_denom_proj(A, P, Q) ==
    LET q == A.Fq.order
        Step(st, call) ==
            CASE call = "tangent" -> [st EXCEPT !.v = TakeIn(A, @, cc_tangent_proj(q, A.Eq.a, st.Z), Q)]
              [] call = "double" -> [st EXCEPT !.Z = OneCoordinate(cc_proj_double(q, A.Eq.a, @))]
              [] call = "line" -> [v |-> TakeIn(A, st.v, cc_line_proj(q, st.Z, P), Q),
                                   Z |-> OneCoordinate(proj_mixin(q, st.Z, P))]
              [] call = "square" -> [st EXCEPT !.v = element_square(A.Fqk, @)]
        start == [v |-> One1(A.Fqk), Z |-> [x |-> P.x, y |-> P.x, z |-> 1, z2 |-> 1]]
    IN  FoldLeft(Step, start, MillerCalls(A.r)).v

(***************************************************************************)
(* The final power (q^k - 1) / r                                           *)
(***************************************************************************)
\* The power of an element of norm 1, other than 1, by an odd cofactor.
LucasOf(A, in, cofactor) ==
    LET F == A.Fqd
        two == element_set_si(F, 2)
        t1 == element_double(F, in[1])
        Mixed(v) == element_sub(F, element_mul(F, v[1], v[2]), t1)
        Doubled(x) == element_sub(F, element_square(F, x), two)
        Step(v, j) ==
            IF j # 0 /\ Bit(cofactor, j) = 1 THEN <<Mixed(v), Doubled(v[2])>> ELSE <<Doubled(v[1]), Mixed(v)>>
        v == FoldLeft(Step, <<two, t1>>, HighToLow(cofactor))
        numerator == element_sub(F, element_mul(F, t1, v[2]), element_double(F, v[1]))
        denominator == element_sub(F, element_sub(F, element_square(F, t1), two), two)
    IN  <<generic_halve(F, v[2]), element_mul(F, generic_div(F, numerator, denominator), in[2])>>
lucas_even(A, in, cofactor) == IF element_is1(A.Fqk, in) THEN in ELSE LucasOf(A, in, cofactor)

\* The q-th power of an element of Fqd, d = 3, from those of x and x^2.
FrobeniusD(A, e) ==
    LET moved == element_add(A.Fqd, polymod_const_mul(A.Fqd, e[2], A.xpowq), polymod_const_mul(A.Fqd, e[3], A.xpowq2))
    IN  [moved EXCEPT ![1] = (@ + e[1]) % A.Fq.order]
qpower(A, e, sign) ==
    <<FrobeniusD(A, e[1]), IF sign > 0 THEN FrobeniusD(A, e[2]) ELSE element_neg(A.Fqd, FrobeniusD(A, e[2]))>>

\* For k = 6 it is (q^3 - 1) (q + 1) and (q^2 - q + 1) / r.
cc_tatepower(A, in) ==
    IF A.k = 6
    THEN LET conjugate == <<in[1], element_neg(A.Fqd, in[2])>>
             e3 == element_mul(A.Fqk, qpower(A, in, 1), conjugate)
             e0 == element_invert(A.Fqk, element_mul(A.Fqk, qpower(A, in, -1), in))
         IN  lucas_even(A, element_mul(A.Fqk, e3, e0), A.phikonr)
    ELSE element_pow_mpz(A.Fqk, in, A.tateexp)

(***************************************************************************)
(* The pairing by either method, of products, and with preprocessing        *)
(***************************************************************************)
cc_miller(A, method, P, Q) ==
    CASE method = "miller" -> cc_miller_no_denom_proj(A, P, Q)
      [] method = "miller-affine" -> cc_miller_no_denom_affine(A, P, Q)
cc_pairing(A, method, in1, in2) == cc_tatepower(A, cc_miller(A, method, in1, Untwisted(A, in2)))

cc_millers_no_denom_affine(A, P, Q) ==
    LET q == A.Fq.order
        Lines(v, line(_)) == FoldLeft(LAMBDA f, i : TakeIn(A, f, line(i), Q[i]), v, [i \in 1..Len(P) |-> i])
        Step(st, call) ==
            CASE call = "tangent" -> [st EXCEPT !.v = Lines(@, LAMBDA i : cc_tangent(q, A.Eq.a, st.Z[i]))]
              [] call = "double" -> [st EXCEPT !.Z = multi_double(A.Eq, @, @)]
              [] call = "line" -> [v |-> Lines(st.v, LAMBDA i : cc_line(q, st.Z[i], P[i])),
                                   Z |-> multi_add(A.Eq, st.Z, st.Z, P)]
              [] call = "square" -> [st EXCEPT !.v = element_square(A.Fqk, @)]
    IN  FoldLeft(Step, [v |-> One1(A.Fqk), Z |-> P], MillerCalls(A.r)).v
cc_pairings_affine(A, in1, in2) ==
    cc_tatepower(A, cc_millers_no_denom_affine(A, in1, [i \in 1..Len(in2) |-> Untwisted(A, in2[i])]))

\* g, g^x, h, h^-x or h^x: e(a, d) is the inverse of e(b, c), or the same.
InverseOrSame(F, t0, t1) ==
    element_is1(F, element_mul(F, t0, t1)) \/ element_is1(F, element_mul(F, t0, element_invert(F, t1)))
cc_is_almost_coddh(A, method, a, b, c, d) ==
    InverseOrSame(A.Fqk, cc_pairing(A, method, a, d), cc_pairing(A, method, b, c))

\* The lines, in the order they are taken in.
d_pairing_pp_init(A, P) ==
    LET q == A.Fq.order
        Step(st, call) ==
            CASE call = "tangent" -> [st EXCEPT !.pp = Append(@, cc_tangent(q, A.Eq.a, st.Z))]
              [] call = "double" -> [st EXCEPT !.Z = curve_double(A.Eq, @, @)]
              [] call = "line" -> [pp |-> Append(st.pp, cc_line(q, st.Z, P)), Z |-> curve_mul(A.Eq, st.Z, st.Z, P)]
              [] call = "square" -> st
    IN  FoldLeft(Step, [pp |-> <<>>, Z |-> P], MillerCalls(A.r)).pp

PPLines(A, pp, Q) ==
    LET Step(st, call) ==
            CASE call \in {"tangent", "line"} -> [v |-> TakeIn(A, st.v, Head(st.pp), Q), pp |-> Tail(st.pp)]
              [] call = "double" -> st
              [] call = "square" -> [st EXCEPT !.v = element_square(A.Fqk, @)]
    IN  FoldLeft(Step, [v |-> One1(A.Fqk), pp |-> pp], MillerCalls(A.r)).v
d_pairing_pp_apply(A, pp, in2) == cc_tatepower(A, PPLines(A, pp, Untwisted(A, in2)))

(***************************************************************************)
(* Setting up                                                              *)
(***************************************************************************)
\* A with its twist: A has the fields, Eq and the constants of the final power.
TwistOf(Eq, Fqd, r, ndonr) ==
    field_curve_set_quotient_cmp(
        field_reinit_curve_twist(
            field_init_curve_ab_map(Eq, Fqd, r, 0)),
        ndonr)

DPairing(par, Fq, Fqd, Eq) ==
    LET nqrinv == element_invert(Fqd, Fqd.nqr)
        ndonr == pbc_mpz_curve_order_extn(par.q, -(par.q - par.n + 1), par.k \div 2) \div par.r
        x == [i \in 1..par.k \div 2 |-> IF i = 2 THEN 1 ELSE 0]
        xpowq == element_pow_mpz(Fqd, x, par.q)
    IN  [type |-> "d", k |-> par.k, r |-> par.r, Fq |-> Fq, Fqd |-> Fqd, Fqk |-> field_init_quadratic(Fqd),
         Eq |-> Eq, Etwist |-> TwistOf(Eq, Fqd, par.r, ndonr),
         nqrinv |-> nqrinv, nqrinv2 |-> element_square(Fqd, nqrinv),
         phikonr |-> IF par.k = 6 THEN (par.q ^ 2 - par.q + 1) \div par.r ELSE 0,
         tateexp |-> IF par.k = 6 THEN 0 ELSE (par.q ^ par.k - 1) \div par.r,
         xpowq |-> xpowq, xpowq2 |-> element_square(Fqd, xpowq)]

WithNqr(Fqd, nqr) == field_set_nqr(Fqd, element_field_to_polymod(Fqd, nqr))
DExtension(Fq, coeff, nqr) == WithNqr(field_init_polymod(Fq, Append(coeff, 1)), nqr)

DPairingOver(par, Fq) ==
    DPairing(par, Fq, DExtension(Fq, par.coeff, par.nqr),
             field_init_curve_ab(Fq, par.a, par.b, par.r, par.h))
d_init_pairing(par) == DPairingOver(par, PrimeField(par.q))

\* From a root of the Hilbert polynomial, the j invariant; the curve is twisted
\* if a point drawn on it has not the order wanted.  cm: q, n, h, r, k and the
\* polynomial of its discriminant.
compute_cm_curve(cm, Fq, root) ==
    LET C == field_init_curve_j(Fq, root, cm.n, 0)
        p == Draw(C)
        E == IF curve_is1(element_mul_mpz(C, p, p, cm.n)) THEN C ELSE field_reinit_curve_twist(C)
        nk == cm.q ^ cm.k + 1 - pbc_mpz_trace_n(cm.q, cm.q - cm.n + 1, cm.k)
    IN  [type |-> "d", q |-> cm.q, n |-> cm.n, h |-> cm.h, r |-> cm.r, a |-> E.a, b |-> E.b, k |-> cm.k,
         nk |-> nk, hk |-> nk \div cm.r ^ 2]

\* The polynomials and non-residues that may be drawn for it.
DIrreducible(Fq, d) ==
    {Coefficients(d, LAMBDA i : c[i]) : c \in {f \in [1..d -> Elements(Fq)] : poly_is_irred(Fq, Append(f, 1))}}
NonSquares(Fq, Fqd) == {n \in Elements(Fq) : ~element_is_sqr(Fqd, element_field_to_polymod(Fqd, n))}
DNonresidues(Fq, coeff) == NonSquares(Fq, field_init_polymod(Fq, Append(coeff, 1)))
=============================================================================
