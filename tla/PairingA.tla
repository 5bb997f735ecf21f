------------------------------- MODULE PairingA -------------------------------
(***************************************************************************)
(* ecc/a_param.c: the symmetric pairings on Y^2 = X^3 + X, types A and A1.  *)
(*                                                                         *)
(* F_q with q = 3 modulo 4 is a prime field: its elements are numbers and   *)
(* are written with arithmetic modulo q.  A line or tangent is [a, b, c],   *)
(* a X + b Y + c = 0.  A pairing P is a record with its order r, phikonr,   *)
(* the fields Fq and Fq2 and the curve Eq.                                 *)
(***************************************************************************)
EXTENDS Curve

(***************************************************************************)
(* Lines, and their values at the image (-x, iy) of a point Q.              *)
(***************************************************************************)
compute_abc_tangent(q, V) ==
    LET a == (-(3 * V.x ^ 2 + 1)) % q
    IN  [a |-> a, b |-> (2 * V.y) % q, c |-> (-(a * V.x + 2 * V.y ^ 2)) % q]

\* V in Jacobian coordinates, z2 = z^2
compute_abc_tangent_proj(q, V) ==
    LET a == (-(V.z2 ^ 2 + 3 * V.x ^ 2)) % q
    IN  [a |-> (a * V.z2) % q, b |-> (((2 * V.y * V.z2) % q) * V.z) % q, c |-> (-(V.x * a + 2 * V.y ^ 2)) % q]

compute_abc_line(q, V, V1) ==
    [a |-> (V.y - V1.y) % q, b |-> (V1.x - V.x) % q, c |-> (V.x * V1.y - V.y * V1.x) % q]

a_miller_evalfn(q, line, Q) == <<(line.c - line.a * Q.x) % q, (line.b * Q.y) % q>>

\* f line(Q)
TimesLine(P, f, line, Q) == element_mul(P.Fq2, f, a_miller_evalfn(P.Fq.order, line, Q))
Tangent(P, V) == compute_abc_tangent(P.Fq.order, V)
Line(P, V, V1) == compute_abc_line(P.Fq.order, V, V1)

(***************************************************************************)
(* Jacobian coordinates                                                    *)
(***************************************************************************)
ToProj(V) == [x |-> V.x, y |-> V.y, z |-> 1, z2 |-> 1]
point_to_affine(q, V) ==
    LET z == InvMod(V.z, q)
        z2 == (z * z) % q
    IN  [x |-> (V.x * z2) % q, y |-> (V.y * ((z2 * z) % q)) % q, z |-> 1, z2 |-> 1]

proj_double(q, V) ==
    LET e0 == (3 * V.x ^ 2 + V.z2 ^ 2) % q
        z == (2 * V.y * V.z) % q
        y2 == (V.y ^ 2) % q
        e1 == (4 * V.x * y2) % q
        x == (e0 ^ 2 - 2 * e1) % q
    IN  [x |-> x, y |-> (e0 * (e1 - x) - 8 * y2 ^ 2) % q, z |-> z, z2 |-> (z * z) % q]

\* V + P, P affine and not V or -V
proj_add(q, V, P) ==
    LET h == (P.x * V.z2 - V.x) % q
        h2 == (h * h) % q
        h3 == (h * h2) % q
        r == (((V.z * V.z2) % q) * P.y - V.y) % q
        x == (r ^ 2 - h3 - 2 * V.x * h2) % q
        z == (V.z * h) % q
    IN  [x |-> x, y |-> (r * ((V.x * h2 - x) % q) - h3 * V.y) % q, z |-> z, z2 |-> (z * z) % q]

(***************************************************************************)
(* The final power (q^2 - 1) / r: f^(q-1) is the conjugate over f, and its  *)
(* power by (q+1)/r comes by a Lucas sequence.  (q+1)/r is even.            *)
(***************************************************************************)
lucas_odd(q, in, cofactor) ==
    LET t1 == (2 * in[1]) % q
        Step(v, j) ==
            LET mixed == (v[1] * v[2] - t1) % q
            IN  IF j # 0 /\ Bit(cofactor, j) = 1 THEN <<mixed, (v[2] ^ 2 - 2) % q>>
                ELSE <<(v[1] ^ 2 - 2) % q, mixed>>
        v == FoldLeft(Step, <<2, t1>>, HighToLow(cofactor))
        v1 == ((2 * v[2] - v[1] * t1) * InvMod(t1 ^ 2 - 4, q)) % q
    IN  <<(v[1] * InvMod(2, q)) % q, (v1 * in[2]) % q>>

\* Mutant of a_tateexp: the conjugate is not taken.
TateExpNoConjugate(P, in) ==
    lucas_odd(P.Fq.order, element_mul(P.Fq2, in, element_invert(P.Fq2, in)), P.phikonr)

a_tateexp(P, in) ==
    lucas_odd(P.Fq.order,
              element_mul(P.Fq2, <<in[1], (-in[2]) % P.Fq.order>>, element_invert(P.Fq2, in)),
              P.phikonr)

(***************************************************************************)
(* Type A: r = 2^exp2 + sign1 2^exp1 + sign0.  After exp1 doublings V and f *)
(* are kept, or their negative and inverse; after exp2 they are added in.   *)
(* The last line, through +-V, is dropped: the final power maps it to 1.    *)
(***************************************************************************)
ChainCalls(P) ==
    [i \in 1..P.exp1 |-> "double"] \o <<"keep">> \o [i \in 1..P.exp2 - P.exp1 |-> "double"] \o <<"join">>
\* f or its inverse, V or its negative, as sign1 has it.
WithSign1(P, f) == IF P.sign1 < 0 THEN element_invert(P.Fq2, f) ELSE f
PointWithSign1(P, V) == IF P.sign1 < 0 THEN curve_invert(P.Eq, V, V) ELSE V

a_pairing_affine(P, in1, in2) ==
    LET Step(st, call) ==
            CASE call = "double" ->
                    [st EXCEPT !.f = TimesLine(P, element_square(P.Fq2, @), Tangent(P, st.V), in2),
                               !.V = curve_double(P.Eq, @, @)]
              [] call = "keep" -> [st EXCEPT !.f1 = WithSign1(P, st.f), !.V1 = PointWithSign1(P, st.V)]
              [] call = "join" ->
                    [st EXCEPT !.f = TimesLine(P, element_mul(P.Fq2, @, st.f1), Line(P, st.V, st.V1), in2)]
        start == [f |-> One1(P.Fq2), f1 |-> One1(P.Fq2), V |-> in1, V1 |-> in1]
    IN  a_tateexp(P, FoldLeft(Step, start, ChainCalls(P)).f)

a_pairing_proj(P, in1, in2) ==
    LET q == P.Fq.order
        Kept(st, V) == [st EXCEPT !.f1 = WithSign1(P, st.f), !.V = V, !.V1 = PointWithSign1(P, Point(V.x, V.y))]
        Step(st, call) ==
            CASE call = "double" ->
                    [st EXCEPT !.f = TimesLine(P, element_square(P.Fq2, @), compute_abc_tangent_proj(q, st.V), in2),
                               !.V = proj_double(q, @)]
              [] call = "keep" -> Kept(st, point_to_affine(q, st.V))
              [] call = "join" ->
                    [st EXCEPT !.f = TimesLine(P, element_mul(P.Fq2, @, st.f1),
                                               Line(P, point_to_affine(q, st.V), st.V1), in2)]
        start == [f |-> One1(P.Fq2), f1 |-> One1(P.Fq2), V |-> ToProj(in1), V1 |-> in1]
    IN  a_tateexp(P, FoldLeft(Step, start, ChainCalls(P)).f)

\* The product of the pairings of in1[j] and in2[j].
a_pairings_affine(P, in1, in2) ==
    LET all == [j \in 1..Len(in1) |-> j]
        TimesLines(f, line(_)) == FoldLeft(LAMBDA g, j : TimesLine(P, g, line(j), in2[j]), f, all)
        Step(st, call) ==
            CASE call = "double" ->
                    [st EXCEPT !.f = TimesLines(element_square(P.Fq2, @), LAMBDA j : Tangent(P, st.V[j])),
                               !.V = multi_double(P.Eq, @, @)]
              [] call = "keep" ->
                    [st EXCEPT !.f1 = WithSign1(P, st.f), !.V1 = [j \in 1..Len(in1) |-> PointWithSign1(P, st.V[j])]]
              [] call = "join" ->
                    [st EXCEPT !.f = TimesLines(element_mul(P.Fq2, @, st.f1), LAMBDA j : Line(P, st.V[j], st.V1[j]))]
        start == [f |-> One1(P.Fq2), f1 |-> One1(P.Fq2), V |-> in1, V1 |-> in1]
    IN  a_tateexp(P, FoldLeft(Step, start, ChainCalls(P)).f)

\* The lines of in1, to be evaluated later at any in2.
a_pairing_pp_init(P, in1) ==
    LET Step(st, call) ==
            CASE call = "double" -> [st EXCEPT !.coeff = Append(@, Tangent(P, st.V)), !.V = curve_double(P.Eq, @, @)]
              [] call = "keep" -> [st EXCEPT !.V1 = PointWithSign1(P, st.V)]
              [] call = "join" -> [st EXCEPT !.coeff = Append(@, Line(P, st.V, st.V1))]
    IN  FoldLeft(Step, [coeff |-> <<>>, V |-> in1, V1 |-> in1], ChainCalls(P)).coeff

a_pairing_pp_apply(P, coeff, in2) ==
    LET LineIn(st, f) == [st EXCEPT !.f = TimesLine(P, f, Head(st.coeff), in2), !.coeff = Tail(@)]
        Step(st, call) ==
            CASE call = "double" -> LineIn(st, element_square(P.Fq2, st.f))
              [] call = "keep" -> [st EXCEPT !.f1 = WithSign1(P, st.f)]
              [] call = "join" -> LineIn(st, element_mul(P.Fq2, st.f, st.f1))
        start == [f |-> One1(P.Fq2), f1 |-> One1(P.Fq2), coeff |-> coeff]
    IN  a_tateexp(P, FoldLeft(Step, start, ChainCalls(P)).f)

(***************************************************************************)
(* Elliptic nets (Stange).  c[j + 4] is the term k + j of the division      *)
(* polynomials' sequence, j in -3..4, at first for k = 1.                  *)
(***************************************************************************)
EllnetStart(q, x, y) ==
    LET x2 == (x * x) % q
        x4 == (x2 * x2) % q
        c1 == (2 * y) % q
        c2 == (3 * (x4 + 2 * x2) - 1) % q
        c3 == (2 * c1 * ((5 * (x4 - x2) + x4 * x2 - 1) % q)) % q
        Cube(e) == (((e * e) % q) * e) % q
    IN  <<(-c1) % q, q - 1, 0, 1, c1, c2, c3, (Cube(c1) * c3 - Cube(c2)) % q>>

\* Squares s[j + 3] of term j and products t[j + 3] of its neighbours, j in -2..3.
EllnetTerms(q, c) ==
    [s |-> Coefficients(6, LAMBDA i : (c[i + 1] ^ 2) % q), t |-> Coefficients(6, LAMBDA i : (c[i] * c[i + 2]) % q)]

\* The terms about 2k, or about 2k + 1.  C = 1 / 2y
EllnetBlock(q, C, w, bit) ==
    LET s(j) == w.s[j + 3]
        t(j) == w.t[j + 3]
        Term(n) ==
            LET i == (n + 1) \div 2
            IN  IF n % 2 = 1 THEN (t(i) * s(i - 1) - t(i - 1) * s(i)) % q
                ELSE (((t(i + 1) * s(i - 1) - t(i - 1) * s(i + 1)) % q) * C) % q
    IN  Coefficients(8, LAMBDA j : Term(j - 4 + bit))

\* The terms dm1, d0, d1 of the net that involve the second point, and the
\* inverses A and B that they are multiplied with.
EllnetValues(P, x, y, in2) ==
    LET q == P.Fq.order
        F == P.Fq2
        C == (2 * x - in2.x) % q
        A == (x + in2.x) % q
        d == element_square(F, <<y, in2.y>>)
        e == element_square(F, <<(-y * InvMod(A, q)) % q, (in2.y * InvMod(A, q)) % q>>)
    IN  [dm1 |-> One1(F), d0 |-> One1(F), d1 |-> <<(C - e[1]) % q, (-e[2]) % q>>, A |-> InvMod(A, q),
         B |-> element_invert(F, element_neg(F, <<(d[1] - C * ((A * A) % q)) % q, d[2]>>))]

EllnetStep(P, w, d, bit) ==
    LET q == P.Fq.order
        F == P.Fq2
        Times(e, k) == <<(e[1] * k) % q, (e[2] * k) % q>>
        u == element_square(F, d.d0)
        v == element_mul(F, d.dm1, d.d1)
        Term(j) == element_sub(F, Times(v, w.s[j + 3]), Times(u, w.t[j + 3]))
    IN  IF bit = 1
        THEN [d EXCEPT !.dm1 = Term(0), !.d0 = Times(Term(1), d.A), !.d1 = element_mul(F, Term(2), d.B)]
        ELSE [d EXCEPT !.dm1 = Term(-1), !.d0 = Term(0), !.d1 = Times(Term(1), d.A)]

\* The bits of the order below its highest, from the top.
Below(r) == Tail(HighToLow(r))

a_pairing_ellnet(P, in1, in2) ==
    LET q == P.Fq.order
        Step(st, m) ==
            LET w == EllnetTerms(q, st.c)
            IN  [c |-> EllnetBlock(q, InvMod(2 * in1.y, q), w, Bit(P.r, m)),
                 d |-> EllnetStep(P, w, st.d, Bit(P.r, m))]
        start == [c |-> EllnetStart(q, in1.x, in1.y), d |-> EllnetValues(P, in1.x, in1.y, in2)]
    IN  a_tateexp(P, FoldLeft(Step, start, Below(P.r)).d.d1)

a_pairing_ellnet_pp_init(P, in1) ==
    LET q == P.Fq.order
        Step(st, m) ==
            LET w == EllnetTerms(q, st.c)
            IN  [c |-> EllnetBlock(q, InvMod(2 * in1.y, q), w, Bit(P.r, m)), seq |-> Append(st.seq, w)]
    IN  [x |-> in1.x, y |-> in1.y,
         seq |-> FoldLeft(Step, [c |-> EllnetStart(q, in1.x, in1.y), seq |-> <<>>], Below(P.r)).seq]

a_pairing_ellnet_pp_apply(P, pp, in2) ==
    LET n == Len(pp.seq)
        Step(d, k) == EllnetStep(P, pp.seq[k], d, Bit(P.r, n - k))
    IN  a_tateexp(P, FoldLeft(Step, EllnetValues(P, pp.x, pp.y, in2), [k \in 1..n |-> k]).d1)

(***************************************************************************)
(* Type A1: any order n; q = l n - 1.  Double and add along the bits of n.  *)
(***************************************************************************)
\* The conjugate over f, to the power l.
A1TateExp(P, f) ==
    element_pow_mpz(P.Fq2, element_mul(P.Fq2, <<f[1], (-f[2]) % P.Fq.order>>, element_invert(P.Fq2, f)), P.phikonr)

a1_pairing(P, in1, in2) ==
    LET Step(st, call) ==
            CASE call = "tangent" -> [st EXCEPT !.f = TimesLine(P, @, Tangent(P, st.V), in2)]
              [] call = "double" -> [st EXCEPT !.V = curve_double(P.Eq, @, @)]
              [] call = "line" -> [f |-> TimesLine(P, st.f, Line(P, st.V, in1), in2),
                                   V |-> curve_mul(P.Eq, st.V, st.V, in1)]
              [] call = "square" -> [st EXCEPT !.f = element_square(P.Fq2, @)]
    IN  A1TateExp(P, FoldLeft(Step, [f |-> One1(P.Fq2), V |-> in1], MillerCalls(P.r)).f)

compute_abc_line_proj(q, V, V1) ==
    LET z3 == (V.z * V.z2) % q
        a == (V.y - V1.y * z3) % q
        b == (z3 * V1.x - V.x * V.z) % q
    IN  [a |-> a, b |-> b, c |-> (-(b * V1.y + a * V1.x)) % q]

a1_pairing_proj(P, in1, in2) ==
    LET q == P.Fq.order
        Step(st, call) ==
            CASE call = "tangent" -> [st EXCEPT !.f = TimesLine(P, @, compute_abc_tangent_proj(q, st.V), in2)]
              [] call = "double" -> [st EXCEPT !.V = proj_double(q, @)]
              [] call = "line" -> [f |-> TimesLine(P, st.f, compute_abc_line_proj(q, st.V, in1), in2),
                                   V |-> proj_add(q, st.V, in1)]
              [] call = "square" -> [st EXCEPT !.f = element_square(P.Fq2, @)]
    IN  A1TateExp(P, FoldLeft(Step, [f |-> One1(P.Fq2), V |-> ToProj(in1)], MillerCalls(P.r)).f)

a1_pairings_affine(P, in1, in2) ==
    LET all == [j \in 1..Len(in1) |-> j]
        TimesLines(f, line(_)) == FoldLeft(LAMBDA g, j : TimesLine(P, g, line(j), in2[j]), f, all)
        Step(st, call) ==
            CASE call = "tangent" -> [st EXCEPT !.f = TimesLines(@, LAMBDA j : Tangent(P, st.V[j]))]
              [] call = "double" -> [st EXCEPT !.V = multi_double(P.Eq, @, @)]
              [] call = "line" -> [f |-> TimesLines(st.f, LAMBDA j : Line(P, st.V[j], in1[j])),
                                   V |-> multi_add(P.Eq, st.V, st.V, in1)]
              [] call = "square" -> [st EXCEPT !.f = element_square(P.Fq2, @)]
    IN  A1TateExp(P, FoldLeft(Step, [f |-> One1(P.Fq2), V |-> in1], MillerCalls(P.r)).f)

\* Per bit a tangent, or the product of a tangent and a line.
a1_pairing_pp_init(P, in1) ==
    LET q == P.Fq.order
        Product(t, l) ==
            [cx2 |-> (t.a * l.a) % q, cy2 |-> (t.b * l.b) % q, cxy |-> (t.a * l.b + l.a * t.b) % q,
             cx |-> (t.a * l.c + l.a * t.c) % q, cy |-> (l.b * t.c + t.b * l.c) % q, c |-> (t.c * l.c) % q]
        Step(st, m) ==
            LET t == Tangent(P, st.V)
                V == curve_double(P.Eq, st.V, st.V)
            IN  CASE m = 0 -> [st EXCEPT !.pp = Append(@, t)]
                  [] m > 0 /\ Bit(P.r, m) = 1 -> [pp |-> Append(st.pp, Product(t, Line(P, V, in1))),
                                                  V |-> curve_mul(P.Eq, V, V, in1)]
                  [] OTHER -> [pp |-> Append(st.pp, t), V |-> V]
    IN  FoldLeft(Step, [pp |-> <<>>, V |-> in1], Below(P.r)).pp

a1_pairing_pp_apply(P, pp, in2) ==
    LET q == P.Fq.order
        x2 == (in2.x ^ 2) % q
        y2 == (in2.y ^ 2) % q
        xy == (in2.x * in2.y) % q
        Value(l) == <<(l.cx2 * x2 - l.cy2 * y2 - l.cx * in2.x + l.c) % q, (l.cy * in2.y - l.cxy * xy) % q>>
        n == Len(pp)
        Step(f, k) ==
            CASE k = n -> TimesLine(P, f, pp[k], in2)
              [] k < n /\ Bit(P.r, n - k) = 1 -> element_square(P.Fq2, element_mul(P.Fq2, f, Value(pp[k])))
              [] OTHER -> element_square(P.Fq2, TimesLine(P, f, pp[k], in2))
    IN  A1TateExp(P, FoldLeft(Step, One1(P.Fq2), [k \in 1..n |-> k]))

(***************************************************************************)
(* Setting up.  The methods are the values of the option "method".          *)
(***************************************************************************)
\* What pbc_param_init_a_gen may find.
pbc_param_init_a_gen(rbits, qbits) ==
    LET shapes == {[exp2 |-> rbits - 1, sign1 |-> 1], [exp2 |-> rbits, sign1 |-> -1]}
        orders == UNION {{[exp2 |-> s.exp2, exp1 |-> e, sign1 |-> s.sign1, sign0 |-> z,
                           r |-> 2 ^ s.exp2 + s.sign1 * 2 ^ e + z] : e \in 1..s.exp2 - 1, z \in {1, -1}} : s \in shapes}
        bit == Larger(qbits - rbits - 3, 3)
        found == {[type |-> "a", q |-> 12 * h * o.r - 1, h |-> 12 * h, r |-> o.r, exp2 |-> o.exp2, exp1 |-> o.exp1,
                   sign1 |-> o.sign1] : o \in {s \in orders : IsPrime(s.r)}, h \in 1..2 ^ bit - 1}
    IN  {par \in found : IsPrime(par.q)}

a_init_pairing(par) ==
    LET Fq == PrimeField(par.q)
    IN  [type |-> "a", r |-> par.r, phikonr |-> par.h, Fq |-> Fq, Fq2 |-> field_init_fi(Fq),
         Eq |-> field_init_curve_ab(Fq, 1, 0, par.r, par.h),
         exp2 |-> par.exp2, exp1 |-> par.exp1, sign1 |-> par.sign1]

\* The least multiple l of 4 for which l n - 1 is prime.
RECURSIVE A1Cofactor(_, _)
A1Cofactor(n, l) == IF IsPrime(l * n - 1) THEN l ELSE A1Cofactor(n, l + 4)
pbc_param_init_a1_gen(order) ==
    LET l == A1Cofactor(order, 4) IN [type |-> "a1", p |-> l * order - 1, n |-> order, l |-> l]

a1_init_pairing(par) ==
    LET Fp == PrimeField(par.p)
    IN  [type |-> "a1", r |-> par.n, phikonr |-> par.l, Fq |-> Fp, Fq2 |-> field_init_fi(Fp),
         Eq |-> field_init_curve_ab(Fp, 1, 0, par.n, par.l)]
=============================================================================
