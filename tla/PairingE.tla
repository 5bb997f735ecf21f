------------------------------- MODULE PairingE -------------------------------
(***************************************************************************)
(* ecc/e_param.c: the pairings of type E, on a curve over F_q whose points  *)
(* of order r are all over F_q already (k = 1).  A value of the pairing is  *)
(* a number; the denominators do not vanish in the final power, and Miller's *)
(* function is taken at the divisor (Q + R) - (R).                          *)
(*                                                                         *)
(* f is [v, vd], its value v / vd.  W has the order q of the field, the     *)
(* coefficient cca of the curve and the two points QR and R.                *)
(***************************************************************************)
EXTENDS PairingA

\* a X + b Y + c at Q, and at both points: into v and vd, or into vd and v.
AtPoint(q, line, Q) == (line.a * Q.x + line.b * Q.y + line.c) % q
TakeLine(W, f, line) ==
    [v |-> (f.v * AtPoint(W.q, line, W.QR)) % W.q, vd |-> (f.vd * AtPoint(W.q, line, W.R)) % W.q]
\* The vertical line at x / z2.
VerticalAt(W, Q, x, z2) == (Q.x * z2 - x) % W.q
do_vertical(W, f, x, z2) ==
    [v |-> (f.v * VerticalAt(W, W.QR, x, z2)) % W.q, vd |-> (f.vd * VerticalAt(W, W.R, x, z2)) % W.q]
Swapped(f) == [v |-> f.vd, vd |-> f.v]
OverVertical(W, f, x, z2) == Swapped(do_vertical(W, Swapped(f), x, z2))
SquareBoth(W, f) == [v |-> (f.v * f.v) % W.q, vd |-> (f.vd * f.vd) % W.q]
BothTimes(W, f, g) == [v |-> (f.v * g.v) % W.q, vd |-> (f.vd * g.vd) % W.q]

do_tangent(W, Z) ==
    LET a == (-(3 * Z.x ^ 2 + W.cca)) % W.q
    IN  [a |-> a, b |-> (2 * Z.y) % W.q, c |-> (-(2 * Z.y ^ 2 + a * Z.x)) % W.q]
do_line(W, V, V1) ==
    [a |-> (V.y - V1.y) % W.q, b |-> (V1.x - V.x) % W.q, c |-> (V.x * V1.y - V.y * V1.x) % W.q]

do_tangent_proj(W, Z) ==
    LET a == (-(((Z.z2 ^ 2) % W.q) * W.cca + 3 * Z.x ^ 2)) % W.q
    IN  [a |-> (a * Z.z2) % W.q, b |-> (((2 * Z.y * Z.z2) % W.q) * Z.z) % W.q, c |-> (-(a * Z.x + 2 * Z.y ^ 2)) % W.q]
e_proj_double(W, Z) ==
    LET e0 == (3 * Z.x ^ 2 + ((Z.z2 ^ 2) % W.q) * W.cca) % W.q
        z == (2 * Z.y * Z.z) % W.q
        y2 == (Z.y ^ 2) % W.q
        e1 == (4 * Z.x * y2) % W.q
        x == (e0 ^ 2 - 2 * e1) % W.q
    IN  [x |-> x, y |-> (e0 * (e1 - x) - 8 * y2 ^ 2) % W.q, z |-> z, z2 |-> (z * z) % W.q]

\* After exp1 doublings f and Z are kept; with sign1 < 0 1/f over the vertical
\* line at Z, and -Z.
KeptOf(A, W, f, Z) ==
    IF A.sign1 < 0 THEN [f |-> OverVertical(W, Swapped(f), Z.x, 1), Z |-> curve_invert(A.Eq, Z, Z)]
    ELSE [f |-> f, Z |-> Z]
\* After exp2 they are added; r = ... + 1 has one more vertical line, at P.
EndOf(A, W, f, Z, kept, P) ==
    LET sum == curve_mul(A.Eq, Z, Z, kept.Z)
        g == OverVertical(W, TakeLine(W, BothTimes(W, f, kept.f), do_line(W, Z, kept.Z)), sum.x, 1)
        last == IF A.sign0 > 0 THEN do_vertical(W, g, P.x, 1) ELSE g
    IN  (last.v * InvMod(last.vd, W.q)) % W.q

\* The state of the loop: f and Z, what is kept of them, and the value e in the end.
EStart(Z, P) == [f |-> [v |-> 1, vd |-> 1], Z |-> Z, kept |-> [f |-> [v |-> 1, vd |-> 1], Z |-> P], e |-> 1]

e_miller_affine(A, W, P) ==
    LET Doubled(st, Z) ==
            [st EXCEPT !.f = OverVertical(W, TakeLine(W, SquareBoth(W, @), do_tangent(W, st.Z)), Z.x, 1), !.Z = Z]
        Step(st, call) ==
            CASE call = "double" -> Doubled(st, curve_double(A.Eq, st.Z, st.Z))
              [] call = "keep" -> [st EXCEPT !.kept = KeptOf(A, W, st.f, st.Z)]
              [] call = "join" -> [st EXCEPT !.e = EndOf(A, W, st.f, st.Z, st.kept, P)]
    IN  FoldLeft(Step, EStart(P, P), ChainCalls(A)).e

e_miller_proj(A, W, P) ==
    LET Doubled(st, Z) ==
            [st EXCEPT !.f = OverVertical(W, TakeLine(W, SquareBoth(W, @), do_tangent_proj(W, st.Z)), Z.x, Z.z2),
                       !.Z = Z]
        Affine(Z) == Point(Z.x, Z.y)
        Kept(st, Z) == [st EXCEPT !.Z = Z, !.kept = KeptOf(A, W, st.f, Affine(Z))]
        Step(st, call) ==
            CASE call = "double" -> Doubled(st, e_proj_double(W, st.Z))
              [] call = "keep" -> Kept(st, point_to_affine(W.q, st.Z))
              [] call = "join" -> [st EXCEPT !.e = EndOf(A, W, st.f, Affine(point_to_affine(W.q, st.Z)), st.kept, P)]
    IN  FoldLeft(Step, EStart(ToProj(P), P), ChainCalls(A)).e

(***************************************************************************)
(* The pairing                                                             *)
(***************************************************************************)
\* The final power
FinalE(A, f) == PowMod(f, A.phikonr, A.Fq.order)
MillerAt(A, Q) == [q |-> A.Fq.order, cca |-> A.Eq.a, QR |-> curve_mul(A.Eq, Q, Q, A.R), R |-> A.R]

e_pairing(A, method, in1, in2) ==
    FinalE(A, IF method = "miller" THEN e_miller_proj(A, MillerAt(A, in2), in1)
              ELSE e_miller_affine(A, MillerAt(A, in2), in1))

\* Elliptic nets: the division polynomials at (x, y), and the other terms.
ENetStart(q, a, b, x, y) ==
    LET x2 == (x * x) % q
        x4 == (x2 * x2) % q
        bx2 == (2 * ((b * x) % q)) % q
        a2 == (a * a) % q
        c1 == (2 * y) % q
        c2 == (3 * (2 * (a * x2 + bx2) + x4) - a2) % q
        e1 == (2 * bx2 * x2 + a * x4 - a2 * x2) % q
        e2 == (2 * (bx2 * a + 4 * b * b) + a * a2) % q
        c3 == (2 * c1 * ((x2 * x4 + 5 * e1 - e2) % q)) % q
        Cube(e) == (((e * e) % q) * e) % q
    IN  <<(-c1) % q, q - 1, 0, 1, c1, c2, c3, (Cube(c1) * c3 - Cube(c2)) % q>>

ENetValues(q, in1, in2) ==
    LET A == (in1.x - in2.x) % q
        C == (2 * in1.x + in2.x) % q
        B == (C * ((A * A) % q) - (in1.y + in2.y) ^ 2) % q
        slope == ((in1.y - in2.y) * InvMod(A, q)) % q
    IN  [dm1 |-> 1, d0 |-> 1, d1 |-> (C - slope ^ 2) % q, A |-> InvMod(A, q), B |-> InvMod(B, q)]

ENetStep(q, w, d, bit) ==
    LET u == (d.d0 * d.d0) % q
        v == (d.dm1 * d.d1) % q
        Term(j) == (v * w.s[j + 3] - u * w.t[j + 3]) % q
    IN  IF bit = 1
        THEN [d EXCEPT !.dm1 = Term(0), !.d0 = (Term(1) * d.A) % q, !.d1 = (Term(2) * d.B) % q]
        ELSE [d EXCEPT !.dm1 = Term(-1), !.d0 = Term(0), !.d1 = (Term(1) * d.A) % q]

e_pairing_ellnet(A, in1, in2) ==
    LET q == A.Fq.order
        Step(st, m) ==
            LET w == EllnetTerms(q, st.c)
            IN  [c |-> EllnetBlock(q, InvMod(2 * in1.y, q), w, Bit(A.r, m)), d |-> ENetStep(q, w, st.d, Bit(A.r, m))]
        start == [c |-> ENetStart(q, A.Eq.a, A.Eq.b, in1.x, in1.y), d |-> ENetValues(q, in1, in2)]
        End(st) == FinalE(A, (st.d.d1 * InvMod(st.c[5], q)) % q)
    IN  End(FoldLeft(Step, start, Below(A.r)))

(***************************************************************************)
(* Setting up.  R is a point drawn without the cofactor.                    *)
(***************************************************************************)
e_init_pairing(par) ==
    LET Fq == PrimeField(par.q)
        Eq == field_init_curve_ab(Fq, par.a, par.b, par.r, par.h)
    IN  [type |-> "e", r |-> par.r, phikonr |-> (par.q - 1) \div par.r, Fq |-> Fq, Eq |-> Eq, R |-> Eq.gen_no_cofac,
         exp2 |-> par.exp2, exp1 |-> par.exp1, sign1 |-> par.sign1, sign0 |-> par.sign0]

\* The orders of rbits bits, and the field of 3 (h r)^2 + 1 elements.
EOrders(rbits) ==
    LET shapes == {[exp2 |-> rbits - 1, sign1 |-> 1], [exp2 |-> rbits, sign1 |-> -1]}
        all == UNION {{[exp2 |-> s.exp2, exp1 |-> e, sign1 |-> s.sign1, sign0 |-> z,
                        r |-> 2 ^ s.exp2 + s.sign1 * 2 ^ e + z] : e \in 1..s.exp2 - 1, z \in {1, -1}} : s \in shapes}
    IN  {o \in all : IsPrime(o.r)}
EFields(o, hbits) == {h \in 0..2 ^ (hbits + 1) - 1 : IsPrime(3 * h ^ 2 * o.r ^ 2 + 1)}

\* y^2 = x^3 + 1, twisted if the point drawn on it has not the order wanted.
e_gen_curve(o, h) ==
    LET n == 3 * h ^ 2 * o.r ^ 2
        C == field_init_curve_b(PrimeField(n + 1), 1, n, 0)
        p == Draw(C)
        E == IF curve_is1(element_mul_mpz(C, p, p, n)) THEN C ELSE field_reinit_curve_twist(C)
    IN  [type |-> "e", q |-> n + 1, r |-> o.r, h |-> 3 * h ^ 2, a |-> E.a, b |-> E.b, exp2 |-> o.exp2, exp1 |-> o.exp1,
         sign1 |-> o.sign1, sign0 |-> o.sign0]
=============================================================================
