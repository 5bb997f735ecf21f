------------------------------- MODULE Curve -------------------------------
(***************************************************************************)
(* ecc/curve.c: the group of points of Y^2 = X^3 + a X + b.                *)
(*                                                                         *)
(* A curve is a record: its field, a, b, the order it is said to have, its  *)
(* cofactor and quotient_cmp (0 for none) and its generators.  A point is   *)
(* [inf, x, y]; x and y of O are whatever was there before, so an operation *)
(* is given the point r it writes to.                                      *)
(***************************************************************************)
EXTENDS Fields

CONSTANT Draw(_)    \* Draw(C) is the point that is drawn on C, one of RandomPoints(C)

O(r) == [r EXCEPT !.inf = TRUE]
Point(x, y) == [inf |-> FALSE, x |-> x, y |-> y]
curve_init(C) == [inf |-> TRUE, x |-> Zero0(C.field), y |-> Zero0(C.field)]
curve_is1(p) == p.inf
curve_set_si(C, x, y) == Point(element_set_si(C.field, x), element_set_si(C.field, y))

\* (x^2 + a) x + b
RightHandSide(C, x) ==
    LET K == C.field
    IN  element_add(K, element_mul(K, element_add(K, element_square(K, x), C.a), x), C.b)

curve_is_valid_point(C, p) == p.inf \/ RightHandSide(C, p.x) = element_square(C.field, p.y)

curve_set(r, p) == IF p.inf THEN O(r) ELSE p
curve_invert(C, r, p) == IF p.inf THEN O(r) ELSE Point(p.x, element_neg(C.field, p.y))

\* The third point on the line of slope lambda through p and q, reflected.
Third(K, p, q, lambda) ==
    LET x == element_sub(K, element_sub(K, element_square(K, lambda), p.x), q.x)
    IN  Point(x, element_sub(K, element_mul(K, element_sub(K, p.x, x), lambda), p.y))

TangentSlope(C, p, inverse) ==
    LET K == C.field
    IN  element_mul(K, element_add(K, element_mul_si(K, element_square(K, p.x), 3), C.a), inverse)
ChordSlope(K, p, q, inverse) == element_mul(K, element_sub(K, q.y, p.y), inverse)

double_no_check(C, p) ==
    LET K == C.field
    IN  Third(K, p, p, TangentSlope(C, p, element_invert(K, element_double(K, p.y))))

curve_double(C, r, p) ==
    IF p.inf \/ element_is0(C.field, p.y) THEN O(r) ELSE double_no_check(C, p)

curve_mul(C, r, p, q) ==
    LET K == C.field
    IN  CASE p.inf -> curve_set(r, q)
          [] ~p.inf /\ q.inf -> curve_set(r, p)
          [] ~p.inf /\ ~q.inf /\ p.x = q.x -> IF p.y = q.y THEN curve_double(C, r, p) ELSE O(r)
          [] OTHER -> Third(K, p, q, ChordSlope(K, p, q, element_invert(K, element_sub(K, q.x, p.x))))

(***************************************************************************)
(* Many points at once.  Cohen's Algorithm 10.3.4: the inverses of d[1] ..  *)
(* d[n] from the inverse of their product; if one of them is 0 none is right.*)
(***************************************************************************)
\* Mutant of Inverses: what is done with is not taken out of the inverse.
InversesLeftIn(K, d) ==
    LET n == Len(d)
        products == FoldLeft(LAMBDA w, x : Append(w, IF w = <<>> THEN x ELSE element_mul(K, x, Last(w))),
                             <<>>, d)
        e == element_invert(K, products[n])
    IN  [i \in 1..n |-> IF i = 1 THEN e ELSE element_mul(K, products[i - 1], e)]

Inverses(K, d) ==
    LET n == Len(d)
        products == FoldLeft(LAMBDA w, x : Append(w, IF w = <<>> THEN x ELSE element_mul(K, x, Last(w))),
                             <<>>, d)
        Down(st, i) ==
            [table |-> <<IF i = 1 THEN st.e ELSE element_mul(K, products[i - 1], st.e)>> \o st.table,
             e |-> element_mul(K, st.e, d[i])]
    IN  FoldLeft(Down, [table |-> <<>>, e |-> element_invert(K, products[n])],
                 [i \in 1..n |-> n + 1 - i]).table

\* A destination whose flag was set before, by whatever it held, is passed over.
multi_double(C, r, p) ==
    LET K == C.field
        table == Inverses(K, Coefficients(Len(p), LAMBDA i : element_double(K, p[i].y)))
    IN  Coefficients(Len(p), LAMBDA i :
            IF p[i].inf \/ element_is0(K, p[i].y) \/ r[i].inf THEN O(r[i])
            ELSE Third(K, p[i], p[i], TangentSlope(C, p[i], table[i])))

\* The sums are written one after the other, so q[i] must not be one of the
\* destinations r[1] .. r[i - 1], nor p[i] another's: the callers' p is r, and their
\* q is apart from it.
multi_add(C, r, p, q) ==
    LET K == C.field
        table == Inverses(K, Coefficients(Len(p), LAMBDA i : element_sub(K, q[i].x, p[i].x)))
    IN  Coefficients(Len(p), LAMBDA i :
            IF p[i].inf \/ q[i].inf \/ p[i].x = q[i].x THEN curve_mul(C, r[i], p[i], q[i])
            ELSE Third(K, p[i], q[i], ChordSlope(K, p[i], q[i], table[i])))

(***************************************************************************)
(* Multiples and comparison                                                *)
(***************************************************************************)
\* element_pow_mpz works on points of its own and sets r in the end.
element_mul_mpz(C, r, p, n) ==
    LET fresh == curve_init(C)
        Points == [inf : BOOLEAN, x : C.field.all, y : C.field.all]
        G == [mul |-> [s \in Points, t \in Points |-> curve_mul(C, fresh, s, t)],
              square |-> [s \in Points |-> curve_double(C, fresh, s)], one |-> fresh]
    IN  curve_set(r, generic_pow_mpz(G, p, n))

point_cmp(p, q) == IF p.inf \/ q.inf THEN ~(p.inf /\ q.inf) ELSE p.x # q.x \/ p.y # q.y

\* generic_div inverts the second and multiplies; cosets of the quotient are compared.
curve_cmp(C, p, q) ==
    LET fresh == curve_init(C)
        quotient == curve_mul(C, fresh, curve_invert(C, fresh, q), p)
    IN  IF C.quotient_cmp # 0
        THEN ~curve_is1(element_mul_mpz(C, fresh, quotient, C.quotient_cmp))
        ELSE point_cmp(p, q)

curve_sign(C, p) == IF p.inf THEN 0 ELSE element_sign(C.field, p.y)
odd_curve_is_sqr(C, p) == TRUE
even_curve_is_sqr(C, p) == curve_is1(element_mul_mpz(C, curve_init(C), p, (C.order - 1) \div 2))
curve_is_sqr(C, p) == IF C.order % 2 = 1 THEN odd_curve_is_sqr(C, p) ELSE even_curve_is_sqr(C, p)

(***************************************************************************)
(* Points drawn, hashed to and decompressed                                *)
(***************************************************************************)
point_from_x(C, x) == Point(x, element_sqrt(C.field, RightHandSide(C, x)))
Cleared(C, p) == IF C.cofac # 0 THEN element_mul_mpz(C, p, p, C.cofac) ELSE p

\* What curve_random_no_cofac_solvefory may draw.
RandomPoints(C) ==
    {point_from_x(C, x) : x \in {e \in Elements(C.field) : element_is_sqr(C.field, RightHandSide(C, e))}}
curve_random_solvefory(C) == {Cleared(C, p) : p \in RandomPoints(C)}
curve_random_pointmul(C, r) == {element_mul_mpz(C, r, C.gen, n) : n \in 0..C.order - 1}

\* x <- x^2 + 1 until there is a y.  The x may come round without one, and the
\* loop not end: HashEnds.
TryAgain(C, x) ==
    FoldLeft(LAMBDA e, i : IF element_is_sqr(C.field, RightHandSide(C, e)) THEN e
                           ELSE element_add(C.field, element_square(C.field, e), One1(C.field)),
             x, LowToHigh(C.field.order))
HashEnds(C, x) == element_is_sqr(C.field, RightHandSide(C, TryAgain(C, x)))
WithSign(K, p, positive) ==
    IF (positive /\ element_sign(K, p.y) < 0) \/ (~positive /\ element_sign(K, p.y) > 0)
    THEN Point(p.x, element_neg(K, p.y)) ELSE p
curve_from_hash(C, x) == Cleared(C, WithSign(C.field, point_from_x(C, TryAgain(C, x)), TRUE))

(***************************************************************************)
(* Bytes: the coordinates, of O too.                                       *)
(***************************************************************************)
curve_to_bytes(p) == <<p.x, p.y>>
curve_from_bytes(C, data) ==
    LET p == Point(data[1], data[2]) IN IF curve_is_valid_point(C, p) THEN p ELSE O(p)
element_to_bytes_compressed(C, p) ==
    [x |-> p.x, last |-> IF element_sign(C.field, p.y) > 0 THEN 1 ELSE 0]
element_from_bytes_compressed(C, data) ==
    WithSign(C.field, point_from_x(C, data.x), data.last # 0)
element_to_bytes_x_only(p) == p.x
element_from_bytes_x_only(C, x) == point_from_x(C, x)

(***************************************************************************)
(* Setting curves up                                                       *)
(***************************************************************************)
CurveOf(K, a, b, order, cofac) ==
    [field |-> K, a |-> a, b |-> b, order |-> order, cofac |-> cofac, quotient_cmp |-> 0,
     gen |-> Point(Zero0(K), Zero0(K)), gen_no_cofac |-> Point(Zero0(K), Zero0(K))]
\* With generators from g, one of RandomPoints.
WithGenerators(C, g) ==
    [C EXCEPT !.gen_no_cofac = g, !.gen = IF C.cofac # 0 THEN element_mul_mpz(C, g, g, C.cofac) ELSE g]
field_init_curve_ab(K, a, b, order, cofac) ==
    LET C == CurveOf(K, a, b, order, cofac) IN WithGenerators(C, Draw(C))
field_init_curve_b(K, b, order, cofac) == field_init_curve_ab(K, Zero0(K), b, order, cofac)
\* a = 3 j / (1728 - j) and b = 2 j / (1728 - j)
field_init_curve_j(K, j, order, cofac) ==
    LET e == element_mul(K, element_invert(K, element_sub(K, element_set_si(K, 1728), j)), j)
        b == element_add(K, e, e)
    IN  field_init_curve_ab(K, element_add(K, e, b), b, order, cofac)
\* K is built on the field of C.
field_init_curve_ab_map(C, K, order, cofac) ==
    field_init_curve_ab(K, element_field_to_polymod(K, C.a), element_field_to_polymod(K, C.b), order, cofac)
\* The twist by nqr; it keeps the order and cofactor it is given.
Twist(C, nqr2) == [C EXCEPT !.a = element_mul(C.field, @, nqr2),
                            !.b = element_mul(C.field, @, element_mul(C.field, nqr2, C.field.nqr))]
field_reinit_curve_twist(C) ==
    LET T == Twist(C, element_square(C.field, C.field.nqr)) IN WithGenerators(T, Draw(T))
field_curve_set_quotient_cmp(C, quotient_cmp) == [C EXCEPT !.quotient_cmp = quotient_cmp]

\* The calls of Miller's algorithm along the bits of r below the highest; the bit 0
\* is not looked at, and the last line dropped.
MillerCalls(r) ==
    LET Of(m) == CASE m = 0 -> <<"tangent">>
                   [] m > 0 /\ Bit(r, m) = 1 -> <<"tangent", "double", "line", "square">>
                   [] OTHER -> <<"tangent", "double", "square">>
    IN  FlattenSeq([i \in 1..Bits(r) - 1 |-> Of(Bits(r) - 1 - i)])

\* The trace of Frobenius at q^n and the number of points over F_(q^k), from the trace at q.
pbc_mpz_trace_n(q, trace, n) ==
    FoldLeft(LAMBDA c, i : <<trace * c[1] - q * c[2], c[1]>>, <<trace, 2>>, LowToHigh(n - 1))[1]
pbc_mpz_curve_order_extn(q, t, k) == q ^ k + 1 - pbc_mpz_trace_n(q, t, k)
=============================================================================
