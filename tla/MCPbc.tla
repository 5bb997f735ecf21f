---- MODULE MCPbc ----
(***************************************************************************)
(* The registers of one part of pbc at a time: elements of F_p, elements of *)
(* the fields, points, pairings.  The other parts are not in use, "none".   *)
(***************************************************************************)
EXTENDS FpRegisters, FpTables, FieldRegisters, CurveRegisters, PairingRegisters

(***************************************************************************)
(* F_p                                                                     *)
(***************************************************************************)
FpFieldValue == {[fp |-> f, W |-> 4, t |-> 2, p |-> 13] : f \in {"mont", "faster", "fast", "naive"}}
   \cup {[fp |-> "mont", W |-> 2, t |-> 3, p |-> 7], [fp |-> "tiny", W |-> 16, t |-> 1, p |-> 3]}
NumberValue == {-1, 0, 1, 3, 13, 28}
Tables == [F \in FpFieldValue |-> FpTable(F)]
TableValue == Tables

(***************************************************************************)
(* Fields: one prime field, F_5(sqrt 2), F_7(i), F_3[x] modulo polynomials  *)
(* of degree 3, 4 and 6, and a quadratic extension of the first of those.   *)
(***************************************************************************)
F3 == PrimeField(3)
Polynomial == [cubic |-> <<1, 2, 0, 1>>, quartic |-> <<2, 1, 0, 0, 1>>, sextic |-> <<2, 1, 0, 0, 0, 0, 1>>,
               tower |-> <<1, 2, 0, 1>>]
Extended(n, K) ==
    CASE n \in {"cubic", "quartic", "sextic"} -> K
      [] n \in {"fq", "tower"} ->
            field_init_quadratic(IF n = "fq" THEN PrimeField(5) ELSE field_set_nqr(K, <<0, 1, 2>>))
      [] n = "fi" -> field_init_fi(PrimeField(7))
      [] n = "fp" -> PrimeField(13)
FieldNamedValue(n) == Extended(n, IF n \in DOMAIN Polynomial THEN field_init_polymod(F3, Polynomial[n]) ELSE <<>>)
OperandValue(n) ==
    CASE n = "fp" -> {2, 5}
      [] n = "fq" -> {<<1, 2>>}
      [] n = "fi" -> {<<3, 1>>}
      [] n = "cubic" -> {<<1, 2, 1>>}
      [] n = "quartic" -> {<<1, 1, 2, 2>>}
      [] n = "sextic" -> {<<1, 1, 2, 1, 1, 0>>}
      [] n = "tower" -> {<<<<1, 0, 0>>, <<1, 2, 2>>>>}
SmallValue == {-1, 0, 1, 3}

(***************************************************************************)
(* Curves over F_5: with 7 points, its twist, with 6 points compared       *)
(* modulo 2, and one from a j-invariant.                                   *)
(***************************************************************************)
Reaches(C, p, n) == ~curve_is1(element_mul_mpz(C, p, p, n))
\* The points drawn: the first that is of use as generator, with an order that has
\* the factors wanted.  Over F_7^5 one point of the curve of type G and one of its
\* twist that does not vanish with the twist's cofactor.
First(C, Good(_)) ==
    point_from_x(C, CHOOSE x \in Elements(C.field) :
        element_is_sqr(C.field, RightHandSide(C, x)) /\ Good(point_from_x(C, x)))
DrawValue(C) ==
    CASE C.field.order = 5 -> First(C, LAMBDA p : Reaches(C, p, 2) /\ Reaches(C, p, 3))
      [] C.field.order = 1201 -> First(C, LAMBDA p : Reaches(C, p, 48) /\ Reaches(C, p, 5))
      [] C.field.kind = "fq" -> First(C, LAMBDA p : Reaches(C, p, 25))
      [] C.field.order = 7 ^ 5 -> IF C.a[1] = 1 THEN Point(<<0, 0, 0, 0, 1>>, <<4, 1, 0, 0, 2>>)
                                  ELSE Point(<<0, 0, 0, 0, 2>>, <<4, 4, 4, 1, 3>>)
      [] OTHER -> First(C, LAMBDA p : ~curve_is1(Cleared(C, p)))
CurveNamedValue(c) ==
    CASE c = "whole" -> field_init_curve_ab(PrimeField(5), 2, 1, 7, 0)
      [] c = "twist" -> field_reinit_curve_twist(field_init_curve_ab(PrimeField(5), 2, 1, 7, 0))
      [] c = "quotient" -> field_curve_set_quotient_cmp(field_init_curve_b(PrimeField(5), 1, 3, 2), 2)
      [] c = "j" -> field_init_curve_j(PrimeField(5), 4, 5, 0)
MultipleValue == {0, 3, 13}

(***************************************************************************)
(* Pairings: of type A with each sign1, A1, D with k = 6, D with 2, E, F, G  *)
(***************************************************************************)
PairingNamedValue(s) ==
    CASE s = "a7" ->
            a_init_pairing([q |-> 83, h |-> 12, r |-> 7, exp2 |-> 3, exp1 |-> 1, sign1 |-> -1])
      [] s = "a11" ->
            a_init_pairing([q |-> 131, h |-> 12, r |-> 11, exp2 |-> 3, exp1 |-> 1, sign1 |-> 1])
      [] s = "a1" -> a1_init_pairing(pbc_param_init_a1_gen(7))
      [] s = "d6" ->
            d_init_pairing([q |-> 5, n |-> 7, r |-> 7, h |-> 1, k |-> 6, a |-> 2, b |-> 1, coeff |-> <<1, 0, 1>>,
                            nqr |-> 2])
      [] s = "d2" ->
            d_init_pairing([q |-> 19, n |-> 20, r |-> 5, h |-> 4, k |-> 2, a |-> 2, b |-> 3, coeff |-> <<0>>,
                            nqr |-> 2])
      [] s = "e" ->
            e_init_pairing([q |-> 1201, r |-> 5, h |-> 48, a |-> 0, b |-> 1, exp2 |-> 2, exp1 |-> 1, sign1 |-> 1,
                            sign0 |-> -1])
      [] s = "g" ->
            G!g_init_pairing([q |-> 7, n |-> 11, r |-> 11, h |-> 1, a |-> 1, b |-> 6, coeff |-> <<1, 0, 0, 0, 3>>,
                              nqr |-> 3])
      [] s = "f" ->
            f_init_pairing([q |-> 19, r |-> 13, b |-> 2, beta |-> PrimeField(19).nqr, alpha0 |-> 15, alpha1 |-> 7])
\* For type E a point that is not a multiple of g.
NoMultiple(C, h) == \A i \in 0..4 : h # element_mul_mpz(C, h, C.gen, i)
HValue(s, P) ==
    IF P.type # "e" THEN G2(P).gen
    ELSE LET xs == {x \in 0..99 : element_is_sqr(P.Fq, RightHandSide(P.Eq, x))}
         IN  CHOOSE h \in {Cleared(P.Eq, point_from_x(P.Eq, x)) : x \in xs} : ~curve_is1(h) /\ NoMultiple(P.Eq, h)
\* The projective loop of types D and G is not among them: it does not compute the pairing.
MethodsValue(s) ==
    CASE s \in {"a7", "a11", "a1", "e"} -> {"miller", "miller-affine", "shipsey-stange"}
      [] s = "g" -> {"miller-affine", "shipsey-stange"}
      [] OTHER -> {"miller-affine"}
SpanValue(s) == {0, 1, IF s = "f" THEN 2 ELSE 3}

(***************************************************************************)
(* What the registers do not call                                          *)
(***************************************************************************)
\* pbc_trial_divide gives the prime factors, but what is left above its limit;
\* bytes give back the number; what is hashed to is not above the limit.
ASSUME IntegerHelpers ==
    /\ \A n \in 2..60 :
        LET fs == pbc_trial_divide(n, 0)
        IN  /\ n = FoldLeft(LAMBDA m, f : m * f.fac ^ f.mul, 1, fs)
            /\ \A i \in DOMAIN fs : IsPrime(fs[i].fac)
    /\ pbc_trial_divide(2 * 7 * 11, 5) = <<[fac |-> 2, mul |-> 1], [fac |-> 77, mul |-> 1]>>
    /\ \A z \in {0, 1, 255, 256, 70000} : FoldLeft(LAMBDA m, b : 256 * m + b, 0, pbc_mpz_out_raw_n(3, z)) = z
    /\ \A limit \in {1, 12, 300, 40000} : pbc_mpz_from_hash(limit, <<200, 7>>) \in 0..limit
\* element_tonelli gives a root of each square, the more often q - 1 is even too.
ASSUME TonelliGivesRoots ==
    \A p \in {5, 7, 13, 17, 97} :
        LET F == PrimeField(p)
        IN  \A a \in {element_square(F, x) : x \in 1..p - 1} : element_square(F, element_tonelli(F, a)) = a
\* pbc_mpz_curve_order_extn counts the points over F_25 of a curve with 7 over F_5.
ASSUME OrderCountsPoints ==
    LET K == field_init_quadratic(PrimeField(5))
        C == CurveOf(K, element_set_si(K, 2), element_set_si(K, 1), 1, 0)
    IN  pbc_mpz_curve_order_extn(5, 5 + 1 - 7, 2) =
            1 + Cardinality({p \in [inf : {FALSE}, x : Elements(K), y : Elements(K)] : curve_is_valid_point(C, p)})
\* The parameters above are such as the generators give.
ASSUME TypeAGenerated ==
    \A s \in {"a7", "a11"} :
        LET P == PairingNamedValue(s)
        IN  \E bits \in {<<3, 7>>, <<4, 8>>} : \E par \in pbc_param_init_a_gen(bits[1], bits[2]) :
                par.q = P.Fq.order /\ par.r = P.r /\ par.h = P.phikonr /\ par.sign1 = P.sign1
ASSUME TypeDGenerated ==
    LET F5 == PrimeField(5)
    IN  /\ <<1, 0, 1>> \in DIrreducible(F5, 3) /\ 2 \in DNonresidues(F5, <<1, 0, 1>>)
        /\ 2 \in NonSquares(PrimeField(19), field_init_polymod(PrimeField(19), <<0, 1>>))
ASSUME TypeGGenerated ==
    LET F7 == PrimeField(7)
        P == PairingNamedValue("g")
    IN  /\ poly_is_irred(F7, <<1, 0, 0, 0, 3, 1>>) /\ ~element_is_sqr(P.Fqd, element_field_to_polymod(P.Fqd, 3))
        /\ curve_is_valid_point(P.Etwist, P.Etwist.gen) /\ Reaches(P.Etwist, P.Etwist.gen, P.Etwist.quotient_cmp)
ASSUME TypeEGenerated ==
    \E o \in EOrders(3) :
        /\ o.r = 5 /\ 4 \in EFields(o, 3)
        /\ LET par == e_gen_curve(o, 4) IN par.q = 1201 /\ par.h = 48 /\ par.a = 0 /\ par.b = 1
ASSUME TypeFGenerated ==
    LET Fq == PrimeField(19)
        Fq2 == field_init_quadratic(Fq)
    IN  /\ BNFrom(1) = [q |-> 19, r |-> 13]
        /\ 2 \in FCurves(BNFrom(1), Fq)
        /\ poly_is_irred(Fq2, SixthRoot(Fq2, <<15, 7>>))

(***************************************************************************)
(* One part at a time                                                      *)
(***************************************************************************)
FpIdle ==
    /\ field = [fp |-> "naive", W |-> 4, t |-> 2, p |-> 13]
    /\ want = [r \in Reg |-> 0] /\ reg = [r \in Reg |-> Is(0)]
FieldIdle == fname = "none" /\ elem = 0 /\ operand = 0 /\ meant = 0
CurveIdle == cname = "none" /\ pt = <<>> /\ log = <<>>
PairingIdle ==
    /\ sys = "none" /\ option = "none" /\ prepared = "none"
    /\ points = <<>> /\ result = 0 /\ log2 = 0 /\ told = <<TRUE, TRUE>>
PbcInit ==
    \/ FpInit /\ FieldIdle /\ CurveIdle /\ PairingIdle
    \/ FpIdle /\ FieldInit /\ CurveIdle /\ PairingIdle
    \/ FpIdle /\ FieldIdle /\ CurveInit /\ PairingIdle
    \/ FpIdle /\ FieldIdle /\ CurveIdle /\ PairingInit
PbcNext ==
    \/ /\ fname = "none" /\ cname = "none" /\ sys = "none"
       /\ FpNext
       /\ UNCHANGED <<fieldVars, curveVars, pairingVars>>
    \/ fname # "none" /\ FieldNext /\ UNCHANGED <<fpVars, curveVars, pairingVars>>
    \/ cname # "none" /\ CurveNext /\ UNCHANGED <<fpVars, fieldVars, pairingVars>>
    \/ sys # "none" /\ PairingNext /\ UNCHANGED <<fpVars, fieldVars, curveVars>>
====
