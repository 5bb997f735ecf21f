------------------------------- MODULE Pairing -------------------------------
(***************************************************************************)
(* ecc/pairing.c and include/pbc_pairing.h: what a pairing is used through, *)
(* whatever its type.  The method is the value of the option "method".      *)
(***************************************************************************)
EXTENDS PairingD, PairingE, PairingF

G == INSTANCE PairingG

SymmetricWithI == {"a", "a1"}

\* The field that GT is a subgroup of, and its one.
GTField(P) ==
    CASE P.type \in SymmetricWithI -> P.Fq2
      [] P.type \in {"d", "g"} -> P.Fqk
      [] P.type = "e" -> P.Fq
      [] P.type = "f" -> P.Fq12
G1(P) == P.Eq
G2(P) == IF P.type \in {"d", "f", "g"} THEN P.Etwist ELSE P.Eq
mulg_set1(P) == One1(GTField(P))
mulg_is1(P, e) == element_is1(GTField(P), e)
mulg_mul(P, a, b) == element_mul(GTField(P), a, b)
mulg_div(P, a, b) == generic_div(GTField(P), a, b)
mulg_invert(P, a) == element_invert(GTField(P), a)
mulg_pow_mpz(P, a, n) == element_pow_mpz(GTField(P), a, n)

\* What takes any element but 0 into GT.
finalpow(P, e) ==
    CASE P.type \in SymmetricWithI -> a_tateexp(P, e)
      [] P.type = "d" -> cc_tatepower(P, e)
      [] P.type = "e" -> FinalE(P, e)
      [] P.type = "f" -> f_tateexp(P, e)
      [] P.type = "g" -> G!g_finalpow(P, e)
\* gt_random and gt_from_hash: from an element e of the field.
gt_from(P, e) == finalpow(P, e)

a_map(P, method, in1, in2) ==
    CASE method = "shipsey-stange" -> a_pairing_ellnet(P, in1, in2)
      [] method = "miller" -> IF P.type = "a" THEN a_pairing_proj(P, in1, in2) ELSE a1_pairing_proj(P, in1, in2)
      [] method = "miller-affine" -> IF P.type = "a" THEN a_pairing_affine(P, in1, in2) ELSE a1_pairing(P, in1, in2)
map(P, method, in1, in2) ==
    CASE P.type \in SymmetricWithI -> a_map(P, method, in1, in2)
      [] P.type = "d" -> cc_pairing(P, method, in1, in2)
      [] P.type = "e" -> IF method = "shipsey-stange" THEN e_pairing_ellnet(P, in1, in2)
                         ELSE e_pairing(P, method, in1, in2)
      [] P.type = "f" -> f_pairing(P, in1, in2)
      [] P.type = "g" -> IF method = "shipsey-stange" THEN G!g_pairing_ellnet(P, in1, in2)
                         ELSE G!cc_pairing(P, method, in1, in2)
\* The method after option "method" is set to value.
option_set(P, method, value) == IF P.type = "g" THEN G!g_pairing_option_set(method, value) ELSE value

\* The lines, the terms of the net, or in1 itself by a pointer to it.
pp_kind(P, method) ==
    CASE P.type \in {"e", "f"} -> "pointer"
      [] P.type \in SymmetricWithI /\ method = "shipsey-stange" -> "net"
      [] OTHER -> "lines"
pp_init(P, method, in1) ==
    CASE P.type \in SymmetricWithI /\ method = "shipsey-stange" -> a_pairing_ellnet_pp_init(P, in1)
      [] P.type = "a" /\ method # "shipsey-stange" -> a_pairing_pp_init(P, in1)
      [] P.type = "a1" /\ method # "shipsey-stange" -> a1_pairing_pp_init(P, in1)
      [] P.type = "d" -> d_pairing_pp_init(P, in1)
      [] P.type = "g" -> G!g_pairing_pp_init(P, in1)
      [] P.type \in {"e", "f"} -> in1
pp_apply(P, method, pp, in2) ==
    CASE P.type \in SymmetricWithI /\ method = "shipsey-stange" -> a_pairing_ellnet_pp_apply(P, pp, in2)
      [] P.type = "a" /\ method # "shipsey-stange" -> a_pairing_pp_apply(P, pp, in2)
      [] P.type = "a1" /\ method # "shipsey-stange" -> a1_pairing_pp_apply(P, pp, in2)
      [] P.type = "d" -> d_pairing_pp_apply(P, pp, in2)
      [] P.type = "g" -> G!g_pairing_pp_apply(P, pp, in2)
      [] P.type \in {"e", "f"} -> map(P, method, pp, in2)
\* Nothing is kept of O.
pairing_pp_init(P, method, in1) == IF curve_is1(in1) THEN {} ELSE {pp_init(P, method, in1)}
pairing_pp_apply(P, method, pp, in2) ==
    IF pp = {} \/ curve_is1(in2) THEN mulg_set1(P) ELSE pp_apply(P, method, CHOOSE kept \in pp : TRUE, in2)

pairing_apply(P, method, in1, in2) ==
    IF curve_is1(in1) \/ curve_is1(in2) THEN mulg_set1(P) ELSE map(P, method, in1, in2)

Product(P, es) == FoldLeft(LAMBDA e, f : mulg_mul(P, e, f), Head(es), Tail(es))
generic_prod_pairings(P, method, in1, in2) ==
    Product(P, Coefficients(Len(in1), LAMBDA i : map(P, method, in1[i], in2[i])))
prod_pairings(P, method, in1, in2) ==
    CASE P.type = "a" -> a_pairings_affine(P, in1, in2)
      [] P.type = "a1" -> a1_pairings_affine(P, in1, in2)
      [] P.type = "d" -> cc_pairings_affine(P, in1, in2)
      [] P.type \in {"e", "f", "g"} -> generic_prod_pairings(P, method, in1, in2)
\* 1 as soon as one of the points is O, whatever the others are.
element_prod_pairing(P, method, in1, in2) ==
    IF \E i \in 1..Len(in1) : curve_is1(in1[i]) \/ curve_is1(in2[i]) THEN mulg_set1(P)
    ELSE prod_pairings(P, method, in1, in2)

\* g, g^x, h, h^x or h^-x
SameOrInverse(P, t0, t1) == t0 = t1 \/ mulg_is1(P, mulg_mul(P, t0, t1))
generic_is_almost_coddh(P, method, a, b, c, d) ==
    SameOrInverse(P, pairing_apply(P, method, a, d), pairing_apply(P, method, b, c))
is_almost_coddh(P, method, a, b, c, d) ==
    CASE P.type = "d" -> cc_is_almost_coddh(P, method, a, b, c, d)
      [] P.type = "g" -> G!cc_is_almost_coddh(P, method, a, b, c, d)
      [] OTHER -> generic_is_almost_coddh(P, method, a, b, c, d)
=============================================================================
