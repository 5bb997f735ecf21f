------------------------------- MODULE PairingG -------------------------------
(***************************************************************************)
(* ecc/g_param.c: the pairings of type G, on a curve over F_q of embedding  *)
(* degree 10, with the twist over F_q^5 as second group.  What the file has *)
(* line for line as d_param.c has it is that of PairingD; the final power,  *)
(* a pairing by elliptic nets and the options are its own.                 *)
(***************************************************************************)
EXTENDS Curve

LOCAL D == INSTANCE PairingD
LOCAL E == INSTANCE PairingE

d_miller_evalfn(q, line, Q) == D!d_miller_evalfn(q, line, Q)
cc_miller_no_denom_affine(A, P, Q) == D!cc_miller_no_denom_affine(A, P, Q)
cc_miller_no_denom_proj(A, P, Q) == D!cc_miller_no_denom_proj(A, P, Q)

(***************************************************************************)
(* The final power (q^5 - 1) (q + 1) and (q^4 - q^3 + q^2 - q + 1) / r      *)
(***************************************************************************)
\* Not for 1, which is divided by 0 here.
lucas_even(A, in, cofactor) == D!LucasOf(A, in, cofactor)

\* The q-th power of an element of Fqd from those of x, x^2, x^3 and x^4.
FrobeniusG(A, e) ==
    LET moved == FoldLeft(LAMBDA w, i : element_add(A.Fqd, w, polymod_const_mul(A.Fqd, e[i + 1], A.xpowq[i])),
                          Zero0(A.Fqd), <<1, 2, 3, 4>>)
    IN  [moved EXCEPT ![1] = (@ + e[1]) % A.Fq.order]
qpower(A, e, sign) ==
    <<FrobeniusG(A, e[1]), IF sign > 0 THEN FrobeniusG(A, e[2]) ELSE element_neg(A.Fqd, FrobeniusG(A, e[2]))>>

tatepower10(A, in) ==
    LET conjugate == <<in[1], element_neg(A.Fqd, in[2])>>
        e3 == element_mul(A.Fqk, qpower(A, in, 1), conjugate)
        e0 == element_invert(A.Fqk, element_mul(A.Fqk, qpower(A, in, -1), in))
    IN  lucas_even(A, element_mul(A.Fqk, e3, e0), A.phikonr)
g_finalpow(A, e) == tatepower10(A, e)

cc_pairing(A, method, in1, in2) == tatepower10(A, D!cc_miller(A, method, in1, D!Untwisted(A, in2)))
cc_is_almost_coddh(A, method, a, b, c, d) ==
    D!InverseOrSame(A.Fqk, cc_pairing(A, method, a, d), cc_pairing(A, method, b, c))

g_pairing_pp_init(A, P) == D!d_pairing_pp_init(A, P)
g_pairing_pp_apply(A, pp, in2) == tatepower10(A, D!PPLines(A, pp, D!Untwisted(A, in2)))

(***************************************************************************)
(* By elliptic nets.  The terms of the first point alone are numbers; those *)
(* that involve the second, dm1, d0 and d1, are elements of Fqk.           *)
(***************************************************************************)
\* With (x2, y2) = (u, w sqrt(v)) the untwisted point:
\* A = 1 / (x - x2), B = 1 / ((2 x + x2) A^-2 - (y + y2)^2), d1 = 2 x + x2 - ((y2 - y) A)^2.
GNetValues(A, in1, Q) ==
    LET K == A.Fqk
        OfFq(n) == element_field_to_polymod(A.Fqd, n % A.Fq.order)
        x2 == <<Q.x, Zero0(A.Fqd)>>
        y2 == <<Zero0(A.Fqd), Q.y>>
        Base(n) == <<OfFq(n), Zero0(A.Fqd)>>
        gap == element_sub(K, Base(in1.x), x2)
        sum == element_add(K, Base(2 * in1.x), x2)
        gapinv == element_invert(K, gap)
        slope == element_mul(K, element_sub(K, y2, Base(in1.y)), gapinv)
        end == element_square(K, element_add(K, y2, Base(in1.y)))
    IN  [dm1 |-> One1(K), d0 |-> One1(K), d1 |-> element_sub(K, sum, element_square(K, slope)), A |-> gapinv,
         B |-> element_invert(K, element_sub(K, element_mul(K, sum, element_square(K, gap)), end))]

GNetStep(A, w, d, bit) ==
    LET K == A.Fqk
        u == element_square(K, d.d0)
        v == element_mul(K, d.dm1, d.d1)
        Times(n, e) == <<polymod_const_mul(A.Fqd, n, e[1]), polymod_const_mul(A.Fqd, n, e[2])>>
        Term(j) == element_sub(K, Times(w.s[j + 3], v), Times(w.t[j + 3], u))
    IN  IF bit = 1
        THEN [d EXCEPT !.dm1 = Term(0), !.d0 = element_mul(K, Term(1), d.A), !.d1 = element_mul(K, Term(2), d.B)]
        ELSE [d EXCEPT !.dm1 = Term(-1), !.d0 = Term(0), !.d1 = element_mul(K, Term(1), d.A)]

\* The term of the first point that d1 should be over lies in F_q: the final
\* power takes it to 1.
g_pairing_ellnet(A, in1, in2) ==
    LET q == A.Fq.order
        C == InvMod(2 * in1.y, q)
        Step(st, m) ==
            LET w == E!EllnetTerms(q, st.c)
            IN  [c |-> E!EllnetBlock(q, C, w, Bit(A.r, m)), d |-> GNetStep(A, w, st.d, Bit(A.r, m))]
        start == [c |-> E!ENetStart(q, A.Eq.a, A.Eq.b, in1.x, in1.y),
                  d |-> GNetValues(A, in1, D!Untwisted(A, in2))]
    IN  tatepower10(A, FoldLeft(Step, start, E!Below(A.r)).d.d1)

\* The loops of Miller's algorithm may be exchanged; once the nets are chosen
\* they remain, whatever is chosen later.
g_pairing_option_set(method, value) == IF method = "shipsey-stange" THEN method ELSE value

(***************************************************************************)
(* Setting up                                                              *)
(***************************************************************************)
GPairing(par, Fq, Fqd, Eq) ==
    LET nqrinv == element_invert(Fqd, Fqd.nqr)
        ndonr == pbc_mpz_curve_order_extn(par.q, -(par.q - par.n + 1), 5) \div par.r
        xpowq == element_pow_mpz(Fqd, <<0, 1, 0, 0, 0>>, par.q)
        xpowq2 == element_square(Fqd, xpowq)
    IN  [type |-> "g", r |-> par.r, Fq |-> Fq, Fqd |-> Fqd, Fqk |-> field_init_quadratic(Fqd),
         Eq |-> Eq, Etwist |-> D!TwistOf(Eq, Fqd, par.r, ndonr),
         nqrinv |-> nqrinv, nqrinv2 |-> element_square(Fqd, nqrinv),
         phikonr |-> (1 - par.q + par.q ^ 2 - par.q ^ 3 + par.q ^ 4) \div par.r,
         xpowq |-> <<xpowq, xpowq2, element_mul(Fqd, xpowq2, xpowq), element_square(Fqd, xpowq2)>>]
GPairingOver(par, Fq) ==
    GPairing(par, Fq, D!DExtension(Fq, par.coeff, par.nqr),
             field_init_curve_ab(Fq, par.a, par.b, par.r, par.h))
g_init_pairing(par) == GPairingOver(par, PrimeField(par.q))

\* compute_cm_curve of type D with k = 10, and the polynomials and
\* non-residues that may be drawn for it.
compute_cm_curve(cm, Fq, root) == D!compute_cm_curve([cm EXCEPT !.k = 10], Fq, root)
GIrreducible(Fq) == D!DIrreducible(Fq, 5)
GNonresidues(Fq, coeff) == D!DNonresidues(Fq, coeff)
=============================================================================
