--------------------------- MODULE PairingRegisters ---------------------------
(***************************************************************************)
(* Pairings in use: two points, an element of GT, and a preprocessed point, *)
(* through any sequence of the calls of pbc_pairing.h.  The points are      *)
(* multiples of generators g and h; what they pair to, by each method, is    *)
(* tabulated once.                                                         *)
(***************************************************************************)
EXTENDS Pairing

CONSTANTS
    System,         \* the pairings: their names
    PairingNamed(_),\* what they are,
    H(_, _),        \* a generator of the second group
    Methods(_),     \* the methods of each
    Span(_)         \* and the multiples of g and h that are taken

VARIABLES
    sys,            \* the pairing in use
    option,         \* its option "method"
    points,         \* the points points[1] g and points[2] h
    result,         \* the power of e(g, h) that the element of GT is,
    log2,           \* and the one it should be
    told,           \* what is_almost_coddh said, and what it should have said
    prepared        \* the multiple of g that is preprocessed, and as what
pairingVars == <<sys, option, points, result, log2, told, prepared>>

(***************************************************************************)
(* What everything pairs to                                                *)
(***************************************************************************)
MultiplesOf(C, p, n) == [i \in n |-> element_mul_mpz(C, curve_init(C), p, i)]
PowersOf(P, e) == FoldLeft(LAMBDA w, i : Append(w, mulg_mul(P, Last(w), e)), <<mulg_set1(P)>>, LowToHigh(P.r - 1))
\* The power of e(g, h) that e is, given them all; their number, which is none, if
\* it is not one.
LogOf(powers, e) ==
    LET ks == {i \in 1..Len(powers) : powers[i] = e} IN IF ks = {} THEN Len(powers) ELSE Min(ks) - 1
\* Elements of the field that random or from_hash may have before the final power.
Raw(P, e) == <<mulg_mul(P, e, e), element_add(GTField(P), mulg_set1(P), e)>>

\* Everything, as a power of e(g, h).
TableFrom(P, ms, n, gs, hs, maps, powers) ==
    LET Log(e) == LogOf(powers, e)
        All(op(_)) == [i \in 0..P.r - 1 |-> Log(op(powers[i + 1]))]
    IN  [r |-> P.r,
         kind |-> [m \in ms |-> pp_kind(P, m)],
         set |-> [m, value \in ms |-> option_set(P, m, value)],
         map |-> [m \in ms, i \in n, j \in n |-> Log(maps[m, i, j])],
         pp |-> [m \in ms, i \in n, j \in n |-> Log(pairing_pp_apply(P, m, pairing_pp_init(P, m, gs[i]), hs[j]))],
         prod |-> [i \in n, j \in n |-> Log(element_prod_pairing(P, "miller-affine", <<gs[i], gs[1]>>, <<hs[1], hs[j]>>))],
         coddh |-> [i \in n \ {0}, j \in n \ {0} |-> is_almost_coddh(P, "miller-affine", gs[1], gs[i], hs[1], hs[j])],
         random |-> [i \in 1..2 |-> Log(gt_from(P, Raw(P, powers[2])[i]))],
         times |-> All(LAMBDA e : mulg_mul(P, e, powers[2])),
         over |-> All(LAMBDA e : mulg_div(P, e, powers[2])),
         invert |-> All(LAMBDA e : mulg_invert(P, e)),
         pow |-> All(LAMBDA e : mulg_pow_mpz(P, e, Max(n)))]
WithMaps(P, ms, n, gs, hs, maps) == TableFrom(P, ms, n, gs, hs, maps, PowersOf(P, maps["miller-affine", 1, 1]))
WithPoints(P, ms, n, gs, hs) ==
    WithMaps(P, ms, n, gs, hs, [m \in ms, i \in n, j \in n |-> pairing_apply(P, m, gs[i], hs[j])])
TableOf(P, h, ms, n) == WithPoints(P, ms, n, MultiplesOf(G1(P), G1(P).gen, n), MultiplesOf(G2(P), h, n))
TableNamed(s, P) == TableOf(P, H(s, P), Methods(s), Span(s))
Paired == [s \in System |-> TableNamed(s, PairingNamed(s))]

(***************************************************************************)
(* The calls, of a pairing with the table T                                *)
(***************************************************************************)
PairingInit ==
    /\ sys \in System /\ option \in Methods(sys)
    /\ points = <<1, 1>>
    /\ result = 0 /\ log2 = 0
    /\ told = <<TRUE, TRUE>>
    /\ prepared = [i |-> 0, kind |-> "none"]

\* Another point; nothing else of the system changes.
SetPoint ==
    /\ \E c \in 1..2, i \in Span(sys) : points' = [points EXCEPT ![c] = i]
    /\ UNCHANGED <<sys, option, result, log2, told, prepared>>
\* The functions are exchanged, not what they have preprocessed.
OptionSet(T) ==
    /\ \E value \in Methods(sys) : option' = T.set[option, value]
    /\ UNCHANGED <<sys, points, result, log2, told, prepared>>

Yields(T, k, n) ==
    result' = k /\ log2' = n % T.r /\ UNCHANGED <<sys, option, points, told, prepared>>
ElementPairing(T) == Yields(T, T.map[option, points[1], points[2]], points[1] * points[2])
BothPoints == points[1] # 0 /\ points[2] # 0
PairingProduct(T) == BothPoints /\ Yields(T, T.prod[points[1], points[2]], points[1] + points[2])
IsAlmostCoddh(T) ==
    /\ BothPoints
    /\ told' = <<T.coddh[points[1], points[2]],
                 0 \in {(points[1] - points[2]) % T.r, (points[1] + points[2]) % T.r}>>
    /\ UNCHANGED <<sys, option, points, result, log2, prepared>>

PPInit(T) ==
    /\ prepared' = [i |-> points[1], kind |-> IF points[1] = 0 THEN "nothing" ELSE T.kind[option]]
    /\ UNCHANGED <<sys, option, points, result, log2, told>>
\* What another method has preprocessed is misread, and where only a pointer is
\* kept the point must not have changed.
Usable(T) ==
    \/ prepared.kind = "nothing"
    \/ /\ prepared.kind = T.kind[option]
       /\ prepared.kind = "pointer" => points[1] = prepared.i
PPApply(T) == Usable(T) /\ Yields(T, T.pp[option, prepared.i, points[2]], prepared.i * points[2])

GTStep(T) ==
    /\ result < T.r
    /\ \/ Yields(T, T.times[result], log2 + 1)
       \/ Yields(T, T.over[result], log2 - 1)
       \/ Yields(T, T.invert[result], -log2)
       \/ Yields(T, T.pow[result], Max(Span(sys)) * log2)
\* Which element is drawn is not known: only that it is one of GT.
GTRandom(T) == \E k \in 1..2 : Yields(T, T.random[k], Min({T.random[k], T.r - 1}))

PairingCall(T) ==
    \/ OptionSet(T) \/ ElementPairing(T) \/ PairingProduct(T) \/ IsAlmostCoddh(T) \/ PPInit(T) \/ PPApply(T)
    \/ GTStep(T) \/ GTRandom(T)
PairingNext == SetPoint \/ \E T \in {Paired[sys]} : PairingCall(T)

(***************************************************************************)
(* What holds of them                                                      *)
(***************************************************************************)
\* However it was computed - by any method, from a preprocessed point, in a
\* product, or as a power - an element of GT is the power of e(g, h) that
\* bilinearity makes it, where e(g, h) is not 1; what is drawn lies in GT; and two
\* points are told to be the same multiple, up to sign, if they are.
PairingIsBilinear == result = log2 /\ told[1] = told[2]
=============================================================================
