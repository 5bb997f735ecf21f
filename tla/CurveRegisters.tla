---------------------------- MODULE CurveRegisters ----------------------------
(***************************************************************************)
(* Two points of a curve over F_p in use: any sequence of calls of the      *)
(* curve's functions, with any aliasing of arguments.  What the points      *)
(* should be is kept beside them as multiples of a point that generates the *)
(* curve's points, and those multiples are computed from the chord and      *)
(* tangent law.                                                            *)
(***************************************************************************)
EXTENDS Curve

CONSTANTS
    CurveName,      \* the curves
    CurveNamed(_),  \* what they are
    Multiple        \* the integers points are multiplied with

VARIABLES
    cname,          \* the curve in use
    pt,             \* its points
    log             \* and which multiples of gen_no_cofac they should be
curveVars == <<cname, pt, log>>

(***************************************************************************)
(* The group, by the law                                                   *)
(***************************************************************************)
\* The point where the line through s and t, or the tangent in s, meets the curve again, reflected.
Meets(p, a, s, t) ==
    LET l == CHOOSE k \in 0..p - 1 :
                 IF s.x # t.x THEN (k * (s.x - t.x) - (s.y - t.y)) % p = 0
                 ELSE (2 * k * s.y - 3 * s.x * s.x - a) % p = 0
        x == (l * l - s.x - t.x) % p
    IN  Point(x, (l * (s.x - x) - s.y) % p)
PlusG(C, s) ==
    CASE s.inf -> C.gen_no_cofac
      [] ~s.inf /\ s.x = C.gen_no_cofac.x /\ (s.y + C.gen_no_cofac.y) % C.field.order = 0 -> O(s)
      [] OTHER -> Meets(C.field.order, C.a, s, C.gen_no_cofac)
RECURSIVE MultiplesFrom(_, _)
MultiplesFrom(C, s) == IF s.inf THEN <<>> ELSE <<s>> \o MultiplesFrom(C, PlusG(C, s))
\* The multiples of a curve's gen_no_cofac that are not O.
Multiples(C) == MultiplesFrom(C, C.gen_no_cofac)
\* What may be drawn or hashed to, as long as the hashing ends.
Hashed(C) == {curve_from_hash(C, x) : x \in {e \in Elements(C.field) : HashEnds(C, e)}}
Drawable(C) == curve_random_solvefory(C) \cup curve_random_pointmul(C, curve_init(C)) \cup Hashed(C)
GroupOf(C) == [curve |-> C, multiples |-> Multiples(C), drawable |-> Drawable(C)]
Groups == [c \in CurveName |-> GroupOf(CurveNamed(c))]

\* Of a group G: the number of its points, and which of them they are.
Size(G) == Len(G.multiples) + 1
IsMultiple(G, p, i) == IF i = 0 THEN p.inf ELSE ~p.inf /\ p = G.multiples[i]

(***************************************************************************)
(* The calls                                                               *)
(***************************************************************************)
StartIn(G) ==
    /\ pt = <<G.multiples[1], G.multiples[1]>>
    /\ log = <<1, 1>>
CurveInit == cname \in CurveName /\ StartIn(Groups[cname])

Gets(G, c, new, i) ==
    pt' = [pt EXCEPT ![c] = new] /\ log' = [log EXCEPT ![c] = i % Size(G)] /\ UNCHANGED cname
GetsBoth(G, new, i, j) == pt' = new /\ log' = <<i % Size(G), j % Size(G)>> /\ UNCHANGED cname

Combine(G, C) ==
    \E c, a \in 1..2 :
        \/ Gets(G, c, curve_set(pt[c], pt[a]), log[a])
        \/ Gets(G, c, curve_invert(C, pt[c], pt[a]), -log[a])
        \/ Gets(G, c, curve_double(C, pt[c], pt[a]), 2 * log[a])
        \/ \E b \in 1..2 : Gets(G, c, curve_mul(C, pt[c], pt[a], pt[b]), log[a] + log[b])
        \/ \E n \in Multiple : Gets(G, c, element_mul_mpz(C, pt[c], pt[a], n), n * log[a])

\* Two at once, in place.  A destination flagged O stays O; a zero among what is
\* to be inverted spoils the others.  What is added to the points is in elements
\* of its own, a copy of the other point or the generator.
Addend(G, r) == {[point |-> pt[3 - r], log |-> log[3 - r]], [point |-> G.multiples[1], log |-> 1]}
Together(G, C) ==
    \/ /\ \A r \in 1..2 : ~pt[r].inf /\ ~element_is0(C.field, pt[r].y)
       /\ GetsBoth(G, multi_double(C, pt, pt), 2 * log[1], 2 * log[2])
    \/ \E b \in Addend(G, 1), d \in Addend(G, 2) :
        /\ pt[1].x # b.point.x /\ pt[2].x # d.point.x
        /\ GetsBoth(G, multi_add(C, pt, pt, <<b.point, d.point>>), log[1] + b.log, log[2] + d.log)

\* Bytes hold no flag: those of O are not read back.  With x alone it may be the inverse.
GetsEither(G, c, new, i) == Gets(G, c, new, IF IsMultiple(G, new, i) THEN i ELSE -i)
Transcode(G, C) ==
    \E c, a \in 1..2 :
        /\ ~pt[a].inf
        /\ \/ Gets(G, c, curve_from_bytes(C, curve_to_bytes(pt[a])), log[a])
           \/ Gets(G, c, element_from_bytes_compressed(C, element_to_bytes_compressed(C, pt[a])), log[a])
           \/ GetsEither(G, c, element_from_bytes_x_only(C, element_to_bytes_x_only(pt[a])), log[a])

\* A point drawn or hashed to is a multiple of the cofactor; the size + 1 is no multiple.
DrawPoint(G, C) ==
    \E new \in G.drawable :
        LET logs == {i \in 0..Size(G) - 1 : IsMultiple(G, new, i) /\ (C.cofac # 0 => i % C.cofac = 0)}
        IN  /\ pt' = [pt EXCEPT ![1] = new]
            /\ log' = [log EXCEPT ![1] = IF logs = {} THEN Size(G) + 1 ELSE Max(logs)]
            /\ UNCHANGED cname

CurveStep(G, C) == Combine(G, C) \/ Together(G, C) \/ Transcode(G, C) \/ DrawPoint(G, C)
CurveNext == \E G \in {Groups[cname]} : CurveStep(G, G.curve)

(***************************************************************************)
(* What holds of them                                                      *)
(***************************************************************************)
PointHolds(G, C) ==
    /\ \A r \in 1..2 :
        /\ log[r] < Size(G)
        /\ IsMultiple(G, pt[r], log[r])
        /\ curve_is1(pt[r]) <=> log[r] = 0
        /\ curve_sign(C, curve_invert(C, pt[r], pt[r])) = -curve_sign(C, pt[r])
        /\ curve_is_valid_point(C, pt[r]) /\ curve_is_sqr(C, pt[r])
    /\ curve_cmp(C, pt[1], pt[2]) <=>
           (IF C.quotient_cmp = 0 THEN log[1] # log[2] ELSE (C.quotient_cmp * (log[1] - log[2])) % Size(G) # 0)

\* Whatever was called, for one point into whatever register or for two at once in
\* place with other elements added, a point is the multiple of the generator it
\* should be, O where it should be, and what is drawn lies in the subgroup; with
\* quotient_cmp, points compare as their cosets do.
HoldsIn(G) == PointHolds(G, G.curve)
PointRepresents == cname \in CurveName => HoldsIn(Groups[cname])
=============================================================================
