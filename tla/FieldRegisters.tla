---------------------------- MODULE FieldRegisters ----------------------------
(***************************************************************************)
(* An element of a field, or of an extension of one, in use: any sequence   *)
(* of calls of the field's functions, with a second operand.  What the      *)
(* element should be is computed beside it from the definition of the       *)
(* field: products term by term, reduced by the polynomial they are modulo, *)
(* inverses and roots by search.                                           *)
(***************************************************************************)
EXTENDS Fields

CONSTANTS
    FieldName,      \* the fields
    FieldNamed(_),  \* what they are
    Operand(_),     \* the second operands, of each
    Small,          \* the integers handed in
    Rooted          \* the fields roots are taken in, the others being large

VARIABLES
    fname,          \* the field in use
    elem,           \* its element
    operand,        \* the second operand
    meant           \* what elem should be
fieldVars == <<fname, elem, operand, meant>>

NamedFields == [n \in FieldName |-> FieldNamed(n)]

(***************************************************************************)
(* The fields by their definition                                          *)
(***************************************************************************)
RECURSIVE PlusOf(_, _, _)
PlusOf(F, a, b) ==
    IF F.kind = "fp" THEN (a + b) % F.order ELSE Coefficients(Len(a), LAMBDA i : PlusOf(F.base, a[i], b[i]))
RECURSIVE MinusOf(_, _)
MinusOf(F, a) ==
    IF F.kind = "fp" THEN (-a) % F.order ELSE Coefficients(Len(a), LAMBDA i : MinusOf(F.base, a[i]))
RECURSIVE OneOf(_, _)
OneOf(F, n) ==
    CASE F.kind = "fp" -> n % F.order
      [] F.kind \in {"fq", "fi"} -> <<OneOf(F.base, n), OneOf(F.base, 0)>>
      [] F.kind = "polymod" -> Coefficients(F.n, LAMBDA i : OneOf(F.base, IF i = 1 THEN n ELSE 0))

\* The monic polynomial an extension is modulo, without its highest coefficient.
ModulusOf(F) ==
    CASE F.kind = "fq" -> <<MinusOf(F.base, F.base.nqr), OneOf(F.base, 0)>>
      [] F.kind = "fi" -> <<OneOf(F.base, 1), OneOf(F.base, 0)>>
      [] F.kind = "polymod" -> Front(F.poly)

RECURSIVE TimesOf(_, _, _)
\* s without its highest coefficient, which is taken off with a multiple of the modulus m.
LowerDegree(K, s, m) ==
    LET k == Len(s)
        low(i) == i - (k - Len(m)) + 1
    IN  Coefficients(k - 1, LAMBDA i :
            IF low(i) >= 1 THEN PlusOf(K, s[i], MinusOf(K, TimesOf(K, s[k], m[low(i)]))) ELSE s[i])
SchoolProduct(K, n, a, b) ==
    Coefficients(2 * n - 1, LAMBDA k :
        FoldLeft(LAMBDA s, i : IF k + 1 - i \in 1..n THEN PlusOf(K, s, TimesOf(K, a[i], b[k + 1 - i])) ELSE s,
                 OneOf(K, 0), [i \in 1..n |-> i]))
TimesOf(F, a, b) ==
    IF F.kind = "fp" THEN (a * b) % F.order
    ELSE FoldLeft(LAMBDA s, i : LowerDegree(F.base, s, ModulusOf(F)),
                  SchoolProduct(F.base, Len(a), a, b), LowToHigh(Len(a) - 1))

RECURSIVE PowerOf(_, _, _)
PowerOf(F, a, n) == IF n = 0 THEN OneOf(F, 1) ELSE TimesOf(F, a, PowerOf(F, a, n - 1))

(***************************************************************************)
(* The calls                                                               *)
(***************************************************************************)
Becomes(new, means) == elem' = new /\ meant' = means /\ UNCHANGED <<fname, operand>>

FieldInit ==
    /\ fname \in FieldName
    /\ operand \in Operand(fname)
    /\ elem = operand
    /\ meant = operand

AddStep(F) ==
    \/ Becomes(element_add(F, elem, operand), PlusOf(F, meant, operand))
    \/ Becomes(element_sub(F, elem, operand), PlusOf(F, meant, MinusOf(F, operand)))
    \/ Becomes(element_neg(F, elem), MinusOf(F, meant))
    \/ Becomes(element_double(F, elem), PlusOf(F, meant, meant))
MulStep(F) ==
    \/ Becomes(element_mul(F, elem, operand), TimesOf(F, meant, operand))
    \/ Becomes(element_square(F, elem), TimesOf(F, meant, meant))
    \/ \E n \in Small : Becomes(element_mul_si(F, elem, n), TimesOf(F, meant, OneOf(F, n)))
    \/ \E n \in Small :
        /\ n > 0
        /\ Becomes(element_pow_mpz(F, elem, n), PowerOf(F, meant, n))

\* Powers of several bases, and from a table of the powers of one.
PowersStep(F) ==
    \E m, n \in Small :
        /\ m > 0 /\ n > m
        /\ LET both == TimesOf(F, PowerOf(F, meant, m), PowerOf(F, operand, n))
           IN  \/ Becomes(element_pow2_mpz(Group(F), elem, m, operand, n), both)
               \/ Becomes(element_pow3_mpz(Group(F), elem, m, operand, n, elem, n),
                          TimesOf(F, both, PowerOf(F, meant, n)))
               \/ Becomes(element_pp_pow(Group(F), F.order, elem, m), PowerOf(F, meant, m))
               \/ Becomes(generic_add_ui(F, elem, n), PlusOf(F, meant, OneOf(F, n)))

\* A half, a quotient or a root is what it should be if it gives back what it is
\* of; otherwise the element stands for nothing.
Found(new, right) == Becomes(new, IF right THEN new ELSE <<>>)
HalveStep(F) ==
    LET new == generic_halve(F, elem) IN Found(new, PlusOf(F, new, new) = meant)
InvertStep(F) ==
    /\ ~element_is0(F, elem)
    /\ LET new == element_invert(F, elem)
       IN  Found(new, TimesOf(F, new, meant) = OneOf(F, 1))
DivStep(F) ==
    /\ ~element_is0(F, elem)
    /\ LET new == generic_div(F, operand, elem)
       IN  Found(new, TimesOf(F, new, meant) = operand)

\* Not of x + 0 sqrt(nqr): the root of its norm may be -x, and 0 is then divided by 0.
SqrtTakes(F) ==
    /\ fname \in Rooted
    /\ element_is_sqr(F, elem)
    /\ F.kind \in {"fq", "fi"} => ~element_is0(F.base, elem[2])
SqrtStep(F) ==
    /\ SqrtTakes(F)
    /\ LET new == element_sqrt(F, elem)
       IN  Found(new, TimesOf(F, new, new) = meant)

FieldStep(F) ==
    AddStep(F) \/ MulStep(F) \/ PowersStep(F) \/ HalveStep(F) \/ InvertStep(F) \/ DivStep(F) \/ SqrtStep(F)
FieldNext == \E F \in {NamedFields[fname]} : FieldStep(F)

(***************************************************************************)
(* What holds of them                                                      *)
(***************************************************************************)
RECURSIVE CoordinatesOf(_, _)
CoordinatesOf(F, a) == IF F.kind = "fp" THEN <<a>> ELSE FlattenSeq(Coefficients(Len(a), LAMBDA i : CoordinatesOf(F.base, a[i])))

\* Of 0 polymod_is_sqr says that it is no square, and so does what is built on a polymod.
NoSquareZero(F) == F.kind = "polymod" \/ (F.kind \in {"fq", "fi"} /\ F.base.kind = "polymod")
ObservedRight(F) ==
    /\ element_is0(F, elem) <=> meant = OneOf(F, 0)
    /\ element_is1(F, elem) <=> meant = OneOf(F, 1)
    /\ element_sign(F, element_neg(F, elem)) = -element_sign(F, elem)
    /\ element_to_bytes(F, elem) = CoordinatesOf(F, meant)
    /\ element_to_mpz(F, elem) = CoordinatesOf(F, meant)[1]
    /\ element_is_sqr(F, TimesOf(F, meant, meant)) <=> (NoSquareZero(F) => meant # OneOf(F, 0))

\* Polynomials over the field, by their values: elem + operand X + X^2, operand + elem X.
ValueAt(F, f, x) == FoldRight(LAMBDA c, v : PlusOf(F, c, TimesOf(F, v, x)), f, OneOf(F, 0))
PolyRight(F) ==
    LET f == <<elem, operand, OneOf(F, 1)>>
        g == poly_remove_leading_zeroes(F, <<operand, elem>>)
        both == poly_mul(F, f, g)
    IN  /\ \A x \in Elements(F) :
            LET u == ValueAt(F, f, x)
                v == ValueAt(F, g, x)
            IN  /\ ValueAt(F, poly_add(F, g, f), x) = PlusOf(F, u, v)
                /\ ValueAt(F, poly_sub(F, g, f), x) = PlusOf(F, v, MinusOf(F, u))
                /\ ValueAt(F, poly_double(F, f), x) = ValueAt(F, poly_mul_si(F, f, 2), x)
                /\ ValueAt(F, both, x) = TimesOf(F, u, v)
                /\ ValueAt(F, poly_const_mul(F, elem, f), x) = TimesOf(F, meant, u)
        /\ g # <<>> => poly_div(F, both, g) = [quot |-> f, rem |-> <<>>]
        /\ poly_sgn(F, poly_neg(F, g)) = -poly_sgn(F, g)
        /\ poly_is1(F, poly_set_si(F, 1)) /\ element_field_to_poly(F, OneOf(F, 0)) = <<>>

\* (X - elem) (X - operand), and X^2 - elem
RootsRight(F) ==
    /\ poly_findroot(F, <<TimesOf(F, meant, operand), MinusOf(F, PlusOf(F, meant, operand)), OneOf(F, 1)>>)
          = {meant, operand}
    /\ poly_is_irred(F, <<MinusOf(F, meant), OneOf(F, 0), OneOf(F, 1)>>)
          <=> \A b \in Elements(F) : TimesOf(F, b, b) # meant
    /\ field_gen_nqr(F) = {a \in Elements(F) : \A b \in Elements(F) : TimesOf(F, b, b) # a}

FieldHolds(F) == elem = meant /\ ObservedRight(F) /\ (F.kind = "fp" => PolyRight(F) /\ RootsRight(F))

\* Whatever was called, an element is what the definition of its field makes it:
\* the multiplications, inversions and roots that the extensions have of their
\* own (fieldquadratic.c, poly.c) are those of the field, they can tell it from
\* others, and a polynomial's roots are found.
FieldsAreFields == fname \in FieldName => FieldHolds(NamedFields[fname])
=============================================================================
