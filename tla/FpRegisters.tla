----------------------------- MODULE FpRegisters -----------------------------
(***************************************************************************)
(* Elements of one field F_p in use: any sequence of calls of the field's   *)
(* functions, in whichever of its implementations, with any aliasing of     *)
(* arguments.  What the elements should be is kept beside them.             *)
(***************************************************************************)
EXTENDS MontFp

CONSTANTS
    Reg,            \* the elements
    Field,          \* the fields: [fp, W, t, p], fp naming the implementation
    Number,         \* the integers handed in
    Table           \* the functions of each field: call and observe (FpTables)

ASSUME FieldAssumption ==
    /\ Field \subseteq [fp : {"mont", "faster", "fast", "tiny", "naive"},
                        W : Nat \ {0, 1}, t : Nat \ {0}, p : Nat \ {0, 1}]
    /\ \A F \in Field : F.p < B(F) /\ Odd(F.p)
ASSUME RegAssumption == IsFiniteSet(Reg) /\ Number \subseteq Int

VARIABLES
    field,          \* the field in use
    reg,            \* its elements as they are stored
    want            \* and what they should be, in 0..p - 1
fpVars == <<field, reg, want>>

\* What each function is for (pbc_field.h).
Meaning(op, x, y, n) ==
    CASE op \in {"set_mpz", "set_si", "from_bytes"} -> n
      [] op = "set1" -> 1
      [] op = "set" -> x
      [] op = "neg" -> -x
      [] op = "doub" -> 2 * x
      [] op = "halve" -> CHOOSE h \in 0..field.p - 1 : (2 * h) % field.p = x
      [] op = "square" -> x * x
      [] op = "invert" -> InverseMod(x, field.p)
      [] op = "add" -> x + y
      [] op = "sub" -> x - y
      [] op = "mul" -> x * y
      [] op = "mul_si" -> x * n
      [] op = "pow" -> PowerMod(x, n, field.p)

FpInit ==
    /\ field \in Field
    /\ want = [r \in Reg |-> 0]
    \* fp_init allocates the limbs and leaves what is in them; fast, tiny, naive clear them.
    /\ reg \in [Reg -> IF HasFlag(field) THEN [flag : {0}, d : 0..B(field) - 1] ELSE {Is(0)}]

\* T is the field's table.
Call(T, op, c, a, b, n) ==
    /\ reg' = [reg EXCEPT ![c] = T.call[op, reg[c], reg[a], reg[b], n]]
    /\ want' = [want EXCEPT ![c] = Meaning(op, want[a], want[b], n) % field.p]
    /\ UNCHANGED field

\* What the functions may be given: set_si and mul_si machine integers (those of
\* the limbs, where p is larger); tinyfp.c's product must fit a word; a multiple
\* of p other than 0 is live in faster_fp's set_mpz and p itself in tiny_fp's set_si.
Machine(n) == n \in -field.W..field.W
Takes(op, n) ==
    /\ op \in {"set_si", "mul_si"} => Machine(n)
    /\ op = "from_bytes" => n \in 0..field.p - 1
    /\ field.fp = "faster" => n = 0 \/ n % field.p # 0
    /\ field.fp = "tiny" => (op = "mul_si" => n \in 0..field.p) /\ (n < 0 => n % field.p # 0)

Assign(T) ==
    \E c \in Reg, op \in {"set_mpz", "set_si", "from_bytes", "set1"}, n \in Number :
        Takes(op, n) /\ Call(T, op, c, c, c, n)
Scale(T) ==
    \E c, a \in Reg, op \in {"mul_si", "pow"}, n \in Number :
        /\ Takes(op, n)
        /\ op = "pow" => n >= 0 /\ (n = 0 => want[a] # 0)
        /\ Call(T, op, c, a, a, n)

\* element_halve leaves a zero where it was written to: it is called in place
\* (a_param.c:281), or on an element known not to be zero (d_param.c:214, :495).
HalveTarget(c, a) == c = a \/ want[c] # 0

Unary(T) ==
    \E c, a \in Reg, op \in {"set", "neg", "doub", "halve", "square", "invert"} :
        /\ op = "halve" => HalveTarget(c, a)
        /\ op = "invert" => want[a] # 0
        /\ Call(T, op, c, a, a, 0)
Binary(T) ==
    \E c, a, b \in Reg, op \in {"add", "sub", "mul"} : Call(T, op, c, a, b, 0)

FpNext == \E T \in {Table[field]} : Assign(T) \/ Scale(T) \/ Unary(T) \/ Binary(T)

RightlySeen(seen, r) ==
    /\ seen.mpz = want[r]
    /\ seen.is0 <=> want[r] = 0
    /\ ~seen.is0 => reg[r].d < field.p
\* Whatever was called on whatever was left in the limbs, an element stands for
\* the number it should, and none but 0 is flagged or stored as 0.
FpRepresents == \A r \in Reg : RightlySeen(Table[field].observe[reg[r], reg[r]], r)

\* element_cmp compares the limbs of its second argument even if that is
\* flagged zero; the observers are right but for a zero there, whose limbs are
\* left from the very element it is compared with.
StaleZero(a, b) == HasFlag(field) /\ IsZeroFlag(b) /\ ~IsZeroFlag(a) /\ a.d = b.d
ObservedOf(observe) ==
    \A r, s \in Reg :
        LET seen == observe[reg[r], reg[s]]
        IN  /\ ~StaleZero(reg[r], reg[s]) => (seen.cmp <=> want[r] # want[s])
            /\ seen.is1 <=> want[r] = 1
            /\ seen.sqr <=> \E y \in 0..field.p - 1 : (y * y) % field.p = want[r]
            /\ (want[r] + want[s]) % field.p = 0 => seen.sign = -observe[reg[s], reg[s]].sign
FpObserved == ObservedOf(Table[field].observe)
=============================================================================
