------------------------------- MODULE FpTables -------------------------------
(***************************************************************************)
(* The field_s of each implementation of F_p: which functions it has for    *)
(* the calls of pbc_field.h.  F.fp names the implementation.               *)
(***************************************************************************)
EXTENDS FpVariants

(***************************************************************************)
(* The tables of functions that field_init_mont_fp and its like set up.     *)
(* square, halve, mul_si and the like are field_init's generic ones where   *)
(* an implementation has none of its own.                                  *)
(***************************************************************************)
MontTable(F, op, c, a, b, n) ==
    CASE op = "set_mpz" -> MontSetMpz(F, c, n)
      [] op = "set_si" -> MontSetMpz(F, c, n)
      [] op = "from_bytes" -> MontFromBytes(F, c, n)
      [] op = "set1" -> MontSet1(F)
      [] op = "set" -> FpSet(c, a)
      [] op = "neg" -> MontNeg(F, c, a)
      [] op = "doub" -> MontDouble(F, c, a)
      [] op = "halve" -> MontHalve(F, c, a)
      [] op = "square" -> MontMul(F, c, a, a)
      [] op = "invert" -> MontInvert(F, a)
      [] op = "add" -> MontAdd(F, c, a, b)
      [] op = "sub" -> MontSub(F, c, a, b)
      [] op = "mul" -> MontMul(F, c, a, b)
      [] op = "mul_si" -> MontMul(F, c, a, MontSetMpz(F, Zero(Is(0)), n))
      [] op = "pow" -> MontPow(F, c, a, n)

FasterTable(F, op, c, a, b, n) ==
    CASE op = "set_mpz" -> FasterSetMpz(F, c, n)
      [] op = "set_si" -> FasterSetSi(F, c, n)
      [] op = "from_bytes" -> FasterFromBytes(c, n)
      [] op = "set1" -> Is(1)
      [] op = "set" -> FpSet(c, a)
      [] op = "neg" -> FasterNeg(F, c, a)
      [] op = "doub" -> FasterDouble(F, c, a)
      [] op = "halve" -> FasterHalve(F, c, a)
      [] op = "square" -> FasterSquare(F, c, a)
      [] op = "invert" -> FasterInvert(F, a)
      [] op = "add" -> FasterAdd(F, c, a, b)
      [] op = "sub" -> FasterSub(F, c, a, b)
      [] op = "mul" -> FasterMul(F, c, a, b)
      [] op = "mul_si" -> FasterMulSi(F, c, a, n)
      [] op = "pow" -> FasterPow(F, c, a, n)

FastTable(F, op, a, b, n) ==
    CASE op = "set_mpz" -> FastSetMpz(F, n)
      [] op = "set_si" -> FastSetSi(F, n)
      [] op = "from_bytes" -> FastFromBytes(F, n)
      [] op = "set1" -> Is(1)
      [] op = "set" -> a
      [] op = "neg" -> FastNeg(F, a)
      [] op = "doub" -> FastDouble(F, a)
      [] op = "halve" -> FastHalve(F, a)
      [] op = "square" -> FastSquare(F, a)
      [] op = "invert" -> FastInvert(F, a)
      [] op = "add" -> FastAdd(F, a, b)
      [] op = "sub" -> FastSub(F, a, b)
      [] op = "mul" -> FastMul(F, a, b)
      [] op = "mul_si" -> FastMulSi(F, a, n)
      [] op = "pow" -> FastPow(F, a, n)

TinyTable(F, op, a, b, n) ==
    CASE op = "set_mpz" -> TinySetMpz(F, n)
      [] op = "set_si" -> TinySetSi(F, n)
      [] op = "from_bytes" -> TinyFromBytes(n)
      [] op = "set1" -> Is(1)
      [] op = "set" -> a
      [] op = "neg" -> TinyNeg(F, a)
      [] op = "doub" -> TinyDouble(F, a)
      [] op = "halve" -> TinyMul(F, a, TinyInvert(F, TinySetSi(F, 2)))
      [] op = "square" -> TinyMul(F, a, a)
      [] op = "invert" -> TinyInvert(F, a)
      [] op = "add" -> TinyAdd(F, a, b)
      [] op = "sub" -> TinySub(F, a, b)
      [] op = "mul" -> TinyMul(F, a, b)
      [] op = "mul_si" -> TinyMulSi(F, a, n)
      [] op = "pow" -> TinyPow(F, a, n)

NaiveTable(F, op, a, b, n) ==
    CASE op \in {"set_mpz", "set_si"} -> NaiveSet(F, n)
      [] op = "from_bytes" -> NaiveFromBytes(n)
      [] op = "set1" -> Is(1)
      [] op = "set" -> a
      [] op = "neg" -> NaiveNeg(F, a)
      [] op = "doub" -> NaiveDouble(F, a)
      [] op = "halve" -> NaiveHalve(F, a)
      [] op = "square" -> NaiveSquare(F, a)
      [] op = "invert" -> NaiveInvert(F, a)
      [] op = "add" -> NaiveAdd(F, a, b)
      [] op = "sub" -> NaiveSub(F, a, b)
      [] op = "mul" -> NaiveMul(F, a, b)
      [] op = "mul_si" -> NaiveMulSi(F, a, n)
      [] op = "pow" -> NaivePow(F, a, n)

Stored(F, op, c, a, b, n) ==
    CASE F.fp = "mont" -> MontTable(F, op, c, a, b, n)
      [] F.fp = "faster" -> FasterTable(F, op, c, a, b, n)
      [] F.fp = "fast" -> FastTable(F, op, a, b, n)
      [] F.fp = "tiny" -> TinyTable(F, op, a, b, n)
      [] F.fp = "naive" -> NaiveTable(F, op, a, b, n)

(***************************************************************************)
(* Observers                                                               *)
(***************************************************************************)
ToMpz(F, a) == IF F.fp = "mont" THEN MontToMpz(F, a) ELSE FasterToMpz(a)
IsZero(F, a) == IF HasFlag(F) THEN IsZeroFlag(a) ELSE a.d = 0
IsOne(F, a) ==
    CASE F.fp = "mont" -> MontIs1(F, a)
      [] F.fp = "faster" -> FasterIs1(a)
      [] OTHER -> a.d = 1
Differ(F, a, b) ==
    CASE F.fp = "mont" -> MontCmp(a, b)
      [] F.fp = "faster" -> FasterCmp(a, b)
      [] OTHER -> a.d # b.d
Sign(F, a) ==
    CASE F.fp = "mont" -> MontSign(F, a)
      [] F.fp = "faster" -> FasterSign(a)
      [] F.fp = "fast" -> FastSign(a)
      [] F.fp = "tiny" -> TinySign(a)
      [] F.fp = "naive" -> NaiveSign(a)
IsSqr(F, a) ==
    CASE F.fp = "mont" -> MontIsSqr(F, a)
      [] F.fp = "faster" -> FasterIsSqr(F, a)
      [] OTHER -> FastIsSqr(F, a)

\* The elements as they may be stored.
Storable(F) == [flag : {0, Live}, d : 0..B(F) - 1]
Observed(F, a, b) ==
    [mpz |-> ToMpz(F, a), is0 |-> IsZero(F, a), is1 |-> IsOne(F, a), sqr |-> IsSqr(F, a),
     sign |-> Sign(F, a), cmp |-> Differ(F, a, b)]

\* The table of F: what each function leaves in c, and what the observers say.
FpOps == {"set_mpz", "set_si", "from_bytes", "set1", "set", "neg", "doub", "halve", "square", "invert",
          "add", "sub", "mul", "mul_si", "pow"}
FpTable(F) ==
    [call |-> [op \in FpOps, c \in Storable(F), a \in Storable(F), b \in Storable(F), n \in Int |->
                   Stored(F, op, c, a, b, n)],
     observe |-> [a \in Storable(F), b \in Storable(F) |-> Observed(F, a, b)]]
=============================================================================
