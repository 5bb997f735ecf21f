------------------------------- MODULE Powers -------------------------------
(***************************************************************************)
(* arith/field.c: exponentiation in any group or ring, and the integer       *)
(* helpers.  A group G is the record of its functions mul and square and of  *)
(* its one.                                                                 *)
(***************************************************************************)
EXTENDS Integers, FiniteSets, FiniteSetsExt, SequencesExt

\* mpz_sizeinbase(n, 2), which is 1 for 0, and mpz_tstbit
RECURSIVE Bits(_)
Bits(n) == IF n <= 1 THEN 1 ELSE 1 + Bits(n \div 2)
Bit(n, s) == (n \div 2 ^ s) % 2
\* Bit numbers from the highest of n's to 0.
HighToLow(n) == [i \in 1..Bits(n) |-> Bits(n) - i]
LowToHigh(n) == [i \in 1..n |-> i - 1]

optimal_pow_window_size(n) ==
    LET bits == Bits(n)
        size == [b \in {9065, 3529, 1324, 474, 157, 47} |->
                    CASE b = 9065 -> 8 [] b = 3529 -> 7 [] b = 1324 -> 6
                      [] b = 474 -> 5 [] b = 157 -> 4 [] b = 47 -> 3]
    IN  Max({2} \cup {size[b] : b \in {c \in DOMAIN size : bits > c}})

\* lookup[i + 1] is the i-th power of a, i < 2^k.
build_pow_window(G, a, k) ==
    FoldLeft(LAMBDA w, s : Append(w, G.mul[Last(w), a]), <<G.one>>, LowToHigh(2 ^ k - 1))

\* From the highest bit on: a word begins at a bit that is set and is looked
\* up when it has k bits or the last bit is reached.
PowBit(G, lookup, n, k, st, s) ==
    LET r == G.square[st.result]
        word == IF st.wbits = 0 THEN 1 ELSE 2 * st.word + Bit(n, s)
        wbits == st.wbits + 1
    IN  CASE st.wbits = 0 /\ Bit(n, s) = 0 -> [st EXCEPT !.result = r]
          [] wbits = k \/ s = 0 -> [result |-> G.mul[r, lookup[word + 1]], word |-> 0, wbits |-> 0]
          [] OTHER -> [result |-> r, word |-> word, wbits |-> wbits]

element_pow_wind(G, lookup, n, k) ==
    IF n = 0 THEN G.one
    ELSE FoldLeft(LAMBDA st, s : PowBit(G, lookup, n, k, st, s),
                  [result |-> G.one, word |-> 0, wbits |-> 0], HighToLow(n)).result

generic_pow_mpz(G, a, n) ==
    LET k == optimal_pow_window_size(n) IN element_pow_wind(G, build_pow_window(G, a, k), n, k)

Larger(m, n) == IF m > n THEN m ELSE n

\* Two and three bases at once.
element_pow2_mpz(G, a1, n1, a2, n2) ==
    LET mul(a, b) == G.mul[a, b]
        a1a2 == mul(a1, a2)
        Step(r, s) ==
            LET q == mul(r, r)
            IN  CASE Bit(n1, s) = 1 /\ Bit(n2, s) = 1 -> mul(q, a1a2)
                  [] Bit(n1, s) = 1 /\ Bit(n2, s) = 0 -> mul(q, a1)
                  [] Bit(n1, s) = 0 /\ Bit(n2, s) = 1 -> mul(q, a2)
                  [] OTHER -> q
    IN  IF n1 = 0 /\ n2 = 0 THEN G.one
        ELSE FoldLeft(Step, G.one, HighToLow(Larger(n1, n2)))

element_pow3_mpz(G, a1, n1, a2, n2, a3, n3) ==
    LET mul(a, b) == G.mul[a, b]
        lookup == <<G.one, a1, a2, mul(a1, a2), a3, mul(a1, a3), mul(a2, a3), mul(mul(a2, a3), a1)>>
        Step(r, s) == mul(mul(r, r), lookup[1 + Bit(n1, s) + 2 * Bit(n2, s) + 4 * Bit(n3, s)])
    IN  IF n1 = 0 /\ n2 = 0 /\ n3 = 0 THEN G.one
        ELSE FoldLeft(Step, G.one, HighToLow(Larger(n1, Larger(n2, n3))))

(***************************************************************************)
(* Powers of a fixed base.  Row i + 1 holds the powers of a^(2^(k i)).      *)
(***************************************************************************)
element_build_base_table(G, a, bits, k) ==
    LET Row(m) == FoldLeft(LAMBDA w, s : Append(w, G.mul[m, Last(w)]), <<G.one>>, LowToHigh(2 ^ k - 1))
        Grow(st, i) ==
            LET row == Row(st.multiplier)
            IN  [table |-> Append(st.table, row), multiplier |-> G.mul[st.multiplier, Last(row)]]
    IN  FoldLeft(Grow, [table |-> <<>>, multiplier |-> a], LowToHigh(bits \div k + 1)).table

\* The power is reduced only if it exceeds the order of the field.
element_pow_base_table(G, order, power, table, k) ==
    LET n == IF power > order THEN power % order ELSE power
        Word(row) == (n \div 2 ^ (k * row)) % 2 ^ k
        Step(r, row) == IF Word(row) > 0 THEN G.mul[r, table[row + 1][Word(row) + 1]] ELSE r
    IN  IF power = 0 THEN G.one ELSE FoldLeft(Step, G.one, LowToHigh(Bits(n) \div k + 1))

element_pp_pow(G, order, a, power) ==
    element_pow_base_table(G, order, power, element_build_base_table(G, a, Bits(order), 5), 5)

(***************************************************************************)
(* Integers                                                                *)
(***************************************************************************)
\* pbc_mpz_from_hash: the bytes of the hash, 0, the bytes again, 1, ... up to the
\* length of the limit, read as one number and halved until it is not above the limit.
RECURSIVE Halved(_, _)
Halved(z, limit) == IF z > limit THEN Halved(z \div 2, limit) ELSE z
pbc_mpz_from_hash(limit, data) ==
    LET count == (Bits(limit) + 7) \div 8
        len == Len(data)
        At(i) == IF i % (len + 1) < len THEN data[(i % (len + 1)) + 1] ELSE i \div (len + 1)
    IN  Halved(FoldLeft(LAMBDA z, i : 256 * z + At(i), 0, LowToHigh(count)), limit)

\* pbc_mpz_out_raw_n: n bytes, the highest first.
pbc_mpz_out_raw_n(n, z) == [i \in 1..n |-> (z \div 256 ^ (n - i)) % 256]

IsPrime(n) == n > 1 /\ \A d \in 2..n - 1 : n % d # 0
RECURSIVE Valuation(_, _)
Valuation(m, p) == IF m % p = 0 THEN 1 + Valuation(m \div p, p) ELSE 0
NextPrime(p) == CHOOSE q \in p + 1..2 * p : IsPrime(q) /\ \A d \in p + 1..q - 1 : ~IsPrime(d)

\* pbc_trial_divide: the factors handed to fun and how often each divides.  What
\* is left above the limit, 0 meaning none, is handed over undivided.
RECURSIVE TrialDivide(_, _, _)
TrialDivide(m, p, limit) ==
    IF m = 1 THEN <<>>
    ELSE LET q == IF IsPrime(m) \/ (limit # 0 /\ p > limit) THEN m ELSE p
             v == Valuation(m, q)
         IN  IF m % q = 0
             THEN <<[fac |-> q, mul |-> v]>> \o
                  (IF m \div q ^ v = 1 THEN <<>> ELSE TrialDivide(m \div q ^ v, NextPrime(q), limit))
             ELSE TrialDivide(m, NextPrime(q), limit)
pbc_trial_divide(n, limit) == TrialDivide(n, 2, limit)
=============================================================================
