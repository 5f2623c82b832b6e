-------------------------------- MODULE LimbOps --------------------------------
(***************************************************************************)
(* The C++ helpers at the head of every generated file (emit_cpp): shifts  *)
(* with a guard, bit fields of limb arrays and arithmetic on limb arrays.  *)
(* A limb array is a function on 0 .. n - 1, least significant limb first. *)
(* The width of a limb, 64 in the code, is a parameter.                    *)
(***************************************************************************)
EXTENDS Integers, Sequences, SequencesExt, Bitwise

CONSTANT LimbBits

ASSUME LimbAssumption == LimbBits \in Nat \ {0}

Cut(x, width) == x % 2^width

\* limb_count
LimbCount(width) == (width + LimbBits - 1) \div LimbBits

Zeros(n) == [i \in 0 .. n - 1 |-> 0]
Upto(n) == [i \in 1 .. n |-> i - 1]

-----------------------------------------------------------------------------
(* Bit fields. *)

\* fs_getbits
GetBits(w, low, width) ==
    LET li == low \div LimbBits
        off == low % LimbBits
        upper == IF off > 0 /\ off + width > LimbBits
                 THEN Cut(w[li + 1] * 2^(LimbBits - off), LimbBits) ELSE 0
        v == (w[li] \div 2^off) | upper
    IN  IF width >= LimbBits THEN v ELSE Cut(v, width)

\* A limb with the bits at .. at + width - 1 replaced.
Replaced(limb, at, width, bits) ==
    limb - Cut(limb \div 2^at, width) * 2^at + bits * 2^at

\* Bug: the upper part of a field that straddles two limbs is written over its limb.
SetBitsOver(w, low, width, val) ==
    LET li == low \div LimbBits
        off == low % LimbBits
        v == Cut(val, width)
    IN  IF off + width <= LimbBits
        THEN [w EXCEPT ![li] = Replaced(@, off, width, v)]
        ELSE [w EXCEPT ![li] = Replaced(@, off, LimbBits - off, Cut(v, LimbBits - off)),
                       ![li + 1] = v \div 2^(LimbBits - off)]

\* fs_setbits
SetBits(w, low, width, val) ==
    LET li == low \div LimbBits
        off == low % LimbBits
        v == Cut(val, width)
        inLow == LimbBits - off
    IN  IF off + width <= LimbBits
        THEN [w EXCEPT ![li] = Replaced(@, off, width, v)]
        ELSE [w EXCEPT ![li] = Replaced(@, off, inLow, Cut(v, inLow)),
                       ![li + 1] = Replaced(@, 0, width - inLow, v \div 2^inLow)]

\* fs_copy_bits, a limb's width at a time.
CopyBits(d, dlow, s, slow, width) ==
    FoldLeft(LAMBDA acc, i :
                LET done == i * LimbBits
                    chunk == IF width - done > LimbBits THEN LimbBits ELSE width - done
                IN  SetBits(acc, dlow + done, chunk, GetBits(s, slow + done, chunk)),
             d, Upto(LimbCount(width)))

-----------------------------------------------------------------------------
(* Shifts. *)

\* shl, shr and their 64 and 128 bit forms, on words of `word` bits.
ShiftLeft(x, amount, word) == IF amount >= word THEN 0 ELSE Cut(x * 2^amount, word)
ShiftRight(x, amount, word) == IF amount >= word THEN 0 ELSE x \div 2^amount

\* fs_shl_limbs
ShlLimbs(s, n, sh) ==
    LET w == sh \div LimbBits
        b == sh % LimbBits
    IN  [i \in 0 .. n - 1 |->
            IF sh >= n * LimbBits \/ i < w THEN 0
            ELSE Cut(s[i - w] * 2^b, LimbBits)
                 | (IF b > 0 /\ i > w THEN s[i - w - 1] \div 2^(LimbBits - b) ELSE 0)]

\* fs_shr_limbs
ShrLimbs(s, n, sh) ==
    LET w == sh \div LimbBits
        b == sh % LimbBits
    IN  [i \in 0 .. n - 1 |->
            IF sh >= n * LimbBits \/ i + w >= n THEN 0
            ELSE (s[i + w] \div 2^b)
                 | (IF b > 0 /\ i + w + 1 < n
                    THEN Cut(s[i + w + 1] * 2^(LimbBits - b), LimbBits) ELSE 0)]

-----------------------------------------------------------------------------
(* Arithmetic. *)

\* fs_add_limbs: carry[i] goes into limb i.
AddLimbs(a, b, n) ==
    LET carry[i \in 0 .. n] ==
            IF i = 0 THEN 0 ELSE (a[i - 1] + b[i - 1] + carry[i - 1]) \div 2^LimbBits
    IN  [i \in 0 .. n - 1 |-> Cut(a[i] + b[i] + carry[i], LimbBits)]

\* fs_sub_limbs
SubLimbs(a, b, n) ==
    LET borrow[i \in 0 .. n] ==
            IF i > 0 /\ a[i - 1] < b[i - 1] + borrow[i - 1] THEN 1 ELSE 0
    IN  [i \in 0 .. n - 1 |-> Cut(a[i] - b[i] - borrow[i], LimbBits)]

\* One row of fs_mul_limbs: a[i] times b, added into tmp from limb i up.
MulRow(tmp, a, b, n, i) ==
    FoldLeft(LAMBDA acc, j :
                LET t == a[i] * b[j] + acc.tmp[i + j] + acc.carry
                IN  [tmp |-> [acc.tmp EXCEPT ![i + j] = Cut(t, LimbBits)],
                     carry |-> t \div 2^LimbBits],
             [tmp |-> tmp, carry |-> 0], Upto(n - i)).tmp

\* fs_mul_limbs
MulLimbs(a, b, n) == FoldLeft(LAMBDA tmp, i : MulRow(tmp, a, b, n, i), Zeros(n), Upto(n))

\* fs_ucmp_limbs
Ucmp(a, b, n) ==
    LET differ == {i \in 0 .. n - 1 : a[i] # b[i]}
    IN  IF differ = {} THEN 0
        ELSE LET i == CHOOSE i \in differ : \A j \in differ : i >= j
             IN  IF a[i] > b[i] THEN 1 ELSE -1

\* fs_mask_limbs
MaskLimbs(d, n, width) ==
    [i \in 0 .. n - 1 |->
        IF i < width \div LimbBits THEN d[i]
        ELSE IF i = width \div LimbBits THEN Cut(d[i], width % LimbBits) ELSE 0]

\* fs_neg_limbs
NegLimbs(a, n) ==
    LET ones == [i \in 0 .. n - 1 |-> 2^LimbBits - 1 - a[i]]
    IN  AddLimbs(ones, [Zeros(n) EXCEPT ![0] = 1], n)

BitOf(w, bit) == (w[bit \div LimbBits] \div 2^(bit % LimbBits)) % 2

\* One step of the long division: a bit of the dividend enters the remainder.
DivStep(acc, u, v, n, bit) ==
    LET one == [Zeros(n) EXCEPT ![0] = BitOf(u, bit)]
        rem == AddLimbs(ShlLimbs(acc.rem, n, 1), one, n)
    IN  IF Ucmp(rem, v, n) >= 0
        THEN [rem |-> SubLimbs(rem, v, n),
              quot |-> SetBits(acc.quot, bit, 1, 1)]
        ELSE [acc EXCEPT !.rem = rem]

\* fs_divrem_limbs
DivRem(a, b, n, width, signed, wantQuot) ==
    LET ua == MaskLimbs(a, n, width)
        ub == MaskLimbs(b, n, width)
        sa == signed /\ BitOf(ua, width - 1) = 1
        sb == signed /\ BitOf(ub, width - 1) = 1
        Magnitude(u, negative) == IF negative THEN MaskLimbs(NegLimbs(u, n), n, width) ELSE u
        u == Magnitude(ua, sa)
        v == Magnitude(ub, sb)
        done == FoldLeft(LAMBDA acc, i : DivStep(acc, u, v, n, width - 1 - i),
                         [rem |-> Zeros(n), quot |-> Zeros(n)], Upto(width))
        result == CASE wantQuot /\ sa # sb -> NegLimbs(done.quot, n)
                    [] wantQuot /\ sa = sb -> done.quot
                    [] ~wantQuot /\ sa -> NegLimbs(done.rem, n)
                    [] OTHER -> done.rem
    IN  IF v = Zeros(n) THEN MaskLimbs([i \in 0 .. n - 1 |-> 2^LimbBits - 1], n, width)
        ELSE MaskLimbs(result, n, width)
=============================================================================
