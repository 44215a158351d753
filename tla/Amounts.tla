------------------------------- MODULE Amounts -------------------------------
(***************************************************************************)
(* An amount of money on its way through the database (models/amount.rs).  *)
(* An Amount is a u128, its column is NUMERIC, and the conversion between  *)
(* the two is written by hand: Postgres keeps a number as digits in base   *)
(* 10000, the most significant first, without zeros at either end, with    *)
(* the weight of the first digit and a display scale.                      *)
(*                                                                         *)
(* The base (10000) and the largest amount (2^128 - 1) are constants here, *)
(* so that the edges of both are within a few thousand amounts.            *)
(***************************************************************************)
EXTENDS Integers, SequencesExt

CONSTANTS Base,        \* 10000
          MAX,         \* Amount::MAX, u128::MAX
          OtherDigits, \* the digits of numbers that SQL writes
          MaxWeight,   \* bound on their weight
          Failed,      \* the conversion is an error
          Unread

Digits == 0 .. Base - 1

ASSUME AmountsAssumption ==
    /\ Base \in Nat /\ Base > 1
    /\ MAX \in Nat /\ MAX >= Base
    /\ OtherDigits \subseteq Seq(Digits)
    /\ MaxWeight \in Nat
    /\ Failed \notin 0 .. MAX /\ Unread \notin 0 .. MAX /\ Failed # Unread

VARIABLES amount,   \* 0 .. MAX, what is written
          column,   \* a Numeric, what the database holds
          source,   \* who put it there
          result    \* 0 .. MAX, Failed or Unread, what is read

amountsVars == <<amount, column, source, result>>

-----------------------------------------------------------------------------
(* u128: None (Failed) on overflow                                         *)

checked_add(a, b) == IF a # Failed /\ a + b <= MAX THEN a + b ELSE Failed
checked_mul(a, b) == IF a # Failed /\ a * b <= MAX THEN a * b ELSE Failed

\* ToBase10000: what is left of v after i digits.
left(v) == LET l[i \in Nat] == IF i = 0 THEN v ELSE l[i - 1] \div Base IN l

\* The digits of v, the least significant first, until nothing is left.
ToBase10000(v) ==
    LET n == CHOOSE n \in 1 .. v + 1 : left(v)[n] = 0 /\ \A k \in 1 .. n - 1 : left(v)[k] # 0
    IN  [i \in 1 .. n |-> left(v)[i - 1] % Base]

NonZero(ds) == {i \in 1 .. Len(ds) : ds[i] # 0}

skip_zeros(ds) == IF NonZero(ds) = {} THEN <<>> ELSE SubSeq(ds, Min(NonZero(ds)), Len(ds))

\* The weight is that of all digits, the trailing zeros of the number are dropped.
u128_to_pg_decimal_Late(v) ==
    LET ds == skip_zeros(ToBase10000(v)) IN
    [sign |-> "Positive", weight |-> Len(ds) - 1, scale |-> 0, digits |-> Reverse(ds)]

u128_to_pg_decimal(v) ==
    LET ds == ToBase10000(v) IN
    [sign |-> "Positive", weight |-> Len(ds) - 1, scale |-> 0, digits |-> Reverse(skip_zeros(ds))]

Power[n \in Nat] == IF n = 0 THEN 1 ELSE Base * Power[n - 1]

\* 10u128.pow is not checked: it wraps in a release build.
pow(n) == Power[n] % (MAX + 1)

\* for digit in digits
FromDigits(ds) ==
    LET acc[k \in 0 .. Len(ds)] ==
            IF k = 0 THEN 0 ELSE checked_add(checked_mul(acc[k - 1], Base), ds[k])
    IN  acc[Len(ds)]

pg_decimal_to_u128(n) ==
    LET correction == n.weight - Len(n.digits) + 1 IN
    IF n.sign # "Positive" \/ n.scale # 0 \/ n.weight < 0 \/ correction < 0
    THEN Failed
    ELSE checked_mul(FromDigits(n.digits), pow(correction))

-----------------------------------------------------------------------------
(* The database                                                            *)

Signs == {"Positive", "Negative", "NaN"}

\* Postgres strips zeros at both ends; zero has no digits and weight 0.
Canonical(n) ==
    LET z == NonZero(n.digits) IN
    IF z = {} THEN [n EXCEPT !.digits = <<>>, !.weight = 0]
    ELSE [n EXCEPT !.digits = SubSeq(n.digits, Min(z), Max(z)),
                   !.weight = n.weight - (Min(z) - 1)]

\* Numbers that something else put there, a sum or a default.
Foreign == {Canonical(n) : n \in [sign : Signs, weight : -1 .. MaxWeight, scale : 0 .. 1,
                                  digits : OtherDigits]}

AmountsInit ==
    /\ amount = 0
    /\ column = u128_to_pg_decimal(0)
    /\ source = "none"
    /\ result = Unread

to_sql(a) ==
    /\ source = "none"
    /\ source' = "amount"
    /\ amount' = a
    /\ column' = Canonical(u128_to_pg_decimal(a))
    /\ UNCHANGED result

put(n) ==
    /\ source = "none"
    /\ source' = "foreign"
    /\ column' = n
    /\ UNCHANGED <<amount, result>>

from_sql ==
    /\ source # "none"
    /\ result' = pg_decimal_to_u128(column)
    /\ UNCHANGED <<amount, column, source>>

AmountsNext ==
    \/ \E a \in 0 .. MAX : to_sql(a)
    \/ \E n \in Foreign : put(n)
    \/ from_sql

AmountsSpec == AmountsInit /\ [][AmountsNext]_amountsVars

-----------------------------------------------------------------------------
(* Properties                                                              *)

AmountsTypeOK ==
    /\ amount \in 0 .. MAX
    /\ column.digits \in Seq(Digits)
    /\ source \in {"none", "amount", "foreign"}
    /\ result \in (0 .. MAX) \cup {Failed, Unread}

\* What the digits of a whole number mean: each counts by its place.
Value(n) ==
    LET sum[k \in 0 .. Len(n.digits)] ==
            IF k = 0 THEN 0 ELSE sum[k - 1] + n.digits[k] * Power[n.weight + 1 - k]
    IN  sum[Len(n.digits)]

\* An amount of any size, zero and Amount::MAX included, is read back from
\* the database as it was written; any other number there is read as what it is
\* or refused, unless the power of ten it needs does not fit.
AmountKept ==
    /\ (source = "amount" /\ result # Unread) => result = amount
    /\ (source = "foreign" /\ result \notin {Unread, Failed}) =>
          /\ column.sign = "Positive" /\ column.scale = 0
          /\ column.weight >= Len(column.digits) - 1
          /\ \/ result = Value(column)
             \/ Power[column.weight - Len(column.digits) + 1] > MAX

=============================================================================
