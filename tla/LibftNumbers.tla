---------------------------- MODULE LibftNumbers ----------------------------
(***************************************************************************)
(* Numbers and their texts in libft: itoa, putnbr, atoi, atolf, sqrt and   *)
(* the dumps of print_memory, beside the functions of LibftStrings.  A     *)
(* digit is its value; an int has 2 * (INT_MAX + 1) values and wraps; the  *)
(* doubles of ft_atolf are fractions num / Power[pow], without rounding.   *)
(***************************************************************************)
EXTENDS LibftStrings

CONSTANTS
  BASE,                \* 10
  INT_MAX,             \* 2147483647
  MIN_HEAD, MIN_TAIL,  \* the digits of INT_MIN: 2 and 147483648
  SQRT_MAX,            \* 46340
  MINUS, PLUS, DOT,
  NumberCalls,         \* calls of this module's functions
  ROW2, ROW16,         \* octets on a row of the dumps, 4 and 16
  NEWLINE, BAR         \* what the dumps put between digits

INT_MIN == -INT_MAX - 1
Digits == 0..BASE-1

Power[k \in Nat] == IF k = 0 THEN 1 ELSE BASE * Power[k - 1]

\* (int)n
ToInt(n) == ((n - INT_MIN) % (2 * (INT_MAX + 1))) + INT_MIN
Abs(n) == IF n < 0 THEN -n ELSE n

-----------------------------------------------------------------------------
(* Numbers to texts *)

Quotients(n) ==
  LET quotient[i \in Nat] == IF i = 0 THEN n ELSE quotient[i - 1] \div BASE IN quotient

\* n is divided towards 0 until nothing is left, once at least.
ft_count_integer(n) ==
  CHOOSE i \in 1..Abs(n)+1 :
    Quotients(Abs(n))[i] = 0 /\ \A k \in 1..i-1 : Quotients(Abs(n))[k] # 0

\* The loop: cpt digits, the last one first.
itoa_digits(nb, cpt) == [k \in 1..cpt |-> Quotients(nb)[cpt - k] % BASE]

\* Mutated: negated as an int, not as a long.
ft_itoa_int(n) ==
  IF n < 0 THEN [itoa_digits(Abs(ToInt(-n)) % (INT_MAX + 1), ft_count_integer(n) + 1) EXCEPT ![1] = MINUS]
  ELSE itoa_digits(n, ft_count_integer(n))

\* The sign takes the place of a leading 0.
ft_itoa(n) ==
  IF n < 0 THEN [itoa_digits(-n, ft_count_integer(n) + 1) EXCEPT ![1] = MINUS]
  ELSE itoa_digits(n, ft_count_integer(n))

\* The digits of nb / BASE, then the last one.
putnbr_digits[nb \in 0..INT_MAX] ==
  IF nb >= BASE THEN Append(putnbr_digits[nb \div BASE], nb % BASE) ELSE <<nb>>

\* INT_MIN, which has no opposite, is written in two parts.
ft_putnbr(nb) ==
  IF nb = INT_MIN THEN <<MINUS, MIN_HEAD>> \o putnbr_digits[MIN_TAIL]
  ELSE IF nb < 0 THEN <<MINUS>> \o putnbr_digits[-nb]
  ELSE putnbr_digits[nb]

-----------------------------------------------------------------------------
(* Texts to numbers *)

\* The digits of s from the offset k on.
atoi_digits(s, k) ==
  LET n == Next_in(s, k, (Octets \ Digits) \cup {NUL}) - k
      r[i \in 0..n] == IF i = 0 THEN 0 ELSE BASE * r[i - 1] + At(s, k + i - 1)
  IN r[n]

\* Blanks, one sign, digits; what follows is ignored, and so is all of a text
\* with a letter there.
ft_atoi(s) ==
  LET i == Next_in(s, 0, Letters \cup {NUL})
      r == atoi_digits(s, IF At(s, i) \in {PLUS, MINUS} THEN i + 1 ELSE i)
  IN ToInt(IF At(s, i) = MINUS THEN -r ELSE r)

\* Divided by BASE once per octet.
get_floating_part(s) == [num |-> ft_atoi(s), pow |-> Len(s)]

\* Mutated: the sign of the whole part is left on it.
ft_atolf_signed(s) ==
  LET parts == ft_strsplit(s, DOT)
      frac == get_floating_part(parts[2])
  IN IF At(s, 0) = DOT THEN get_floating_part(Tail(s))
     ELSE IF Len(parts) < 2 THEN [num |-> ft_atoi(s), pow |-> 0]
     ELSE [num |-> frac.num + ft_atoi(parts[1]) * Power[frac.pow], pow |-> frac.pow]

ft_atolf(s) ==
  LET parts == ft_strsplit(s, DOT)
      whole == ft_atoi(parts[1])
      frac == get_floating_part(parts[2])
  IN IF At(s, 0) = DOT THEN get_floating_part(Tail(s))
     ELSE IF Len(parts) < 2 THEN [num |-> ft_atoi(s), pow |-> 0]
     ELSE [num |-> (IF whole < 0 THEN -1 ELSE 1) * (frac.num + Abs(whole) * Power[frac.pow]),
           pow |-> frac.pow]

-----------------------------------------------------------------------------
(* ft_sqrt *)

\* Mutated: the last root is not tried.
ft_sqrt_short(nb) ==
  LET from[i \in 0..SQRT_MAX+1] ==
        IF ToInt(i * i) # nb /\ i < SQRT_MAX THEN IF ToInt(i * i) > nb THEN 0 ELSE from[i + 1]
        ELSE IF i > SQRT_MAX THEN 0 ELSE i
  IN from[0]

\* The square is compared before the bound is: the last one wraps.
ft_sqrt(nb) ==
  LET from[i \in 0..SQRT_MAX+1] ==
        IF ToInt(i * i) # nb /\ i <= SQRT_MAX THEN IF ToInt(i * i) > nb THEN 0 ELSE from[i + 1]
        ELSE IF i > SQRT_MAX THEN 0 ELSE i
  IN from[0]

-----------------------------------------------------------------------------
(* print_memory: what is written, as a sequence of digits and marks *)

\* set_octet tests one bit after the other.
print_octet(p) == [b \in 1..8 |-> (p \div 2^(8 - b)) % 2]

\* After ROW2 octets the loop goes round once without one.
print_memory_binary(octets) ==
  FlattenSeq([k \in 1..Len(octets) |->
    (IF k > 1 /\ (k - 1) % ROW2 = 0 THEN <<NEWLINE>> ELSE <<>>) \o print_octet(octets[k]) \o <<BAR>>])

\* Mutated: the digits as they are computed.
print_octet_hex_reversed(p) == <<p % 16, (p \div 16) % 16>>

\* fill_hex_res with two places: the last digit first.
print_octet_hex(p) == <<(p \div 16) % 16, p % 16>>

\* In place of the first octet of a row, but the first one, goes a newline.
print_memory_hexa(octets) ==
  FlattenSeq([k \in 1..Len(octets) |->
    (IF (k - 1) % ROW16 = 0 /\ k # 1 THEN <<NEWLINE>> ELSE print_octet_hex(octets[k])) \o <<BLANK>>])

\* fill_hex_res divides the octet until nothing is left of it.
Left_by_hexa(octets) ==
  [k \in 1..Len(octets) |-> IF (k - 1) % ROW16 = 0 /\ k # 1 THEN octets[k] ELSE 0]

\* print_memory prints a copy.
print_memory(octets, base) ==
  [text |-> CASE base = 2 -> print_memory_binary(octets)
              [] base = 16 -> print_memory_hexa(octets)
              [] OTHER -> <<>>,
   left |-> octets]

-----------------------------------------------------------------------------
\* The value of digits, the first the heaviest.
ValueOf(digits, base) ==
  LET value[k \in 0..Len(digits)] == IF k = 0 THEN 0 ELSE value[k - 1] * base + digits[k]
  IN value[Len(digits)]

\* The elements of s that are in S, in their order.
Kept(s, S) ==
  LET kept[k \in 0..Len(s)] ==
        IF k = 0 THEN <<>> ELSE IF s[k] \in S THEN Append(kept[k - 1], s[k]) ELSE kept[k - 1]
  IN kept[Len(s)]

\* What is left of a decimal's whole part without its sign.
Magnitude(before) ==
  IF before # <<>> /\ before[1] = MINUS THEN Tail(before) ELSE before

\* INT_MIN is MIN_HEAD followed by MIN_TAIL; the largest square is within the
\* ints, the next one is not.
ASSUME IntAssumption ==
  /\ BASE \in Nat /\ BASE >= 2 /\ INT_MAX \in Nat
  /\ MIN_HEAD \in 1..BASE-1 /\ MIN_TAIL \in 0..INT_MAX
  /\ MIN_HEAD * Power[ft_count_integer(MIN_TAIL)] + MIN_TAIL = INT_MAX + 1
  /\ SQRT_MAX \in Nat
  /\ SQRT_MAX * SQRT_MAX <= INT_MAX /\ (SQRT_MAX + 1) * (SQRT_MAX + 1) > INT_MAX
  /\ Digits \cup {MINUS, PLUS, DOT} \subseteq Letters
  /\ {MINUS, PLUS, DOT} \cap Digits = {} /\ MINUS # PLUS /\ MINUS # DOT

\* No digit is a mark.
ASSUME MarksAssumption == {NEWLINE, BAR, BLANK} \cap 0..15 = {}

\* atoi is given blanks, a sign if any and a number, atolf a decimal whose two
\* parts are ints.
LegalNumberCall(c) ==
  \/ c \in [f : {"itoa", "putnbr", "sqrt"}, nb : INT_MIN..INT_MAX]
  \/ /\ c \in [f : {"atoi"}, nb : INT_MIN..INT_MAX, before : Seq(Octets), after : Seq(Octets)]
     /\ \A k \in 1..Len(c.before) :
          c.before[k] = BLANK \/ (c.before[k] = PLUS /\ k = Len(c.before) /\ c.nb >= 0)
     /\ c.after # <<>> => c.after[1] \notin Digits
  \/ /\ c \in [f : {"atolf"}, before : Seq(Digits \cup {MINUS}), after : Seq(Digits)]
     /\ Magnitude(c.before) \in Seq(Digits)
     /\ ValueOf(Magnitude(c.before), BASE) <= INT_MAX /\ ValueOf(c.after, BASE) <= INT_MAX
  \/ c \in [f : {"print_memory"}, base : {2, 8, 16}, octets : Seq(0..255)]
  \/ c \in [f : {"print_memory_hexa"}, octets : Seq(0..255)]
ASSUME NumberCallsAssumption == \A c \in NumberCalls : LegalNumberCall(c)

itoa == Returns("itoa", ft_itoa(call.nb))
putnbr == Returns("putnbr", ft_putnbr(call.nb))
atoi == Returns("atoi", ft_atoi(call.before \o ft_itoa(call.nb) \o call.after))
atolf == Returns("atolf", ft_atolf(call.before \o <<DOT>> \o call.after))
sqrt == Returns("sqrt", ft_sqrt(call.nb))
memory == Returns("print_memory", print_memory(call.octets, call.base))
hexa == Returns("print_memory_hexa",
  [text |-> print_memory_hexa(call.octets), left |-> Left_by_hexa(call.octets)])

NumbersInit == call \in Calls \cup NumberCalls /\ out = NONE
NumbersNext == Next \/ itoa \/ putnbr \/ atoi \/ atolf \/ sqrt \/ memory \/ hexa
NumbersSpec == NumbersInit /\ [][NumbersNext]_vars

-----------------------------------------------------------------------------
(* Properties *)

\* itoa and putnbr write the shortest text, INT_MIN's too.
ShortestText ==
  LET digits == IF call.nb < 0 THEN Tail(out) ELSE out
  IN /\ call.nb < 0 => out[1] = MINUS
     /\ \A k \in 1..Len(digits) : digits[k] \in Digits
     /\ ValueOf(digits, BASE) = Abs(call.nb)
     /\ Len(digits) > 1 => digits[1] # 0

\* atolf reads the whole part and the fraction with one sign for both.
DecimalRead ==
  out.num * Power[Len(call.after)] =
    (IF call.before # <<>> /\ call.before[1] = MINUS THEN -1 ELSE 1)
      * ValueOf(Magnitude(call.before) \o call.after, BASE) * Power[out.pow]

\* A number written by itoa or putnbr is read back by atoi, with blanks before
\* it and other octets after it, and atolf reads decimals: not the ones with a
\* whole part of -0, whose sign is lost.
NumbersReadBack ==
  /\ Returned("itoa") \/ Returned("putnbr") => ShortestText
  /\ Returned("atoi") => out = call.nb
  /\ Returned("atolf") /\ ~(ft_atoi(call.before) = 0 /\ MINUS \in Range(call.before)) => DecimalRead

\* sqrt gives the root of a square and 0 of every other int, although the
\* square it compares last does not fit.
SqrtExact ==
  Returned("sqrt") =>
    IF \E k \in 0..SQRT_MAX : k * k = call.nb THEN out * out = call.nb /\ out >= 0 ELSE out = 0

\* The digits of a dump, read back, are the octets in their order; a hexadecimal
\* dump leaves out the first octet of every row but the first.  print_memory
\* leaves the memory as it was, print_memory_hexa only what it did not print.
DumpsReadBack ==
  Returned("print_memory") \/ Returned("print_memory_hexa") =>
    LET base == IF call.f = "print_memory" THEN call.base ELSE 16
        width == IF base = 2 THEN 8 ELSE 2
        digits == Kept(out.text, 0..15)
        shown == [k \in 1..Len(digits) \div width |->
                    ValueOf(SubSeq(digits, (k - 1) * width + 1, k * width), base)]
        heads == {k \in 1..Len(call.octets) : k # 1 /\ (k - 1) % ROW16 = 0}
        all == Kept([k \in 1..Len(call.octets) |-> k],
                    {k \in 1..Len(call.octets) : base = 2 \/ k \notin heads})
    IN /\ base \in {2, 16} => shown = [k \in 1..Len(all) |-> call.octets[all[k]]]
       /\ call.f = "print_memory" => out.left = call.octets
       /\ \A k \in 1..Len(call.octets) : k \in heads => out.left[k] = call.octets[k]
=============================================================================
