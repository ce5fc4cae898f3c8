----------------------------- MODULE LogStream -----------------------------
(***************************************************************************)
(* LogStream (src/src/log/LogStream.cpp, src/include/hohnor/log/           *)
(* LogStream.h): how numbers become characters, and how much of a message  *)
(* the fixed buffer takes.  A character is the value of its digit, or      *)
(* Minus; what the other operands write is a length.                       *)
(***************************************************************************)
EXTENDS Integers, Sequences, FiniteSetsExt

CONSTANTS
  SIZE,             \* of the buffer, 4000 in the code
  kMaxNumericSize,  \* 48 in the code
  Width             \* bits of the integers, 64 in the code

\* A place for every three bits, the sign or 0x, and the final 0; what
\* staticCheck() asserts allows for more.
ASSUME LogStreamAssumption ==
  /\ SIZE \in Nat \ {0}
  /\ kMaxNumericSize \in Nat
  /\ Width \in Nat \ {0}
  /\ Width <= 3 * (kMaxNumericSize - 3)

Minus == -1

MinValue == -(2^(Width - 1))
MaxValue == 2^Width - 1

\* % and / of C++ truncate towards zero.
Quotient(i, n) == IF i >= 0 THEN i \div n ELSE -((-i) \div n)
Remainder(i, n) == i - n * Quotient(i, n)

Magnitude(i) == IF i < 0 THEN -i ELSE i

\* The digits of i; the table the code looks them up in has a digit for every
\* remainder from -9 to 9.
Digits(i, base) ==
  LET d[n \in Int] ==
        LET last == <<Magnitude(Remainder(n, base))>>
        IN IF Quotient(n, base) = 0 THEN last
           ELSE d[Quotient(n, base)] \o last
  IN d[i]

\* Mutant: a negative number is made positive first.
ConvertPositive(value) ==
  LET least == value = MinValue
      i == IF value < 0 /\ ~least THEN -value ELSE value
  IN (IF value < 0 THEN <<Minus>> ELSE <<>>)
       \o (IF least THEN <<>> ELSE Digits(i, 10))

convert(value) ==
  (IF value < 0 THEN <<Minus>> ELSE <<>>) \o Digits(value, 10)

convertHex(value) == Digits(value, 16)

-----------------------------------------------------------------------------
(* formatSI() and formatIEC().  A quantity is count / base of its unit, or   *)
(* one less than that of the smallest: base is 1000 or 1024, and unit tells  *)
(* k, M, G, T, P and E, or Ki to Ei, from 1 to 6.                            *)

\* As a double the quantity is what it would be without the one.
Merges(x) == x.unit = 6 \/ (x.unit = 5 /\ x.count >= 9008)

\* The double nearest to n / 1000 is above it: the sign of what its last bit
\* is rounded by.
DoubleIsAbove(n) ==
  LET exponent == Max({e \in 0..10 : 2^e * 1000 <= n})
      power[e \in 0..52] == IF e = 0 THEN 1 ELSE (2 * power[e - 1]) % 1000
  IN (n % 1000) * power[52 - exponent] % 1000 > 500

\* printf() of number / step: to the nearest, by the double if number is in the
\* middle, and to the even one if the double is in the middle as well.
Rounded(number, step, below, above, exact) ==
  LET down == number \div step
      twice == 2 * (number % step)
  IN IF \/ twice < step
        \/ twice = step /\ (below \/ (IF exact THEN down % 2 = 0 ELSE ~above))
       THEN down ELSE down + 1

Below(x, bound) == x.count < bound \/ (x.count = bound /\ x.below)

\* Characters of the decimal text of number / places, where places is 10 to the
\* number of decimals: the point and the decimals are as many as its digits.
Characters(number, places) ==
  Len(Digits(number \div places, 10))
    + (IF places = 1 THEN 0 ELSE Len(Digits(places, 10)))

\* What formatSI() prints: a number without its point, and its places.
formatSI(x) ==
  LET places == IF x.unit = 6 \/ Below(x, 9995) THEN 100
                ELSE IF Below(x, 99950) THEN 10 ELSE 1
  IN <<Rounded(x.count, 1000 \div places, x.below /\ ~Merges(x),
               DoubleIsAbove(x.count), x.count % 125 = 0), places>>

\* Mutant: the bounds do not allow for what is rounded up.
IECWithoutRounding(x) ==
  LET places == IF Below(x, 10 * 1024) THEN 100
                ELSE IF Below(x, 100 * 1024) THEN 10 ELSE 1
  IN <<Rounded(x.count * places, 1024, x.below, FALSE, TRUE), places>>

formatIEC(x) ==
  LET places == IF Below(x, 10234) THEN 100
                ELSE IF x.unit = 6 \/ Below(x, 102348) THEN 10 ELSE 1
  IN <<Rounded(x.count * places, 1024, x.below, FALSE, TRUE), places>>

-----------------------------------------------------------------------------
VARIABLES
  length,  \* cur_ - data_
  printed  \* the last integer, or the size of the last quantity

streamVars == <<length, printed>>

StreamInit == length = 0 /\ printed = [value |-> 0, base |-> 10, text |-> <<0>>]

avail == SIZE - length

\* FixedBuffer::append(): the text of a bool, a character, a string or a Fmt.
appendText(len) ==
  /\ length' = IF avail > len THEN length + len ELSE length
  /\ UNCHANGED printed

\* The text of formatSI() or formatIEC() is a string.
PutQuantity(base, x) ==
  LET text == IF base = 1000 THEN formatSI(x) ELSE formatIEC(x)
      characters == Characters(text[1], text[2]) + (IF base = 1000 THEN 1 ELSE 2)
  IN /\ printed' = [base |-> base, characters |-> characters]
     /\ length' = IF avail > characters THEN length + characters ELSE length

\* formatInteger(), and the operators for pointers and doubles: they write in
\* place and add what they have written.
PutInPlace(len) ==
  length' = IF avail >= kMaxNumericSize THEN length + len ELSE length

PutInteger(value) ==
  /\ printed' = [value |-> value, base |-> 10, text |-> convert(value)]
  /\ PutInPlace(Len(printed'.text))

PutPointer(value) ==
  /\ printed' = [value |-> value, base |-> 16, text |-> convertHex(value)]
  /\ PutInPlace(Len(printed'.text) + 2)

\* snprintf() of at most kMaxNumericSize characters, the final 0 included.
PutDouble(len) == PutInPlace(len) /\ UNCHANGED printed

ResetBuffer == length' = 0 /\ UNCHANGED printed

\* Quantities around the bounds, where the text gets one more digit.
Quantities(base) ==
  LET bounds == {base + 5, (9995 * base) \div 1000, (9995 * base) \div 100,
                 base * base - (base \div 2)}
      counts == UNION {(bound - 5)..(bound + 5) : bound \in bounds}
  IN {x \in [unit : 1..6, count : counts, below : BOOLEAN] :
        IF x.unit = 6 THEN x.count < 9 * base
        ELSE Below(x, base * base - (base \div 2))}

StreamNext ==
  \/ \E len \in 0..SIZE : appendText(len)
  \/ \E value \in MinValue..MaxValue : PutInteger(value)
  \/ \E value \in 0..MaxValue : PutPointer(value)
  \/ \E len \in 1..(kMaxNumericSize - 1) : PutDouble(len)
  \/ \E base \in {1000, 1024} : \E x \in Quantities(base) : PutQuantity(base, x)
  \/ ResetBuffer

-----------------------------------------------------------------------------
\* The value of digits and of characters, in the usual way.
ValueOf(digits, base) ==
  LET value[n \in 0..Len(digits)] ==
        IF n = 0 THEN 0 ELSE base * value[n - 1] + digits[n]
  IN value[Len(digits)]

ReadBack(text, base) ==
  IF text[1] = Minus THEN -ValueOf(Tail(text), base) ELSE ValueOf(text, base)

\* However much is written, the 0 behind the text is in the buffer; a number of
\* either sign reads back as itself, the least one too, without leading zeros
\* (LogStream.h:37, LogStream.cpp:43-58, 113); and the text of formatIEC() is "at
\* most 6 characters long" (LogStream.h:231), for every quantity about to gain a
\* digit by rounding.
NumbersReadBack ==
  /\ length < SIZE
  /\ printed.base \in {10, 16} =>
       /\ printed.text # <<>>
       /\ ReadBack(printed.text, printed.base) = printed.value
       /\ Len(printed.text) > 1 => printed.text[1] # 0
  /\ printed.base = 1024 => printed.characters <= 6

\* "The returned string is atmost 5 characters long." (LogStream.h:226)
FiveCharacters == printed.base = 1000 => printed.characters <= 5
=============================================================================
