----------------------------- MODULE NumberText -----------------------------
(***************************************************************************)
(* to_string and parse of Int32 and UInt32, turn by turn of their loops,   *)
(* with integers of any width. A text that to_string has made is parsed    *)
(* again; other texts are parsed as they come. A character is the digit it *)
(* stands for, Minus, or Other.                                            *)
(***************************************************************************)
EXTENDS Integers, Sequences

CONSTANTS
  Bits,     \* width of an integer, 32 in the code
  Digits,   \* UInt32::kMaxStringLength, 10 in the code; Int32's is one more
  MaxText   \* bound: characters of a text that comes from outside

\* b to the power n.
Power(b, n) ==
  LET power[k \in 0 .. n] == IF k = 0 THEN 1 ELSE b * power[k - 1] IN power[n]

\* How many values an integer has.
Values == Power(2, Bits)

ASSUME NumberAssumption ==
  /\ {Bits, Digits} \subseteq Nat \ {0} /\ MaxText \in Nat
  /\ Values <= Power(10, Digits)

VARIABLES
  kind,   \* "Int32" or "UInt32"
  made,   \* the text is made by to_string
  input,  \* the number it is made of
  value,  \* what is left of it
  buf,    \* its digits, the last one first
  text,
  p,      \* characters parsed
  r,      \* the result so far
  step    \* "idle", "digits", "fit", "parse", and the ends "ok", "kEFormat",
          \* "kEArgument" and "undefined" (signed overflow)

textVars == <<kind, made, input, value, buf, text, p, r, step>>

Minus == 10
Other == 11
Chars == 0 .. Other

MinInt == -Power(2, Bits - 1)
MaxInt == Power(2, Bits - 1) - 1
Numbers(k) == IF k = "Int32" THEN MinInt .. MaxInt ELSE 0 .. Values - 1
kMaxStringLength == IF kind = "Int32" THEN Digits + 1 ELSE Digits

NoCall ==
  /\ kind = "UInt32" /\ made = FALSE /\ input = 0 /\ value = 0
  /\ buf = <<>> /\ text = <<>> /\ p = 0 /\ r = 0
  /\ step = "idle"

\* to_string is called with a number, or parse with a text.
Call ==
  /\ step = "idle"
  /\ kind' \in {"Int32", "UInt32"}
  /\ \/ /\ made' = TRUE
        /\ input' \in Numbers(kind')
        /\ value' = IF input' < 0 THEN -input' ELSE input'
        /\ step' = IF value' \in Numbers(kind') THEN "digits" ELSE "undefined"
        /\ UNCHANGED text
     \/ /\ step' = "parse"
        /\ text' \in UNION {[1 .. n -> Chars] : n \in 0 .. MaxText}
        /\ UNCHANGED <<made, input, value>>
  /\ UNCHANGED <<buf, p, r>>

\* The results have been used.
Used ==
  /\ step \in {"ok", "kEFormat", "kEArgument", "undefined"}
  /\ kind' = "UInt32" /\ made' = FALSE /\ input' = 0 /\ value' = 0
  /\ buf' = <<>> /\ text' = <<>> /\ p' = 0 /\ r' = 0
  /\ step' = "idle"

-----------------------------------------------------------------------------
(* to_string *)

\* Defect: the loop is entered only for a value that is not 0.
DigitWhile ==
  /\ step = "digits"
  /\ IF value # 0
     THEN buf' = Append(buf, value % 10) /\ value' = value \div 10 /\ UNCHANGED step
     ELSE step' = "fit" /\ UNCHANGED <<buf, value>>
  /\ UNCHANGED <<kind, made, input, text, p, r>>

\* One turn of do ... while(value != 0).
Digit ==
  /\ step = "digits"
  /\ buf' = Append(buf, value % 10)
  /\ value' = value \div 10
  /\ step' = IF value' = 0 THEN "fit" ELSE "digits"
  /\ UNCHANGED <<kind, made, input, text, p, r>>

\* The digits are stored last one first.
Reversed(digits) == [i \in 1 .. Len(digits) |-> digits[Len(digits) + 1 - i]]

\* The length is checked, then the sign is added and the digits copied.
Fit ==
  /\ step = "fit"
  /\ IF Len(buf) > kMaxStringLength
     THEN step' = "kEArgument" /\ UNCHANGED text
     ELSE /\ step' = "parse"
          /\ text' = Reversed(IF input < 0 THEN Append(buf, Minus) ELSE buf)
  /\ UNCHANGED <<kind, made, input, value, buf, p, r>>

-----------------------------------------------------------------------------
(* parse *)

Empty ==
  /\ step = "parse"
  /\ text = <<>>
  /\ step' = "kEFormat"
  /\ UNCHANGED <<kind, made, input, value, buf, text, p, r>>

\* Defect: the lower end of the digits is off, so that '-' passes for one.
NoDigitLate(ch) == ch > Minus
NoDigit(ch) == ch \in {Minus, Other}

\* One turn of the loop, which looks at a leading '-' too.
ParseChar ==
  /\ step = "parse"
  /\ p < Len(text)
  /\ LET ch == text[p + 1] IN
     \/ /\ NoDigit(ch)
        /\ step' = "kEFormat"
        /\ UNCHANGED <<p, r>>
     \/ /\ ~NoDigit(ch)
        /\ p' = p + 1
        /\ IF kind = "UInt32"
           THEN r' = (r * 10 + ch) % Values /\ UNCHANGED step
           ELSE /\ r' = r * 10 + ch
                /\ step' = IF r' > MaxInt THEN "undefined" ELSE step
  /\ UNCHANGED <<kind, made, input, value, buf, text>>

ParseEnd ==
  /\ step = "parse"
  /\ text # <<>>
  /\ p = Len(text)
  /\ step' = "ok"
  /\ UNCHANGED <<kind, made, input, value, buf, text, p, r>>

TextNext == Call \/ Digit \/ Fit \/ Empty \/ ParseChar \/ ParseEnd \/ Used

TextSpec == NoCall /\ [][TextNext]_textVars

-----------------------------------------------------------------------------
(* Properties. *)

\* The sums of the first n elements of a, for each n.
SumTo(a) == LET sum[n \in 0 .. Len(a)] == IF n = 0 THEN 0 ELSE sum[n - 1] + a[n] IN sum
\* The number that digits stand for: what each of them is worth at its place,
\* added up.
Worth(t) == [i \in 1 .. Len(t) |-> t[i] * Power(10, Len(t) - i)]
NumberTo(t) == SumTo(Worth(t))
Number(t) == NumberTo(t)[Len(t)]

\* The text of a number: no digit too many and none missing at the ends of the
\* range, no overrun of the caller's buffer, no refusal. parse reads it back,
\* except negative numbers, which it refuses because its loop begins at the
\* sign, and the smallest one, which to_string cannot negate.
TextRight ==
  /\ step # "kEArgument"
  /\ made /\ step = "ok" => r = input
  /\ made /\ step = "kEFormat" => input < 0
  /\ made /\ step = "undefined" => input = MinInt
  /\ made /\ step \in {"parse", "ok"} =>
       LET digits == IF input < 0 THEN Tail(text) ELSE text IN
       /\ text # <<>> /\ Len(text) <= kMaxStringLength
       /\ input < 0 <=> Head(text) = Minus
       /\ Number(digits) = IF input < 0 THEN -input ELSE input
       /\ input # 0 => Head(digits) # 0

\* What parse accepts is a row of digits, and it gives the number they stand
\* for; a number too large for an unsigned integer is not refused, it wraps.
ParseRight ==
  /\ step = "ok" => /\ text # <<>> /\ \A i \in 1 .. Len(text) : text[i] <= 9
                  /\ r = Number(text) % Values
  /\ step = "kEFormat" => text = <<>> \/ \E i \in 1 .. Len(text) : text[i] > 9

-----------------------------------------------------------------------------
(* The inductive invariant, from which the proofs derive the properties. *)

TextTypes ==
  /\ kind \in {"Int32", "UInt32"} /\ made \in BOOLEAN
  /\ input \in Int /\ value \in Nat /\ buf \in Seq(0 .. 9)
  /\ text \in Seq(Chars) /\ p \in 0 .. Len(text) /\ r \in Nat
  /\ step \in {"idle", "digits", "fit", "parse", "ok", "kEFormat", "undefined"}
  /\ step = "idle" => made = FALSE /\ buf = <<>>
  /\ step \in {"idle", "digits", "fit"} => text = <<>> /\ p = 0 /\ r = 0
  /\ step = "ok" => p = Len(text) /\ text # <<>>

\* The number without its sign, which can be negated.
Amount == IF input < 0 THEN -input ELSE input

\* What is left of the number and the digits made so far make it up.
DigitsInv ==
  step = "digits" =>
    /\ {input, Amount} \subseteq Numbers(kind)
    /\ value * Power(10, Len(buf)) + Number(Reversed(buf)) = Amount
    /\ buf # <<>> => value # 0

\* The digits are all made: the first one is not 0 and they fit.
Complete ==
  /\ {input, Amount} \subseteq Numbers(kind)
  /\ Number(Reversed(buf)) = Amount
  /\ buf # <<>> /\ Len(buf) <= Digits
  /\ Amount # 0 => buf[Len(buf)] # 0

MadeInv ==
  /\ step = "fit" => Complete
  /\ made = TRUE /\ step \in {"parse", "ok"} =>
       Complete /\ text = Reversed(IF input < 0 THEN Append(buf, Minus) ELSE buf)

\* The first p characters are digits, worth u at the place the last of them has.
ReadInv ==
  step \in {"parse", "ok"} =>
    /\ \A j \in 1 .. p : text[j] <= 9
    /\ \E u \in 0 .. Number(text) :
         /\ u * Power(10, Len(text) - p) = NumberTo(text)[p]
         /\ kind = "UInt32" => r = u % Values
         /\ kind = "Int32" => r = u /\ u <= MaxInt

EndInv ==
  /\ step = "kEFormat" =>
       /\ text = <<>> \/ \E j \in 1 .. Len(text) : text[j] > 9
       /\ made = TRUE => input < 0
  /\ step = "undefined" /\ made = TRUE => input = MinInt

TextInv == TextTypes /\ DigitsInv /\ MadeInv /\ ReadInv /\ EndInv
=============================================================================
