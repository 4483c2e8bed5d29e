------------------------------- MODULE Values -------------------------------
(***************************************************************************)
(* client.Value: the text a typed value is sent as, and what the decoders  *)
(* make of a device's text.  Of strconv (external) it has what the         *)
(* repository's calls can tell apart.                                      *)
(***************************************************************************)
EXTENDS Integers, GoText

CONSTANT IntBits   \* width of an int: 64 in the code

ASSUME IntBitsAssumption == IntBits \in Nat \ {0}

Ints == -(2^(IntBits - 1)) .. 2^(IntBits - 1) - 1

DigitValue(r) ==
  CASE r \in Digits -> r - 48
    [] r \in Lowers -> r - 97 + 10
    [] r \in Uppers -> r - 65 + 10
    [] OTHER        -> 99

\* The number a sequence of digits stands for.
NumberOf(digits, base) ==
  LET upto[i \in 0..Len(digits)] ==
        IF i = 0 THEN 0 ELSE upto[i - 1] * base + DigitValue(digits[i])
  IN  upto[Len(digits)]

\* Base 0 of strconv: underscores may separate digits, and do not count.
Separated(s) ==
  \A i \in DOMAIN s : s[i] = Underscore => 1 < i /\ i < Len(s) /\ s[i + 1] # Underscore
Unseparated(s) == Kept(s, {i \in DOMAIN s : s[i] # Underscore})

\* The base a text announces, and the digits after it.
Announced(s) ==
  LET mark == IF Len(s) >= 3 THEN ToLower(s[2]) ELSE 0
      from(k, base) == [base |-> base, digits |-> Unseparated(SubSeq(s, k, Len(s)))]
  IN  CASE s[1] # 48                  -> from(1, 10)
        [] s[1] = 48 /\ mark = 98     -> from(3, 2)
        [] s[1] = 48 /\ mark = 111    -> from(3, 8)
        [] s[1] = 48 /\ mark = 120    -> from(3, 16)
        [] OTHER                      -> from(2, 8)

\* strconv.ParseInt: the number, or nothing.  Base 0 is what the text announces.
ParseInt(s, base) ==
  LET signed   == s # <<>> /\ s[1] \in {43, 45}
      rest     == IF signed THEN Tail(s) ELSE s
      num      == IF base = 0 THEN Announced(rest) ELSE [base |-> base, digits |-> rest]
      readable == /\ rest # <<>>
                  /\ base = 0 => Separated(rest)
                  /\ \A i \in DOMAIN num.digits : DigitValue(num.digits[i]) < num.base
      n        == NumberOf(num.digits, num.base)
      v        == IF signed /\ s[1] = 45 THEN -n ELSE n
  IN  IF ~readable THEN <<>> ELSE IF v \in Ints THEN <<v>> ELSE <<>>

\* strconv.FormatInt in base 10.
FormatInt(v) == IF v < 0 THEN <<45>> \o Itoa[-v] ELSE Itoa[v]

TrueText   == <<116, 114, 117, 101>>
FalseText  == <<102, 97, 108, 115, 101>>
\* 1, t, T, true, True, TRUE and their opposites: strconv.ParseBool.
TrueTexts  == {<<49>>, <<116>>, <<84>>, TrueText, <<84>> \o Tail(TrueText),
               [i \in 1..4 |-> ToUpper(TrueText[i])]}
FalseTexts == {<<48>>, <<102>>, <<70>>, FalseText, <<70>> \o Tail(FalseText),
               [i \in 1..5 |-> ToUpper(FalseText[i])]}

\* The constructors Int and Bool.
IntValue(v)  == [format |-> "int",  data |-> FormatInt(v)]
BoolValue(b) == [format |-> "bool", data |-> IF b THEN TrueText ELSE FalseText]

\* The decoders Int, Bool and Str: the value, or nothing for an error.
DecodeIntAnyBase(v) == ParseInt(v.data, 0)
DecodeInt(v)  == ParseInt(v.data, 10)
DecodeBool(v) == CASE v.data \in TrueTexts  -> <<TRUE>>
                   [] v.data \in FalseTexts -> <<FALSE>>
                   [] OTHER                 -> <<>>
Str(v)        == v.data

=============================================================================
