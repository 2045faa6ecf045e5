-------------------------------- MODULE Common --------------------------------
(***************************************************************************)
(* Text as the program takes it apart (src/shared/Common.h, and the parts  *)
(* of the standard library it relies on).  A text is a sequence of tokens: *)
(* a separator, a blank, a digit, or a word that nothing looks into.       *)
(***************************************************************************)
EXTENDS Integers, Sequences, FiniteSets
LOCAL INSTANCE SequencesExt
LOCAL INSTANCE FiniteSetsExt

CONSTANT NaN   \* the double that is no number

\* It is none of the numbers, as std::isnan tells them apart.
ASSUME NaNAssumption == NaN \notin Int

\* The characters that the program tells from others.
Space   == " "
Newline == "\n"
Comma   == ","
Minus   == "-"
Dot     == "."

Blanks == {Space, Newline}

\* The digits by their values.
DigitTexts == <<"0", "1", "2", "3", "4", "5", "6", "7", "8", "9">>
Digit(n) == DigitTexts[n + 1]
Digits == {Digit(n) : n \in 0..9}

\* The text after its first n tokens.
Rest(text, n) == SubSeq(text, n + 1, Len(text))

\* The first position after n that holds one of these tokens, or 0 (npos).
FindOneOf(text, tokens, n) == SelectInSubSeq(text, n + 1, Len(text), LAMBDA x : x \in tokens)

Trim(text) ==
  LET kept == {i \in DOMAIN text : text[i] \notin Blanks}
  IN  IF kept = {} THEN <<>> ELSE SubSeq(text, Min(kept), Max(kept))

\* What std::getline takes from the text one after the other: the fields that
\* end with the delimiter, and a last one that ends with the text unless it is
\* empty.
FieldEnds(text, delimiter) ==
  {i \in DOMAIN text : text[i] = delimiter}
    \cup (IF text # <<>> /\ Last(text) # delimiter THEN {Len(text) + 1} ELSE {})

Split(text, delimiter) ==
  LET ends   == FieldEnds(text, delimiter)
      End(k) == CHOOSE e \in ends : Cardinality({i \in ends : i <= e}) = k
  IN  [k \in 1..Cardinality(ends) |->
         SubSeq(text, IF k = 1 THEN 1 ELSE End(k - 1) + 1, End(k) - 1)]

-----------------------------------------------------------------------------
(* Numbers.  A quantity is an integer in hundredths.                        *)

DigitValue(digit) == CHOOSE n \in 0..9 : Digit(n) = digit

LeadingDigits(text) ==
  LET end == FindOneOf(text, {x \in ToSet(text) : x \notin Digits}, 0)
  IN  IF end = 0 THEN text ELSE SubSeq(text, 1, end - 1)

\* The number some digits stand for.
ValueOf(digits) == FoldLeft(LAMBDA n, digit : 10 * n + DigitValue(digit), 0, digits)

\* The digits of a number.
DigitsOf[n \in Nat] ==
  IF n < 10 THEN <<Digit(n)>> ELSE Append(DigitsOf[n \div 10], Digit(n % 10))

Negative(text) == text # <<>> /\ text[1] = Minus
Unsigned(text) == IF Negative(text) THEN Tail(text) ELSE text
Signed(text, n) == IF Negative(text) THEN -n ELSE n

\* std::stod and std::stoi of a text without leading blanks: the number at its
\* beginning, whatever follows, or none (they throw).
Stod(text) ==
  LET body     == Unsigned(text)
      whole    == LeadingDigits(body)
      rest     == Rest(body, Len(whole))
      fraction == IF rest # <<>> /\ rest[1] = Dot THEN LeadingDigits(Tail(rest)) ELSE <<>>
      cents    == SubSeq(fraction \o <<"0", "0">>, 1, 2)
  IN  IF body # <<>> /\ body[1] = "nan" THEN {NaN}
      ELSE IF whole \o fraction = <<>> THEN {}
      ELSE {Signed(text, ValueOf(whole \o cents))}

Stoi(text) ==
  LET digits == LeadingDigits(Unsigned(text))
  IN  IF digits = <<>> THEN {} ELSE {Signed(text, ValueOf(digits))}
=============================================================================
