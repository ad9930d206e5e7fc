----------------------------- MODULE ValueParsing -----------------------------
(***************************************************************************)
(* The numbers and coordinates the live reader takes from recognised text  *)
(* (src/screen2xyz_m2/parsing.py).  A text is a sequence of characters, of *)
(* which only the kind matters to parse_number, and a number what is       *)
(* written before and after its decimal separator.  parse_coordinate gets  *)
(* the digits of a reading whose degree sign was recognised as a zero.     *)
(***************************************************************************)
EXTENDS Integers, Sequences, FiniteSets

CONSTANTS
  NoValue,      \* normalized_value is None
  PrecisionMax  \* precision_max of the field

ASSUME ParsingAssumption == PrecisionMax \in Nat

Characters == {"digit", ".", ",", "letter", "space", "-", "odd sign"}
Separators == {".", ","}
Modes      == {"point", "comma", "auto"}

Is(t, i, kinds) == i \in DOMAIN t /\ t[i] \in kinds
Strip(t) ==
  LET ink == {i \in DOMAIN t : t[i] # "space"}
  IN  IF ink = {} THEN <<>>
      ELSE SubSeq(t, CHOOSE i \in ink : \A j \in ink : i <= j, CHOOSE i \in ink : \A j \in ink : i >= j)

(* _sign_glyph_violation: an odd sign before a digit, or any sign parted from it. *)
SignViolation(t) ==
  \E i, k \in DOMAIN t :
    /\ i < k /\ t[k] = "digit"
    /\ \A j \in (i + 1)..(k - 1) : t[j] = "space"
    /\ t[i] = "odd sign" \/ (t[i] = "-" /\ k > i + 1)

(* _TOKEN_RE.finditer: from the first digit of a run of digits and separators to
   its end, with the sign before it. *)
RunOf(t, i, j) == \A k \in i..j : t[k] \in {"digit"} \cup Separators
Firsts(t) == {i \in DOMAIN t : t[i] = "digit" /\ ~\E j \in 1..(i - 1) : t[j] = "digit" /\ RunOf(t, j, i)}
RunEnd(t, i) == CHOOSE j \in i..Len(t) : RunOf(t, i, j) /\ ~Is(t, j + 1, {"digit"} \cup Separators)
Start(t, i) == IF Is(t, i - 1, {"-"}) THEN i - 1 ELSE i
LastDigit(t, i) == CHOOSE j \in i..RunEnd(t, i) : t[j] = "digit" /\ \A k \in (j + 1)..RunEnd(t, i) : t[k] # "digit"
Token(t, i) == SubSeq(t, i, LastDigit(t, i))

(* _interpret, for a decimal point or a decimal comma: plain digits, or groups
   of three.  What it returns: the digits before and after the separator. *)
Count(t, kind) == Cardinality({i \in DOMAIN t : t[i] = kind})
Value(negative, whole, fraction) == [negative |-> negative, whole |-> whole, fraction |-> fraction]
Interpreted(t, decimal, group) ==
  LET marks == {i \in DOMAIN t : t[i] = decimal}
      whole == IF marks = {} THEN t ELSE SubSeq(t, 1, (CHOOSE i \in marks : \A j \in marks : i <= j) - 1)
      tail  == SubSeq(t, Len(whole) + 2, Len(t))
      Grouped == \A i \in DOMAIN whole :
                   /\ whole[i] = group <=> (Len(whole) - i) % 4 = 3
                   /\ whole[1] = "digit"
  IN  IF /\ Count(tail, "digit") = Len(tail)
         /\ marks # {} => tail # <<>>
         /\ Count(whole, "digit") = Len(whole) \/ Grouped
      THEN Value(FALSE, Count(whole, "digit"), Len(tail)) ELSE NoValue
Interpret(t, mode) ==
  LET point == Interpreted(t, ".", ",")
      comma == Interpreted(t, ",", ".")
  IN  CASE mode = "point" -> point
        [] mode = "comma" -> comma
        [] OTHER -> IF point = NoValue THEN comma
                    ELSE IF comma = NoValue \/ comma = point THEN point ELSE NoValue

(* The tokens parse_number will not read: after a separator nobody can place,
   against a letter, or of no form of the mode. *)
Letters(t, i) == Is(t, Start(t, i) - 1, {"letter"}) \/ Is(t, RunEnd(t, i) + 1, {"letter"})
(* Mutant: the reading starts over behind a leading separator. *)
MalformedReanchored(t, i, mode) == Letters(t, i) \/ Interpret(Token(t, i), mode) = NoValue
Malformed(t, i, mode) ==
  \/ Is(t, Start(t, i) - 1, Separators)
  \/ Letters(t, i)
  \/ Interpret(Token(t, i), mode) = NoValue

Outcome(status, value) == [status |-> status, value |-> value]
ParseNumber(text, mode) ==
  LET t == Strip(text)
      malformed == {i \in Firsts(t) : Malformed(t, i, mode)}
      candidates == Firsts(t) \ malformed
  IN  CASE t = <<>>                   -> Outcome("NO_NUMBER", NoValue)
        [] t # <<>> /\ SignViolation(t) -> Outcome("MALFORMED_NUMBER", NoValue)
        [] OTHER ->
             IF Cardinality(candidates) > 1 THEN Outcome("AMBIGUOUS_MULTIPLE_NUMBERS", NoValue)
             ELSE IF malformed # {} THEN Outcome("MALFORMED_NUMBER", NoValue)
             ELSE IF candidates = {} THEN Outcome("NO_NUMBER", NoValue)
             ELSE LET i == CHOOSE i \in candidates : TRUE
                      v == [Interpret(Token(t, i), mode) EXCEPT !.negative = Start(t, i) < i]
                  IN  IF v.fraction > PrecisionMax THEN Outcome("MALFORMED_NUMBER", NoValue)
                      ELSE Outcome("OK", v)

------------------------------------------------------------------------------
(* A coordinate on screen: degrees, minutes in one or two digits, and the limit
   of its axis; seconds and hemisphere change nothing here. *)
Digits(n) ==
  IF n < 10 THEN <<n>> ELSE IF n < 100 THEN <<n \div 10, n % 10>>
  ELSE <<n \div 100, (n \div 10) % 10, n % 10>>
Number(digits) ==
  LET upTo[k \in 0..Len(digits)] == IF k = 0 THEN 0 ELSE 10 * upTo[k - 1] + digits[k]
  IN  upTo[Len(digits)]
Spoken == {r \in [degrees : 0..180, minutes : 0..59, padded : BOOLEAN, limit : {90, 180}] :
               60 * r.degrees + r.minutes <= 60 * r.limit /\ (r.padded => r.minutes < 10)}
Minutes(r) == IF r.padded /\ r.minutes < 10 THEN <<0, r.minutes>> ELSE Digits(r.minutes)
(* The run of digits OCR gives when the degree sign is a zero, or is lost. *)
Corrupted(r) == Digits(r.degrees) \o <<0>> \o Minutes(r)
Dropped(r)   == Digits(r.degrees) \o Minutes(r)
Truth(r)     == 60 * r.degrees + r.minutes

(* _recover_corrupted_degrees: the zeros that may be the sign, and the value if
   there is one such zero.  Shorter runs are not of this shape. *)
Splits(run, limit) ==
  {i \in 2..(Len(run) - 1) :
     LET minutes == Number(SubSeq(run, i + 1, Len(run)))
     IN  /\ run[i] = 0
         /\ Len(run) - i <= 2
         /\ minutes < 60
         /\ 60 * Number(SubSeq(run, 1, i - 1)) + minutes <= 60 * limit}
SplitValue(run, i) == 60 * Number(SubSeq(run, 1, i - 1)) + Number(SubSeq(run, i + 1, Len(run)))
(* Mutant: the first zero that fits. *)
FirstFit(run, limit) ==
  LET s == Splits(run, limit)
  IN  IF Len(run) < 4 \/ s = {} THEN NoValue ELSE SplitValue(run, CHOOSE i \in s : \A j \in s : i <= j)
RecoverDegrees(run, limit) ==
  LET s == Splits(run, limit)
  IN  IF Len(run) < 4 \/ Cardinality(s) # 1 THEN NoValue ELSE SplitValue(run, CHOOSE i \in s : TRUE)
==============================================================================
