------------------------------- MODULE Readings -------------------------------
(***************************************************************************)
(* The readings both products take from recognised text, one input after   *)
(* another: a text the live reader parses as a number, a coordinate whose  *)
(* degree sign was lost, the elevations of a sheet, and a sheet of labels  *)
(* and symbols under the cursor.  Nothing is kept between inputs: every    *)
(* property relates what is read to what was written.                      *)
(***************************************************************************)
EXTENDS ValueParsing, CivilReadings

CONSTANTS
  MaxText,    \* characters of a text
  MaxValues,  \* elevations in a band
  MaxLabels,  \* labels on a sheet, each of its own
  MaxCrowd    \* labels on a sheet, all but one alike

ASSUME ReadingsAssumption ==
  {MaxText, MaxValues, MaxLabels, MaxCrowd} \subseteq Nat

VARIABLE input

Blank == [kind |-> "blank"]
Init  == input = Blank

(* The labels of a sheet, and the symbols beside them: at the edges of the cells
   of the index, of the guard and of the cursor's reach. *)
Label(form, number, noted, place) ==
  [form |-> form, number |-> number, noted |-> noted, place |-> place]
Wordings ==
  {Label("decimal", 5000, "nothing", "open"),
   Label("decimal", 5150, "nothing", "open"),
   Label("decimal", 5150, "utility rim", "open"),
   Label("decimal", 9999, "nothing", "open"),
   Label("percent", 200, "nothing", "open"),
   Label("decimal", 5000, "nothing", "excluded")}
LabelAt(x, w) == [at |-> x, form |-> w.form, number |-> w.number, noted |-> w.noted, place |-> w.place]
(* What recognition may leave of a decimal, and a label outside the crop. *)
Doubtful ==
  {Label("four digits", 5146, "nothing", "open"),
   Label("four digits", 8000, "nothing", "open"),
   Label("many digits", 4000, "nothing", "open"),
   Label("digits", 5100, "nothing", "open"),
   Label("spaced", 5146, "nothing", "open"),
   Label("decimal", 5150, "nothing", "outside crop")}
LabelsOf(wordings) == {LabelAt(x, w) : x \in {90, 100, 160}, w \in wordings}
Labels == LabelsOf(Wordings)
SymbolAt(x, kind, leader) == [at |-> x, kind |-> kind, half |-> 10, leader |-> leader]
SymbolSets ==
  {<<>>, <<SymbolAt(85, "oval", FALSE)>>,
   <<SymbolAt(85, "dot", FALSE), SymbolAt(150, "cross", TRUE)>>}
Cursors == {20, 70, 95, 100, 130, 165, 230}

(* Elevations a sheet shows, in stretches of twenty that overlap. *)
Elevations == {4000, 5000, 6000, 6500, 8000}
Plain(numbers) == [k \in DOMAIN numbers |-> LabelAt(90, Label("decimal", numbers[k], "nothing", "open"))]

ReadNumber ==
  \E n \in 0..MaxText : \E text \in [1..n -> Characters], mode \in Modes :
    input' = [kind |-> "number", text |-> text, mode |-> mode]
ReadCoordinate ==
  \E reading \in Spoken : input' = [kind |-> "coordinate", reading |-> reading]
ReadElevations ==
  \E n \in 1..MaxValues : \E numbers \in [1..n -> Elevations] :
    input' = [kind |-> "elevations", sheet |-> [labels |-> Plain(numbers), symbols |-> <<>>]]
ReadSheet ==
  \E n \in 1..MaxLabels : \E labels \in [1..n -> Labels], symbols \in SymbolSets :
    input' = [kind |-> "sheet", sheet |-> [labels |-> labels, symbols |-> symbols]]
(* A place of the sheet where recognition found many labels, and one more. *)
Crowd(n, crowd, label) == [k \in 1..n |-> IF k = n THEN label ELSE crowd]
ReadCrowd ==
  \E n \in 1..MaxCrowd, label \in Labels, crowd \in Labels :
    input' = [kind |-> "sheet", sheet |-> [labels |-> Crowd(n, crowd, label), symbols |-> <<>>]]
(* Three labels, the least band a lost decimal point is judged by, and one it is. *)
ReadDoubtful ==
  \E label \in LabelsOf(Doubtful), crowd \in Labels, symbols \in SymbolSets :
    input' = [kind |-> "sheet", sheet |-> [labels |-> Crowd(4, crowd, label), symbols |-> symbols]]

Next ==
  /\ input = Blank
  /\ ReadNumber \/ ReadCoordinate \/ ReadElevations \/ ReadSheet \/ ReadCrowd \/ ReadDoubtful

Spec == Init /\ [][Next]_input

------------------------------------------------------------------------------
(* A number is read only from a text that holds one word with digits in it,
   and the whole of that word: no digit or sign of it and no separator between digits
   is passed over, and the separator is not open to the other reading. *)
NumberAsWritten ==
  input.kind = "number" =>
    LET t == Strip(input.text)
        digits == {i \in DOMAIN t : t[i] = "digit"}
        read == ParseNumber(input.text, input.mode)
    IN  read.status = "OK" =>
          LET first == CHOOSE i \in digits : \A j \in digits : i <= j
          IN  /\ Cardinality(digits) = read.value.whole + read.value.fraction
              /\ \A i \in first..Len(t), j \in digits : i < j => t[i] \in {"digit"} \cup Separators
              /\ read.value.negative <=> Is(t, first - 1, {"-"})
              /\ ~Is(t, first - 1, Separators \cup {"letter", "odd sign"})
              /\ \A mode \in Modes :
                   (input.mode = "auto" /\ ParseNumber(input.text, mode).status = "OK")
                     => ParseNumber(input.text, mode) = read

(* A coordinate whose degree sign was recognised as a zero is read as what the
   screen showed, or not at all. *)
RecoveredIsTrue ==
  input.kind = "coordinate" =>
    RecoverDegrees(Corrupted(input.reading), input.reading.limit) \in {NoValue, Truth(input.reading)}

(* parsing.py has a degree sign that was dropped entirely caught like one that
   was misread.
   The code does not keep this. *)
DroppedIsTrue ==
  input.kind = "coordinate" =>
    RecoverDegrees(Dropped(input.reading), input.reading.limit) \in {NoValue, Truth(input.reading)}

(* The elevation a missing decimal point is judged by lies among the most
   elevations any stretch of twenty of the sheet has, whatever their order. *)
LocalBandIsDensest ==
  input.kind = "elevations" =>
    LET v == Explicit(input.sheet)
        within(low) == Cardinality({k \in DOMAIN v : v[k] \in low..(low + Band)})
        most == Largest({within(v[k]) : k \in DOMAIN v})
    IN  IF Centre(input.sheet) = NoElevation THEN v = <<>> \/ most < 3
        ELSE \E k \in DOMAIN v : /\ within(v[k]) = most /\ most >= 3
                                 /\ Centre(input.sheet) \in (2 * v[k])..(2 * (v[k] + Band))

(* Whatever is offered for capture anywhere on the sheet, of as many labels as
   a lookup returns: no slope, utility,
   excluded or cropped label is so near the cursor that it may have been meant,
   no other capturable label of the mode is nearer, and no other label gives the
   same symbol another elevation. *)
SnapIsSafe ==
  input.kind = "sheet" =>
    LET evidence == Evidence(input.sheet)
    IN  \A cursor \in Cursors, mode \in TerrainTypes :
          \A e \in Suggest(evidence, cursor, mode, 0) : Capturable(e) =>
            /\ Distance(e.at, cursor) <= Radius
            /\ \A f \in evidence : Distance(f.at, cursor) <= GuardRadius => f.category \notin Guards
            /\ \A f \in evidence :
                 (Capturable(f) /\ f.type = mode /\ Distance(f.at, cursor) <= Radius)
                   => (e.type = mode /\ Distance(e.at, cursor) <= Distance(f.at, cursor))
            /\ \A f \in evidence :
                 (f.symbol = e.symbol /\ e.symbol # 0 /\ f.category \in {"", "competing labels"})
                   => f.elevation = e.elevation

(* DETECTION_RULES.md: strict slope, utility, title-block, crop, and range
   rejections guard nearby clicks.  The first four, on a sheet of any number of
   labels.
   The code does not keep this: behind twelve nearer labels nothing guards. *)
StrictRejectionsGuard ==
  input.kind = "sheet" =>
    LET evidence == Evidence(input.sheet)
    IN  \A cursor \in Cursors, mode \in TerrainTypes :
          \A e \in Suggest(evidence, cursor, mode, 0) : Capturable(e) =>
            \A f \in evidence :
              Distance(f.at, cursor) <= GuardRadius => f.category \notin Guards

(* The same of a rejection for its range.
   The code does not keep this. *)
RangeRejectionGuards ==
  input.kind = "sheet" =>
    LET evidence == Evidence(input.sheet)
    IN  \A cursor \in Cursors, mode \in TerrainTypes :
          \A e \in Suggest(evidence, cursor, mode, 0) : Capturable(e) =>
            \A f \in evidence :
              Distance(f.at, cursor) <= GuardRadius => f.category # "outside plausible range"
==============================================================================
