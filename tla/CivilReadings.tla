---------------------------- MODULE CivilReadings ----------------------------
(***************************************************************************)
(* What the digitizer makes of the labels found on a plan sheet: which of  *)
(* them are elevations, what kind of terrain point each proposes, and      *)
(* which one the cursor is offered (src/screen2xyz_civil/detection.py and  *)
(* assisted_capture.py).  Positions are pixels on a row of the sheet,      *)
(* elevations hundredths; a label is where it stands, what its text is     *)
(* written like, its number, and what is noted beside it.                  *)
(***************************************************************************)
EXTENDS Integers, Sequences, FiniteSets

CONSTANTS
  NoElevation,   \* normalized is None
  PlausibleMin,  \* plausible_elevation_min
  PlausibleMax   \* plausible_elevation_max

ASSUME ElevationAssumption ==
  NoElevation \notin Int /\ {PlausibleMin, PlausibleMax} \subseteq Int

Plausible == PlausibleMin..PlausibleMax

TerrainTypes == {"existing", "design", "contour"}
StrictTypes  == {"slope", "utility invert", "utility rim", "slab", "metadata"}
Guards       == StrictTypes \cup {"exclusion zone", "outside crop"}

(* A label's text: a decimal, four digits, fewer, more, a number with spaces in
   it, a percentage, or no number at all. *)
Forms == {"decimal", "four digits", "digits", "many digits", "spaced", "percent", "words"}
Distance(a, b) == IF a > b THEN a - b ELSE b - a
Largest(S) == CHOOSE n \in S : \A m \in S : m <= n
(* A set in the order given; SetToSortSeq would try all the orders of it. *)
Ranked(S, Before(_, _)) ==
  [k \in 1..Cardinality(S) |-> CHOOSE x \in S : Cardinality({y \in S : Before(y, x)}) = k - 1]

(* _dominant_explicit_decimal_center: the two-pointer scan over the plausible
   decimals in order, and twice the median of the fullest window. *)
Band == 2000
Explicit(sheet) ==
  LET worth(i) == sheet.labels[i].number
      decimals == {i \in DOMAIN sheet.labels : sheet.labels[i].form = "decimal" /\ worth(i) \in Plausible}
      order == Ranked(decimals, LAMBDA i, j : worth(i) < worth(j) \/ (worth(i) = worth(j) /\ i < j))
  IN  [k \in DOMAIN order |-> worth(order[k])]
(* Mutant: the band runs on as long as the next value is near. *)
ChainedTo(v, left, right) ==
  Largest({r \in right..Len(v) : \A j \in (right + 1)..r : v[j] - v[j - 1] <= Band})
ReachesTo(v, left, right) ==
  Largest({r \in right..Len(v) : \A j \in (right + 1)..r : v[j] - v[left] <= Band})
FullestWindow(v) ==
  LET scan[left \in 0..Len(v)] ==
        IF left = 0 THEN [right |-> 0, best |-> <<>>]
        ELSE LET before == scan[left - 1]
                 right  == ReachesTo(v, left, Largest({before.right, left}))
                 window == SubSeq(v, left, right)
             IN  [right |-> right,
                  best  |-> IF Len(window) > Len(before.best) THEN window ELSE before.best]
  IN  scan[Len(v)].best
TwiceMedian(w) == w[(Len(w) + 1) \div 2] + w[Len(w) \div 2 + 1]
Centre(sheet) ==
  LET w == FullestWindow(Explicit(sheet))
  IN  IF Len(w) < 3 THEN NoElevation ELSE TwiceMedian(w)

(* _repair_missing_decimal: 5146 read as 51.46 where the sheet is near that. *)
Repaired(label, centre) ==
  /\ label.form = "four digits" /\ centre # NoElevation
  /\ Distance(2 * label.number, centre) <= Band

(* normalize_numeric; four digits without repair are a whole elevation. *)
Normalized(label, centre) ==
  CASE label.form \in {"percent", "words"} -> NoElevation
    [] label.form = "four digits" /\ ~Repaired(label, centre) -> 100 * label.number
    [] OTHER -> label.number

(* associate_candidate: up to three symbols within reach of the label, the best
   first; scores are thousandths, of symbols the detector is equally sure of, and
   stay below the code's cap of one. *)
Reach    == 80
TextHalf == 15
Encloses(label, symbol) == Distance(label.at, symbol.at) <= Largest({symbol.half + 2, TextHalf})
Recognized == {"oval", "cross"}
Score(label, symbol) ==
  (IF Encloses(label, symbol) THEN 430 ELSE 0)
  + 3 * (Reach - Distance(label.at, symbol.at))
  + (IF label.at >= symbol.at THEN 80 ELSE 0)
  + (IF symbol.leader THEN 130 ELSE 0)
  + (IF symbol.kind \in Recognized THEN 50 ELSE 0)
Associations(label, symbols) ==
  LET near == {i \in DOMAIN symbols : Encloses(label, symbols[i]) \/ Distance(label.at, symbols[i].at) <= Reach}
      score(i) == Score(label, symbols[i])
      away(i)  == Distance(label.at, symbols[i].at)
  IN  Ranked(near, LAMBDA i, j :
        \/ score(i) > score(j)
        \/ score(i) = score(j) /\ (away(i) < away(j) \/ (away(i) = away(j) /\ i < j)))

(* classify_candidate and the proposal of the best symbol. *)
Type(label, centre, symbols) ==
  LET best == Associations(label, symbols)
      number == Normalized(label, centre)
  IN  CASE label.place = "excluded"  -> "metadata"
        [] label.place # "excluded" /\ label.form = "percent" -> "slope"
        [] OTHER ->
             IF label.noted # "nothing" THEN label.noted
             ELSE IF number \notin Plausible THEN "unknown"
             ELSE IF best = <<>> THEN "review"
             ELSE CASE symbols[best[1]].kind = "oval"            -> "design"
                    [] symbols[best[1]].kind \in {"cross", "dot"} -> "existing"
                    [] OTHER                                     -> "review"
Classified(label, centre, symbols) ==
  Type(label, centre, symbols) \in {"design", "existing", "review"}

(* build_candidate_evidence: the first reason to reject a label. *)
Category(label, centre, symbols) ==
  LET type == Type(label, centre, symbols)
      number == Normalized(label, centre)
      repaired == Repaired(label, centre)
  IN  IF label.place = "outside crop" THEN "outside crop"
      ELSE IF label.place = "excluded" THEN "exclusion zone"
      ELSE IF type \in StrictTypes THEN type
      ELSE IF number # NoElevation /\ number \notin Plausible THEN "outside plausible range"
      ELSE IF ~repaired /\ centre # NoElevation /\ label.form \in {"four digits", "many digits"} THEN "pattern conflict"
      ELSE IF ~repaired /\ number # NoElevation /\ label.form # "decimal" THEN "fragment"
      ELSE ""
Symbol(label, centre, symbols) ==
  LET best == Associations(label, symbols)
  IN  IF Classified(label, centre, symbols) /\ best # <<>> THEN best[1] ELSE 0
EvidenceOf(sheet, centre, i) ==
  LET label == sheet.labels[i]
      symbol == Symbol(label, centre, sheet.symbols)
  IN  [id        |-> i,
       at        |-> IF symbol = 0 THEN label.at ELSE sheet.symbols[symbol].at,
       elevation |-> IF label.place = "excluded" \/ label.form = "percent" THEN NoElevation
                     ELSE Normalized(label, centre),
       type      |-> Type(label, centre, sheet.symbols),
       symbol    |-> symbol,
       category  |-> Category(label, centre, sheet.symbols)]
Capturable(e) == e.elevation # NoElevation /\ e.category = ""

(* _reject_competing_labels: labels that would give one symbol two elevations.
   No two symbols of a sheet are at one place, so that the page, place and type
   the code groups by are the symbol. *)
(* Mutant: only the neighbouring labels of a list are compared. *)
CompetingNext(evidence) ==
  {i \in DOMAIN evidence : \E j \in DOMAIN evidence :
     /\ j \in {i - 1, i + 1}
     /\ Capturable(evidence[i]) /\ Capturable(evidence[j])
     /\ evidence[i].symbol # 0 /\ evidence[i].symbol = evidence[j].symbol
     /\ evidence[i].elevation # evidence[j].elevation}
Competing(evidence) ==
  {i \in DOMAIN evidence : \E j \in DOMAIN evidence :
     /\ Capturable(evidence[i]) /\ Capturable(evidence[j])
     /\ evidence[i].symbol # 0 /\ evidence[i].symbol = evidence[j].symbol
     /\ evidence[i].elevation # evidence[j].elevation}
Evidence(sheet) ==
  LET centre == Centre(sheet)
      each == [i \in DOMAIN sheet.labels |-> EvidenceOf(sheet, centre, i)]
      competing == Competing(each)
  IN  {IF i \in competing THEN [each[i] EXCEPT !.category = "competing labels"] ELSE each[i] : i \in DOMAIN each}

------------------------------------------------------------------------------
(* SpatialCandidateIndex: buckets of the sheet, and the candidates within a
   radius in the order of their distance, the first Limit of them. *)
CellSize == 96
Radius   == 72
Limit    == 12
Cell(x) == x \div CellSize
(* Mutant: the radius rounded down to whole cells. *)
CellsOfDown(radius) == radius \div CellSize
CellsOf(radius) == (radius + CellSize - 1) \div CellSize
Found(evidence, cursor, radius) ==
  {e \in evidence :
     /\ Cell(e.at) \in (Cell(cursor) - CellsOf(radius))..(Cell(cursor) + CellsOf(radius))
     /\ Distance(e.at, cursor) <= radius}
Closer(f, e, cursor) ==
  \/ Distance(f.at, cursor) < Distance(e.at, cursor)
  \/ Distance(f.at, cursor) = Distance(e.at, cursor) /\ f.id < e.id
(* How many of a list come before one of them, and which has k before it. *)
Place(e, list, cursor) == Cardinality({f \in list : Closer(f, e, cursor)})
At(k, list, cursor)    == {e \in list : Place(e, list, cursor) = k}
Nearest(evidence, cursor, radius) ==
  LET all == Found(evidence, cursor, radius)
  IN  {e \in all : Place(e, all, cursor) < Limit}

(* ElevationUnderCursorService.suggest: what the cursor shows, and captures if
   it may. *)
GuardRadius == 30
Guarding(e, cursor) == e.category \in Guards /\ Distance(e.at, cursor) <= GuardRadius
(* Mutant: only the nearest candidate can guard. *)
FirstGuards(nearby, cursor) == {e \in At(0, nearby, cursor) : Guarding(e, cursor)}
GuardsOf(nearby, cursor) == {e \in nearby : Guarding(e, cursor)}
Suggest(evidence, cursor, mode, offset) ==
  LET nearby     == Nearest(evidence, cursor, Radius)
      guards     == GuardsOf(nearby, cursor)
      capturable == {e \in nearby : Capturable(e)}
      matching   == {e \in capturable : e.type = mode}
      chosen     == IF matching # {} THEN matching ELSE capturable
  IN  IF guards # {} THEN At(0, guards, cursor)
      ELSE IF chosen # {} THEN At(offset % Cardinality(chosen), chosen, cursor)
      ELSE At(0, nearby, cursor)
==============================================================================
