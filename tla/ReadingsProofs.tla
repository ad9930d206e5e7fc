---------------------------- MODULE ReadingsProofs ----------------------------
(***************************************************************************)
(* What is read of any input, however long: the elevation the cursor is    *)
(* offered, the band of elevations a lost decimal point is judged by, and  *)
(* the numbers.                                                            *)
(***************************************************************************)
EXTENDS Readings, FiniteSetTheorems, SequenceTheorems, WellFoundedInduction, TLAPS

(* A set of natural numbers has a least member. *)
LEMMA Least ==
  ASSUME NEW B, B \subseteq Nat, B # {}
  PROVE  \E x \in B : \A y \in B : x <= y
<1>1. PICK x \in B : \A y \in B : ~ (<<y, x>> \in OpToRel(<, Nat))
  BY WFMin, NatLessThanWellFounded
<1>2. ASSUME NEW y \in B, y < x PROVE FALSE
  <2>1. <<y, x>> \in OpToRel(<, Nat)  BY <1>2 DEF OpToRel
  <2> QED  BY <1>1, <2>1
<1> QED  BY <1>2

(* A finite set of integers has a largest member, which Largest names. *)
LEMMA LargestOfFinite ==
  ASSUME NEW S, S \subseteq Int, S # {}, NEW top \in Int, \A n \in S : n <= top
  PROVE  Largest(S) \in S /\ \A n \in S : n <= Largest(S)
<1> DEFINE B == {top - n : n \in S}
<1>1. B \subseteq Nat /\ B # {}
  <2>1. \A n \in S : top - n \in Nat  OBVIOUS
  <2> QED  BY <2>1
<1> HIDE DEF B
<1>2. PICK x \in B : \A y \in B : x <= y  BY <1>1, Least
<1> USE DEF B
<1>3. PICK n \in S : x = top - n  BY <1>2
<1>4. \A m \in S : m <= n
  <2>1. ASSUME NEW m \in S PROVE m <= n
    <3>1. top - m \in B  OBVIOUS
    <3>2. x <= top - m  BY <1>2, <3>1
    <3> QED  BY <1>3, <3>2
  <2> QED  BY <2>1
<1> QED  BY <1>4 DEF Largest

(* In a finite set that an order without circles arranges, something comes
   first. *)
LEMMA First ==
  ASSUME NEW S, IsFiniteSet(S), S # {}, NEW R,
         \A x \in S : <<x, x>> \notin R,
         \A x, y, z \in S : <<x, y>> \in R /\ <<y, z>> \in R => <<x, z>> \in R
  PROVE  \E x \in S : \A y \in S : <<y, x>> \notin R
<1> DEFINE Below(x) == {y \in S : <<y, x>> \in R}
           B == {Cardinality(Below(x)) : x \in S}
<1>1. \A x \in S : IsFiniteSet(Below(x)) /\ Cardinality(Below(x)) \in Nat
  <2> TAKE x \in S
  <2>1. Below(x) \in SUBSET S  OBVIOUS
  <2> QED  BY <2>1, FS_Subset, FS_CardinalityType
<1>2. B \subseteq Nat /\ B # {}
  <2> HIDE DEF Below
  <2> QED  BY <1>1
<1> HIDE DEF B
<1>3. PICK n \in B : \A m \in B : n <= m  BY <1>2, Least
<1> USE DEF B
<1>4. PICK x \in S : n = Cardinality(Below(x))  BY <1>3
<1>5. ASSUME NEW y \in S, <<y, x>> \in R PROVE FALSE
  <2>1. Below(y) \in SUBSET Below(x) /\ y \in Below(x) /\ y \notin Below(y)  BY <1>5
  <2>2. Cardinality(Below(y)) <= Cardinality(Below(x)) /\ Cardinality(Below(y)) # Cardinality(Below(x))
    <3> HIDE DEF Below
    <3> QED  BY <2>1, <1>1, FS_Subset
  <2>3. Cardinality(Below(y)) \in B  BY <1>5
  <2> HIDE DEF Below, B
  <2> QED  BY <1>1, <1>3, <1>4, <1>5, <2>2, <2>3
<1> QED  BY <1>5
-----------------------------------------------------------------------------
(* Sheets: what text and symbol detection can give. *)

Text == [at : Int, form : Forms, number : Int, noted : {"nothing"} \cup StrictTypes,
         place : {"open", "excluded", "outside crop"}]
Mark == [at : Int, kind : {"oval", "cross", "dot"}, half : Int, leader : BOOLEAN]
Sheet == [labels : Seq(Text), symbols : Seq(Mark)]

LEMMA DistanceType ==
  ASSUME NEW a \in Int, NEW b \in Int
  PROVE  Distance(a, b) \in Nat
  BY DEF Distance

LEMMA ScoreType ==
  ASSUME NEW label \in Text, NEW symbol \in Mark
  PROVE  Score(label, symbol) \in Int
<1> DEFINE d == Distance(label.at, symbol.at)
           a == IF Encloses(label, symbol) THEN 430 ELSE 0
           b == IF label.at >= symbol.at THEN 80 ELSE 0
           c == IF symbol.leader THEN 130 ELSE 0
           e == IF symbol.kind \in Recognized THEN 50 ELSE 0
<1>1. Score(label, symbol) = a + 3 * (80 - d) + b + c + e  BY DEF Score, Reach
<1>2. label.at \in Int /\ symbol.at \in Int  BY DEF Text, Mark
<1>3. d \in Int  BY <1>2 DEF Distance
<1>4. a \in Int /\ b \in Int /\ c \in Int /\ e \in Int  OBVIOUS
<1> HIDE DEF a, b, c, d, e
<1> QED  BY <1>1, <1>3, <1>4

(* The best symbol of a label is one of the symbols. *)
LEMMA BestIsSymbol ==
  ASSUME NEW label \in Text, NEW symbols \in Seq(Mark), Associations(label, symbols) # <<>>
  PROVE  Associations(label, symbols)[1] \in DOMAIN symbols
<1> DEFINE near == {i \in DOMAIN symbols : \/ Encloses(label, symbols[i])
                                            \/ Distance(label.at, symbols[i].at) <= Reach}
           score(i) == Score(label, symbols[i])
           away(i)  == Distance(label.at, symbols[i].at)
           Before(i, j) == \/ score(i) > score(j)
                           \/ score(i) = score(j) /\ (away(i) < away(j) \/ (away(i) = away(j) /\ i < j))
           R == {p \in near \X near : Before(p[1], p[2])}
           Behind(x) == {y \in near : Before(y, x)}
<1>1. Associations(label, symbols) =
        [k \in 1..Cardinality(near) |-> CHOOSE x \in near : Cardinality(Behind(x)) = k - 1]
  BY DEF Associations, Ranked
<1>2. IsFiniteSet(near)
  <2>1. IsFiniteSet(DOMAIN symbols)
    <3>1. DOMAIN symbols = 1..Len(symbols) /\ Len(symbols) \in Nat  OBVIOUS
    <3> QED  BY <3>1, FS_Interval
  <2>2. near \in SUBSET DOMAIN symbols  OBVIOUS
  <2> QED  BY <2>1, <2>2, FS_Subset
<1>3. \A i \in near : score(i) \in Int /\ away(i) \in Int /\ i \in Int
  <2> TAKE i \in near
  <2>1. symbols[i] \in Mark /\ i \in Int  OBVIOUS
  <2>2. Distance(label.at, symbols[i].at) \in Int
    <3>1. label.at \in Int /\ symbols[i].at \in Int  BY <2>1 DEF Text, Mark
    <3> QED  BY <3>1 DEF Distance
  <2>3. Score(label, symbols[i]) \in Int  BY <2>1, ScoreType
  <2> QED  BY <2>1, <2>2, <2>3
<1>4. near # {}
  <2>1. near = {} => Cardinality(near) = 0  BY FS_EmptySet
  <2> HIDE DEF near, Behind
  <2> QED  BY <1>1, <2>1
<1>5. Cardinality(near) \in Nat /\ Cardinality(near) # 0
  <2> HIDE DEF near
  <2> QED  BY <1>2, <1>4, FS_CardinalityType, FS_EmptySet
<1>6. \E x \in near : \A y \in near : <<y, x>> \notin R
  <2> HIDE DEF near, score, away
  <2>1. \A x \in near : <<x, x>> \notin R  BY <1>3
  <2>2. \A x, y, z \in near : <<x, y>> \in R /\ <<y, z>> \in R => <<x, z>> \in R  BY <1>3
  <2> HIDE DEF R
  <2> QED  BY <1>2, <1>4, <2>1, <2>2, First
<1>7. \E x \in near : Cardinality(Behind(x)) = 0
  <2> HIDE DEF near, Before
  <2>1. PICK x \in near : \A y \in near : <<y, x>> \notin R  BY <1>6
  <2>2. Behind(x) = {}  BY <2>1
  <2> HIDE DEF Behind
  <2> QED  BY <2>2, FS_EmptySet
<1>8. Associations(label, symbols)[1] \in near
  <2> HIDE DEF near, Behind
  <2>1. Associations(label, symbols)[1] = CHOOSE x \in near : Cardinality(Behind(x)) = 0
    <3>1. 1 \in 1..Cardinality(near) /\ 1 - 1 = 0  BY <1>5
    <3> QED  BY <1>1, <3>1
  <2> QED  BY <1>7, <2>1
<1> QED  BY <1>8

(* Evidence that has a symbol has an elevation, and stands where the label or a
   symbol is. *)
Formed(e, i) ==
  /\ e.id = i /\ i \in Int
  /\ e.at \in Int
  /\ e.symbol # 0 => e.elevation # NoElevation
  /\ e.category # "competing labels"
  /\ e = [id |-> e.id, at |-> e.at, elevation |-> e.elevation, type |-> e.type,
          symbol |-> e.symbol, category |-> e.category]

LEMMA EvidenceOfForm ==
  ASSUME NEW sheet \in Sheet, NEW centre, NEW i \in DOMAIN sheet.labels
  PROVE  Formed(EvidenceOf(sheet, centre, i), i)
<1> DEFINE e == EvidenceOf(sheet, centre, i)
           label == sheet.labels[i]
           symbol == Symbol(label, centre, sheet.symbols)
<1>1. label \in Text /\ sheet.symbols \in Seq(Mark) /\ i \in Int  BY DEF Sheet
<1>2. /\ e.id = i
      /\ e.at = IF symbol = 0 THEN label.at ELSE sheet.symbols[symbol].at
      /\ e.elevation = IF label.place = "excluded" \/ label.form = "percent" THEN NoElevation
                       ELSE Normalized(label, centre)
      /\ e.symbol = symbol
      /\ e.category = Category(label, centre, sheet.symbols)
      /\ e = [id |-> e.id, at |-> e.at, elevation |-> e.elevation, type |-> e.type,
              symbol |-> e.symbol, category |-> e.category]
  BY DEF EvidenceOf
<1>3. symbol # 0 => symbol \in DOMAIN sheet.symbols /\ Classified(label, centre, sheet.symbols)
  <2> HIDE DEF label
  <2> QED  BY <1>1, BestIsSymbol DEF Symbol
<1>4. e.at \in Int
  <2>1. label.at \in Int  BY <1>1 DEF Text
  <2>2. symbol \in DOMAIN sheet.symbols => sheet.symbols[symbol].at \in Int
    <3>1. \A k \in DOMAIN sheet.symbols : sheet.symbols[k] \in Mark  BY <1>1
    <3> HIDE DEF symbol
    <3> QED  BY <3>1 DEF Mark
  <2> HIDE DEF symbol, label
  <2> QED  BY <1>2, <1>3, <2>1, <2>2
<1>5. symbol # 0 => e.elevation # NoElevation
  <2> SUFFICES ASSUME symbol # 0 PROVE e.elevation # NoElevation  OBVIOUS
  <2> HIDE DEF label, symbol
  <2>1. Type(label, centre, sheet.symbols) \in {"design", "existing", "review"}
    BY <1>3 DEF Classified
  <2>2. label.noted \in {"nothing"} \cup StrictTypes  BY <1>1 DEF Text
  <2>3. /\ label.place # "excluded" /\ label.form # "percent"
        /\ Normalized(label, centre) \in Plausible
    BY <2>1, <2>2 DEF Type, StrictTypes
  <2>4. Normalized(label, centre) \in Int  BY <2>3, ElevationAssumption DEF Plausible
  <2> QED  BY <1>2, <2>3, <2>4, ElevationAssumption
<1>6. e.category # "competing labels"
  <2> HIDE DEF label
  <2>1. Category(label, centre, sheet.symbols) # "competing labels"
    BY DEF Category, StrictTypes
  <2> QED  BY <1>2, <2>1
<1> HIDE DEF symbol, label, e
<1> QED  BY <1>1, <1>2, <1>4, <1>5, <1>6 DEF Formed, e

(* Two labels give no symbol two elevations, once the competing ones are taken
   out of what may be captured. *)
LEMMA EvidenceForm ==
  ASSUME NEW sheet \in Sheet
  PROVE  /\ IsFiniteSet(Evidence(sheet)) /\ Cardinality(Evidence(sheet)) <= Len(sheet.labels)
         /\ \A e \in Evidence(sheet) : e.at \in Int /\ e.id \in Int
         /\ \A e, f \in Evidence(sheet) :
              /\ Capturable(e) /\ f.symbol = e.symbol /\ e.symbol # 0
              /\ f.category \in {"", "competing labels"}
              => f.elevation = e.elevation
<1> DEFINE centre == Centre(sheet)
           D == DOMAIN sheet.labels
           each == [i \in D |-> EvidenceOf(sheet, centre, i)]
           competing == Competing(each)
           out(i) == IF i \in competing THEN [each[i] EXCEPT !.category = "competing labels"] ELSE each[i]
<1>1. Evidence(sheet) = {out(i) : i \in D}  BY DEF Evidence
<1>2. D = 1..Len(sheet.labels) /\ Len(sheet.labels) \in Nat  BY DEF Sheet
<1>3. ASSUME NEW i \in D
      PROVE  /\ each[i].id = i /\ i \in Int /\ each[i].at \in Int
             /\ each[i].symbol # 0 => each[i].elevation # NoElevation
             /\ each[i].category # "competing labels"
             /\ out(i).id = i /\ out(i).at = each[i].at /\ out(i).symbol = each[i].symbol
             /\ out(i).elevation = each[i].elevation
             /\ out(i).category = IF i \in competing THEN "competing labels" ELSE each[i].category
  <2>0. i \in DOMAIN sheet.labels  OBVIOUS
  <2>1. each[i] = EvidenceOf(sheet, centre, i)  OBVIOUS
  <2> HIDE DEF each, centre, competing, out
  <2>2. Formed(each[i], i)  BY <2>0, <2>1, EvidenceOfForm
  <2> DEFINE x == each[i]
  <2>4. x = [id |-> x.id, at |-> x.at, elevation |-> x.elevation,
             type |-> x.type, symbol |-> x.symbol, category |-> x.category]
    BY <2>2 DEF Formed
  <2> HIDE DEF x
  <2>5. LET y == [x EXCEPT !.category = "competing labels"]
        IN  /\ y.id = x.id /\ y.at = x.at /\ y.symbol = x.symbol
            /\ y.elevation = x.elevation /\ y.category = "competing labels"
    BY <2>4
  <2>6. out(i) = IF i \in competing THEN [x EXCEPT !.category = "competing labels"] ELSE x
    BY DEF x, out
  <2> HIDE DEF out
  <2> QED  BY <2>2, <2>5, <2>6 DEF x, Formed
<1>4. competing = {i \in D : \E j \in D :
        /\ Capturable(each[i]) /\ Capturable(each[j])
        /\ each[i].symbol # 0 /\ each[i].symbol = each[j].symbol
        /\ each[i].elevation # each[j].elevation}
  <2>1. DOMAIN each = D  OBVIOUS
  <2> HIDE DEF each, D
  <2> QED  BY <2>1 DEF Competing
<1> HIDE DEF each, competing, centre, out
<1>5. IsFiniteSet(Evidence(sheet)) /\ Cardinality(Evidence(sheet)) <= Len(sheet.labels)
  <2> DEFINE g == [i \in D |-> out(i)]
  <2>1. g \in Surjection(D, Evidence(sheet))  BY <1>1 DEF Surjection
  <2>2. IsFiniteSet(D) /\ Cardinality(D) = Len(sheet.labels)  BY <1>2, FS_Interval
  <2> HIDE DEF g, D
  <2>3. IsFiniteSet(Evidence(sheet)) /\ Cardinality(Evidence(sheet)) <= Cardinality(D)
    BY <2>1, <2>2, FS_Surjection
  <2> QED  BY <2>2, <2>3
<1> HIDE DEF D
<1>6. \A e \in Evidence(sheet) : e.at \in Int /\ e.id \in Int
  <2> TAKE e \in Evidence(sheet)
  <2>1. PICK i \in D : e = out(i)  BY <1>1
  <2> QED  BY <1>3, <2>1
<1>7. ASSUME NEW i \in D, NEW j \in D,
             Capturable(out(i)), out(j).symbol = out(i).symbol, out(i).symbol # 0,
             out(j).category \in {"", "competing labels"}
      PROVE  out(j).elevation = out(i).elevation
  <2>1. i \notin competing /\ Capturable(each[i])  BY <1>3, <1>7 DEF Capturable
  <2>2. Capturable(each[j])
    <3>1. CASE j \in competing  BY <3>1, <1>4
    <3>2. CASE j \notin competing  BY <3>2, <1>3, <1>7 DEF Capturable
    <3> QED  BY <3>1, <3>2
  <2>3. each[i].symbol # 0 /\ each[i].symbol = each[j].symbol  BY <1>3, <1>7
  <2>4. each[i].elevation = each[j].elevation  BY <1>4, <2>1, <2>2, <2>3
  <2> QED  BY <1>3, <2>4
<1> QED  BY <1>1, <1>5, <1>6, <1>7
-----------------------------------------------------------------------------
(* What the cursor is offered. *)

(* Whatever stands within a radius no wider than a cell is found. *)
LEMMA FoundWithin ==
  ASSUME NEW evidence, NEW f \in evidence, f.at \in Int, NEW cursor \in Int,
         Distance(f.at, cursor) <= Radius
  PROVE  f \in Found(evidence, cursor, Radius)
<1> DEFINE a == f.at
<1>1. CellsOf(Radius) = 1  BY DEF CellsOf, Radius, CellSize
<1>2. a \in Int /\ a - cursor <= 72 /\ cursor - a <= 72  BY DEF Distance, Radius
<1> HIDE DEF a
<1>3. /\ a \div 96 \in Int /\ cursor \div 96 \in Int
      /\ cursor \div 96 - 1 <= a \div 96 /\ a \div 96 <= cursor \div 96 + 1
  BY <1>2
<1>4. a \div 96 \in (cursor \div 96 - 1)..(cursor \div 96 + 1)  BY <1>3
<1> QED  BY <1>1, <1>4 DEF Found, Cell, CellSize, a

(* Nothing comes before the first of a list. *)
LEMMA NothingBeforeFirst ==
  ASSUME NEW list, IsFiniteSet(list), NEW cursor, NEW e \in At(0, list, cursor)
  PROVE  e \in list /\ \A f \in list : ~Closer(f, e, cursor)
<1> DEFINE B == {f \in list : Closer(f, e, cursor)}
<1>1. e \in list /\ Cardinality(B) = 0  BY DEF At, Place
<1>2. B \in SUBSET list  OBVIOUS
<1> HIDE DEF B
<1>3. B = {}  BY <1>1, <1>2, FS_Subset, FS_EmptySet
<1> QED  BY <1>1, <1>3 DEF B

(* Of no more candidates than a lookup returns, all are returned. *)
LEMMA AllAreNearest ==
  ASSUME NEW evidence, IsFiniteSet(evidence), NEW cursor \in Int,
         \A e \in evidence : e.at \in Int /\ e.id \in Int,
         Cardinality(Found(evidence, cursor, Radius)) <= Limit
  PROVE  Nearest(evidence, cursor, Radius) = Found(evidence, cursor, Radius)
<1> DEFINE all == Found(evidence, cursor, Radius)
<1>1. all \in SUBSET evidence  BY DEF Found
<1> HIDE DEF all
<1>2. IsFiniteSet(all) /\ Cardinality(all) \in Nat  BY <1>1, FS_Subset, FS_CardinalityType
<1>3. ASSUME NEW e \in all PROVE Place(e, all, cursor) < Limit
  <2> DEFINE B == {f \in all : Closer(f, e, cursor)}
  <2>1. B \in SUBSET all  OBVIOUS
  <2>2. e \notin B
    <3>1. e.at \in Int /\ e.id \in Int  BY <1>1
    <3>2. Distance(e.at, cursor) \in Nat  BY <3>1, DistanceType
    <3> QED  BY <3>1, <3>2 DEF Closer
  <2> HIDE DEF B
  <2>3. Cardinality(B) \in Nat /\ Cardinality(B) <= Cardinality(all) /\ Cardinality(B) # Cardinality(all)
    BY <1>2, <2>1, <2>2, FS_Subset, FS_CardinalityType
  <2>4. Place(e, all, cursor) = Cardinality(B)  BY DEF Place, B
  <2>5. Cardinality(all) <= Limit  BY DEF all
  <2> QED  BY <1>2, <2>3, <2>4, <2>5 DEF Limit
<1> QED  BY <1>3 DEF Nearest, all

(* What may be captured is no guard, and no guard is what may be captured. *)
LEMMA OfferIsSafe ==
  ASSUME NEW evidence, IsFiniteSet(evidence), NEW cursor \in Int, NEW mode,
         \A f \in evidence : f.at \in Int /\ f.id \in Int,
         Cardinality(Found(evidence, cursor, Radius)) <= Limit,
         NEW e \in Suggest(evidence, cursor, mode, 0), Capturable(e)
  PROVE  /\ e \in evidence
         /\ Distance(e.at, cursor) <= Radius
         /\ \A f \in evidence : Distance(f.at, cursor) <= GuardRadius => f.category \notin Guards
         /\ \A f \in evidence :
              (Capturable(f) /\ f.type = mode /\ Distance(f.at, cursor) <= Radius)
                => (e.type = mode /\ Distance(e.at, cursor) <= Distance(f.at, cursor))
<1> DEFINE nearby     == Found(evidence, cursor, Radius)
           guards     == GuardsOf(nearby, cursor)
           capturable == {f \in nearby : Capturable(f)}
           matching   == {f \in capturable : f.type = mode}
           chosen     == IF matching # {} THEN matching ELSE capturable
<1>1. e \in IF guards # {} THEN At(0, guards, cursor)
            ELSE IF chosen # {} THEN At(0 % Cardinality(chosen), chosen, cursor)
            ELSE At(0, nearby, cursor)
  <2>1. Nearest(evidence, cursor, Radius) = nearby  BY AllAreNearest
  <2> HIDE DEF nearby
  <2> QED  BY <2>1 DEF Suggest
<1>2. nearby \in SUBSET evidence /\ \A f \in nearby : Distance(f.at, cursor) <= Radius
  BY DEF Found
<1>3. \A f \in evidence : Distance(f.at, cursor) <= Radius => f \in nearby  BY FoundWithin
<1> HIDE DEF nearby
<1>4. guards \in SUBSET nearby /\ capturable \in SUBSET nearby /\ chosen \in SUBSET nearby
  BY DEF GuardsOf
<1>5. IsFiniteSet(guards) /\ IsFiniteSet(chosen) /\ IsFiniteSet(nearby)
  <2> HIDE DEF guards, chosen
  <2> QED  BY <1>2, <1>4, FS_Subset
<1>6. guards = {}
  <2> SUFFICES ASSUME guards # {} PROVE FALSE  OBVIOUS
  <2>1. e \in guards
    <3> HIDE DEF guards, chosen
    <3> QED  BY <1>1, <1>5, NothingBeforeFirst
  <2>2. e.category \in Guards  BY <2>1 DEF GuardsOf, Guarding
  <2> QED  BY <2>2 DEF Capturable, Guards, StrictTypes
<1>7. chosen # {}
  <2> SUFFICES ASSUME chosen = {} PROVE FALSE  OBVIOUS
  <2>1. e \in nearby
    <3> HIDE DEF guards, chosen
    <3> QED  BY <1>1, <1>5, <1>6, NothingBeforeFirst
  <2> QED  BY <2>1
<1>8. e \in chosen /\ \A f \in chosen : ~Closer(f, e, cursor)
  <2> HIDE DEF guards, chosen
  <2>1. Cardinality(chosen) \in Nat /\ Cardinality(chosen) # 0
    BY <1>5, <1>7, FS_CardinalityType, FS_EmptySet
  <2>2. 0 % Cardinality(chosen) = 0  BY <2>1
  <2>3. e \in At(0, chosen, cursor)  BY <1>1, <1>6, <1>7, <2>2
  <2> QED  BY <1>5, <2>3, NothingBeforeFirst
<1>9. e \in evidence /\ Distance(e.at, cursor) <= Radius  BY <1>2, <1>4, <1>8
<1>10. ASSUME NEW f \in evidence, Distance(f.at, cursor) <= GuardRadius PROVE f.category \notin Guards
  <2>1. Distance(f.at, cursor) \in Nat  BY DistanceType
  <2>2. f \in nearby  BY <1>3, <1>10, <2>1 DEF GuardRadius, Radius
  <2> QED  BY <1>6, <1>10, <2>2 DEF GuardsOf, Guarding
<1>11. ASSUME NEW f \in evidence, Capturable(f), f.type = mode, Distance(f.at, cursor) <= Radius
       PROVE  e.type = mode /\ Distance(e.at, cursor) <= Distance(f.at, cursor)
  <2>1. f \in matching  BY <1>3, <1>11
  <2>2. chosen = matching  BY <2>1
  <2>3. e.type = mode /\ ~Closer(f, e, cursor)  BY <1>8, <2>1, <2>2
  <2>4. Distance(e.at, cursor) \in Nat /\ Distance(f.at, cursor) \in Nat  BY <1>9, DistanceType
  <2> QED  BY <2>3, <2>4 DEF Closer
<1> HIDE DEF chosen, matching, guards
<1> QED  BY <1>9, <1>10, <1>11

(* The sheets of this model are sheets, of no more labels than a lookup returns. *)
SheetInv ==
  input.kind = "sheet" => input.sheet \in Sheet /\ Len(input.sheet.labels) <= Limit

LEMMA WordingsAreText ==
  /\ \A label \in Labels \cup LabelsOf(Doubtful) : label \in Text
  /\ \A symbols \in SymbolSets : symbols \in Seq(Mark)
<1> DEFINE Worded == [form : Forms, number : Int, noted : {"nothing"} \cup StrictTypes,
                       place : {"open", "excluded", "outside crop"}]
<1>1. Wordings \subseteq Worded
  <2> DEFINE w1 == Label("decimal", 5000, "nothing", "open")
             w2 == Label("decimal", 5150, "nothing", "open")
             w3 == Label("decimal", 5150, "utility rim", "open")
             w4 == Label("decimal", 9999, "nothing", "open")
             w5 == Label("percent", 200, "nothing", "open")
             w6 == Label("decimal", 5000, "nothing", "excluded")
  <2>1. {w1, w2, w3, w4, w5, w6} \subseteq Worded  BY DEF Label, Forms, StrictTypes
  <2>2. Wordings = {w1, w2, w3, w4, w5, w6}  BY DEF Wordings
  <2> HIDE DEF w1, w2, w3, w4, w5, w6, Worded
  <2> QED  BY <2>1, <2>2
<1>5. Doubtful \subseteq Worded
  <2> DEFINE w1 == Label("four digits", 5146, "nothing", "open")
             w2 == Label("four digits", 8000, "nothing", "open")
             w3 == Label("many digits", 4000, "nothing", "open")
             w4 == Label("digits", 5100, "nothing", "open")
             w5 == Label("spaced", 5146, "nothing", "open")
             w6 == Label("decimal", 5150, "nothing", "outside crop")
  <2>1. {w1, w2, w3, w4, w5, w6} \subseteq Worded  BY DEF Label, Forms, StrictTypes
  <2>2. Doubtful = {w1, w2, w3, w4, w5, w6}  BY DEF Doubtful
  <2> HIDE DEF w1, w2, w3, w4, w5, w6, Worded
  <2> QED  BY <2>1, <2>2
<1>2. ASSUME NEW label \in Labels \cup LabelsOf(Doubtful) PROVE label \in Text
  <2>1. PICK x \in {90, 100, 160}, w \in Wordings \cup Doubtful : label = LabelAt(x, w)
    BY DEF Labels, LabelsOf
  <2>2. x \in Int  OBVIOUS
  <2>3. w \in Worded
    <3> HIDE DEF Worded
    <3> QED  BY <1>1, <1>5
  <2> QED  BY <2>1, <2>2, <2>3 DEF LabelAt, Text
<1>3. SymbolAt(85, "oval", FALSE) \in Mark /\ SymbolAt(85, "dot", FALSE) \in Mark
      /\ SymbolAt(150, "cross", TRUE) \in Mark
  BY DEF SymbolAt, Mark
<1>4. ASSUME NEW symbols \in SymbolSets PROVE symbols \in Seq(Mark)
  <2> DEFINE s1 == SymbolAt(85, "oval", FALSE)
             s2 == SymbolAt(85, "dot", FALSE)
             s3 == SymbolAt(150, "cross", TRUE)
  <2>1. symbols \in {<<>>, <<s1>>, <<s2, s3>>}  BY DEF SymbolSets
  <2>2. {s1, s2, s3} \subseteq Mark  BY <1>3
  <2> HIDE DEF s1, s2, s3
  <2>3. <<>> \in Seq(Mark) /\ <<s1>> \in Seq(Mark) /\ <<s2, s3>> \in Seq(Mark)  BY <2>2
  <2> QED  BY <2>1, <2>3
<1> QED  BY <1>2, <1>4

LEMMA SheetsAreSheets ==
  ASSUME MaxLabels <= Limit, MaxCrowd <= Limit
  PROVE  Spec => []SheetInv
<1>1. Init => SheetInv  BY DEF Init, Blank, SheetInv
<1>2. SheetInv /\ [Next]_input => SheetInv'
  <2> SUFFICES ASSUME SheetInv, [Next]_input PROVE SheetInv'  OBVIOUS
  <2>1. CASE ReadNumber  BY <2>1 DEF ReadNumber, SheetInv
  <2>2. CASE ReadCoordinate  BY <2>2 DEF ReadCoordinate, SheetInv
  <2>3. CASE ReadElevations  BY <2>3 DEF ReadElevations, SheetInv
  <2>4. CASE ReadSheet
    <3>1. PICK n \in 1..MaxLabels : \E labels \in [1..n -> Labels], symbols \in SymbolSets :
            input' = [kind |-> "sheet", sheet |-> [labels |-> labels, symbols |-> symbols]]
      BY <2>4 DEF ReadSheet
    <3>2. PICK labels \in [1..n -> Labels], symbols \in SymbolSets :
            input' = [kind |-> "sheet", sheet |-> [labels |-> labels, symbols |-> symbols]]
      BY <3>1
    <3>3. n \in Nat /\ n <= Limit  BY ReadingsAssumption DEF Limit
    <3>4. labels \in Seq(Text) /\ Len(labels) = n  BY <3>3, WordingsAreText
    <3>5. symbols \in Seq(Mark)  BY WordingsAreText
    <3> QED  BY <3>2, <3>3, <3>4, <3>5 DEF SheetInv, Sheet
  <2>5. CASE ReadCrowd
    <3>1. PICK n \in 1..MaxCrowd, label \in Labels, crowd \in Labels :
            input' = [kind |-> "sheet", sheet |-> [labels |-> Crowd(n, crowd, label), symbols |-> <<>>]]
      BY <2>5 DEF ReadCrowd
    <3>2. n \in Nat /\ n <= Limit  BY ReadingsAssumption DEF Limit
    <3>3. Crowd(n, crowd, label) \in Seq(Text) /\ Len(Crowd(n, crowd, label)) = n
      BY <3>2, WordingsAreText DEF Crowd
    <3>4. <<>> \in Seq(Mark)  OBVIOUS
    <3> QED  BY <3>1, <3>2, <3>3, <3>4 DEF SheetInv, Sheet
  <2>7. CASE ReadDoubtful
    <3>1. PICK label \in LabelsOf(Doubtful), crowd \in Labels, symbols \in SymbolSets :
            input' = [kind |-> "sheet", sheet |-> [labels |-> Crowd(4, crowd, label), symbols |-> symbols]]
      BY <2>7 DEF ReadDoubtful
    <3>2. Crowd(4, crowd, label) \in Seq(Text) /\ Len(Crowd(4, crowd, label)) = 4
      BY WordingsAreText DEF Crowd
    <3>3. symbols \in Seq(Mark)  BY WordingsAreText
    <3>4. 4 <= Limit  BY DEF Limit
    <3> QED  BY <3>1, <3>2, <3>3, <3>4 DEF SheetInv, Sheet
  <2>6. CASE UNCHANGED input  BY <2>6 DEF SheetInv
  <2> QED  BY <2>1, <2>2, <2>3, <2>4, <2>5, <2>6, <2>7 DEF Next
<1> QED  BY <1>1, <1>2, PTL DEF Spec

(* Whatever is offered for capture of a sheet with no more labels than a lookup
   returns: no label near the cursor guards it, none of the mode that may be
   captured is nearer, and no other label gives its symbol another elevation. *)
THEOREM OffersAreSafe ==
  ASSUME MaxLabels <= Limit, MaxCrowd <= Limit
  PROVE  Spec => []SnapIsSafe
<1>1. SheetInv => SnapIsSafe
  <2> SUFFICES ASSUME input.sheet \in Sheet, Len(input.sheet.labels) <= Limit
               PROVE  SnapIsSafe
    BY DEF SheetInv, SnapIsSafe
  <2> DEFINE evidence == Evidence(input.sheet)
  <2>1. /\ IsFiniteSet(evidence) /\ Cardinality(evidence) <= Len(input.sheet.labels)
        /\ \A e \in evidence : e.at \in Int /\ e.id \in Int
        /\ \A e, f \in evidence :
             /\ Capturable(e) /\ f.symbol = e.symbol /\ e.symbol # 0
             /\ f.category \in {"", "competing labels"}
             => f.elevation = e.elevation
    BY EvidenceForm
  <2> HIDE DEF evidence
  <2>2. ASSUME NEW cursor \in Cursors, NEW mode \in TerrainTypes,
               NEW e \in Suggest(evidence, cursor, mode, 0), Capturable(e)
        PROVE  /\ e \in evidence
               /\ Distance(e.at, cursor) <= Radius
               /\ \A f \in evidence : Distance(f.at, cursor) <= GuardRadius => f.category \notin Guards
               /\ \A f \in evidence :
                    (Capturable(f) /\ f.type = mode /\ Distance(f.at, cursor) <= Radius)
                      => (e.type = mode /\ Distance(e.at, cursor) <= Distance(f.at, cursor))
    <3>1. cursor \in Int  BY DEF Cursors
    <3>2. Found(evidence, cursor, Radius) \in SUBSET evidence  BY DEF Found
    <3>3. Cardinality(Found(evidence, cursor, Radius)) \in Nat /\ Cardinality(evidence) \in Nat
          /\ Cardinality(Found(evidence, cursor, Radius)) <= Cardinality(evidence)
      BY <2>1, <3>2, FS_Subset, FS_CardinalityType
    <3>4. Len(input.sheet.labels) \in Nat  BY DEF Sheet
    <3>5. Cardinality(Found(evidence, cursor, Radius)) <= Limit
      <4> DEFINE a == Cardinality(Found(evidence, cursor, Radius))
                 b == Cardinality(evidence)
                 c == Len(input.sheet.labels)
      <4>1. a \in Nat /\ b \in Nat /\ c \in Nat /\ a <= b /\ b <= c /\ c <= 12
        BY <2>1, <3>3, <3>4 DEF Limit
      <4> HIDE DEF a, b, c
      <4>2. a <= 12  BY <4>1
      <4> QED  BY <4>2 DEF a, Limit
    <3>6. Capturable(e) /\ e \in Suggest(evidence, cursor, mode, 0)  BY <2>2
    <3>7. IsFiniteSet(evidence) /\ \A f \in evidence : f.at \in Int /\ f.id \in Int  BY <2>1
    <3> QED  BY <3>1, <3>5, <3>6, <3>7, OfferIsSafe
  <2>3. SnapIsSafe <=>
          (input.kind = "sheet" =>
            \A cursor \in Cursors, mode \in TerrainTypes :
              \A e \in Suggest(evidence, cursor, mode, 0) : Capturable(e) =>
                /\ Distance(e.at, cursor) <= Radius
                /\ \A f \in evidence : Distance(f.at, cursor) <= GuardRadius => f.category \notin Guards
                /\ \A f \in evidence :
                     (Capturable(f) /\ f.type = mode /\ Distance(f.at, cursor) <= Radius)
                       => (e.type = mode /\ Distance(e.at, cursor) <= Distance(f.at, cursor))
                /\ \A f \in evidence :
                     (f.symbol = e.symbol /\ e.symbol # 0 /\ f.category \in {"", "competing labels"})
                       => f.elevation = e.elevation)
    BY DEF SnapIsSafe, evidence
  <2> QED  BY <2>1, <2>2, <2>3
<1>2. Spec => []SheetInv  BY SheetsAreSheets
<1> QED  BY <1>1, <1>2, PTL
-----------------------------------------------------------------------------
(* The band of elevations. *)

(* In a finite set put in a strict order every place is taken. *)
LEMMA PlacesAreTaken ==
  ASSUME NEW S, IsFiniteSet(S), NEW R,
         \A x \in S : <<x, x>> \notin R,
         \A x, y, z \in S : <<x, y>> \in R /\ <<y, z>> \in R => <<x, z>> \in R,
         \A x, y \in S : x = y \/ <<x, y>> \in R \/ <<y, x>> \in R
  PROVE  /\ Cardinality(S) \in Nat
         /\ \A x, y \in S : <<x, y>> \in R =>
              Cardinality({z \in S : <<z, x>> \in R}) < Cardinality({z \in S : <<z, y>> \in R})
         /\ \A k \in 1..Cardinality(S) : \E x \in S : Cardinality({z \in S : <<z, x>> \in R}) = k - 1
<1> DEFINE Below(x) == {z \in S : <<z, x>> \in R}
           n == Cardinality(S)
<1>1. \A x \in S : /\ Cardinality(Below(x)) \in Nat /\ IsFiniteSet(Below(x))
                    /\ Cardinality(Below(x)) < n
  <2> TAKE x \in S
  <2>1. Below(x) \in SUBSET S /\ Below(x) # S  OBVIOUS
  <2> HIDE DEF Below
  <2>2. /\ IsFiniteSet(Below(x)) /\ Cardinality(Below(x)) <= n
        /\ n = Cardinality(Below(x)) => S = Below(x)
    BY <2>1, FS_Subset
  <2>3. n \in Nat /\ Cardinality(Below(x)) \in Nat  BY <2>2, FS_CardinalityType
  <2> HIDE DEF n
  <2> QED  BY <2>1, <2>2, <2>3
<1>2. ASSUME NEW x \in S, NEW y \in S, <<x, y>> \in R
      PROVE  Cardinality(Below(x)) < Cardinality(Below(y))
  <2>1. Below(x) \in SUBSET Below(y) /\ Below(x) # Below(y)  BY <1>2
  <2> HIDE DEF Below
  <2>2. /\ Cardinality(Below(x)) <= Cardinality(Below(y))
        /\ Cardinality(Below(y)) = Cardinality(Below(x)) => Below(y) = Below(x)
    BY <1>1, <2>1, FS_Subset
  <2> QED  BY <1>1, <2>1, <2>2
<1>3. n \in Nat  BY FS_CardinalityType
<1> DEFINE f == [x \in S |-> Cardinality(Below(x)) + 1]
<1>4. f \in Injection(S, 1..n)
  <2> HIDE DEF Below, n
  <2>1. f \in [S -> 1..n]  BY <1>1, <1>3
  <2>2. ASSUME NEW x \in S, NEW y \in S, f[x] = f[y] PROVE x = y
    <3>1. Cardinality(Below(x)) = Cardinality(Below(y))  BY <1>1, <2>2
    <3> HIDE DEF f
    <3>2. CASE <<x, y>> \in R  BY <1>1, <1>2, <3>1, <3>2
    <3>3. CASE <<y, x>> \in R  BY <1>1, <1>2, <3>1, <3>3
    <3> QED  BY <3>2, <3>3
  <2> HIDE DEF f
  <2> QED  BY <2>1, <2>2 DEF Injection, IsInjective
<1>5. f \in Surjection(S, 1..n)
  <2>1. IsFiniteSet(1..n) /\ Cardinality(1..n) = n  BY <1>3, FS_Interval
  <2> HIDE DEF f
  <2>2. Cardinality(S) = Cardinality(1..n) <=> f \in Surjection(S, 1..n)  BY <1>4, <2>1, FS_Injection
  <2> QED  BY <2>1, <2>2
<1>6. ASSUME NEW k \in 1..n PROVE \E x \in S : Cardinality(Below(x)) = k - 1
  <2>1. PICK x \in S : f[x] = k
    <3> HIDE DEF f
    <3> QED  BY <1>5 DEF Surjection
  <2> HIDE DEF Below
  <2> QED  BY <1>1, <2>1
<1> QED  BY <1>2, <1>3, <1>6

(* The explicit decimals are in order. *)
LEMMA ExplicitSorted ==
  ASSUME NEW sheet \in Sheet
  PROVE  /\ Explicit(sheet) \in Seq(Int)
         /\ \A i, j \in DOMAIN Explicit(sheet) : i <= j => Explicit(sheet)[i] <= Explicit(sheet)[j]
<1> DEFINE worth(i) == sheet.labels[i].number
           S == {i \in DOMAIN sheet.labels : sheet.labels[i].form = "decimal" /\ worth(i) \in Plausible}
           Before(i, j) == worth(i) < worth(j) \/ (worth(i) = worth(j) /\ i < j)
           R == {p \in S \X S : Before(p[1], p[2])}
           Behind(x) == {y \in S : Before(y, x)}
           order == [k \in 1..Cardinality(S) |-> CHOOSE x \in S : Cardinality(Behind(x)) = k - 1]
<1>1. Explicit(sheet) = [k \in DOMAIN order |-> worth(order[k])]
  BY DEF Explicit, Ranked
<1>2. IsFiniteSet(S)
  <2>1. DOMAIN sheet.labels = 1..Len(sheet.labels) /\ Len(sheet.labels) \in Nat  BY DEF Sheet
  <2>2. IsFiniteSet(DOMAIN sheet.labels)
    <3> HIDE DEF S
    <3>1. 1 \in Int /\ Len(sheet.labels) \in Int  BY <2>1
    <3>2. IsFiniteSet(1..Len(sheet.labels))  BY <3>1, FS_Interval
    <3> QED  BY <2>1, <3>2
  <2>3. S \in SUBSET DOMAIN sheet.labels  OBVIOUS
  <2> HIDE DEF S
  <2> QED  BY <2>2, <2>3, FS_Subset
<1>3. \A i \in S : worth(i) \in Int /\ i \in Int
  <2> TAKE i \in S
  <2>1. sheet.labels \in Seq(Text) /\ i \in DOMAIN sheet.labels  BY DEF Sheet
  <2>2. sheet.labels[i] \in Text /\ i \in Int  BY <2>1
  <2> QED  BY <2>2 DEF Text
<1> HIDE DEF S, worth
<1>4. /\ \A x \in S : <<x, x>> \notin R
      /\ \A x, y, z \in S : <<x, y>> \in R /\ <<y, z>> \in R => <<x, z>> \in R
      /\ \A x, y \in S : x = y \/ <<x, y>> \in R \/ <<y, x>> \in R
  BY <1>3
<1>5. \A x, y \in S : <<y, x>> \in R <=> Before(y, x)  OBVIOUS
<1>6. \A x \in S : Behind(x) = {z \in S : <<z, x>> \in R}  BY <1>5
<1> HIDE DEF R, Behind
<1>7. /\ Cardinality(S) \in Nat
      /\ \A x, y \in S : <<x, y>> \in R => Cardinality(Behind(x)) < Cardinality(Behind(y))
      /\ \A k \in 1..Cardinality(S) : \E x \in S : Cardinality(Behind(x)) = k - 1
  <2>1. /\ Cardinality(S) \in Nat
        /\ \A x, y \in S : <<x, y>> \in R =>
              Cardinality({z \in S : <<z, x>> \in R}) < Cardinality({z \in S : <<z, y>> \in R})
        /\ \A k \in 1..Cardinality(S) : \E x \in S : Cardinality({z \in S : <<z, x>> \in R}) = k - 1
    <3> HIDE DEF Before, order
    <3> QED  BY <1>2, <1>4, PlacesAreTaken
  <2> QED  BY <1>6, <2>1
<1>8. \A k \in 1..Cardinality(S) : order[k] \in S /\ Cardinality(Behind(order[k])) = k - 1
  <2> TAKE k \in 1..Cardinality(S)
  <2>1. order[k] = CHOOSE x \in S : Cardinality(Behind(x)) = k - 1  OBVIOUS
  <2> HIDE DEF order
  <2> QED  BY <1>7, <2>1
<1>9. DOMAIN order = 1..Cardinality(S)  OBVIOUS
<1> HIDE DEF order
<1> DEFINE v == [k \in DOMAIN order |-> worth(order[k])]
<1>10. v \in Seq(Int)
  <2>1. \A k \in 1..Cardinality(S) : worth(order[k]) \in Int  BY <1>3, <1>8
  <2> HIDE DEF worth
  <2> QED  BY <1>7, <1>9, <2>1
<1>11. ASSUME NEW i \in 1..Cardinality(S), NEW j \in 1..Cardinality(S), i <= j
       PROVE  v[i] <= v[j]
  <2> DEFINE x == order[i]
             y == order[j]
  <2>1. x \in S /\ y \in S /\ Cardinality(Behind(x)) = i - 1 /\ Cardinality(Behind(y)) = j - 1
    BY <1>8
  <2>2. v[i] = worth(x) /\ v[j] = worth(y)  BY <1>9
  <2> HIDE DEF x, y, v
  <2>3. ~ Before(y, x)
    <3>1. ASSUME Before(y, x) PROVE FALSE
      <4>1. Cardinality(Behind(y)) < Cardinality(Behind(x))  BY <1>5, <1>7, <2>1, <3>1
      <4> QED  BY <1>7, <1>11, <2>1, <4>1
    <3> QED  BY <3>1
  <2> QED  BY <1>3, <2>1, <2>2, <2>3
<1>12. DOMAIN v = 1..Cardinality(S)  BY <1>9
<1> HIDE DEF v
<1> QED  BY <1>1, <1>10, <1>11, <1>12 DEF v

(* Induction up to a bound: the least number that is not in a set has no place
   to be. *)
LEMMA Climb ==
  ASSUME NEW N \in Nat, NEW T, 0 \in T, \A k \in 0..(N - 1) : k \in T => k + 1 \in T
  PROVE  \A k \in 0..N : k \in T
<1> DEFINE B == {k \in 0..N : k \notin T}
<1>1. SUFFICES ASSUME B # {} PROVE FALSE  OBVIOUS
<1>2. B \subseteq Nat  OBVIOUS
<1> HIDE DEF B
<1>3. PICK x \in B : \A y \in B : x <= y  BY <1>1, <1>2, Least
<1> USE DEF B
<1>4. x # 0 /\ x - 1 \in 0..(N - 1)  BY <1>3
<1>5. x - 1 \in T  BY <1>3, <1>4
<1> QED  BY <1>3, <1>4, <1>5

(* One turn of the scan. *)
Turn(v, before, left) ==
  LET right  == ReachesTo(v, left, Largest({before.right, left}))
      window == SubSeq(v, left, right)
  IN  [right |-> right,
       best  |-> IF Len(window) > Len(before.best) THEN window ELSE before.best]

(* The scan is what its equation says. *)
LEMMA ScanTurns ==
  ASSUME NEW v, Len(v) \in Nat
  PROVE  \E f : /\ f[0] = [right |-> 0, best |-> <<>>]
                /\ \A k \in 0..(Len(v) - 1) : f[k + 1] = Turn(v, f[k], k + 1)
                /\ FullestWindow(v) = f[Len(v)].best
<1> DEFINE N == Len(v)
           Def(f, k) == IF k = 0 THEN [right |-> 0, best |-> <<>>] ELSE Turn(v, f[k - 1], k)
           Q(n) == \E g : g = [k \in 0..n |-> Def(g, k)]
           r == CHOOSE f : f = [k \in 0..N |-> Def(f, k)]
<1>1. Q(0)
  <2> DEFINE g == [k \in 0..0 |-> [right |-> 0, best |-> <<>>]]
  <2>1. g = [k \in 0..0 |-> Def(g, k)]  OBVIOUS
  <2> HIDE DEF g, Def
  <2> QED  BY <2>1
<1>2. ASSUME NEW n \in Nat, Q(n) PROVE Q(n + 1)
  <2>1. PICK g : g = [k \in 0..n |-> Def(g, k)]  BY <1>2
  <2> DEFINE h == [k \in 0..(n + 1) |-> Def(g, k)]
  <2>2. \A k \in 0..n : h[k] = g[k]
    <3> HIDE DEF Def
    <3> QED  BY <2>1
  <2>3. \A k \in 0..(n + 1) : Def(h, k) = Def(g, k)
    <3> HIDE DEF h
    <3> QED  BY <2>2
  <2> HIDE DEF Def
  <2>4. h = [k \in 0..(n + 1) |-> Def(h, k)]  BY <2>3
  <2> HIDE DEF h
  <2> QED  BY <2>4
<1>3. Q(N)
  <2> DEFINE T == {n \in 0..N : Q(n)}
  <2> HIDE DEF Q
  <2>1. 0 \in T /\ \A k \in 0..(N - 1) : k \in T => k + 1 \in T  BY <1>1, <1>2
  <2> HIDE DEF T
  <2>2. \A k \in 0..N : k \in T  BY <2>1, Climb
  <2> QED  BY <2>2 DEF T
<1>4. r = [k \in 0..N |-> Def(r, k)]
  <2> HIDE DEF Def
  <2> QED  BY <1>3
<1>5. FullestWindow(v) = r[N].best  BY DEF FullestWindow, Turn
<1> HIDE DEF r
<1>6. \A k \in 0..N : r[k] = Def(r, k)
  <2> HIDE DEF Def
  <2> QED  BY <1>4
<1>7. r[0] = [right |-> 0, best |-> <<>>]  BY <1>6
<1>8. ASSUME NEW k \in 0..(N - 1) PROVE r[k + 1] = Turn(v, r[k], k + 1)
  <2>1. k + 1 \in 0..N /\ k + 1 # 0 /\ (k + 1) - 1 = k  OBVIOUS
  <2>2. r[k + 1] = Def(r, k + 1)  BY <1>6, <2>1
  <2> QED  BY <2>1, <2>2
<1> QED  BY <1>5, <1>7, <1>8

(* The elevations from the one at a place on, as far as the band goes. *)
Wide(v, a, b) ==
  /\ a \in 1..Len(v) /\ b \in a..Len(v)
  /\ v[b] - v[a] <= Band
  /\ b < Len(v) => v[b + 1] - v[a] > Band

Sorted(v) == v \in Seq(Int) /\ \A i, j \in 1..Len(v) : i <= j => v[i] <= v[j]

LEMMA OneWide ==
  ASSUME NEW v, Sorted(v), NEW a, NEW b, NEW c, Wide(v, a, b), Wide(v, a, c)
  PROVE  b = c
<1>1. \A i \in 1..Len(v) : v[i] \in Int  BY DEF Sorted
<1>2. Len(v) \in Nat  BY DEF Sorted
<1>3. a \in 1..Len(v) /\ b \in 1..Len(v) /\ c \in 1..Len(v)  BY <1>2 DEF Wide
<1>4. ASSUME NEW x \in 1..Len(v), NEW y \in 1..Len(v), Wide(v, a, x), Wide(v, a, y), x < y PROVE FALSE
  <2>1. x + 1 \in 1..Len(v) /\ x + 1 <= y /\ x < Len(v)  BY <1>2, <1>4
  <2>2. v[x + 1] <= v[y] /\ v[x + 1] - v[a] > Band /\ v[y] - v[a] <= Band
    BY <1>4, <2>1 DEF Wide, Sorted
  <2> QED  BY <1>1, <1>3, <2>1, <2>2 DEF Band
<1> QED  BY <1>3, <1>4, <1>2

LEMMA ReachesWide ==
  ASSUME NEW v, Sorted(v), NEW left \in 1..Len(v), NEW right \in left..Len(v),
         v[right] - v[left] <= Band
  PROVE  Wide(v, left, ReachesTo(v, left, right))
<1> DEFINE S == {r \in right..Len(v) : \A j \in (right + 1)..r : v[j] - v[left] <= Band}
           b == Largest(S)
<1>1. Len(v) \in Nat /\ right \in Nat  BY DEF Sorted
<1>2. right \in S /\ S \subseteq Int /\ \A n \in S : n <= Len(v)  BY <1>1
<1>3. b \in S /\ \A n \in S : n <= b
  <2>1. S # {} /\ S \subseteq Int /\ Len(v) \in Int /\ \A n \in S : n <= Len(v)  BY <1>1, <1>2
  <2> HIDE DEF S
  <2>2. Largest(S) \in S /\ \A n \in S : n <= Largest(S)  BY <2>1, LargestOfFinite
  <2> QED  BY <2>2
<1> HIDE DEF b
<1>4. b \in right..Len(v) /\ \A j \in (right + 1)..b : v[j] - v[left] <= Band  BY <1>3
<1>5. v[b] - v[left] <= Band
  <2>1. CASE b = right  BY <2>1
  <2>2. CASE b # right  BY <1>1, <1>4, <2>2
  <2> QED  BY <2>1, <2>2
<1>6. ASSUME b < Len(v) PROVE v[b + 1] - v[left] > Band
  <2>1. b + 1 \notin S  BY <1>1, <1>3, <1>4
  <2>2. b + 1 \in right..Len(v)  BY <1>1, <1>4, <1>6
  <2>3. PICK j \in (right + 1)..(b + 1) : ~ (v[j] - v[left] <= Band)  BY <2>1, <2>2
  <2>4. j = b + 1  BY <1>1, <1>4, <2>2, <2>3
  <2>5. v[b + 1] \in Int /\ v[left] \in Int
    <3>1. b + 1 \in 1..Len(v)  BY <1>1, <2>2
    <3> QED  BY <3>1 DEF Sorted
  <2> QED  BY <2>3, <2>4, <2>5 DEF Band
<1>7. b \in left..Len(v)  BY <1>1, <1>4
<1> QED  BY <1>5, <1>6, <1>7 DEF Wide, ReachesTo, b

(* What the scan has after the places up to one: the widest window so far. *)
Scanned(v, k, s) ==
  IF k = 0 THEN s.right = 0 /\ s.best = <<>>
  ELSE /\ Wide(v, k, s.right)
       /\ \E a \in 1..k : \E b \in a..Len(v) :
            /\ Wide(v, a, b) /\ s.best = SubSeq(v, a, b)
            /\ \A c \in 1..k, d \in 1..Len(v) : Wide(v, c, d) => d - c <= b - a

LEMMA WindowLength ==
  ASSUME NEW v, Sorted(v), NEW a \in 1..Len(v), NEW b \in a..Len(v)
  PROVE  /\ Len(SubSeq(v, a, b)) = b - a + 1
         /\ \A i \in 1..(b - a + 1) : SubSeq(v, a, b)[i] = v[a + i - 1]
<1>1. a \in Int /\ b \in Int /\ a <= b /\ \A i \in a..b : v[i] \in Int  BY DEF Sorted
<1> QED  BY <1>1, SubSeqProperties

LEMMA TurnScans ==
  ASSUME NEW v, Sorted(v), NEW k \in 0..(Len(v) - 1), NEW s, Scanned(v, k, s)
  PROVE  Scanned(v, k + 1, Turn(v, s, k + 1))
<1> DEFINE left  == k + 1
           m     == Largest({s.right, left})
           right == ReachesTo(v, left, m)
           w     == SubSeq(v, left, right)
           t     == Turn(v, s, left)
<1>0. Len(v) \in Nat /\ left \in 1..Len(v) /\ k \in Nat /\ \A i \in 1..Len(v) : v[i] \in Int  BY DEF Sorted
<1>1. s.right \in 0..Len(v)
  <2>1. CASE k = 0  BY <1>0, <2>1 DEF Scanned
  <2>2. CASE k # 0
    <3>1. Wide(v, k, s.right)  BY <2>2 DEF Scanned
    <3>2. s.right \in k..Len(v)  BY <3>1 DEF Wide
    <3> QED  BY <1>0, <3>2
  <2> QED  BY <2>1, <2>2
<1>2. m \in {s.right, left} /\ m >= left
  <2>1. {s.right, left} # {} /\ {s.right, left} \subseteq Int /\ Len(v) \in Int
        /\ \A n \in {s.right, left} : n <= Len(v)
    BY <1>0, <1>1
  <2>2. m \in {s.right, left} /\ \A n \in {s.right, left} : n <= m  BY <2>1, LargestOfFinite
  <2> QED  BY <2>2
<1> HIDE DEF m
<1>3. m \in left..Len(v)  BY <1>0, <1>1, <1>2
<1>4. v[m] - v[left] <= Band
  <2>1. CASE m = left  BY <1>0, <2>1 DEF Band
  <2>2. CASE m # left
    <3>1. m = s.right /\ m > left  BY <1>0, <1>2, <1>3, <2>2
    <3>2. k # 0  BY <1>0, <3>1 DEF Scanned
    <3>3. Wide(v, k, m)  BY <3>1, <3>2 DEF Scanned
    <3>4. v[m] - v[k] <= Band /\ v[k] <= v[left]
      BY <1>0, <3>2, <3>3 DEF Wide, Sorted
    <3>5. v[m] \in Int /\ v[k] \in Int /\ v[left] \in Int  BY <1>0, <1>3, <3>2
    <3> QED  BY <3>4, <3>5 DEF Band
  <2> QED  BY <2>1, <2>2
<1>5. Wide(v, left, right)  BY <1>0, <1>3, <1>4, ReachesWide
<1>6. /\ t.right = right
      /\ t.best = IF Len(w) > Len(s.best) THEN w ELSE s.best
  BY DEF Turn, m
<1> HIDE DEF right, t
<1>7. right \in left..Len(v)  BY <1>5 DEF Wide
<1>8. Len(w) = right - left + 1  BY <1>0, <1>7, WindowLength
<1>9. ASSUME NEW d \in 1..Len(v), Wide(v, left, d) PROVE d = right  BY <1>5, <1>9, OneWide
<1> HIDE DEF w
<1>10. \E a \in 1..left : \E b \in a..Len(v) :
            /\ Wide(v, a, b) /\ t.best = SubSeq(v, a, b)
            /\ \A c \in 1..left, d \in 1..Len(v) : Wide(v, c, d) => d - c <= b - a
  <2>1. CASE k = 0
    <3>1. Len(s.best) = 0  BY <2>1 DEF Scanned
    <3>2. t.best = w  BY <1>0, <1>6, <1>7, <1>8, <3>1
    <3>3. \A c \in 1..left : c = left  BY <2>1
    <3>4. \A c \in 1..left, d \in 1..Len(v) : Wide(v, c, d) => d - c <= right - left
      <4>1. ASSUME NEW c \in 1..left, NEW d \in 1..Len(v), Wide(v, c, d)
            PROVE  c = left /\ d = right
        <5>1. c = left  BY <3>3
        <5> QED  BY <1>9, <4>1, <5>1
      <4>2. left \in Int /\ right \in Int  BY <1>0, <1>7
      <4>3. right - left <= right - left  BY <4>2
      <4> QED  BY <4>1, <4>3
    <3> QED  BY <1>0, <1>5, <1>7, <3>2, <3>4 DEF w
  <2>2. CASE k # 0
    <3>1. PICK a \in 1..k : \E b \in a..Len(v) :
            /\ Wide(v, a, b) /\ s.best = SubSeq(v, a, b)
            /\ \A c \in 1..k, d \in 1..Len(v) : Wide(v, c, d) => d - c <= b - a
      BY <2>2 DEF Scanned
    <3>2. PICK b \in a..Len(v) :
            /\ Wide(v, a, b) /\ s.best = SubSeq(v, a, b)
            /\ \A c \in 1..k, d \in 1..Len(v) : Wide(v, c, d) => d - c <= b - a
      BY <3>1
    <3>3. Len(s.best) = b - a + 1  BY <1>0, <3>2, WindowLength
    <3>4. \A c \in 1..left : c \in 1..k \/ c = left  BY <1>0
    <3>5. CASE Len(w) > Len(s.best)
      <4>1. right - left > b - a  BY <1>0, <1>7, <1>8, <3>3, <3>5
      <4>2. ASSUME NEW c \in 1..left, NEW d \in 1..Len(v), Wide(v, c, d) PROVE d - c <= right - left
        <5>1. CASE c = left  BY <1>0, <1>7, <1>9, <4>2, <5>1
        <5>2. CASE c \in 1..k
          <6>1. d - c <= b - a  BY <3>2, <4>2, <5>2
          <6> QED  BY <1>0, <1>7, <4>1, <6>1
        <5> QED  BY <3>4, <5>1, <5>2
      <4>3. t.best = SubSeq(v, left, right)  BY <1>6, <3>5 DEF w
      <4>4. left \in 1..left  BY <1>0
      <4> QED  BY <1>5, <1>7, <4>2, <4>3, <4>4
    <3>6. CASE ~ (Len(w) > Len(s.best))
      <4>1. right - left <= b - a  BY <1>0, <1>7, <1>8, <3>3, <3>6
      <4>2. ASSUME NEW c \in 1..left, NEW d \in 1..Len(v), Wide(v, c, d) PROVE d - c <= b - a
        <5>1. CASE c = left
          <6>1. d = right  BY <1>9, <4>2, <5>1
          <6> QED  BY <4>1, <5>1, <6>1
        <5>2. CASE c \in 1..k  BY <3>2, <4>2, <5>2
        <5> QED  BY <3>4, <5>1, <5>2
      <4>3. t.best = SubSeq(v, a, b)  BY <1>6, <3>2, <3>6
      <4>4. a \in 1..left  BY <1>0
      <4> QED  BY <3>2, <4>2, <4>3, <4>4
    <3> QED  BY <3>5, <3>6
  <2> QED  BY <2>1, <2>2
<1>11. Wide(v, left, t.right)  BY <1>5, <1>6
<1>12. left # 0  BY <1>0
<1> HIDE DEF left
<1>13. Scanned(v, left, t)  BY <1>10, <1>11, <1>12 DEF Scanned
<1> QED  BY <1>13 DEF t, left

(* The scan finds a window as long as any. *)
LEMMA FullestIsWidest ==
  ASSUME NEW v, Sorted(v)
  PROVE  IF Len(v) = 0 THEN FullestWindow(v) = <<>>
         ELSE \E a \in 1..Len(v) : \E b \in a..Len(v) :
                /\ Wide(v, a, b) /\ FullestWindow(v) = SubSeq(v, a, b)
                /\ \A c \in 1..Len(v), d \in 1..Len(v) : Wide(v, c, d) => d - c <= b - a
<1> DEFINE N == Len(v)
<1>1. N \in Nat  BY DEF Sorted
<1>2. PICK f : /\ f[0] = [right |-> 0, best |-> <<>>]
               /\ \A k \in 0..(N - 1) : f[k + 1] = Turn(v, f[k], k + 1)
               /\ FullestWindow(v) = f[N].best
  BY <1>1, ScanTurns
<1> DEFINE T == {k \in 0..N : Scanned(v, k, f[k])}
<1>3. 0 \in T  BY <1>1, <1>2 DEF Scanned
<1>4. ASSUME NEW k \in 0..(N - 1), k \in T PROVE k + 1 \in T
  <2>1. Scanned(v, k, f[k])  BY <1>4
  <2>2. Scanned(v, k + 1, Turn(v, f[k], k + 1))  BY <2>1, TurnScans
  <2>3. k + 1 \in 0..N  BY <1>1
  <2> QED  BY <1>2, <2>2, <2>3
<1>5. N \in T
  <2> HIDE DEF T
  <2>1. \A k \in 0..N : k \in T  BY <1>1, <1>3, <1>4, Climb
  <2> QED  BY <1>1, <2>1
<1>6. Scanned(v, N, f[N])  BY <1>5
<1> HIDE DEF T
<1>7. CASE N = 0  BY <1>2, <1>6, <1>7 DEF Scanned
<1>8. CASE N # 0  BY <1>2, <1>6, <1>8 DEF Scanned
<1> QED  BY <1>7, <1>8

(* The elevation a sheet's decimals point at, and how many are near one. *)
Within(v, low) == Cardinality({k \in DOMAIN v : v[k] \in low..(low + Band)})
Densest(sheet) ==
  LET v == Explicit(sheet)
      most == Largest({Within(v, v[k]) : k \in DOMAIN v})
  IN  IF Centre(sheet) = NoElevation THEN v = <<>> \/ most < 3
      ELSE \E k \in DOMAIN v : /\ Within(v, v[k]) = most /\ most >= 3
                               /\ Centre(sheet) \in (2 * v[k])..(2 * (v[k] + Band))

(* No elevation has more near it than the widest window holds. *)
LEMMA WidestHoldsMost ==
  ASSUME NEW v, Sorted(v), NEW n \in Int,
         \A c \in 1..Len(v), d \in 1..Len(v) : Wide(v, c, d) => d - c + 1 <= n,
         NEW k \in 1..Len(v)
  PROVE  Within(v, v[k]) \in Nat /\ Within(v, v[k]) <= n
<1> DEFINE S == {j \in DOMAIN v : v[j] \in v[k]..(v[k] + Band)}
           B == {i \in 1..Len(v) : v[i] = v[k]}
<1>1. Len(v) \in Nat /\ DOMAIN v = 1..Len(v) /\ \A i \in 1..Len(v) : v[i] \in Int  BY DEF Sorted
<1>2. PICK f \in B : \A i \in B : f <= i
  <2>1. B \subseteq Nat /\ B # {}  OBVIOUS
  <2> HIDE DEF B
  <2> QED  BY <2>1, Least
<1>3. f \in 1..Len(v) /\ v[f] = v[k] /\ f \in f..Len(v) /\ v[f] - v[f] <= Band
  BY <1>1 DEF Band
<1> DEFINE d == ReachesTo(v, f, f)
<1>4. Wide(v, f, d)  BY <1>3, ReachesWide
<1> HIDE DEF d
<1>5. d \in f..Len(v) /\ d \in 1..Len(v)  BY <1>1, <1>3, <1>4 DEF Wide
<1>6. S \in SUBSET (f..d)
  <2>1. ASSUME NEW j \in S PROVE j \in f..d
    <3>1. j \in 1..Len(v) /\ v[k] <= v[j] /\ v[j] <= v[k] + Band  BY <1>1
    <3>2. ASSUME j < f PROVE FALSE
      <4>1. v[j] <= v[f]  BY <1>3, <3>1, <3>2 DEF Sorted
      <4>2. v[j] = v[k]  BY <1>1, <1>3, <3>1, <4>1
      <4>3. f <= j  BY <1>2, <3>1, <4>2
      <4> QED  BY <1>1, <1>3, <3>1, <3>2, <4>3
    <3>3. ASSUME j > d PROVE FALSE
      <4>1. d + 1 \in 1..Len(v) /\ d + 1 <= j /\ d < Len(v)  BY <1>1, <1>5, <3>1, <3>3
      <4>2. v[d + 1] <= v[j] /\ v[d + 1] - v[f] > Band
        BY <1>4, <3>1, <4>1 DEF Sorted, Wide
      <4> QED  BY <1>1, <1>3, <3>1, <4>1, <4>2 DEF Band
    <3> QED  BY <1>1, <1>3, <1>5, <3>1, <3>2, <3>3
  <2> QED  BY <2>1
<1> HIDE DEF S, B
<1>7. f \in Int /\ d \in Int /\ f <= d  BY <1>1, <1>3, <1>5
<1>8. IsFiniteSet(f..d) /\ Cardinality(f..d) = d - f + 1  BY <1>7, FS_Interval
<1>9. Cardinality(S) \in Nat /\ Cardinality(S) <= d - f + 1
  BY <1>6, <1>8, FS_Subset, FS_CardinalityType
<1>10. d - f + 1 <= n  BY <1>3, <1>4, <1>5
<1>11. Cardinality(S) <= n  BY <1>7, <1>9, <1>10
<1> QED  BY <1>9, <1>11 DEF S, Within

(* The centre is judged by the most elevations any stretch has. *)
LEMMA CentreIsDensest ==
  ASSUME NEW sheet \in Sheet
  PROVE  Densest(sheet)
<1> DEFINE v == Explicit(sheet)
           w == FullestWindow(v)
           Counts == {Within(v, v[k]) : k \in DOMAIN v}
           most == Largest(Counts)
<1>1. Sorted(v) /\ Len(v) \in Nat /\ DOMAIN v = 1..Len(v) /\ \A i \in 1..Len(v) : v[i] \in Int
  BY ExplicitSorted DEF Sorted
<1>2. Centre(sheet) = IF Len(w) < 3 THEN NoElevation ELSE TwiceMedian(w)  BY DEF Centre
<1>3. Densest(sheet) <=>
        IF Centre(sheet) = NoElevation THEN v = <<>> \/ most < 3
        ELSE \E k \in DOMAIN v : /\ Within(v, v[k]) = most /\ most >= 3
                                 /\ Centre(sheet) \in (2 * v[k])..(2 * (v[k] + Band))
  BY DEF Densest
<1> HIDE DEF v
<1>4. CASE Len(v) = 0
  <2>1. w = <<>>  BY <1>1, <1>4, FullestIsWidest
  <2>2. Len(w) < 3  BY <2>1
  <2>3. v = <<>>  BY <1>1, <1>4 DEF Sorted
  <2> QED  BY <1>2, <1>3, <2>2, <2>3
<1>5. CASE Len(v) # 0
  <2>0. PICK a \in 1..Len(v) : \E b \in a..Len(v) :
                /\ Wide(v, a, b) /\ w = SubSeq(v, a, b)
                /\ \A c \in 1..Len(v), d \in 1..Len(v) : Wide(v, c, d) => d - c <= b - a
    BY <1>1, <1>5, FullestIsWidest
  <2>1. PICK b \in a..Len(v) :
                /\ Wide(v, a, b) /\ w = SubSeq(v, a, b)
                /\ \A c \in 1..Len(v), d \in 1..Len(v) : Wide(v, c, d) => d - c <= b - a
    BY <2>0
  <2> DEFINE n == b - a + 1
  <2>2. a \in Nat /\ b \in Nat /\ a <= b /\ b <= Len(v) /\ a >= 1 /\ n \in Nat  BY <1>1
  <2> HIDE DEF w
  <2>3. Len(w) = n /\ \A i \in 1..n : w[i] = v[a + i - 1]  BY <1>1, <2>1, WindowLength
  <2>4. \A c \in 1..Len(v), d \in 1..Len(v) : Wide(v, c, d) => d - c + 1 <= n  BY <2>1, <2>2
  <2>5. \A i \in a..b : v[a] <= v[i] /\ v[i] <= v[a] + Band
    <3> TAKE i \in a..b
    <3>1. i \in 1..Len(v) /\ b \in 1..Len(v) /\ a <= i /\ i <= b  BY <1>1, <2>2
    <3>2. v[a] <= v[i] /\ v[i] <= v[b]  BY <1>1, <3>1 DEF Sorted
    <3>3. v[b] - v[a] <= Band  BY <2>1 DEF Wide
    <3> QED  BY <1>1, <3>1, <3>2, <3>3 DEF Band
  <2> HIDE DEF n
  <2>6. \A k \in 1..Len(v) : Within(v, v[k]) \in Nat /\ Within(v, v[k]) <= n
    <3>1. Sorted(v) /\ n \in Int  BY <1>1, <2>2
    <3> QED  BY <2>4, <3>1, WidestHoldsMost
  <2>7. Within(v, v[a]) = n
    <3> DEFINE S == {j \in DOMAIN v : v[j] \in v[a]..(v[a] + Band)}
    <3>1. a..b \in SUBSET S  BY <1>1, <2>2, <2>5 DEF Band
    <3>2. IsFiniteSet(1..Len(v)) /\ S \in SUBSET 1..Len(v)  BY <1>1, FS_Interval
    <3>3. Cardinality(a..b) = n  BY <2>2, FS_Interval DEF n
    <3> HIDE DEF S
    <3>4. IsFiniteSet(S)  BY <3>2, FS_Subset
    <3>5. Cardinality(S) \in Nat /\ n <= Cardinality(S)
      BY <3>1, <3>3, <3>4, FS_Subset, FS_CardinalityType
    <3>6. Within(v, v[a]) = Cardinality(S)  BY DEF Within, S
    <3> QED  BY <2>2, <2>6, <3>5, <3>6
  <2>8. most = n
    <3>1. n \in Counts /\ Counts \subseteq Int /\ Counts # {} /\ \A m \in Counts : m <= n
      BY <1>1, <2>6, <2>7
    <3> HIDE DEF Counts
    <3>2. most \in Counts /\ \A m \in Counts : m <= most  BY <2>2, <3>1, LargestOfFinite
    <3> HIDE DEF most
    <3>3. most \in Int /\ most <= n /\ n <= most  BY <3>1, <3>2
    <3> QED  BY <2>2, <3>3
  <2> HIDE DEF most, Counts
  <2>9. CASE n < 3  BY <1>2, <1>3, <2>3, <2>8, <2>9
  <2>10. CASE ~ (n < 3)
    <3> DEFINE p == (n + 1) \div 2
               q == n \div 2 + 1
    <3>1. p \in 1..n /\ q \in 1..n  BY <2>2, <2>10
    <3>2. Centre(sheet) = w[p] + w[q]  BY <1>2, <2>3, <2>10 DEF TwiceMedian
    <3> HIDE DEF p, q
    <3>3. a + p - 1 \in a..b /\ a + q - 1 \in a..b  BY <2>2, <3>1 DEF n
    <3> DEFINE x == v[a + p - 1]
               y == v[a + q - 1]
    <3>4. x \in Int /\ y \in Int /\ v[a] \in Int  BY <1>1, <2>2, <3>3
    <3>5. v[a] <= x /\ x <= v[a] + Band /\ v[a] <= y /\ y <= v[a] + Band  BY <2>5, <3>3
    <3>6. Centre(sheet) = x + y  BY <2>3, <3>1, <3>2
    <3> HIDE DEF x, y
    <3>7. Centre(sheet) \in (2 * v[a])..(2 * (v[a] + Band))  BY <3>4, <3>5, <3>6 DEF Band
    <3>8. Centre(sheet) # NoElevation  BY <3>4, <3>6, ElevationAssumption
    <3>9. most >= 3  BY <2>2, <2>8, <2>10
    <3>10. a \in DOMAIN v  BY <1>1
    <3> QED  BY <1>3, <2>7, <2>8, <3>7, <3>8, <3>9, <3>10
  <2> QED  BY <2>9, <2>10
<1> QED  BY <1>4, <1>5

ElevationsInv ==
  input.kind = "elevations" => input.sheet \in Sheet

LEMMA ElevationsAreSheets ==
  Spec => []ElevationsInv
<1>1. Init => ElevationsInv  BY DEF Init, Blank, ElevationsInv
<1>2. ElevationsInv /\ [Next]_input => ElevationsInv'
  <2> SUFFICES ASSUME ElevationsInv, [Next]_input PROVE ElevationsInv'  OBVIOUS
  <2>1. CASE ReadNumber  BY <2>1 DEF ReadNumber, ElevationsInv
  <2>2. CASE ReadCoordinate  BY <2>2 DEF ReadCoordinate, ElevationsInv
  <2>3. CASE ReadSheet  BY <2>3 DEF ReadSheet, ElevationsInv
  <2>4. CASE ReadCrowd \/ ReadDoubtful  BY <2>4 DEF ReadCrowd, ReadDoubtful, ElevationsInv
  <2>5. CASE ReadElevations
    <3>1. PICK n \in 1..MaxValues : \E numbers \in [1..n -> Elevations] :
            input' = [kind |-> "elevations", sheet |-> [labels |-> Plain(numbers), symbols |-> <<>>]]
      BY <2>5 DEF ReadElevations
    <3>2. PICK numbers \in [1..n -> Elevations] :
            input' = [kind |-> "elevations", sheet |-> [labels |-> Plain(numbers), symbols |-> <<>>]]
      BY <3>1
    <3>3. n \in Nat  BY ReadingsAssumption
    <3>4. ASSUME NEW k \in 1..n PROVE LabelAt(90, Label("decimal", numbers[k], "nothing", "open")) \in Text
      <4>1. numbers[k] \in Int  BY DEF Elevations
      <4> QED  BY <4>1 DEF LabelAt, Label, Text, Forms, StrictTypes
    <3> DEFINE L == Plain(numbers)
    <3>5. L = [k \in 1..n |-> LabelAt(90, Label("decimal", numbers[k], "nothing", "open"))]
      BY DEF Plain
    <3>6. L \in Seq(Text)
      <4> HIDE DEF L
      <4> DEFINE at(k) == LabelAt(90, Label("decimal", numbers[k], "nothing", "open"))
      <4>1. \A k \in 1..n : at(k) \in Text  BY <3>4
      <4>2. L = [k \in 1..n |-> at(k)]  BY <3>5
      <4> HIDE DEF at
      <4> QED  BY <3>3, <4>1, <4>2
    <3>7. <<>> \in Seq(Mark)  OBVIOUS
    <3> HIDE DEF L
    <3>8. [labels |-> L, symbols |-> <<>>] \in Sheet  BY <3>6, <3>7 DEF Sheet
    <3> QED  BY <3>2, <3>8 DEF ElevationsInv, L
  <2>6. CASE UNCHANGED input  BY <2>6 DEF ElevationsInv
  <2> QED  BY <2>1, <2>2, <2>3, <2>4, <2>5, <2>6 DEF Next
<1> QED  BY <1>1, <1>2, PTL DEF Spec

(* The elevation a missing decimal point is judged by lies among the most
   elevations any stretch of twenty of the sheet has, of any number of them and
   whatever their order: the scan of one window never passes the fullest. *)
THEOREM BandIsDensest ==
  Spec => []LocalBandIsDensest
<1>1. ElevationsInv => LocalBandIsDensest
  <2> SUFFICES ASSUME input.sheet \in Sheet PROVE LocalBandIsDensest
    BY DEF ElevationsInv, LocalBandIsDensest
  <2>1. Densest(input.sheet)  BY CentreIsDensest
  <2> QED  BY <2>1 DEF Densest, Within, LocalBandIsDensest
<1>2. Spec => []ElevationsInv  BY ElevationsAreSheets
<1> QED  BY <1>1, <1>2, PTL
-----------------------------------------------------------------------------
(* Numbers of texts of any length. *)

Writing == Seq(Characters)

LEMMA StripIsText ==
  ASSUME NEW text \in Writing
  PROVE  Strip(text) \in Writing
<1> DEFINE ink == {i \in DOMAIN text : text[i] # "space"}
           a == CHOOSE i \in ink : \A j \in ink : i <= j
           b == CHOOSE i \in ink : \A j \in ink : i >= j
<1>1. Strip(text) = IF ink = {} THEN <<>> ELSE SubSeq(text, a, b)  BY DEF Strip
<1>2. DOMAIN text = 1..Len(text) /\ Len(text) \in Nat  BY DEF Writing
<1>3. CASE ink = {}
  <2>1. <<>> \in Writing  BY DEF Writing
  <2> QED  BY <1>1, <1>3, <2>1
<1>4. CASE ink # {}
  <2>1. ink \subseteq Nat /\ ink \subseteq Int /\ \A n \in ink : n <= Len(text)  BY <1>2
  <2>2. \A n \in ink : n \in 1..Len(text)  BY <1>2
  <2> HIDE DEF ink
  <2>3. a \in ink
    <3>1. \E x \in ink : \A y \in ink : x <= y  BY <1>4, <2>1, Least
    <3> QED  BY <3>1
  <2>4. b \in ink
    <3>1. Largest(ink) \in ink /\ \A n \in ink : n <= Largest(ink)
      <4>1. Len(text) \in Int  BY <1>2
      <4> QED  BY <1>4, <2>1, <4>1, LargestOfFinite
    <3>2. \A n \in ink : Largest(ink) >= n  BY <2>1, <3>1
    <3> QED  BY <3>1, <3>2
  <2> HIDE DEF a, b
  <2>5. a \in 1..Len(text) /\ b \in 1..Len(text)  BY <2>2, <2>3, <2>4
  <2>6. a \in Int /\ b \in Int /\ \A i \in a..b : text[i] \in Characters
    BY <1>2, <2>5 DEF Writing
  <2>7. SubSeq(text, a, b) \in Writing  BY <2>6, SubSeqProperties DEF Writing
  <2> QED  BY <1>1, <1>4, <2>7
<1> QED  BY <1>3, <1>4

(* The run of a digit holds every digit it runs to, and its last digit comes
   after none of them. *)
LEMMA RunHoldsDigits ==
  ASSUME NEW t \in Writing, NEW i \in DOMAIN t, t[i] = "digit"
  PROVE  /\ LastDigit(t, i) \in i..Len(t)
         /\ \A j \in i..Len(t) : t[j] = "digit" /\ RunOf(t, i, j) => j <= LastDigit(t, i)
<1> DEFINE S == {j \in i..Len(t) : RunOf(t, i, j)}
           end == RunEnd(t, i)
           D == {j \in i..end : t[j] = "digit"}
           Ends(j) == RunOf(t, i, j) /\ ~Is(t, j + 1, {"digit"} \cup Separators)
<1>1. DOMAIN t = 1..Len(t) /\ Len(t) \in Nat /\ i \in 1..Len(t)  BY DEF Writing
<1>2. \E j \in i..Len(t) : Ends(j)
  <2>1. i \in S  BY <1>1 DEF RunOf
  <2>2. S # {} /\ S \subseteq Int /\ Len(t) \in Int /\ \A n \in S : n <= Len(t)  BY <1>1, <2>1
  <2> DEFINE j == Largest(S)
  <2>3. j \in S /\ \A n \in S : n <= j
    <3> HIDE DEF S
    <3> QED  BY <2>2, LargestOfFinite
  <2> HIDE DEF j
  <2>4. j \in i..Len(t) /\ RunOf(t, i, j)  BY <2>3
  <2>5. ASSUME Is(t, j + 1, {"digit"} \cup Separators) PROVE FALSE
    <3>1. j + 1 \in i..Len(t)  BY <1>1, <2>4, <2>5 DEF Is
    <3>2. \A k \in i..(j + 1) : k \in i..j \/ k = j + 1  BY <1>1, <2>4
    <3>3. RunOf(t, i, j + 1)  BY <2>4, <2>5, <3>2 DEF RunOf, Is
    <3>4. j + 1 \in S  BY <3>1, <3>3
    <3> QED  BY <1>1, <2>3, <2>4, <3>4
  <2> QED  BY <2>4, <2>5
<1>3. end \in i..Len(t) /\ Ends(end)
  <2>1. end = CHOOSE j \in i..Len(t) : Ends(j)  BY DEF RunEnd
  <2> HIDE DEF Ends, end
  <2> QED  BY <1>2, <2>1
<1> HIDE DEF end
<1>4. ASSUME NEW j \in i..Len(t), RunOf(t, i, j) PROVE j <= end
  <2> SUFFICES ASSUME j > end PROVE FALSE  BY <1>1, <1>3
  <2>1. end + 1 \in i..j /\ end + 1 \in 1..Len(t)  BY <1>1, <1>3
  <2> QED  BY <1>1, <1>3, <1>4, <2>1 DEF RunOf, Is
<1>5. \E j \in i..end : t[j] = "digit" /\ \A k \in (j + 1)..end : t[k] # "digit"
  <2>1. D # {} /\ D \subseteq Int /\ end \in Int /\ \A n \in D : n <= end  BY <1>1, <1>3
  <2> DEFINE j == Largest(D)
  <2>2. j \in D /\ \A n \in D : n <= j
    <3> HIDE DEF D
    <3> QED  BY <2>1, LargestOfFinite
  <2> HIDE DEF j
  <2>3. ASSUME NEW k \in (j + 1)..end, t[k] = "digit" PROVE FALSE
    <3>1. k \in D  BY <1>1, <1>3, <2>2, <2>3
    <3> QED  BY <1>1, <2>2, <2>3, <3>1
  <2> QED  BY <2>2, <2>3
<1> DEFINE last == LastDigit(t, i)
<1>6. last \in i..end /\ \A k \in (last + 1)..end : t[k] # "digit"
  <2>1. last = CHOOSE j \in i..end : t[j] = "digit" /\ \A k \in (j + 1)..end : t[k] # "digit"
    BY DEF LastDigit, end
  <2> HIDE DEF last
  <2> QED  BY <1>5, <2>1
<1> HIDE DEF last
<1>7. ASSUME NEW j \in i..Len(t), t[j] = "digit", RunOf(t, i, j) PROVE j <= last
  <2>1. j <= end  BY <1>4, <1>7
  <2> QED  BY <1>1, <1>3, <1>6, <1>7, <2>1
<1>8. last \in i..Len(t)  BY <1>1, <1>3, <1>6
<1> QED  BY <1>7, <1>8 DEF last

(* As many of a kind are in a piece of a text as in that stretch of it. *)
LEMMA CountOfPiece ==
  ASSUME NEW t \in Writing, NEW a \in 1..(Len(t) + 1), NEW b \in (a - 1)..Len(t), NEW kind
  PROVE  /\ IsFiniteSet({i \in a..b : t[i] = kind})
         /\ Count(SubSeq(t, a, b), kind) = Cardinality({i \in a..b : t[i] = kind})
         /\ Len(SubSeq(t, a, b)) = b - a + 1 /\ SubSeq(t, a, b) \in Writing
<1> DEFINE s == SubSeq(t, a, b)
           A == {i \in a..b : t[i] = kind}
           C == {k \in DOMAIN s : s[k] = kind}
           f == [i \in A |-> i - a + 1]
<1>1. Len(t) \in Nat /\ a \in Int /\ b \in Int /\ \A i \in a..b : t[i] \in Characters  BY DEF Writing
<1>2. s \in Seq(Characters) /\ Len(s) = b - a + 1 /\ \A k \in 1..(b - a + 1) : s[k] = t[a + k - 1]
  BY <1>1, SubSeqProperties
<1> HIDE DEF s
<1>3. DOMAIN s = 1..(b - a + 1)  BY <1>2
<1>4. IsFiniteSet(A)
  <2>1. IsFiniteSet(a..b)  BY <1>1, FS_Interval
  <2>2. A \in SUBSET (a..b)  OBVIOUS
  <2> HIDE DEF A
  <2> QED  BY <2>1, <2>2, FS_Subset
<1>5. f \in Bijection(A, C)
  <2>1. \A i \in A : i - a + 1 \in C
    <3> TAKE i \in A
    <3>1. i - a + 1 \in 1..(b - a + 1) /\ a + (i - a + 1) - 1 = i  BY <1>1
    <3>2. s[i - a + 1] = t[i]  BY <1>2, <3>1
    <3> QED  BY <1>3, <3>1, <3>2
  <2>2. \A k \in C : \E i \in A : k = i - a + 1
    <3> TAKE k \in C
    <3>1. k \in 1..(b - a + 1) /\ s[k] = kind  BY <1>3
    <3>2. a + k - 1 \in A
      <4>1. a + k - 1 \in a..b  BY <1>1, <3>1
      <4>2. t[a + k - 1] = kind  BY <1>2, <3>1
      <4> QED  BY <4>1, <4>2
    <3>3. k = (a + k - 1) - a + 1  BY <1>1, <3>1
    <3> QED  BY <3>2, <3>3
  <2>3. A \subseteq Int /\ a \in Int  BY <1>1
  <2> HIDE DEF A, C
  <2>4. f \in Surjection(A, C)  BY <2>1, <2>2 DEF Surjection
  <2>5. f \in Injection(A, C)  BY <2>1, <2>3 DEF Injection, IsInjective
  <2> QED  BY <2>4, <2>5 DEF Bijection
<1>6. Cardinality(C) = Cardinality(A)
  <2> HIDE DEF A, C, f
  <2>1. ExistsBijection(A, C)  BY <1>5 DEF ExistsBijection
  <2> QED  BY <1>4, <2>1, FS_Bijection
<1> QED  BY <1>2, <1>4, <1>6 DEF s, Count, Writing

(* What is made of a token has as many digits as the token. *)
OfAllDigits(x, t) ==
  \E w, f \in Nat : x = Value(FALSE, w, f) /\ w + f = Count(t, "digit")

LEMMA InterpretedDigits ==
  ASSUME NEW t \in Writing, NEW decimal \in Separators, NEW group,
         Interpreted(t, decimal, group) # NoValue
  PROVE  OfAllDigits(Interpreted(t, decimal, group), t)
<1> DEFINE marks == {i \in DOMAIN t : t[i] = decimal}
           m     == CHOOSE i \in marks : \A j \in marks : i <= j
           whole == IF marks = {} THEN t ELSE SubSeq(t, 1, m - 1)
           tail  == SubSeq(t, Len(whole) + 2, Len(t))
           D     == {i \in 1..Len(t) : t[i] = "digit"}
<1>1. Len(t) \in Nat /\ DOMAIN t = 1..Len(t)  BY DEF Writing
<1>2. /\ Interpreted(t, decimal, group) = Value(FALSE, Count(whole, "digit"), Len(tail))
      /\ Count(tail, "digit") = Len(tail)
  BY DEF Interpreted
<1>3. Count(t, "digit") = Cardinality(D) /\ IsFiniteSet(D) /\ Cardinality(D) \in Nat
  <2>1. D \in SUBSET (1..Len(t)) /\ IsFiniteSet(1..Len(t))  BY <1>1, FS_Interval
  <2>2. Count(t, "digit") = Cardinality(D)  BY <1>1 DEF Count
  <2> HIDE DEF D
  <2> QED  BY <2>1, <2>2, FS_Subset, FS_CardinalityType
<1>4. CASE marks = {}
  <2>1. whole = t  BY <1>4
  <2>2. tail = <<>>
    <3>1. Len(t) + 2 \in Int /\ Len(t) \in Int /\ Len(t) < Len(t) + 2  BY <1>1
    <3> HIDE DEF whole
    <3> QED  BY <2>1, <3>1, SubSeqEmpty
  <2> HIDE DEF whole, tail
  <2> DEFINE w == Count(whole, "digit")
             f == Len(tail)
  <2>3. f = 0 /\ w = Cardinality(D)  BY <1>3, <2>1, <2>2
  <2>4. w \in Nat /\ f \in Nat /\ w + f = Count(t, "digit")  BY <1>3, <2>3
  <2>5. Interpreted(t, decimal, group) = Value(FALSE, w, f)  BY <1>2
  <2> HIDE DEF w, f
  <2> QED  BY <2>4, <2>5 DEF OfAllDigits
<1>5. CASE marks # {}
  <2>1. m \in marks /\ \A j \in marks : m <= j
    <3>1. marks \subseteq Nat  BY <1>1
    <3> HIDE DEF marks
    <3>2. \E x \in marks : \A y \in marks : x <= y  BY <1>5, <3>1, Least
    <3> QED  BY <3>2
  <2>2. whole = SubSeq(t, 1, m - 1)  BY <1>5
  <2> HIDE DEF m
  <2>3. m \in 1..Len(t) /\ t[m] = decimal  BY <1>1, <2>1
  <2> DEFINE A == {i \in 1..(m - 1) : t[i] = "digit"}
             B == {i \in (m + 1)..Len(t) : t[i] = "digit"}
  <2>4. 1 \in 1..(Len(t) + 1) /\ m - 1 \in (1 - 1)..Len(t)
        /\ m + 1 \in 1..(Len(t) + 1) /\ Len(t) \in ((m + 1) - 1)..Len(t)
    BY <1>1, <2>3
  <2> HIDE DEF whole, marks
  <2>5. IsFiniteSet(A) /\ Count(whole, "digit") = Cardinality(A) /\ Len(whole) = m - 1
    <3> DEFINE b == m - 1
    <3>1. b \in (1 - 1)..Len(t) /\ b - 1 + 1 = m - 1  BY <2>3, <2>4
    <3> HIDE DEF b
    <3>2. /\ IsFiniteSet({i \in 1..b : t[i] = "digit"})
          /\ Count(SubSeq(t, 1, b), "digit") = Cardinality({i \in 1..b : t[i] = "digit"})
          /\ Len(SubSeq(t, 1, b)) = b - 1 + 1
      BY <2>4, <3>1, CountOfPiece
    <3> QED  BY <2>2, <3>1, <3>2 DEF b
  <2>6. Len(whole) + 2 = m + 1  BY <2>3, <2>5
  <2>7. tail = SubSeq(t, m + 1, Len(t))  BY <2>6
  <2> HIDE DEF tail
  <2>8. IsFiniteSet(B) /\ Count(tail, "digit") = Cardinality(B)
    <3> DEFINE a == m + 1
               b == Len(t)
    <3>1. a \in 1..(Len(t) + 1) /\ b \in (a - 1)..Len(t)  BY <2>4
    <3> HIDE DEF a, b, A, B
    <3>2. /\ IsFiniteSet({i \in a..b : t[i] = "digit"})
          /\ Count(SubSeq(t, a, b), "digit") = Cardinality({i \in a..b : t[i] = "digit"})
      BY <3>1, CountOfPiece
    <3> USE DEF B
    <3> QED  BY <2>7, <3>2 DEF a, b
  <2>9. D = A \cup B /\ A \cap B = {}
    <3>1. t[m] # "digit"  BY <2>3 DEF Separators
    <3>2. \A i \in 1..Len(t) : i \in 1..(m - 1) \/ i = m \/ i \in (m + 1)..Len(t)  BY <1>1, <2>3
    <3>3. \A i \in 1..(m - 1) : i \in 1..Len(t) /\ i \notin (m + 1)..Len(t)  BY <1>1, <2>3
    <3>4. \A i \in (m + 1)..Len(t) : i \in 1..Len(t)  BY <1>1, <2>3
    <3> QED  BY <3>1, <3>2, <3>3, <3>4
  <2> HIDE DEF A, B, D
  <2>10. Cardinality(D) = Cardinality(A) + Cardinality(B) /\ Cardinality(A) \in Nat /\ Cardinality(B) \in Nat
    <3>1. Cardinality(A \cup B) = Cardinality(A) + Cardinality(B) - Cardinality(A \cap B)
      BY <2>5, <2>8, FS_Union
    <3>2. Cardinality(A) \in Nat /\ Cardinality(B) \in Nat  BY <2>5, <2>8, FS_CardinalityType
    <3>3. Cardinality(A \cap B) = 0  BY <2>9, FS_EmptySet
    <3> QED  BY <2>9, <3>1, <3>2, <3>3
  <2> DEFINE w == Count(whole, "digit")
             f == Len(tail)
  <2>11. w \in Nat /\ f \in Nat /\ w + f = Count(t, "digit")
    BY <1>2, <1>3, <2>5, <2>8, <2>10
  <2>12. Interpreted(t, decimal, group) = Value(FALSE, w, f)  BY <1>2
  <2> HIDE DEF w, f
  <2> QED  BY <2>11, <2>12 DEF OfAllDigits
<1> QED  BY <1>4, <1>5

LEMMA InterpretDigits ==
  ASSUME NEW t \in Writing, NEW mode \in Modes, Interpret(t, mode) # NoValue
  PROVE  OfAllDigits(Interpret(t, mode), t)
<1>1. "." \in Separators /\ "," \in Separators  BY DEF Separators
<1>2. Interpret(t, mode) \in {Interpreted(t, ".", ","), Interpreted(t, ",", ".")}
  BY DEF Interpret, Modes
<1>3. CASE Interpret(t, mode) = Interpreted(t, ".", ",")
  <2>1. Interpreted(t, ".", ",") # NoValue  BY <1>3
  <2> QED  BY <1>1, <1>3, <2>1, InterpretedDigits
<1>4. CASE Interpret(t, mode) = Interpreted(t, ",", ".")
  <2>1. Interpreted(t, ",", ".") # NoValue  BY <1>4
  <2> QED  BY <1>1, <1>4, <2>1, InterpretedDigits
<1> QED  BY <1>2, <1>3, <1>4

(* The digits of a text that has one run of them are in that run. *)
LEMMA OneRun ==
  ASSUME NEW t \in Writing, NEW i, Firsts(t) = {i}
  PROVE  /\ i \in DOMAIN t /\ t[i] = "digit"
         /\ \A j \in DOMAIN t : t[j] = "digit" => i <= j /\ RunOf(t, i, j)
<1>1. DOMAIN t = 1..Len(t) /\ Len(t) \in Nat  BY DEF Writing
<1>2. i \in DOMAIN t /\ t[i] = "digit"  BY DEF Firsts
<1>3. ASSUME NEW j \in DOMAIN t, t[j] = "digit" PROVE i <= j /\ RunOf(t, i, j)
  <2> DEFINE B == {f \in 1..j : t[f] = "digit" /\ RunOf(t, f, j)}
  <2>1. j \in B  BY <1>1, <1>3 DEF RunOf
  <2>2. PICK f \in B : \A y \in B : f <= y
    <3>1. B \subseteq Nat /\ B # {}  BY <1>1, <2>1
    <3> HIDE DEF B
    <3> QED  BY <3>1, Least
  <2>3. f \in 1..j /\ t[f] = "digit" /\ RunOf(t, f, j)  BY <2>2
  <2>4. f \in Firsts(t)
    <3>1. f \in DOMAIN t  BY <1>1, <2>3
    <3>2. ASSUME NEW g \in 1..(f - 1), t[g] = "digit", RunOf(t, g, f) PROVE FALSE
      <4>1. g \in 1..j /\ g < f  BY <1>1, <2>3
      <4>2. \A k \in g..j : k \in g..f \/ k \in f..j  BY <1>1, <2>3
      <4>3. RunOf(t, g, j)  BY <2>3, <3>2, <4>2 DEF RunOf
      <4>4. g \in B  BY <3>2, <4>1, <4>3
      <4>5. f <= g  BY <2>2, <4>4
      <4> QED  BY <1>1, <2>3, <4>1, <4>5
    <3> QED  BY <2>3, <3>1, <3>2 DEF Firsts
  <2>5. f = i  BY <2>4
  <2> QED  BY <1>1, <2>3, <2>5
<1> QED  BY <1>2, <1>3

(* The token of a text that has one run of digits holds all of them. *)
LEMMA TokenHoldsDigits ==
  ASSUME NEW t \in Writing, NEW i \in Nat, Firsts(t) = {i}
  PROVE  /\ Count(Token(t, i), "digit") = Cardinality({k \in DOMAIN t : t[k] = "digit"})
         /\ Token(t, i) \in Writing
<1> DEFINE digits == {k \in DOMAIN t : t[k] = "digit"}
           last   == LastDigit(t, i)
<1>1. DOMAIN t = 1..Len(t) /\ Len(t) \in Nat  BY DEF Writing
<1>2. /\ i \in DOMAIN t /\ t[i] = "digit"
      /\ \A j \in DOMAIN t : t[j] = "digit" => i <= j /\ RunOf(t, i, j)
  BY OneRun
<1>3. /\ last \in i..Len(t)
      /\ \A j \in i..Len(t) : t[j] = "digit" /\ RunOf(t, i, j) => j <= last
  BY <1>2, RunHoldsDigits
<1>4. Token(t, i) = SubSeq(t, i, last)  BY DEF Token
<1> HIDE DEF last
<1>5. i \in 1..(Len(t) + 1) /\ last \in (i - 1)..Len(t)  BY <1>1, <1>2, <1>3
<1>6. digits = {k \in i..last : t[k] = "digit"}  BY <1>1, <1>2, <1>3
<1> HIDE DEF digits
<1>7. /\ Count(SubSeq(t, i, last), "digit") = Cardinality({k \in i..last : t[k] = "digit"})
      /\ SubSeq(t, i, last) \in Writing
  BY <1>5, CountOfPiece
<1> QED  BY <1>4, <1>6, <1>7 DEF digits

(* A text that is read has one run of digits, no sign that is not one, and is
   read as that run says. *)
IsRead(text, mode) == ParseNumber(text, mode).status = "OK"

LEMMA WhatIsRead ==
  ASSUME NEW text \in Writing, NEW mode \in Modes, IsRead(text, mode)
  PROVE  \E i \in Nat :
                /\ Firsts(Strip(text)) = {i}
                /\ ~SignViolation(Strip(text)) /\ ~Malformed(Strip(text), i, mode)
                /\ ParseNumber(text, mode) =
                     Outcome("OK", [Interpret(Token(Strip(text), i), mode)
                                      EXCEPT !.negative = Start(Strip(text), i) < i])
<1> DEFINE t == Strip(text)
           malformed == {i \in Firsts(t) : Malformed(t, i, mode)}
           candidates == Firsts(t) \ malformed
           i == CHOOSE i \in candidates : TRUE
           v == [Interpret(Token(t, i), mode) EXCEPT !.negative = Start(t, i) < i]
<1>1. ParseNumber(text, mode) =
        CASE t = <<>>                   -> Outcome("NO_NUMBER", NoValue)
          [] t # <<>> /\ SignViolation(t) -> Outcome("MALFORMED_NUMBER", NoValue)
          [] OTHER ->
               IF Cardinality(candidates) > 1 THEN Outcome("AMBIGUOUS_MULTIPLE_NUMBERS", NoValue)
               ELSE IF malformed # {} THEN Outcome("MALFORMED_NUMBER", NoValue)
               ELSE IF candidates = {} THEN Outcome("NO_NUMBER", NoValue)
               ELSE IF v.fraction > PrecisionMax THEN Outcome("MALFORMED_NUMBER", NoValue)
               ELSE Outcome("OK", v)
  BY DEF ParseNumber
<1>2. t \in Writing  BY StripIsText
<1> HIDE DEF t
<1>3. IsFiniteSet(Firsts(t))
  <2>1. Firsts(t) \in SUBSET (1..Len(t)) /\ Len(t) \in Int  BY <1>2 DEF Firsts, Writing
  <2>2. IsFiniteSet(1..Len(t))  BY <2>1, FS_Interval
  <2> QED  BY <2>1, <2>2, FS_Subset
<1> HIDE DEF malformed, v, i
<1>4. /\ ~SignViolation(t) /\ ~(Cardinality(candidates) > 1)
      /\ malformed = {} /\ candidates # {}
      /\ ParseNumber(text, mode) = Outcome("OK", v)
  <2> HIDE DEF candidates
  <2> QED  BY <1>1 DEF Outcome, IsRead
<1>5. candidates = Firsts(t)  BY <1>4
<1>6. \E x : Firsts(t) = {x}
  <2>1. Cardinality(Firsts(t)) \in Nat /\ Cardinality(Firsts(t)) # 0
        /\ ~(Cardinality(Firsts(t)) > 1)
    BY <1>3, <1>4, <1>5, FS_CardinalityType, FS_EmptySet
  <2>2. Cardinality(Firsts(t)) = 1  BY <2>1
  <2> QED  BY <1>3, <2>2, FS_Singleton
<1>7. PICK x : Firsts(t) = {x}  BY <1>6
<1>8. i = x
  <2>1. i \in candidates  BY <1>4 DEF i
  <2> QED  BY <1>5, <1>7, <2>1
<1>9. ~Malformed(t, i, mode)  BY <1>4, <1>7, <1>8 DEF malformed
<1>10. i \in Nat
  <2>1. i \in DOMAIN t  BY <1>7, <1>8 DEF Firsts
  <2> QED  BY <1>2, <2>1 DEF Writing
<1> QED  BY <1>4, <1>7, <1>8, <1>9, <1>10 DEF t, v

(* Whatever text is read as a number is that number. *)
AsWritten(text, mode) ==
  LET t == Strip(text)
      digits == {i \in DOMAIN t : t[i] = "digit"}
      read == ParseNumber(text, mode)
      first == CHOOSE i \in digits : \A j \in digits : i <= j
  IN  /\ Cardinality(digits) = read.value.whole + read.value.fraction
      /\ \A i \in first..Len(t), j \in digits : i < j => t[i] \in {"digit"} \cup Separators
      /\ read.value.negative <=> Is(t, first - 1, {"-"})
      /\ ~Is(t, first - 1, Separators \cup {"letter", "odd sign"})
      /\ \A m \in Modes :
           (mode = "auto" /\ ParseNumber(text, m).status = "OK") => ParseNumber(text, m) = read

LEMMA ReadAsWritten ==
  ASSUME NEW text \in Writing, NEW mode \in Modes, IsRead(text, mode)
  PROVE  AsWritten(text, mode)
<1> DEFINE t == Strip(text)
           digits == {i \in DOMAIN t : t[i] = "digit"}
           read == ParseNumber(text, mode)
           first == CHOOSE i \in digits : \A j \in digits : i <= j
<1>1. PICK i \in Nat :
               /\ Firsts(t) = {i}
               /\ ~SignViolation(t) /\ ~Malformed(t, i, mode)
               /\ read = Outcome("OK", [Interpret(Token(t, i), mode) EXCEPT !.negative = Start(t, i) < i])
  BY WhatIsRead
<1>2. \A m \in Modes : IsRead(text, m) =>
        /\ ~Malformed(t, i, m)
        /\ ParseNumber(text, m) =
             Outcome("OK", [Interpret(Token(t, i), m) EXCEPT !.negative = Start(t, i) < i])
  <2> TAKE m \in Modes
  <2> HAVE IsRead(text, m)
  <2>1. PICK k \in Nat :
                 /\ Firsts(t) = {k}
                 /\ ~SignViolation(t) /\ ~Malformed(t, k, m)
                 /\ ParseNumber(text, m) =
                      Outcome("OK", [Interpret(Token(t, k), m) EXCEPT !.negative = Start(t, k) < k])
    BY WhatIsRead
  <2> HIDE DEF t
  <2>2. k = i  BY <1>1, <2>1
  <2> QED  BY <2>1, <2>2
<1>3. AsWritten(text, mode) <=>
        /\ Cardinality(digits) = read.value.whole + read.value.fraction
        /\ \A k \in first..Len(t), j \in digits : k < j => t[k] \in {"digit"} \cup Separators
        /\ read.value.negative <=> Is(t, first - 1, {"-"})
        /\ ~Is(t, first - 1, Separators \cup {"letter", "odd sign"})
        /\ \A m \in Modes :
             (mode = "auto" /\ IsRead(text, m)) => ParseNumber(text, m) = read
  BY DEF AsWritten, IsRead
<1>4. t \in Writing  BY StripIsText
<1> HIDE DEF t, read
<1>5. DOMAIN t = 1..Len(t) /\ Len(t) \in Nat  BY <1>4 DEF Writing
<1>6. /\ i \in digits
      /\ \A j \in digits : i <= j /\ RunOf(t, i, j)
  BY <1>1, <1>4, OneRun
<1>7. first = i /\ i \in 1..Len(t) /\ t[i] = "digit"
  <2>1. first \in digits /\ \A j \in digits : first <= j
    <3> HIDE DEF digits
    <3> QED  BY <1>6
  <2>2. first <= i /\ i <= first /\ first \in Int /\ i \in Int  BY <1>5, <1>6, <2>1
  <2> QED  BY <1>5, <1>6, <2>2
<1> HIDE DEF first
<1>8. \A k \in first..Len(t), j \in digits : k < j => t[k] \in {"digit"} \cup Separators
  BY <1>5, <1>6, <1>7 DEF RunOf
<1> DEFINE tok == Token(t, i)
<1>10. Count(tok, "digit") = Cardinality(digits) /\ tok \in Writing
  BY <1>1, <1>4, TokenHoldsDigits
<1> HIDE DEF digits, tok
<1> DEFINE x == Interpret(tok, mode)
<1>11. x # NoValue /\ ~Is(t, Start(t, i) - 1, Separators) /\ ~Letters(t, i)
  BY <1>1 DEF Malformed, tok
<1>12. OfAllDigits(x, tok)  BY <1>10, <1>11, InterpretDigits
<1>13. read = Outcome("OK", [x EXCEPT !.negative = Start(t, i) < i])  BY <1>1 DEF tok
<1> HIDE DEF x
<1>14. PICK w \in Nat : \E f \in Nat : x = Value(FALSE, w, f) /\ w + f = Count(tok, "digit")
  BY <1>12 DEF OfAllDigits
<1>15. PICK f \in Nat : x = Value(FALSE, w, f) /\ w + f = Count(tok, "digit")  BY <1>14
<1>16. read.value = [negative |-> (Start(t, i) < i), whole |-> w, fraction |-> f]
  BY <1>13, <1>15 DEF Outcome, Value
<1>17. Cardinality(digits) = read.value.whole + read.value.fraction  BY <1>10, <1>15, <1>16
<1>18. read.value.negative <=> Is(t, first - 1, {"-"})
  <2>1. Start(t, i) < i <=> Is(t, i - 1, {"-"})  BY <1>5, <1>7 DEF Start
  <2>2. read.value.negative = (Start(t, i) < i)  BY <1>16
  <2> QED  BY <1>7, <2>1, <2>2, Zenon
<1>19. ASSUME Is(t, i - 1, Separators \cup {"letter", "odd sign"}) PROVE FALSE
  <2>1. i - 1 \in 1..Len(t) /\ t[i - 1] \in Separators \cup {"letter", "odd sign"}  BY <1>5, <1>19 DEF Is
  <2>2. Start(t, i) = i
    <3>1. ~Is(t, i - 1, {"-"})  BY <2>1 DEF Is, Separators
    <3> QED  BY <3>1 DEF Start
  <2>3. t[i - 1] = "odd sign"
    BY <1>5, <1>11, <2>1, <2>2 DEF Is, Letters
  <2>4. SignViolation(t)
    <3> DEFINE a == i - 1
    <3>1. a \in DOMAIN t /\ i \in DOMAIN t /\ t[i] = "digit" /\ t[a] = "odd sign"
      BY <1>5, <1>7, <2>1, <2>3
    <3>2. a \in Int /\ i \in Int /\ a + 1 = i /\ a < i  BY <1>5, <1>7
    <3> HIDE DEF a
    <3>3. \A j \in (a + 1)..(i - 1) : t[j] = "space"  BY <3>2
    <3> QED  BY <3>1, <3>2, <3>3 DEF SignViolation
  <2> QED  BY <1>1, <2>4
<1>20. ASSUME NEW m \in Modes, mode = "auto", IsRead(text, m)
       PROVE  ParseNumber(text, m) = read
  <2>1. /\ ~Malformed(t, i, m)
        /\ ParseNumber(text, m) =
             Outcome("OK", [Interpret(tok, m) EXCEPT !.negative = Start(t, i) < i])
    BY <1>2, <1>20 DEF tok
  <2>2. Interpret(tok, m) # NoValue  BY <2>1 DEF Malformed, tok
  <2>3. Interpret(tok, m) = x
    BY <1>11, <1>20, <2>2 DEF Interpret, Modes, x
  <2> QED  BY <1>13, <2>1, <2>3
<1> QED  BY <1>3, <1>7, <1>8, <1>17, <1>18, <1>19, <1>20

NumberInv ==
  input.kind = "number" => input.text \in Writing /\ input.mode \in Modes

(* A number is read only from a text that holds one word with digits in it, and
   the whole of that word, from texts of any length. *)
THEOREM NumbersAreAsWritten ==
  Spec => []NumberAsWritten
<1>1. Init => NumberInv  BY DEF Init, Blank, NumberInv
<1>2. NumberInv /\ [Next]_input => NumberInv'
  <2> SUFFICES ASSUME NumberInv, [Next]_input PROVE NumberInv'  OBVIOUS
  <2>1. CASE ReadNumber
    <3>1. PICK n \in 0..MaxText : \E text \in [1..n -> Characters], mode \in Modes :
            input' = [kind |-> "number", text |-> text, mode |-> mode]
      BY <2>1 DEF ReadNumber
    <3>2. PICK text \in [1..n -> Characters], mode \in Modes :
            input' = [kind |-> "number", text |-> text, mode |-> mode]
      BY <3>1
    <3>3. text \in Writing
      <4>1. n \in Nat  BY ReadingsAssumption
      <4> QED  BY <4>1 DEF Writing
    <3> QED  BY <3>2, <3>3 DEF NumberInv
  <2>2. CASE ReadCoordinate  BY <2>2 DEF ReadCoordinate, NumberInv
  <2>3. CASE ReadElevations  BY <2>3 DEF ReadElevations, NumberInv
  <2>4. CASE ReadSheet  BY <2>4 DEF ReadSheet, NumberInv
  <2>5. CASE ReadCrowd \/ ReadDoubtful  BY <2>5 DEF ReadCrowd, ReadDoubtful, NumberInv
  <2>6. CASE UNCHANGED input  BY <2>6 DEF NumberInv
  <2> QED  BY <2>1, <2>2, <2>3, <2>4, <2>5, <2>6 DEF Next
<1>3. NumberInv => NumberAsWritten
  <2> SUFFICES ASSUME input.text \in Writing, input.mode \in Modes,
                      IsRead(input.text, input.mode)
               PROVE  NumberAsWritten
    BY DEF NumberInv, NumberAsWritten, IsRead
  <2>1. AsWritten(input.text, input.mode)  BY ReadAsWritten
  <2> QED  BY <2>1 DEF AsWritten, NumberAsWritten
<1> QED  BY <1>1, <1>2, <1>3, PTL DEF Spec
-----------------------------------------------------------------------------
(* Coordinates whose degree sign was recognised as a zero. *)

(* The value of a run of digits, digit by digit. *)
LEMMA NumberByDigits ==
  ASSUME NEW s, Len(s) \in Nat
  PROVE  \E f : /\ f[0] = 0
                /\ \A k \in 0..(Len(s) - 1) : f[k + 1] = 10 * f[k] + s[k + 1]
                /\ Number(s) = f[Len(s)]
<1> DEFINE N == Len(s)
           Def(f, k) == IF k = 0 THEN 0 ELSE 10 * f[k - 1] + s[k]
           Q(n) == \E g : g = [k \in 0..n |-> Def(g, k)]
           r == CHOOSE f : f = [k \in 0..N |-> Def(f, k)]
<1>1. Q(0)
  <2> DEFINE g == [k \in 0..0 |-> 0]
  <2>1. g = [k \in 0..0 |-> Def(g, k)]  OBVIOUS
  <2> HIDE DEF g, Def
  <2> QED  BY <2>1
<1>2. ASSUME NEW n \in Nat, Q(n) PROVE Q(n + 1)
  <2>1. PICK g : g = [k \in 0..n |-> Def(g, k)]  BY <1>2
  <2> DEFINE h == [k \in 0..(n + 1) |-> Def(g, k)]
  <2>2. \A k \in 0..n : h[k] = g[k]
    <3> HIDE DEF Def
    <3> QED  BY <2>1
  <2>3. \A k \in 0..(n + 1) : Def(h, k) = Def(g, k)
    <3> HIDE DEF h
    <3> QED  BY <2>2
  <2> HIDE DEF Def
  <2>4. h = [k \in 0..(n + 1) |-> Def(h, k)]  BY <2>3
  <2> HIDE DEF h
  <2> QED  BY <2>4
<1>3. Q(N)
  <2> DEFINE T == {n \in 0..N : Q(n)}
  <2> HIDE DEF Q
  <2>1. 0 \in T /\ \A k \in 0..(N - 1) : k \in T => k + 1 \in T  BY <1>1, <1>2
  <2> HIDE DEF T
  <2>2. \A k \in 0..N : k \in T  BY <2>1, Climb
  <2> QED  BY <2>2 DEF T
<1>4. r = [k \in 0..N |-> Def(r, k)]
  <2> HIDE DEF Def
  <2> QED  BY <1>3
<1>5. Number(s) = r[N]  BY DEF Number
<1> HIDE DEF r
<1>6. \A k \in 0..N : r[k] = Def(r, k)
  <2> HIDE DEF Def
  <2> QED  BY <1>4
<1>7. r[0] = 0  BY <1>6
<1>8. ASSUME NEW k \in 0..(N - 1) PROVE r[k + 1] = 10 * r[k] + s[k + 1]
  <2>1. k + 1 \in 0..N /\ k + 1 # 0 /\ (k + 1) - 1 = k  OBVIOUS
  <2>2. r[k + 1] = Def(r, k + 1)  BY <1>6, <2>1
  <2> QED  BY <2>1, <2>2
<1> QED  BY <1>5, <1>7, <1>8

(* A number is what its digits say. *)
LEMMA OneDigit ==
  ASSUME NEW a \in 0..9
  PROVE  Number(<<a>>) = a
<1> DEFINE s == <<a>>
<1>1. Len(s) = 1 /\ s[1] = a  OBVIOUS
<1> HIDE DEF s
<1>2. PICK f : f[0] = 0 /\ (\A k \in 0..(Len(s) - 1) : f[k + 1] = 10 * f[k] + s[k + 1])
                /\ Number(s) = f[Len(s)]
  <2>1. Len(s) \in Nat  BY <1>1
  <2> QED  BY <2>1, NumberByDigits
<1>3. f[1] = 10 * f[0] + s[1]
  <2>1. 0 \in 0..(Len(s) - 1) /\ 0 + 1 = 1  BY <1>1
  <2> QED  BY <1>2, <2>1
<1> QED  BY <1>1, <1>2, <1>3 DEF s

LEMMA TwoDigits ==
  ASSUME NEW a \in 0..9, NEW b \in 0..9
  PROVE  Number(<<a, b>>) = 10 * a + b
<1> DEFINE s == <<a, b>>
<1>1. Len(s) = 2 /\ s[1] = a /\ s[2] = b  OBVIOUS
<1> HIDE DEF s
<1>2. PICK f : f[0] = 0 /\ (\A k \in 0..(Len(s) - 1) : f[k + 1] = 10 * f[k] + s[k + 1])
                /\ Number(s) = f[Len(s)]
  <2>1. Len(s) \in Nat  BY <1>1
  <2> QED  BY <2>1, NumberByDigits
<1>3. f[1] = 10 * f[0] + s[1] /\ f[2] = 10 * f[1] + s[2]
  <2>1. 0 \in 0..(Len(s) - 1) /\ 0 + 1 = 1 /\ 1 \in 0..(Len(s) - 1) /\ 1 + 1 = 2  BY <1>1
  <2> QED  BY <1>2, <2>1
<1>4. f[1] = a  BY <1>1, <1>2, <1>3
<1> QED  BY <1>1, <1>2, <1>3, <1>4 DEF s

LEMMA ThreeDigits ==
  ASSUME NEW s \in Seq(0..9), Len(s) = 3
  PROVE  Number(s) = 100 * s[1] + 10 * s[2] + s[3]
<1> DEFINE a == s[1]
           b == s[2]
           c == s[3]
<1>1. Len(s) = 3 /\ a \in 0..9 /\ b \in 0..9 /\ c \in 0..9
  <2>1. \A k \in 1..Len(s) : s[k] \in 0..9
    <3>1. s \in [1..Len(s) -> 0..9]  BY LenProperties, Zenon
    <3> QED  BY <3>1
  <2> QED  BY <2>1
<1>2. PICK f : f[0] = 0 /\ (\A k \in 0..(Len(s) - 1) : f[k + 1] = 10 * f[k] + s[k + 1])
                /\ Number(s) = f[Len(s)]
  <2>1. Len(s) \in Nat  BY <1>1
  <2> QED  BY <2>1, NumberByDigits
<1>3. f[1] = 10 * f[0] + a /\ f[2] = 10 * f[1] + b /\ f[3] = 10 * f[2] + c
  <2>1. /\ 0 \in 0..(Len(s) - 1) /\ 0 + 1 = 1
        /\ 1 \in 0..(Len(s) - 1) /\ 1 + 1 = 2
        /\ 2 \in 0..(Len(s) - 1) /\ 2 + 1 = 3
    BY <1>1
  <2> QED  BY <1>2, <2>1
<1> HIDE DEF a, b, c
<1>4. f[1] = a  BY <1>1, <1>2, <1>3
<1>5. f[2] = 10 * a + b  BY <1>1, <1>3, <1>4
<1>6. Number(s) = 100 * a + 10 * b + c  BY <1>1, <1>2, <1>3, <1>5
<1> QED  BY <1>6 DEF a, b, c

LEMMA DigitsSayNumber ==
  ASSUME NEW n \in 0..180
  PROVE  /\ Digits(n) \in Seq(0..9) /\ Len(Digits(n)) \in 1..3
         /\ n < 100 => Len(Digits(n)) \in 1..2
         /\ Number(Digits(n)) = n
<1>1. CASE n < 10
  <2>1. Digits(n) = <<n>> /\ n \in 0..9  BY <1>1 DEF Digits
  <2>2. <<n>> \in Seq(0..9) /\ Len(<<n>>) = 1  BY <2>1
  <2> QED  BY <1>1, <2>1, <2>2, OneDigit
<1>2. CASE n >= 10 /\ n < 100
  <2> DEFINE a == n \div 10
             b == n % 10
  <2>1. Digits(n) = <<a, b>>  BY <1>2 DEF Digits
  <2>2. a \in 0..9 /\ b \in 0..9 /\ n = 10 * a + b  BY <1>2
  <2> HIDE DEF a, b
  <2>3. <<a, b>> \in Seq(0..9) /\ Len(<<a, b>>) = 2  BY <2>2
  <2>4. Number(<<a, b>>) = 10 * a + b  BY <2>2, TwoDigits
  <2> QED  BY <1>2, <2>1, <2>2, <2>3, <2>4
<1>3. CASE n >= 100
  <2> DEFINE a == n \div 100
             q == n \div 10
             b == q % 10
             c == n % 10
  <2>1. Digits(n) = <<a, b, c>>  BY <1>3 DEF Digits
  <2>2. a = 1 /\ c \in 0..9 /\ q \in 10..18 /\ n = 10 * q + c  BY <1>3
  <2> HIDE DEF a, q, c
  <2>3. b \in 0..9 /\ q = 10 * a + b  BY <2>2
  <2> HIDE DEF b
  <2>4. a \in 0..9 /\ b \in 0..9 /\ c \in 0..9 /\ n = 100 * a + 10 * b + c  BY <2>2, <2>3
  <2>5. Digits(n) \in Seq(0..9) /\ Len(Digits(n)) = 3
        /\ Digits(n)[1] = a /\ Digits(n)[2] = b /\ Digits(n)[3] = c
    BY <2>1, <2>4
  <2>6. Number(Digits(n)) = 100 * Digits(n)[1] + 10 * Digits(n)[2] + Digits(n)[3]
    BY <2>5, ThreeDigits
  <2>7. Number(Digits(n)) = n  BY <2>4, <2>5, <2>6
  <2> QED  BY <1>3, <2>5, <2>7
<1> QED  BY <1>1, <1>2, <1>3

LEMMA MinutesSayNumber ==
  ASSUME NEW r \in Spoken
  PROVE  Minutes(r) \in Seq(0..9) /\ Len(Minutes(r)) \in 1..2 /\ Number(Minutes(r)) = r.minutes
<1>1. r.minutes \in 0..59  BY DEF Spoken
<1>2. CASE r.padded /\ r.minutes < 10
  <2>1. Minutes(r) = <<0, r.minutes>> /\ r.minutes \in 0..9  BY <1>1, <1>2 DEF Minutes
  <2>2. <<0, r.minutes>> \in Seq(0..9) /\ Len(<<0, r.minutes>>) = 2  BY <2>1
  <2>3. Number(<<0, r.minutes>>) = 10 * 0 + r.minutes
    <3>1. 0 \in 0..9  OBVIOUS
    <3> QED  BY <2>1, <3>1, TwoDigits
  <2> QED  BY <2>1, <2>2, <2>3
<1>3. CASE ~ (r.padded /\ r.minutes < 10)
  <2>1. Minutes(r) = Digits(r.minutes)  BY <1>3 DEF Minutes
  <2>2. r.minutes \in 0..180 /\ r.minutes < 100  BY <1>1
  <2> QED  BY <2>1, <2>2, DigitsSayNumber
<1> QED  BY <1>2, <1>3

(* The zero that was the sign always fits, so that one zero that fits is it. *)
LEMMA SignFits ==
  ASSUME NEW r \in Spoken
  PROVE  RecoverDegrees(Corrupted(r), r.limit) \in {NoValue, Truth(r)}
<1> DEFINE d == Digits(r.degrees)
           m == Minutes(r)
           run == d \o <<0>> \o m
           i == Len(d) + 1
           s == Splits(run, r.limit)
<1>1. r.degrees \in 0..180 /\ r.minutes \in 0..59 /\ r.limit \in {90, 180}
      /\ 60 * r.degrees + r.minutes <= 60 * r.limit
  BY DEF Spoken
<1>2. d \in Seq(0..9) /\ Len(d) \in 1..3 /\ Number(d) = r.degrees  BY <1>1, DigitsSayNumber
<1>3. m \in Seq(0..9) /\ Len(m) \in 1..2 /\ Number(m) = r.minutes  BY MinutesSayNumber
<1>4. Corrupted(r) = run  BY DEF Corrupted
<1>0. Len(d) \in 1..3 /\ Len(m) \in 1..2  BY <1>2, <1>3
<1> HIDE DEF d, m
<1>5. /\ run \in Seq(0..9) /\ Len(run) = Len(d) + 1 + Len(m) /\ run[Len(d) + 1] = 0
      /\ \A k \in 1..Len(d) : run[k] = d[k]
      /\ \A k \in 1..Len(m) : run[Len(d) + 1 + k] = m[k]
  <2>1. <<0>> \in Seq(0..9) /\ Len(<<0>>) = 1 /\ <<0>>[1] = 0  OBVIOUS
  <2> QED  BY <1>2, <1>3, <2>1
<1> HIDE DEF run
<1>6. SubSeq(run, 1, i - 1) = d
  <2>1. 1 \in Int /\ i - 1 \in Int /\ \A k \in 1..(i - 1) : run[k] \in 0..9  BY <1>2, <1>5
  <2>2. /\ SubSeq(run, 1, i - 1) \in Seq(0..9) /\ Len(SubSeq(run, 1, i - 1)) = Len(d)
        /\ \A k \in 1..Len(d) : SubSeq(run, 1, i - 1)[k] = run[k]
    <3> DEFINE b == i - 1
    <3>1. b \in Int /\ b = Len(d) /\ 1 <= b  BY <1>0
    <3> HIDE DEF b
    <3>2. /\ SubSeq(run, 1, b) \in Seq(0..9) /\ Len(SubSeq(run, 1, b)) = b - 1 + 1
          /\ \A k \in 1..(b - 1 + 1) : SubSeq(run, 1, b)[k] = run[1 + k - 1]
      BY <2>1, <3>1, SubSeqProperties DEF b
    <3> QED  BY <3>1, <3>2 DEF b
  <2> QED  BY <1>2, <1>5, <2>2, SeqEqual
<1>7. SubSeq(run, i + 1, Len(run)) = m
  <2> DEFINE a == i + 1
             b == Len(run)
  <2>1. a \in Int /\ b \in Int /\ a = Len(d) + 2 /\ b - a + 1 = Len(m) /\ a <= b
    <3> DEFINE x == Len(d)
               y == Len(m)
    <3>1. b = x + 1 + y  BY <1>5
    <3>2. a = (x + 1) + 1  OBVIOUS
    <3>3. x \in 1..3 /\ y \in 1..2  BY <1>0
    <3> HIDE DEF a, b, x, y
    <3>4. a = x + 2 /\ b - a + 1 = y /\ a \in Int /\ b \in Int /\ a <= b  BY <3>1, <3>2, <3>3
    <3> QED  BY <3>4 DEF x, y
  <2>5. \A k \in a..b : run[k] \in 0..9
    <3>1. run \in Seq(0..9) /\ a \in 1..Len(run) /\ b \in 1..Len(run)  BY <1>0, <1>5, <2>1
    <3> HIDE DEF a, b
    <3> QED  BY <3>1
  <2> HIDE DEF a, b
  <2>2. /\ SubSeq(run, a, b) \in Seq(0..9) /\ Len(SubSeq(run, a, b)) = Len(m)
        /\ \A k \in 1..Len(m) : SubSeq(run, a, b)[k] = run[a + k - 1]
    BY <2>1, <2>5, SubSeqProperties
  <2>3. \A k \in 1..Len(m) : a + k - 1 = Len(d) + 1 + k  BY <1>2, <1>3, <2>1
  <2>4. \A k \in 1..Len(m) : SubSeq(run, a, b)[k] = m[k]  BY <1>5, <2>2, <2>3
  <2> QED  BY <1>3, <2>2, <2>4, SeqEqual DEF a, b
<1>8. i \in s
  <2>1. i \in 2..(Len(run) - 1) /\ run[i] = 0 /\ Len(run) - i <= 2
    <3>1. Len(run) = Len(d) + 1 + Len(m)  BY <1>5
    <3>2. run[Len(d) + 1] = 0  BY <1>5
    <3>3. i \in 2..(Len(run) - 1) /\ Len(run) - i <= 2
      <4> DEFINE x == Len(d)
                 y == Len(m)
      <4>1. x \in 1..3 /\ y \in 1..2  BY <1>0
      <4> HIDE DEF x, y
      <4>2. x + 1 \in 2..((x + 1 + y) - 1) /\ (x + 1 + y) - (x + 1) <= 2  BY <4>1
      <4> QED  BY <3>1, <4>2 DEF x, y
    <3>4. run[i] = 0  BY <3>2
    <3> QED  BY <3>3, <3>4
  <2>2. Number(m) = r.minutes /\ Number(d) = r.degrees  BY <1>2, <1>3
  <2>3. Number(SubSeq(run, i + 1, Len(run))) < 60
        /\ 60 * Number(SubSeq(run, 1, i - 1)) + Number(SubSeq(run, i + 1, Len(run))) <= 60 * r.limit
    <3> DEFINE lo == SubSeq(run, 1, i - 1)
               hi == SubSeq(run, i + 1, Len(run))
    <3>1. Number(hi) = r.minutes  BY <1>7, <2>2
    <3>2. Number(lo) = r.degrees  BY <1>6, <2>2
    <3> HIDE DEF lo, hi
    <3>3. Number(hi) < 60 /\ 60 * Number(lo) + Number(hi) <= 60 * r.limit  BY <1>1, <3>1, <3>2
    <3> QED  BY <3>3 DEF lo, hi
  <2> HIDE DEF i
  <2> QED  BY <2>1, <2>3 DEF Splits
<1>9. SplitValue(run, i) = Truth(r)  BY <1>2, <1>3, <1>6, <1>7 DEF SplitValue, Truth
<1>10. IsFiniteSet(s)
  <2>1. s \in SUBSET (2..(Len(run) - 1))  BY DEF Splits
  <2>2. IsFiniteSet(2..(Len(run) - 1))
    <3>1. 2 \in Int /\ Len(run) - 1 \in Int  BY <1>5
    <3> QED  BY <3>1, FS_Interval
  <2> HIDE DEF s
  <2> QED  BY <2>1, <2>2, FS_Subset
<1> HIDE DEF s, i
<1>11. CASE Cardinality(s) = 1
  <2>1. PICK x : s = {x}  BY <1>10, <1>11, FS_Singleton
  <2>2. (CHOOSE k \in s : TRUE) = i  BY <1>8, <2>1
  <2> QED  BY <1>4, <1>9, <2>2 DEF RecoverDegrees, s
<1>12. CASE Cardinality(s) # 1  BY <1>4, <1>12 DEF RecoverDegrees, s
<1> QED  BY <1>11, <1>12

CoordinateInv ==
  input.kind = "coordinate" => input.reading \in Spoken

(* A coordinate whose degree sign was recognised as a zero is read as what the
   screen showed, or not at all. *)
THEOREM RecoveryIsTrue ==
  Spec => []RecoveredIsTrue
<1>1. Init => CoordinateInv  BY DEF Init, Blank, CoordinateInv
<1>2. CoordinateInv /\ [Next]_input => CoordinateInv'
  <2> SUFFICES ASSUME CoordinateInv, [Next]_input PROVE CoordinateInv'  OBVIOUS
  <2>1. CASE ReadNumber  BY <2>1 DEF ReadNumber, CoordinateInv
  <2>2. CASE ReadCoordinate  BY <2>2 DEF ReadCoordinate, CoordinateInv
  <2>3. CASE ReadElevations  BY <2>3 DEF ReadElevations, CoordinateInv
  <2>4. CASE ReadSheet  BY <2>4 DEF ReadSheet, CoordinateInv
  <2>5. CASE ReadCrowd \/ ReadDoubtful  BY <2>5 DEF ReadCrowd, ReadDoubtful, CoordinateInv
  <2>6. CASE UNCHANGED input  BY <2>6 DEF CoordinateInv
  <2> QED  BY <2>1, <2>2, <2>3, <2>4, <2>5, <2>6 DEF Next
<1>3. CoordinateInv => RecoveredIsTrue  BY SignFits DEF CoordinateInv, RecoveredIsTrue
<1> QED  BY <1>1, <1>2, <1>3, PTL DEF Spec
=============================================================================
