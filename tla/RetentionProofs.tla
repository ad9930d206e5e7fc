--------------------------- MODULE RetentionProofs ---------------------------
(***************************************************************************)
(* What a recording keeps, for every set of fields and values, every       *)
(* threshold and debounce time and all four retention modes.  The argument *)
(* is about one field at a time: the lemmas on Read follow one reading     *)
(* through process_tick, and the steps apply them to every field.          *)
(***************************************************************************)
EXTENDS Retention, TLAPS

FieldType ==
  [seeded : BOOLEAN, stable_value : Values \cup {NoValue},
   stable_status : RetainableErrors \cup {"OK", "none"},
   retained_error_active : BOOLEAN,
   last_retained_error : RetainableErrors \cup {"none"},
   pre_error_value : Values \cup {NoValue}, candidate : CandidateType]

RowType == [value : Values \cup {NoValue}, count : 0..(2 + Debounce)]

(* The comparator of a field is v or within the threshold of it. *)
Close(st, v) ==
  \/ st.stable_value = v
  \/ st.stable_value # NoValue /\ Abs(st.stable_value - v) < Threshold

(* The row of equal readings a field was given and its candidate are the
   same thing as long as the row is not in the comparator: a pending row is
   its candidate and not yet enough, and a row without a candidate is one
   the comparator already stands for. *)
RowPending(st, row, needed) ==
  CASE row = NoRow ->
         st.candidate = NoCandidate
    [] row # NoRow /\ st.candidate # NoCandidate ->
         /\ row.value \in Values /\ row.count >= 1
         /\ st.candidate.value = row.value
         /\ st.candidate.count = row.count
         /\ row.count < needed \/ row.count <= Debounce
    [] OTHER ->
         /\ row.value \in Values /\ row.count >= 1
         /\ st.seeded /\ ~st.retained_error_active
         /\ Close(st, row.value)

FieldInv(st, row, needed) ==
  /\ st \in FieldType
  /\ row \in RowType
  /\ st.seeded /\ ~st.retained_error_active => st.stable_status = "OK"
  /\ st.retained_error_active => st.stable_status \in RetainableErrors
  /\ RowPending(st, row, needed)

(* The first error of a run remembers the comparator; only a worker failure,
   which changed_only does not retain, raises an error without that. *)
ErrorRemembers(st) ==
  st.retained_error_active => st.pre_error_value = st.stable_value

(* A cached OCR result is a value when it says so. *)
CacheIsOcr == \A s \in Sources : cache[s].status = "OK" => cache[s].value \in Values

FieldsInv ==
  /\ TypeOK
  /\ CacheIsOcr
  /\ \A s \in Sources : FieldInv(engine[s], run[s], confirmations[s])
  /\ mode = "changed_only" => \A s \in Sources : ErrorRemembers(engine[s])

DurableInv == FieldsInv /\ ComparatorIsDurable
-----------------------------------------------------------------------------
(* One field. *)

(* No value is the missing one. *)
LEMMA ValueIsPresent ==
  \A v \in Values : v \in Int /\ v # NoValue
  BY RetentionAssumption

(* Discarding the candidate changes nothing else of a field. *)
LEMMA DroppedField ==
  ASSUME NEW st \in FieldType
  PROVE  /\ Dropped(st) \in FieldType
         /\ Dropped(st).candidate = NoCandidate
         /\ Dropped(st).seeded = st.seeded
         /\ Dropped(st).stable_value = st.stable_value
         /\ Dropped(st).stable_status = st.stable_status
         /\ Dropped(st).retained_error_active = st.retained_error_active
         /\ Dropped(st).last_retained_error = st.last_retained_error
         /\ Dropped(st).pre_error_value = st.pre_error_value
<1>1. NoCandidate \in CandidateType
  BY RetentionAssumption DEF NoCandidate, CandidateType
<1> QED
  BY <1>1 DEF Dropped, FieldType

(* A candidate put in place changes nothing else of a field. *)
LEMMA OfferedField ==
  ASSUME NEW st \in FieldType, NEW candidate \in CandidateType
  PROVE  LET c == [st EXCEPT !.candidate = candidate]
         IN  /\ c \in FieldType
             /\ c.candidate = candidate
             /\ c.seeded = st.seeded
             /\ c.stable_value = st.stable_value
             /\ c.stable_status = st.stable_status
             /\ c.retained_error_active = st.retained_error_active
             /\ c.pre_error_value = st.pre_error_value
  BY DEF FieldType

(* A commit makes the candidate the comparator of a field without errors. *)
LEMMA CommittedField ==
  ASSUME NEW st \in FieldType, NEW candidate \in CandidateType
  PROVE  /\ Committed(st, candidate) \in FieldType
         /\ Committed(st, candidate).candidate = NoCandidate
         /\ Committed(st, candidate).seeded
         /\ Committed(st, candidate).stable_value = candidate.value
         /\ Committed(st, candidate).stable_status = "OK"
         /\ ~Committed(st, candidate).retained_error_active
<1> DEFINE e == IF st.retained_error_active THEN "none"
                ELSE st.last_retained_error
           a == [st EXCEPT !.seeded = TRUE, !.stable_value = candidate.value]
           b == [a EXCEPT !.stable_status = "OK",
                          !.retained_error_active = FALSE]
           c == [b EXCEPT !.last_retained_error = e, !.candidate = NoCandidate]
<1>1. NoCandidate \in CandidateType
  BY RetentionAssumption DEF NoCandidate, CandidateType
<1>2. candidate.value \in Values \cup {NoValue}
  BY DEF CandidateType
<1>3. e \in RetainableErrors \cup {"none"}
  BY DEF FieldType
<1>4. Committed(st, candidate) = c
  BY DEF Committed
<1> HIDE DEF e
<1>5. /\ a \in FieldType
      /\ a.seeded /\ a.stable_value = candidate.value
  BY <1>2 DEF FieldType
<1> HIDE DEF a
<1>6. /\ b \in FieldType
      /\ b.seeded /\ b.stable_value = candidate.value
      /\ b.stable_status = "OK" /\ ~b.retained_error_active
  BY <1>5 DEF FieldType
<1> HIDE DEF b
<1>7. /\ c \in FieldType
      /\ c.seeded /\ c.stable_value = candidate.value
      /\ c.stable_status = "OK" /\ ~c.retained_error_active
      /\ c.candidate = NoCandidate
  BY <1>1, <1>3, <1>6 DEF FieldType
<1> QED
  BY <1>4, <1>7

(* A distance does not depend on the side it is measured from. *)
LEMMA AbsSymmetric ==
  ASSUME NEW m \in Int, NEW n \in Int
  PROVE  Abs(m - n) = Abs(n - m) /\ Abs(m - n) \in Nat
  BY DEF Abs

(* A row after one more reading of v: it goes on or starts anew. *)
OneMore(row, v) ==
  IF row.value = v THEN [row EXCEPT !.count = Cap(@ + 1)]
                   ELSE [value |-> v, count |-> 1]

(* It is a row of v that is one longer, or the first of v. *)
LEMMA OneMoreRow ==
  ASSUME NEW row \in RowType, NEW v \in Values,
         NEW next, next = OneMore(row, v)
  PROVE  /\ next \in RowType
         /\ next.value = v
         /\ next.count >= 1
         /\ next # NoRow
         /\ row.value = v => next.count = Cap(row.count + 1)
         /\ row.value # v => next.count = 1
<1> USE RetentionAssumption
<1>1. /\ next \in RowType
      /\ next.value = v
      /\ next.count >= 1
      /\ row.value = v => next.count = Cap(row.count + 1)
      /\ row.value # v => next.count = 1
  <2>1. CASE row.value = v
    <3>1. next = [row EXCEPT !.count = Cap(row.count + 1)]
      BY <2>1 DEF OneMore
    <3>2. Cap(row.count + 1) \in 1..(2 + Debounce)
      BY DEF Cap, RowType
    <3>3. Cap(row.count + 1) \in 0..(2 + Debounce) /\ Cap(row.count + 1) >= 1
      BY <3>2
    <3> QED
      BY <2>1, <3>1, <3>3 DEF RowType
  <2>2. CASE row.value # v
    <3>1. next = [value |-> v, count |-> 1]
      BY <2>2 DEF OneMore
    <3>2. 1 \in 0..(2 + Debounce)
      OBVIOUS
    <3>3. next.value = v /\ next.count = 1
      BY <3>1
    <3>4. next \in RowType
      BY <3>1, <3>2 DEF RowType
    <3> QED
      BY <2>2, <3>3, <3>4
  <2> QED
    BY <2>1, <2>2
<1>2. NoRow.value = NoValue
  BY DEF NoRow
<1> QED
  BY <1>1, <1>2, ValueIsPresent

(* A value that the comparator does not stand for is offered as the candidate
   of its row. *)
LEMMA OfferedRow ==
  ASSUME NEW st, NEW row, NEW needed \in {1, 2}, FieldInv(st, row, needed),
         NEW v \in Values, NEW o, o.value = v, o.full \in BOOLEAN,
         ~SameAsStable(st, o), ~BelowThreshold(st, o),
         NEW next, next = OneMore(row, v),
         NEW candidate, candidate = Offered(st, o)
  PROVE  /\ candidate \in CandidateType
         /\ candidate.value = v
         /\ candidate.count = next.count
         /\ candidate # NoCandidate
         /\ Replaces(st, o, needed) => next.count = 1 /\ needed = 2
<1> USE RetentionAssumption
<1>1. st \in FieldType /\ row \in RowType /\ RowPending(st, row, needed)
  BY DEF FieldInv
<1>2. /\ next \in RowType
      /\ next.value = v /\ next.count >= 1
      /\ row.value = v => next.count = Cap(row.count + 1)
      /\ row.value # v => next.count = 1
  BY <1>1, OneMoreRow
<1>3. CASE st.candidate # NoCandidate /\ st.candidate.value = v
  <2>1. row.value = v /\ row.count = st.candidate.count
    BY <1>1, <1>3 DEF RowPending
  <2>2. candidate = [st.candidate EXCEPT !.count = next.count]
    BY <1>2, <1>3, <2>1 DEF Offered
  <2>3. next.count \in 0..(2 + Debounce)
    BY <1>2 DEF RowType
  <2>4. st.candidate \in CandidateType
    BY <1>1 DEF FieldType
  <2>5. /\ candidate \in CandidateType
        /\ candidate.value = v
        /\ candidate.count = next.count
    BY <1>3, <2>2, <2>3, <2>4 DEF CandidateType
  <2>6. candidate # NoCandidate
    <3>1. NoCandidate.value = NoValue
      BY DEF NoCandidate
    <3> QED
      BY <2>5, <3>1, ValueIsPresent
  <2>7. ~Replaces(st, o, needed)
    BY <1>3 DEF Replaces
  <2> QED
    BY <2>5, <2>6, <2>7
<1>4. CASE ~(st.candidate # NoCandidate /\ st.candidate.value = v)
  <2>1. candidate = [value |-> v, count |-> 1, full |-> o.full]
    BY <1>4 DEF Offered
  <2>2. row.value # v
    <3>1. CASE row = NoRow
      BY <3>1 DEF NoRow
    <3>2. CASE row # NoRow /\ st.candidate # NoCandidate
      BY <1>1, <1>4, <3>2 DEF RowPending
    <3>3. CASE row # NoRow /\ st.candidate = NoCandidate
      <4>1. /\ st.seeded /\ ~st.retained_error_active
            /\ st.stable_status = "OK"
            /\ Close(st, row.value) /\ row.value \in Values
        BY <1>1, <3>3 DEF RowPending, FieldInv
      <4>2. SUFFICES ASSUME row.value = v PROVE FALSE
        OBVIOUS
      <4>3. st.stable_value # v
        BY <4>1 DEF SameAsStable
      <4>4. /\ st.stable_value # NoValue
            /\ Abs(st.stable_value - v) < Threshold
        BY <4>1, <4>2, <4>3 DEF Close
      <4>5. /\ st.stable_value \in Int /\ v \in Int
        BY <1>1, <4>4 DEF FieldType
      <4>6. Abs(v - st.stable_value) < Threshold /\ Threshold > 0
        BY <4>4, <4>5, AbsSymmetric
      <4> QED
        BY <4>1, <4>4, <4>6 DEF BelowThreshold
    <3> QED
      BY <3>1, <3>2, <3>3
  <2>3. next.count = 1
    BY <1>2, <2>2
  <2>4. /\ candidate \in CandidateType
        /\ candidate.value = v
        /\ candidate.count = 1
    BY <2>1 DEF CandidateType
  <2>5. candidate # NoCandidate
    <3>1. NoCandidate.value = NoValue
      BY DEF NoCandidate
    <3> QED
      BY <2>4, <3>1, ValueIsPresent
  <2> QED
    BY <2>3, <2>4, <2>5 DEF Replaces
<1> QED
  BY <1>3, <1>4

(* What one reading does to a field: nothing to the comparator, or a commit
   of the row's value, read often enough, that the retention decision hears
   of unless it is the field's first value or the one it had before an
   error. *)
Moves(st, r, row, needed) ==
  /\ ErrorRemembers(st) => ErrorRemembers(r.st)
  /\ r.st.stable_value # st.stable_value =>
       /\ row.value = r.st.stable_value /\ row.count >= needed
       /\ r.st.candidate = NoCandidate
       /\ \/ r.outcome \in {"changed", "recovered_moved"}
          \/ r.outcome = "recovered" /\ ~ErrorRemembers(st)
          \/ ~st.seeded /\ r.st.seeded

(* A reading of a value. *)
LEMMA ReadOkField ==
  ASSUME NEW st, NEW row, NEW needed \in {1, 2}, FieldInv(st, row, needed),
         NEW v \in Values, NEW o, o.value = v, o.full \in BOOLEAN,
         NEW next, next = OneMore(row, v),
         NEW r, r = ReadOK(st, o, needed)
  PROVE  FieldInv(r.st, next, needed) /\ Moves(st, r, next, needed)
<1> USE RetentionAssumption
<1>1. st \in FieldType /\ row \in RowType
  BY DEF FieldInv
<1>2. /\ next \in RowType
      /\ next.value = v /\ next.count >= 1 /\ next # NoRow
  BY <1>1, OneMoreRow
<1>3. CASE SameAsStable(st, o) \/ BelowThreshold(st, o)
  <2>1. r = [st |-> Dropped(st), outcome |-> "none", full |-> TRUE]
    BY <1>3 DEF ReadOK
  <2>2. r.st = Dropped(st)
    BY <2>1
  <2>3. /\ r.st \in FieldType
        /\ r.st.candidate = NoCandidate
        /\ r.st.seeded = st.seeded
        /\ r.st.stable_value = st.stable_value
        /\ r.st.stable_status = st.stable_status
        /\ r.st.retained_error_active = st.retained_error_active
        /\ r.st.pre_error_value = st.pre_error_value
    BY <1>1, <2>2, DroppedField
  <2>4. st.seeded /\ ~st.retained_error_active /\ st.stable_status = "OK"
    BY <1>3 DEF SameAsStable, BelowThreshold, FieldInv
  <2>5. Close(r.st, v)
    <3>1. CASE st.stable_value = v
      BY <2>3, <3>1 DEF Close
    <3>2. CASE st.stable_value # v
      <4>1. st.stable_value # NoValue /\ Abs(v - st.stable_value) < Threshold
        BY <1>3, <3>2 DEF SameAsStable, BelowThreshold
      <4>2. st.stable_value \in Int /\ v \in Int
        BY <1>1, <4>1 DEF FieldType
      <4> QED
        BY <2>3, <4>1, <4>2, AbsSymmetric DEF Close
    <3> QED
      BY <3>1, <3>2
  <2>6. RowPending(r.st, next, needed)
    BY <1>2, <2>3, <2>4, <2>5 DEF RowPending
  <2>7. FieldInv(r.st, next, needed)
    BY <1>2, <2>3, <2>4, <2>6 DEF FieldInv
  <2>8. Moves(st, r, next, needed)
    BY <2>3 DEF Moves, ErrorRemembers
  <2> QED
    BY <2>7, <2>8
<1>4. CASE ~SameAsStable(st, o) /\ ~BelowThreshold(st, o)
  <2> DEFINE candidate == Offered(st, o)
             pending == [st EXCEPT !.candidate = candidate]
  <2>1. /\ candidate \in CandidateType
        /\ candidate.value = v
        /\ candidate.count = next.count
        /\ candidate # NoCandidate
        /\ Replaces(st, o, needed) => next.count = 1 /\ needed = 2
    BY <1>4, OfferedRow
  <2>2. \/ /\ r = [st |-> pending, outcome |-> "rejected", full |-> TRUE]
           /\ Replaces(st, o, needed)
        \/ /\ r = [st |-> pending, outcome |-> "none", full |-> TRUE]
           /\ ~Confirmed(candidate, o, needed)
        \/ /\ r = [st |-> Committed(st, candidate),
                   outcome |-> CommitOutcome(st, candidate),
                   full |-> candidate.full]
           /\ Confirmed(candidate, o, needed)
    BY <1>4 DEF ReadOK
  <2> HIDE DEF candidate
  <2>3. ASSUME r.st = pending, next.count < needed \/ next.count <= Debounce
        PROVE  FieldInv(r.st, next, needed) /\ Moves(st, r, next, needed)
    <3>1. /\ r.st \in FieldType
          /\ r.st.candidate = candidate
          /\ r.st.seeded = st.seeded
          /\ r.st.stable_value = st.stable_value
          /\ r.st.stable_status = st.stable_status
          /\ r.st.retained_error_active = st.retained_error_active
          /\ r.st.pre_error_value = st.pre_error_value
      BY <1>1, <2>1, <2>3, OfferedField
    <3>2. RowPending(r.st, next, needed)
      BY <1>2, <2>1, <2>3, <3>1 DEF RowPending
    <3>3. FieldInv(r.st, next, needed)
      BY <1>2, <3>1, <3>2 DEF FieldInv
    <3>4. Moves(st, r, next, needed)
      BY <3>1 DEF Moves, ErrorRemembers
    <3> QED
      BY <3>3, <3>4
  <2>4. CASE /\ r = [st |-> pending, outcome |-> "rejected", full |-> TRUE]
             /\ Replaces(st, o, needed)
    <3>1. r.st = pending
      BY <2>4
    <3> QED
      BY <2>1, <2>3, <2>4, <3>1
  <2>5. CASE /\ r = [st |-> pending, outcome |-> "none", full |-> TRUE]
             /\ ~Confirmed(candidate, o, needed)
    <3>1. r.st = pending
      BY <2>5
    <3>2. next.count < needed \/ next.count <= Debounce
      BY <1>2, <2>1, <2>5 DEF Confirmed, RowType
    <3> QED
      BY <2>3, <3>1, <3>2
  <2>6. CASE /\ r = [st |-> Committed(st, candidate),
                     outcome |-> CommitOutcome(st, candidate),
                     full |-> candidate.full]
             /\ Confirmed(candidate, o, needed)
    <3>1. /\ r.st = Committed(st, candidate)
          /\ r.outcome = CommitOutcome(st, candidate)
      BY <2>6
    <3>2. /\ r.st \in FieldType
          /\ r.st.candidate = NoCandidate
          /\ r.st.seeded
          /\ r.st.stable_value = v
          /\ r.st.stable_status = "OK"
          /\ ~r.st.retained_error_active
      BY <1>1, <2>1, <3>1, CommittedField
    <3>3. next.count >= needed
      BY <2>1, <2>6 DEF Confirmed
    <3>4. RowPending(r.st, next, needed)
      BY <1>2, <3>2 DEF RowPending, Close
    <3>5. FieldInv(r.st, next, needed)
      BY <1>2, <3>2, <3>4 DEF FieldInv
    <3>6. st.stable_value # v =>
            \/ r.outcome \in {"changed", "recovered_moved"}
            \/ r.outcome = "recovered" /\ ~ErrorRemembers(st)
            \/ ~st.seeded /\ r.st.seeded
      BY <2>1, <3>1, <3>2 DEF CommitOutcome, ErrorRemembers
    <3>7. Moves(st, r, next, needed)
      BY <1>2, <3>2, <3>3, <3>6 DEF Moves, ErrorRemembers
    <3> QED
      BY <3>5, <3>7
  <2> QED
    BY <2>2, <2>4, <2>5, <2>6
<1> QED
  BY <1>3, <1>4

(* Discarding the candidate ends the pending row, and leaves a row that the
   comparator stands for. *)
LEMMA DroppedInv ==
  ASSUME NEW st, NEW row, NEW needed, FieldInv(st, row, needed)
  PROVE  /\ FieldInv(Dropped(st), NoRow, needed)
         /\ st.candidate = NoCandidate => FieldInv(Dropped(st), row, needed)
<1>1. st \in FieldType
  BY DEF FieldInv
<1>2. /\ Dropped(st) \in FieldType
      /\ Dropped(st).candidate = NoCandidate
      /\ Dropped(st).seeded = st.seeded
      /\ Dropped(st).stable_value = st.stable_value
      /\ Dropped(st).stable_status = st.stable_status
      /\ Dropped(st).retained_error_active = st.retained_error_active
  BY <1>1, DroppedField
<1>3. NoRow \in RowType
  BY RetentionAssumption DEF NoRow, RowType
<1> QED
  BY <1>2, <1>3 DEF FieldInv, RowPending, Close

(* An error ends the row; the comparator stays. *)
LEMMA ReadErrorField ==
  ASSUME NEW st, NEW row, NEW needed, FieldInv(st, row, needed),
         NEW status \in RetainableErrors, NEW o, o.status = status,
         NEW r, r = ReadError(st, o)
  PROVE  FieldInv(r.st, NoRow, needed) /\ Moves(st, r, NoRow, needed)
<1> DEFINE a == Dropped(st)
           remembered == IF st.retained_error_active THEN a
                         ELSE [a EXCEPT !.pre_error_value = st.stable_value]
<1>1. /\ a \in FieldType
      /\ a.candidate = NoCandidate
      /\ a.seeded = st.seeded
      /\ a.stable_value = st.stable_value
      /\ a.stable_status = st.stable_status
      /\ a.retained_error_active = st.retained_error_active
      /\ a.pre_error_value = st.pre_error_value
  BY DroppedField DEF FieldInv
<1>2. st.stable_value \in Values \cup {NoValue}
  BY DEF FieldInv, FieldType
<1>3. r = IF st.last_retained_error = status
          THEN [st |-> remembered, outcome |-> "none", full |-> TRUE]
          ELSE [st |-> [remembered EXCEPT !.stable_status = status,
                                          !.retained_error_active = TRUE,
                                          !.last_retained_error = status],
                outcome |-> "error", full |-> o.full]
  BY DEF ReadError
<1> HIDE DEF a
<1>4. /\ remembered \in FieldType
      /\ remembered.candidate = NoCandidate
      /\ remembered.seeded = st.seeded
      /\ remembered.stable_value = st.stable_value
      /\ remembered.stable_status = st.stable_status
      /\ remembered.retained_error_active = st.retained_error_active
      /\ remembered.pre_error_value = IF st.retained_error_active
                                      THEN st.pre_error_value
                                      ELSE st.stable_value
  <2>1. CASE st.retained_error_active
    BY <1>1, <2>1
  <2>2. CASE ~st.retained_error_active
    <3>1. remembered = [a EXCEPT !.pre_error_value = st.stable_value]
      BY <2>2
    <3> QED
      BY <1>1, <1>2, <2>2, <3>1 DEF FieldType
  <2> QED
    BY <2>1, <2>2
<1> HIDE DEF remembered
<1>5. NoRow \in RowType
  BY RetentionAssumption DEF NoRow, RowType
<1>6. CASE st.last_retained_error = status
  <2>1. r.st = remembered /\ r.outcome = "none"
    BY <1>3, <1>6
  <2>2. FieldInv(r.st, NoRow, needed)
    BY <1>4, <1>5, <2>1 DEF FieldInv, RowPending
  <2>3. Moves(st, r, NoRow, needed)
    BY <1>4, <2>1 DEF Moves, ErrorRemembers
  <2> QED
    BY <2>2, <2>3
<1>7. CASE st.last_retained_error # status
  <2> DEFINE b == [remembered EXCEPT !.stable_status = status,
                                     !.retained_error_active = TRUE]
  <2>1. r.st = [b EXCEPT !.last_retained_error = status]
    BY <1>3, <1>7
  <2>2. /\ b \in FieldType
        /\ b.candidate = NoCandidate
        /\ b.stable_status = status
        /\ b.stable_value = st.stable_value
        /\ b.retained_error_active
        /\ b.pre_error_value = IF st.retained_error_active
                               THEN st.pre_error_value ELSE st.stable_value
    BY <1>4 DEF FieldType
  <2> HIDE DEF b
  <2>3. /\ r.st \in FieldType
        /\ r.st.candidate = NoCandidate
        /\ r.st.stable_status = status
        /\ r.st.stable_value = st.stable_value
        /\ r.st.retained_error_active
        /\ r.st.pre_error_value = IF st.retained_error_active
                                  THEN st.pre_error_value ELSE st.stable_value
    BY <2>1, <2>2 DEF FieldType
  <2>4. FieldInv(r.st, NoRow, needed)
    BY <1>5, <2>3 DEF FieldInv, RowPending
  <2>5. Moves(st, r, NoRow, needed)
    BY <2>3 DEF Moves, ErrorRemembers
  <2> QED
    BY <2>4, <2>5
<1> QED
  BY <1>6, <1>7

(* What process_tick may be told of a field. *)
Reading(o) ==
  /\ o.full \in BOOLEAN
  /\ o.status = "OK" => o.value \in Values

(* The row of a field after it was given reading o. *)
RowAfter(row, o) == IF o.status = "OK" THEN OneMore(row, o.value) ELSE NoRow

(* Any reading. *)
LEMMA ReadField ==
  ASSUME NEW st, NEW row, NEW needed \in {1, 2}, FieldInv(st, row, needed),
         NEW o, Reading(o)
  PROVE  /\ FieldInv(Read(st, o, needed).st, RowAfter(row, o), needed)
         /\ Moves(st, Read(st, o, needed), RowAfter(row, o), needed)
<1>1. CASE o.status = "OK"
  <2>1. Read(st, o, needed) = ReadOK(st, o, needed)
    BY <1>1 DEF Read, RetainableErrors, ParseErrors
  <2>2. RowAfter(row, o) = OneMore(row, o.value)
    BY <1>1 DEF RowAfter
  <2>3. o.value \in Values /\ o.full \in BOOLEAN
    BY <1>1 DEF Reading
  <2> QED
    BY <2>1, <2>2, <2>3, ReadOkField
<1>2. CASE o.status \in RetainableErrors
  <2>1. Read(st, o, needed) = ReadError(st, o) /\ o.status # "OK"
    BY <1>2 DEF Read, RetainableErrors, ParseErrors
  <2>2. RowAfter(row, o) = NoRow
    BY <2>1 DEF RowAfter
  <2> QED
    BY <1>2, <2>1, <2>2, ReadErrorField
<1>3. CASE o.status # "OK" /\ o.status \notin RetainableErrors
  <2>1. Read(st, o, needed)
          = [st |-> Dropped(st), outcome |-> "none", full |-> TRUE]
    BY <1>3, Zenon DEF Read
  <2>2. RowAfter(row, o) = NoRow
    BY <1>3 DEF RowAfter
  <2>3. Read(st, o, needed).st = Dropped(st)
    BY <2>1
  <2>4. Moves(st, Read(st, o, needed), NoRow, needed)
    BY <2>3, DroppedField DEF Moves, ErrorRemembers, FieldInv
  <2> QED
    BY <2>2, <2>3, <2>4, DroppedInv
<1> QED
  BY <1>1, <1>2, <1>3

(* What a tick may observe of a field is such a reading. *)
LEMMA ObservedReading ==
  ASSUME TypeOK, CacheIsOcr, NEW s \in Sources, NEW o \in Observations(s)
  PROVE  /\ Reading(o)
         /\ o.value \in Values \cup {NoValue}
         /\ o.status \in Statuses \cup {"none"}
<1>1. CASE o \in FreshReadings
  BY <1>1 DEF FreshReadings, Reading, Statuses, RetainableErrors, ParseErrors
<1>2. CASE o = FailedReading
  BY <1>2 DEF FailedReading, Reading, Statuses, RetainableErrors
<1>3. CASE o \in CachedReadings(s)
  BY <1>3 DEF CachedReadings, Reading, TypeOK, CacheIsOcr
<1> QED
  BY <1>1, <1>2, <1>3 DEF Observations

(* A frame has a reading for every field. *)
LEMMA FrameReading ==
  ASSUME TypeOK, CacheIsOcr, NEW f \in Frames, NEW s \in Sources
  PROVE  /\ Reading(f[s])
         /\ f[s].value \in Values \cup {NoValue}
         /\ f[s].status \in Statuses \cup {"none"}
<1>1. f[s] \in Observations(s)
  BY DEF Frames
<1> QED
  BY <1>1, ObservedReading

(* The history of readings goes on as the lemmas on one field follow it. *)
LEMMA GivenRow ==
  ASSUME NEW f, NEW s \in Sources
  PROVE  Given(f)[s] = RowAfter(run[s], f[s])
<1>1. CASE f[s].status = "OK" /\ run[s].value = f[s].value
  BY <1>1 DEF Given, Extended, RowAfter, OneMore
<1>2. CASE f[s].status = "OK" /\ run[s].value # f[s].value
  BY <1>2 DEF Given, Extended, RowAfter, OneMore
<1>3. CASE f[s].status # "OK"
  BY <1>3 DEF Given, Extended, RowAfter
<1> QED
  BY <1>1, <1>2, <1>3

(* The cache keeps its type, and what it holds as a value is one. *)
LEMMA CachedType ==
  ASSUME TypeOK, CacheIsOcr, NEW f \in Frames, NEW rejected,
         cache' = Cached(f, rejected)
  PROVE  /\ cache' \in [Sources -> [status : Statuses \cup {"none"},
                                    value : Values \cup {NoValue},
                                    read : Statuses \cup {"none"}]]
         /\ CacheIsOcr'
<1> DEFINE Slot == [status : Statuses \cup {"none"}, value : Values \cup {NoValue},
                    read : Statuses \cup {"none"}]
<1>1. ASSUME NEW s \in Sources
      PROVE  /\ cache'[s] \in Slot
             /\ cache'[s].status = "OK" => cache'[s].value \in Values
  <2>1. /\ Reading(f[s])
        /\ f[s].value \in Values \cup {NoValue}
        /\ f[s].status \in Statuses \cup {"none"}
    BY FrameReading
  <2>2. CASE f[s].how # "fresh"
    <3>1. cache'[s] = cache[s]
      BY <2>2 DEF Cached
    <3> QED
      BY <3>1 DEF TypeOK, CacheIsOcr
  <2>3. CASE f[s].how = "fresh" /\ s \in rejected
    <3>1. cache'[s] = [status |-> "UNSTABLE_READING", value |-> f[s].value,
                       read |-> f[s].status]
      BY <2>3 DEF Cached
    <3> QED
      BY <2>1, <3>1 DEF Statuses
  <2>4. CASE f[s].how = "fresh" /\ s \notin rejected
    <3>1. cache'[s] = [status |-> f[s].status, value |-> f[s].value,
                       read |-> f[s].status]
      BY <2>4 DEF Cached
    <3> QED
      BY <2>1, <3>1 DEF Reading
  <2> QED
    BY <2>2, <2>3, <2>4
<1>2. cache' \in [Sources -> Slot]
  BY <1>1 DEF Cached
<1> QED
  BY <1>1, <1>2 DEF CacheIsOcr

(* The error the journal reports of a named field is one it retains. *)
LEMMA ToldType ==
  ASSUME TypeOK, NEW states, NEW named,
         \A s \in Sources : states[s].retained_error_active =>
                              states[s].stable_status \in RetainableErrors
  PROVE  Told(states, named) \in [Sources -> RetainableErrors \cup {"none"}]
<1>1. ASSUME NEW s \in Sources
      PROVE  Told(states, named)[s] \in RetainableErrors \cup {"none"}
  <2>1. CASE s \notin named
    BY <2>1 DEF Told, TypeOK
  <2>2. CASE s \in named /\ states[s].retained_error_active
    BY <2>2 DEF Told
  <2>3. CASE s \in named /\ ~states[s].retained_error_active
    BY <2>3 DEF Told
  <2> QED
    BY <2>1, <2>2, <2>3
<1> QED
  BY <1>1 DEF Told

(* An event accounts for every comparator it carries. *)
LEMMA AccountedType ==
  ASSUME TypeOK, NEW states, NEW written,
         \A s \in Sources : states[s].stable_value \in Values \cup {NoValue}
  PROVE  Accounted(states, written) \in [Sources -> Values \cup {NoValue}]
  BY DEF Accounted, TypeOK
-----------------------------------------------------------------------------
(* One tick, field by field. *)

TickRead(f) == [s \in Sources |-> Read(engine[s], f[s], confirmations[s])]
Due(f) == Decision(TickRead(f)).kind # "none"
Lost(f, result) == Due(f) /\ result = "StorageFailure"
Pauses(result, pauses) == pauses /\ result # "OSError"
FieldKept(f, result, s) ==
  IF Lost(f, result) THEN engine[s] ELSE TickRead(f)[s].st
RowKept(f, result, s) ==
  IF Lost(f, result) THEN run[s] ELSE RowAfter(run[s], f[s])

(* What a tick makes of a field, of its row and of its recorded value. *)
LEMMA TickField ==
  ASSUME NEW f, NEW result, NEW pauses \in BOOLEAN, Tick(f, result, pauses),
         NEW s \in Sources
  PROVE  /\ engine'[s] = IF Pauses(result, pauses)
                         THEN Dropped(FieldKept(f, result, s))
                         ELSE FieldKept(f, result, s)
         /\ run'[s] = IF /\ Pauses(result, pauses)
                         /\ FieldKept(f, result, s).candidate # NoCandidate
                      THEN NoRow ELSE RowKept(f, result, s)
         /\ durable'[s] = IF Lost(f, result) THEN durable[s]
                          ELSE IF \/ Due(f) /\ result = "stored"
                                  \/ /\ TickRead(f)[s].st.seeded
                                     /\ ~engine[s].seeded
                               THEN TickRead(f)[s].st.stable_value
                               ELSE durable[s]
<1> DEFINE after == [t \in Sources |-> TickRead(f)[t].st]
           kept == IF Lost(f, result) THEN engine ELSE after
           rows == IF Lost(f, result) THEN run ELSE Given(f)
<1>1. /\ engine' = IF Pauses(result, pauses) THEN DropAll(kept) ELSE kept
      /\ run' = Ended(rows, kept, pauses /\ result # "OSError")
      /\ durable' = IF Lost(f, result) THEN durable
                    ELSE Accounted(after, Due(f) /\ result = "stored")
  BY Zenon DEF Tick, TickRead, Due, Lost, Pauses, Kept
<1>2. kept[s] = FieldKept(f, result, s)
  BY DEF FieldKept
<1>3. rows[s] = RowKept(f, result, s)
  BY GivenRow DEF RowKept
<1>4. after[s] = TickRead(f)[s].st
  OBVIOUS
<1> HIDE DEF after, kept, rows
<1> QED
  <2>1. engine'[s] = IF Pauses(result, pauses)
                     THEN Dropped(FieldKept(f, result, s))
                     ELSE FieldKept(f, result, s)
    BY <1>1, <1>2 DEF DropAll
  <2>2. run'[s] = IF /\ Pauses(result, pauses)
                     /\ FieldKept(f, result, s).candidate # NoCandidate
                  THEN NoRow ELSE RowKept(f, result, s)
    BY <1>1, <1>2, <1>3 DEF Ended, Pauses
  <2>3. durable'[s] = IF Lost(f, result) THEN durable[s]
                      ELSE IF \/ Due(f) /\ result = "stored"
                              \/ /\ TickRead(f)[s].st.seeded
                                 /\ ~engine[s].seeded
                           THEN TickRead(f)[s].st.stable_value
                           ELSE durable[s]
    BY <1>1, <1>4 DEF Accounted
  <2> QED
    BY <2>1, <2>2, <2>3

(* A reading keeps the invariant of its field, and moves the comparator only
   by a commit. *)
LEMMA TickReads ==
  ASSUME FieldsInv, NEW f \in Frames, NEW s \in Sources
  PROVE  /\ FieldInv(TickRead(f)[s].st, RowAfter(run[s], f[s]), confirmations[s])
         /\ Moves(engine[s], TickRead(f)[s], RowAfter(run[s], f[s]),
                  confirmations[s])
<1>1. Reading(f[s])
  BY FrameReading DEF FieldsInv
<1>2. confirmations[s] \in {1, 2}
  BY DEF FieldsInv, TypeOK
<1>3. FieldInv(engine[s], run[s], confirmations[s])
  BY DEF FieldsInv
<1>4. TickRead(f)[s] = Read(engine[s], f[s], confirmations[s])
  BY DEF TickRead
<1> QED
  BY <1>1, <1>2, <1>3, <1>4, ReadField

(* When no event is due, a comparator moves only to a field's first value. *)
LEMMA QuietTick ==
  ASSUME FieldsInv, NEW f \in Frames, NEW s \in Sources, ~Due(f),
         TickRead(f)[s].st.stable_value # engine[s].stable_value
  PROVE  ~engine[s].seeded /\ TickRead(f)[s].st.seeded
<1> DEFINE read == TickRead(f)
<1>1. \/ read[s].outcome \in {"changed", "recovered_moved"}
      \/ read[s].outcome = "recovered" /\ ~ErrorRemembers(engine[s])
      \/ ~engine[s].seeded /\ read[s].st.seeded
  BY TickReads DEF Moves
<1>2. mode = "changed_only" => ErrorRemembers(engine[s])
  BY DEF FieldsInv
<1>3. Decision(read).kind = "none"
  BY DEF Due
<1> HIDE DEF read
<1> DEFINE with(outcomes) == {t \in Sources : read[t].outcome \in outcomes}
           errors == IF mode = "changed_only" THEN {} ELSE with({"error"})
           changes == with({"changed", "recovered_moved"} \cup
                           (IF mode = "changed_only" THEN {}
                            ELSE {"recovered"}))
           kind == CASE errors # {} -> "RETAINED_ERROR"
                     [] errors = {} /\ changes # {} -> "RETAINED_CHANGE"
                     [] errors = {} /\ changes = {}
                          /\ mode = "every_tick_diagnostic" ->
                          "RETAINED_DIAGNOSTIC"
                     [] OTHER -> "none"
<1>4. kind = "none"
  BY <1>3, Zenon DEF Decision
<1>5. s \in changes =>
        FALSE
  <2> HIDE DEF errors, changes
  <2>1. changes # {} => kind # "none"
    OBVIOUS
  <2> QED
    BY <1>4, <2>1
<1>6. read[s].outcome \notin {"changed", "recovered_moved"}
  BY <1>5
<1>7. mode = "changed_only" \/ read[s].outcome # "recovered"
  BY <1>5
<1> QED
  BY <1>1, <1>2, <1>6, <1>7 DEF read

(* The fields after a tick.  A refused event takes a field back to before
   the tick and its row with it; a pause drops what is pending in both. *)
LEMMA TickFields ==
  ASSUME FieldsInv, NEW f \in Frames, NEW result, NEW pauses \in BOOLEAN,
         Tick(f, result, pauses), NEW s \in Sources
  PROVE  /\ FieldInv(engine'[s], run'[s], confirmations[s])
         /\ mode = "changed_only" => ErrorRemembers(engine'[s])
<1> DEFINE k == FieldKept(f, result, s)
           row == RowKept(f, result, s)
<1>1. FieldInv(k, row, confirmations[s])
  BY TickReads DEF FieldKept, RowKept, FieldsInv
<1>2. mode = "changed_only" => ErrorRemembers(k)
  BY TickReads DEF FieldKept, FieldsInv, Moves
<1>3. /\ engine'[s] = IF Pauses(result, pauses) THEN Dropped(k) ELSE k
      /\ run'[s] = IF Pauses(result, pauses) /\ k.candidate # NoCandidate
                   THEN NoRow ELSE row
  BY TickField
<1> HIDE DEF k, row
<1>4. ErrorRemembers(k) => ErrorRemembers(Dropped(k))
  BY <1>1, DroppedField DEF FieldInv, ErrorRemembers
<1> QED
  BY <1>1, <1>2, <1>3, <1>4, DroppedInv

(* So a tick keeps the invariant. *)
LEMMA TickKeepsFields ==
  ASSUME FieldsInv, NEW f \in Frames, NEW result, NEW pauses \in BOOLEAN,
         Tick(f, result, pauses)
  PROVE  FieldsInv'
<1>1. UNCHANGED <<mode, confirmations>>
  BY DEF Tick
<1>2. ASSUME NEW s \in Sources
      PROVE  /\ FieldInv(engine'[s], run'[s], confirmations'[s])
             /\ mode' = "changed_only" => ErrorRemembers(engine'[s])
  BY <1>1, TickFields
<1>3. ASSUME NEW s \in Sources
      PROVE  FieldInv(TickRead(f)[s].st, RowAfter(run[s], f[s]), confirmations[s])
  BY TickReads
<1>4. recording' \in BOOLEAN
  BY DEF Tick
<1>5. engine' \in [Sources -> FieldType]
  <2>1. /\ DOMAIN engine' = Sources
        /\ engine' = [s \in DOMAIN engine' |-> engine'[s]]
    <3> DEFINE after == [s \in Sources |-> TickRead(f)[s].st]
               kept == IF Lost(f, result) THEN engine ELSE after
    <3>1. engine' = IF Pauses(result, pauses) THEN DropAll(kept) ELSE kept
      BY Zenon DEF Tick, TickRead, Due, Lost, Pauses, Kept
    <3>2. CASE engine' = DropAll(kept)
      BY <3>2 DEF DropAll
    <3>3. CASE engine' = after
      BY <3>3
    <3>4. CASE engine' = engine
      BY <3>4 DEF FieldsInv, TypeOK
    <3> QED
      BY <3>1, <3>2, <3>3, <3>4
  <2>2. \A s \in Sources : engine'[s] \in FieldType
    BY <1>2 DEF FieldInv
  <2> QED
    BY <2>1, <2>2
<1>6. /\ cache' \in [Sources -> [status : Statuses \cup {"none"},
                                 value : Values \cup {NoValue},
                                 read : Statuses \cup {"none"}]]
      /\ CacheIsOcr'
  <2>1. PICK rejected : cache' = Cached(f, rejected)
    BY DEF Tick
  <2> QED
    BY <2>1, CachedType DEF FieldsInv
<1>7. durable' \in [Sources -> Values \cup {NoValue}]
  <2> DEFINE after == [s \in Sources |-> TickRead(f)[s].st]
  <2>1. durable' = durable \/ \E written : durable' = Accounted(after, written)
    BY Zenon DEF Tick, TickRead
  <2>2. \A s \in Sources : after[s].stable_value \in Values \cup {NoValue}
    BY <1>3 DEF FieldInv, FieldType
  <2> HIDE DEF after
  <2> QED
    BY <2>1, <2>2, AccountedType DEF FieldsInv, TypeOK
<1>8. told' \in [Sources -> RetainableErrors \cup {"none"}]
  <2> DEFINE after == [s \in Sources |-> TickRead(f)[s].st]
  <2>1. told' = told \/ \E named : told' = Told(after, named)
    BY Zenon DEF Tick, TickRead
  <2>2. \A s \in Sources : after[s].retained_error_active =>
                             after[s].stable_status \in RetainableErrors
    BY <1>3 DEF FieldInv
  <2> HIDE DEF after
  <2> QED
    BY <2>1, <2>2, ToldType DEF FieldsInv, TypeOK
<1>9. TypeOK'
  BY <1>1, <1>4, <1>5, <1>6, <1>7, <1>8 DEF FieldsInv, TypeOK, FieldType
<1> QED
  BY <1>2, <1>6, <1>9 DEF FieldsInv

(* A tick whose append is not ended by an unhandled error leaves comparator
   and journal in agreement, and records only what was read often enough. *)
LEMMA TickKeepsDurable ==
  ASSUME DurableInv, NEW f \in Frames, NEW result \in Results,
         result # "OSError", NEW pauses \in BOOLEAN, Tick(f, result, pauses)
  PROVE  /\ ComparatorIsDurable'
         /\ \A s \in Sources :
              durable'[s] # durable[s] =>
                /\ run'[s].value = durable'[s]
                /\ run'[s].count >= confirmations[s]
<1> SUFFICES ASSUME NEW s \in Sources
             PROVE  /\ engine'[s].stable_value = durable'[s]
                    /\ durable'[s] # durable[s] =>
                         /\ run'[s].value = durable'[s]
                         /\ run'[s].count >= confirmations[s]
  BY DEF ComparatorIsDurable
<1> DEFINE k == FieldKept(f, result, s)
           read == TickRead(f)[s]
           row == RowAfter(run[s], f[s])
<1>1. FieldsInv /\ engine[s].stable_value = durable[s]
  BY DEF DurableInv, ComparatorIsDurable
<1>2. /\ FieldInv(read.st, row, confirmations[s])
      /\ Moves(engine[s], read, row, confirmations[s])
  BY <1>1, TickReads
<1>3. /\ engine'[s] = IF Pauses(result, pauses) THEN Dropped(k) ELSE k
      /\ run'[s] = IF Pauses(result, pauses) /\ k.candidate # NoCandidate
                   THEN NoRow ELSE RowKept(f, result, s)
      /\ durable'[s] = IF Lost(f, result) THEN durable[s]
                       ELSE IF \/ Due(f) /\ result = "stored"
                               \/ read.st.seeded /\ ~engine[s].seeded
                            THEN read.st.stable_value
                            ELSE durable[s]
  BY TickField
<1>4. k = IF Lost(f, result) THEN engine[s] ELSE read.st
  BY DEF FieldKept
<1>5. RowKept(f, result, s) = IF Lost(f, result) THEN run[s] ELSE row
  BY DEF RowKept
<1>6. ~Due(f) /\ read.st.stable_value # engine[s].stable_value
        => ~engine[s].seeded /\ read.st.seeded
  BY <1>1, QuietTick
<1>7. Due(f) => result = "stored" \/ Lost(f, result)
  BY RetentionAssumption DEF Lost, Results
<1> HIDE DEF k, read, row
<1>8. k \in FieldType
  BY <1>1, <1>2, <1>4 DEF FieldInv, FieldsInv
<1>9. engine'[s].stable_value = k.stable_value
  BY <1>3, <1>8, DroppedField
<1>10. CASE Lost(f, result)
  BY <1>1, <1>3, <1>4, <1>9, <1>10
<1>11. CASE ~Lost(f, result)
  <2>1. engine'[s].stable_value = read.st.stable_value
    BY <1>4, <1>9, <1>11
  <2>2. durable'[s] = read.st.stable_value
    BY <1>1, <1>3, <1>6, <1>7, <1>11
  <2>3. ASSUME durable'[s] # durable[s]
        PROVE  /\ run'[s].value = durable'[s]
               /\ run'[s].count >= confirmations[s]
    <3>1. /\ row.value = read.st.stable_value
          /\ row.count >= confirmations[s]
          /\ read.st.candidate = NoCandidate
      BY <1>1, <1>2, <2>2, <2>3 DEF Moves
    <3>2. run'[s] = row
      BY <1>3, <1>4, <1>5, <1>11, <3>1
    <3> QED
      BY <2>2, <3>1, <3>2
  <2> QED
    BY <2>1, <2>2, <2>3
<1> QED
  BY <1>10, <1>11
-----------------------------------------------------------------------------
(* The other steps. *)

LEMMA InitFields == Init => DurableInv
<1> SUFFICES ASSUME Init PROVE DurableInv
  OBVIOUS
<1> USE RetentionAssumption
<1>1. NoCandidate \in CandidateType /\ NoRow \in RowType
  BY DEF NoCandidate, CandidateType, NoRow, RowType
<1>2. Unseeded \in FieldType
  BY <1>1 DEF Unseeded, FieldType
<1>3. /\ Unseeded.candidate = NoCandidate
      /\ ~Unseeded.seeded /\ ~Unseeded.retained_error_active
      /\ Unseeded.stable_value = NoValue
  BY DEF Unseeded
<1>4. ASSUME NEW s \in Sources
      PROVE  engine[s] = Unseeded /\ run[s] = NoRow /\ durable[s] = NoValue
             /\ cache[s] = NoOcr
  BY DEF Init, NoRows
<1>5. /\ NoOcr.status = "none" /\ NoOcr \in [status : Statuses \cup {"none"},
                                           value : Values \cup {NoValue},
                                           read : Statuses \cup {"none"}]
  BY DEF NoOcr
<1>6. TypeOK
  BY <1>2, <1>5 DEF Init, TypeOK, FieldType
<1>7. \A s \in Sources : FieldInv(Unseeded, NoRow, confirmations[s])
  BY <1>1, <1>2, <1>3 DEF FieldInv, RowPending
<1>8. FieldsInv
  BY <1>3, <1>4, <1>5, <1>6, <1>7 DEF FieldsInv, CacheIsOcr, ErrorRemembers
<1> QED
  BY <1>3, <1>4, <1>8 DEF DurableInv, ComparatorIsDurable

(* A step that only discards candidates. *)
LEMMA DropAllKeeps ==
  ASSUME FieldsInv, engine' = DropAll(engine), run' = NoRows,
         UNCHANGED <<mode, confirmations>>
  PROVE  /\ engine' \in [Sources -> FieldType]
         /\ \A s \in Sources :
              /\ engine'[s].stable_value = engine[s].stable_value
              /\ FieldInv(engine'[s], run'[s], confirmations'[s])
              /\ mode' = "changed_only" => ErrorRemembers(engine'[s])
<1>1. ASSUME NEW s \in Sources
      PROVE  /\ engine'[s] \in FieldType
             /\ engine'[s].stable_value = engine[s].stable_value
             /\ FieldInv(engine'[s], run'[s], confirmations'[s])
             /\ mode' = "changed_only" => ErrorRemembers(engine'[s])
  <2>1. FieldInv(engine[s], run[s], confirmations[s]) /\ engine[s] \in FieldType
    BY DEF FieldsInv, FieldInv
  <2>2. engine'[s] = Dropped(engine[s]) /\ run'[s] = NoRow
    BY DEF DropAll, NoRows
  <2>3. mode = "changed_only" => ErrorRemembers(engine[s])
    BY DEF FieldsInv
  <2>4. FieldInv(Dropped(engine[s]), NoRow, confirmations[s])
    BY <2>1, DroppedInv
  <2>5. ErrorRemembers(engine[s]) => ErrorRemembers(Dropped(engine[s]))
    BY <2>1, DroppedField DEF ErrorRemembers
  <2> QED
    BY <2>1, <2>2, <2>3, <2>4, <2>5, DroppedField
<1> QED
  BY <1>1 DEF DropAll

(* A frame that is refused as invalidated. *)
LEMMA InvalidatedKeepsFields ==
  ASSUME FieldsInv, NEW f \in Frames, InvalidatedTick(f)
  PROVE  /\ FieldsInv'
         /\ ComparatorIsDurable => ComparatorIsDurable'
         /\ durable' = durable
<1>1. /\ cache' = Cached(f, {})
      /\ engine' = DropAll(engine) /\ run' = NoRows
      /\ UNCHANGED <<mode, confirmations, durable, told>>
      /\ recording' = FALSE
  BY DEF InvalidatedTick
<1>2. recording' \in BOOLEAN
  BY <1>1
<1>3. /\ cache' \in [Sources -> [status : Statuses \cup {"none"},
                                 value : Values \cup {NoValue},
                                 read : Statuses \cup {"none"}]]
      /\ CacheIsOcr'
  BY <1>1, CachedType DEF FieldsInv
<1>4. /\ engine' \in [Sources -> FieldType]
      /\ \A s \in Sources :
           /\ engine'[s].stable_value = engine[s].stable_value
           /\ FieldInv(engine'[s], run'[s], confirmations'[s])
           /\ mode' = "changed_only" => ErrorRemembers(engine'[s])
  BY <1>1, DropAllKeeps
<1>5. TypeOK'
  BY <1>1, <1>2, <1>3, <1>4 DEF FieldsInv, TypeOK, FieldType
<1> QED
  BY <1>1, <1>3, <1>4, <1>5 DEF FieldsInv, ComparatorIsDurable

(* No frame at all.  A failure that is retained leaves the comparator. *)
LEMMA WorkerFailureKeepsFields ==
  ASSUME FieldsInv, NEW result, NEW pauses \in BOOLEAN,
         WorkerFailure(result, pauses)
  PROVE  /\ FieldsInv'
         /\ ComparatorIsDurable => ComparatorIsDurable' /\ durable' = durable
<1> DEFINE dropped == DropAll(engine)
           failing == {s \in Sources :
                         engine[s].stable_status # "CAPTURE_FAILURE"}
           due == failing # {} /\ mode # "changed_only"
           Failed(st) == [st EXCEPT !.stable_status = "CAPTURE_FAILURE",
                                    !.retained_error_active = TRUE]
           failed == [s \in Sources |-> IF s \in failing
                                        THEN Failed(dropped[s])
                                        ELSE dropped[s]]
<1>1. /\ engine' = IF due /\ result = "stored" THEN failed ELSE dropped
      /\ durable' = Accounted(dropped, due /\ result = "stored")
      /\ told' = IF due /\ result = "stored" THEN Told(failed, failing) ELSE told
      /\ run' = NoRows
      /\ UNCHANGED <<mode, confirmations, cache>>
  BY Zenon DEF WorkerFailure
<1>2. recording' \in BOOLEAN
  BY DEF WorkerFailure
<1>3. ASSUME NEW s \in Sources
      PROVE  /\ dropped[s] \in FieldType
             /\ dropped[s].stable_value = engine[s].stable_value
             /\ dropped[s].seeded = engine[s].seeded
             /\ dropped[s].candidate = NoCandidate
             /\ FieldInv(dropped[s], NoRow, confirmations[s])
             /\ mode = "changed_only" => ErrorRemembers(dropped[s])
  <2>1. FieldInv(engine[s], run[s], confirmations[s]) /\ engine[s] \in FieldType
    BY DEF FieldsInv, FieldInv
  <2>2. dropped[s] = Dropped(engine[s])
    BY DEF DropAll
  <2>3. FieldInv(Dropped(engine[s]), NoRow, confirmations[s])
    BY <2>1, DroppedInv
  <2>4. mode = "changed_only" => ErrorRemembers(engine[s])
    BY DEF FieldsInv
  <2> HIDE DEF dropped
  <2>5. ErrorRemembers(engine[s]) => ErrorRemembers(dropped[s])
    BY <2>1, <2>2, DroppedField DEF ErrorRemembers
  <2> QED
    BY <2>1, <2>2, <2>3, <2>4, <2>5, DroppedField
<1>4. dropped = [s \in Sources |-> dropped[s]]
  BY DEF DropAll
<1> HIDE DEF dropped
<1>5. ASSUME NEW s \in Sources
      PROVE  /\ Failed(dropped[s]) \in FieldType
             /\ Failed(dropped[s]).stable_value = engine[s].stable_value
             /\ FieldInv(Failed(dropped[s]), NoRow, confirmations[s])
  <2> DEFINE st == dropped[s]
             st2 == Failed(st)
  <2>1. /\ st \in FieldType
        /\ st.stable_value = engine[s].stable_value
        /\ st.candidate = NoCandidate
        /\ FieldInv(st, NoRow, confirmations[s])
    BY <1>3
  <2> HIDE DEF st
  <2>2. /\ st2 \in FieldType
        /\ st2.candidate = NoCandidate
        /\ st2.stable_value = engine[s].stable_value
        /\ st2.retained_error_active
        /\ st2.stable_status = "CAPTURE_FAILURE"
    BY <2>1 DEF FieldType, RetainableErrors
  <2> HIDE DEF st2
  <2>3. FieldInv(st2, NoRow, confirmations[s])
    BY <2>1, <2>2 DEF FieldInv, RowPending, RetainableErrors
  <2> QED
    BY <2>2, <2>3 DEF st, st2
<1> HIDE DEF Failed
<1>6. ASSUME NEW s \in Sources
      PROVE  /\ failed[s] \in FieldType
             /\ failed[s].stable_value = engine[s].stable_value
             /\ FieldInv(failed[s], NoRow, confirmations[s])
  BY <1>3, <1>5
<1>7. failed = [s \in Sources |-> failed[s]]
  OBVIOUS
<1>8. due => mode # "changed_only"
  OBVIOUS
<1> HIDE DEF due, failing, failed
<1>9. ASSUME NEW s \in Sources
      PROVE  /\ engine'[s] \in FieldType
             /\ engine'[s].stable_value = engine[s].stable_value
             /\ FieldInv(engine'[s], run'[s], confirmations'[s])
             /\ mode' = "changed_only" => ErrorRemembers(engine'[s])
  BY <1>1, <1>3, <1>6, <1>8 DEF NoRows
<1>10. engine' \in [Sources -> FieldType]
  BY <1>1, <1>4, <1>7, <1>9
<1>11. durable' \in [Sources -> Values \cup {NoValue}]
  BY <1>1, <1>3, AccountedType DEF FieldsInv, FieldType
<1>12. told' \in [Sources -> RetainableErrors \cup {"none"}]
  <2>1. \A s \in Sources : failed[s].retained_error_active =>
                             failed[s].stable_status \in RetainableErrors
    BY <1>6 DEF FieldInv
  <2> QED
    BY <1>1, <2>1, ToldType DEF FieldsInv, TypeOK
<1>13. TypeOK'
  BY <1>1, <1>2, <1>10, <1>11, <1>12 DEF FieldsInv, TypeOK, FieldType
<1>14. CacheIsOcr'
  BY <1>1 DEF FieldsInv, CacheIsOcr
<1>15. FieldsInv'
  BY <1>9, <1>13, <1>14 DEF FieldsInv
<1>16. ASSUME ComparatorIsDurable
       PROVE  ComparatorIsDurable' /\ durable' = durable
  <2>1. ASSUME NEW s \in Sources PROVE durable'[s] = durable[s]
    BY <1>1, <1>3, <1>16 DEF Accounted, ComparatorIsDurable
  <2>2. durable' = durable
    BY <1>11, <2>1 DEF FieldsInv, TypeOK
  <2> QED
    BY <1>9, <1>16, <2>2 DEF ComparatorIsDurable
<1> QED
  BY <1>15, <1>16

(* A pause or resume by the user, and stuttering, touch no field. *)
LEMMA UserKeepsFields ==
  ASSUME FieldsInv,
         UNCHANGED <<mode, confirmations, engine, cache, history>>,
         recording' \in BOOLEAN
  PROVE  /\ FieldsInv'
         /\ ComparatorIsDurable => ComparatorIsDurable'
         /\ durable' = durable
<1>1. UNCHANGED <<mode, confirmations, engine, cache, durable, told, run>>
  BY DEF history
<1>2. TypeOK'
  BY <1>1 DEF FieldsInv, TypeOK
<1> QED
  BY <1>1, <1>2 DEF FieldsInv, CacheIsOcr, ComparatorIsDurable
-----------------------------------------------------------------------------
(* Every step of a recording.  Only an append that ends in an error nobody
   handles, the OSError of creating the directory of the crops, parts the
   comparator from the journal: tick() is left with the engine moved on. *)
LEMMA StepKeepsFields ==
  ASSUME FieldsInv, [Next]_vars
  PROVE  FieldsInv'
<1>1. ASSUME NEW f \in Frames, NEW result \in Results, NEW pauses \in BOOLEAN,
             Tick(f, result, pauses)
      PROVE  FieldsInv'
  BY <1>1, TickKeepsFields
<1>2. ASSUME NEW f \in Frames, InvalidatedTick(f)
      PROVE  FieldsInv'
  BY <1>2, InvalidatedKeepsFields
<1>3. ASSUME NEW result \in Results, NEW pauses \in BOOLEAN,
             WorkerFailure(result, pauses)
      PROVE  FieldsInv'
  BY <1>3, WorkerFailureKeepsFields
<1>4. CASE UserPause \/ UserResume
  <2>1. recording' \in BOOLEAN
    BY <1>4 DEF UserPause, UserResume
  <2> QED
    BY <1>4, <2>1, UserKeepsFields DEF UserPause, UserResume
<1>5. CASE UNCHANGED vars
  <2>1. UNCHANGED <<mode, confirmations, engine, cache, history>>
    BY <1>5 DEF vars
  <2>2. recording' \in BOOLEAN
    BY <1>5 DEF vars, FieldsInv, TypeOK
  <2> QED
    BY <2>1, <2>2, UserKeepsFields
<1> QED
  BY <1>1, <1>2, <1>3, <1>4, <1>5 DEF Next

ConfirmedChange ==
  \A s \in Sources :
    durable'[s] # durable[s] =>
      run'[s].value = durable'[s] /\ run'[s].count >= confirmations[s]

LEMMA StepKeepsDurable ==
  ASSUME "OSError" \notin Failures, DurableInv, [Next]_vars
  PROVE  DurableInv' /\ ConfirmedChange
<1>1. FieldsInv /\ ComparatorIsDurable /\ FieldsInv'
  BY StepKeepsFields DEF DurableInv
<1>2. ASSUME NEW f \in Frames, NEW result \in Results, NEW pauses \in BOOLEAN,
             Tick(f, result, pauses)
      PROVE  ComparatorIsDurable' /\ ConfirmedChange
  <2>1. result # "OSError"
    BY DEF Results
  <2> QED
    BY <1>2, <2>1, TickKeepsDurable DEF ConfirmedChange
<1>3. ASSUME NEW f \in Frames, InvalidatedTick(f)
      PROVE  ComparatorIsDurable' /\ durable' = durable
  BY <1>1, <1>3, InvalidatedKeepsFields
<1>4. ASSUME NEW result \in Results, NEW pauses \in BOOLEAN,
             WorkerFailure(result, pauses)
      PROVE  ComparatorIsDurable' /\ durable' = durable
  BY <1>1, <1>4, WorkerFailureKeepsFields
<1>5. durable' = durable => ConfirmedChange
  BY DEF ConfirmedChange
<1>6. CASE UserPause \/ UserResume \/ UNCHANGED vars
  <2>1. durable' = durable /\ engine' = engine
    BY <1>6 DEF UserPause, UserResume, vars, history
  <2>2. ComparatorIsDurable'
    BY <1>1, <2>1 DEF ComparatorIsDurable
  <2> QED
    BY <1>1, <1>5, <2>1, <2>2 DEF DurableInv
<1> QED
  BY <1>1, <1>2, <1>3, <1>4, <1>5, <1>6 DEF Next, DurableInv

(* In every reachable state of a recording each field's comparator, candidate
   and row of equal readings fit together. *)
THEOREM FieldsStayInStep == Spec => []FieldsInv
<1>1. Init => FieldsInv
  BY InitFields DEF DurableInv
<1>2. FieldsInv /\ [Next]_vars => FieldsInv'
  BY StepKeepsFields
<1> QED
  BY <1>1, <1>2, PTL DEF Spec

(* The type invariant of the module. *)
THEOREM RetentionTypeCorrect == Spec => []TypeOK
<1>1. FieldsInv => TypeOK
  BY DEF FieldsInv
<1> QED
  BY <1>1, FieldsStayInStep, PTL

(* Nothing hides a value the engine is given: errors, refused writes, pauses
   and even an append that ends in an unhandled error do not keep a value
   that was read often and long enough out of the comparator. *)
THEOREM ReadValuesAreRetained == Spec => []ReadValueRetained
<1>1. FieldsInv => ReadValueRetained
  <2> SUFFICES ASSUME FieldsInv, NEW s \in Sources,
                      Enough(s, run[s].count)
               PROVE  Near(s, run[s].value)
    BY DEF ReadValueRetained
  <2>1. /\ RowPending(engine[s], run[s], confirmations[s])
        /\ run[s] \in RowType
        /\ confirmations[s] \in {1, 2}
    BY DEF FieldsInv, FieldInv, TypeOK
  <2>2. CASE run[s] = NoRow
    BY <2>1, <2>2 DEF NoRow, Enough
  <2>3. CASE run[s] # NoRow /\ engine[s].candidate # NoCandidate
    BY <2>1, <2>3, RetentionAssumption DEF RowPending, Enough, RowType
  <2>4. CASE run[s] # NoRow /\ engine[s].candidate = NoCandidate
    BY <2>1, <2>4 DEF RowPending, Close, Near
  <2> QED
    BY <2>2, <2>3, <2>4
<1> QED
  BY <1>1, FieldsStayInStep, PTL

(* No value is lost between the engine and the journal, provided that an
   append either succeeds or fails as a StorageFailure, the failure the
   controller rolls back. *)
THEOREM ComparatorStaysDurable ==
  ASSUME "OSError" \notin Failures
  PROVE  Spec => []ComparatorIsDurable
<1>1. Init => DurableInv
  BY InitFields
<1>2. DurableInv /\ [Next]_vars => DurableInv'
  BY StepKeepsDurable
<1>3. DurableInv => ComparatorIsDurable
  BY DEF DurableInv
<1> QED
  BY <1>1, <1>2, <1>3, PTL DEF Spec

(* No flicker is retained, under the same condition: a recorded value moves
   only to one read as often in a row as its field asks for; a pause of the
   owner's, which keeps the candidate (controller.py user_pause), does not end
   the row. *)
THEOREM OnlyConfirmedChanges ==
  ASSUME "OSError" \notin Failures
  PROVE  Spec => ChangesAreConfirmed
<1>1. Init => DurableInv
  BY InitFields
<1>2. DurableInv /\ [Next]_vars => DurableInv' /\ [ConfirmedChange]_vars
  BY StepKeepsDurable
<1>3. ChangesAreConfirmed <=> [][ConfirmedChange]_vars
  BY DEF ChangesAreConfirmed, ConfirmedChange
<1> QED
  BY <1>1, <1>2, <1>3, PTL DEF Spec
-----------------------------------------------------------------------------
(* Errors. *)

(* What a reading leaves of an error: the one that was there, or a new one that
   the retention decision hears of. *)
LEMMA ReadLeavesError ==
  ASSUME NEW st \in FieldType, NEW row, NEW needed \in {1, 2}, FieldInv(st, row, needed),
         NEW o, Reading(o),
         NEW r, r = Read(st, o, needed), r.st.retained_error_active, r.outcome # "error"
  PROVE  st.retained_error_active /\ r.st.stable_status = st.stable_status
<1> DEFINE Same(x) == /\ x.retained_error_active = st.retained_error_active
                      /\ x.stable_status = st.stable_status
<1>1. Same(Dropped(st))
  BY DroppedField
<1>2. CASE o.status = "OK"
  <2> DEFINE candidate == Offered(st, o)
  <2>1. r = ReadOK(st, o, needed)
    BY <1>2 DEF Read, RetainableErrors, ParseErrors
  <2>2. CASE SameAsStable(st, o) \/ BelowThreshold(st, o)
    <3>1. r.st = Dropped(st)
      BY <2>1, <2>2 DEF ReadOK
    <3> QED
      BY <1>1, <3>1
  <2>3. CASE ~SameAsStable(st, o) /\ ~BelowThreshold(st, o)
    <3>1. candidate \in CandidateType
      <4> DEFINE next == OneMore(row, o.value)
      <4>1. o.value \in Values /\ o.full \in BOOLEAN
        BY <1>2 DEF Reading
      <4> HIDE DEF candidate
      <4> QED
        BY <2>3, <4>1, OfferedRow DEF candidate
    <3>2. r.st \in {[st EXCEPT !.candidate = candidate], Committed(st, candidate)}
      BY <2>1, <2>3 DEF ReadOK
    <3> HIDE DEF candidate
    <3>3. Same([st EXCEPT !.candidate = candidate])
      BY <3>1, OfferedField
    <3>4. ~Committed(st, candidate).retained_error_active
      BY <3>1, CommittedField
    <3> QED
      BY <3>2, <3>3, <3>4
  <2> QED
    BY <2>2, <2>3
<1>3. CASE o.status \in RetainableErrors
  <2> DEFINE remembered == IF st.retained_error_active THEN Dropped(st)
                           ELSE [Dropped(st) EXCEPT !.pre_error_value = st.stable_value]
  <2>1. r = ReadError(st, o)
    BY <1>3 DEF Read, RetainableErrors, ParseErrors
  <2>2. r.st = remembered
    BY <2>1 DEF ReadError
  <2>3. Same(remembered)
    <3>1. Dropped(st) \in FieldType
      BY DroppedField
    <3> QED
      BY <1>1, <3>1 DEF FieldType
  <2> QED
    BY <2>2, <2>3
<1>4. CASE o.status # "OK" /\ o.status \notin RetainableErrors
  <2>1. r = [st |-> Dropped(st), outcome |-> "none", full |-> TRUE]
    BY <1>4, Zenon DEF Read
  <2>2. r.st = Dropped(st)
    BY <2>1
  <2> QED
    BY <1>1, <2>2
<1> QED
  BY <1>2, <1>3, <1>4

(* Errors are what an event is due for, and it names their fields. *)
LEMMA ErrorsAreNamed ==
  ASSUME NEW read, NEW s \in Sources, read[s].outcome = "error", mode # "changed_only"
  PROVE  Decision(read).kind # "none" /\ s \in Decision(read).named
<1> DEFINE with(outcomes) == {t \in Sources : read[t].outcome \in outcomes}
           errors == IF mode = "changed_only" THEN {} ELSE with({"error"})
           changes == with({"changed", "recovered_moved"} \cup
                           (IF mode = "changed_only" THEN {}
                            ELSE {"recovered"}))
           named == IF errors # {} THEN errors \cup with({"changed"}) ELSE changes
           kind == CASE errors # {} -> "RETAINED_ERROR"
                     [] errors = {} /\ changes # {} -> "RETAINED_CHANGE"
                     [] errors = {} /\ changes = {}
                          /\ mode = "every_tick_diagnostic" ->
                          "RETAINED_DIAGNOSTIC"
                     [] OTHER -> "none"
<1>1. Decision(read).kind = kind /\ Decision(read).named = named
  BY Zenon DEF Decision
<1>2. s \in errors
  OBVIOUS
<1>3. s \in named
  BY <1>2
<1>4. kind # "none"
  <2> HIDE DEF errors, changes
  <2> QED
    BY <1>2
<1> QED
  BY <1>1, <1>3, <1>4

(* A tick whose append is not ended by an unhandled error holds no error for
   reported that the journal does not report. *)
LEMMA TickKeepsErrors ==
  ASSUME FieldsInv, ErrorsAreDurable, NEW f \in Frames, NEW result \in Results,
         result # "OSError", NEW pauses \in BOOLEAN, Tick(f, result, pauses)
  PROVE  ErrorsAreDurable'
<1>1. mode' = mode
  BY DEF Tick
<1> SUFFICES ASSUME NEW s \in Sources, mode # "changed_only",
                    engine'[s].retained_error_active
             PROVE  told'[s] = engine'[s].stable_status
  BY <1>1 DEF ErrorsAreDurable
<1> DEFINE k == FieldKept(f, result, s)
           read == TickRead(f)[s]
<1>2. engine'[s] = IF Pauses(result, pauses) THEN Dropped(k) ELSE k
  BY TickField
<1>3. k = IF Lost(f, result) THEN engine[s] ELSE read.st
  BY DEF FieldKept
<1>4. FieldInv(read.st, RowAfter(run[s], f[s]), confirmations[s])
  BY TickReads
<1>5. engine[s] \in FieldType /\ FieldInv(engine[s], run[s], confirmations[s])
  BY DEF FieldsInv, FieldInv
<1>6. k.retained_error_active /\ k.stable_status = engine'[s].stable_status
  <2> HIDE DEF k
  <2>1. k \in FieldType
    BY <1>3, <1>4, <1>5 DEF FieldInv
  <2> QED
    BY <1>2, <2>1, DroppedField
<1>7. engine[s].retained_error_active => told[s] = engine[s].stable_status
  BY DEF ErrorsAreDurable
<1> DEFINE after == [t \in Sources |-> TickRead(f)[t].st]
           written == Due(f) /\ result = "stored"
<1>8. told' = IF written THEN Told(after, Decision(TickRead(f)).named) ELSE told
  BY Zenon DEF Tick, TickRead, Due
<1>9. after[s] = read.st
  OBVIOUS
<1>10. read.outcome # "error" =>
         (read.st.retained_error_active =>
            engine[s].retained_error_active /\ read.st.stable_status = engine[s].stable_status)
  <2>1. read = Read(engine[s], f[s], confirmations[s])
    BY DEF TickRead
  <2>2. Reading(f[s]) /\ confirmations[s] \in {1, 2}
    BY FrameReading DEF FieldsInv, TypeOK
  <2> HIDE DEF read
  <2> QED
    BY <1>5, <2>1, <2>2, ReadLeavesError
<1>11. read.outcome = "error" => Due(f) /\ s \in Decision(TickRead(f)).named
  BY ErrorsAreNamed DEF Due
<1>12. Due(f) => written \/ Lost(f, result)
  BY RetentionAssumption DEF Lost, Results
<1>13. Lost(f, result) => ~written
  BY DEF Lost
<1> HIDE DEF k, read, after, written
<1>14. CASE Lost(f, result)
  BY <1>3, <1>6, <1>7, <1>8, <1>13, <1>14
<1>15. CASE ~Lost(f, result) /\ ~written
  BY <1>3, <1>6, <1>7, <1>8, <1>10, <1>11, <1>12, <1>15
<1>16. CASE ~Lost(f, result) /\ written
  <2>1. CASE s \in Decision(TickRead(f)).named
    <3>1. told'[s] = after[s].stable_status
      BY <1>3, <1>6, <1>8, <1>9, <1>16, <2>1 DEF Told
    <3> QED
      BY <1>3, <1>6, <1>9, <1>16, <3>1
  <2>2. CASE s \notin Decision(TickRead(f)).named
    <3>1. told'[s] = told[s]
      BY <1>8, <1>16, <2>2 DEF Told
    <3> QED
      BY <1>3, <1>6, <1>7, <1>10, <1>11, <1>16, <2>2, <3>1
  <2> QED
    BY <2>1, <2>2
<1> QED
  BY <1>14, <1>15, <1>16

(* A frame that failed altogether: the failing fields are reported by the same
   event that makes them failing. *)
LEMMA WorkerFailureKeepsErrors ==
  ASSUME FieldsInv, ErrorsAreDurable, NEW result, NEW pauses \in BOOLEAN,
         WorkerFailure(result, pauses)
  PROVE  ErrorsAreDurable'
<1> DEFINE dropped == DropAll(engine)
           failing == {s \in Sources :
                         engine[s].stable_status # "CAPTURE_FAILURE"}
           written == failing # {} /\ mode # "changed_only" /\ result = "stored"
           failed == [s \in Sources |->
                        IF s \in failing
                        THEN [dropped[s] EXCEPT !.stable_status = "CAPTURE_FAILURE",
                                                !.retained_error_active = TRUE]
                        ELSE dropped[s]]
<1>1. /\ engine' = IF written THEN failed ELSE dropped
      /\ told' = IF written THEN Told(failed, failing) ELSE told
      /\ mode' = mode
  BY Zenon DEF WorkerFailure
<1> SUFFICES ASSUME NEW s \in Sources, mode # "changed_only",
                    engine'[s].retained_error_active
             PROVE  told'[s] = engine'[s].stable_status
  BY <1>1 DEF ErrorsAreDurable
<1>2. engine[s].retained_error_active => told[s] = engine[s].stable_status
  BY DEF ErrorsAreDurable
<1>3. /\ dropped[s].retained_error_active = engine[s].retained_error_active
      /\ dropped[s].stable_status = engine[s].stable_status
  BY DroppedField DEF DropAll, FieldsInv, FieldInv
<1>4. failed[s] = IF s \in failing
                  THEN [dropped[s] EXCEPT !.stable_status = "CAPTURE_FAILURE",
                                          !.retained_error_active = TRUE]
                  ELSE dropped[s]
  OBVIOUS
<1> HIDE DEF dropped, failed, failing, written
<1>5. CASE written /\ s \in failing
  BY <1>1, <1>5 DEF Told
<1>6. CASE written /\ s \notin failing
  BY <1>1, <1>2, <1>3, <1>4, <1>6 DEF Told
<1>7. CASE ~written
  BY <1>1, <1>2, <1>3, <1>7
<1> QED
  BY <1>5, <1>6, <1>7

LEMMA StepKeepsErrors ==
  ASSUME "OSError" \notin Failures, FieldsInv, ErrorsAreDurable, [Next]_vars
  PROVE  ErrorsAreDurable'
<1>1. ASSUME NEW f \in Frames, NEW result \in Results, NEW pauses \in BOOLEAN,
             Tick(f, result, pauses)
      PROVE  ErrorsAreDurable'
  <2>1. result # "OSError"
    BY DEF Results
  <2> QED
    BY <1>1, <2>1, TickKeepsErrors
<1>2. ASSUME NEW f \in Frames, InvalidatedTick(f)
      PROVE  ErrorsAreDurable'
  <2>1. engine' = DropAll(engine) /\ told' = told /\ mode' = mode
    BY <1>2 DEF InvalidatedTick
  <2>2. ASSUME NEW s \in Sources
        PROVE  /\ engine'[s].retained_error_active = engine[s].retained_error_active
               /\ engine'[s].stable_status = engine[s].stable_status
    BY <2>1, DroppedField DEF DropAll, FieldsInv, FieldInv
  <2> QED
    BY <2>1, <2>2 DEF ErrorsAreDurable
<1>3. ASSUME NEW result \in Results, NEW pauses \in BOOLEAN,
             WorkerFailure(result, pauses)
      PROVE  ErrorsAreDurable'
  BY <1>3, WorkerFailureKeepsErrors
<1>4. CASE UserPause \/ UserResume \/ UNCHANGED vars
  <2>1. engine' = engine /\ told' = told /\ mode' = mode
    BY <1>4 DEF UserPause, UserResume, vars, history
  <2> QED
    BY <2>1 DEF ErrorsAreDurable
<1> QED
  BY <1>1, <1>2, <1>3, <1>4 DEF Next

(* No error is held for reported that the journal does not report, under the
   same condition: whatever was rolled back, an error the file does not have is
   detected again. *)
THEOREM ErrorsStayDurable ==
  ASSUME "OSError" \notin Failures
  PROVE  Spec => []ErrorsAreDurable
<1>1. Init => FieldsInv /\ ErrorsAreDurable
  <2> SUFFICES ASSUME Init PROVE FieldsInv /\ ErrorsAreDurable
    OBVIOUS
  <2>1. \A s \in Sources : ~engine[s].retained_error_active
    BY DEF Init, Unseeded
  <2> QED
    BY <2>1, InitFields DEF DurableInv, ErrorsAreDurable
<1>2. FieldsInv /\ ErrorsAreDurable /\ [Next]_vars => FieldsInv' /\ ErrorsAreDurable'
  BY StepKeepsFields, StepKeepsErrors
<1> QED
  BY <1>1, <1>2, PTL DEF Spec
=============================================================================
