--------------------------- MODULE SetupScreenProofs ---------------------------
(***************************************************************************)
(* Proofs about the setup screen, for any number of fields, targets,       *)
(* backends and controllers.  The invariant says who has the input         *)
(* (GrabInv), that the controller in charge is of the target selected      *)
(* (ChargeInv), and which regions may count as drawn (RegionsInv).         *)
(***************************************************************************)
EXTENDS SetupScreen, SequenceTheorems, TLAPS

Controllers == [scope : Targets \cup {None}, worker : BOOLEAN]
Pickers     == [field : Fields, controller : Nat, stage : {"countdown", "open"},
                drag : {"none", "unfit", "fit"}]

TypesInv ==
  /\ screen \in {"setup", "ready"} /\ scope \in Targets \cup {None}
  /\ sources \subseteq used /\ used \subseteq Fields
  /\ rect \in [Fields -> Rects]
  /\ confirmed \in [Fields -> {"no", "dialog", "picker", "demo"}]
  /\ controllers \in Seq(Controllers)
  /\ controller \in 0..Len(controllers) /\ review \in 0..Len(controllers)
  /\ picker = None \/ picker \in Pickers

(* The picker and the gate hold the input, and with it everything that they
   rest on, until they are through. *)
GrabInv ==
  /\ picker # None => /\ screen = "setup" /\ ~gate
                      /\ picker.field \in sources
                      /\ controller # 0 /\ picker.controller = controller
  /\ gate => screen = "setup" /\ controller # 0 /\ MayPreview

(* A change of target drops the controller. *)
ChargeInv == controller # 0 => controllers[controller].scope = scope

(* A region that is gone is confirmed no more. *)
RegionsInv ==
  /\ \A f \in Fields \ sources : confirmed[f] = "no"
  /\ DrawnOnTarget

SetupInv == TypesInv /\ GrabInv /\ ChargeInv /\ RegionsInv /\ VerdictIsCurrent
-----------------------------------------------------------------------------
(* What the actions do to the controllers, the picker and the regions. *)

(* No controller is lost, and none changes its target. *)
Kept == /\ controllers' \in Seq(Controllers)
        /\ Len(controllers') \in Nat /\ Len(controllers) \in Nat
        /\ Len(controllers') >= Len(controllers)
        /\ \A i \in 1..Len(controllers) : controllers'[i].scope = controllers[i].scope

(* No controller but c gets a worker. *)
OnlyFor(c) == \A i \in 1..Len(controllers') :
                i # c /\ controllers'[i].worker => i <= Len(controllers) /\ controllers[i].worker

LEMMA ControllerIs ==
  ASSUME NEW s \in Targets \cup {None}, NEW ok \in BOOLEAN
  PROVE  LET r == [scope |-> s, worker |-> ok] IN
         r \in Controllers /\ r.scope = s /\ r.worker = ok
  BY Zenon DEF Controllers

LEMMA RequestedKeeps ==
  ASSUME controllers \in Seq(Controllers), scope \in Targets \cup {None},
         NEW c \in 1..(Len(controllers) + 1), NEW ok \in BOOLEAN, Requested(c, ok)
  PROVE  /\ Kept /\ OnlyFor(c)
         /\ Len(controllers') = IF c > Len(controllers) THEN c ELSE Len(controllers)
         /\ c > Len(controllers) => controllers'[c].scope = scope
<1> DEFINE n == IF c > Len(controllers) THEN c ELSE Len(controllers)
           r == [scope |-> IF c > Len(controllers) THEN scope ELSE controllers[c].scope,
                 worker |-> ok]
<1>1. n \in Nat /\ n >= Len(controllers) /\ Len(controllers) \in Nat
  BY SMT
<1>2. controllers' = [i \in 1..n |-> IF i = c THEN r ELSE controllers[i]]
  BY Zenon DEF Requested
<1>3. \A i \in 1..Len(controllers) : controllers[i] \in Controllers
  OBVIOUS
<1>4. /\ r \in Controllers
      /\ r.scope = IF c > Len(controllers) THEN scope ELSE controllers[c].scope
  <2> DEFINE s == IF c > Len(controllers) THEN scope ELSE controllers[c].scope
  <2>1. ASSUME NEW d \in Controllers PROVE d.scope \in Targets \cup {None}
    BY Zenon DEF Controllers
  <2>2. s \in Targets \cup {None}
    <3>1. CASE c > Len(controllers)
      BY <3>1, Zenon
    <3>2. CASE ~(c > Len(controllers))
      <4>1. controllers[c] \in Controllers
        BY <1>1, <1>3, <3>2, SMT
      <4> QED  BY <2>1, <3>2, <4>1, Zenon
    <3> QED  BY <3>1, <3>2
  <2> HIDE DEF s
  <2>3. [scope |-> s, worker |-> ok] \in Controllers /\ [scope |-> s, worker |-> ok].scope = s
    BY <2>2, ControllerIs
  <2> QED  BY <2>3 DEF s
<1> HIDE DEF r
<1>5. \A i \in 1..n : controllers'[i] = IF i = c THEN r ELSE controllers[i]
  BY <1>2, Zenon
<1>6. \A i \in 1..n : (IF i = c THEN r ELSE controllers[i]) \in Controllers
  BY <1>1, <1>3, <1>4, SMT
<1>7. controllers' \in Seq(Controllers) /\ Len(controllers') = n
  <2>1. controllers' \in [1..n -> Controllers]
    BY <1>2, <1>6, Zenon
  <2> HIDE DEF n
  <2> QED  BY <1>1, <2>1, SMT
<1>8. \A i \in 1..Len(controllers) : controllers'[i].scope = controllers[i].scope
  <2>1. ASSUME NEW i \in 1..Len(controllers) PROVE controllers'[i].scope = controllers[i].scope
    <3>1. i \in 1..n /\ ~(i > Len(controllers))
      BY <1>1, SMT
    <3>2. CASE i = c
      BY <1>4, <1>5, <3>1, <3>2, Zenon
    <3>3. CASE i # c
      BY <1>5, <3>1, <3>3, Zenon
    <3> QED  BY <3>2, <3>3
  <2> QED  BY <2>1
<1>9. OnlyFor(c)
  <2> SUFFICES ASSUME NEW i \in 1..Len(controllers'), i # c, controllers'[i].worker
               PROVE  i <= Len(controllers) /\ controllers[i].worker
    BY Zenon DEF OnlyFor
  <2>1. i \in 1..n
    BY <1>7, Zenon
  <2>2. i <= Len(controllers)
    BY <1>1, <2>1, SMT
  <2>3. controllers'[i] = controllers[i]
    BY <1>5, <2>1, Zenon
  <2> QED  BY <2>2, <2>3, Zenon
<1>10. c > Len(controllers) => controllers'[c].scope = scope
  <2>1. c \in 1..n
    BY <1>1, SMT
  <2> QED  BY <1>4, <1>5, <2>1, Zenon
<1>11. Kept
  BY <1>1, <1>7, <1>8, Zenon DEF Kept
<1> QED  BY <1>7, <1>9, <1>10, <1>11, Zenon

LEMMA DropKeeps ==
  ASSUME controllers \in Seq(Controllers), DropController
  PROVE  /\ Kept /\ Len(controllers') = Len(controllers) /\ controller' = 0
         /\ \A i \in 1..Len(controllers') :
              controllers'[i].worker => i # controller /\ controllers[i].worker
<1> DEFINE n == Len(controllers)
           r(i) == IF i = controller THEN [controllers[i] EXCEPT !.worker = FALSE]
                   ELSE controllers[i]
<1>1. n \in Nat /\ \A i \in 1..n : controllers[i] \in Controllers
  OBVIOUS
<1>2. controllers' = [i \in 1..n |-> r(i)] /\ controller' = 0
  BY Zenon DEF DropController, TornDown
<1>3. ASSUME NEW i \in 1..n
      PROVE  /\ r(i) \in Controllers /\ r(i).scope = controllers[i].scope
             /\ r(i).worker => i # controller /\ controllers[i].worker
  <2>1. ASSUME NEW d \in Controllers
        PROVE  LET e == [d EXCEPT !.worker = FALSE] IN
               e \in Controllers /\ e.scope = d.scope /\ ~e.worker
    <3>1. ASSUME NEW b \in BOOLEAN
          PROVE  LET e == [d EXCEPT !.worker = b] IN
                 e \in Controllers /\ e.scope = d.scope
      BY SMT DEF Controllers
    <3>2. ~[d EXCEPT !.worker = FALSE].worker
      BY SMT DEF Controllers
    <3> QED  BY <3>1, <3>2
  <2>2. CASE i = controller
    BY <1>1, <2>1, <2>2, Zenon
  <2>3. CASE i # controller
    BY <1>1, <2>3, Zenon
  <2> QED  BY <2>2, <2>3
<1>4. controllers' \in [1..n -> Controllers]
  BY <1>2, <1>3, Zenon
<1>5. \A i \in 1..n : controllers'[i] = r(i)
  BY <1>2, Zenon
<1>6. controllers' \in Seq(Controllers) /\ Len(controllers') = n
  <2> HIDE DEF n, r
  <2> QED  BY <1>1, <1>4, SMT
<1>7. \A i \in 1..n : controllers'[i].scope = controllers[i].scope
  BY <1>3, <1>5, Zenon
<1>8. \A i \in 1..n : controllers'[i].worker => i # controller /\ controllers[i].worker
  BY <1>3, <1>5, Zenon
<1>9. Len(controllers') >= Len(controllers) /\ Len(controllers') \in Nat
  BY <1>1, <1>6, SMT
<1> HIDE DEF r
<1> QED  BY <1>1, <1>2, <1>6, <1>7, <1>8, <1>9, Zenon DEF Kept

(* The controller made if there is none is the one in charge. *)
LEMMA EnsuredKeeps ==
  ASSUME TypesInv, NEW ok \in BOOLEAN, EnsureController, Requested(Ensured, ok)
  PROVE  /\ Kept /\ OnlyFor(controller')
         /\ controller' \in 1..Len(controllers')
         /\ controller # 0 => controller' = controller
         /\ controller = 0 => controllers'[controller'].scope = scope
<1>1. /\ Ensured \in 1..(Len(controllers) + 1) /\ controller' = Ensured
      /\ controller # 0 => Ensured = controller
      /\ controller = 0 => Ensured > Len(controllers)
      /\ Len(controllers) \in Nat
  BY SMT DEF TypesInv, EnsureController, Ensured
<1> HIDE DEF Ensured
<1>2. /\ Kept /\ OnlyFor(Ensured)
      /\ Len(controllers') = IF Ensured > Len(controllers) THEN Ensured ELSE Len(controllers)
      /\ Ensured > Len(controllers) => controllers'[Ensured].scope = scope
  BY <1>1, RequestedKeeps, Zenon DEF TypesInv
<1>3. Ensured \in 1..Len(controllers')
  BY <1>1, <1>2, SMT
<1> QED  BY <1>1, <1>2, <1>3, Zenon

LEMMA RectsAre ==
  /\ Placeholder \in Rects /\ Typed \in Rects
  /\ \A t \in Targets \cup {None} : Drawn(t) \in Rects
  BY SMT DEF Rects, Placeholder, Typed, Drawn

LEMMA PickersAre ==
  ASSUME NEW p \in Pickers
  PROVE  /\ p.field \in Fields /\ p.controller \in Nat
         /\ LET q == [p EXCEPT !.stage = "open"] IN
            q \in Pickers /\ q.field = p.field /\ q.controller = p.controller
         /\ \A d \in {"none", "unfit", "fit"} :
              LET q == [p EXCEPT !.drag = d] IN
              q \in Pickers /\ q.field = p.field /\ q.controller = p.controller
<1>1. p.field \in Fields /\ p.controller \in Nat
  BY SMT DEF Pickers
<1>2. LET q == [p EXCEPT !.stage = "open"] IN
      q \in Pickers /\ q.field = p.field /\ q.controller = p.controller
  BY SMT DEF Pickers
<1>3. ASSUME NEW d \in {"none", "unfit", "fit"}
      PROVE  LET q == [p EXCEPT !.drag = d] IN
             q \in Pickers /\ q.field = p.field /\ q.controller = p.controller
  BY SMT DEF Pickers
<1> QED  BY <1>1, <1>2, <1>3, Zenon

LEMMA PickerIs ==
  ASSUME NEW f \in Fields, NEW c \in Nat
  PROVE  LET q == [field |-> f, controller |-> c, stage |-> "countdown", drag |-> "none"] IN
         q \in Pickers /\ q.field = f /\ q.controller = c
  BY SMT DEF Pickers
-----------------------------------------------------------------------------
(* The invariant is kept, and no controller strays. *)

Strays ==
  \A c \in 1..Len(controllers') :
    c # controller' /\ controllers'[c].worker =>
      /\ c # controller
      /\ controllers[c].worker \/ c = review

(* In whatever way the controllers change, the one in charge is of the target
   selected, and the others have no new worker. *)
Owned ==
  /\ controllers' \in Seq(Controllers)
  /\ controller' \in 0..Len(controllers') /\ Len(controllers') >= Len(controllers)
  /\ Len(controllers') \in Nat /\ Len(controllers) \in Nat
  /\ ChargeInv' /\ Strays

LEMMA OwnedIf ==
  ASSUME TypesInv, ChargeInv, GrabInv
  PROVE  /\ UNCHANGED <<owners, scope>> => Owned
         /\ DropController => Owned
         /\ \A ok \in BOOLEAN :
              /\ EnsureController /\ Requested(Ensured, ok) /\ scope' = scope => Owned
              /\ controller # 0 /\ Requested(controller, ok) /\ UNCHANGED <<controller, scope>>
                   => Owned
              /\ review # 0 /\ Requested(review, ok) /\ UNCHANGED <<controller, scope>> => Owned
<1>0. Len(controllers) \in Nat /\ controller \in 0..Len(controllers) /\ review \in 0..Len(controllers)
  BY SMT DEF TypesInv
<1>1. ASSUME UNCHANGED <<owners, scope>> PROVE Owned
  <2>1. controllers' = controllers /\ controller' = controller /\ scope' = scope
    BY <1>1, Zenon DEF owners
  <2>2. Strays
    BY <2>1, Zenon DEF Strays
  <2>3. ChargeInv'
    BY <2>1, Zenon DEF ChargeInv
  <2> QED  BY <1>0, <2>1, <2>2, <2>3, SMT DEF Owned, TypesInv
<1>2. ASSUME DropController PROVE Owned
  <2>1. /\ Kept /\ Len(controllers') = Len(controllers) /\ controller' = 0
        /\ \A i \in 1..Len(controllers') :
             controllers'[i].worker => i # controller /\ controllers[i].worker
    BY <1>2, DropKeeps, Zenon DEF TypesInv
  <2>2. Strays
    BY <2>1, Zenon DEF Strays
  <2>3. ChargeInv'
    BY <2>1, Zenon DEF ChargeInv
  <2> QED  BY <1>0, <2>1, <2>2, <2>3, SMT DEF Owned, Kept
<1>3. ASSUME NEW ok \in BOOLEAN, EnsureController, Requested(Ensured, ok), scope' = scope
      PROVE  Owned
  <2>1. /\ Kept /\ OnlyFor(controller')
        /\ controller' \in 1..Len(controllers')
        /\ controller # 0 => controller' = controller
        /\ controller = 0 => controllers'[controller'].scope = scope
    BY <1>3, EnsuredKeeps
  <2>2. Strays
    BY <1>0, <2>1, SMT DEF Strays, OnlyFor
  <2>3. ChargeInv'
    <3>1. CASE controller = 0
      BY <1>3, <2>1, <3>1, Zenon DEF ChargeInv
    <3>2. CASE controller # 0
      <4>1. controller \in 1..Len(controllers)
        BY <1>0, <3>2, SMT
      <4> QED  BY <1>3, <2>1, <3>2, <4>1, Zenon DEF ChargeInv, Kept
    <3> QED  BY <3>1, <3>2
  <2> QED  BY <1>0, <2>1, <2>2, <2>3, SMT DEF Owned, Kept
<1>4. ASSUME NEW ok \in BOOLEAN, NEW c \in 1..Len(controllers), Requested(c, ok),
             UNCHANGED <<controller, scope>>, c = controller \/ c = review
      PROVE  Owned
  <2>1. /\ Kept /\ OnlyFor(c) /\ Len(controllers') = Len(controllers)
    <3>1. c \in 1..(Len(controllers) + 1) /\ ~(c > Len(controllers))
      BY <1>0, SMT
    <3> QED  BY <1>4, <3>1, RequestedKeeps, Zenon DEF TypesInv
  <2>2. Strays
    BY <1>0, <1>4, <2>1, SMT DEF Strays, OnlyFor
  <2>3. ChargeInv'
    <3>1. CASE controller = 0
      BY <1>4, <3>1, Zenon DEF ChargeInv
    <3>2. CASE controller # 0
      <4>1. controller \in 1..Len(controllers)
        BY <1>0, <3>2, SMT
      <4> QED  BY <1>4, <2>1, <3>2, <4>1, Zenon DEF ChargeInv, Kept
    <3> QED  BY <3>1, <3>2
  <2> QED  BY <1>0, <1>4, <2>1, <2>2, <2>3, SMT DEF Owned, Kept
<1>5. /\ controller # 0 => controller \in 1..Len(controllers)
      /\ review # 0 => review \in 1..Len(controllers)
  BY <1>0, SMT
<1> QED  BY <1>1, <1>2, <1>3, <1>4, <1>5, Zenon

LEMMA SelectTargetStep ==
  ASSUME SetupInv, NEW t \in Targets, SelectTarget(t)
  PROVE  SetupInv' /\ Strays
<1> USE DEF SetupInv, TypesInv, GrabInv, RegionsInv, VerdictIsCurrent, DrawnOnTarget, Free,
            MayPreview, regions, owners, dialogs
<1>2. DropController
  BY Zenon DEF SelectTarget, owners
<1>3. Owned
  BY <1>2, OwnedIf, Zenon
<1>5. TypesInv'
  BY <1>3, RectsAre, PickersAre, SetupAssumption, SMT DEF SelectTarget, RegionsAfter, Undrawn, Owned
<1>6. GrabInv'
  BY <1>3, SMT DEF SelectTarget, RegionsAfter, Undrawn, Owned
<1>7. RegionsInv'
  BY SetupAssumption, SMT DEF SelectTarget, RegionsAfter, Undrawn, ChargeInv
<1>8. VerdictIsCurrent'
  BY Zenon DEF SelectTarget, RegionsAfter, Undrawn
<1> QED  BY <1>3, <1>5, <1>6, <1>7, <1>8, Zenon DEF Owned

LEMMA ChangeBackendStep ==
  ASSUME SetupInv, NEW b \in Backends, ChangeBackend(b)
  PROVE  SetupInv' /\ Strays
<1> USE DEF SetupInv, TypesInv, GrabInv, RegionsInv, VerdictIsCurrent, DrawnOnTarget, Free,
            MayPreview, regions, owners, dialogs
<1>2. UNCHANGED <<owners, scope>>
  BY Zenon DEF ChangeBackend, owners
<1>3. Owned
  BY <1>2, OwnedIf, Zenon
<1>5. TypesInv'
  BY <1>3, RectsAre, PickersAre, SetupAssumption, SMT DEF ChangeBackend, VerdictAfterBackend, Owned
<1>6. GrabInv'
  BY <1>3, SMT DEF ChangeBackend, VerdictAfterBackend, Owned
<1>7. RegionsInv'
  BY SetupAssumption, SMT DEF ChangeBackend, VerdictAfterBackend, ChargeInv
<1>8. VerdictIsCurrent'
  BY Zenon DEF ChangeBackend, VerdictAfterBackend
<1> QED  BY <1>3, <1>5, <1>6, <1>7, <1>8, Zenon DEF Owned

LEMMA TestCaptureStep ==
  ASSUME SetupInv, NEW ok \in BOOLEAN, TestCapture(ok)
  PROVE  SetupInv' /\ Strays
<1> USE DEF SetupInv, TypesInv, GrabInv, RegionsInv, VerdictIsCurrent, DrawnOnTarget, Free,
            MayPreview, regions, owners, dialogs
<1>2. EnsureController /\ Requested(Ensured, ok) /\ scope' = scope
  BY Zenon DEF TestCapture, owners
<1>3. Owned
  BY <1>2, OwnedIf, Zenon
<1>4. controller' # 0
  <2>1. controller' \in 1..Len(controllers')
    BY <1>2, EnsuredKeeps, Zenon
  <2> QED  BY <2>1, SMT
<1>5. TypesInv'
  BY <1>3, RectsAre, PickersAre, SetupAssumption, SMT DEF TestCapture, Owned
<1>6. GrabInv'
  BY <1>3, <1>4, SMT DEF TestCapture, Owned
<1>7. RegionsInv'
  BY SetupAssumption, SMT DEF TestCapture, ChargeInv
<1>8. VerdictIsCurrent'
  BY Zenon DEF TestCapture
<1> QED  BY <1>3, <1>5, <1>6, <1>7, <1>8, Zenon DEF Owned

LEMMA AddFieldStep ==
  ASSUME SetupInv, NEW f \in Fields, AddField(f)
  PROVE  SetupInv' /\ Strays
<1> USE DEF SetupInv, TypesInv, GrabInv, RegionsInv, VerdictIsCurrent, DrawnOnTarget, Free,
            MayPreview, regions, owners, dialogs
<1>2. UNCHANGED <<owners, scope>>
  BY Zenon DEF AddField, owners
<1>3. Owned
  BY <1>2, OwnedIf, Zenon
<1>5. TypesInv'
  BY <1>3, RectsAre, PickersAre, SetupAssumption, SMT DEF AddField, Owned
<1>6. GrabInv'
  BY <1>3, SMT DEF AddField, Owned
<1>7. RegionsInv'
  BY SetupAssumption, SMT DEF AddField, ChargeInv
<1>8. VerdictIsCurrent'
  BY Zenon DEF AddField
<1> QED  BY <1>3, <1>5, <1>6, <1>7, <1>8, Zenon DEF Owned

LEMMA RemoveFieldStep ==
  ASSUME SetupInv, NEW f \in Fields, RemoveField(f)
  PROVE  SetupInv' /\ Strays
<1> USE DEF SetupInv, TypesInv, GrabInv, RegionsInv, VerdictIsCurrent, DrawnOnTarget, Free,
            MayPreview, regions, owners, dialogs
<1>2. UNCHANGED <<owners, scope>>
  BY Zenon DEF RemoveField, owners
<1>3. Owned
  BY <1>2, OwnedIf, Zenon
<1>5. TypesInv'
  BY <1>3, RectsAre, PickersAre, SetupAssumption, SMT DEF RemoveField, Owned
<1>6. GrabInv'
  BY <1>3, SMT DEF RemoveField, Owned
<1>7. RegionsInv'
  BY SetupAssumption, SMT DEF RemoveField, ChargeInv
<1>8. VerdictIsCurrent'
  BY Zenon DEF RemoveField
<1> QED  BY <1>3, <1>5, <1>6, <1>7, <1>8, Zenon DEF Owned

LEMMA OpenEditStep ==
  ASSUME SetupInv, NEW f \in Fields, OpenEdit(f)
  PROVE  SetupInv' /\ Strays
<1> USE DEF SetupInv, TypesInv, GrabInv, RegionsInv, VerdictIsCurrent, DrawnOnTarget, Free,
            MayPreview, regions, owners, dialogs
<1>2. UNCHANGED <<owners, scope>>
  BY Zenon DEF OpenEdit, owners
<1>3. Owned
  BY <1>2, OwnedIf, Zenon
<1>5. TypesInv'
  BY <1>3, RectsAre, PickersAre, SetupAssumption, SMT DEF OpenEdit, Owned
<1>6. GrabInv'
  BY <1>3, SMT DEF OpenEdit, Owned
<1>7. RegionsInv'
  BY SetupAssumption, SMT DEF OpenEdit, ChargeInv
<1>8. VerdictIsCurrent'
  BY Zenon DEF OpenEdit
<1> QED  BY <1>3, <1>5, <1>6, <1>7, <1>8, Zenon DEF Owned

LEMMA ApplyEditStep ==
  ASSUME SetupInv, NEW r \in Rects, NEW closes \in BOOLEAN, ApplyEdit(r, closes)
  PROVE  SetupInv' /\ Strays
<1> USE DEF SetupInv, TypesInv, GrabInv, RegionsInv, VerdictIsCurrent, DrawnOnTarget, Free,
            MayPreview, regions, owners, dialogs
<1>2. UNCHANGED <<owners, scope>>
  BY Zenon DEF ApplyEdit, owners
<1>3. Owned
  BY <1>2, OwnedIf, Zenon
<1>5. TypesInv'
  BY <1>3, RectsAre, PickersAre, SetupAssumption, SMT DEF ApplyEdit, Owned
<1>6. GrabInv'
  BY <1>3, SMT DEF ApplyEdit, Owned
<1>7. RegionsInv'
  BY SetupAssumption, SMT DEF ApplyEdit, ChargeInv
<1>8. VerdictIsCurrent'
  BY Zenon DEF ApplyEdit
<1> QED  BY <1>3, <1>5, <1>6, <1>7, <1>8, Zenon DEF Owned

LEMMA CloseEditStep ==
  ASSUME SetupInv, CloseEdit
  PROVE  SetupInv' /\ Strays
<1> USE DEF SetupInv, TypesInv, GrabInv, RegionsInv, VerdictIsCurrent, DrawnOnTarget, Free,
            MayPreview, regions, owners, dialogs
<1>2. UNCHANGED <<owners, scope>>
  BY Zenon DEF CloseEdit, owners
<1>3. Owned
  BY <1>2, OwnedIf, Zenon
<1>5. TypesInv'
  BY <1>3, RectsAre, PickersAre, SetupAssumption, SMT DEF CloseEdit, Owned
<1>6. GrabInv'
  BY <1>3, SMT DEF CloseEdit, Owned
<1>7. RegionsInv'
  BY SetupAssumption, SMT DEF CloseEdit, ChargeInv
<1>8. VerdictIsCurrent'
  BY Zenon DEF CloseEdit
<1> QED  BY <1>3, <1>5, <1>6, <1>7, <1>8, Zenon DEF Owned

LEMMA ConfirmRegionStep ==
  ASSUME SetupInv, ConfirmRegion
  PROVE  SetupInv' /\ Strays
<1> USE DEF SetupInv, TypesInv, GrabInv, RegionsInv, VerdictIsCurrent, DrawnOnTarget, Free,
            MayPreview, regions, owners, dialogs
<1>2. UNCHANGED <<owners, scope>>
  BY Zenon DEF ConfirmRegion, owners
<1>3. Owned
  BY <1>2, OwnedIf, Zenon
<1>5. TypesInv'
  <2>1. controllers[controller].scope \in Targets \cup {None}
    BY SMT DEF ChargeInv, ConfirmRegion
  <2>2. Drawn(controllers[controller].scope) \in Rects
    BY <2>1, RectsAre
  <2>3. picker.controller = controller
    BY Zenon DEF ConfirmRegion
  <2> QED  BY <1>3, <2>2, <2>3, SMT DEF ConfirmRegion, Owned
<1>6. GrabInv'
  BY <1>3, SMT DEF ConfirmRegion, Owned
<1>7. RegionsInv'
  BY SetupAssumption, SMT DEF ConfirmRegion, ChargeInv
<1>8. VerdictIsCurrent'
  BY Zenon DEF ConfirmRegion
<1> QED  BY <1>3, <1>5, <1>6, <1>7, <1>8, Zenon DEF Owned

LEMMA CancelPickerStep ==
  ASSUME SetupInv, CancelPicker
  PROVE  SetupInv' /\ Strays
<1> USE DEF SetupInv, TypesInv, GrabInv, RegionsInv, VerdictIsCurrent, DrawnOnTarget, Free,
            MayPreview, regions, owners, dialogs
<1>2. UNCHANGED <<owners, scope>>
  BY Zenon DEF CancelPicker, owners
<1>3. Owned
  BY <1>2, OwnedIf, Zenon
<1>5. TypesInv'
  BY <1>3, RectsAre, PickersAre, SetupAssumption, SMT DEF CancelPicker, Owned
<1>6. GrabInv'
  BY <1>3, SMT DEF CancelPicker, Owned
<1>7. RegionsInv'
  BY SetupAssumption, SMT DEF CancelPicker, ChargeInv
<1>8. VerdictIsCurrent'
  BY Zenon DEF CancelPicker
<1> QED  BY <1>3, <1>5, <1>6, <1>7, <1>8, Zenon DEF Owned

LEMMA OpenReviewStep ==
  ASSUME SetupInv, NEW ok \in BOOLEAN, OpenReview(ok)
  PROVE  SetupInv' /\ Strays
<1> USE DEF SetupInv, TypesInv, GrabInv, RegionsInv, VerdictIsCurrent, DrawnOnTarget, Free,
            MayPreview, regions, owners, dialogs
<1>2. EnsureController /\ Requested(Ensured, ok) /\ scope' = scope
  BY Zenon DEF OpenReview, owners
<1>3. Owned
  BY <1>2, OwnedIf, Zenon
<1>4. controller' # 0
  <2>1. controller' \in 1..Len(controllers')
    BY <1>2, EnsuredKeeps, Zenon
  <2> QED  BY <2>1, SMT
<1>5. TypesInv'
  BY <1>3, RectsAre, PickersAre, SetupAssumption, SMT DEF OpenReview, Owned, EnsureController
<1>6. GrabInv'
  BY <1>3, <1>4, SMT DEF OpenReview, Owned
<1>7. RegionsInv'
  BY SetupAssumption, SMT DEF OpenReview, ChargeInv
<1>8. VerdictIsCurrent'
  BY Zenon DEF OpenReview
<1> QED  BY <1>3, <1>5, <1>6, <1>7, <1>8, Zenon DEF Owned

LEMMA RetestAllStep ==
  ASSUME SetupInv, NEW ok \in BOOLEAN, RetestAll(ok)
  PROVE  SetupInv' /\ Strays
<1> USE DEF SetupInv, TypesInv, GrabInv, RegionsInv, VerdictIsCurrent, DrawnOnTarget, Free,
            MayPreview, regions, owners, dialogs
<1>2. review # 0 /\ Requested(review, ok) /\ UNCHANGED <<controller, scope>>
  BY Zenon DEF RetestAll, owners
<1>3. Owned
  BY <1>2, OwnedIf, Zenon
<1>5. TypesInv'
  BY <1>3, RectsAre, PickersAre, SetupAssumption, SMT DEF RetestAll, Owned
<1>6. GrabInv'
  BY <1>3, SMT DEF RetestAll, Owned
<1>7. RegionsInv'
  BY SetupAssumption, SMT DEF RetestAll, ChargeInv
<1>8. VerdictIsCurrent'
  BY Zenon DEF RetestAll
<1> QED  BY <1>3, <1>5, <1>6, <1>7, <1>8, Zenon DEF Owned

LEMMA CloseReviewStep ==
  ASSUME SetupInv, CloseReview
  PROVE  SetupInv' /\ Strays
<1> USE DEF SetupInv, TypesInv, GrabInv, RegionsInv, VerdictIsCurrent, DrawnOnTarget, Free,
            MayPreview, regions, owners, dialogs
<1>2. UNCHANGED <<owners, scope>>
  BY Zenon DEF CloseReview, owners
<1>3. Owned
  BY <1>2, OwnedIf, Zenon
<1>5. TypesInv'
  BY <1>3, RectsAre, PickersAre, SetupAssumption, SMT DEF CloseReview, Owned
<1>6. GrabInv'
  BY <1>3, SMT DEF CloseReview, Owned
<1>7. RegionsInv'
  BY SetupAssumption, SMT DEF CloseReview, ChargeInv
<1>8. VerdictIsCurrent'
  BY Zenon DEF CloseReview
<1> QED  BY <1>3, <1>5, <1>6, <1>7, <1>8, Zenon DEF Owned

LEMMA PreviewStep ==
  ASSUME SetupInv, NEW ok \in BOOLEAN, Preview(ok)
  PROVE  SetupInv' /\ Strays
<1> USE DEF SetupInv, TypesInv, GrabInv, RegionsInv, VerdictIsCurrent, DrawnOnTarget, Free,
            MayPreview, regions, owners, dialogs
<1>2. EnsureController /\ Requested(Ensured, ok) /\ scope' = scope
  BY Zenon DEF Preview, owners
<1>3. Owned
  BY <1>2, OwnedIf, Zenon
<1>4. controller' # 0
  <2>1. controller' \in 1..Len(controllers')
    BY <1>2, EnsuredKeeps, Zenon
  <2> QED  BY <2>1, SMT
<1>5. TypesInv'
  BY <1>3, RectsAre, PickersAre, SetupAssumption, SMT DEF Preview, Owned
<1>6. GrabInv'
  BY <1>3, <1>4, SMT DEF Preview, Owned
<1>7. RegionsInv'
  BY SetupAssumption, SMT DEF Preview, ChargeInv
<1>8. VerdictIsCurrent'
  BY Zenon DEF Preview
<1> QED  BY <1>3, <1>5, <1>6, <1>7, <1>8, Zenon DEF Owned

LEMMA ConfirmGateStep ==
  ASSUME SetupInv, NEW ok \in BOOLEAN, ConfirmGate(ok)
  PROVE  SetupInv' /\ Strays
<1> USE DEF SetupInv, TypesInv, GrabInv, RegionsInv, VerdictIsCurrent, DrawnOnTarget, Free,
            MayPreview, regions, owners, dialogs
<1>1. controller # 0
  BY Zenon DEF ConfirmGate
<1>2. controller # 0 /\ Requested(controller, ok) /\ UNCHANGED <<controller, scope>>
  BY <1>1, Zenon DEF ConfirmGate
<1>3. Owned
  BY <1>2, OwnedIf, Zenon
<1>5. TypesInv'
  BY <1>3, RectsAre, PickersAre, SetupAssumption, SMT DEF ConfirmGate, Owned
<1>6. GrabInv'
  BY <1>3, SMT DEF ConfirmGate, Owned
<1>7. RegionsInv'
  BY SetupAssumption, SMT DEF ConfirmGate, ChargeInv
<1>8. VerdictIsCurrent'
  BY Zenon DEF ConfirmGate
<1> QED  BY <1>3, <1>5, <1>6, <1>7, <1>8, Zenon DEF Owned

LEMMA BackToSetupStep ==
  ASSUME SetupInv, BackToSetup
  PROVE  SetupInv' /\ Strays
<1> USE DEF SetupInv, TypesInv, GrabInv, RegionsInv, VerdictIsCurrent, DrawnOnTarget, Free,
            MayPreview, regions, owners, dialogs
<1>2. UNCHANGED <<owners, scope>>
  BY Zenon DEF BackToSetup, owners
<1>3. Owned
  BY <1>2, OwnedIf, Zenon
<1>5. TypesInv'
  BY <1>3, RectsAre, PickersAre, SetupAssumption, SMT DEF BackToSetup, Owned
<1>6. GrabInv'
  BY <1>3, SMT DEF BackToSetup, Owned
<1>7. RegionsInv'
  BY SetupAssumption, SMT DEF BackToSetup, ChargeInv
<1>8. VerdictIsCurrent'
  BY Zenon DEF BackToSetup
<1> QED  BY <1>3, <1>5, <1>6, <1>7, <1>8, Zenon DEF Owned

LEMMA ResetStep ==
  ASSUME SetupInv, Reset
  PROVE  SetupInv' /\ Strays
<1> USE DEF SetupInv, TypesInv, GrabInv, RegionsInv, VerdictIsCurrent, DrawnOnTarget, Free,
            MayPreview, regions, owners, dialogs
<1>2. DropController
  BY Zenon DEF Reset, owners
<1>3. Owned
  BY <1>2, OwnedIf, Zenon
<1>5. TypesInv'
  BY <1>3, RectsAre, PickersAre, SetupAssumption, SMT DEF Reset, Undrawn, Owned
<1>6. GrabInv'
  BY <1>3, SMT DEF Reset, Undrawn, Owned
<1>7. RegionsInv'
  BY SetupAssumption, SMT DEF Reset, Undrawn, ChargeInv
<1>8. VerdictIsCurrent'
  BY Zenon DEF Reset, Undrawn
<1> QED  BY <1>3, <1>5, <1>6, <1>7, <1>8, Zenon DEF Owned

LEMMA StartDemoStep ==
  ASSUME SetupInv, StartDemo
  PROVE  SetupInv' /\ Strays
<1> USE DEF SetupInv, TypesInv, GrabInv, RegionsInv, VerdictIsCurrent, DrawnOnTarget, Free,
            MayPreview, regions, owners, dialogs
<1>2. DropController
  BY Zenon DEF StartDemo, owners
<1>3. Owned
  BY <1>2, OwnedIf, Zenon
<1>5. TypesInv'
  BY <1>3, RectsAre, PickersAre, SetupAssumption, SMT DEF StartDemo, Owned
<1>6. GrabInv'
  BY <1>3, SMT DEF StartDemo, Owned
<1>7. RegionsInv'
  BY SetupAssumption, SMT DEF StartDemo, ChargeInv
<1>8. VerdictIsCurrent'
  BY Zenon DEF StartDemo
<1> QED  BY <1>3, <1>5, <1>6, <1>7, <1>8, Zenon DEF Owned

LEMMA AddDemoFieldStep ==
  ASSUME SetupInv, NEW f \in Fields, AddDemoField(f)
  PROVE  SetupInv' /\ Strays
<1> USE DEF SetupInv, TypesInv, GrabInv, RegionsInv, VerdictIsCurrent, DrawnOnTarget, Free,
            MayPreview, regions, owners, dialogs
<1>2. UNCHANGED <<owners, scope>>
  BY Zenon DEF AddDemoField, owners
<1>3. Owned
  BY <1>2, OwnedIf, Zenon
<1>5. TypesInv'
  BY <1>3, RectsAre, PickersAre, SetupAssumption, SMT DEF AddDemoField, Owned
<1>6. GrabInv'
  BY <1>3, SMT DEF AddDemoField, Owned
<1>7. RegionsInv'
  BY SetupAssumption, SMT DEF AddDemoField, ChargeInv
<1>8. VerdictIsCurrent'
  BY Zenon DEF AddDemoField
<1> QED  BY <1>3, <1>5, <1>6, <1>7, <1>8, Zenon DEF Owned

LEMMA FinishDemoStep ==
  ASSUME SetupInv, FinishDemo
  PROVE  SetupInv' /\ Strays
<1> USE DEF SetupInv, TypesInv, GrabInv, RegionsInv, VerdictIsCurrent, DrawnOnTarget, Free,
            MayPreview, regions, owners, dialogs
<1>2. UNCHANGED <<owners, scope>>
  BY Zenon DEF FinishDemo, owners
<1>3. Owned
  BY <1>2, OwnedIf, Zenon
<1>5. TypesInv'
  BY <1>3, RectsAre, PickersAre, SetupAssumption, SMT DEF FinishDemo, Owned
<1>6. GrabInv'
  BY <1>3, SMT DEF FinishDemo, Owned
<1>7. RegionsInv'
  BY SetupAssumption, SMT DEF FinishDemo, ChargeInv
<1>8. VerdictIsCurrent'
  BY Zenon DEF FinishDemo
<1> QED  BY <1>3, <1>5, <1>6, <1>7, <1>8, Zenon DEF Owned

(* The controller made for a picker has no worker yet. *)
LEMMA DrawRegionStep ==
  ASSUME SetupInv, NEW f \in Fields, DrawRegion(f)
  PROVE  SetupInv' /\ Strays
<1>0. /\ controllers \in Seq(Controllers) /\ Len(controllers) \in Nat
      /\ controller \in 0..Len(controllers) /\ scope \in Targets \cup {None}
  BY SMT DEF SetupInv, TypesInv
<1>1. Owned /\ controller' # 0
  <2> DEFINE r == [scope |-> scope, worker |-> FALSE]
  <2>1. /\ EnsureController
        /\ controllers' = IF Ensured > Len(controllers) THEN Append(controllers, r) ELSE controllers
        /\ scope' = scope
    BY Zenon DEF DrawRegion
  <2>2. r \in Controllers /\ r.scope = scope /\ r.worker = FALSE
    BY <1>0, ControllerIs, Zenon
  <2> HIDE DEF r
  <2>3. CASE controller = 0
    <3>1. controllers' = Append(controllers, r) /\ controller' = Len(controllers) + 1
      BY <1>0, <2>1, <2>3, SMT DEF EnsureController, Ensured
    <3>2. /\ controllers' \in Seq(Controllers) /\ Len(controllers') = Len(controllers) + 1
          /\ \A i \in 1..Len(controllers) : controllers'[i] = controllers[i]
          /\ controllers'[controller'] = r
      BY <1>0, <2>2, <3>1, SMT
    <3>3. ChargeInv'
      BY <2>1, <2>2, <3>2, Zenon DEF ChargeInv
    <3>4. Strays
      BY <1>0, <2>3, <3>1, <3>2, SMT DEF Strays
    <3> QED  BY <1>0, <3>1, <3>2, <3>3, <3>4, SMT DEF Owned
  <2>4. CASE controller # 0
    <3>1. controllers' = controllers /\ controller' = controller
      BY <1>0, <2>1, <2>4, SMT DEF EnsureController, Ensured
    <3>2. UNCHANGED <<owners, scope>>
      BY <2>1, <3>1, Zenon DEF owners
    <3> QED  BY <2>4, <3>1, <3>2, OwnedIf, Zenon DEF SetupInv
  <2> QED  BY <2>3, <2>4
<1>2. /\ picker' \in Pickers /\ picker'.field = f /\ picker'.controller = controller'
  <2>1. Ensured \in Nat
    BY <1>0, SMT DEF Ensured
  <2> HIDE DEF Ensured
  <2>2. /\ picker' = [field |-> f, controller |-> Ensured, stage |-> "countdown", drag |-> "none"]
        /\ controller' = Ensured
    BY Zenon DEF DrawRegion, EnsureController
  <2> QED  BY <2>1, <2>2, PickerIs, Zenon
<1> USE DEF SetupInv, TypesInv, GrabInv, RegionsInv, VerdictIsCurrent, DrawnOnTarget, Free,
            MayPreview, regions, owners, dialogs
<1>5. TypesInv'
  BY <1>1, <1>2, SMT DEF DrawRegion, Owned
<1>6. GrabInv'
  BY <1>1, <1>2, SMT DEF DrawRegion, Owned
<1>7. RegionsInv'
  BY SMT DEF DrawRegion
<1>8. VerdictIsCurrent'
  BY Zenon DEF DrawRegion
<1> QED  BY <1>1, <1>5, <1>6, <1>7, <1>8, Zenon DEF Owned

LEMMA TakeSnapshotStep ==
  ASSUME SetupInv, NEW ok \in BOOLEAN, TakeSnapshot(ok)
  PROVE  SetupInv' /\ Strays
<1> USE DEF SetupInv, TypesInv, GrabInv, RegionsInv, VerdictIsCurrent, DrawnOnTarget, Free,
            MayPreview, regions, owners, dialogs
<1>2. controller # 0 /\ Requested(controller, ok) /\ UNCHANGED <<controller, scope>>
  BY Zenon DEF TakeSnapshot
<1>3. Owned
  BY <1>2, OwnedIf, Zenon
<1>4. \/ picker' = None
      \/ /\ picker' \in Pickers /\ picker'.field = picker.field
         /\ picker'.controller = picker.controller
  BY PickersAre, Zenon DEF TakeSnapshot
<1>5. TypesInv'
  BY <1>3, <1>4, SMT DEF TakeSnapshot, Owned
<1>6. GrabInv'
  BY <1>3, <1>4, SMT DEF TakeSnapshot, Owned
<1>7. RegionsInv'
  BY SMT DEF TakeSnapshot
<1>8. VerdictIsCurrent'
  BY Zenon DEF TakeSnapshot
<1> QED  BY <1>3, <1>5, <1>6, <1>7, <1>8, Zenon DEF Owned

LEMMA DragStep ==
  ASSUME SetupInv, NEW selection \in {"none", "unfit", "fit"}, NEW ok \in BOOLEAN,
         Drag(selection, ok)
  PROVE  SetupInv' /\ Strays
<1> USE DEF SetupInv, TypesInv, GrabInv, RegionsInv, VerdictIsCurrent, DrawnOnTarget, Free,
            MayPreview, regions, owners, dialogs
<1>1. controller # 0 /\ UNCHANGED <<controller, scope>>
  BY Zenon DEF Drag
<1>2. UNCHANGED controllers \/ \E alive \in BOOLEAN : Requested(controller, alive)
  <2>1. CASE selection = "none"
    BY <2>1, SMT DEF Drag
  <2>2. CASE selection = "unfit"
    <3>1. Requested(controller, ok)
      BY <2>2, SMT DEF Drag
    <3> QED  BY <3>1, Zenon
  <2>3. CASE selection = "fit"
    <3>1. Requested(controller, TRUE)
      BY <2>3, Zenon DEF Drag
    <3> QED  BY <3>1, Zenon
  <2> QED  BY <2>1, <2>2, <2>3, Zenon
<1>3. Owned
  BY <1>1, <1>2, OwnedIf, Zenon DEF owners
<1>4. /\ picker' \in Pickers /\ picker'.field = picker.field
      /\ picker'.controller = picker.controller
  BY PickersAre, Zenon DEF Drag
<1>5. TypesInv'
  BY <1>3, <1>4, SMT DEF Drag, Owned
<1>6. GrabInv'
  BY <1>3, <1>4, SMT DEF Drag, Owned
<1>7. RegionsInv'
  BY SMT DEF Drag
<1>8. VerdictIsCurrent'
  BY Zenon DEF Drag
<1> QED  BY <1>3, <1>5, <1>6, <1>7, <1>8, Zenon DEF Owned
-----------------------------------------------------------------------------
(* The theorems. *)

LEMMA SetupInit == Init => SetupInv
<1> SUFFICES ASSUME Init PROVE SetupInv
  OBVIOUS
<1>1. TypesInv
  BY RectsAre, SMT DEF Init, TypesInv, Undrawn
<1>2. GrabInv /\ ChargeInv /\ VerdictIsCurrent
  BY Zenon DEF Init, GrabInv, ChargeInv, VerdictIsCurrent
<1>3. RegionsInv
  BY SMT DEF Init, RegionsInv, DrawnOnTarget, Undrawn
<1> QED  BY <1>1, <1>2, <1>3 DEF SetupInv

LEMMA SetupStep ==
  ASSUME SetupInv, Next
  PROVE  SetupInv' /\ Strays
<1>1. CASE \/ \E t \in Targets : SelectTarget(t)
           \/ \E b \in Backends : ChangeBackend(b)
  BY <1>1, SelectTargetStep, ChangeBackendStep
<1>2. CASE \E ok \in BOOLEAN : TestCapture(ok) \/ TakeSnapshot(ok) \/ OpenReview(ok)
                               \/ Preview(ok) \/ ConfirmGate(ok)
  BY <1>2, TestCaptureStep, TakeSnapshotStep, OpenReviewStep, PreviewStep, ConfirmGateStep
<1>3. CASE \E f \in Fields : AddField(f) \/ RemoveField(f) \/ OpenEdit(f) \/ DrawRegion(f)
                             \/ AddDemoField(f)
  BY <1>3, AddFieldStep, RemoveFieldStep, OpenEditStep, DrawRegionStep, AddDemoFieldStep
<1>4. CASE \/ \E r \in Rects, closes \in BOOLEAN : ApplyEdit(r, closes)
           \/ \E selection \in {"none", "unfit", "fit"}, ok \in BOOLEAN : Drag(selection, ok)
           \/ \E alive \in BOOLEAN : RetestAll(alive)
  BY <1>4, ApplyEditStep, DragStep, RetestAllStep
<1>5. CASE \/ CloseEdit \/ ConfirmRegion \/ CancelPicker \/ CloseReview \/ BackToSetup
           \/ Reset \/ StartDemo \/ FinishDemo
  BY <1>5, CloseEditStep, ConfirmRegionStep, CancelPickerStep, CloseReviewStep,
     BackToSetupStep, ResetStep, StartDemoStep, FinishDemoStep
<1> QED  BY <1>1, <1>2, <1>3, <1>4, <1>5, Zenon DEF Next

LEMMA SetupStutter ==
  ASSUME SetupInv, UNCHANGED vars
  PROVE  SetupInv'
<1> USE DEF vars, regions, owners, dialogs
<1>1. TypesInv'
  BY Zenon DEF SetupInv, TypesInv
<1>2. GrabInv' /\ ChargeInv' /\ VerdictIsCurrent'
  BY Zenon DEF SetupInv, GrabInv, ChargeInv, VerdictIsCurrent, MayPreview
<1>3. RegionsInv'
  BY Zenon DEF SetupInv, RegionsInv, DrawnOnTarget
<1> QED  BY <1>1, <1>2, <1>3 DEF SetupInv

THEOREM SetupInvariance == Spec => []SetupInv
<1>1. SetupInv /\ [Next]_vars => SetupInv'
  BY SetupStep, SetupStutter
<1> QED  BY <1>1, SetupInit, PTL DEF Spec

(* The types, and what the gate rests on. *)
THEOREM SetupTypeCorrect == Spec => []TypeOK
<1>1. SetupInv => TypeOK
  BY SMT DEF SetupInv, TypesInv, GrabInv, TypeOK
<1> QED  BY <1>1, SetupInvariance, PTL

(* The verdict shown is of the target and the backend now chosen: every action
   that changes one of them clears it (app.py _select_window, _select_monitor,
   the backend dropdown), but for the guided demo's own target. *)
THEOREM VerdictStaysCurrent == Spec => []VerdictIsCurrent
<1>1. SetupInv => VerdictIsCurrent
  BY DEF SetupInv
<1> QED  BY <1>1, SetupInvariance, PTL

(* However long the countdown and the drags take, the field of the picker is
   there, and its controller is the one in charge, of the target selected: the
   picker holds the input (app.py _draw_region_after_countdown). *)
THEOREM PickerStaysCurrent == Spec => []PickerIsCurrent
<1>1. SetupInv => PickerIsCurrent
  BY Zenon DEF SetupInv, GrabInv, ChargeInv, PickerIsCurrent
<1> QED  BY <1>1, SetupInvariance, PTL

(* A region confirmed in the picker was drawn over the target now selected. *)
THEOREM RegionsAreOfTheTarget == Spec => []DrawnOnTarget
<1>1. SetupInv => DrawnOnTarget
  BY DEF SetupInv, RegionsInv
<1> QED  BY <1>1, SetupInvariance, PTL

(* A controller that is no longer in charge keeps no worker, and gets one
   again only from a Review dialog left open over a change of target. *)
THEOREM NoOtherStrays == Spec => OnlyReviewStrays
<1>1. SetupInv /\ [Next]_vars =>
        [\A c \in 1..Len(controllers') :
           c # controller' /\ controllers'[c].worker =>
             /\ c # controller
             /\ controllers[c].worker \/ c = review]_vars
  BY SetupStep, Zenon DEF Strays
<1> QED  BY <1>1, SetupInvariance, PTL DEF Spec, OnlyReviewStrays
=============================================================================
