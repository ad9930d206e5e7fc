----------------------------- MODULE SetupScreen -----------------------------
(***************************************************************************)
(* The setup screen (src/screen2xyz_m2/ui/app.py): the target, the fields  *)
(* with their regions, the capture test, and the dialogs opened over them. *)
(* The region picker and the preview gate grab the input; the Edit and     *)
(* Review dialogs and the guided demo do not, and keep the field and the   *)
(* controller they were opened on while the screen behind them changes.    *)
(***************************************************************************)
EXTENDS Integers, Sequences, TLC

CONSTANTS
  Fields,          \* the source ids new_source_id hands out, never again once used
  Targets,         \* windows and monitors
  Demo,            \* the window of the guided demo
  Backends, AutoBackend,  \* what the dropdown offers, and what it starts at
  None,            \* no target, verdict or dialog
  MaxControllers   \* bound: controllers created

ASSUME SetupAssumption ==
  /\ Demo \in Targets /\ AutoBackend \in Backends /\ None \notin Targets \cup Fields
  /\ MaxControllers \in Nat \ {0}

VARIABLES
  screen,       \* "setup", or "ready" once the gate was confirmed
  scope,        \* self.scope
  backend_var,
  verdict,      \* test_verdict_var: the target and backend it is of
  used,         \* ids handed out
  sources,      \* ids of self.sources
  rect,         \* the rectangle of each of them: what put it there, over which target
  confirmed,    \* _confirmed_regions, with what confirmed each region
  controllers,  \* every controller created: its scope, and whether its worker lives
  controller,   \* self.controller, 0 for None
  picker,       \* the countdown or region picker
  edit,         \* the Edit dialog
  review,       \* the controller the Review dialog was opened on
  gate,         \* the preview gate is up
  wizard        \* the guided demo

regions == <<used, sources, rect, confirmed>>
owners  == <<controllers, controller>>
dialogs == <<picker, edit, review, gate, wizard>>
vars == <<screen, scope, backend_var, verdict, regions, owners, dialogs>>

Rects       == [by : {"placeholder", "drawn", "typed"}, over : Targets \cup {None}]
Placeholder == [by |-> "placeholder", over |-> None]
Drawn(t)    == [by |-> "drawn", over |-> t]
Typed       == [by |-> "typed", over |-> None]

Undrawn   == [f \in Fields |-> "no"]

(* As if the countdown did not grab the input. *)
FreeInCountdown ==
  screen = "setup" /\ ~gate /\ IF picker = None THEN TRUE ELSE picker.stage = "countdown"

(* The main window takes clicks, and so do the dialogs without a grab. *)
Free == screen = "setup" /\ picker = None /\ ~gate

------------------------------------------------------------------------------
(* Controllers. *)

(* The controller of _ensure_controller, made if there is none. *)
Ensured == IF controller = 0 THEN Len(controllers) + 1 ELSE controller
EnsureController ==
  /\ scope # None
  /\ controller # 0 \/ Len(controllers) < MaxControllers
  /\ controller' = Ensured

(* A request on controller c leaves its worker running, or, failed, none. *)
Requested(c, ok) ==
  controllers' = [i \in 1..(IF c > Len(controllers) THEN c ELSE Len(controllers)) |->
                    IF i = c
                    THEN [scope |-> IF c > Len(controllers) THEN scope ELSE controllers[c].scope,
                          worker |-> ok]
                    ELSE controllers[i]]

(* As if only the reference were dropped. *)
Forgotten == controllers

TornDown == [i \in 1..Len(controllers) |->
               IF i = controller THEN [controllers[i] EXCEPT !.worker = FALSE] ELSE controllers[i]]
DropController == controllers' = TornDown /\ controller' = 0

------------------------------------------------------------------------------
(* The main window. *)

(* As if the regions were kept, as by the guided demo. *)
RegionsKept(f) == confirmed[f]

(* Every region was of the last target. *)
RegionsAfter(f) == Undrawn[f]

(* _select_window and _select_monitor *)
SelectTarget(t) ==
  /\ Free
  /\ scope' = t
  /\ DropController
  /\ verdict' = None
  /\ confirmed' = [f \in Fields |-> RegionsAfter(f)]
  /\ UNCHANGED <<screen, backend_var, used, sources, rect, dialogs>>

(* As if a new backend kept the verdict of the last. *)
VerdictKept == verdict

VerdictAfterBackend == None

ChangeBackend(b) ==
  /\ Free
  /\ backend_var' = b
  /\ verdict' = VerdictAfterBackend
  /\ UNCHANGED <<screen, scope, regions, owners, dialogs>>

TestCapture(ok) ==
  /\ Free /\ EnsureController
  /\ Requested(Ensured, ok)
  /\ verdict' = [scope |-> scope, backend |-> backend_var]
  /\ UNCHANGED <<screen, scope, backend_var, regions, dialogs>>

AddField(f) ==
  /\ Free /\ f \notin used
  /\ used' = used \cup {f} /\ sources' = sources \cup {f}
  /\ rect' = [rect EXCEPT ![f] = Placeholder]
  /\ UNCHANGED <<screen, scope, backend_var, verdict, confirmed, owners, dialogs>>

(* Remove, in the main window or, which closes, in the Review dialog.  An Edit
   dialog of the field stays, and what it holds no longer matters. *)
RemoveField(f) ==
  /\ Free /\ f \in sources
  /\ sources' = sources \ {f}
  /\ confirmed' = [confirmed EXCEPT ![f] = "no"]
  /\ rect' = [rect EXCEPT ![f] = Placeholder]
  /\ review' \in {review, 0}
  /\ edit' = IF edit # None /\ edit.field = f THEN [edit EXCEPT !.rect = Placeholder] ELSE edit
  /\ UNCHANGED <<screen, scope, backend_var, verdict, used, owners,
                 picker, gate, wizard>>

------------------------------------------------------------------------------
(* The Edit dialog; one of those open is followed. *)

OpenEdit(f) ==
  /\ Free /\ f \in sources
  /\ edit' = [field |-> f, rect |-> rect[f]]
  /\ review' \in {review, 0}
  /\ UNCHANGED <<screen, scope, backend_var, verdict, regions, owners,
                 picker, gate, wizard>>

(* apply: the rectangle as it was when the dialog opened, a new one, or that
   of another field; a bad line part is found only after it took effect, and
   leaves the dialog open.  A field that was removed meanwhile is edited to no
   effect. *)
ApplyEdit(r, closes) ==
  /\ Free /\ edit # None
  /\ r \in {edit.rect, Typed} \cup {rect[g] : g \in sources \ {edit.field}}
  /\ IF edit.field \in sources
     THEN /\ rect' = [rect EXCEPT ![edit.field] = r]
          /\ confirmed' = [confirmed EXCEPT ![edit.field] = "dialog"]
     ELSE UNCHANGED <<rect, confirmed>>
  /\ edit' = IF closes THEN None
             ELSE IF edit.field \in sources THEN [edit EXCEPT !.rect = r] ELSE edit
  /\ UNCHANGED <<screen, scope, backend_var, verdict, used, sources, owners,
                 picker, review, gate, wizard>>

CloseEdit ==
  /\ Free /\ edit # None
  /\ edit' = None
  /\ UNCHANGED <<screen, scope, backend_var, verdict, regions, owners,
                 picker, review, gate, wizard>>

------------------------------------------------------------------------------
(* The region picker: a countdown of three seconds, a snapshot, drags. *)

DrawRegion(f) ==
  /\ Free /\ f \in sources /\ EnsureController
  /\ controllers' = IF Ensured > Len(controllers)
                    THEN Append(controllers, [scope |-> scope, worker |-> FALSE])
                    ELSE controllers
  /\ picker' = [field |-> f, controller |-> Ensured, stage |-> "countdown", drag |-> "none"]
  /\ review' \in {review, 0}
  /\ UNCHANGED <<screen, scope, backend_var, verdict, regions, edit, gate, wizard>>

TakeSnapshot(ok) ==
  /\ picker # None /\ picker.stage = "countdown"
  /\ Requested(picker.controller, ok)
  /\ picker' = IF ok THEN [picker EXCEPT !.stage = "open"] ELSE None
  /\ UNCHANGED <<screen, scope, backend_var, verdict, regions, controller,
                 edit, review, gate, wizard>>

(* A drag, and the one-shot preview of what it selected; a mere click selects
   nothing.  A fit crop is neither blank nor uniform; a flat one becomes fit
   by the override and a second yes (region_confirm_allowed). *)
Drag(selection, ok) ==
  /\ picker # None /\ picker.stage = "open"
  /\ picker' = [picker EXCEPT !.drag = selection]
  /\ CASE selection = "none"  -> ok /\ UNCHANGED controllers
       [] selection = "unfit" -> Requested(controller, ok)
       [] selection = "fit"   -> ok /\ Requested(controller, TRUE)
  /\ UNCHANGED <<screen, scope, backend_var, verdict, regions, controller,
                 edit, review, gate, wizard>>

Confirmable == picker.drag = "fit"

ConfirmRegion ==
  /\ picker # None /\ picker.stage = "open" /\ Confirmable
  /\ rect' = [rect EXCEPT ![picker.field] = Drawn(controllers[picker.controller].scope)]
  /\ confirmed' = [confirmed EXCEPT ![picker.field] = "picker"]
  /\ picker' = None
  /\ UNCHANGED <<screen, scope, backend_var, verdict, used, sources, owners,
                 edit, review, gate, wizard>>

CancelPicker ==
  /\ picker # None
  /\ picker' = None
  /\ UNCHANGED <<screen, scope, backend_var, verdict, regions, owners,
                 edit, review, gate, wizard>>

------------------------------------------------------------------------------
(* The Review dialog; one of those open is followed. *)

OpenReview(ok) ==
  /\ Free /\ EnsureController
  /\ Requested(Ensured, ok)
  /\ review' = IF ok THEN Ensured ELSE review
  /\ UNCHANGED <<screen, scope, backend_var, verdict, regions,
                 picker, edit, gate, wizard>>

(* retest_all: one request per field, each of which may fail; whether a worker
   is left is up to the last. *)
RetestAll(alive) ==
  /\ Free /\ review # 0 /\ sources # {}
  /\ Requested(review, alive)
  /\ UNCHANGED <<screen, scope, backend_var, verdict, regions, controller, dialogs>>

CloseReview ==
  /\ Free /\ review # 0
  /\ review' = 0
  /\ UNCHANGED <<screen, scope, backend_var, verdict, regions, owners,
                 picker, edit, gate, wizard>>

------------------------------------------------------------------------------
(* The preview gate, and the way out of the setup screen. *)

MayPreview == sources # {} /\ \A f \in sources : confirmed[f] # "no"

Preview(ok) ==
  /\ Free /\ EnsureController /\ MayPreview
  /\ Requested(Ensured, ok)
  /\ gate' = ok
  /\ UNCHANGED <<screen, scope, backend_var, verdict, regions, picker, edit, review, wizard>>

(* Arming fails, or the setup screen goes, its dialogs with it. *)
ConfirmGate(ok) ==
  /\ gate
  /\ gate' = FALSE
  /\ Requested(controller, ok)
  /\ IF ok
     THEN screen' = "ready" /\ edit' = None /\ review' = 0 /\ wizard' = "off"
     ELSE UNCHANGED <<screen, edit, review, wizard>>
  /\ UNCHANGED <<scope, backend_var, verdict, regions, controller, picker>>

BackToSetup ==
  /\ gate
  /\ gate' = FALSE
  /\ UNCHANGED <<screen, scope, backend_var, verdict, regions, owners,
                 picker, edit, review, wizard>>

(* New session, after the recording. *)
Reset ==
  /\ screen = "ready"
  /\ screen' = "setup" /\ scope' = None /\ verdict' = None
  /\ sources' = {} /\ confirmed' = Undrawn /\ rect' = [f \in Fields |-> Placeholder]
  /\ DropController
  /\ backend_var' = AutoBackend
  /\ UNCHANGED <<used, dialogs>>

------------------------------------------------------------------------------
(* The guided demo selects its target, then adds its fields, when the owner
   clicks Next; its other steps are the owner's own clicks. *)

StartDemo ==
  /\ Free /\ wizard = "off"
  /\ scope' = Demo
  /\ DropController
  /\ wizard' = "fields"
  /\ UNCHANGED <<screen, backend_var, verdict, regions, picker, edit, review, gate>>

AddDemoField(f) ==
  /\ Free /\ wizard = "fields" /\ f \notin used
  /\ used' = used \cup {f} /\ sources' = sources \cup {f}
  /\ rect' = [rect EXCEPT ![f] = Drawn(Demo)]
  /\ confirmed' = [confirmed EXCEPT ![f] = "demo"]
  /\ wizard' = "rest"
  /\ UNCHANGED <<screen, scope, backend_var, verdict, owners,
                 picker, edit, review, gate>>

FinishDemo ==
  /\ Free /\ wizard # "off"
  /\ wizard' = "off"
  /\ UNCHANGED <<screen, scope, backend_var, verdict, regions, owners,
                 picker, edit, review, gate>>

------------------------------------------------------------------------------
Init ==
  /\ screen = "setup" /\ scope = None /\ backend_var = AutoBackend /\ verdict = None
  /\ used = {} /\ sources = {} /\ rect = [f \in Fields |-> Placeholder]
  /\ confirmed = Undrawn
  /\ controllers = <<>> /\ controller = 0
  /\ picker = None /\ edit = None /\ review = 0 /\ gate = FALSE /\ wizard = "off"

Next ==
  \/ \E t \in Targets : SelectTarget(t)
  \/ \E b \in Backends : ChangeBackend(b)
  \/ \E ok \in BOOLEAN : TestCapture(ok) \/ TakeSnapshot(ok) \/ OpenReview(ok)
                         \/ Preview(ok) \/ ConfirmGate(ok)
  \/ \E f \in Fields : AddField(f) \/ RemoveField(f) \/ OpenEdit(f) \/ DrawRegion(f)
                       \/ AddDemoField(f)
  \/ \E r \in Rects, closes \in BOOLEAN : ApplyEdit(r, closes)
  \/ \E selection \in {"none", "unfit", "fit"}, ok \in BOOLEAN : Drag(selection, ok)
  \/ \E alive \in BOOLEAN : RetestAll(alive)
  \/ CloseEdit \/ ConfirmRegion \/ CancelPicker \/ CloseReview \/ BackToSetup \/ Reset
  \/ StartDemo \/ FinishDemo

Spec == Init /\ [][Next]_vars

FieldSymmetry == Permutations(Fields)

------------------------------------------------------------------------------
(* Properties. *)

TypeOK ==
  /\ screen \in {"setup", "ready"} /\ scope \in Targets \cup {None}
  /\ sources \subseteq used /\ used \subseteq Fields /\ rect \in [Fields -> Rects]
  /\ controller \in 0..Len(controllers) /\ review \in 0..Len(controllers)
  /\ gate => picker = None /\ MayPreview

(* The verdict on the screen is of the target and the backend now chosen,
   in whatever order they were changed and tested; the guided demo's target
   aside, which is put in place under an old verdict. *)
VerdictIsCurrent ==
  verdict # None /\ scope # Demo => verdict = [scope |-> scope, backend |-> backend_var]

(* When the countdown ends, and in every drag after it, the field is still
   there and the snapshot is of the target still selected, by the controller
   still in charge. *)
PickerIsCurrent ==
  picker # None =>
    /\ picker.field \in sources
    /\ picker.controller = controller
    /\ controllers[controller].scope = scope

(* A region confirmed in the picker was drawn over the target now selected:
   no change of target, other than into the guided demo, carries one along.
   Of a region confirmed by Apply in the Edit dialog nothing is said: after a
   change of target it confirms the rectangle of the target before once more. *)
DrawnOnTarget ==
  \A f \in sources : confirmed[f] = "picker" /\ scope # Demo => rect[f] = Drawn(scope)

(* A controller that is no longer in charge keeps no worker, and gets one
   again only from a Review dialog left open over a change of target. *)
OnlyReviewStrays ==
  [][\A c \in 1..Len(controllers') :
       c # controller' /\ controllers'[c].worker =>
         /\ c # controller
         /\ controllers[c].worker \/ c = review]_vars

(* What the comment on _confirmed_regions promises: a field shown as having a
   region has one that was drawn, or typed, and not its placeholder.
   The code does not keep this. *)
ConfirmedIsReal == \A f \in sources : confirmed[f] # "no" => rect[f].by # "placeholder"
==============================================================================
