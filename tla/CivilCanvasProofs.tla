--------------------------- MODULE CivilCanvasProofs ---------------------------
(***************************************************************************)
(* Proofs about the civil window, for any number of projects, extractions  *)
(* and undoable actions.  ThreadsInv is about the extraction under way,    *)
(* ServiceInv about the cursor's service; the latter needs the records to  *)
(* keep their form, through undo and redo as well (ProjectsInv), and the   *)
(* rows captured from under the cursor to be rows (ToolsInv).              *)
(***************************************************************************)
EXTENDS CivilCanvas, SequenceTheorems, TLAPS

Kinds    == {"calibration", "exclusion", "manual"}
CartRows == [sheet : Nat, assisted : BOOLEAN]
Carts    == Seq(CartRows)
Records  == [calibration : Nat, excluded : BOOLEAN, cart : Carts]
Stacks   == Seq(Records)
ProjectType == [record : Records, undo : Stacks, redo : Stacks]
ThreadType  ==
  [phase : {"none", "extracting", "building", "posted", "over", "died"},
   of : Nat, error : BOOLEAN, rejected : BOOLEAN]

Reading == {"extracting", "building"}

ProjectsInv == projects \in Seq(ProjectType)

ThreadsInv ==
  /\ generation \in 0..MaxIndexes
  /\ threads \in [Generations -> ThreadType]
  /\ \A g \in Generations : threads[g].phase \in Reading => threads[g].of \in 1..Current
  /\ LatestIsOnly
  /\ indexing => Loaded

(* A refused action leaves the service as it was while the record is put back. *)
ServiceInv ==
  /\ torn # "refresh" => service = IF Loaded THEN Service(index, Record) ELSE None
  /\ torn # "no" => Loaded

(* A tool that collects knows whom to call, and what is under the cursor is
   of a sheet. *)
ToolsInv ==
  /\ tool.name = "collect" => tool.then \in Kinds
  /\ index # None => index.sheet \in Nat
  /\ hover # None => hover.sheet \in Nat

CanvasInv == ProjectsInv /\ ThreadsInv /\ ServiceInv /\ ToolsInv

------------------------------------------------------------------------------
(* Records and their stacks. *)
LEMMA RecordForm ==
  ASSUME NEW r \in Records
  PROVE  /\ r.calibration \in Nat /\ r.excluded \in BOOLEAN /\ r.cart \in Carts
         /\ \A n \in Nat : [r EXCEPT !.calibration = n] \in Records
         /\ [r EXCEPT !.excluded = TRUE] \in Records
         /\ \A c \in Carts : /\ [r EXCEPT !.cart = c] \in Records
                             /\ [r EXCEPT !.cart = c].calibration = r.calibration
<1>1. r.calibration \in Nat /\ r.excluded \in BOOLEAN /\ r.cart \in Carts  BY DEF Records
<1>2. \A n \in Nat : [r EXCEPT !.calibration = n] \in Records  BY DEF Records
<1>3. [r EXCEPT !.excluded = TRUE] \in Records  BY Zenon DEF Records
<1>4. \A c \in Carts : /\ [r EXCEPT !.cart = c] \in Records
                       /\ [r EXCEPT !.cart = c].calibration = r.calibration
  BY DEF Records
<1> QED  BY <1>1, <1>2, <1>3, <1>4

(* One more row in a record's cart. *)
LEMMA RowAdded ==
  ASSUME NEW r \in Records, NEW n \in Nat, NEW a \in BOOLEAN
  PROVE  LET w == [sheet |-> n, assisted |-> a] IN
         /\ [r EXCEPT !.cart = Append(@, w)] \in Records
         /\ [r EXCEPT !.cart = Append(@, w)].calibration = r.calibration
<1> DEFINE w == [sheet |-> n, assisted |-> a]
<1>1. w \in CartRows  BY DEF CartRows
<1>2. r.cart \in Seq(CartRows)  BY RecordForm DEF Carts
<1> HIDE DEF w
<1>3. Append(r.cart, w) \in Carts  BY <1>1, <1>2 DEF Carts
<1>4. [r EXCEPT !.cart = Append(@, w)] = [r EXCEPT !.cart = Append(r.cart, w)]  OBVIOUS
<1>5. /\ [r EXCEPT !.cart = Append(@, w)] \in Records
      /\ [r EXCEPT !.cart = Append(@, w)].calibration = r.calibration
  BY <1>3, <1>4, RecordForm
<1> QED  BY <1>5 DEF w

LEMMA StackTop ==
  ASSUME NEW s \in Stacks, s # <<>>
  PROVE  Last(s) \in Records /\ Front(s) \in Stacks
<1>1. Len(s) \in Nat /\ Len(s) \in 1..Len(s)  BY EmptySeq DEF Stacks
<1>2. Last(s) \in Records  BY <1>1, ElementOfSeq DEF Last, Stacks
<1>3. Front(s) \in Stacks  BY <1>1 DEF Front, Stacks
<1> QED  BY <1>2, <1>3

LEMMA ProjectForm ==
  ASSUME NEW p \in ProjectType
  PROVE  p.record \in Records /\ p.undo \in Stacks /\ p.redo \in Stacks
BY DEF ProjectType

LEMMA ProjectMade ==
  ASSUME NEW r \in Records, NEW u \in Stacks, NEW d \in Stacks
  PROVE  [record |-> r, undo |-> u, redo |-> d] \in ProjectType
BY DEF ProjectType

LEMMA CurrentForm ==
  ASSUME ProjectsInv, Loaded
  PROVE  /\ Current \in Nat /\ Current \in DOMAIN projects
         /\ projects[Current] \in ProjectType /\ Record \in Records
         /\ projects[Current].undo \in Stacks /\ projects[Current].redo \in Stacks
<1>1. Len(projects) \in Nat /\ Len(projects) \in 1..Len(projects)
  BY EmptySeq DEF ProjectsInv, Loaded
<1>2. Current \in DOMAIN projects  BY <1>1 DEF Current, ProjectsInv
<1>3. projects[Current] \in ProjectType  BY <1>1, ElementOfSeq DEF Current, ProjectsInv
<1> QED  BY <1>1, <1>2, <1>3, ProjectForm DEF Current, Record

(* The open project is replaced: by a project, and it stays the open one. *)
LEMMA OpenReplaced ==
  ASSUME ProjectsInv, Loaded, NEW p \in ProjectType, projects' = [projects EXCEPT ![Current] = p]
  PROVE  ProjectsInv' /\ Loaded' /\ Current' = Current /\ projects'[Current] = p
<1>1. Current \in DOMAIN projects /\ Current \in 1..Len(projects)
  BY CurrentForm DEF ProjectsInv
<1>2. projects' \in Seq(ProjectType) /\ Len(projects') = Len(projects)
  BY <1>1, ExceptSeq DEF ProjectsInv
<1>3. projects'[Current] = p  BY <1>1 DEF ProjectsInv
<1>4. projects' # <<>>  BY <1>2, EmptySeq DEF ProjectsInv, Loaded
<1> QED  BY <1>2, <1>3, <1>4 DEF ProjectsInv, Loaded, Current

------------------------------------------------------------------------------
(* What the steps do to the projects. *)
LEMMA ChangedProjects ==
  ASSUME ProjectsInv, Loaded, NEW r \in Records, Changed(r)
  PROVE  ProjectsInv' /\ Loaded' /\ Current' = Current /\ projects'[Current].record = r
<1> DEFINE p == [record |-> r, undo |-> Append(projects[Current].undo, Record), redo |-> <<>>]
<1>1. Append(projects[Current].undo, Record) \in Stacks /\ <<>> \in Stacks
  BY CurrentForm DEF Stacks
<1>2. p \in ProjectType  BY <1>1, ProjectMade
<1>3. projects' = [projects EXCEPT ![Current] = p]  BY DEF Changed, Record
<1>4. p.record = r  OBVIOUS
<1> HIDE DEF p
<1> QED  BY <1>2, <1>3, <1>4, OpenReplaced

LEMMA RaisedProjects ==
  ASSUME ProjectsInv, Loaded, Raised
  PROVE  ProjectsInv' /\ Loaded' /\ Current' = Current /\ projects'[Current].record = Record
<1> DEFINE o == projects[Current]
           p == [o EXCEPT !.redo = <<>>]
<1>1. o \in ProjectType /\ <<>> \in Stacks  BY CurrentForm DEF Stacks
<1>2. p \in ProjectType /\ p.record = o.record  BY <1>1 DEF ProjectType
<1>3. projects' = [projects EXCEPT ![Current] = p]  BY DEF Raised
<1>4. o.record = Record  BY DEF Record
<1> HIDE DEF p, o
<1> QED  BY <1>2, <1>3, <1>4, OpenReplaced

LEMMA UndoProjects ==
  ASSUME ProjectsInv, Loaded, UndoAction
  PROVE  ProjectsInv' /\ Loaded' /\ Current' = Current
<1> DEFINE o == projects[Current]
           p == [record |-> Last(o.undo), undo |-> Front(o.undo), redo |-> Append(o.redo, o.record)]
<1>1. o.undo \in Stacks /\ o.redo \in Stacks /\ o.record \in Records /\ o.undo # <<>>
  BY CurrentForm DEF UndoAction, Record
<1>2. projects' = [projects EXCEPT ![Current] = p]  BY DEF UndoAction
<1> HIDE DEF o
<1>3. Append(o.redo, o.record) \in Stacks  BY <1>1 DEF Stacks
<1>4. p \in ProjectType  BY <1>1, <1>3, StackTop, ProjectMade
<1> HIDE DEF p
<1> QED  BY <1>2, <1>4, OpenReplaced

LEMMA RedoProjects ==
  ASSUME ProjectsInv, Loaded, RedoAction
  PROVE  ProjectsInv' /\ Loaded' /\ Current' = Current
<1> DEFINE o == projects[Current]
           p == [record |-> Last(o.redo), redo |-> Front(o.redo), undo |-> Append(o.undo, o.record)]
<1>1. o.undo \in Stacks /\ o.redo \in Stacks /\ o.record \in Records /\ o.redo # <<>>
  BY CurrentForm DEF RedoAction, Record
<1>2. projects' = [projects EXCEPT ![Current] = p]  BY DEF RedoAction
<1> HIDE DEF o
<1>3. Append(o.undo, o.record) \in Stacks  BY <1>1 DEF Stacks
<1>4. p = [record |-> Last(o.redo), undo |-> Append(o.undo, o.record), redo |-> Front(o.redo)]
  OBVIOUS
<1>5. p \in ProjectType  BY <1>1, <1>3, <1>4, StackTop, ProjectMade
<1> HIDE DEF p
<1> QED  BY <1>2, <1>5, OpenReplaced

LEMMA LoadProjects ==
  ASSUME ProjectsInv, NEW c \in Nat, Load(c)
  PROVE  ProjectsInv' /\ Loaded' /\ Current' = Current + 1
<1> DEFINE left == [p \in DOMAIN projects |-> [projects[p] EXCEPT !.undo = <<>>, !.redo = <<>>]]
<1>1. <<>> \in Stacks /\ <<>> \in Carts  BY DEF Stacks, Carts
<1>2. ASSUME NEW o \in ProjectType PROVE [o EXCEPT !.undo = <<>>, !.redo = <<>>] \in ProjectType
  <2>1. [o EXCEPT !.undo = <<>>] \in ProjectType  BY <1>1 DEF ProjectType
  <2>2. \A q \in ProjectType : [q EXCEPT !.redo = <<>>] \in ProjectType
    BY <1>1 DEF ProjectType
  <2> QED  BY <2>1, <2>2
<1>3. left \in Seq(ProjectType) /\ Len(left) = Len(projects)
  <2>1. DOMAIN projects = 1..Len(projects) /\ Len(projects) \in Nat  BY DEF ProjectsInv
  <2>2. \A p \in DOMAIN projects : projects[p] \in ProjectType
    BY <2>1, ElementOfSeq DEF ProjectsInv
  <2>3. left \in [1..Len(projects) -> ProjectType]  BY <1>2, <2>1, <2>2
  <2> HIDE DEF left
  <2>4. left \in Seq(ProjectType)  BY <2>1, <2>3, SeqDef
  <2> QED  BY <2>1, <2>3, <2>4
<1>4. Opened(c) \in ProjectType
  <2>1. [calibration |-> c, excluded |-> FALSE, cart |-> <<>>] \in Records
    BY <1>1, Zenon DEF Records
  <2> QED  BY <1>1, <2>1, ProjectMade DEF Opened
<1>5. projects' = Append(left, Opened(c))  BY DEF Load
<1> HIDE DEF left
<1>6. projects' \in Seq(ProjectType) /\ Len(projects') = Len(left) + 1 /\ Len(left) \in Nat
  BY <1>3, <1>4, <1>5
<1>7. projects' # <<>>  BY <1>6, EmptySeq
<1> QED  BY <1>3, <1>6, <1>7 DEF ProjectsInv, Loaded, Current

(* What the callback asks for is a record. *)
LEMMA AppliedForm ==
  ASSUME ProjectsInv, ToolsInv, Loaded, tool.name = "collect"
  PROVE  Applied(tool.then) \in Records
<1>1. Record \in Records /\ Current \in Nat  BY CurrentForm
<1>2. tool.then \in Kinds  BY DEF ToolsInv
<1>3. CASE tool.then = "calibration"
  <2>1. Record.calibration + 1 \in Nat
    <3>1. Record.calibration \in Nat  BY <1>1, RecordForm
    <3> QED  BY <3>1
  <2>2. [Record EXCEPT !.calibration = Record.calibration + 1] \in Records
    BY <1>1, <2>1, RecordForm
  <2> QED  BY <1>3, <2>2 DEF Applied
<1>4. CASE tool.then = "exclusion"
  <2>1. [Record EXCEPT !.excluded = TRUE] \in Records  BY <1>1, RecordForm
  <2> QED  BY <1>4, <2>1 DEF Applied
<1>5. CASE tool.then = "manual"
  <2>1. [Record EXCEPT !.cart = Append(@, [sheet |-> Current, assisted |-> FALSE])] \in Records
    BY <1>1, RowAdded
  <2> QED  BY <1>5, <2>1 DEF Applied
<1> QED  BY <1>2, <1>3, <1>4, <1>5 DEF Kinds

(* Between events, what is under the cursor is of a sheet. *)
LEMMA SuggestionForm ==
  ASSUME ServiceInv, ToolsInv, TkIdle, Loaded, Suggestion # None
  PROVE  Suggestion.sheet \in Nat
<1>1. service # None  BY DEF Suggestion
<1>2. service = Service(index, Record)  BY DEF ServiceInv, TkIdle
<1>3. index # None  BY <1>1, <1>2 DEF Service
<1>4. service.index = index  BY <1>2, <1>3 DEF Service
<1>5. index.sheet \in Nat  BY <1>3 DEF ToolsInv
<1> QED  BY <1>1, <1>4, <1>5 DEF Suggestion

(* A captured row, or none: the calibration stays what it was. *)
LEMMA CaptureProjects ==
  ASSUME ProjectsInv, Loaded, NEW s, s # None => s.sheet \in Nat, Capture(s)
  PROVE  /\ ProjectsInv' /\ Loaded' /\ Current' = Current
         /\ projects'[Current].record.calibration = Record.calibration
<1> DEFINE row == [sheet |-> s.sheet, assisted |-> TRUE]
           r   == [Record EXCEPT !.cart = Append(@, row)]
<1>1. CASE UNCHANGED projects
  BY <1>1 DEF ProjectsInv, Loaded, Current, Record
<1>2. CASE Raised  BY <1>2, RaisedProjects
<1>3. CASE s # None /\ Changed(r)
  <2>1. r \in Records /\ r.calibration = Record.calibration
    BY <1>3, CurrentForm, RowAdded
  <2> HIDE DEF r
  <2> QED  BY <1>3, <2>1, ChangedProjects
<1> QED  BY <1>1, <1>2, <1>3 DEF Capture

------------------------------------------------------------------------------
(* Every step leaves the projects in form, and none closes a project. *)
LEMMA ProjectsStep ==
  ASSUME ProjectsInv, ToolsInv, ServiceInv, [Next]_vars
  PROVE  ProjectsInv' /\ (Loaded => Loaded') /\ Current' \in Nat /\ Current <= Current'
<1> DEFINE Goal == ProjectsInv' /\ (Loaded => Loaded') /\ Current' \in Nat /\ Current <= Current'
<1>n. Current \in Nat  BY DEF Current, ProjectsInv
<1>0. CASE UNCHANGED projects  BY <1>0, <1>n DEF ProjectsInv, Loaded, Current
<1>s. ASSUME ProjectsInv', Loaded', Current' = Current PROVE Goal  BY <1>s, <1>n
<1>1. CASE NewFromSource  BY <1>1, <1>n, LoadProjects DEF NewFromSource
<1>2. CASE OpenProject  BY <1>2, <1>n, LoadProjects DEF OpenProject
<1>3. CASE Collect
  <2>1. CASE UNCHANGED projects  BY <2>1, <1>0
  <2>2. CASE Changed(Applied(tool.then))
    <3>1. Applied(tool.then) \in Records  BY <1>3, AppliedForm DEF Collect
    <3> QED  BY <1>3, <2>2, <3>1, <1>s, ChangedProjects DEF Collect
  <2>3. CASE Raised  BY <1>3, <2>3, <1>s, RaisedProjects DEF Collect
  <2> QED  BY <1>3, <2>1, <2>2, <2>3 DEF Collect
<1>4. CASE SetElevationRange
  BY <1>4, <1>s, CurrentForm, ChangedProjects, RaisedProjects DEF SetElevationRange
<1>5. CASE UndoAction  BY <1>5, <1>s, UndoProjects DEF UndoAction
<1>6. CASE RedoAction  BY <1>6, <1>s, RedoProjects DEF RedoAction
<1>7. CASE Click
  <2>1. Suggestion # None => Suggestion.sheet \in Nat  BY <1>7, SuggestionForm DEF Click
  <2> QED  BY <1>7, <2>1, <1>s, CaptureProjects DEF Click
<1>8. CASE Enter  BY <1>8, <1>s, CaptureProjects DEF Enter, ToolsInv
<1>9. CASE \/ Extract \/ CancelTool \/ Restore \/ Motion \/ PointerLeave
           \/ \E g \in Generations : Indexer(g) \/ FinishIndex(g)
           \/ \E kind \in DOMAIN Callbacks : BeginCollect(kind)
  <2>1. UNCHANGED projects
    BY <1>9 DEF Extract, CancelTool, Restore, Motion, PointerLeave, Indexer, ReadSheet,
                BuildEvidence, Thread, FinishIndex, BeginCollect
  <2> QED  BY <2>1, <1>0
<1> QED  BY <1>0, <1>1, <1>2, <1>3, <1>4, <1>5, <1>6, <1>7, <1>8, <1>9 DEF Next, vars

------------------------------------------------------------------------------
(* The threads. *)
LEMMA ThreadForms ==
  /\ NoThread \in ThreadType
  /\ \A phase \in {"posted", "over", "died"} : Ended(phase) \in ThreadType /\ Ended(phase).phase = phase
  /\ [Ended("posted") EXCEPT !.error = TRUE] \in ThreadType
  /\ [Ended("posted") EXCEPT !.error = TRUE].phase = "posted"
<1>1. NoThread \in ThreadType  BY Zenon DEF NoThread, ThreadType
<1>2. \A t \in ThreadType, phase \in {"posted", "over", "died"} :
        [t EXCEPT !.phase = phase] \in ThreadType /\ [t EXCEPT !.phase = phase].phase = phase
  BY DEF ThreadType
<1>3. \A t \in ThreadType, b \in BOOLEAN :
        [t EXCEPT !.error = b] \in ThreadType /\ [t EXCEPT !.error = b].phase = t.phase
  BY DEF ThreadType
<1>4. TRUE \in BOOLEAN  OBVIOUS
<1> HIDE DEF NoThread
<1> QED  BY <1>1, <1>2, <1>3, <1>4, Zenon DEF Ended

(* A thread that goes on, or ends. *)
LEMMA ThreadGoesOn ==
  ASSUME ThreadsInv, NEW g \in Generations, NEW p \in Live, NEW t \in ThreadType,
         t.phase \in Reading => t.of = threads[g].of /\ p \in Reading, Thread(g, p, t)
  PROVE  ThreadsInv'
<1>1. threads[g].phase = p /\ threads' = [threads EXCEPT ![g] = t]
  BY DEF Thread
<1>2. threads' \in [Generations -> ThreadType]  BY <1>1 DEF ThreadsInv
<1>3. UNCHANGED <<generation, indexing, projects>>  BY DEF Thread
<1>5. \A h \in Generations : threads'[h].phase \in Reading => threads'[h].of \in 1..Current
  BY <1>1 DEF ThreadsInv
<1>4. LatestIsOnly'
  BY <1>1, <1>3 DEF ThreadsInv, LatestIsOnly
<1> QED  BY <1>2, <1>3, <1>4, <1>5 DEF ThreadsInv, Loaded, Current

LEMMA IndexerThreads ==
  ASSUME ThreadsInv, NEW g \in Generations, Indexer(g), ProjectsInv
  PROVE  ThreadsInv'
<1> DEFINE t == threads[g]
<1>0. /\ t \in ThreadType
      /\ [t EXCEPT !.phase = "building"] \in ThreadType
      /\ [t EXCEPT !.phase = "building"].of = t.of
      /\ \A b \in BOOLEAN : /\ [t EXCEPT !.phase = "posted", !.rejected = b] \in ThreadType
                            /\ [t EXCEPT !.phase = "posted", !.rejected = b].of = t.of
  <2>1. t \in ThreadType  BY DEF ThreadsInv
  <2>2. \A q \in ThreadType, c \in {"building", "posted"} :
          [q EXCEPT !.phase = c] \in ThreadType /\ [q EXCEPT !.phase = c].of = q.of
    BY DEF ThreadType
  <2>3. \A q \in ThreadType, b \in BOOLEAN :
          [q EXCEPT !.rejected = b] \in ThreadType /\ [q EXCEPT !.rejected = b].of = q.of
    BY DEF ThreadType
  <2>4. ASSUME NEW b \in BOOLEAN
        PROVE  /\ [t EXCEPT !.phase = "posted", !.rejected = b] \in ThreadType
               /\ [t EXCEPT !.phase = "posted", !.rejected = b].of = t.of
    <3> DEFINE q == [t EXCEPT !.phase = "posted"]
    <3>1. q \in ThreadType /\ q.of = t.of  BY <2>1, <2>2
    <3>2. [t EXCEPT !.phase = "posted", !.rejected = b] = [q EXCEPT !.rejected = b]  OBVIOUS
    <3> HIDE DEF q
    <3> QED  BY <3>1, <3>2, <2>3
  <2> QED  BY <2>1, <2>2, <2>4
<1>1. CASE ReadSheet(g)
  <2>1. PICK failed \in BOOLEAN :
          Thread(g, "extracting", IF failed THEN [Ended("posted") EXCEPT !.error = TRUE]
                                  ELSE [t EXCEPT !.phase = "building"])
    BY <1>1 DEF ReadSheet
  <2> QED  BY <2>1, <1>0, ThreadForms, ThreadGoesOn DEF Live, Reading
<1>2. CASE BuildEvidence(g)
  <2>1. CASE Thread(g, "building", Ended("died"))
    BY <2>1, ThreadForms, ThreadGoesOn DEF Live, Reading
  <2>2. CASE Thread(g, "building", [t EXCEPT !.phase = "posted", !.rejected = projects[t.of].record.excluded])
    <3>1. t.of \in 1..Len(projects)  BY <2>2 DEF Thread, Reading, ThreadsInv, Current
    <3>2. projects[t.of] \in ProjectType  BY <3>1, ElementOfSeq DEF ProjectsInv
    <3>3. projects[t.of].record.excluded \in BOOLEAN  BY <3>2, ProjectForm, RecordForm
    <3> QED  BY <2>2, <3>3, <1>0, ThreadGoesOn DEF Live, Reading
  <2> QED  BY <1>2, <2>1, <2>2 DEF BuildEvidence
<1> QED  BY <1>1, <1>2 DEF Indexer

LEMMA ThreadsStep ==
  ASSUME ProjectsInv, ThreadsInv, ToolsInv, ServiceInv, [Next]_vars
  PROVE  ThreadsInv'
<1>0. (Loaded => Loaded') /\ Current \in Nat /\ Current' \in Nat /\ Current <= Current'
  BY ProjectsStep DEF Current, ProjectsInv
<1>1. CASE UNCHANGED work  BY <1>0, <1>1 DEF ThreadsInv, LatestIsOnly, work
<1>2. CASE Extract
  <2> DEFINE n == generation + 1
             t == [NoThread EXCEPT !.phase = "extracting", !.of = Current]
  <2>1. n \in Generations /\ n \in 0..MaxIndexes
    BY <1>2, CanvasAssumption DEF Extract, Generations, ThreadsInv
  <2>2. /\ t \in ThreadType /\ t.of = Current
        /\ generation' = n /\ indexing' = TRUE /\ threads' = [threads EXCEPT ![n] = t]
        /\ UNCHANGED projects /\ Loaded /\ ~indexing
    <3>1. \A q \in ThreadType : [q EXCEPT !.phase = "extracting"] \in ThreadType
      BY DEF ThreadType
    <3>2. \A q \in ThreadType : /\ [q EXCEPT !.of = Current] \in ThreadType
                                /\ [q EXCEPT !.of = Current].of = Current
      BY <1>0 DEF ThreadType
    <3>3. t = [[NoThread EXCEPT !.phase = "extracting"] EXCEPT !.of = Current]  OBVIOUS
    <3>4. t \in ThreadType /\ t.of = Current  BY <3>1, <3>2, <3>3, ThreadForms
    <3> HIDE DEF t
    <3> QED  BY <1>2, <3>4 DEF Extract, Start, t
  <2> HIDE DEF n, t
  <2>3. threads' \in [Generations -> ThreadType]  BY <2>1, <2>2 DEF ThreadsInv
  <2>4. \A g \in Generations : threads[g].phase \notin Live  BY <2>2 DEF ThreadsInv, LatestIsOnly
  <2>5. LatestIsOnly'  BY <2>1, <2>2, <2>4 DEF LatestIsOnly, ThreadsInv
  <2>6. Current \in 1..Current  BY <1>0, <2>2, EmptySeq DEF Current, Loaded, ProjectsInv
  <2>7. \A g \in Generations : threads'[g].phase \in Reading => threads'[g].of \in 1..Current
    BY <2>1, <2>2, <2>6 DEF ThreadsInv
  <2> QED  BY <1>0, <2>1, <2>2, <2>3, <2>5, <2>7 DEF ThreadsInv, Current
<1>3. ASSUME NEW g \in Generations, Indexer(g) PROVE ThreadsInv'  BY <1>3, IndexerThreads
<1>4. ASSUME NEW g \in Generations, FinishIndex(g) PROVE ThreadsInv'
  <2>1. /\ threads[g].phase \in Live
        /\ threads' = [threads EXCEPT ![g] = Ended("over")]
        /\ indexing' = IF g = generation THEN FALSE ELSE indexing
        /\ UNCHANGED <<projects, generation>>
    BY <1>4 DEF FinishIndex, FinishBusy, Live
  <2>2. Ended("over") \in ThreadType /\ Ended("over").phase = "over"  BY ThreadForms
  <2>3. g = generation  BY <2>1 DEF ThreadsInv, LatestIsOnly
  <2>4. threads' \in [Generations -> ThreadType]  BY <2>1, <2>2 DEF ThreadsInv
  <2>5. \A h \in Generations : threads'[h].phase \notin Live
    BY <2>1, <2>2, <2>3 DEF ThreadsInv, LatestIsOnly, Live
  <2>6. \A h \in Generations : threads'[h].phase \notin Reading  BY <2>5 DEF Live, Reading
  <2> QED  BY <2>1, <2>3, <2>4, <2>5, <2>6 DEF ThreadsInv, LatestIsOnly, Loaded
<1>5. CASE \/ NewFromSource \/ OpenProject \/ CancelTool \/ Collect \/ SetElevationRange
           \/ UndoAction \/ RedoAction \/ Restore \/ Motion \/ PointerLeave \/ Click \/ Enter
           \/ \E kind \in DOMAIN Callbacks : BeginCollect(kind)
  <2>1. UNCHANGED work
    BY <1>5 DEF NewFromSource, OpenProject, Load, CancelTool, Collect, SetElevationRange,
                UndoAction, RedoAction, Restore, Motion, PointerLeave, Click, Enter, BeginCollect
  <2> QED  BY <2>1, <1>1
<1> QED  BY <1>1, <1>2, <1>3, <1>4, <1>5 DEF Next, vars

------------------------------------------------------------------------------
(* What is under the cursor, and the tool. *)
LEMMA ToolsStep ==
  ASSUME ThreadsInv, ToolsInv, ServiceInv, [Next]_vars
  PROVE  ToolsInv'
<1> DEFINE ToolInv == tool.name = "collect" => tool.then \in Kinds
           IndexInv == index # None => index.sheet \in Nat
           HoverInv == hover # None => hover.sheet \in Nat
<1>1. ToolInv'
  <2>1. CASE UNCHANGED tool  BY <2>1 DEF ToolsInv
  <2>2. CASE tool' = Select  BY <2>2 DEF Select
  <2>3. ASSUME NEW kind \in DOMAIN Callbacks, BeginCollect(kind) PROVE ToolInv'
    BY <2>3 DEF BeginCollect, Callbacks, Kinds
  <2>4. CASE Collect
    <3>1. CASE tool' = [tool EXCEPT !.clicks = @ + 1]
      <4>1. tool.name = "collect" /\ tool.then \in Kinds  BY <2>4 DEF Collect, ToolsInv
      <4>2. tool'.then = tool.then  BY <3>1
      <4> QED  BY <4>1, <4>2
    <3> QED  BY <2>2, <2>4, <3>1 DEF Collect
  <2>5. CASE NewFromSource \/ OpenProject \/ Extract \/ SetElevationRange \/ UndoAction
             \/ RedoAction \/ Restore \/ Motion \/ PointerLeave \/ Click \/ Enter
             \/ \E g \in Generations : Indexer(g) \/ FinishIndex(g)
    <3>1. UNCHANGED tool
      BY <2>5 DEF NewFromSource, OpenProject, Load, Extract, SetElevationRange, UndoAction,
                  RedoAction, Restore, Motion, PointerLeave, Click, Enter, Indexer, ReadSheet,
                  BuildEvidence, Thread, FinishIndex
    <3> QED  BY <3>1, <2>1
  <2>6. CASE CancelTool  BY <2>6, <2>2 DEF CancelTool
  <2> QED  BY <2>1, <2>3, <2>4, <2>5, <2>6 DEF Next, vars
<1>2. IndexInv'
  <2>1. CASE UNCHANGED index  BY <2>1 DEF ToolsInv
  <2>2. CASE index' = None  BY <2>2
  <2>3. ASSUME NEW g \in Generations, FinishIndex(g) PROVE IndexInv'
    <3>1. CASE SetIndex([sheet |-> threads[g].of, rejected |-> threads[g].rejected])
      <4>1. threads[g].of \in Nat  BY DEF ThreadsInv, ThreadType
      <4> QED  BY <3>1, <4>1 DEF SetIndex
    <3> QED  BY <2>1, <2>3, <3>1 DEF FinishIndex, canvas
  <2>4. CASE \/ NewFromSource \/ OpenProject \/ SetElevationRange
    BY <2>1, <2>2, <2>4 DEF NewFromSource, OpenProject, Load, SetElevationRange, SetIndex, canvas
  <2>5. CASE Collect \/ Restore \/ Click \/ Enter
    BY <2>1, <2>5 DEF Collect, Restore, Click, Enter, Capture, Refresh, SetIndex, canvas
  <2>6. CASE \/ Extract \/ UndoAction \/ RedoAction \/ Motion \/ PointerLeave \/ CancelTool
             \/ \E g \in Generations : Indexer(g)
             \/ \E kind \in DOMAIN Callbacks : BeginCollect(kind)
    <3>1. UNCHANGED index
      BY <2>6 DEF Extract, UndoAction, RedoAction, Motion, PointerLeave, CancelTool, Indexer,
                  ReadSheet, BuildEvidence, Thread, BeginCollect, canvas
    <3> QED  BY <3>1, <2>1
  <2> QED  BY <2>1, <2>3, <2>4, <2>5, <2>6 DEF Next, vars, canvas
<1>3. HoverInv'
  <2>1. CASE UNCHANGED hover  BY <2>1 DEF ToolsInv
  <2>2. CASE hover' = None  BY <2>2
  <2>3. ASSUME TkIdle, Loaded, hover' = Suggestion PROVE HoverInv'  BY <2>3, SuggestionForm
  <2>4. CASE Motion \/ Click  BY <2>1, <2>2, <2>3, <2>4 DEF Motion, Click
  <2>5. CASE NewFromSource \/ OpenProject \/ PointerLeave
    BY <2>2, <2>5 DEF NewFromSource, OpenProject, Load, PointerLeave
  <2>6. CASE \/ Extract \/ UndoAction \/ RedoAction \/ CancelTool \/ Enter \/ Restore \/ Collect
             \/ SetElevationRange
             \/ \E g \in Generations : Indexer(g) \/ FinishIndex(g)
             \/ \E kind \in DOMAIN Callbacks : BeginCollect(kind)
    <3>1. UNCHANGED hover
      BY <2>6 DEF Extract, UndoAction, RedoAction, CancelTool, Enter, Restore, Collect,
                  SetElevationRange, Refresh, SetIndex, Indexer, ReadSheet, BuildEvidence, Thread,
                  FinishIndex, BeginCollect, canvas
    <3> QED  BY <3>1, <2>1
  <2> QED  BY <2>1, <2>4, <2>5, <2>6 DEF Next, vars, canvas
<1> QED  BY <1>1, <1>2, <1>3 DEF ToolsInv

------------------------------------------------------------------------------
(* The service.  A step that keeps it keeps the calibration it was made with,
   or says that a refresh follows. *)
LEMMA ServiceKept ==
  ASSUME ServiceInv, Loaded, Loaded', torn # "refresh", UNCHANGED <<index, service>>,
         projects'[Current].record.calibration = Record.calibration, Current' = Current
  PROVE  ServiceInv'
<1>1. service = Service(index, Record)  BY DEF ServiceInv
<1>2. Record'.calibration = Record.calibration  BY DEF Record
<1>3. Service(index, Record) = Service(index, Record)'  BY <1>2 DEF Service
<1> QED  BY <1>1, <1>3 DEF ServiceInv

LEMMA ServiceMade ==
  ASSUME Loaded', Current' = Current, NEW i, SetIndex(i)
  PROVE  ServiceInv'
<1>1. index' = i /\ service' = Service(i, projects'[Current].record)  BY DEF SetIndex
<1>2. Record' = projects'[Current].record  BY DEF Record
<1>3. service' = Service(index, Record)'  BY <1>1, <1>2
<1> QED  BY <1>3 DEF ServiceInv

LEMMA ServiceStep ==
  ASSUME ProjectsInv, ThreadsInv, ToolsInv, ServiceInv, [Next]_vars
  PROVE  ServiceInv'
<1>0. CASE UNCHANGED <<projects, index, service, torn>>
  BY <1>0 DEF ServiceInv, Loaded, Record, Current, Service
<1>1. CASE NewFromSource \/ OpenProject
  <2>1. Loaded'  BY <1>1, LoadProjects DEF NewFromSource, OpenProject
  <2>2. index' = None /\ service' = None  BY <1>1 DEF NewFromSource, OpenProject, Load
  <2> QED  BY <2>1, <2>2 DEF ServiceInv, Service
<1>2. ASSUME NEW g \in Generations, FinishIndex(g) PROVE ServiceInv'
  <2>1. Loaded  BY <1>2 DEF FinishIndex, ThreadsInv, LatestIsOnly, Live
  <2>2. Loaded' /\ Current' = Current  BY <1>2, <2>1 DEF FinishIndex, Loaded, Current
  <2>3. CASE UNCHANGED canvas  BY <1>2, <2>3, <1>0 DEF FinishIndex, canvas
  <2>4. CASE SetIndex([sheet |-> threads[g].of, rejected |-> threads[g].rejected])
    BY <2>2, <2>4, ServiceMade
  <2> QED  BY <1>2, <2>3, <2>4 DEF FinishIndex
<1>3. CASE Collect
  <2>1. Loaded /\ torn = "no"  BY <1>3 DEF Collect, TkIdle
  <2>2. CASE Changed(Applied(tool.then)) /\ Refresh
    <3>1. Applied(tool.then) \in Records  BY <1>3, AppliedForm DEF Collect
    <3>2. Loaded' /\ Current' = Current  BY <2>1, <2>2, <3>1, ChangedProjects
    <3> QED  BY <2>2, <3>2, ServiceMade DEF Refresh
  <2>3. CASE Raised /\ UNCHANGED canvas
    <3>1. Loaded' /\ Current' = Current /\ projects'[Current].record = Record
      BY <2>1, <2>3, RaisedProjects
    <3> QED  BY <2>1, <2>3, <3>1, ServiceKept DEF canvas
  <2>4. CASE UNCHANGED <<projects, canvas, torn>>  BY <2>4, <1>0 DEF canvas
  <2> QED  BY <1>3, <2>2, <2>3, <2>4 DEF Collect
<1>4. CASE SetElevationRange
  <2>1. Loaded /\ torn = "no"  BY <1>4 DEF SetElevationRange, TkIdle
  <2>2. CASE Changed(Record) /\ SetIndex(None)
    <3>1. Loaded' /\ Current' = Current  BY <2>1, <2>2, CurrentForm, ChangedProjects
    <3> QED  BY <2>2, <3>1, ServiceMade
  <2>3. CASE Raised /\ UNCHANGED canvas
    <3>1. Loaded' /\ Current' = Current /\ projects'[Current].record = Record
      BY <2>1, <2>3, RaisedProjects
    <3> QED  BY <2>1, <2>3, <3>1, ServiceKept DEF canvas
  <2> QED  BY <1>4, <2>2, <2>3 DEF SetElevationRange
<1>5. CASE UndoAction \/ RedoAction
  <2>1. Loaded'  BY <1>5, UndoProjects, RedoProjects DEF UndoAction, RedoAction
  <2>2. torn' = "refresh"  BY <1>5 DEF UndoAction, RedoAction, AfterUndo
  <2> QED  BY <2>1, <2>2 DEF ServiceInv
<1>6. CASE Restore
  <2>1. Loaded /\ UNCHANGED projects /\ torn' = "no"  BY <1>6 DEF Restore, ServiceInv
  <2>2. Loaded' /\ Current' = Current  BY <2>1 DEF Loaded, Current
  <2>3. CASE torn = "refresh" /\ Refresh  BY <2>2, <2>3, ServiceMade DEF Refresh
  <2>4. CASE torn # "refresh" /\ UNCHANGED canvas
    BY <2>1, <2>2, <2>4, ServiceKept DEF canvas, Record
  <2> QED  BY <1>6, <2>3, <2>4 DEF Restore
<1>7. ASSUME NEW s, s # None => s.sheet \in Nat, Capture(s), Loaded, TkIdle PROVE ServiceInv'
  <2>1. /\ Loaded' /\ Current' = Current
        /\ projects'[Current].record.calibration = Record.calibration
    BY <1>7, CaptureProjects
  <2>2. index' = index /\ torn = "no"  BY <1>7 DEF Capture, TkIdle
  <2>3. service' = service
    <3>1. service = Service(index, Record)  BY <1>7, <2>2 DEF ServiceInv
    <3> QED  BY <1>7, <3>1 DEF Capture
  <2> QED  BY <1>7, <2>1, <2>2, <2>3, ServiceKept
<1>8. CASE Click
  <2>1. Suggestion # None => Suggestion.sheet \in Nat  BY <1>8, SuggestionForm DEF Click
  <2> QED  BY <1>8, <2>1, <1>7 DEF Click
<1>9. CASE Enter  BY <1>9, <1>7 DEF Enter, ToolsInv
<1>10. CASE \/ Extract \/ CancelTool \/ Motion \/ PointerLeave
            \/ \E g \in Generations : Indexer(g)
            \/ \E kind \in DOMAIN Callbacks : BeginCollect(kind)
  <2>1. UNCHANGED <<projects, index, service, torn>>
    BY <1>10 DEF Extract, CancelTool, Motion, PointerLeave, Indexer, ReadSheet, BuildEvidence,
                 Thread, BeginCollect, canvas
  <2> QED  BY <2>1, <1>0
<1>11. CASE UNCHANGED vars  BY <1>11, <1>0 DEF vars, canvas
<1> QED  BY <1>1, <1>2, <1>3, <1>4, <1>5, <1>6, <1>8, <1>9, <1>10, <1>11 DEF Next

------------------------------------------------------------------------------
(* The invariant holds of the empty window, and every step keeps it. *)
THEOREM CanvasInvariance == FairSpec => []CanvasInv
<1>1. Init => CanvasInv
  <2> SUFFICES ASSUME Init PROVE CanvasInv  OBVIOUS
  <2>1. ProjectsInv  BY DEF Init, ProjectsInv
  <2>2. ThreadsInv
    <3>1. \A g \in Generations : threads[g] = NoThread /\ NoThread.phase = "none"
      BY DEF Init, NoThread
    <3>2. threads \in [Generations -> ThreadType]  BY ThreadForms DEF Init
    <3>3. generation \in 0..MaxIndexes /\ ~indexing  BY CanvasAssumption DEF Init
    <3> QED  BY <3>1, <3>2, <3>3 DEF ThreadsInv, LatestIsOnly, Live, Reading
  <2>3. ServiceInv  BY DEF Init, ServiceInv, Loaded
  <2>4. ToolsInv  BY DEF Init, ToolsInv, Select
  <2> QED  BY <2>1, <2>2, <2>3, <2>4 DEF CanvasInv
<1>2. CanvasInv /\ [Next]_vars => CanvasInv'
  BY ProjectsStep, ThreadsStep, ToolsStep, ServiceStep DEF CanvasInv
<1> QED  BY <1>1, <1>2, PTL DEF FairSpec

(* Between two events the cursor's service works with the index and the
   calibration of the open project (_rebuild_hover_service), whatever was
   undone, refused, opened or installed since it was made. *)
THEOREM CursorServiceStaysCurrent == FairSpec => []ServiceIsCurrent
<1>1. CanvasInv => ServiceIsCurrent  BY DEF CanvasInv, ServiceInv, ServiceIsCurrent
<1> QED  BY <1>1, CanvasInvariance, PTL

(* At most one extraction is under way, of the latest generation, so that the
   busy flag of extract_pdf_candidates and run_local_ocr never drops a result. *)
THEOREM OneExtractionAtATime == FairSpec => []LatestIsOnly
<1>1. CanvasInv => LatestIsOnly  BY DEF CanvasInv, ThreadsInv
<1> QED  BY <1>1, CanvasInvariance, PTL
=============================================================================
