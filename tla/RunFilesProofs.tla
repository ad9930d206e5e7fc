---------------------------- MODULE RunFilesProofs ----------------------------
(***************************************************************************)
(* What the files of a run promise, for every number of events and fields  *)
(* and every interleaving of the tick thread, the Tk thread, failing       *)
(* storage, kills and power losses.  The invariant is the conjunction of   *)
(* five parts, each about the variables one argument needs; every part is  *)
(* kept by every step on its own or with the parts before it.              *)
(***************************************************************************)
EXTENDS RunFiles, FiniteSetTheorems, SequenceTheorems, WellFoundedInduction,
        TLAPS

LineType == [seq : Nat, id : Nat, crops : SUBSET Fields,
             whole : BOOLEAN, ended : BOOLEAN]

EventType == [id : Nat, crops : SUBSET Fields, skips : Nat]

(* The session's two threads are over with the process. *)
ThreadsInv ==
  /\ state \in {"RECORDING", "PAUSED", "STOPPING", "FINALIZED", "dead",
                "recovered"}
  /\ phase \in Phases
  /\ ui \in {"none", "checkpoint", "read", "export", "manifest", "done",
             "failed"}
  /\ drained \in BOOLEAN
  /\ state \in {"dead", "recovered"} => phase = "none" /\ ui = "none"
  /\ ui \notin {"none", "done"} => state = "STOPPING"
  /\ state \in {"RECORDING", "PAUSED"} => ui = "none"
  /\ state = "FINALIZED" => ui = "done"
  /\ state \in {"STOPPING", "FINALIZED"} /\ drained => phase = "none"

(* Skipped ticks: the event being appended took its count from the counter,
   which has not gone down since; between the acknowledgement and the
   consumption the count is in both. *)
SkipsInv ==
  /\ ev.skips \in Nat
  /\ noted \in 0..MaxSkips /\ skipped \in 0..noted /\ told \in Nat
  /\ phase \in {"crops", "line", "sync", "checkpoint", "row"} =>
       ev.skips <= skipped
  /\ state \notin {"dead", "recovered"} =>
       told + skipped = IF phase \in {"checkpoint", "row"}
                        THEN noted + ev.skips ELSE noted

Backed(e, seq, field) ==
  <<seq, field>> \in DOMAIN crops /\ crops[<<seq, field>>] = e.id

(* The event being appended takes the place behind the acknowledged ones,
   and the crops it no longer has to write are in that place. *)
AppendInv ==
  /\ ev \in EventType /\ todo \subseteq ev.crops
  /\ acked \in Seq(LineType) /\ event_seq = Len(acked)
  /\ attempts \in 0..MaxAttempts /\ Len(acked) <= attempts
  /\ phase \in {"crops", "sync"} => Len(acked) < attempts
  /\ checkpoint \in 0..Len(acked)
  /\ phase = "sync" => todo = {}
  /\ phase \in {"crops", "sync"} =>
       \A field \in ev.crops \ todo : Backed(ev, event_seq + 1, field)
  /\ CropsBackEvents

(* A line in its place, or a piece of one at the end. *)
Sound(f, i) ==
  \/ f[i].whole /\ f[i].seq = i
  \/ i = Len(f) /\ ~f[i].whole /\ ~f[i].ended

(* The journal: acknowledged lines are synced and stay as they were; what is
   behind them is at most a line or two in their places, the last of them
   perhaps in part, unless a line was written behind a failed append. *)
JournalInv ==
  /\ file \in Seq(LineType)
  /\ synced \in 0..Len(file)
  /\ spoilt \in BOOLEAN
  /\ ~spoilt =>
       /\ Len(acked) <= synced
       /\ \A i \in 1..Len(file) : Sound(file, i)
       /\ \A i \in 1..Len(acked) :
            file[i] = acked[i] /\ acked[i].whole /\ acked[i].ended
       /\ phase = "sync" =>
            /\ Len(file) = Len(acked) + 1
            /\ file[Len(file)] = Line(ev, Len(file))

(* The exports are of what was read, and of a drained run that is all. *)
ExportsInv ==
  /\ ExportsAgree
  /\ ui = "manifest" => exported = events /\ official = OfficialOf(exported)
  /\ drained /\ ui \in {"export", "manifest"} => events = EventIds(file)
  /\ DrainedRunIsFinal

FilesInv == ThreadsInv /\ SkipsInv /\ AppendInv /\ JournalInv /\ ExportsInv
-----------------------------------------------------------------------------
(* The steps of the two threads and of the world around them, by name. *)

TickStep ==
  \/ BeginTick
  \/ \E pauses \in BOOLEAN : NothingToRetain(pauses) \/ EndEvent(pauses)
  \/ \E saved \in SUBSET Fields : BeginEvent(saved)
  \/ RefuseEvent
  \/ \E field \in Fields : WriteCrop(field)
  \/ FailCrop
  \/ AppendLine
  \/ \E ok \in BOOLEAN : SyncLine(ok)
  \/ Checkpoint
  \/ NoteSkippedTick

UserStep ==
  Pause \/ Resume \/ Stop \/ ForceCheckpoint \/ ReadJournal \/ WriteManifest

RebuiltInPart == \E done \in 0..4 : FailExports(done)
RecoveredInPart == \E done \in 1..4 : RecoverInPart(done)

(* Every step is one of the tick thread, which leaves the official exports,
   one of the Tk thread, a death of the process, or a recovery; some leave
   all that the arguments are about. *)
LEMMA StepKinds ==
  ASSUME [FilesNext]_filesVars
  PROVE  \/ TickStep /\ UNCHANGED official
         \/ UserStep /\ UNCHANGED official
         \/ FinalizeExports \/ RebuiltInPart \/ RebuildExports
         \/ RecoverRun \/ RecoveredInPart
         \/ (Kill \/ LosePower) /\ UNCHANGED official
         \/ UNCHANGED <<vars, official>>
<1>1. CASE UNCHANGED filesVars \/ WriteSession
  BY <1>1 DEF filesVars, files, WriteSession
<1>2. CASE JournalStep
  <2>1. UNCHANGED official
    BY <1>2 DEF JournalStep, files
  <2>2. TickStep \/ UserStep
    BY <1>2, Zenon DEF JournalStep, TickStep, UserStep
  <2> QED
    BY <2>1, <2>2
<1>3. ASSUME NEW done \in 0..5, NEW piece \in BOOLEAN, NEW pauses \in BOOLEAN,
             AppendLiveRow(done, piece, pauses)
      PROVE  TickStep /\ UNCHANGED official
  BY <1>3, Zenon DEF AppendLiveRow, TickStep
<1>4. CASE FinalizeExports \/ RebuildExports \/ RecoverRun
  BY <1>4
<1>5. CASE Crash
  BY <1>5 DEF Crash
<1>6. ASSUME NEW done \in 0..4,
             FailExports(done) \/ (done # 0 /\ RecoverInPart(done))
      PROVE  RebuiltInPart \/ RecoveredInPart
  <2>1. done # 0 => done \in 1..4
    OBVIOUS
  <2> QED
    BY <1>6, <2>1 DEF RebuiltInPart, RecoveredInPart
<1> QED
  BY <1>1, <1>2, <1>3, <1>4, <1>5, <1>6 DEF FilesNext
-----------------------------------------------------------------------------
(* The threads. *)

LEMMA ThreadsTick ==
  ASSUME ThreadsInv, TickStep
  PROVE  ThreadsInv'
<1> USE DEF ThreadsInv, Phases, final
<1>1. CASE BeginTick
  BY <1>1 DEF BeginTick, MayTick
<1>2. ASSUME NEW pauses \in BOOLEAN, NothingToRetain(pauses) \/ EndEvent(pauses)
      PROVE  ThreadsInv'
  BY <1>2 DEF NothingToRetain, EndEvent
<1>3. ASSUME NEW saved, BeginEvent(saved)
      PROVE  ThreadsInv'
  BY <1>3 DEF BeginEvent
<1>4. CASE RefuseEvent \/ FailCrop
  BY <1>4 DEF RefuseEvent, FailCrop, StorageFailure
<1>5. ASSUME NEW field, WriteCrop(field)
      PROVE  ThreadsInv'
  BY <1>5 DEF WriteCrop
<1>6. CASE AppendLine
  <2>1. /\ phase = "crops" /\ UNCHANGED final
        /\ \/ phase' = "sync" /\ UNCHANGED state
           \/ StorageFailure
    BY <1>6 DEF AppendLine
  <2> QED
    BY <2>1 DEF StorageFailure
<1>7. ASSUME NEW ok \in BOOLEAN, SyncLine(ok)
      PROVE  ThreadsInv'
  <2>1. /\ phase = "sync" /\ UNCHANGED final
        /\ \/ phase' = "checkpoint" /\ UNCHANGED state
           \/ StorageFailure
    BY <1>7 DEF SyncLine
  <2> QED
    BY <2>1 DEF StorageFailure
<1>8. CASE Checkpoint
  BY <1>8 DEF Checkpoint
<1>9. CASE NoteSkippedTick
  BY <1>9 DEF NoteSkippedTick, tick
<1> QED
  BY <1>1, <1>2, <1>3, <1>4, <1>5, <1>6, <1>7, <1>8, <1>9 DEF TickStep

LEMMA ThreadsStep ==
  ASSUME ThreadsInv, [FilesNext]_filesVars
  PROVE  ThreadsInv'
<1> USE DEF ThreadsInv
<1>1. CASE TickStep
  BY <1>1, ThreadsTick
<1>2. CASE Pause \/ Resume
  BY <1>2 DEF Pause, Resume, tick, final
<1>3. CASE Stop
  BY <1>3 DEF Stop, tick
<1>4. CASE ForceCheckpoint \/ ReadJournal
  BY <1>4 DEF ForceCheckpoint, ReadJournal, tick
<1>5. CASE WriteManifest
  BY <1>5 DEF WriteManifest, tick
<1>6. CASE FinalizeExports
  BY <1>6 DEF FinalizeExports, WriteExports, tick
<1>7. CASE RebuiltInPart
  BY <1>7 DEF RebuiltInPart, FailExports, tick
<1>8. CASE RebuildExports
  BY <1>8 DEF RebuildExports, tick
<1>9. CASE RecoverRun
  BY <1>9 DEF RecoverRun, Recover, tick
<1>10. CASE RecoveredInPart
  BY <1>10 DEF RecoveredInPart, RecoverInPart, tick
<1>11. CASE Kill \/ LosePower
  BY <1>11 DEF Kill, LosePower, Killed, Phases
<1>12. CASE UNCHANGED vars
  BY <1>12 DEF vars, tick, final
<1> QED
  BY <1>1, <1>2, <1>3, <1>4, <1>5, <1>6, <1>7, <1>8, <1>9, <1>10, <1>11, <1>12,
     StepKinds DEF UserStep
-----------------------------------------------------------------------------
(* Skipped ticks. *)

LEMMA SkipsTick ==
  ASSUME SkipsInv, ThreadsInv, TickStep
  PROVE  SkipsInv'
<1> USE DEF SkipsInv
<1> USE JournalAssumption
<1>1. CASE BeginTick
  BY <1>1 DEF BeginTick, MayTick, past
<1>2. ASSUME NEW pauses \in BOOLEAN, NothingToRetain(pauses)
      PROVE  SkipsInv'
  BY <1>2 DEF NothingToRetain, past, ThreadsInv
<1>3. ASSUME NEW pauses \in BOOLEAN, EndEvent(pauses)
      PROVE  SkipsInv'
  <2>1. /\ phase = "row" /\ phase' = "none"
        /\ state' \in {state, "PAUSED"}
        /\ UNCHANGED <<ev, noted, told>>
        /\ skipped' = Consumed(ev.skips)
    BY <1>3 DEF EndEvent, past
  <2>2. state \notin {"dead", "recovered"}
    BY <2>1 DEF ThreadsInv
  <2>3. told + skipped = noted + ev.skips
    BY <2>1, <2>2
  <2>4. skipped' = skipped - ev.skips /\ skipped' \in 0..noted
    BY <2>1 DEF Consumed
  <2>5. told' + skipped' = noted'
    BY <2>1, <2>3, <2>4
  <2> QED
    BY <2>1, <2>4, <2>5
<1>4. ASSUME NEW saved \in SUBSET Fields, BeginEvent(saved)
      PROVE  SkipsInv'
  <2>1. /\ phase = "capture" /\ phase' = "crops"
        /\ UNCHANGED <<state, skipped, noted, told>>
        /\ ev' = [id |-> attempts + 1, crops |-> saved, skips |-> skipped]
    BY <1>4 DEF BeginEvent
  <2>2. ev'.skips = skipped
    BY <2>1
  <2> QED
    BY <2>1, <2>2
<1>5. CASE RefuseEvent \/ FailCrop
  BY <1>5 DEF RefuseEvent, FailCrop, StorageFailure, past, ThreadsInv
<1>6. ASSUME NEW field, WriteCrop(field)
      PROVE  SkipsInv'
  BY <1>6 DEF WriteCrop, past
<1>7. CASE AppendLine
  <2>1. /\ phase = "crops" /\ UNCHANGED <<ev, skipped, noted, told>>
        /\ \/ phase' = "sync" /\ UNCHANGED state
           \/ StorageFailure
    BY <1>7 DEF AppendLine
  <2> QED
    BY <2>1 DEF StorageFailure, ThreadsInv
<1>8. ASSUME NEW ok \in BOOLEAN, SyncLine(ok)
      PROVE  SkipsInv'
  <2>1. /\ phase = "sync" /\ UNCHANGED <<ev, skipped, noted>>
        /\ \/ /\ told' = told + ev.skips
              /\ phase' = "checkpoint" /\ UNCHANGED state
           \/ StorageFailure /\ UNCHANGED told
    BY <1>8 DEF SyncLine
  <2> QED
    BY <2>1 DEF StorageFailure, ThreadsInv
<1>9. CASE Checkpoint
  BY <1>9 DEF Checkpoint, past
<1>10. CASE NoteSkippedTick
  BY <1>10 DEF NoteSkippedTick, tick, past
<1> QED
  BY <1>1, <1>2, <1>3, <1>4, <1>5, <1>6, <1>7, <1>8, <1>9, <1>10 DEF TickStep

LEMMA SkipsStep ==
  ASSUME SkipsInv, ThreadsInv, [FilesNext]_filesVars
  PROVE  SkipsInv'
<1> USE DEF SkipsInv
<1>1. CASE TickStep
  BY <1>1, SkipsTick
<1>2. CASE Pause \/ Resume
  BY <1>2 DEF Pause, Resume, tick, past
<1>3. CASE Stop \/ ForceCheckpoint \/ ReadJournal \/ WriteManifest
  BY <1>3 DEF Stop, ForceCheckpoint, ReadJournal, WriteManifest, tick, past,
              ThreadsInv
<1>4. CASE FinalizeExports \/ RebuildExports
  BY <1>4 DEF FinalizeExports, WriteExports, RebuildExports, tick, past
<1>5. CASE RebuiltInPart \/ RecoveredInPart
  BY <1>5 DEF RebuiltInPart, FailExports, RecoveredInPart, RecoverInPart, tick,
              past
<1>6. CASE RecoverRun
  BY <1>6 DEF RecoverRun, Recover, tick, past
<1>7. CASE Kill \/ LosePower
  BY <1>7 DEF Kill, LosePower, Killed, past
<1>8. CASE UNCHANGED vars
  BY <1>8 DEF vars, tick, past
<1> QED
  BY <1>1, <1>2, <1>3, <1>4, <1>5, <1>6, <1>7, <1>8, StepKinds DEF UserStep
-----------------------------------------------------------------------------
(* The event being appended, and its crops. *)

(* Steps that leave the event, the acknowledged ones and the crops alone,
   and at most end the tick. *)
LEMMA AppendKept ==
  ASSUME AppendInv,
         UNCHANGED <<ev, todo, event_seq, crops, attempts, acked>>,
         phase' = phase \/ phase' \notin {"crops", "sync"},
         checkpoint' \in {checkpoint, event_seq}
  PROVE  AppendInv'
<1>1. checkpoint' \in 0..Len(acked)
  BY DEF AppendInv
<1> QED
  BY <1>1 DEF AppendInv, Backed, CropsBackEvents

LEMMA AppendTick ==
  ASSUME AppendInv, ThreadsInv, SkipsInv, TickStep
  PROVE  AppendInv'
<1>1. CASE BeginTick
  BY <1>1, AppendKept DEF BeginTick, MayTick, past, disk
<1>2. ASSUME NEW pauses \in BOOLEAN, NothingToRetain(pauses) \/ EndEvent(pauses)
      PROVE  AppendInv'
  BY <1>2, AppendKept DEF NothingToRetain, EndEvent, past, disk
<1>3. ASSUME NEW saved \in SUBSET Fields, BeginEvent(saved)
      PROVE  AppendInv'
  <2>1. /\ attempts < MaxAttempts /\ attempts' = attempts + 1
        /\ ev' = [id |-> attempts + 1, crops |-> saved, skips |-> skipped]
        /\ todo' = saved /\ phase' = "crops"
        /\ UNCHANGED <<event_seq, crops, checkpoint, acked>>
    BY <1>3 DEF BeginEvent, disk
  <2>2. skipped \in Nat /\ attempts \in Nat
    BY DEF SkipsInv, AppendInv
  <2>3. ev' \in EventType /\ ev'.crops = saved
    BY <2>1, <2>2 DEF EventType
  <2>4. attempts' \in 0..MaxAttempts /\ Len(acked) < attempts'
    BY <2>1, JournalAssumption DEF AppendInv
  <2>5. Len(acked) \in Nat
    BY DEF AppendInv
  <2> QED
    BY <2>1, <2>3, <2>4, <2>5 DEF AppendInv, CropsBackEvents
<1>4. CASE RefuseEvent \/ FailCrop
  BY <1>4, AppendKept DEF RefuseEvent, FailCrop, StorageFailure, past, disk
<1>5. ASSUME NEW field \in Fields, WriteCrop(field)
      PROVE  AppendInv'
  <2> DEFINE here == <<event_seq + 1, field>>
  <2>1. /\ phase = "crops" /\ field \in todo
        /\ crops' = [place \in DOMAIN crops \cup {here} |->
                       IF place = here THEN ev.id ELSE crops[place]]
        /\ todo' = todo \ {field}
        /\ UNCHANGED <<phase, ev, event_seq, checkpoint, attempts, acked>>
    BY <1>5 DEF WriteCrop, past
  <2>2. acked \in Seq(LineType) /\ event_seq = Len(acked)
    BY DEF AppendInv
  <2>3. ASSUME NEW i \in 1..Len(acked), NEW other \in acked[i].crops
        PROVE  /\ <<i, other>> \in DOMAIN crops'
               /\ crops'[<<i, other>>] = acked[i].id
    <3>1. /\ <<i, other>> \in DOMAIN crops
          /\ crops[<<i, other>>] = acked[i].id
      BY DEF AppendInv, CropsBackEvents
    <3>2. i # event_seq + 1
      BY <2>2
    <3>3. <<i, other>> # here
      BY <3>2
    <3> HIDE DEF here
    <3> QED
      BY <2>1, <3>1, <3>3
  <2>4. ASSUME NEW other \in ev.crops \ todo'
        PROVE  Backed(ev, event_seq + 1, other)'
    <3>1. CASE other = field
      BY <2>1, <3>1 DEF Backed
    <3>2. CASE other # field
      <4>1. other \in ev.crops \ todo
        BY <2>1, <3>2
      <4>2. Backed(ev, event_seq + 1, other)
        BY <2>1, <4>1 DEF AppendInv
      <4>3. <<event_seq + 1, other>> # here
        BY <3>2
      <4> HIDE DEF here
      <4> QED
        BY <2>1, <4>2, <4>3 DEF Backed
    <3> QED
      BY <3>1, <3>2
  <2> HIDE DEF here
  <2> QED
    BY <2>1, <2>3, <2>4 DEF AppendInv, CropsBackEvents
<1>6. CASE AppendLine
  <2>1. /\ phase = "crops" /\ todo = {}
        /\ phase' = "sync" \/ phase' = "none"
        /\ UNCHANGED <<ev, todo, event_seq, crops, checkpoint, attempts, acked>>
    BY <1>6 DEF AppendLine, Ready, StorageFailure
  <2> QED
    BY <2>1 DEF AppendInv, Backed, CropsBackEvents
<1>7. CASE SyncLine(FALSE)
  <2>1. event_seq' = event_seq
    BY <1>7 DEF SyncLine, Advanced
  <2>2. /\ phase' = "none"
        /\ UNCHANGED <<ev, todo, crops, checkpoint, attempts, acked>>
    BY <1>7 DEF SyncLine, StorageFailure
  <2> QED
    BY <2>1, <2>2, AppendKept
<1>8. CASE SyncLine(TRUE)
  <2> DEFINE line == Line(ev, event_seq + 1)
  <2>1. event_seq' = event_seq + 1
    BY <1>8 DEF SyncLine, Advanced
  <2>2. /\ phase = "sync" /\ phase' = "checkpoint"
        /\ acked' = Append(acked, line)
        /\ UNCHANGED <<ev, todo, crops, checkpoint, attempts>>
    BY <1>8 DEF SyncLine
  <2>3. /\ acked \in Seq(LineType) /\ event_seq = Len(acked)
        /\ ev \in EventType /\ todo = {} /\ Len(acked) < attempts
        /\ checkpoint \in 0..Len(acked)
    BY <2>2 DEF AppendInv
  <2>4. /\ line \in LineType /\ line.id = ev.id /\ line.crops = ev.crops
    BY <2>3 DEF Line, LineType, EventType
  <2> HIDE DEF line
  <2>5. /\ acked' \in Seq(LineType) /\ Len(acked') = Len(acked) + 1
        /\ acked'[Len(acked) + 1] = line
        /\ \A i \in 1..Len(acked) : acked'[i] = acked[i]
    BY <2>2, <2>3, <2>4
  <2>6. ASSUME NEW i \in 1..Len(acked'), NEW field \in acked'[i].crops
        PROVE  /\ <<i, field>> \in DOMAIN crops
               /\ crops[<<i, field>>] = acked'[i].id
    <3>1. CASE i \in 1..Len(acked)
      BY <2>5, <3>1 DEF AppendInv, CropsBackEvents
    <3>2. CASE i = event_seq + 1
      <4>1. acked'[i] = line
        BY <2>3, <2>5, <3>2
      <4>2. Backed(ev, event_seq + 1, field)
        BY <2>2, <2>3, <2>4, <4>1 DEF AppendInv
      <4> QED
        BY <2>4, <3>2, <4>1, <4>2 DEF Backed
    <3> QED
      BY <2>3, <2>5, <3>1, <3>2
  <2>7. CropsBackEvents'
    BY <2>2, <2>6 DEF CropsBackEvents
  <2>8. attempts \in 0..MaxAttempts /\ todo \subseteq ev.crops
    BY DEF AppendInv
  <2>9. Len(acked) + 1 <= attempts /\ checkpoint \in 0..(Len(acked) + 1)
    BY <2>3, <2>8
  <2> QED
    BY <2>1, <2>2, <2>3, <2>5, <2>7, <2>8, <2>9 DEF AppendInv
<1>9. CASE Checkpoint
  BY <1>9, AppendKept DEF Checkpoint, CheckpointSeq, past
<1>10. CASE NoteSkippedTick
  BY <1>10, AppendKept DEF NoteSkippedTick, tick, past, disk
<1>11. ASSUME NEW ok \in BOOLEAN, SyncLine(ok)
       PROVE  AppendInv'
  BY <1>7, <1>8, <1>11
<1> QED
  BY <1>1, <1>2, <1>3, <1>4, <1>5, <1>6, <1>9, <1>10, <1>11 DEF TickStep

LEMMA AppendStep ==
  ASSUME AppendInv, ThreadsInv, SkipsInv, [FilesNext]_filesVars
  PROVE  AppendInv'
<1>1. CASE TickStep
  BY <1>1, AppendTick
<1>2. CASE Pause \/ Resume \/ Stop
  BY <1>2, AppendKept DEF Pause, Resume, Stop, tick, past, disk
<1>3. CASE ForceCheckpoint \/ ReadJournal \/ WriteManifest
  BY <1>3, AppendKept DEF ForceCheckpoint, CheckpointSeq, ReadJournal,
                          WriteManifest, tick, past, disk
<1>4. CASE FinalizeExports \/ RebuildExports
  BY <1>4, AppendKept DEF FinalizeExports, WriteExports, RebuildExports, tick,
                          past, disk
<1>5. CASE RebuiltInPart \/ RecoveredInPart
  BY <1>5, AppendKept DEF RebuiltInPart, FailExports, RecoveredInPart,
                          RecoverInPart, tick, past, disk
<1>6. CASE RecoverRun
  BY <1>6, AppendKept DEF RecoverRun, Recover, tick, past, disk
<1>7. CASE Kill \/ LosePower
  BY <1>7, AppendKept DEF Kill, LosePower, Killed, past
<1>8. CASE UNCHANGED vars
  BY <1>8, AppendKept DEF vars, tick, past, disk
<1> QED
  BY <1>1, <1>2, <1>3, <1>4, <1>5, <1>6, <1>7, <1>8, StepKinds DEF UserStep
-----------------------------------------------------------------------------
(* The journal. *)

(* A line stays a line when it is cut short. *)
LEMMA PiecesAreLines ==
  ASSUME NEW line \in LineType
  PROVE  /\ Torn(line) \in LineType /\ ~Torn(line).whole /\ ~Torn(line).ended
         /\ Unended(line) \in LineType /\ Unended(line).whole = line.whole
         /\ Unended(line).seq = line.seq
         /\ [line EXCEPT !.whole = FALSE] \in LineType
         /\ ~[line EXCEPT !.whole = FALSE].whole
         /\ [line EXCEPT !.whole = FALSE].ended = line.ended
  BY DEF LineType, Torn, Unended

(* A cut journal is one. *)
LEMMA CutLines ==
  ASSUME NEW f \in Seq(LineType), NEW m \in 0..Len(f),
         NEW g, g = SubSeq(f, 1, m)
  PROVE  g \in Seq(LineType) /\ Len(g) = m /\ \A i \in Nat : 1 <= i /\ i <= m => g[i] = f[i]
<1>1. m \in Nat /\ 1 \in Int /\ m \in Int
  OBVIOUS
<1>2. \A i \in 1..m : f[i] \in LineType
  OBVIOUS
<1>3. /\ g \in Seq(LineType)
      /\ Len(g) = IF 1 <= m THEN m - 1 + 1 ELSE 0
      /\ \A i \in 1..(m - 1 + 1) : g[i] = f[1 + i - 1]
  BY <1>1, <1>2, SubSeqProperties
<1> QED
  BY <1>1, <1>3

(* Behind a last line that is ended a line is appended; otherwise it joins
   that one, and what results is no event. *)
LEMMA WrittenLines ==
  ASSUME NEW f \in Seq(LineType), NEW line \in LineType,
         NEW g, g = Written(f, line)
  PROVE  g \in Seq(LineType) /\ Len(g) >= Len(f) /\ Len(g) > 0
<1>1. CASE f = <<>> \/ f[Len(f)].ended
  <2>1. g = Append(f, line)
    BY <1>1 DEF Written, Last
  <2> QED
    BY <2>1
<1>2. CASE f # <<>> /\ ~f[Len(f)].ended
  <2> DEFINE torn == [line EXCEPT !.whole = FALSE]
             front == SubSeq(f, 1, Len(f) - 1)
  <2>1. g = Append(front, torn)
    BY <1>2 DEF Written, Last, Front
  <2>2. Len(f) \in Nat /\ Len(f) > 0 /\ Len(f) - 1 \in 0..Len(f)
    BY <1>2
  <2>3. front \in Seq(LineType) /\ Len(front) = Len(f) - 1
    BY <2>2, CutLines
  <2>4. torn \in LineType
    BY PiecesAreLines
  <2> HIDE DEF torn, front
  <2> QED
    BY <2>1, <2>2, <2>3, <2>4
<1> QED
  BY <1>1, <1>2

(* Steps that leave the journal and what was acknowledged alone. *)
LEMMA JournalKept ==
  ASSUME JournalInv, UNCHANGED <<file, synced, spoilt, acked>>,
         phase' = "sync" => phase' = phase /\ UNCHANGED ev
  PROVE  JournalInv'
  BY DEF JournalInv, Sound

(* The line of an event is put behind the acknowledged ones, as a whole or in
   part. *)
LEMMA LineIsAppended ==
  ASSUME JournalInv, AppendInv, ~spoilt, Len(file) <= Len(acked),
         NEW line \in LineType,
         \/ line.whole /\ line.seq = event_seq + 1
         \/ ~line.whole /\ ~line.ended,
         file' = Written(file, line),
         UNCHANGED <<synced, acked>>
  PROVE  /\ Len(file') = Len(acked) + 1
         /\ file'[Len(file')] = line
         /\ Len(acked) <= synced /\ synced \in 0..Len(file')
         /\ \A i \in 1..Len(file') : Sound(file', i)
         /\ \A i \in 1..Len(acked) :
              file'[i] = acked[i] /\ acked[i].whole /\ acked[i].ended
<1>1. /\ file \in Seq(LineType) /\ acked \in Seq(LineType)
      /\ synced \in 0..Len(file) /\ Len(acked) <= synced
      /\ event_seq = Len(acked)
      /\ \A i \in 1..Len(file) : Sound(file, i)
      /\ \A i \in 1..Len(acked) :
           file[i] = acked[i] /\ acked[i].whole /\ acked[i].ended
  BY DEF JournalInv, AppendInv
<1>2. Len(file) = Len(acked)
  BY <1>1
<1>3. file = <<>> \/ file[Len(file)].ended
  BY <1>1, <1>2
<1>4. /\ Len(file') = Len(file) + 1 /\ file'[Len(file')] = line
      /\ \A i \in 1..Len(file) : file'[i] = file[i]
  <2>1. file' = Append(file, line)
    BY <1>3 DEF Written, Last
  <2> QED
    BY <1>1, <2>1
<1>5. ASSUME NEW i \in 1..Len(file)
      PROVE  file'[i].whole /\ file'[i].seq = i
  BY <1>1, <1>2, <1>4 DEF Sound
<1>6. \A i \in 1..Len(file') : Sound(file', i)
  BY <1>1, <1>2, <1>4, <1>5 DEF Sound
<1> QED
  BY <1>1, <1>2, <1>4, <1>6

LEMMA JournalAppend ==
  ASSUME JournalInv, AppendInv, AppendLine
  PROVE  JournalInv'
<1> DEFINE line == Line(ev, event_seq + 1)
<1>1. /\ file \in Seq(LineType) /\ acked \in Seq(LineType)
      /\ synced \in 0..Len(file) /\ spoilt \in BOOLEAN
      /\ event_seq = Len(acked) /\ ev \in EventType
  BY DEF JournalInv, AppendInv
<1>2. line \in LineType /\ line.whole /\ line.seq = event_seq + 1
  BY <1>1 DEF Line, LineType, EventType
<1>3. UNCHANGED <<synced, acked, ev, event_seq>>
  BY DEF AppendLine
<1>4. CASE UNCHANGED <<file, spoilt>> /\ phase' # "sync"
  BY <1>3, <1>4, JournalKept
<1>5. ASSUME NEW part \in {line, Unended(line), Torn(line)},
             file' = Written(file, part),
             spoilt' = (spoilt \/ Len(file) > Len(acked)),
             phase' = "sync" => part = line
      PROVE  JournalInv'
  <2>1. /\ part \in LineType
        /\ \/ part.whole /\ part.seq = event_seq + 1
           \/ ~part.whole /\ ~part.ended
    <3> HIDE DEF line
    <3>1. CASE part = line
      BY <1>2, <3>1
    <3>2. CASE part = Unended(line)
      BY <1>2, <3>2, PiecesAreLines
    <3>3. CASE part = Torn(line)
      BY <1>2, <3>3, PiecesAreLines
    <3> QED
      BY <1>5, <3>1, <3>2, <3>3
  <2> HIDE DEF line
  <2>2. file' \in Seq(LineType) /\ Len(file') >= Len(file)
    BY <1>1, <1>5, <2>1, WrittenLines
  <2>3. spoilt' \in BOOLEAN /\ synced' \in 0..Len(file')
    BY <1>1, <1>3, <1>5, <2>2
  <2>4. CASE spoilt'
    BY <2>2, <2>3, <2>4 DEF JournalInv
  <2>5. CASE ~spoilt'
    <3>1. ~spoilt /\ ~(Len(file) > Len(acked))
      BY <1>5, <2>5
    <3>2. Len(file) <= Len(acked)
      BY <1>1, <3>1
    <3>3. /\ Len(file') = Len(acked) + 1
          /\ file'[Len(file')] = part
          /\ Len(acked) <= synced
          /\ \A i \in 1..Len(file') : Sound(file', i)
          /\ \A i \in 1..Len(acked) :
               file'[i] = acked[i] /\ acked[i].whole /\ acked[i].ended
      BY <1>3, <1>5, <2>1, <3>1, <3>2, LineIsAppended
    <3>4. phase' = "sync" => file'[Len(file')] = Line(ev', Len(file'))
      BY <1>1, <1>3, <1>5, <3>3 DEF line
    <3> QED
      BY <1>3, <2>2, <2>3, <3>3, <3>4 DEF JournalInv, Sound
  <2> QED
    BY <2>4, <2>5
<1>6. \/ UNCHANGED <<file, spoilt>> /\ phase' # "sync"
      \/ \E part \in {line, Unended(line), Torn(line)} :
           /\ file' = Written(file, part)
           /\ spoilt' = (spoilt \/ Len(file) > Len(acked))
           /\ phase' = "sync" => part = line
  <2> HIDE DEF line
  <2>1. \/ /\ file' = Written(file, line)
           /\ spoilt' = (spoilt \/ Len(file) > Len(acked))
        \/ /\ UNCHANGED <<file, spoilt>> /\ phase' = "none"
        \/ /\ \E part \in {line, Unended(line), Torn(line)} :
                /\ file' = Written(file, part)
                /\ spoilt' = (spoilt \/ Len(file) > Len(acked))
           /\ phase' = "none"
    BY DEF AppendLine, StorageFailure, line
  <2> QED
    BY <2>1
<1> QED
  BY <1>4, <1>5, <1>6

LEMMA JournalSync ==
  ASSUME JournalInv, AppendInv, NEW ok \in BOOLEAN, SyncLine(ok)
  PROVE  JournalInv'
<1>1. /\ file \in Seq(LineType) /\ acked \in Seq(LineType)
      /\ synced \in 0..Len(file) /\ spoilt \in BOOLEAN
      /\ event_seq = Len(acked) /\ ev \in EventType
  BY DEF JournalInv, AppendInv
<1>2. phase = "sync" /\ UNCHANGED <<file, spoilt, ev>>
  BY DEF SyncLine
<1>3. CASE ok
  <2> DEFINE line == Line(ev, event_seq + 1)
  <2>1. /\ synced' = Len(file) /\ acked' = Append(acked, line)
        /\ phase' = "checkpoint"
    BY <1>3 DEF SyncLine
  <2>2. line \in LineType /\ line.whole /\ line.ended
    BY <1>1 DEF Line, LineType, EventType
  <2>3. /\ Len(acked') = Len(acked) + 1 /\ acked'[Len(acked) + 1] = line
        /\ \A i \in 1..Len(acked) : acked'[i] = acked[i]
    <3> HIDE DEF line
    <3> QED
      BY <1>1, <2>1, <2>2
  <2>4. CASE ~spoilt
    <3>1. /\ Len(file) = Len(acked) + 1 /\ file[Len(file)] = line
      BY <1>1, <1>2, <2>4 DEF JournalInv
    <3> HIDE DEF line
    <3>2. \A i \in 1..Len(acked') :
            file[i] = acked'[i] /\ acked'[i].whole /\ acked'[i].ended
      BY <1>1, <2>2, <2>3, <2>4, <3>1 DEF JournalInv
    <3> QED
      BY <1>1, <1>2, <2>1, <2>3, <2>4, <3>1, <3>2 DEF JournalInv, Sound
  <2>5. CASE spoilt
    BY <1>1, <1>2, <2>1, <2>5 DEF JournalInv
  <2> QED
    BY <2>4, <2>5
<1>4. CASE ~ok
  BY <1>2, <1>4, JournalKept DEF SyncLine, StorageFailure
<1> QED
  BY <1>3, <1>4

(* What a journal must be to keep the invariant once the process is gone. *)
LEMMA JournalLeft ==
  ASSUME JournalInv, UNCHANGED <<acked, spoilt>>, phase' = "none",
         file' \in Seq(LineType), synced' \in 0..Len(file'),
         ~spoilt =>
           /\ Len(acked) <= synced'
           /\ \A i \in 1..Len(file') : Sound(file', i)
           /\ \A i \in 1..Len(acked) : file'[i] = file[i]
  PROVE  JournalInv'
<1>1. spoilt \in BOOLEAN
  BY DEF JournalInv
<1>2. CASE spoilt
  BY <1>1, <1>2 DEF JournalInv
<1>3. CASE ~spoilt
  <2>1. \A i \in 1..Len(acked) :
          file'[i] = acked[i] /\ acked[i].whole /\ acked[i].ended
    BY <1>3 DEF JournalInv
  <2> QED
    BY <1>3, <2>1 DEF JournalInv, Sound
<1> QED
  BY <1>2, <1>3

(* The process ends in the middle of writing a line: a piece of it is there,
   on its own or joined to the piece a failed append had left. *)
LEMMA JournalKillWriting ==
  ASSUME JournalInv, AppendInv, Killed(file'), UNCHANGED synced,
         file' = Written(file, Torn(Line(ev, event_seq + 1)))
  PROVE  JournalInv'
<1> DEFINE line == Torn(Line(ev, event_seq + 1))
<1>1. /\ file \in Seq(LineType) /\ acked \in Seq(LineType)
      /\ synced \in 0..Len(file) /\ spoilt \in BOOLEAN
      /\ event_seq = Len(acked) /\ ev \in EventType
  BY DEF JournalInv, AppendInv
<1>2. line \in LineType /\ ~line.whole /\ ~line.ended
  <2>1. Line(ev, event_seq + 1) \in LineType
    BY <1>1 DEF Line, LineType, EventType
  <2> QED
    BY <2>1, PiecesAreLines
<1>3. UNCHANGED <<acked, spoilt>> /\ phase' = "none"
  BY DEF Killed, past
<1>4. file' = Written(file, line)
  OBVIOUS
<1> HIDE DEF line
<1>5. file' \in Seq(LineType) /\ synced' \in 0..Len(file')
  BY <1>1, <1>2, <1>4, WrittenLines
<1>6. ASSUME ~spoilt
      PROVE  /\ Len(acked) <= synced
             /\ \A i \in 1..Len(file') : Sound(file', i)
             /\ \A i \in 1..Len(acked) : file'[i] = file[i]
  <2>1. /\ Len(acked) <= synced
        /\ \A i \in 1..Len(file) : Sound(file, i)
        /\ \A i \in 1..Len(acked) :
             file[i] = acked[i] /\ acked[i].whole /\ acked[i].ended
    BY <1>6 DEF JournalInv
  <2>2. CASE file = <<>> \/ file[Len(file)].ended
    <3>1. file' = Append(file, line)
      BY <1>4, <2>2 DEF Written, Last
    <3>2. /\ Len(file') = Len(file) + 1 /\ file'[Len(file')] = line
          /\ \A i \in 1..Len(file) : file'[i] = file[i]
      BY <1>1, <1>2, <3>1
    <3>3. ASSUME NEW i \in 1..Len(file)
          PROVE  file[i].whole /\ file[i].seq = i
      BY <1>1, <2>1, <2>2 DEF Sound
    <3> QED
      BY <1>1, <1>2, <2>1, <3>2, <3>3 DEF Sound
  <2>3. CASE file # <<>> /\ ~file[Len(file)].ended
    <3> DEFINE torn == [line EXCEPT !.whole = FALSE]
               front == SubSeq(file, 1, Len(file) - 1)
    <3>1. file' = Append(front, torn)
      BY <1>4, <2>3 DEF Written, Last, Front
    <3>2. Len(file) \in Nat /\ Len(file) > 0 /\ Len(file) - 1 \in 0..Len(file)
      BY <1>1, <2>3
    <3>3. /\ front \in Seq(LineType) /\ Len(front) = Len(file) - 1
          /\ \A i \in Nat : 1 <= i /\ i <= Len(file) - 1 => front[i] = file[i]
      BY <1>1, <3>2, CutLines
    <3>4. torn \in LineType /\ ~torn.whole /\ ~torn.ended
      BY <1>2, PiecesAreLines
    <3> HIDE DEF torn, front
    <3>5. /\ Len(file') = Len(file) /\ file'[Len(file)] = torn
          /\ \A i \in 1..(Len(file) - 1) : file'[i] = file[i]
      BY <3>1, <3>2, <3>3, <3>4
    <3>6. Len(acked) <= Len(file) - 1
      BY <1>1, <2>1, <2>3, <3>2
    <3>7. ASSUME NEW i \in 1..(Len(file) - 1)
          PROVE  file[i].whole /\ file[i].seq = i
      BY <1>1, <2>1, <3>2 DEF Sound
    <3> QED
      BY <1>1, <2>1, <3>2, <3>4, <3>5, <3>6, <3>7 DEF Sound
  <2> QED
    BY <2>1, <2>2, <2>3
<1> QED
  BY <1>3, <1>5, <1>6, JournalLeft

(* The power is lost: what was synced is there, and of the rest a beginning. *)
LEMMA JournalLosePower ==
  ASSUME JournalInv, AppendInv, LosePower
  PROVE  JournalInv'
<1>1. PICK n \in synced..Len(file) :
        /\ \/ file' = SubSeq(file, 1, n)
           \/ n < Len(file) /\ file' = Append(SubSeq(file, 1, n), Torn(file[n + 1]))
        /\ synced' = n
  BY DEF LosePower, Killed
<1>2. UNCHANGED <<acked, spoilt>> /\ phase' = "none"
  BY DEF LosePower, Killed, past
<1>3. /\ file \in Seq(LineType) /\ acked \in Seq(LineType)
      /\ synced \in 0..Len(file)
  BY DEF JournalInv, AppendInv
<1>4. n \in 0..Len(file) /\ n \in Nat
  BY <1>3
<1> DEFINE cut == SubSeq(file, 1, n)
<1>5. /\ cut \in Seq(LineType) /\ Len(cut) = n
      /\ \A i \in Nat : 1 <= i /\ i <= n => cut[i] = file[i]
  BY <1>3, <1>4, CutLines
<1>6. \/ file' = cut
      \/ n < Len(file) /\ file' = Append(cut, Torn(file[n + 1]))
  BY <1>1
<1> HIDE DEF cut
<1>7. ASSUME ~spoilt
      PROVE  /\ Len(acked) <= n
             /\ \A i \in 1..Len(file) : Sound(file, i)
  BY <1>1, <1>3, <1>7 DEF JournalInv
<1>8. CASE file' = cut
  <2>1. \A i \in 1..n : file'[i] = file[i]
    BY <1>4, <1>5, <1>8
  <2>2. file' \in Seq(LineType) /\ Len(file') = n
    BY <1>5, <1>8
  <2>3. ASSUME ~spoilt
        PROVE  /\ Len(acked) <= n
               /\ \A i \in 1..Len(file') : Sound(file', i)
               /\ \A i \in 1..Len(acked) : file'[i] = file[i]
    <3>1. Len(acked) \in Nat /\ Len(acked) <= n
      BY <1>3, <1>7, <2>3
    <3>2. ASSUME NEW i \in 1..n PROVE Sound(file', i)
      <4>1. Sound(file, i)
        BY <1>3, <1>4, <1>7, <2>3
      <4> QED
        BY <1>3, <1>4, <2>1, <2>2, <4>1 DEF Sound
    <3> QED
      BY <1>4, <2>1, <2>2, <3>1, <3>2
  <2> QED
    BY <1>1, <1>2, <1>4, <2>2, <2>3, JournalLeft
<1>9. CASE n < Len(file) /\ file' = Append(cut, Torn(file[n + 1]))
  <2> DEFINE torn == Torn(file[n + 1])
  <2>1. torn \in LineType /\ ~torn.whole /\ ~torn.ended
    <3>1. file[n + 1] \in LineType
      BY <1>3, <1>4, <1>9
    <3> QED
      BY <3>1, PiecesAreLines
  <2>2. file' = Append(cut, torn)
    BY <1>9
  <2> HIDE DEF torn
  <2>3. /\ file' \in Seq(LineType) /\ Len(file') = n + 1
        /\ file'[n + 1] = torn
        /\ \A i \in 1..n : file'[i] = file[i]
    BY <1>4, <1>5, <2>1, <2>2
  <2>4. ASSUME ~spoilt
        PROVE  /\ Len(acked) <= n
               /\ \A i \in 1..Len(file') : Sound(file', i)
               /\ \A i \in 1..Len(acked) : file'[i] = file[i]
    <3>1. Len(acked) \in Nat /\ Len(acked) <= n
      BY <1>3, <1>7, <2>4
    <3>2. ASSUME NEW i \in 1..n PROVE Sound(file', i)
      <4>1. Sound(file, i) /\ i # Len(file)
        BY <1>3, <1>4, <1>7, <1>9, <2>4
      <4> QED
        BY <2>3, <4>1 DEF Sound
    <3>3. Sound(file', n + 1)
      BY <1>4, <2>1, <2>3 DEF Sound
    <3> QED
      BY <1>4, <2>3, <3>1, <3>2, <3>3
  <2>5. n \in 0..Len(file')
    BY <1>4, <2>3
  <2> QED
    BY <1>1, <1>2, <2>3, <2>4, <2>5, JournalLeft
<1> QED
  BY <1>6, <1>8, <1>9

LEMMA JournalStepKeeps ==
  ASSUME JournalInv, AppendInv, [FilesNext]_filesVars
  PROVE  JournalInv'
<1>1. CASE BeginTick
  BY <1>1, JournalKept DEF BeginTick, MayTick, past, disk
<1>2. ASSUME NEW pauses \in BOOLEAN, NothingToRetain(pauses) \/ EndEvent(pauses)
      PROVE  JournalInv'
  BY <1>2, JournalKept DEF NothingToRetain, EndEvent, past, disk
<1>3. ASSUME NEW saved \in SUBSET Fields, BeginEvent(saved)
      PROVE  JournalInv'
  BY <1>3, JournalKept DEF BeginEvent, disk
<1>4. CASE RefuseEvent \/ FailCrop
  BY <1>4, JournalKept DEF RefuseEvent, FailCrop, StorageFailure, past, disk
<1>5. ASSUME NEW field \in Fields, WriteCrop(field)
      PROVE  JournalInv'
  BY <1>5, JournalKept DEF WriteCrop, past
<1>6. CASE AppendLine
  BY <1>6, JournalAppend
<1>7. ASSUME NEW ok \in BOOLEAN, SyncLine(ok)
      PROVE  JournalInv'
  BY <1>7, JournalSync
<1>8. CASE Checkpoint
  BY <1>8, JournalKept DEF Checkpoint, past
<1>9. CASE NoteSkippedTick
  BY <1>9, JournalKept DEF NoteSkippedTick, tick, past, disk
<1>10. CASE Pause \/ Resume \/ Stop
  BY <1>10, JournalKept DEF Pause, Resume, Stop, tick, past, disk
<1>11. CASE ForceCheckpoint \/ ReadJournal \/ WriteManifest
  BY <1>11, JournalKept DEF ForceCheckpoint, ReadJournal, WriteManifest, tick,
                            past, disk
<1>12. CASE FinalizeExports \/ RebuildExports
  BY <1>12, JournalKept DEF FinalizeExports, WriteExports, RebuildExports, tick,
                            past, disk
<1>13. CASE RebuiltInPart \/ RecoveredInPart
  BY <1>13, JournalKept DEF RebuiltInPart, FailExports, RecoveredInPart,
                            RecoverInPart, tick, past, disk
<1>14. CASE RecoverRun
  BY <1>14, JournalKept DEF RecoverRun, Recover, tick, past, disk
<1>15. CASE Kill
  <2>1. CASE Killed(file)
    BY <1>15, <2>1, JournalKept DEF Kill, Killed, past
  <2>2. CASE Killed(Written(file, Torn(Line(ev, event_seq + 1))))
    <3>1. file' = Written(file, Torn(Line(ev, event_seq + 1)))
      BY <2>2 DEF Killed
    <3>2. Killed(file') /\ UNCHANGED synced
      BY <1>15, <2>2, <3>1 DEF Kill
    <3> QED
      BY <3>1, <3>2, JournalKillWriting
  <2> QED
    BY <1>15, <2>1, <2>2 DEF Kill
<1>16. CASE LosePower
  BY <1>16, JournalLosePower
<1>17. CASE UNCHANGED vars
  BY <1>17, JournalKept DEF vars, tick, past, disk
<1> QED
  BY <1>1, <1>2, <1>3, <1>4, <1>5, <1>6, <1>7, <1>8, <1>9, <1>10, <1>11, <1>12,
     <1>13, <1>14, <1>15, <1>16, <1>17, StepKinds DEF TickStep, UserStep
-----------------------------------------------------------------------------
(* The exports. *)

(* All official exports replaced are those of one reading. *)
LEMMA ReplacedAll ==
  ASSUME NEW ids
  PROVE  Replaced(ids, 4) = OfficialOf(ids)
  BY DEF Replaced, OfficialOf

(* Steps of the tick thread: when the run was drained there are none. *)
LEMMA ExportsKept ==
  ASSUME ExportsInv, ThreadsInv, UNCHANGED <<final, official>>,
         state' \in {state, "PAUSED"},
         file' = file \/ phase # "none"
  PROVE  ExportsInv'
<1>1. UNCHANGED <<ui, events, exported, manifest, drained, official>>
  BY DEF final
<1>2. drained /\ (ui \in {"export", "manifest"} \/ state = "FINALIZED")
        => file' = file
  BY DEF ThreadsInv
<1>3. ExportsAgree'
  BY <1>1 DEF ExportsInv, ExportsAgree, OfficialOf
<1>4. ui' = "manifest" => exported' = events' /\ official' = OfficialOf(exported)'
  BY <1>1 DEF ExportsInv, OfficialOf
<1>5. drained' /\ ui' \in {"export", "manifest"} => events' = EventIds(file)'
  BY <1>1, <1>2 DEF ExportsInv, EventIds, Complete
<1>6. DrainedRunIsFinal'
  BY <1>1, <1>2 DEF ExportsInv, DrainedRunIsFinal, EventIds, Complete
<1> QED
  BY <1>3, <1>4, <1>5, <1>6 DEF ExportsInv

LEMMA ExportsTick ==
  ASSUME ExportsInv, ThreadsInv, TickStep, UNCHANGED official
  PROVE  ExportsInv'
<1>1. CASE BeginTick
  BY <1>1, ExportsKept DEF BeginTick, MayTick, disk
<1>2. ASSUME NEW pauses \in BOOLEAN, NothingToRetain(pauses) \/ EndEvent(pauses)
      PROVE  ExportsInv'
  BY <1>2, ExportsKept DEF NothingToRetain, EndEvent, disk
<1>3. ASSUME NEW saved \in SUBSET Fields, BeginEvent(saved)
      PROVE  ExportsInv'
  BY <1>3, ExportsKept DEF BeginEvent, disk
<1>4. CASE RefuseEvent \/ FailCrop
  BY <1>4, ExportsKept DEF RefuseEvent, FailCrop, StorageFailure, disk
<1>5. ASSUME NEW field \in Fields, WriteCrop(field)
      PROVE  ExportsInv'
  BY <1>5, ExportsKept DEF WriteCrop
<1>6. CASE AppendLine
  BY <1>6, ExportsKept DEF AppendLine, StorageFailure
<1>7. ASSUME NEW ok \in BOOLEAN, SyncLine(ok)
      PROVE  ExportsInv'
  BY <1>7, ExportsKept DEF SyncLine, StorageFailure
<1>8. CASE Checkpoint
  BY <1>8, ExportsKept DEF Checkpoint
<1>9. CASE NoteSkippedTick
  BY <1>9, ExportsKept DEF NoteSkippedTick, disk
<1> QED
  BY <1>1, <1>2, <1>3, <1>4, <1>5, <1>6, <1>7, <1>8, <1>9 DEF TickStep

LEMMA ExportsStep ==
  ASSUME ExportsInv, ThreadsInv, [FilesNext]_filesVars
  PROVE  ExportsInv'
<1>1. CASE TickStep /\ UNCHANGED official
  BY <1>1, ExportsTick
<1>2. CASE Pause /\ UNCHANGED official
  BY <1>2, ExportsKept DEF Pause, disk
<1>3. CASE (Resume \/ Stop) /\ UNCHANGED official
  <2>1. /\ state \in {"RECORDING", "PAUSED"}
        /\ state' \in {"RECORDING", "STOPPING"}
        /\ ui' \in {"none", "checkpoint"}
    BY <1>3 DEF Resume, Stop, ThreadsInv, final
  <2> QED
    BY <2>1 DEF ExportsInv, ExportsAgree, DrainedRunIsFinal
<1>4. CASE ForceCheckpoint
  BY <1>4 DEF ForceCheckpoint, ExportsInv, ExportsAgree, DrainedRunIsFinal,
              ThreadsInv
<1>5. CASE ReadJournal
  BY <1>5 DEF ReadJournal, disk, ExportsInv, ExportsAgree, DrainedRunIsFinal,
              ThreadsInv, EventIds, Complete
<1>6. CASE WriteManifest /\ UNCHANGED official
  <2>1. /\ ui = "manifest" /\ ui' = "done" /\ manifest' = file
        /\ UNCHANGED <<events, exported, drained, file, official>>
    BY <1>6 DEF WriteManifest, disk
  <2>2. official' = OfficialOf(exported)'
    BY <1>6, <2>1 DEF ExportsInv, OfficialOf
  <2>3. drained' => exported' = EventIds(file)'
    BY <2>1 DEF ExportsInv, EventIds, Complete
  <2> QED
    BY <2>1, <2>2, <2>3 DEF ExportsInv, ExportsAgree, DrainedRunIsFinal
<1>7. CASE FinalizeExports
  <2>1. /\ ui = "export" /\ ui' = "manifest" /\ exported' = events
        /\ official' = Replaced(events, 4)
        /\ UNCHANGED <<state, events, drained, file>>
    BY <1>7 DEF FinalizeExports, WriteExports, disk
  <2>2. official' = OfficialOf(exported)'
    BY <2>1, ReplacedAll DEF OfficialOf
  <2>3. drained' => events' = EventIds(file)'
    BY <2>1 DEF ExportsInv, EventIds, Complete
  <2> QED
    BY <2>1, <2>2, <2>3 DEF ExportsInv, ExportsAgree, DrainedRunIsFinal,
                            ThreadsInv
<1>8. CASE RebuiltInPart
  <2>1. ui = "export" /\ ui' = "failed" /\ state' = state
    BY <1>8 DEF RebuiltInPart, FailExports
  <2> QED
    BY <2>1 DEF ExportsInv, ExportsAgree, DrainedRunIsFinal, ThreadsInv
<1>9. CASE RebuildExports
  <2>1. /\ ui = "failed" /\ ui' = "done" /\ exported' = EventIds(file)
        /\ official' = Replaced(EventIds(file), 4) /\ state' = state
    BY <1>9 DEF RebuildExports
  <2>2. official' = OfficialOf(exported)'
    BY <2>1, ReplacedAll DEF OfficialOf
  <2> QED
    BY <2>1, <2>2 DEF ExportsInv, ExportsAgree, DrainedRunIsFinal, ThreadsInv
<1>10. CASE RecoverRun
  <2>1. /\ state = "dead" /\ state' = "recovered" /\ ui' = ui
        /\ exported' = EventIds(file)
        /\ official' = Replaced(EventIds(file), 4)
    BY <1>10 DEF RecoverRun, Recover
  <2>2. official' = OfficialOf(exported)'
    BY <2>1, ReplacedAll DEF OfficialOf
  <2> QED
    BY <2>1, <2>2 DEF ExportsInv, ExportsAgree, DrainedRunIsFinal, ThreadsInv
<1>11. CASE RecoveredInPart
  <2>1. state = "dead" /\ state' = state /\ ui' = ui
    BY <1>11 DEF RecoveredInPart, RecoverInPart
  <2> QED
    BY <2>1 DEF ExportsInv, ExportsAgree, DrainedRunIsFinal, ThreadsInv
<1>12. CASE Kill \/ LosePower
  <2>1. state' = "dead" /\ ui' = "none"
    BY <1>12 DEF Kill, LosePower, Killed
  <2> QED
    BY <2>1 DEF ExportsInv, ExportsAgree, DrainedRunIsFinal
<1>13. CASE UNCHANGED <<vars, official>>
  BY <1>13, ExportsKept DEF vars, disk
<1> QED
  BY <1>1, <1>2, <1>3, <1>4, <1>5, <1>6, <1>7, <1>8, <1>9, <1>10, <1>11, <1>12,
     <1>13, StepKinds DEF UserStep
-----------------------------------------------------------------------------
(* The whole invariant. *)

LEMMA FilesInitInv == FilesInit => FilesInv
<1> SUFFICES ASSUME FilesInit PROVE FilesInv
  OBVIOUS
<1>1. /\ state = "RECORDING" /\ phase = "none" /\ ev = NoEvent /\ todo = {}
      /\ event_seq = 0 /\ skipped = 0 /\ ui = "none" /\ file = <<>>
      /\ synced = 0 /\ checkpoint = 0 /\ attempts = 0 /\ acked = <<>>
      /\ noted = 0 /\ told = 0 /\ drained = FALSE /\ spoilt = FALSE
  BY DEF FilesInit, Init
<1>2. drained \in BOOLEAN /\ spoilt \in BOOLEAN
  BY <1>1
<1>3. ThreadsInv
  BY <1>1, <1>2 DEF ThreadsInv, Phases
<1>4. SkipsInv
  BY <1>1, JournalAssumption DEF SkipsInv, NoEvent
<1>5. AppendInv
  BY <1>1, JournalAssumption DEF AppendInv, NoEvent, EventType, CropsBackEvents
<1>6. JournalInv
  BY <1>1, <1>2 DEF JournalInv
<1>7. ExportsInv
  BY <1>1 DEF ExportsInv, ExportsAgree, DrainedRunIsFinal
<1> QED
  BY <1>3, <1>4, <1>5, <1>6, <1>7 DEF FilesInv

LEMMA FilesStep == FilesInv /\ [FilesNext]_filesVars => FilesInv'
  BY ThreadsStep, SkipsStep, AppendStep, JournalStepKeeps, ExportsStep
  DEF FilesInv

(* The invariant holds in every reachable state. *)
THEOREM FilesInvariance == FilesSpec => []FilesInv
  BY FilesInitInv, FilesStep, PTL DEF FilesSpec

(* The types of the journal and its threads. *)
THEOREM FilesTypeCorrect == FilesSpec => []TypeOK
<1>1. FilesInv => TypeOK
  <2> SUFFICES ASSUME FilesInv PROVE TypeOK
    OBVIOUS
  <2>1. /\ ThreadsInv /\ SkipsInv /\ AppendInv /\ JournalInv
    BY DEF FilesInv
  <2>2. skipped \in 0..MaxSkips
    BY <2>1, JournalAssumption DEF SkipsInv
  <2>3. checkpoint \in 0..MaxAttempts
    BY <2>1, JournalAssumption DEF AppendInv
  <2> QED
    BY <2>1, <2>2, <2>3 DEF TypeOK, ThreadsInv, AppendInv, JournalInv, EventType
<1> QED
  BY <1>1, FilesInvariance, PTL

(* Every skipped tick is reported by exactly one acknowledged event or is
   still to be reported. *)
THEOREM SkipsAreConserved == FilesSpec => []SkipsConserved
<1>1. FilesInv => SkipsConserved
  BY DEF FilesInv, SkipsInv, SkipsConserved
<1> QED
  BY <1>1, FilesInvariance, PTL

(* No acknowledged event claims a crop that is missing or another event's. *)
THEOREM CropsAreThere == FilesSpec => []CropsBackEvents
<1>1. FilesInv => CropsBackEvents
  BY DEF FilesInv, AppendInv
<1> QED
  BY <1>1, FilesInvariance, PTL

(* A run stopped with no tick in flight stays what its manifest hashed. *)
THEOREM DrainedRunsAreFinal == FilesSpec => []DrainedRunIsFinal
<1>1. FilesInv => DrainedRunIsFinal
  BY DEF FilesInv, ExportsInv
<1> QED
  BY <1>1, FilesInvariance, PTL

(* Finalized, rebuilt and recovered exports are of one reading. *)
THEOREM ExportsAlwaysAgree == FilesSpec => []ExportsAgree
<1>1. FilesInv => ExportsAgree
  BY DEF FilesInv, ExportsInv
<1> QED
  BY <1>1, FilesInvariance, PTL

(* The ids of a sequence of lines. *)
LEMMA IdsOfLines ==
  ASSUME NEW lines \in Seq(LineType),
         NEW ids, ids = [i \in 1..Len(lines) |-> lines[i].id]
  PROVE  /\ ids \in Seq(Nat) /\ Len(ids) = Len(lines)
         /\ \A i \in 1..Len(lines) : ids[i] = lines[i].id
<1> DEFINE n == Len(lines)
<1>1. n \in Nat
  OBVIOUS
<1>2. ASSUME NEW i \in 1..n PROVE lines[i].id \in Nat
  <2>1. lines[i] \in LineType
    OBVIOUS
  <2> QED
    BY <2>1 DEF LineType
<1>3. ids = [i \in 1..n |-> lines[i].id]
  OBVIOUS
<1> HIDE DEF n
<1>4. ids \in [1..n -> Nat]
  BY <1>2, <1>3
<1>5. ids \in Seq(Nat)
  BY <1>1, <1>4, SeqDef
<1>6. Len(ids) \in Nat /\ 1..Len(ids) = 1..n
  BY <1>4, <1>5, LenProperties
<1>7. Len(ids) = n
  BY <1>1, <1>6
<1> QED
  BY <1>3, <1>5, <1>7 DEF n

(* An acknowledged event is read back in its place, whatever was killed or
   lost power since. *)
THEOREM AcknowledgedEventsSurvive == FilesSpec => []AcknowledgedSurvives
<1>1. FilesInv => AcknowledgedSurvives
  <2> SUFFICES ASSUME JournalInv, AppendInv, ~spoilt
               PROVE  /\ Readable(file)
                      /\ IsPrefix([i \in 1..Len(acked) |-> acked[i].id],
                                  EventIds(file))
    BY DEF FilesInv, AcknowledgedSurvives
  <2> DEFINE whole == Complete(file)
             told_ids == [i \in 1..Len(acked) |-> acked[i].id]
             read_ids == EventIds(file)
  <2>1. /\ file \in Seq(LineType) /\ acked \in Seq(LineType)
        /\ Len(acked) <= Len(file)
        /\ \A i \in 1..Len(file) : Sound(file, i)
        /\ \A i \in 1..Len(acked) :
             file[i] = acked[i] /\ acked[i].whole /\ acked[i].ended
    BY DEF JournalInv, AppendInv
  <2>2. /\ whole \in Seq(LineType)
        /\ Len(acked) <= Len(whole) /\ Len(whole) <= Len(file)
        /\ \A i \in 1..Len(whole) : whole[i] = file[i]
        /\ \A i \in 1..Len(whole) : file[i].whole /\ file[i].seq = i
    <3>1. CASE file # <<>> /\ ~file[Len(file)].whole /\ ~file[Len(file)].ended
      <4>1. whole = SubSeq(file, 1, Len(file) - 1)
        BY <3>1 DEF Complete, Last, Front
      <4>2. Len(file) > 0 /\ Len(file) - 1 \in 0..Len(file)
        BY <2>1, <3>1
      <4> DEFINE m == Len(file) - 1
      <4> HIDE DEF whole, m
      <4>3. /\ whole \in Seq(LineType) /\ Len(whole) = Len(file) - 1
            /\ \A i \in Nat : 1 <= i /\ i <= Len(file) - 1 => whole[i] = file[i]
        <5>1. whole = SubSeq(file, 1, m) /\ m \in 0..Len(file)
          BY <4>1, <4>2 DEF m
        <5>2. /\ whole \in Seq(LineType) /\ Len(whole) = m
              /\ \A i \in Nat : 1 <= i /\ i <= m => whole[i] = file[i]
          BY <2>1, <5>1, CutLines
        <5> QED
          BY <5>2 DEF m
      <4>4. Len(acked) <= Len(file) - 1
        BY <2>1, <3>1
      <4>5. ASSUME NEW i \in 1..Len(whole)
            PROVE  whole[i] = file[i] /\ file[i].whole /\ file[i].seq = i
        BY <2>1, <4>2, <4>3 DEF Sound
      <4> QED
        BY <4>2, <4>3, <4>4, <4>5
    <3>2. CASE ~(file # <<>> /\ ~file[Len(file)].whole /\ ~file[Len(file)].ended)
      <4>1. whole = file
        BY <3>2 DEF Complete, Last, Front
      <4>2. ASSUME NEW i \in 1..Len(file)
            PROVE  file[i].whole /\ file[i].seq = i
        BY <2>1, <3>2 DEF Sound
      <4> HIDE DEF whole
      <4> QED
        BY <2>1, <4>1, <4>2
    <3> QED
      BY <3>1, <3>2
  <2>3. Readable(file)
    BY <2>2 DEF Readable
  <2>4. read_ids = [i \in 1..Len(whole) |-> whole[i].id]
    BY DEF EventIds
  <2> HIDE DEF whole, read_ids
  <2>5. /\ read_ids \in Seq(Nat) /\ Len(read_ids) = Len(whole)
        /\ \A i \in 1..Len(whole) : read_ids[i] = whole[i].id
    BY <2>2, <2>4, IdsOfLines
  <2>6. /\ told_ids \in Seq(Nat) /\ Len(told_ids) = Len(acked)
        /\ \A i \in 1..Len(acked) : told_ids[i] = acked[i].id
    BY <2>1, IdsOfLines
  <2> HIDE DEF told_ids
  <2>7. /\ Len(acked) \in Nat /\ Len(whole) \in Nat
    BY <2>1, <2>2
  <2>8. ASSUME NEW i \in 1..Len(acked) PROVE told_ids[i] = read_ids[i]
    <3>1. i \in 1..Len(whole)
      BY <2>2, <2>7
    <3>2. whole[i] = acked[i]
      BY <2>1, <2>2, <3>1
    <3> QED
      BY <2>5, <2>6, <3>1, <3>2
  <2>9. SubSeq(told_ids, 1, Len(told_ids)) = SubSeq(read_ids, 1, Len(told_ids))
    <3> DEFINE n == Len(acked)
               a == SubSeq(told_ids, 1, n)
               b == SubSeq(read_ids, 1, n)
    <3>1. n \in Nat /\ 1 \in Int /\ n \in Int
      BY <2>7
    <3>2. /\ \A i \in 1..n : told_ids[i] \in Nat
          /\ \A i \in 1..n : read_ids[i] \in Nat
      BY <2>2, <2>5, <2>6, <2>7, <2>8
    <3> HIDE DEF n
    <3>3. /\ a \in Seq(Nat) /\ Len(a) = IF 1 <= n THEN n - 1 + 1 ELSE 0
          /\ \A i \in 1..(n - 1 + 1) : a[i] = told_ids[1 + i - 1]
      BY <3>1, <3>2, SubSeqProperties
    <3>4. /\ b \in Seq(Nat) /\ Len(b) = IF 1 <= n THEN n - 1 + 1 ELSE 0
          /\ \A i \in 1..(n - 1 + 1) : b[i] = read_ids[1 + i - 1]
      BY <3>1, <3>2, SubSeqProperties
    <3> HIDE DEF a, b
    <3>5. /\ Len(a) = n /\ Len(b) = n
          /\ \A i \in 1..n : a[i] = b[i]
      BY <2>8, <3>1, <3>3, <3>4 DEF n
    <3>6. a = b
      BY <3>3, <3>4, <3>5, SeqEqual
    <3> QED
      BY <2>6, <3>6 DEF a, b, n
  <2> QED
    BY <2>2, <2>3, <2>5, <2>6, <2>9 DEF IsPrefix, told_ids, read_ids
<1> QED
  BY <1>1, FilesInvariance, PTL

(* The checkpoint never leads the journal. *)
THEOREM CheckpointsNeverLead == FilesSpec => []CheckpointNeverLeads
<1>1. FilesInv /\ AcknowledgedSurvives => CheckpointNeverLeads
  <2> SUFFICES ASSUME FilesInv, AcknowledgedSurvives, ~spoilt
               PROVE  checkpoint <= Len(EventIds(file))
    BY DEF CheckpointNeverLeads
  <2> DEFINE told_ids == [i \in 1..Len(acked) |-> acked[i].id]
  <2>1. acked \in Seq(LineType) /\ checkpoint \in 0..Len(acked)
    BY DEF FilesInv, AppendInv
  <2>2. Len(told_ids) <= Len(EventIds(file))
    BY DEF AcknowledgedSurvives, IsPrefix
  <2>3. Len(told_ids) = Len(acked)
    BY <2>1, IdsOfLines
  <2> HIDE DEF told_ids
  <2>4. Len(EventIds(file)) \in Nat
    <3>1. file \in Seq(LineType)
      BY DEF FilesInv, JournalInv
    <3>2. Complete(file) \in Seq(LineType)
      <4>1. CASE Complete(file) = file
        BY <3>1, <4>1
      <4>2. CASE Complete(file) = SubSeq(file, 1, Len(file) - 1) /\ file # <<>>
        <5>1. Len(file) - 1 \in 0..Len(file)
          BY <3>1, <4>2
        <5> QED
          BY <3>1, <4>2, <5>1, CutLines
      <4> QED
        BY <4>1, <4>2 DEF Complete, Front
    <3> DEFINE c == Complete(file)
    <3> HIDE DEF c
    <3>3. [i \in 1..Len(c) |-> c[i].id] \in Seq(Nat)
      BY <3>2, IdsOfLines DEF c
    <3>4. EventIds(file) \in Seq(Nat)
      BY <3>3 DEF EventIds, c
    <3> QED
      BY <3>4
  <2> QED
    BY <2>1, <2>2, <2>3, <2>4
<1> QED
  BY <1>1, FilesInvariance, AcknowledgedEventsSurvive, PTL
-----------------------------------------------------------------------------
(* The live previews. *)

Ends(lines) == lines # <<>> /\ lines[Len(lines)] = PIECE
Increasing(lines) ==
  \A i, j \in 1..Len(lines) : i < j /\ lines[i] > 0 /\ lines[j] > 0 => lines[i] < lines[j]
Older(lines, e) == \A i \in 1..Len(lines) : lines[i] < e

(* What is appended behind a piece joins it, and a row is lost with it. *)
PutTo(lines, x, new) ==
  LET n == Len(lines)
  IN  IF Ends(lines)
      THEN /\ Len(new) = n
           /\ \A i \in 1..(n - 1) : new[i] = lines[i]
           /\ new[n] = IF x = PIECE THEN PIECE ELSE SPOILT
      ELSE /\ Len(new) = n + 1
           /\ \A i \in 1..n : new[i] = lines[i]
           /\ new[n + 1] = x

LEMMA PutLines ==
  ASSUME NEW b \in Nat, NEW lines \in Seq(-2..b), NEW x \in -2..b,
         NEW new, new = Put(lines, x)
  PROVE  new \in Seq(-2..b) /\ PutTo(lines, x, new)
<1>1. CASE ~Ends(lines)
  <2>1. new = Append(lines, x)
    BY <1>1 DEF Put, Ends, Last
  <2>2. /\ new \in Seq(-2..b) /\ Len(new) = Len(lines) + 1
        /\ \A i \in 1..Len(lines) : new[i] = lines[i]
        /\ new[Len(lines) + 1] = x
    BY <2>1, AppendProperties
  <2> QED
    BY <1>1, <2>2 DEF PutTo
<1>2. CASE Ends(lines)
  <2> DEFINE m == Len(lines) - 1
             front == SubSeq(lines, 1, m)
             y == IF x = PIECE THEN PIECE ELSE SPOILT
  <2>1. new = Append(front, y)
    BY <1>2 DEF Put, Ends, Last, Front
  <2>2. m \in Nat /\ Len(lines) = m + 1
    BY <1>2 DEF Ends
  <2>3. y \in -2..b
    BY DEF PIECE, SPOILT
  <2>4. \A i \in 1..m : lines[i] \in -2..b
    BY <2>2
  <2> HIDE DEF m, y
  <2>5. 1 \in Int /\ m \in Int
    BY <2>2
  <2>6. /\ front \in Seq(-2..b)
        /\ Len(front) = IF 1 <= m THEN m - 1 + 1 ELSE 0
        /\ \A i \in 1..(m - 1 + 1) : front[i] = lines[1 + i - 1]
    BY <2>4, <2>5, SubSeqProperties
  <2>7. Len(front) = m /\ \A i \in 1..m : front[i] = lines[i]
    BY <2>2, <2>6
  <2> HIDE DEF front
  <2>8. /\ new \in Seq(-2..b) /\ Len(new) = Len(front) + 1
        /\ \A i \in 1..Len(front) : new[i] = front[i]
        /\ new[Len(front) + 1] = y
    BY <2>1, <2>3, <2>6, AppendProperties
  <2>9. /\ Len(new) = Len(lines) /\ new[Len(lines)] = y
        /\ \A i \in 1..(Len(lines) - 1) : new[i] = lines[i]
    BY <2>2, <2>7, <2>8
  <2> QED
    BY <1>2, <2>8, <2>9 DEF PutTo, y
<1> QED
  BY <1>1, <1>2

(* The rows that are there stay, and in order; only a piece leaves a piece,
   and only behind one is a row lost. *)
LEMMA PutKeeps ==
  ASSUME NEW b \in Nat, NEW lines \in Seq(-2..b), NEW x \in -2..b,
         NEW new \in Seq(-2..b), PutTo(lines, x, new)
  PROVE  /\ \A e \in 1..b : Contains(lines, e) => Contains(new, e)
         /\ \A e \in 1..b : Contains(new, e) => Contains(lines, e) \/ e = x
         /\ Increasing(lines) /\ (x > 0 => Older(lines, x)) => Increasing(new)
         /\ x # PIECE => ~Ends(new)
         /\ x > 0 /\ ~Ends(lines) => Contains(new, x)
<1> DEFINE n == Len(lines)
<1>1. n \in Nat /\ (Ends(lines) => n >= 1) /\ PIECE = -1 /\ SPOILT = -2
  BY DEF Ends, PIECE, SPOILT
<1>2. \A i \in 1..n : lines[i] \in -2..b
  OBVIOUS
<1>3. \A i \in 1..Len(new) : new[i] \in -2..b
  OBVIOUS
<1>4. CASE Ends(lines)
  <2>1. /\ Len(new) = n /\ lines[n] = -1
        /\ \A i \in 1..(n - 1) : new[i] = lines[i]
        /\ new[n] = IF x = -1 THEN -1 ELSE -2
    BY <1>1, <1>4 DEF PutTo, Ends
  <2> HIDE DEF n
  <2>2. \A e \in 1..b : \A i \in 1..n : lines[i] = e => i \in 1..(n - 1)
    BY <1>1, <2>1
  <2>3. \A e \in 1..b : \A i \in 1..n : new[i] = e => i \in 1..(n - 1)
    BY <1>1, <2>1
  <2>4. \A e \in 1..b : Contains(lines, e) <=> Contains(new, e)
    BY <1>1, <2>1, <2>2, <2>3 DEF Contains, n
  <2>5. ASSUME Increasing(lines) PROVE Increasing(new)
    <3>1. ASSUME NEW i \in 1..n, NEW j \in 1..n, i < j, new[i] > 0, new[j] > 0
          PROVE  new[i] < new[j]
      <4>1. i \in 1..(n - 1) /\ j \in 1..(n - 1)
        BY <1>1, <2>1, <3>1
      <4>2. new[i] = lines[i] /\ new[j] = lines[j]
        BY <2>1, <4>1
      <4> QED
        BY <2>5, <3>1, <4>2 DEF Increasing, n
    <3> QED
      BY <2>1, <3>1 DEF Increasing
  <2>6. x # -1 => ~Ends(new)
    BY <1>1, <2>1 DEF Ends
  <2> QED
    BY <1>1, <1>4, <2>4, <2>5, <2>6
<1>5. CASE ~Ends(lines)
  <2>1. /\ Len(new) = n + 1 /\ new[n + 1] = x
        /\ \A i \in 1..n : new[i] = lines[i]
    BY <1>5 DEF PutTo
  <2> HIDE DEF n
  <2>2. \A e \in 1..b : Contains(lines, e) => Contains(new, e)
    BY <1>1, <2>1 DEF Contains, n
  <2>3. ASSUME NEW e \in 1..b, Contains(new, e) PROVE Contains(lines, e) \/ e = x
    <3>1. PICK i \in 1..(n + 1) : new[i] = e
      BY <2>1, <2>3 DEF Contains
    <3>2. CASE i \in 1..n
      BY <2>1, <3>1, <3>2 DEF Contains, n
    <3>3. CASE i = n + 1
      BY <2>1, <3>1, <3>3
    <3> QED
      BY <1>1, <3>2, <3>3
  <2>4. ASSUME Increasing(lines), x > 0 => Older(lines, x) PROVE Increasing(new)
    <3>1. ASSUME NEW i \in 1..(n + 1), NEW j \in 1..(n + 1),
                 i < j, new[i] > 0, new[j] > 0
          PROVE  new[i] < new[j]
      <4>1. i \in 1..n /\ new[i] = lines[i]
        BY <1>1, <2>1, <3>1
      <4>2. CASE j \in 1..n
        BY <2>1, <2>4, <3>1, <4>1, <4>2 DEF Increasing, n
      <4>3. CASE j = n + 1
        BY <2>1, <2>4, <3>1, <4>1, <4>3 DEF Older, n
      <4> QED
        BY <1>1, <4>2, <4>3
    <3> QED
      BY <2>1, <3>1 DEF Increasing
  <2>5. x # -1 => ~Ends(new)
    BY <1>1, <2>1 DEF Ends
  <2>6. x > 0 => Contains(new, x)
    BY <1>1, <2>1 DEF Contains
  <2>7. Increasing(lines) /\ (x > 0 => Older(lines, x)) => Increasing(new)
    BY <2>4
  <2>8. \A e \in 1..b : Contains(new, e) => Contains(lines, e) \/ e = x
    BY <2>3
  <2> QED
    BY <1>1, <2>2, <2>5, <2>6, <2>7, <2>8
<1> QED
  BY <1>4, <1>5

(* Of some natural numbers one is the least. *)
LEMMA Least ==
  ASSUME NEW B, B \subseteq Nat, B # {}
  PROVE  \E x \in B : \A y \in B : x <= y
<1>1. PICK x \in B : \A y \in B : ~ (<<y, x>> \in OpToRel(<, Nat))
  BY WFMin, NatLessThanWellFounded
<1>2. ASSUME NEW y \in B, y < x PROVE FALSE
  <2>1. <<y, x>> \in OpToRel(<, Nat)
    BY <1>2 DEF OpToRel
  <2> QED
    BY <1>1, <2>1
<1> QED
  BY <1>2

(* A set of numbers that each leads on to the next has all of them. *)
LEMMA Climb ==
  ASSUME NEW T, NEW n \in Nat, 0 \in T, \A k \in 0..(n - 1) : k \in T => k + 1 \in T
  PROVE  \A k \in 0..n : k \in T
<1> DEFINE B == {k \in 0..n : k \notin T}
<1>1. SUFFICES ASSUME B # {} PROVE FALSE
  OBVIOUS
<1>2. PICK x \in B : \A y \in B : x <= y
  <2>1. B \subseteq Nat
    OBVIOUS
  <2> HIDE DEF B
  <2> QED
    BY <1>1, <2>1, Least
<1>3. x # 0 /\ x \in 0..n /\ x - 1 \in 0..(n - 1)
  OBVIOUS
<1>4. x - 1 \in T
  <2>1. x - 1 \in B => x <= x - 1
    BY <1>2
  <2> QED
    BY <1>3, <2>1
<1> QED
  BY <1>3, <1>4

(* The appends, one after another. *)
LEMMA AppendAllSteps ==
  ASSUME NEW s, Len(s) \in Nat
  PROVE  \E p : /\ p[0] = preview
                /\ \A k \in 0..(Len(s) - 1) :
                     p[k + 1] = [p[k] EXCEPT ![s[k + 1][1]] = Put(@, s[k + 1][2])]
                /\ AppendAll(s) = p[Len(s)]
<1> DEFINE n == Len(s)
           Def(p, k) == IF k = 0 THEN preview
                        ELSE [p[k - 1] EXCEPT ![s[k][1]] = Put(@, s[k][2])]
           Q(m) == \E g : g = [k \in 0..m |-> Def(g, k)]
           p == CHOOSE f : f = [k \in 0..n |-> Def(f, k)]
<1>1. Q(0)
  <2> DEFINE g == [k \in 0..0 |-> preview]
  <2>1. g = [k \in 0..0 |-> Def(g, k)]
    OBVIOUS
  <2> HIDE DEF g, Def
  <2> QED
    BY <2>1
<1>2. ASSUME NEW m \in Nat, Q(m) PROVE Q(m + 1)
  <2>1. PICK g : g = [k \in 0..m |-> Def(g, k)]
    BY <1>2
  <2> DEFINE h == [k \in 0..(m + 1) |-> Def(g, k)]
  <2>2. \A k \in 0..m : h[k] = g[k]
    <3> HIDE DEF Def
    <3> QED
      BY <2>1
  <2>3. \A k \in 0..(m + 1) : Def(h, k) = Def(g, k)
    <3> HIDE DEF h
    <3> QED
      BY <2>2
  <2> HIDE DEF Def
  <2>4. h = [k \in 0..(m + 1) |-> Def(h, k)]
    BY <2>3
  <2> HIDE DEF h
  <2> QED
    BY <2>4
<1>3. Q(n)
  <2> DEFINE T == {m \in 0..n : Q(m)}
  <2> HIDE DEF Q
  <2>1. 0 \in T /\ \A k \in 0..(n - 1) : k \in T => k + 1 \in T
    BY <1>1, <1>2
  <2> HIDE DEF T
  <2>2. \A k \in 0..n : k \in T
    BY <2>1, Climb
  <2> QED
    BY <2>2 DEF T
<1>4. p = [k \in 0..n |-> Def(p, k)]
  <2> HIDE DEF Def
  <2> QED
    BY <1>3
<1>5. AppendAll(s) = p[n]
  BY DEF AppendAll
<1> HIDE DEF p
<1>6. \A k \in 0..n : p[k] = Def(p, k)
  <2> HIDE DEF Def
  <2> QED
    BY <1>4
<1>7. p[0] = preview
  <2>1. Def(p, 0) = preview
    OBVIOUS
  <2>2. 0 \in 0..n
    OBVIOUS
  <2> HIDE DEF Def
  <2>3. p[0] = Def(p, 0)
    BY <1>6, <2>2
  <2> QED
    BY <2>1, <2>3
<1>8. ASSUME NEW k \in 0..(n - 1)
      PROVE  p[k + 1] = [p[k] EXCEPT ![s[k + 1][1]] = Put(@, s[k + 1][2])]
  <2>1. k + 1 \in 0..n /\ k + 1 # 0 /\ (k + 1) - 1 = k
    OBVIOUS
  <2>2. p[k + 1] = Def(p, k + 1)
    BY <1>6, <2>1
  <2> QED
    BY <2>1, <2>2
<1> QED
  BY <1>5, <1>7, <1>8

(* What is appended for an event: headers, its row in a file once, and
   perhaps a piece. *)
To(s, k, f, e) == \E i \in 1..k : s[i][1] = f /\ s[i][2] = e
Plan(s, e) ==
  /\ Len(s) \in Nat
  /\ \A i \in 1..Len(s) : s[i][1] \in LiveFiles /\ s[i][2] \in {HEADER, PIECE, e}
  /\ \A i, j \in 1..Len(s) : s[i][1] = s[j][1] /\ s[i][2] = e /\ s[j][2] = e => i = j
NoPieces(s) == \A i \in 1..Len(s) : s[i][2] # PIECE

(* What one file has after the first k of the appends. *)
RowUpTo(old, s, e, k, f, lines) ==
  /\ lines \in Seq(-2..e)
  /\ Increasing(lines)
  /\ \A other \in 1..e : Contains(old, other) => Contains(lines, other)
  /\ Contains(lines, e) => To(s, k, f, e)
  /\ NoPieces(s) => /\ Ends(lines) => Ends(old)
                    /\ To(s, k, f, e) /\ ~Contains(lines, e) => Ends(old) /\ ~Ends(lines)

LEMMA RowGrows ==
  ASSUME NEW s, NEW e \in Nat \ {0}, Plan(s, e), NEW k \in 0..(Len(s) - 1),
         NEW f \in LiveFiles, NEW old, NEW lines, RowUpTo(old, s, e, k, f, lines),
         NEW new, new = IF s[k + 1][1] = f THEN Put(lines, s[k + 1][2]) ELSE lines
  PROVE  RowUpTo(old, s, e, k + 1, f, new)
<1> DEFINE x == s[k + 1][2]
<1>1. k \in Nat /\ k + 1 \in 1..Len(s) /\ Len(s) \in Nat
  BY DEF Plan
<1>2. x \in {HEADER, PIECE, e} /\ x \in -2..e /\ x \in Int
  BY <1>1 DEF Plan, HEADER, PIECE
<1>3. lines \in Seq(-2..e) /\ e \in 1..e
  BY DEF RowUpTo
<1>4. To(s, k + 1, f, e) <=> To(s, k, f, e) \/ (s[k + 1][1] = f /\ x = e)
  BY <1>1 DEF To
<1>5. CASE s[k + 1][1] # f
  BY <1>4, <1>5 DEF RowUpTo
<1>6. CASE s[k + 1][1] = f
  <2>1. x = e => ~Contains(lines, e)
    <3>1. ASSUME x = e, To(s, k, f, e) PROVE FALSE
      <4>1. PICK i \in 1..k : s[i][1] = f /\ s[i][2] = e
        BY <3>1 DEF To
      <4>2. i \in 1..Len(s) /\ i # k + 1
        BY <1>1
      <4> QED
        BY <1>1, <1>6, <3>1, <4>1, <4>2 DEF Plan
    <3> QED
      BY <3>1 DEF RowUpTo
  <2>2. x = e => Older(lines, e)
    <3>1. ASSUME x = e, NEW i \in 1..Len(lines) PROVE lines[i] < e
      <4>1. lines[i] \in -2..e /\ lines[i] # e
        BY <1>3, <2>1, <3>1 DEF Contains
      <4> QED
        BY <4>1
    <3> QED
      BY <3>1 DEF Older
  <2>3. x > 0 => x = e
    BY <1>2 DEF HEADER, PIECE
  <2>4. new = Put(lines, x)
    BY <1>6
  <2> HIDE DEF x
  <2>5. new \in Seq(-2..e) /\ PutTo(lines, x, new)
    BY <1>2, <1>3, <2>4, PutLines
  <2>6. /\ \A other \in 1..e : Contains(lines, other) => Contains(new, other)
        /\ \A other \in 1..e : Contains(new, other) => Contains(lines, other) \/ other = x
        /\ Increasing(lines) /\ (x > 0 => Older(lines, x)) => Increasing(new)
        /\ x # PIECE => ~Ends(new)
        /\ x > 0 /\ ~Ends(lines) => Contains(new, x)
    BY <1>2, <1>3, <2>5, PutKeeps
  <2>7. Increasing(new)
    BY <2>2, <2>3, <2>6 DEF RowUpTo
  <2>8. Contains(new, e) => To(s, k + 1, f, e)
    BY <1>3, <1>4, <1>6, <2>6 DEF RowUpTo
  <2>9. ASSUME NoPieces(s)
        PROVE  /\ Ends(new) => Ends(old)
               /\ To(s, k + 1, f, e) /\ ~Contains(new, e) => Ends(old) /\ ~Ends(new)
    <3>1. x # PIECE
      BY <1>1, <2>9 DEF NoPieces, x
    <3>2. ~Ends(new)
      BY <2>6, <3>1
    <3>3. ASSUME To(s, k, f, e), ~Contains(new, e) PROVE Ends(old)
      BY <1>3, <2>6, <2>9, <3>3 DEF RowUpTo
    <3>4. ASSUME x = e, ~Contains(new, e) PROVE Ends(old)
      BY <2>6, <2>9, <3>4 DEF RowUpTo
    <3> QED
      BY <1>4, <3>2, <3>3, <3>4
  <2> QED
    BY <2>5, <2>6, <2>7, <2>8, <2>9 DEF RowUpTo
<1> QED
  BY <1>5, <1>6

(* All of them. *)
LEMMA RowsAppended ==
  ASSUME NEW s, NEW e \in Nat \ {0}, Plan(s, e),
         preview \in [LiveFiles -> Seq(-2..e)],
         \A f \in LiveFiles : Increasing(preview[f]) /\ Older(preview[f], e)
  PROVE  /\ AppendAll(s) \in [LiveFiles -> Seq(-2..e)]
         /\ \A f \in LiveFiles :
              RowUpTo(preview[f], s, e, Len(s), f, AppendAll(s)[f])
<1>1. Len(s) \in Nat
  BY DEF Plan
<1>2. PICK p : /\ p[0] = preview
               /\ \A k \in 0..(Len(s) - 1) :
                    p[k + 1] = [p[k] EXCEPT ![s[k + 1][1]] = Put(@, s[k + 1][2])]
               /\ AppendAll(s) = p[Len(s)]
  BY <1>1, AppendAllSteps
<1> DEFINE Good(k) == /\ p[k] \in [LiveFiles -> Seq(-2..e)]
                      /\ \A f \in LiveFiles : RowUpTo(preview[f], s, e, k, f, p[k][f])
           T == {k \in 0..Len(s) : Good(k)}
<1>3. Good(0)
  <2>1. ASSUME NEW f \in LiveFiles PROVE RowUpTo(preview[f], s, e, 0, f, preview[f])
    <3>1. preview[f] \in Seq(-2..e) /\ Increasing(preview[f]) /\ Older(preview[f], e)
      OBVIOUS
    <3>2. ~Contains(preview[f], e)
      BY <3>1 DEF Contains, Older
    <3>3. ~To(s, 0, f, e)
      BY DEF To
    <3> QED
      BY <3>1, <3>2, <3>3 DEF RowUpTo
  <2> QED
    BY <1>2, <2>1
<1>4. ASSUME NEW k \in 0..(Len(s) - 1), Good(k) PROVE Good(k + 1)
  <2> DEFINE g == s[k + 1][1]
             x == s[k + 1][2]
  <2>1. k + 1 \in 1..Len(s)
    BY <1>1
  <2>2. g \in LiveFiles
    BY <2>1 DEF Plan
  <2>3. p[k + 1] = [p[k] EXCEPT ![g] = Put(p[k][g], x)]
    BY <1>2
  <2>4. p[k] \in [LiveFiles -> Seq(-2..e)]
    BY <1>4
  <2>5. ASSUME NEW f \in LiveFiles
        PROVE  p[k + 1][f] = IF g = f THEN Put(p[k][f], x) ELSE p[k][f]
    <3> HIDE DEF g, x
    <3> QED
      BY <2>2, <2>3, <2>4
  <2>6. ASSUME NEW f \in LiveFiles
        PROVE  RowUpTo(preview[f], s, e, k + 1, f, p[k + 1][f])
    BY <1>4, <2>5, RowGrows
  <2>7. \A f \in LiveFiles : p[k + 1][f] \in Seq(-2..e)
    BY <2>6 DEF RowUpTo
  <2>8. p[k + 1] \in [LiveFiles -> Seq(-2..e)]
    <3> HIDE DEF g, x
    <3>1. DOMAIN p[k + 1] = LiveFiles
      BY <2>3, <2>4
    <3>2. p[k + 1] = [f \in LiveFiles |-> p[k + 1][f]]
      BY <2>3, <2>4, <3>1
    <3> QED
      BY <2>7, <3>2
  <2> QED
    BY <2>6, <2>8
<1>5. 0 \in T /\ \A k \in 0..(Len(s) - 1) : k \in T => k + 1 \in T
  <2> HIDE DEF Good
  <2> QED
    BY <1>1, <1>3, <1>4
<1>6. Len(s) \in T
  <2> HIDE DEF T
  <2>1. \A k \in 0..Len(s) : k \in T
    BY <1>1, <1>5, Climb
  <2> QED
    BY <1>1, <2>1
<1> QED
  BY <1>2, <1>6

(* The first elements of a sequence, and perhaps one more. *)
PartOf(R, a, done, piece, x, s) ==
  /\ s \in Seq(R)
  /\ Len(s) = IF piece THEN done + 1 ELSE done
  /\ \A i \in 1..done : s[i] = a[i]
  /\ piece => s[done + 1] = x
  /\ done = Len(a) => s = a

LEMMA PartOfSequence ==
  ASSUME NEW R, NEW a \in Seq(R), NEW done \in Nat, done <= Len(a),
         NEW piece \in BOOLEAN, piece => done < Len(a), NEW x, piece => x \in R,
         NEW s, s = SubSeq(a, 1, done) \o (IF piece THEN <<x>> ELSE <<>>)
  PROVE  PartOf(R, a, done, piece, x, s)
<1> DEFINE c == SubSeq(a, 1, done)
<1>1. \A i \in 1..done : a[i] \in R
  OBVIOUS
<1>2. 1 \in Int /\ done \in Int
  OBVIOUS
<1>3. /\ c \in Seq(R)
      /\ Len(c) = IF 1 <= done THEN done - 1 + 1 ELSE 0
      /\ \A i \in 1..(done - 1 + 1) : c[i] = a[1 + i - 1]
  BY <1>1, <1>2, SubSeqProperties
<1>4. Len(c) = done /\ \A i \in 1..done : c[i] = a[i]
  BY <1>3
<1>5. CASE piece
  <2>1. s = c \o <<x>>
    BY <1>5
  <2> HIDE DEF c
  <2>2. <<x>> \in Seq(R) /\ Len(<<x>>) = 1 /\ <<x>>[1] = x
    BY <1>5
  <2>3. c \o <<x>> = Append(c, x)
    BY <1>3, <1>5, AppendIsConcat
  <2>4. /\ s \in Seq(R) /\ Len(s) = done + 1
        /\ \A i \in 1..done : s[i] = c[i]
        /\ s[done + 1] = x
    BY <1>3, <1>4, <1>5, <2>1, <2>3, AppendProperties
  <2> QED
    BY <1>4, <1>5, <2>4 DEF PartOf
<1>6. CASE ~piece
  <2>1. s = c \o <<>>
    BY <1>6
  <2> HIDE DEF c
  <2>2. s = c
    BY <1>3, <2>1, ConcatEmptySeq
  <2>3. done = Len(a) => s = a
    BY <1>3, <1>4, <2>2, SeqEqual
  <2> QED
    BY <1>3, <1>4, <1>6, <2>2, <2>3 DEF PartOf
<1> QED
  BY <1>5, <1>6

JoinOf(R, s, t, g) ==
  /\ g \in Seq(R) /\ Len(g) = Len(s) + Len(t)
  /\ \A i \in 1..(Len(s) + Len(t)) : g[i] = IF i <= Len(s) THEN s[i] ELSE t[i - Len(s)]

LEMMA Joined ==
  ASSUME NEW R, NEW s \in Seq(R), NEW t \in Seq(R), NEW g, g = s \o t
  PROVE  JoinOf(R, s, t, g)
  BY ConcatProperties DEF JoinOf

(* The appends for an event: two headers or none, and two rows or three. *)
FormOf(a, e, h, n) ==
  /\ a \in Seq(LiveFiles \X {HEADER, PIECE, e}) /\ Len(a) = h + n
  /\ h \in {0, 2} /\ (live_initialized <=> h = 0)
  /\ n \in {2, 3} /\ (IsPoint(e) <=> n = 3)
  /\ h = 2 => a[1] = <<"wide", HEADER>> /\ a[2] = <<"long", HEADER>>
  /\ a[h + 1] = <<"wide", e>> /\ a[h + 2] = <<"long", e>>
  /\ n = 3 => a[h + 3] = <<"xyz", e>>

LEMMA AppendsForm ==
  ASSUME NEW e \in Nat \ {0}, NEW a, a = Appends(e)
  PROVE  \E h, n : FormOf(a, e, h, n)
<1> DEFINE R == LiveFiles \X {HEADER, PIECE, e}
           rows == << <<"wide", e>>, <<"long", e>> >>
           b == IF IsPoint(e) THEN Append(rows, <<"xyz", e>>) ELSE rows
<1>1. /\ <<"wide", e>> \in R /\ <<"long", e>> \in R /\ <<"xyz", e>> \in R
      /\ <<"wide", HEADER>> \in R /\ <<"long", HEADER>> \in R
  BY DEF LiveFiles
<1> HIDE DEF R
<1>2. rows \in Seq(R) /\ Headers \in Seq(R)
  BY <1>1 DEF Headers
<1>3. Rows(e) = b
  <2>1. CASE IsPoint(e)
    <3>1. Rows(e) = rows \o << <<"xyz", e>> >>
      BY <2>1 DEF Rows
    <3> HIDE DEF rows
    <3>2. Rows(e) = Append(rows, <<"xyz", e>>)
      BY <1>1, <1>2, <3>1, AppendIsConcat
    <3> QED
      BY <2>1, <3>2
  <2>2. CASE ~IsPoint(e)
    <3>1. Rows(e) = rows \o <<>>
      BY <2>2 DEF Rows
    <3> HIDE DEF rows
    <3>2. Rows(e) = rows
      BY <1>2, <3>1, ConcatEmptySeq
    <3> QED
      BY <2>2, <3>2
  <2> QED
    BY <2>1, <2>2
<1>4. /\ b \in Seq(R) /\ Len(b) = IF IsPoint(e) THEN 3 ELSE 2
      /\ b[1] = <<"wide", e>> /\ b[2] = <<"long", e>>
      /\ IsPoint(e) => b[3] = <<"xyz", e>>
  BY <1>1, <1>2
<1>5. /\ Len(Headers) = 2 /\ Headers[1] = <<"wide", HEADER>> /\ Headers[2] = <<"long", HEADER>>
  BY DEF Headers
<1> DEFINE n == IF IsPoint(e) THEN 3 ELSE 2
           h == IF live_initialized THEN 0 ELSE 2
<1> HIDE DEF b
<1>6. /\ a \in Seq(R) /\ Len(a) = h + n
      /\ h = 2 => a[1] = <<"wide", HEADER>> /\ a[2] = <<"long", HEADER>>
      /\ a[h + 1] = <<"wide", e>> /\ a[h + 2] = <<"long", e>>
      /\ n = 3 => a[h + 3] = <<"xyz", e>>
  <2>1. CASE live_initialized
    <3>1. a = <<>> \o b
      BY <1>3, <2>1 DEF Appends
    <3>2. a = b
      BY <1>4, <3>1, ConcatEmptySeq
    <3> QED
      BY <1>4, <2>1, <3>2
  <2>2. CASE ~live_initialized
    <3>1. a = Headers \o b
      BY <1>3, <2>2 DEF Appends
    <3>2. JoinOf(R, Headers, b, a)
      BY <1>2, <1>4, <3>1, Joined
    <3> QED
      BY <1>4, <1>5, <2>2, <3>2 DEF JoinOf
  <2> QED
    BY <2>1, <2>2
<1>7. /\ h \in {0, 2} /\ (live_initialized <=> h = 0)
      /\ n \in {2, 3} /\ (IsPoint(e) <=> n = 3)
  OBVIOUS
<1> HIDE DEF n, h
<1>8. a \in Seq(LiveFiles \X {HEADER, PIECE, e})
  BY <1>6 DEF R
<1>9. FormOf(a, e, h, n)
  BY <1>6, <1>7, <1>8 DEF FormOf
<1> QED
  BY <1>9

(* Its row goes to each of its files once. *)
LEMMA AppendsOf ==
  ASSUME NEW e \in Nat \ {0}, NEW a, a = Appends(e)
  PROVE  /\ a \in Seq(LiveFiles \X {HEADER, PIECE, e}) /\ Plan(a, e) /\ NoPieces(a)
         /\ \A f \in LiveFiles : (f = "xyz" => IsPoint(e)) => To(a, Len(a), f, e)
<1> DEFINE R == LiveFiles \X {HEADER, PIECE, e}
<1>1. PICK h, n : FormOf(a, e, h, n)
  BY AppendsForm
<1>2. \A y \in R : y[1] \in LiveFiles /\ y[2] \in {HEADER, PIECE, e}
  OBVIOUS
<1> HIDE DEF R
<1>6. /\ a \in Seq(R) /\ Len(a) = h + n
      /\ h = 2 => a[1] = <<"wide", HEADER>> /\ a[2] = <<"long", HEADER>>
      /\ a[h + 1] = <<"wide", e>> /\ a[h + 2] = <<"long", e>>
      /\ n = 3 => a[h + 3] = <<"xyz", e>>
  BY <1>1 DEF FormOf, R
<1>7. n \in {2, 3} /\ h \in {0, 2} /\ (IsPoint(e) => n = 3)
  BY <1>1 DEF FormOf
<1>8. \A i \in 1..Len(a) :
        \/ a[i] = <<"wide", HEADER>> /\ i = 1 /\ h = 2
        \/ a[i] = <<"long", HEADER>> /\ i = 2 /\ h = 2
        \/ a[i] = <<"wide", e>> /\ i = h + 1
        \/ a[i] = <<"long", e>> /\ i = h + 2
        \/ a[i] = <<"xyz", e>> /\ i = h + 3
  BY <1>6, <1>7
<1>9. Plan(a, e)
  <2>1. Len(a) \in Nat
    BY <1>6
  <2>2. \A i \in 1..Len(a) : a[i][1] \in LiveFiles /\ a[i][2] \in {HEADER, PIECE, e}
    BY <1>2, <1>6
  <2>3. \A i, j \in 1..Len(a) : a[i][1] = a[j][1] /\ a[i][2] = e /\ a[j][2] = e => i = j
    BY <1>8 DEF HEADER
  <2> QED
    BY <2>1, <2>2, <2>3 DEF Plan
<1>10. NoPieces(a)
  BY <1>8 DEF NoPieces, HEADER, PIECE
<1>11. ASSUME NEW f \in LiveFiles, f = "xyz" => IsPoint(e)
       PROVE  To(a, Len(a), f, e)
  <2>1. h + 1 \in 1..Len(a) /\ h + 2 \in 1..Len(a) /\ (n = 3 => h + 3 \in 1..Len(a))
    BY <1>6, <1>7
  <2>2. a[h + 1][1] = "wide" /\ a[h + 1][2] = e
    BY <1>6
  <2>3. a[h + 2][1] = "long" /\ a[h + 2][2] = e
    BY <1>6
  <2>4. IsPoint(e) => a[h + 3][1] = "xyz" /\ a[h + 3][2] = e
    BY <1>6, <1>7
  <2>5. CASE f = "wide"
    BY <2>1, <2>2, <2>5 DEF To
  <2>6. CASE f = "long"
    BY <2>1, <2>3, <2>6 DEF To
  <2>7. CASE f = "xyz"
    BY <1>7, <1>11, <2>1, <2>4, <2>7 DEF To
  <2> QED
    BY <2>5, <2>6, <2>7 DEF LiveFiles
<1>12. a \in Seq(LiveFiles \X {HEADER, PIECE, e})
  BY <1>6 DEF R
<1> QED
  BY <1>9, <1>10, <1>11, <1>12

(* The first of them, and perhaps a piece of the next. *)
Entries(R, e) ==
  /\ \A f \in LiveFiles : <<f, PIECE>> \in R
  /\ \A y \in R : y[1] \in LiveFiles /\ y[2] \in {HEADER, PIECE, e}

PartPlan(s, e, a, done) == Plan(s, e) /\ (done = Len(a) => s = a)

LEMMA PartOfAppends ==
  ASSUME NEW e \in Nat \ {0}, NEW R, Entries(R, e), NEW a \in Seq(R), Plan(a, e),
         NEW done \in Nat, done <= Len(a), NEW piece \in BOOLEAN, piece => done < Len(a),
         NEW s, s = SubSeq(a, 1, done) \o
                    (IF piece THEN << <<a[done + 1][1], PIECE>> >> ELSE <<>>)
  PROVE  PartPlan(s, e, a, done)
<1> DEFINE x == <<a[done + 1][1], PIECE>>
<1>1. s = SubSeq(a, 1, done) \o (IF piece THEN <<x>> ELSE <<>>)
  OBVIOUS
<1>2. (piece => x \in R) /\ x[2] = PIECE
  BY DEF Plan, Entries
<1> HIDE DEF x
<1>3. PartOf(R, a, done, piece, x, s)
  BY <1>1, <1>2, PartOfSequence
<1>4. /\ s \in Seq(R) /\ Len(s) = IF piece THEN done + 1 ELSE done
      /\ \A i \in 1..done : s[i] = a[i]
      /\ piece => s[done + 1] = x
      /\ done = Len(a) => s = a
  BY <1>3 DEF PartOf
<1>5. Len(s) \in Nat
  BY <1>4
<1>6. \A i \in 1..Len(s) : s[i][1] \in LiveFiles /\ s[i][2] \in {HEADER, PIECE, e}
  BY <1>4 DEF Entries
<1>7. \A i \in 1..Len(s) : s[i][2] = e => i \in 1..done
  BY <1>2, <1>4 DEF PIECE
<1>8. \A i, j \in 1..Len(s) : s[i][1] = s[j][1] /\ s[i][2] = e /\ s[j][2] = e => i = j
  <2>1. ASSUME NEW i \in 1..Len(s), NEW j \in 1..Len(s),
               s[i][1] = s[j][1], s[i][2] = e, s[j][2] = e
        PROVE  i = j
    <3>1. i \in 1..done /\ j \in 1..done
      BY <1>7, <2>1
    <3>2. s[i] = a[i] /\ s[j] = a[j] /\ i \in 1..Len(a) /\ j \in 1..Len(a)
      BY <1>4, <3>1
    <3> QED
      BY <2>1, <3>2 DEF Plan
  <2> QED
    BY <2>1
<1> QED
  BY <1>4, <1>5, <1>6, <1>8 DEF Plan, PartPlan
-----------------------------------------------------------------------------
(* The phases from the event's beginning to its end. *)
Busy == {"crops", "sync", "checkpoint", "row"}

Gone == state \in {"dead", "recovered"}

(* Where the tick thread may go while the previews, the event and the
   acknowledged events stay. *)
GoesOn ==
  \/ phase' = phase
  \/ phase = "crops" /\ phase' = "sync"
  \/ phase = "checkpoint" /\ phase' = "row"
  \/ phase \notin {"checkpoint", "row"} /\ phase' \in {"none", "capture"}
  \/ Gone' /\ phase' = "none"

Begins ==
  /\ phase = "capture" /\ phase' = "crops"
  /\ attempts' = attempts + 1 /\ ev'.id = attempts + 1
  /\ UNCHANGED <<live, acked>>

Acknowledges ==
  /\ phase = "sync" /\ phase' = "checkpoint"
  /\ acked' = Append(acked, Line(ev, event_seq + 1))
  /\ UNCHANGED <<live, attempts, ev>>

Leaves == GoesOn /\ UNCHANGED <<live, attempts, ev, acked>>

RowIsAppended ==
  \E done \in 0..5, piece \in BOOLEAN, pauses \in BOOLEAN : AppendLiveRow(done, piece, pauses)

(* What a step does to the previews, the event and the acknowledged events;
   a process that is gone stays so. *)
LEMMA LiveMoves ==
  ASSUME ThreadsInv, [FilesNext]_filesVars
  PROVE  /\ RowIsAppended \/ Begins \/ Acknowledges \/ Leaves
         /\ Gone => Gone'
<1> USE DEF Gone
<1>1. ASSUME NEW done \in 0..5, NEW piece \in BOOLEAN, NEW pauses \in BOOLEAN,
             AppendLiveRow(done, piece, pauses)
      PROVE  RowIsAppended /\ (Gone => Gone')
  <2>1. phase = "row"
    BY <1>1 DEF AppendLiveRow
  <2> QED
    BY <1>1, <2>1 DEF RowIsAppended, ThreadsInv
<1>3. CASE JournalStep
  <2>1. UNCHANGED live
    BY <1>3 DEF JournalStep, files
  <2>2. CASE BeginTick
    BY <2>1, <2>2 DEF BeginTick, MayTick, past, Leaves, GoesOn
  <2>3. ASSUME NEW pauses \in BOOLEAN, NothingToRetain(pauses)
        PROVE  Leaves /\ (Gone => Gone')
    BY <2>1, <2>3 DEF NothingToRetain, past, Leaves, GoesOn
  <2>4. ASSUME NEW saved \in SUBSET Fields, BeginEvent(saved)
        PROVE  Begins /\ (Gone => Gone')
    <3>1. /\ phase = "capture" /\ phase' = "crops" /\ state' = state
          /\ attempts' = attempts + 1 /\ UNCHANGED acked
          /\ ev' = [id |-> attempts + 1, crops |-> saved, skips |-> skipped]
      BY <2>4 DEF BeginEvent
    <3>2. ev'.id = attempts + 1
      BY <3>1
    <3> QED
      BY <2>1, <3>1, <3>2 DEF Begins
  <2>5. CASE RefuseEvent \/ FailCrop
    BY <2>1, <2>5 DEF RefuseEvent, FailCrop, StorageFailure, past, Leaves, GoesOn
  <2>6. ASSUME NEW field \in Fields, WriteCrop(field)
        PROVE  Leaves /\ (Gone => Gone')
    BY <2>1, <2>6 DEF WriteCrop, past, Leaves, GoesOn
  <2>7. CASE AppendLine
    <3>1. /\ phase = "crops" /\ UNCHANGED <<ev, attempts, acked>>
          /\ \/ phase' = "sync" /\ UNCHANGED state
             \/ StorageFailure
      BY <2>7 DEF AppendLine
    <3> QED
      BY <2>1, <3>1 DEF StorageFailure, Leaves, GoesOn
  <2>8. ASSUME NEW ok \in BOOLEAN, SyncLine(ok)
        PROVE  (Acknowledges \/ Leaves) /\ (Gone => Gone')
    <3>1. /\ phase = "sync" /\ UNCHANGED <<ev, attempts>>
          /\ \/ /\ acked' = Append(acked, Line(ev, event_seq + 1))
                /\ phase' = "checkpoint" /\ UNCHANGED state
             \/ StorageFailure /\ UNCHANGED acked
      BY <2>8 DEF SyncLine
    <3> QED
      BY <2>1, <3>1 DEF StorageFailure, Acknowledges, Leaves, GoesOn
  <2>9. CASE Checkpoint
    BY <2>1, <2>9 DEF Checkpoint, past, Leaves, GoesOn
  <2>10. CASE NoteSkippedTick
    BY <2>1, <2>10 DEF NoteSkippedTick, tick, past, Leaves, GoesOn
  <2>11. CASE Pause \/ Resume
    BY <2>1, <2>11 DEF Pause, Resume, tick, past, Leaves, GoesOn
  <2>12. CASE Stop \/ ForceCheckpoint \/ ReadJournal
    BY <2>1, <2>12 DEF Stop, ForceCheckpoint, ReadJournal, tick, past, Leaves, GoesOn
  <2>13. CASE WriteManifest
    BY <2>1, <2>13 DEF WriteManifest, tick, past, Leaves, GoesOn, ThreadsInv
  <2> QED
    BY <1>3, <2>2, <2>3, <2>4, <2>5, <2>6, <2>7, <2>8, <2>9, <2>10, <2>11, <2>12, <2>13
    DEF JournalStep
<1>4. CASE UNCHANGED filesVars \/ WriteSession
  BY <1>4 DEF filesVars, files, WriteSession, vars, tick, past, Leaves, GoesOn
<1>5. CASE FinalizeExports \/ RebuildExports
  BY <1>5 DEF FinalizeExports, WriteExports, RebuildExports, tick, past, Leaves, GoesOn
<1>6. CASE RecoverRun
  BY <1>6 DEF RecoverRun, Recover, tick, past, Leaves, GoesOn
<1>7. CASE Crash
  <2>1. UNCHANGED live /\ state' = "dead" /\ phase' = "none" /\ UNCHANGED <<ev, past>>
    BY <1>7 DEF Crash, Kill, LosePower, Killed
  <2> QED
    BY <2>1 DEF past, Leaves, GoesOn
<1>8. ASSUME NEW done \in 0..4,
             FailExports(done) \/ (done # 0 /\ RecoverInPart(done))
      PROVE  Leaves /\ (Gone => Gone')
  BY <1>8 DEF FailExports, RecoverInPart, tick, past, Leaves, GoesOn
<1> QED
  BY <1>1, <1>3, <1>4, <1>5, <1>6, <1>7, <1>8 DEF FilesNext
-----------------------------------------------------------------------------
(* What the previews have, besides: the row of the event being appended is in
   none of them yet.  Each failed append has cost a file at most one of the
   rows reported, or it will, as long as the file ends in a piece. *)
Lost(f) == {e \in reported : (f = "xyz" => IsPoint(e)) /\ ~Contains(preview[f], e)}

Spent(f) == Cardinality(Lost(f)) + (IF Ends(preview[f]) THEN 1 ELSE 0)

LiveInv ==
  /\ preview \in [LiveFiles -> Seq(-2..attempts)]
  /\ live_initialized \in BOOLEAN
  /\ reported \subseteq 1..attempts
  /\ export_errors \in Nat
  /\ \A f \in LiveFiles : Increasing(preview[f]) /\ Spent(f) <= export_errors
  /\ phase \in Busy =>
       /\ attempts \in Nat \ {0} /\ ev.id = attempts
       /\ \A f \in LiveFiles : Older(preview[f], attempts)

LEMMA LostIsFinite ==
  ASSUME LiveInv, attempts \in Nat, NEW f
  PROVE  IsFiniteSet(Lost(f)) /\ Cardinality(Lost(f)) \in Nat
<1>1. Lost(f) \in SUBSET (1..attempts)
  BY DEF Lost, LiveInv
<1>2. IsFiniteSet(1..attempts)
  BY FS_Interval
<1> QED
  BY <1>1, <1>2, FS_Subset, FS_CardinalityType

LEMMA OldRows ==
  ASSUME NEW n \in Nat, NEW lines \in Seq(-2..n)
  PROVE  lines \in Seq(-2..(n + 1)) /\ Older(lines, n + 1)
<1>1. \A i \in 1..Len(lines) : lines[i] \in -2..n
  OBVIOUS
<1>2. \A i \in 1..Len(lines) : lines[i] \in -2..(n + 1) /\ lines[i] < n + 1
  BY <1>1
<1>3. -2..n \subseteq -2..(n + 1)
  OBVIOUS
<1>4. lines \in Seq(-2..(n + 1))
  <2> DEFINE S == -2..n
             T == -2..(n + 1)
  <2>1. S \subseteq T /\ lines \in Seq(S)
    BY <1>3
  <2> HIDE DEF S, T
  <2>2. lines \in Seq(T)
    BY <2>1
  <2> QED
    BY <2>2 DEF T
<1> QED
  BY <1>2, <1>4 DEF Older

LEMMA LiveRow ==
  ASSUME LiveInv, RowIsAppended
  PROVE  LiveInv'
<1>1. PICK done \in 0..5, piece \in BOOLEAN, pauses \in BOOLEAN :
        AppendLiveRow(done, piece, pauses)
  BY DEF RowIsAppended
<1> DEFINE e == attempts
           a == Appends(e)
           failed == done < Len(a)
           part == SubSeq(a, 1, done) \o
                   (IF piece THEN << <<a[done + 1][1], PIECE>> >> ELSE <<>>)
<1>2. /\ e \in Nat \ {0} /\ ev.id = e /\ \A f \in LiveFiles : Older(preview[f], e)
      /\ preview \in [LiveFiles -> Seq(-2..e)]
      /\ \A f \in LiveFiles : Increasing(preview[f]) /\ Spent(f) <= export_errors
      /\ reported \subseteq 1..e /\ export_errors \in Nat
  BY <1>1 DEF AppendLiveRow, LiveInv, Busy
<1>3. /\ done <= Len(a) /\ (piece => failed)
      /\ preview' = AppendAll(part)
      /\ live_initialized' = Initialized(done)
      /\ reported' = IF done = Len(a) THEN reported \cup {e} ELSE reported
      /\ export_errors' = IF failed THEN export_errors + 1 ELSE export_errors
      /\ phase' = "none" /\ attempts' = e
  BY <1>1, <1>2 DEF AppendLiveRow, Appended, ReportedOk, EndEvent, past
<1>4. /\ a \in Seq(LiveFiles \X {HEADER, PIECE, e}) /\ Plan(a, e) /\ NoPieces(a)
      /\ \A f \in LiveFiles : (f = "xyz" => IsPoint(e)) => To(a, Len(a), f, e)
  BY <1>2, AppendsOf
<1> HIDE DEF a
<1>5. Plan(part, e) /\ (done = Len(a) => part = a)
  <2> DEFINE R == LiveFiles \X {HEADER, PIECE, e}
  <2>1. /\ \A f \in LiveFiles : <<f, PIECE>> \in R
        /\ \A y \in R : y[1] \in LiveFiles /\ y[2] \in {HEADER, PIECE, e}
        /\ a \in Seq(R)
    BY <1>4
  <2>2. done \in Nat /\ done <= Len(a) /\ (piece => done < Len(a)) /\ piece \in BOOLEAN
    BY <1>3
  <2>3. part = SubSeq(a, 1, done) \o
               (IF piece THEN << <<a[done + 1][1], PIECE>> >> ELSE <<>>)
    OBVIOUS
  <2> HIDE DEF R, part
  <2>4. e \in Nat \ {0} /\ Plan(a, e)
    BY <1>2, <1>4
  <2>5. Entries(R, e)
    BY <2>1 DEF Entries
  <2> HIDE DEF e
  <2>6. PartPlan(part, e, a, done)
    BY <2>1, <2>2, <2>3, <2>4, <2>5, PartOfAppends
  <2> QED
    BY <2>6 DEF PartPlan
<1> HIDE DEF part
<1>6. /\ preview' \in [LiveFiles -> Seq(-2..e)]
      /\ \A f \in LiveFiles : RowUpTo(preview[f], part, e, Len(part), f, preview'[f])
  BY <1>2, <1>3, <1>5, RowsAppended
<1>7. reported' \subseteq 1..e /\ export_errors' \in Nat
  BY <1>2, <1>3
<1>8. live_initialized' \in BOOLEAN
  BY <1>2, <1>3 DEF Initialized, LiveInv
<1>9. Len(a) \in Nat /\ done \in Nat
  BY <1>4
<1>10. ASSUME NEW f \in LiveFiles
       PROVE  Increasing(preview'[f]) /\ Spent(f)' <= export_errors'
  <2> DEFINE old == preview[f]
             new == preview'[f]
  <2>1. RowUpTo(old, part, e, Len(part), f, new)
    BY <1>6
  <2>2. IsFiniteSet(Lost(f)) /\ Cardinality(Lost(f)) \in Nat
    BY <1>2, LostIsFinite
  <2>3. \A other \in reported : other \in 1..e
    BY <1>2
  <2>4. \A other \in reported : Contains(old, other) => Contains(new, other)
    BY <2>1, <2>3 DEF RowUpTo
  <2>5. Cardinality(Lost(f)) + (IF Ends(old) THEN 1 ELSE 0) <= export_errors
    BY <1>2 DEF Spent
  <2>6. CASE failed
    <3>1. reported' = reported /\ export_errors' = export_errors + 1
      BY <1>3, <1>9, <2>6
    <3>2. Lost(f)' \subseteq Lost(f)
      BY <2>4, <3>1 DEF Lost
    <3>3. Cardinality(Lost(f)') <= Cardinality(Lost(f)) /\ Cardinality(Lost(f)') \in Nat
      BY <2>2, <3>2, FS_Subset, FS_CardinalityType
    <3>4. Cardinality(Lost(f)') + (IF Ends(new) THEN 1 ELSE 0) <= export_errors + 1
      <4> HIDE DEF old, new
      <4> QED
        BY <1>2, <2>2, <2>5, <3>3
    <3> QED
      BY <2>1, <3>1, <3>4 DEF RowUpTo, Spent
  <2>7. CASE ~failed
    <3>1. done = Len(a) /\ part = a
      BY <1>3, <1>5, <1>9, <2>7
    <3>2. reported' = reported \cup {e} /\ export_errors' = export_errors
      BY <1>3, <2>7, <3>1
    <3>3. /\ Ends(new) => Ends(old)
          /\ To(a, Len(a), f, e) /\ ~Contains(new, e) => Ends(old) /\ ~Ends(new)
      BY <1>4, <2>1, <3>1 DEF RowUpTo
    <3>4. Lost(f)' \subseteq Lost(f) \cup {e}
      BY <2>4, <3>2 DEF Lost
    <3>5. CASE e \in Lost(f)'
      <4>1. (f = "xyz" => IsPoint(e)) /\ ~Contains(new, e)
        BY <3>5 DEF Lost, IsPoint
      <4>2. Ends(old) /\ ~Ends(new)
        BY <1>4, <3>3, <4>1
      <4>3. /\ IsFiniteSet(Lost(f) \cup {e})
            /\ Cardinality(Lost(f) \cup {e}) <= Cardinality(Lost(f)) + 1
            /\ Cardinality(Lost(f) \cup {e}) \in Nat
        <5> DEFINE S == Lost(f)
                   T == S \cup {e}
        <5> HIDE DEF S
        <5>1. IsFiniteSet(S) /\ Cardinality(S) \in Nat
          BY <2>2 DEF S
        <5>2. IsFiniteSet(T) /\ (Cardinality(T) = Cardinality(S) \/ Cardinality(T) = Cardinality(S) + 1)
          BY <5>1, FS_AddElement
        <5> QED
          BY <5>1, <5>2 DEF S
      <4>4. Cardinality(Lost(f)') <= Cardinality(Lost(f) \cup {e}) /\ Cardinality(Lost(f)') \in Nat
        BY <3>4, <4>3, FS_Subset, FS_CardinalityType
      <4>5. Cardinality(Lost(f)') + 0 <= export_errors
        <5> HIDE DEF old, new
        <5> QED
          BY <1>2, <2>2, <2>5, <4>2, <4>3, <4>4
      <4> QED
        BY <2>1, <3>2, <4>2, <4>5 DEF RowUpTo, Spent
    <3>6. CASE e \notin Lost(f)'
      <4>1. Lost(f)' \subseteq Lost(f)
        BY <3>4, <3>6
      <4>2. Cardinality(Lost(f)') <= Cardinality(Lost(f)) /\ Cardinality(Lost(f)') \in Nat
        BY <2>2, <4>1, FS_Subset, FS_CardinalityType
      <4>3. Cardinality(Lost(f)') + (IF Ends(new) THEN 1 ELSE 0) <= export_errors
        <5> HIDE DEF old, new
        <5> QED
          BY <1>2, <2>2, <2>5, <3>3, <4>2
      <4> QED
        BY <2>1, <3>2, <4>3 DEF RowUpTo, Spent
    <3> QED
      BY <3>5, <3>6
  <2> QED
    BY <2>6, <2>7
<1> QED
  BY <1>3, <1>6, <1>7, <1>8, <1>10 DEF LiveInv, Busy

LEMMA LiveStep ==
  ASSUME LiveInv, ThreadsInv, AppendInv, [FilesNext]_filesVars
  PROVE  LiveInv'
<1>1. attempts \in Nat
  BY DEF AppendInv
<1>2. CASE RowIsAppended
  BY <1>2, LiveRow
<1>3. CASE Begins
  <2>1. /\ attempts' = attempts + 1 /\ ev'.id = attempts' /\ UNCHANGED live
        /\ attempts' \in Nat \ {0}
    BY <1>1, <1>3 DEF Begins
  <2>2. \A f \in LiveFiles : preview[f] \in Seq(-2..attempts)
    BY DEF LiveInv
  <2>3. ASSUME NEW f \in LiveFiles
        PROVE  preview[f] \in Seq(-2..attempts') /\ Older(preview[f], attempts')
    <3> DEFINE s == preview[f]
    <3>1. s \in Seq(-2..attempts)
      BY <2>2
    <3> HIDE DEF s
    <3>2. s \in Seq(-2..(attempts + 1)) /\ Older(s, attempts + 1)
      BY <1>1, <3>1, OldRows
    <3> QED
      BY <2>1, <3>2 DEF s
  <2>4. preview \in [LiveFiles -> Seq(-2..attempts')]
    BY <2>3 DEF LiveInv
  <2>5. \A f \in LiveFiles : Spent(f)' = Spent(f)
    BY <2>1 DEF Spent, Lost, live, Ends, IsPoint
  <2>6. reported \subseteq 1..attempts'
    BY <1>1, <2>1 DEF LiveInv
  <2> QED
    BY <2>1, <2>3, <2>4, <2>5, <2>6 DEF LiveInv, live, Busy
<1>4. CASE Acknowledges \/ Leaves
  <2>1. /\ UNCHANGED <<live, attempts, ev>> /\ (phase' \in Busy => phase \in Busy)
    BY <1>4 DEF Acknowledges, Leaves, GoesOn, Busy
  <2>2. \A f \in LiveFiles : Spent(f)' = Spent(f)
    BY <2>1 DEF Spent, Lost, live, Ends, IsPoint
  <2> QED
    BY <2>1, <2>2 DEF LiveInv, live
<1> QED
  BY <1>2, <1>3, <1>4, LiveMoves
-----------------------------------------------------------------------------
(* A full regeneration. *)

(* The points, one event after another. *)
Walked(p, ids) ==
  /\ p[0] = <<>>
  /\ \A k \in 0..(Len(ids) - 1) :
       p[k + 1] = IF IsPoint(ids[k + 1]) THEN Append(p[k], ids[k + 1]) ELSE p[k]
  /\ PointsOf(ids) = p[Len(ids)]

LEMMA PointsOfSteps ==
  ASSUME NEW ids, Len(ids) \in Nat
  PROVE  \E p : Walked(p, ids)
<1> DEFINE n == Len(ids)
           Def(p, k) == IF k = 0 THEN <<>>
                        ELSE IF IsPoint(ids[k]) THEN Append(p[k - 1], ids[k]) ELSE p[k - 1]
           Q(m) == \E g : g = [k \in 0..m |-> Def(g, k)]
           p == CHOOSE f : f = [k \in 0..n |-> Def(f, k)]
<1>1. Q(0)
  <2> DEFINE g == [k \in 0..0 |-> <<>>]
  <2>1. g = [k \in 0..0 |-> Def(g, k)]
    OBVIOUS
  <2> HIDE DEF g, Def
  <2> QED
    BY <2>1
<1>2. ASSUME NEW m \in Nat, Q(m) PROVE Q(m + 1)
  <2>1. PICK g : g = [k \in 0..m |-> Def(g, k)]
    BY <1>2
  <2> DEFINE h == [k \in 0..(m + 1) |-> Def(g, k)]
  <2>2. \A k \in 0..m : h[k] = g[k]
    <3> HIDE DEF Def
    <3> QED
      BY <2>1
  <2>3. \A k \in 0..(m + 1) : Def(h, k) = Def(g, k)
    <3> HIDE DEF h
    <3> QED
      BY <2>2
  <2> HIDE DEF Def
  <2>4. h = [k \in 0..(m + 1) |-> Def(h, k)]
    BY <2>3
  <2> HIDE DEF h
  <2> QED
    BY <2>4
<1>3. Q(n)
  <2> DEFINE T == {m \in 0..n : Q(m)}
  <2> HIDE DEF Q
  <2>1. 0 \in T /\ \A k \in 0..(n - 1) : k \in T => k + 1 \in T
    BY <1>1, <1>2
  <2> HIDE DEF T
  <2>2. \A k \in 0..n : k \in T
    BY <2>1, Climb
  <2> QED
    BY <2>2 DEF T
<1>4. p = [k \in 0..n |-> Def(p, k)]
  <2> HIDE DEF Def
  <2> QED
    BY <1>3
<1>5. PointsOf(ids) = p[n]
  BY DEF PointsOf
<1> HIDE DEF p
<1>6. \A k \in 0..n : p[k] = Def(p, k)
  <2> HIDE DEF Def
  <2> QED
    BY <1>4
<1>7. p[0] = <<>>
  <2>1. Def(p, 0) = <<>> /\ 0 \in 0..n
    OBVIOUS
  <2> HIDE DEF Def
  <2> QED
    BY <1>6, <2>1
<1>8. ASSUME NEW k \in 0..(n - 1)
      PROVE  p[k + 1] = IF IsPoint(ids[k + 1]) THEN Append(p[k], ids[k + 1]) ELSE p[k]
  <2>1. k + 1 \in 0..n /\ k + 1 # 0 /\ (k + 1) - 1 = k
    OBVIOUS
  <2>2. p[k + 1] = Def(p, k + 1)
    BY <1>6, <2>1
  <2> QED
    BY <2>1, <2>2
<1> QED
  BY <1>5, <1>7, <1>8 DEF Walked

(* Another event adds its point, if it has one, at the end. *)
LEMMA PointsOfAppend ==
  ASSUME NEW S, NEW ids \in Seq(S), NEW e \in S
  PROVE  PointsOf(Append(ids, e)) =
           IF IsPoint(e) THEN Append(PointsOf(ids), e) ELSE PointsOf(ids)
<1> DEFINE more == Append(ids, e)
           n == Len(ids)
<1>1. /\ n \in Nat /\ Len(more) = n + 1 /\ more[n + 1] = e
      /\ \A k \in 1..n : more[k] = ids[k]
  BY AppendProperties
<1> HIDE DEF more
<1>2. PICK p : Walked(p, ids)
  BY <1>1, PointsOfSteps
<1>3. PICK q : Walked(q, more)
  BY <1>1, PointsOfSteps
<1> DEFINE T == {k \in 0..n : q[k] = p[k]}
<1>4. 0 \in T
  BY <1>1, <1>2, <1>3 DEF Walked
<1>5. \A k \in 0..(n - 1) : k \in T => k + 1 \in T
  <2>1. ASSUME NEW k \in 0..(n - 1), q[k] = p[k] PROVE q[k + 1] = p[k + 1]
    <3>1. more[k + 1] = ids[k + 1] /\ k \in 0..(Len(more) - 1)
      BY <1>1
    <3>2. q[k + 1] = IF IsPoint(more[k + 1]) THEN Append(q[k], more[k + 1]) ELSE q[k]
      BY <1>3, <3>1 DEF Walked
    <3>3. p[k + 1] = IF IsPoint(ids[k + 1]) THEN Append(p[k], ids[k + 1]) ELSE p[k]
      BY <1>2 DEF Walked
    <3> QED
      BY <2>1, <3>1, <3>2, <3>3
  <2> QED
    BY <1>1, <2>1
<1>6. q[n] = p[n]
  <2> HIDE DEF T
  <2>1. \A k \in 0..n : k \in T
    BY <1>1, <1>4, <1>5, Climb
  <2> QED
    BY <1>1, <2>1 DEF T
<1>7. q[n + 1] = IF IsPoint(more[n + 1]) THEN Append(q[n], more[n + 1]) ELSE q[n]
  <2>1. n \in 0..(Len(more) - 1)
    BY <1>1
  <2> QED
    BY <1>3, <2>1 DEF Walked
<1>8. PointsOf(ids) = p[n] /\ PointsOf(more) = q[n + 1]
  BY <1>1, <1>2, <1>3 DEF Walked
<1>9. PointsOf(more) = IF IsPoint(e) THEN Append(PointsOf(ids), e) ELSE PointsOf(ids)
  BY <1>1, <1>6, <1>7, <1>8
<1> QED
  BY <1>9 DEF more

LEMMA NoPoints == PointsOf(<<>>) = <<>>
<1>1. PICK p : Walked(p, <<>>)
  BY PointsOfSteps
<1> QED
  BY <1>1 DEF Walked

Regenerated(ids) ==
  [wide |-> <<HEADER>> \o ids, long |-> <<HEADER>> \o ids, xyz |-> PointsOf(ids)]

Three(a, b, c) == [wide |-> a, long |-> b, xyz |-> c]

LEMMA ByFile ==
  ASSUME NEW a, NEW b, NEW c
  PROVE  /\ DOMAIN Three(a, b, c) = LiveFiles
         /\ Three(a, b, c) = [f \in LiveFiles |-> IF f = "wide" THEN a ELSE IF f = "long" THEN b ELSE c]
  BY DEF Three, LiveFiles

LEMMA EachFile ==
  ASSUME NEW a, NEW b, NEW c
  PROVE  Three(a, b, c)["wide"] = a /\ Three(a, b, c)["long"] = b /\ Three(a, b, c)["xyz"] = c
  BY DEF Three

Updates(a, b, c, x) ==
  /\ [Three(a, b, c) EXCEPT !["wide"] = x] = Three(x, b, c)
  /\ [Three(a, b, c) EXCEPT !["long"] = x] = Three(a, x, c)
  /\ [Three(a, b, c) EXCEPT !["xyz"] = x] = Three(a, b, x)

LEMMA OneFile ==
  ASSUME NEW a, NEW b, NEW c, NEW x
  PROVE  Updates(a, b, c, x)
<1> DEFINE q == Three(a, b, c)
           U(g) == [q EXCEPT ![g] = x]
           V(g) == [f \in LiveFiles |-> IF f = g THEN x
                                        ELSE IF f = "wide" THEN a ELSE IF f = "long" THEN b ELSE c]
<1>1. ASSUME NEW g \in LiveFiles PROVE U(g) = V(g)
  <2>1. U(g) = [f \in LiveFiles |-> IF f = g THEN x ELSE q[f]]
    BY ByFile
  <2>2. \A f \in LiveFiles : q[f] = IF f = "wide" THEN a ELSE IF f = "long" THEN b ELSE c
    BY ByFile
  <2> HIDE DEF q
  <2> QED
    BY <2>1, <2>2
<1>2. V("wide") = Three(x, b, c)
  BY ByFile
<1>3. V("long") = Three(a, x, c)
  BY ByFile
<1>4. V("xyz") = Three(a, b, x)
  BY ByFile DEF LiveFiles
<1>5. U("wide") = V("wide") /\ U("long") = V("long") /\ U("xyz") = V("xyz")
  BY <1>1 DEF LiveFiles
<1> QED
  BY <1>2, <1>3, <1>4, <1>5 DEF Updates

(* The rows of one more event, written behind a regeneration. *)
Unbroken(q) == \A f \in LiveFiles : ~Ends(q[f])

WritesRows(q, q1, q2, q3, e) ==
  /\ q1 = [q EXCEPT !["wide"] = Put(q["wide"], e)]
  /\ q2 = [q1 EXCEPT !["long"] = Put(q1["long"], e)]
  /\ q3 = IF IsPoint(e) THEN [q2 EXCEPT !["xyz"] = Put(q2["xyz"], e)] ELSE q2

LEMMA RowsRegenerate ==
  ASSUME NEW ids \in Seq(Nat), NEW e \in Nat, NEW q, q = Regenerated(ids), Unbroken(q),
         NEW q1, NEW q2, NEW q3, WritesRows(q, q1, q2, q3, e)
  PROVE  q3 = Regenerated(Append(ids, e))
<1> DEFINE rows == <<HEADER>> \o ids
           points == PointsOf(ids)
<1>1. q = Three(rows, rows, points)
  BY DEF Regenerated, Three
<1>2. ~Ends(rows) /\ ~Ends(points)
  BY <1>1 DEF LiveFiles, Three, Unbroken
<1>3. Put(rows, e) = Append(rows, e) /\ Put(points, e) = Append(points, e)
  <2> HIDE DEF rows, points
  <2> QED
    BY <1>2 DEF Put, Ends, Last
<1>4. Append(rows, e) = <<HEADER>> \o Append(ids, e)
  <2>1. ids \in Seq(Nat) /\ <<HEADER>> \in Seq(Nat) /\ <<e>> \in Seq(Nat)
    BY DEF HEADER
  <2>2. Append(ids, e) = ids \o <<e>>
    BY <2>1, AppendIsConcat
  <2>3. rows \in Seq(Nat)
    BY <2>1
  <2>4. Append(rows, e) = rows \o <<e>>
    <3> HIDE DEF rows
    <3> QED
      BY <2>3, AppendIsConcat
  <2>5. rows \o <<e>> = <<HEADER>> \o (ids \o <<e>>)
    BY <2>1, ConcatAssociative
  <2> QED
    BY <2>2, <2>4, <2>5
<1>5. PointsOf(Append(ids, e)) = IF IsPoint(e) THEN Append(points, e) ELSE points
  BY PointsOfAppend
<1>6. Regenerated(Append(ids, e)) =
        Three(Append(rows, e), Append(rows, e), IF IsPoint(e) THEN Append(points, e) ELSE points)
  BY <1>4, <1>5 DEF Regenerated, Three
<1> HIDE DEF rows, points
<1> DEFINE row == Append(rows, e)
           point == Append(points, e)
<1>10. Put(rows, e) = row /\ Put(points, e) = point
  BY <1>3
<1>11. Regenerated(Append(ids, e)) = Three(row, row, IF IsPoint(e) THEN point ELSE points)
  BY <1>6
<1> HIDE DEF row, point
<1>7. q1 = Three(row, rows, points)
  <2>1. q["wide"] = rows
    BY <1>1, EachFile
  <2>2. q1 = [Three(rows, rows, points) EXCEPT !["wide"] = row]
    BY <1>1, <1>10, <2>1, Zenon DEF WritesRows
  <2>3. [Three(rows, rows, points) EXCEPT !["wide"] = row] = Three(row, rows, points)
    <3>1. Updates(rows, rows, points, row)
      BY OneFile
    <3> QED
      BY <3>1 DEF Updates
  <2> QED
    BY <2>2, <2>3, Zenon
<1>8. q2 = Three(row, row, points)
  <2>1. q1["long"] = rows
    <3>1. Three(row, rows, points)["long"] = rows
      BY EachFile
    <3> QED
      BY <1>7, <3>1, Zenon
  <2>2. q2 = [Three(row, rows, points) EXCEPT !["long"] = row]
    BY <1>7, <1>10, <2>1, Zenon DEF WritesRows
  <2>3. [Three(row, rows, points) EXCEPT !["long"] = row] = Three(row, row, points)
    <3>1. Updates(row, rows, points, row)
      BY OneFile
    <3> QED
      BY <3>1 DEF Updates
  <2> QED
    BY <2>2, <2>3, Zenon
<1>9. IsPoint(e) => q3 = Three(row, row, point)
  <2>1. q2["xyz"] = points
    <3>1. Three(row, row, points)["xyz"] = points
      BY EachFile
    <3> QED
      BY <1>8, <3>1, Zenon
  <2>2. IsPoint(e) => q3 = [Three(row, row, points) EXCEPT !["xyz"] = point]
    BY <1>8, <1>10, <2>1, Zenon DEF WritesRows
  <2>3. [Three(row, row, points) EXCEPT !["xyz"] = point] = Three(row, row, point)
    <3>1. Updates(row, row, points, point)
      BY OneFile
    <3> QED
      BY <3>1 DEF Updates
  <2> QED
    BY <2>2, <2>3, Zenon
<1> QED
  BY <1>8, <1>9, <1>11 DEF WritesRows

NoLines == [f \in LiveFiles |-> <<>>]

LEMMA HeadersWritten ==
  ASSUME NEW q1, q1 = [NoLines EXCEPT !["wide"] = Put(NoLines["wide"], HEADER)],
         NEW q2, q2 = [q1 EXCEPT !["long"] = Put(q1["long"], HEADER)]
  PROVE  q2 = Regenerated(<<>>) /\ \A f \in LiveFiles : ~Ends(q2[f])
<1> DEFINE none == <<>>
           header == <<HEADER>>
<1>1. Put(none, HEADER) = header
  BY DEF Put
<1>2. NoLines = Three(none, none, none)
  BY ByFile DEF NoLines
<1>3. ~Ends(none) /\ ~Ends(header)
  BY DEF Ends, HEADER, PIECE
<1>4. Regenerated(<<>>) = Three(header, header, none)
  <2>1. header \o <<>> = header
    <3>1. header \in Seq({HEADER})
      OBVIOUS
    <3> HIDE DEF header
    <3> QED
      BY <3>1, ConcatEmptySeq
  <2> QED
    BY <2>1, NoPoints DEF Regenerated, Three
<1> HIDE DEF none, header
<1>5. Three(none, none, none)["wide"] = none /\ Three(header, none, none)["long"] = none
  BY EachFile
<1>6. q1 = Three(header, none, none)
  <2>1. q1 = [Three(none, none, none) EXCEPT !["wide"] = header]
    BY <1>1, <1>2, <1>5, Zenon
  <2>2. Updates(none, none, none, header)
    BY OneFile
  <2> QED
    BY <2>1, <2>2 DEF Updates
<1>7. q2 = Three(header, header, none)
  <2>1. q2 = [Three(header, none, none) EXCEPT !["long"] = header]
    BY <1>1, <1>5, <1>6, Zenon
  <2>2. Updates(header, none, none, header)
    BY OneFile
  <2> QED
    BY <2>1, <2>2 DEF Updates
<1>8. \A f \in LiveFiles : Three(header, header, none)[f] \in {header, none}
  BY EachFile DEF LiveFiles
<1> QED
  BY <1>3, <1>4, <1>7, <1>8

(* The appends of an event turn one regeneration into the next. *)
LEMMA RowRegenerates ==
  ASSUME NEW ids \in Seq(Nat), NEW e \in Nat \ {0}, NEW a, a = Appends(e),
         preview = IF live_initialized THEN Regenerated(ids) ELSE NoLines,
         ~live_initialized => ids = <<>>,
         \A f \in LiveFiles : ~Ends(preview[f])
  PROVE  AppendAll(a) = Regenerated(Append(ids, e))
<1>1. PICK h, n : FormOf(a, e, h, n)
  BY AppendsForm
<1>2. /\ Len(a) = h + n /\ h \in {0, 2} /\ (live_initialized <=> h = 0)
      /\ n \in {2, 3} /\ (IsPoint(e) <=> n = 3)
      /\ h = 2 => a[1] = <<"wide", HEADER>> /\ a[2] = <<"long", HEADER>>
      /\ a[h + 1] = <<"wide", e>> /\ a[h + 2] = <<"long", e>>
      /\ n = 3 => a[h + 3] = <<"xyz", e>>
  BY <1>1 DEF FormOf
<1>3. PICK p : /\ p[0] = preview
               /\ \A k \in 0..(Len(a) - 1) :
                    p[k + 1] = [p[k] EXCEPT ![a[k + 1][1]] = Put(@, a[k + 1][2])]
               /\ AppendAll(a) = p[Len(a)]
  <2>1. Len(a) \in Nat
    BY <1>2
  <2> QED
    BY <2>1, AppendAllSteps
<1>4. \A k \in 0..(Len(a) - 1) :
        p[k + 1] = [p[k] EXCEPT ![a[k + 1][1]] = Put(p[k][a[k + 1][1]], a[k + 1][2])]
  BY <1>3
<1>5. p[h] = Regenerated(ids) /\ \A f \in LiveFiles : ~Ends(p[h][f])
  <2>1. CASE h = 0
    BY <1>2, <1>3, <2>1
  <2>2. CASE h = 2
    <3>1. preview = NoLines /\ ids = <<>>
      BY <1>2, <2>2
    <3>2. 0 \in 0..(Len(a) - 1) /\ 1 \in 0..(Len(a) - 1)
      BY <1>2, <2>2
    <3>3. a[1][1] = "wide" /\ a[1][2] = HEADER /\ a[2][1] = "long" /\ a[2][2] = HEADER
      BY <1>2, <2>2
    <3>4. p[0 + 1] = [p[0] EXCEPT ![a[0 + 1][1]] = Put(p[0][a[0 + 1][1]], a[0 + 1][2])]
      BY <1>4, <3>2
    <3>5. p[1 + 1] = [p[1] EXCEPT ![a[1 + 1][1]] = Put(p[1][a[1 + 1][1]], a[1 + 1][2])]
      BY <1>4, <3>2
    <3>6. p[1] = [NoLines EXCEPT !["wide"] = Put(NoLines["wide"], HEADER)]
      BY <1>3, <3>1, <3>3, <3>4
    <3>7. p[2] = [p[1] EXCEPT !["long"] = Put(p[1]["long"], HEADER)]
      BY <3>3, <3>5
    <3>8. p[2] = Regenerated(<<>>) /\ \A f \in LiveFiles : ~Ends(p[2][f])
      BY <3>6, <3>7, HeadersWritten
    <3> QED
      BY <2>2, <3>1, <3>8
  <2> QED
    BY <1>2, <2>1, <2>2
<1>6. p[h + 1] = [p[h] EXCEPT !["wide"] = Put(p[h]["wide"], e)]
  <2>1. h \in 0..(Len(a) - 1) /\ a[h + 1][1] = "wide" /\ a[h + 1][2] = e
    BY <1>2
  <2> QED
    BY <1>4, <2>1
<1>7. p[h + 2] = [p[h + 1] EXCEPT !["long"] = Put(p[h + 1]["long"], e)]
  <2>1. /\ h + 1 \in 0..(Len(a) - 1) /\ (h + 1) + 1 = h + 2
        /\ a[h + 2][1] = "long" /\ a[h + 2][2] = e
    BY <1>2
  <2>2. p[(h + 1) + 1] = [p[h + 1] EXCEPT ![a[(h + 1) + 1][1]] =
                            Put(p[h + 1][a[(h + 1) + 1][1]], a[(h + 1) + 1][2])]
    BY <1>4, <2>1
  <2> QED
    BY <2>1, <2>2
<1>8. IsPoint(e) => p[h + 3] = [p[h + 2] EXCEPT !["xyz"] = Put(p[h + 2]["xyz"], e)]
  <2>1. ASSUME IsPoint(e)
        PROVE  /\ h + 2 \in 0..(Len(a) - 1) /\ (h + 2) + 1 = h + 3
               /\ a[h + 3][1] = "xyz" /\ a[h + 3][2] = e
    BY <1>2, <2>1
  <2>2. ASSUME IsPoint(e)
        PROVE  p[(h + 2) + 1] = [p[h + 2] EXCEPT ![a[(h + 2) + 1][1]] =
                                   Put(p[h + 2][a[(h + 2) + 1][1]], a[(h + 2) + 1][2])]
    BY <1>4, <2>1, <2>2
  <2> QED
    BY <2>1, <2>2
<1> DEFINE q3 == IF IsPoint(e) THEN [p[h + 2] EXCEPT !["xyz"] = Put(p[h + 2]["xyz"], e)]
                 ELSE p[h + 2]
<1>9. AppendAll(a) = q3
  BY <1>2, <1>3, <1>8
<1>10. q3 = IF IsPoint(e) THEN [p[h + 2] EXCEPT !["xyz"] = Put(p[h + 2]["xyz"], e)]
            ELSE p[h + 2]
  OBVIOUS
<1>11. e \in Nat
  OBVIOUS
<1> HIDE DEF q3
<1>12. q3 = Regenerated(Append(ids, e))
  <2> DEFINE q  == p[h]
             q1 == p[h + 1]
             q2 == p[h + 2]
  <2>1. q = Regenerated(ids) /\ Unbroken(q)
    BY <1>5 DEF Unbroken
  <2>2. WritesRows(q, q1, q2, q3, e)
    BY <1>6, <1>7, <1>10 DEF WritesRows
  <2> HIDE DEF q, q1, q2
  <2> QED
    BY <1>11, <2>1, <2>2, RowsRegenerate
<1> QED
  BY <1>9, <1>12
-----------------------------------------------------------------------------
(* The acknowledged events whose rows are due in the previews: between the
   acknowledgement of an event and its rows, all but that one. *)
Shown == IF phase \in {"checkpoint", "row"} THEN SubSeq(acked, 1, Len(acked) - 1) ELSE acked

RegenInv ==
  /\ phase \in {"checkpoint", "row"} => acked # <<>> /\ acked[Len(acked)].id = ev.id
  /\ export_errors = 0 /\ ~Gone =>
       /\ preview = IF live_initialized THEN Regenerated(Ids(Shown)) ELSE NoLines
       /\ live_initialized <=> Shown # <<>>

(* The last of the lines, and those before it. *)
LEMMA LastLine ==
  ASSUME NEW lines \in Seq(LineType), lines # <<>>,
         NEW front, front = SubSeq(lines, 1, Len(lines) - 1)
  PROVE  /\ front \in Seq(LineType) /\ Ids(front) \in Seq(Nat)
         /\ Ids(lines) = Append(Ids(front), lines[Len(lines)].id)
<1> DEFINE m == Len(lines) - 1
           x == lines[Len(lines)].id
<1>1. m \in Nat /\ Len(lines) = m + 1 /\ m \in 0..Len(lines)
  OBVIOUS
<1>2. front \in Seq(LineType) /\ Len(front) = m /\ \A i \in Nat : 1 <= i /\ i <= m => front[i] = lines[i]
  BY <1>1, CutLines
<1>3. Ids(front) \in Seq(Nat) /\ Len(Ids(front)) = m /\ \A i \in 1..m : Ids(front)[i] = front[i].id
  BY <1>2, IdsOfLines DEF Ids
<1>4. /\ Ids(lines) \in Seq(Nat) /\ Len(Ids(lines)) = m + 1
      /\ \A i \in 1..(m + 1) : Ids(lines)[i] = lines[i].id
  BY <1>1, IdsOfLines DEF Ids
<1> DEFINE a == Ids(front)
           b == Ids(lines)
<1>5. b[m + 1] = x /\ x \in Nat
  BY <1>1, <1>4
<1>6. \A i \in 1..m : b[i] = a[i]
  BY <1>1, <1>2, <1>3, <1>4
<1> HIDE DEF a, b, m, x
<1>7. a \in Seq(Nat) /\ Len(a) = m /\ b \in Seq(Nat) /\ Len(b) = m + 1 /\ m \in Nat
  BY <1>1, <1>3, <1>4 DEF a, b
<1>8. b = Append(a, x)
  <2>1. /\ Append(a, x) \in Seq(Nat) /\ Len(Append(a, x)) = m + 1
        /\ \A i \in 1..m : Append(a, x)[i] = a[i]
        /\ Append(a, x)[m + 1] = x
    BY <1>5, <1>7, AppendProperties
  <2> DEFINE c == Append(a, x)
  <2> HIDE DEF c
  <2>2. \A i \in 1..(m + 1) : c[i] = b[i]
    BY <1>5, <1>6, <1>7, <2>1 DEF c
  <2>3. c = b
    BY <1>7, <2>1, <2>2, SeqEqual DEF c
  <2> QED
    BY <2>3 DEF c
<1> QED
  BY <1>2, <1>3, <1>8 DEF a, b, x

LEMMA FrontOfMore ==
  ASSUME NEW lines \in Seq(LineType), NEW line, Append(lines, line) \in Seq(LineType)
  PROVE  /\ Append(lines, line) # <<>>
         /\ Append(lines, line)[Len(Append(lines, line))] = line
         /\ SubSeq(Append(lines, line), 1, Len(Append(lines, line)) - 1) = lines
<1> DEFINE more == Append(lines, line)
           n == Len(lines)
<1>1. /\ n \in Nat /\ Len(more) = n + 1 /\ more[n + 1] = line
      /\ \A i \in 1..n : more[i] = lines[i]
  OBVIOUS
<1>2. more \in Seq(LineType)
  OBVIOUS
<1> HIDE DEF more
<1> DEFINE front == SubSeq(more, 1, n)
<1>3. /\ front \in Seq(LineType) /\ Len(front) = n
      /\ \A i \in Nat : 1 <= i /\ i <= n => front[i] = more[i]
  <2>1. n \in 0..Len(more)
    BY <1>1
  <2> QED
    BY <1>2, <2>1, CutLines
<1> HIDE DEF front
<1>4. front = lines
  BY <1>1, <1>3, SeqEqual
<1>5. more # <<>> /\ Len(more) - 1 = n
  BY <1>1
<1>6. more # <<>> /\ more[Len(more)] = line /\ SubSeq(more, 1, Len(more) - 1) = lines
  BY <1>1, <1>4, <1>5 DEF front
<1> QED
  BY <1>6 DEF more

LEMMA RegenRow ==
  ASSUME RegenInv, LiveInv, ThreadsInv, AppendInv, RowIsAppended, Gone => Gone'
  PROVE  RegenInv'
<1>1. PICK done \in 0..5, piece \in BOOLEAN, pauses \in BOOLEAN :
        AppendLiveRow(done, piece, pauses)
  BY DEF RowIsAppended
<1> DEFINE e == attempts
           a == Appends(e)
           part == SubSeq(a, 1, done) \o
                   (IF piece THEN << <<a[done + 1][1], PIECE>> >> ELSE <<>>)
           failed == done < Len(a)
<1>2. phase = "row" /\ phase' = "none" /\ acked' = acked
  BY <1>1 DEF AppendLiveRow, EndEvent, past
<1>3. e \in Nat \ {0} /\ ev.id = e /\ export_errors \in Nat
  BY <1>2 DEF LiveInv, Busy
<1>4. /\ done <= Len(a) /\ (piece => failed)
      /\ preview' = AppendAll(part) /\ live_initialized' = Initialized(done)
      /\ export_errors' = IF failed THEN export_errors + 1 ELSE export_errors
  BY <1>1, <1>3 DEF AppendLiveRow, Appended
<1>5. ASSUME export_errors' = 0, ~Gone'
      PROVE  /\ preview' = Regenerated(Ids(acked)) /\ live_initialized' /\ acked # <<>>
  <2>1. PICK h, n : FormOf(a, e, h, n)
    BY <1>3, AppendsForm
  <2>2. /\ a \in Seq(LiveFiles \X {HEADER, PIECE, e}) /\ Len(a) = h + n
        /\ h \in {0, 2} /\ n \in {2, 3}
    BY <2>1 DEF FormOf
  <2> HIDE DEF a
  <2>3. done = Len(a) /\ export_errors = 0 /\ ~piece /\ ~Gone /\ done \in Nat
    BY <1>3, <1>4, <1>5, <2>2
  <2>4. live_initialized'
    <3>1. done >= 2
      BY <2>2, <2>3
    <3>2. Initialized(done)
      BY <3>1 DEF Initialized
    <3> QED
      BY <1>4, <3>2, Zenon
  <2>5. part = a
    <3> DEFINE R == LiveFiles \X {HEADER, PIECE, e}
    <3>1. part = SubSeq(a, 1, done) \o (IF piece THEN << <<a[done + 1][1], PIECE>> >> ELSE <<>>)
      OBVIOUS
    <3>2. Entries(R, e) /\ a \in Seq(R)
      BY <2>2 DEF Entries
    <3>3. Plan(a, e)
      BY <1>3, AppendsOf DEF a
    <3>4. e \in Nat \ {0} /\ done \in Nat /\ done <= Len(a) /\ piece \in BOOLEAN
          /\ (piece => done < Len(a))
      BY <1>3, <2>3
    <3> HIDE DEF R, part, e
    <3>5. PartPlan(part, e, a, done)
      BY <3>1, <3>2, <3>3, <3>4, PartOfAppends
    <3> QED
      BY <2>3, <3>5 DEF PartPlan
  <2>6. /\ acked \in Seq(LineType) /\ acked # <<>> /\ acked[Len(acked)].id = e
    BY <1>2, <1>3 DEF RegenInv, AppendInv
  <2> DEFINE ids == Ids(Shown)
  <2>7. Shown = SubSeq(acked, 1, Len(acked) - 1)
    BY <1>2 DEF Shown
  <2>8. /\ Shown \in Seq(LineType) /\ ids \in Seq(Nat) /\ Ids(acked) = Append(ids, e)
    BY <2>6, <2>7, LastLine
  <2>9. /\ preview = IF live_initialized THEN Regenerated(ids) ELSE NoLines
        /\ live_initialized <=> Shown # <<>>
    BY <2>3 DEF RegenInv
  <2>10. ~live_initialized => ids = <<>>
    BY <2>9 DEF Ids
  <2>11. ASSUME NEW f \in LiveFiles PROVE ~Ends(preview[f])
    <3>1. Spent(f) <= 0
      BY <2>3, <2>11 DEF LiveInv
    <3>2. Cardinality(Lost(f)) \in Nat
      BY <1>3, LostIsFinite
    <3> QED
      BY <3>1, <3>2 DEF Spent
  <2> HIDE DEF ids, e, part
  <2>12. AppendAll(a) = Regenerated(Append(ids, e))
    <3>1. a = Appends(e) /\ e \in Nat \ {0}
      BY <1>3 DEF a
    <3> QED
      BY <2>8, <2>9, <2>10, <2>11, <3>1, RowRegenerates
  <2> QED
    BY <1>4, <2>4, <2>5, <2>6, <2>8, <2>12
<1>6. Shown' = acked'
  BY <1>2 DEF Shown
<1>7. Ids(acked)' = Ids(acked)
  BY <1>2 DEF Ids
<1>8. export_errors' = 0 /\ ~Gone' =>
        /\ preview' = IF live_initialized' THEN Regenerated(Ids(Shown))' ELSE NoLines
        /\ live_initialized' <=> Shown' # <<>>
  BY <1>2, <1>5, <1>6, <1>7 DEF Regenerated, PointsOf, IsPoint
<1> QED
  BY <1>2, <1>8 DEF RegenInv, NoLines

LEMMA RegenKept ==
  ASSUME RegenInv, UNCHANGED live, Gone => Gone',
         ~Gone' => Shown' = Shown,
         phase' \in {"checkpoint", "row"} => acked' # <<>> /\ acked'[Len(acked')].id = ev'.id
  PROVE  RegenInv'
<1>1. ~Gone' => Ids(Shown)' = Ids(Shown)
  BY DEF Ids
<1>2. ~Gone' => Regenerated(Ids(Shown))' = Regenerated(Ids(Shown))
  BY <1>1 DEF Regenerated, PointsOf, IsPoint
<1> QED
  BY <1>2 DEF RegenInv, live, NoLines

LEMMA RegenStep ==
  ASSUME RegenInv, LiveInv, ThreadsInv, AppendInv, AppendInv', [FilesNext]_filesVars
  PROVE  RegenInv'
<1>1. /\ RowIsAppended \/ Begins \/ Acknowledges \/ Leaves
      /\ Gone => Gone'
  BY LiveMoves
<1>2. CASE RowIsAppended
  BY <1>1, <1>2, RegenRow
<1>3. CASE Begins
  <2>1. UNCHANGED live /\ Shown' = Shown /\ phase' \notin {"checkpoint", "row"}
    BY <1>3 DEF Begins, Shown
  <2> QED
    BY <1>1, <2>1, RegenKept
<1>4. CASE Acknowledges
  <2> DEFINE line == Line(ev, event_seq + 1)
  <2>1. /\ phase = "sync" /\ phase' = "checkpoint" /\ acked' = Append(acked, line)
        /\ UNCHANGED <<live, ev>>
    BY <1>4 DEF Acknowledges
  <2>2. line.id = ev.id
    BY DEF Line
  <2>3. acked \in Seq(LineType) /\ Append(acked, line) \in Seq(LineType)
    BY <2>1 DEF AppendInv
  <2> HIDE DEF line
  <2>4. /\ Append(acked, line) # <<>>
        /\ Append(acked, line)[Len(Append(acked, line))] = line
        /\ SubSeq(Append(acked, line), 1, Len(Append(acked, line)) - 1) = acked
    BY <2>3, FrontOfMore
  <2>5. Shown = acked /\ Shown' = SubSeq(acked', 1, Len(acked') - 1)
    BY <2>1 DEF Shown
  <2>6. Shown' = Shown /\ acked' # <<>> /\ acked'[Len(acked')].id = ev'.id
    BY <2>1, <2>2, <2>4, <2>5
  <2> QED
    BY <1>1, <2>1, <2>6, RegenKept
<1>5. CASE Leaves
  <2>1. UNCHANGED <<live, ev, acked>> /\ GoesOn
    BY <1>5 DEF Leaves
  <2>2. phase' \in {"checkpoint", "row"} => phase \in {"checkpoint", "row"}
    BY <2>1 DEF GoesOn
  <2>3. ~Gone' /\ phase \in {"checkpoint", "row"} => phase' \in {"checkpoint", "row"}
    BY <2>1 DEF GoesOn
  <2>4. ~Gone' => Shown' = Shown
    BY <2>1, <2>2, <2>3 DEF Shown
  <2>5. phase' \in {"checkpoint", "row"} => acked' # <<>> /\ acked'[Len(acked')].id = ev'.id
    BY <2>1, <2>2 DEF RegenInv
  <2> QED
    BY <1>1, <2>1, <2>4, <2>5, RegenKept
<1> QED
  BY <1>1, <1>2, <1>3, <1>4, <1>5
-----------------------------------------------------------------------------
PreviewInv == FilesInv /\ LiveInv /\ RegenInv

LEMMA PreviewInitInv == FilesInit => PreviewInv
<1> SUFFICES ASSUME FilesInit PROVE PreviewInv
  OBVIOUS
<1>1. /\ phase = "none" /\ attempts = 0 /\ acked = <<>> /\ reported = {}
      /\ live_initialized = FALSE /\ export_errors = 0
      /\ preview = [f \in LiveFiles |-> <<>>]
  BY DEF FilesInit, Init
<1>2. \A f \in LiveFiles : preview[f] = <<>>
  BY <1>1
<1>3. \A f \in LiveFiles : Lost(f) = {} /\ Spent(f) = 0 /\ Increasing(preview[f])
  <2>1. \A f \in LiveFiles : Lost(f) = {} /\ ~Ends(preview[f])
    BY <1>1, <1>2 DEF Lost, Ends
  <2>2. Cardinality({}) = 0
    BY FS_EmptySet
  <2>3. \A f \in LiveFiles : Spent(f) = 0
    BY <2>1, <2>2 DEF Spent
  <2>4. \A f \in LiveFiles : Increasing(preview[f])
    BY <1>2 DEF Increasing
  <2> QED
    BY <2>1, <2>3, <2>4
<1>4. LiveInv
  <2>1. preview \in [LiveFiles -> Seq(-2..attempts)]
    BY <1>1
  <2>2. live_initialized \in BOOLEAN /\ reported \subseteq 1..attempts /\ export_errors \in Nat
    BY <1>1
  <2>3. phase \notin Busy
    BY <1>1 DEF Busy
  <2>4. \A f \in LiveFiles : Increasing(preview[f]) /\ Spent(f) <= export_errors
    BY <1>1, <1>3
  <2> QED
    BY <2>1, <2>2, <2>3, <2>4 DEF LiveInv
<1>5. RegenInv
  <2>1. Shown = <<>>
    BY <1>1 DEF Shown
  <2> QED
    BY <1>1, <2>1 DEF RegenInv, NoLines
<1> QED
  BY <1>4, <1>5, FilesInitInv DEF PreviewInv

LEMMA PreviewStep == PreviewInv /\ [FilesNext]_filesVars => PreviewInv'
<1> SUFFICES ASSUME PreviewInv, [FilesNext]_filesVars PROVE PreviewInv'
  OBVIOUS
<1>1. FilesInv' /\ ThreadsInv /\ AppendInv /\ AppendInv'
  BY FilesStep DEF PreviewInv, FilesInv
<1>2. LiveInv'
  BY <1>1, LiveStep DEF PreviewInv
<1>3. RegenInv'
  BY <1>1, RegenStep DEF PreviewInv
<1> QED
  BY <1>1, <1>2, <1>3 DEF PreviewInv

THEOREM PreviewInvariance == FilesSpec => []PreviewInv
  BY PreviewInitInv, PreviewStep, PTL DEF FilesSpec

(* A failed append costs a preview at most one of the rows reported. *)
THEOREM RowsAreKept == FilesSpec => []ReportedRowsAreKept
<1>1. PreviewInv => ReportedRowsAreKept
  <2> SUFFICES ASSUME LiveInv, AppendInv PROVE ReportedRowsAreKept
    BY DEF PreviewInv, FilesInv
  <2>1. ASSUME NEW f \in LiveFiles
        PROVE  Cardinality(Lost(f)) <= export_errors /\ Increasing(preview[f])
    <3>1. Cardinality(Lost(f)) \in Nat /\ export_errors \in Nat
      BY LostIsFinite DEF AppendInv, LiveInv
    <3> QED
      BY <3>1 DEF LiveInv, Spent
  <2> QED
    BY <2>1 DEF ReportedRowsAreKept, Lost, Increasing
<1> QED
  BY <1>1, PreviewInvariance, PTL

(* Without failed appends the previews are what would be regenerated. *)
THEOREM PreviewsAreRegenerations == FilesSpec => []PreviewIsRegeneration
<1>1. PreviewInv => PreviewIsRegeneration
  <2> SUFFICES ASSUME RegenInv, export_errors = 0, ~Gone, phase \notin {"checkpoint", "row"}
               PROVE  preview = IF acked = <<>> THEN NoLines ELSE Regenerated(Ids(acked))
    BY DEF PreviewInv, PreviewIsRegeneration, Gone, NoLines, Regenerated
  <2>1. Shown = acked
    BY DEF Shown
  <2> QED
    BY <2>1 DEF RegenInv
<1> QED
  BY <1>1, PreviewInvariance, PTL
=============================================================================
