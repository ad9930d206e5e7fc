------------------------------ MODULE RunJournal ------------------------------
(***************************************************************************)
(* The files of one run (src/screen2xyz_m2/journal.py, recovery.py) and    *)
(* the two threads that touch them: the tick thread, which appends an      *)
(* event in several file operations, any of which may fail, and the Tk     *)
(* thread, which on Stop waits a quarter of a second for the tick and then *)
(* finalizes whether or not it ended.  The process may be killed, and the  *)
(* machine may lose power, between any two operations; `recover` then      *)
(* works from the files.                                                   *)
(***************************************************************************)
EXTENDS Integers, Sequences, SequencesExt

CONSTANTS
  Fields,       \* the fields whose crops an event may save
  MaxAttempts,  \* bound: events ever begun
  MaxSkips      \* bound: skipped ticks ever noted

ASSUME JournalAssumption == MaxAttempts \in Nat /\ MaxSkips \in Nat

VARIABLES
  state,       \* the session's state, from RECORDING on
  phase,       \* the tick thread: where it is in tick() and append_event()
  ev,          \* the event being appended
  todo,        \* its crops not yet written
  event_seq,   \* RunJournal.event_seq
  skipped,     \* skipped_since_last_event
  ui,          \* the Tk thread inside controller.stop()
  events,      \* what finalize or recover read from the journal
  (* Files. *)
  file,        \* events.jsonl, by lines
  synced,      \* how many of its lines fsync has covered
  crops,       \* crops/<seq>/<field>.png: the event whose pixels they are
  checkpoint,  \* last_event_seq of state_checkpoint.json, 0 if there is none
  exported,    \* the events of the exports
  manifest,    \* events.jsonl as hashed by the manifest
  (* History. *)
  attempts,    \* events begun so far
  acked,       \* events append_event returned for
  noted,       \* ticks skipped so far
  told,        \* skipped ticks reported by acknowledged events
  drained,     \* no tick was in flight when Stop went on
  spoilt       \* a line was written behind the bytes of a failed append

tick  == <<phase, ev, todo, event_seq>>
final == <<ui, events, exported, manifest, drained>>
past  == <<attempts, acked, told, spoilt>>
disk  == <<file, synced, crops, checkpoint>>
vars  == <<state, tick, skipped, final, disk, past, noted>>

Phases == {"none", "capture", "crops", "line", "sync", "checkpoint", "row"}

NoCrops == [place \in {} |-> 0]
NoFinal == <<"none">>
NoEvent == [id |-> 0, crops |-> {}, skips |-> 0]
-----------------------------------------------------------------------------
(* A line of the journal: its text is a whole event or a piece of one, and
   it may lack its newline, in which case what is written next joins it. *)
Line(e, seq) == [seq |-> seq, id |-> e.id, crops |-> e.crops,
                 whole |-> TRUE, ended |-> TRUE]
Unended(line) == [line EXCEPT !.ended = FALSE]
Torn(line) == [line EXCEPT !.whole = FALSE, !.ended = FALSE]

Written(f, line) ==
  IF f # <<>> /\ ~Last(f).ended
  THEN Append(Front(f), [line EXCEPT !.whole = FALSE])
  ELSE Append(f, line)

(* As if a piece of a line at the end were an error like any other. *)
CompleteOnly(f) == f

(* read_journal: an unterminated last line may be in pieces, any other fails
   the whole read, as does a sequence number out of step. *)
Complete(f) == IF f # <<>> /\ ~Last(f).whole /\ ~Last(f).ended
               THEN Front(f) ELSE f
Readable(f) == \A i \in 1..Len(Complete(f)) :
                 Complete(f)[i].whole /\ Complete(f)[i].seq = i
EventIds(f) == [i \in 1..Len(Complete(f)) |-> Complete(f)[i].id]
-----------------------------------------------------------------------------
(* The tick thread. *)

(* _storage_pause, and the tick ends; a session being stopped is not
   paused. *)
StorageFailure ==
  /\ phase' = "none"
  /\ state' = IF state = "RECORDING" THEN "PAUSED" ELSE state

(* As if Stop left the scheduler running and tick() did not look at the
   state. *)
MayTickOn == state # "dead"

MayTick == state = "RECORDING"

BeginTick ==
  /\ MayTick /\ phase = "none"
  /\ phase' = "capture"
  /\ UNCHANGED <<state, ev, todo, event_seq, skipped, final, disk, past, noted>>

(* The tick retains nothing, and may end in an automatic pause. *)
NothingToRetain(pauses) ==
  /\ phase = "capture"
  /\ phase' = "none"
  /\ state' = IF pauses /\ state = "RECORDING" THEN "PAUSED" ELSE state
  /\ UNCHANGED <<ev, todo, event_seq, skipped, final, disk, past, noted>>

(* The event is built, with the skip count peeked, and append_event begins.
   The event of a failed tick has no crops; a worker torn down by Stop makes
   such a tick of one that was waiting for it. *)
BeginEvent(saved) ==
  /\ phase = "capture"
  /\ attempts < MaxAttempts
  /\ attempts' = attempts + 1
  /\ ev' = [id |-> attempts + 1, crops |-> saved, skips |-> skipped]
  /\ todo' = saved
  /\ phase' = "crops"
  /\ UNCHANGED <<state, event_seq, skipped, final, disk, acked, told, spoilt, noted>>

(* DISK_STOP_BYTES was reached. *)
RefuseEvent ==
  /\ phase = "crops" /\ todo = ev.crops
  /\ StorageFailure
  /\ UNCHANGED <<ev, todo, event_seq, skipped, final, disk, past, noted>>

(* Temporary file, fsync, replace; the place is that of the next event. *)
WriteCrop(field) ==
  /\ phase = "crops" /\ field \in todo
  /\ crops' = [place \in DOMAIN crops \cup {<<event_seq + 1, field>>} |->
                 IF place = <<event_seq + 1, field>> THEN ev.id
                 ELSE crops[place]]
  /\ todo' = todo \ {field}
  /\ UNCHANGED <<state, phase, ev, event_seq, skipped, final, file, synced,
                 checkpoint, past, noted>>

FailCrop ==
  /\ phase = "crops" /\ todo # {}
  /\ \/ StorageFailure
     \/ phase' = "none" /\ UNCHANGED state  \* the OSError of mkdir
  /\ UNCHANGED <<ev, todo, event_seq, skipped, final, disk, past, noted>>

(* As if the line were appended before the crops it refers to. *)
ReadyAtOnce == TRUE

Ready == todo = {}

(* write and flush; on failure any part of the line may have got there. *)
AppendLine ==
  /\ phase = "crops" /\ Ready
  /\ LET line     == Line(ev, event_seq + 1)
         leftover == Len(file) > Len(acked)
     IN  \/ /\ file' = Written(file, line)
            /\ phase' = "sync"
            /\ spoilt' = (spoilt \/ leftover)
            /\ UNCHANGED state
         \/ /\ \/ UNCHANGED <<file, spoilt>>
               \/ \E part \in {line, Unended(line), Torn(line)} :
                    /\ file' = Written(file, part)
                    /\ spoilt' = (spoilt \/ leftover)
            /\ StorageFailure
  /\ UNCHANGED <<ev, todo, event_seq, skipped, final, synced, crops, checkpoint,
                 attempts, acked, told, noted>>

(* The sequence number is committed only once the line is durable. *)
Advanced(ok) == IF ok THEN event_seq + 1 ELSE event_seq

(* fsync, and if it succeeds append_event has kept its promise. *)
SyncLine(ok) ==
  /\ phase = "sync"
  /\ event_seq' = Advanced(ok)
  /\ IF ok
     THEN /\ synced' = Len(file)
          /\ acked' = Append(acked, Line(ev, event_seq + 1))
          /\ told' = told + ev.skips
          /\ phase' = "checkpoint"
          /\ UNCHANGED state
     ELSE StorageFailure /\ UNCHANGED <<synced, acked, told>>
  /\ UNCHANGED <<ev, todo, skipped, final, file, crops, checkpoint, attempts,
                 spoilt, noted>>

CheckpointSeq == event_seq

(* maybe_checkpoint: not due, failed, or replaced. *)
Checkpoint ==
  /\ phase = "checkpoint"
  /\ checkpoint' \in {checkpoint, CheckpointSeq}
  /\ phase' = "row"
  /\ UNCHANGED <<state, ev, todo, event_seq, skipped, final, file, synced, crops,
                 past, noted>>

(* As if the counter were reset to 0. *)
ConsumedAll(count) == 0

Consumed(count) == IF skipped > count THEN skipped - count ELSE 0

(* _consume_skipped_since_last, the rows of the live preview, and the end of
   the tick, which may be an automatic pause. *)
EndEvent(pauses) ==
  /\ phase = "row"
  /\ skipped' = Consumed(ev.skips)
  /\ phase' = "none"
  /\ state' = IF pauses /\ state = "RECORDING" THEN "PAUSED" ELSE state
  /\ UNCHANGED <<ev, todo, event_seq, final, disk, past, noted>>

(* The scheduler's thread: a deadline passed with a tick in flight. *)
NoteSkippedTick ==
  /\ phase # "none" /\ state \in {"RECORDING", "PAUSED"}
  /\ noted < MaxSkips
  /\ skipped' = skipped + 1
  /\ noted' = noted + 1
  /\ UNCHANGED <<state, tick, final, disk, past>>
-----------------------------------------------------------------------------
(* The Tk thread.  Pause and Resume refuse while a tick is in flight. *)

Pause ==
  /\ state = "RECORDING" /\ phase = "none"
  /\ state' = "PAUSED"
  /\ UNCHANGED <<tick, skipped, final, disk, past, noted>>

Resume ==
  /\ state = "PAUSED" /\ phase = "none"
  /\ state' = "RECORDING"
  /\ UNCHANGED <<tick, skipped, final, disk, past, noted>>

(* Stop and Emergency stop: the scheduler dispatches no more, the drain ends
   or times out, the worker is gone. *)
Stop ==
  /\ state \in {"RECORDING", "PAUSED"}
  /\ state' = "STOPPING"
  /\ ui' = "checkpoint"
  /\ drained' = (phase = "none")
  /\ UNCHANGED <<tick, skipped, events, exported, manifest, disk, past, noted>>

(* finalize: the checkpoint is forced, *)
ForceCheckpoint ==
  /\ ui = "checkpoint"
  /\ checkpoint' \in {checkpoint, CheckpointSeq}
  /\ ui' = "read"
  /\ UNCHANGED <<state, tick, skipped, events, exported, manifest, drained, file,
                 synced, crops, past, noted>>

(* the journal is read, and may be refused, *)
ReadJournal ==
  /\ ui = "read"
  /\ IF Readable(file)
     THEN ui' = "export" /\ events' = EventIds(file)
     ELSE ui' = "failed" /\ UNCHANGED events
  /\ UNCHANGED <<state, tick, skipped, exported, manifest, drained, disk, past, noted>>

(* the exports are written from what was read, *)
WriteExports ==
  /\ ui = "export"
  /\ exported' = events
  /\ ui' = "manifest"
  /\ UNCHANGED <<state, tick, skipped, events, manifest, drained, disk, past, noted>>

(* and the manifest hashes every file of the run. *)
WriteManifest ==
  /\ ui = "manifest"
  /\ manifest' = file
  /\ ui' = "done"
  /\ state' = "FINALIZED"
  /\ UNCHANGED <<tick, skipped, events, exported, drained, disk, past, noted>>
-----------------------------------------------------------------------------
(* The process ends, or is ended, with whatever the files hold; a line being
   written may be there in part. *)
Killed(f) ==
  /\ state # "dead"
  /\ state' = "dead"
  /\ phase' = "none"
  /\ ui' = "none"
  /\ file' = f
  /\ UNCHANGED <<ev, todo, event_seq, skipped, events, exported, manifest,
                 drained, crops, checkpoint, past, noted>>

Kill ==
  /\ \/ Killed(file)
     \/ /\ phase = "crops" /\ Ready
        /\ Killed(Written(file, Torn(Line(ev, event_seq + 1))))
  /\ UNCHANGED synced

(* What no fsync covered may be gone, wholly or in part. *)
LosePower ==
  \E n \in synced..Len(file) :
    /\ \/ Killed(SubSeq(file, 1, n))
       \/ n < Len(file) /\ Killed(Append(SubSeq(file, 1, n), Torn(file[n + 1])))
    /\ synced' = n

(* recover_run: the exports again, from the journal; the report of a
   checkpoint ahead of it is CheckpointNeverLeads' subject. *)
Recover ==
  /\ state = "dead"
  /\ Readable(file)
  /\ events' = EventIds(file)
  /\ exported' = EventIds(file)
  /\ manifest' = file
  /\ state' = "recovered"
  /\ UNCHANGED <<tick, skipped, ui, drained, disk, past, noted>>
-----------------------------------------------------------------------------
Init ==
  /\ state = "RECORDING" /\ phase = "none"
  /\ ev = NoEvent /\ todo = {} /\ event_seq = 0 /\ skipped = 0
  /\ ui = "none" /\ events = <<>>
  /\ file = <<>> /\ synced = 0 /\ crops = NoCrops /\ checkpoint = 0
  /\ exported = NoFinal /\ manifest = NoFinal
  /\ attempts = 0 /\ acked = <<>> /\ noted = 0 /\ told = 0
  /\ drained = FALSE /\ spoilt = FALSE

Next ==
  \/ BeginTick
  \/ \E pauses \in BOOLEAN : NothingToRetain(pauses) \/ EndEvent(pauses)
  \/ \E saved \in SUBSET Fields : BeginEvent(saved)
  \/ RefuseEvent
  \/ \E field \in Fields : WriteCrop(field)
  \/ FailCrop
  \/ AppendLine
  \/ \E ok \in BOOLEAN : SyncLine(ok)
  \/ Checkpoint
  \/ NoteSkippedTick
  \/ Pause \/ Resume \/ Stop
  \/ ForceCheckpoint \/ ReadJournal \/ WriteExports \/ WriteManifest
  \/ Kill \/ LosePower \/ Recover

Spec == Init /\ [][Next]_vars
-----------------------------------------------------------------------------
(* Properties. *)

(* The types; and the sequence number is the number of events acknowledged. *)
TypeOK ==
  /\ state \in {"RECORDING", "PAUSED", "STOPPING", "FINALIZED", "dead", "recovered"}
  /\ phase \in Phases
  /\ ui \in {"none", "checkpoint", "read", "export", "manifest", "done", "failed"}
  /\ todo \subseteq ev.crops /\ ev.crops \subseteq Fields
  /\ event_seq = Len(acked) /\ skipped \in 0..MaxSkips
  /\ synced \in 0..Len(file)
  /\ checkpoint \in 0..MaxAttempts

(* Durability: whatever is killed or loses power when, an event that
   append_event returned for is read back, in its place, by finalize and by
   recover; this needs that no line was ever written behind the bytes of a
   failed append (see JournalReadable). *)
AcknowledgedSurvives ==
  ~spoilt => /\ Readable(file)
             /\ IsPrefix([i \in 1..Len(acked) |-> acked[i].id], EventIds(file))

(* The checkpoint never leads the journal it is a checkpoint of. *)
CheckpointNeverLeads == ~spoilt => checkpoint <= Len(EventIds(file))

(* No acknowledged event claims a crop that is not there, or is that of
   another event. *)
CropsBackEvents ==
  \A i \in 1..Len(acked) : \A field \in acked[i].crops :
    /\ <<i, field>> \in DOMAIN crops
    /\ crops[<<i, field>>] = acked[i].id

(* Every skipped tick is reported by exactly one acknowledged event or is
   still to be reported, whatever appends failed and whenever it was noted. *)
SkipsConserved ==
  state # "dead" /\ state # "recovered" /\ phase \notin {"checkpoint", "row"}
    => told + skipped = noted

(* A run stopped with no tick in flight is final: its exports hold exactly
   the journal's events, and the journal still is what the manifest hashed.
   That the acknowledged events are among them is AcknowledgedSurvives. *)
DrainedRunIsFinal ==
  state = "FINALIZED" /\ drained =>
    /\ manifest = file
    /\ exported = EventIds(file)

(* A finalized run is final: its journal does not change once the manifest
   holds its hash.
   The code does not keep this. *)
FinalizedRunIsFinal == state = "FINALIZED" => manifest = file

(* The journal can be read, by Stop and by recover, whatever storage failure
   the session was paused for and resumed after. *)
JournalReadable == Readable(file)
=============================================================================
