------------------------------- MODULE RunFiles -------------------------------
(***************************************************************************)
(* The files beside the journal of a run: session.json, which start_       *)
(* recording writes before the first tick and recover needs; the live      *)
(* previews, to which the tick thread appends the rows of each event it    *)
(* journaled, in up to five appends, any of which may fail; and the        *)
(* official exports, which Stop, the Rebuild button and recover write one  *)
(* after another (src/screen2xyz_m2/journal.py, exports.py, recovery.py).  *)
(***************************************************************************)
EXTENDS RunJournal

CONSTANTS
  Points,     \* the events with a value on each of the three axes
  MaxErrors   \* bound: rows of the live previews that fail

ASSUME FilesAssumption == Points \subseteq 1..MaxAttempts /\ MaxErrors \in Nat

VARIABLES
  session,           \* session.json: "none", a "piece", or "whole"
  preview,           \* the live files, by lines
  live_initialized,  \* _live_initialized
  reported,          \* events whose live rows were reported written
  export_errors,     \* diagnostics["export_errors"]
  official           \* the official exports but the wide one, which is exported

live  == <<preview, live_initialized, reported, export_errors>>
files == <<session, live, official>>
filesVars == <<vars, files>>

LiveFiles == {"wide", "long", "xyz"}
HEADER == 0    \* a line of a live file is this, an event's rows, ...
PIECE  == -1   \* ... a piece without its newline, ...
SPOILT == -2   \* ... or a piece and what was appended to it

Missing == <<-1>>  \* an export that was never written

Ids(seq) == [i \in 1..Len(seq) |-> seq[i].id]
IsPoint(e) == e \in Points
PointsOf(ids) ==
  LET upTo[k \in 0..Len(ids)] ==
        IF k = 0 THEN <<>>
        ELSE IF IsPoint(ids[k]) THEN Append(upTo[k - 1], ids[k]) ELSE upTo[k - 1]
  IN  upTo[Len(ids)]
-----------------------------------------------------------------------------
(* start_recording, which has moved the machine to RECORDING: session.json is
   written in place, and nothing retries it. *)
WriteSession ==
  /\ session = "none" /\ state = "RECORDING"
  /\ session' \in {"piece", "whole"}
  /\ UNCHANGED <<vars, live, official>>
-----------------------------------------------------------------------------
(* append_live_row *)

Put(lines, x) ==
  IF lines # <<>> /\ Last(lines) = PIECE
  THEN Append(Front(lines), IF x = PIECE THEN PIECE ELSE SPOILT)
  ELSE Append(lines, x)

Headers == << <<"wide", HEADER>>, <<"long", HEADER>> >>
Rows(e) == << <<"wide", e>>, <<"long", e>> >> \o
           (IF IsPoint(e) THEN << <<"xyz", e>> >> ELSE <<>>)
Appends(e) == (IF live_initialized THEN <<>> ELSE Headers) \o Rows(e)

AppendAll(appends) ==
  LET upTo[k \in 0..Len(appends)] ==
        IF k = 0 THEN preview
        ELSE [upTo[k - 1] EXCEPT ![appends[k][1]] = Put(@, appends[k][2])]
  IN  upTo[Len(appends)]

(* The first of the appends are done, and the next perhaps in part. *)
Appended(appends, done, piece) ==
  AppendAll(SubSeq(appends, 1, done) \o
            (IF piece THEN << <<appends[done + 1][1], PIECE>> >> ELSE <<>>))

(* As if the flag were forgotten. *)
InitializedNever(done) == live_initialized

Initialized(done) == live_initialized \/ done >= 2

(* As if a row were reported before all its files had it. *)
ReportedAnyway(done) == TRUE

ReportedOk(done) == done = Len(Appends(ev.id))

(* The first appends are done; the next, if there is one, failed, and may
   have left a piece behind.  The end of the tick follows. *)
AppendLiveRow(done, piece, pauses) ==
  LET appends == Appends(ev.id)
      failed  == done < Len(appends)
  IN  /\ phase = "row"
      /\ done <= Len(appends)
      /\ piece => failed
      /\ failed => export_errors < MaxErrors
      /\ preview' = Appended(appends, done, piece)
      /\ live_initialized' = Initialized(done)
      /\ reported' = IF ReportedOk(done) THEN reported \cup {ev.id} ELSE reported
      /\ export_errors' = IF failed THEN export_errors + 1 ELSE export_errors
      /\ EndEvent(pauses)
      /\ UNCHANGED <<session, official>>
-----------------------------------------------------------------------------
(* finalize_exports: wide, long, points and summary, in this order, each
   replaced as a whole. *)

OfficialOf(ids) ==
  [long |-> ids, xyz |-> PointsOf(ids), summary |-> <<Len(ids)>>]

(* As if what an earlier attempt left were kept. *)
ReplacedIfMissing(ids, done) ==
  [f \in {"long", "xyz", "summary"} |->
     IF official[f] = Missing THEN OfficialOf(ids)[f] ELSE official[f]]

Replaced(ids, done) ==
  [f \in {"long", "xyz", "summary"} |->
     IF (f = "long" /\ done >= 2) \/ (f = "xyz" /\ done >= 3) \/ done >= 4
     THEN OfficialOf(ids)[f] ELSE official[f]]

FinalizeExports ==
  /\ WriteExports
  /\ official' = Replaced(events, 4)
  /\ UNCHANGED <<session, live>>

(* One of the files, the manifest the last of them, cannot be written. *)
FailExports(done) ==
  /\ ui = "export"
  /\ exported' = IF done >= 1 THEN events ELSE exported
  /\ official' = Replaced(events, done)
  /\ ui' = "failed"
  /\ UNCHANGED <<state, tick, skipped, events, manifest, drained, disk, past, noted,
                 session, live>>

(* "Rebuild exports now" runs recover in the process; a tick may still be in
   flight. *)
RebuildExports ==
  /\ ui = "failed" /\ session = "whole" /\ Readable(file)
  /\ events' = EventIds(file)
  /\ exported' = EventIds(file)
  /\ official' = Replaced(EventIds(file), 4)
  /\ manifest' = file
  /\ ui' = "done"
  /\ UNCHANGED <<state, tick, skipped, drained, disk, past, noted, session, live>>

(* recover, which needs session.json, and may itself be interrupted. *)
RecoverRun ==
  /\ session = "whole" /\ Recover
  /\ official' = Replaced(EventIds(file), 4)
  /\ UNCHANGED <<session, live>>

RecoverInPart(done) ==
  /\ state = "dead" /\ session = "whole" /\ Readable(file)
  /\ exported' = EventIds(file)
  /\ official' = Replaced(EventIds(file), done)
  /\ UNCHANGED <<state, tick, skipped, ui, events, manifest, drained, disk, past, noted,
                 session, live>>
-----------------------------------------------------------------------------
(* The process is gone; session.json was never synced.  What a crash leaves of
   a live row is not modelled: nothing reads the previews again. *)
Crash ==
  /\ \/ Kill /\ UNCHANGED session
     \/ LosePower /\ session' \in (IF session = "whole" THEN {"whole", "piece"} ELSE {session})
  /\ UNCHANGED <<live, official>>

(* What touches the journal alone. *)
JournalStep ==
  /\ session = "whole"
  /\ \/ BeginTick
     \/ \E pauses \in BOOLEAN : NothingToRetain(pauses)
     \/ \E saved \in SUBSET Fields : BeginEvent(saved)
     \/ RefuseEvent
     \/ \E field \in Fields : WriteCrop(field)
     \/ FailCrop
     \/ AppendLine
     \/ \E ok \in BOOLEAN : SyncLine(ok)
     \/ Checkpoint
     \/ NoteSkippedTick
     \/ Pause \/ Resume \/ Stop
     \/ ForceCheckpoint \/ ReadJournal \/ WriteManifest
  /\ UNCHANGED files

FilesInit ==
  /\ Init
  /\ session = "none"
  /\ preview = [f \in LiveFiles |-> <<>>]
  /\ live_initialized = FALSE /\ reported = {} /\ export_errors = 0
  /\ official = [f \in {"long", "xyz", "summary"} |-> Missing]

FilesNext ==
  \/ WriteSession
  \/ JournalStep
  \/ \E done \in 0..5, piece \in BOOLEAN, pauses \in BOOLEAN : AppendLiveRow(done, piece, pauses)
  \/ FinalizeExports \/ RebuildExports \/ RecoverRun \/ Crash
  \/ \E done \in 0..4 : FailExports(done) \/ (done # 0 /\ RecoverInPart(done))

FilesSpec == FilesInit /\ [][FilesNext]_filesVars
-----------------------------------------------------------------------------
(* Properties. *)

(* While no append failed, the previews are what a full regeneration from the
   acknowledged events would produce, whatever appends to the journal failed
   and however often the session was paused. *)
PreviewIsRegeneration ==
  export_errors = 0 /\ state \notin {"dead", "recovered"} /\ phase \notin {"checkpoint", "row"} =>
    preview = IF acked = <<>> THEN [f \in LiveFiles |-> <<>>]
              ELSE [wide |-> <<HEADER>> \o Ids(acked), long |-> <<HEADER>> \o Ids(acked),
                    xyz |-> PointsOf(Ids(acked))]

(* Rows are never repeated or reordered, and a failed append, wherever it
   broke off, costs each preview at most one of the rows reported written. *)
ReportedRowsAreKept ==
  \A f \in LiveFiles :
    LET lines == preview[f]
        lost  == {e \in reported : (f = "xyz" => IsPoint(e)) /\ ~Contains(lines, e)}
    IN  /\ Cardinality(lost) <= export_errors
        /\ \A i, j \in 1..Len(lines) : i < j /\ lines[i] > 0 /\ lines[j] > 0 => lines[i] < lines[j]

(* A run that was finalized, rebuilt or recovered has exports of one and the
   same reading of its journal, whatever an interrupted attempt had left. *)
ExportsAgree ==
  ui = "done" \/ state = "recovered" => official = OfficialOf(exported)
=============================================================================
