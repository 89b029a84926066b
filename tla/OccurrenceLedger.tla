---------------------------- MODULE OccurrenceLedger ----------------------------
(***************************************************************************)
(* The occurrence half of the SQLite ledger (database/migrations.py): what *)
(* constraints and triggers let any writer do to expected and captured     *)
(* occurrences, assertions, outbox events, capture attempts and recording  *)
(* imports, at every schema version, and what migrate makes of the rows it *)
(* finds.  The writers are commands outside the repository; they may try   *)
(* every plain INSERT, UPDATE and DELETE at any time, so the guards here   *)
(* are the schema's alone.  Which triggers are in force at a version is    *)
(* computed from what the migrations up to it create and drop, so that a   *)
(* trigger a rebuild forgets lets the statements through.                  *)
(*                                                                         *)
(* One action is one committed transaction.  Only a capture and its        *)
(* assertion need each other at COMMIT (version 8, deferred foreign keys), *)
(* so only they share one; any other statement may be one of its own.      *)
(***************************************************************************)
EXTENDS Naturals

CONSTANTS
  Occurrences,      \* occurrence ids, each fixing source, session and sequence
  Artifacts,        \* raw_media rows of artifacts, registered from the start
  Recordings,       \* recording ids
  Sources,
  SourceOf,         \* source of an occurrence id
  ArtifactSource,   \* source_id of an artifact: the first to register its bytes
  RecordingSource,
  Releases,         \* schema heads of the program versions in use
  None              \* no row, or NULL

ExpectedStates == {"none", "PREPARED", "COMPLETE", "GAP"}
Events         == {"none", "SegmentFinalized", "GapRecorded"}
Layouts        == {"legacy_digest_v1", "occurrence_v1"}
Assertions     == [artifact : Artifacts, layout : Layouts]
ImportStates   == {"none", "PREPARED", "COMPLETE"}
ImportJobs     == [recording : Recordings, output : Artifacts \cup {None},
                   guarded : BOOLEAN]  \* history: completed by an UPDATE

ASSUME LedgerAssumption ==
  /\ SourceOf \in [Occurrences -> Sources]
  /\ ArtifactSource \in [Artifacts -> Sources]
  /\ RecordingSource \in [Recordings -> Sources]
  /\ Releases \subseteq 2..10
  /\ None \notin Artifacts \cup Recordings \cup Assertions \cup ImportJobs

VARIABLES
  version,     \* highest row of schema_migrations, whose rows have no gaps
  expected,    \* state of expected_occurrences
  captured,    \* artifact of the capture_occurrences row
  assertion,   \* capture_occurrence_assertions
  event,       \* event_type in outbox_events (aggregate_id is UNIQUE)
  attempted,   \* rtsp_capture_attempts has a row
  recording,   \* state of recording_imports
  import,      \* recording_import_jobs, PREPARED while output is None
  provenance   \* recording of recording_segment_provenance

occurrence == <<expected, captured, assertion, event, attempted>>
imports    == <<recording, import, provenance>>
vars       == <<version, occurrence, imports>>

LTypeOK ==
  /\ version \in 2..10
  /\ expected \in [Occurrences -> ExpectedStates]
  /\ captured \in [Occurrences -> Artifacts \cup {None}]
  /\ assertion \in [Occurrences -> Assertions \cup {None}]
  /\ event \in [Occurrences -> Events]
  /\ attempted \in [Occurrences -> BOOLEAN]
  /\ recording \in [Recordings -> ImportStates]
  /\ import \in [Occurrences -> ImportJobs \cup {None}]
  /\ provenance \in [Occurrences -> Recordings \cup {None}]

\* A new database, migrated by some release.
Init ==
  /\ version \in Releases
  /\ expected = [o \in Occurrences |-> "none"]
  /\ captured = [o \in Occurrences |-> None]
  /\ assertion = [o \in Occurrences |-> None]
  /\ event = [o \in Occurrences |-> "none"]
  /\ attempted = [o \in Occurrences |-> FALSE]
  /\ recording = [r \in Recordings |-> "none"]
  /\ import = [o \in Occurrences |-> None]
  /\ provenance = [o \in Occurrences |-> None]

--------------------------------------------------------------------------------
\* Triggers, as pairs of a table (named as its variable) and the statement that
\* fires them.  Those of recording_imports are created once and never touched.

Tables     == {"expected", "captured", "assertion", "event", "attempted", "import",
               "provenance"}
RowChanges == {"UPDATE", "DELETE"}
Statements == RowChanges \cup {"INSERT"}

\* Dropped with their table, whose rows move to a new one, or by name, because they
\* read such a table.
Dropped(v) ==
  CASE v = 3 -> {"event"} \X Statements
    [] v = 7 -> ({"expected", "captured", "event", "attempted", "provenance"} \X Statements)
                  \cup {<<"import", "UPDATE">>}
    [] v = 8 -> ({"captured", "assertion", "provenance"} \X Statements)
                  \cup {<<"event", "INSERT">>, <<"import", "UPDATE">>}
    [] OTHER -> {}

\* Mutant: version 8 creates anew the triggers of the tables it rebuilds, and forgets
\* those it dropped by name.
CreatedOnRebuilt(v) ==
  CASE v = 3 -> ({"expected", "captured"} \X RowChanges) \cup ({"event"} \X Statements)
    [] v = 5 -> ({"import"} \X RowChanges) \cup ({"provenance"} \X Statements)
    [] v = 6 -> {"attempted"} \X Statements
    [] v = 7 -> ({"expected", "captured"} \X RowChanges)
                  \cup ({"event", "attempted", "provenance", "assertion"} \X Statements)
                  \cup {<<"import", "UPDATE">>}
    [] v = 8 -> ({"captured"} \X RowChanges)
                  \cup ({"assertion", "provenance"} \X Statements)
    [] OTHER -> {}

Created(v) ==
  CASE v = 3 -> ({"expected", "captured"} \X RowChanges) \cup ({"event"} \X Statements)
    [] v = 5 -> ({"import"} \X RowChanges) \cup ({"provenance"} \X Statements)
    [] v = 6 -> {"attempted"} \X Statements
    [] v = 7 -> ({"expected", "captured"} \X RowChanges)
                  \cup ({"event", "attempted", "provenance", "assertion"} \X Statements)
                  \cup {<<"import", "UPDATE">>}
    [] v = 8 -> ({"captured"} \X RowChanges)
                  \cup ({"assertion", "provenance"} \X Statements)
                  \cup {<<"event", "INSERT">>, <<"import", "UPDATE">>}
    [] OTHER -> {}

\* In force at a version: created by it or an earlier one and not dropped since.
Triggers ==
  [v \in 2..10 |-> {g \in Tables \X Statements :
     \E u \in 2..v : g \in Created(u) /\ \A w \in (u + 1)..v : g \notin Dropped(w)}]

Guarded(table, statement) == <<table, statement>> \in Triggers[version]

--------------------------------------------------------------------------------
\* Expected occurrences

\* Before version 7 an occurrence referenced (artifact_id, source_id): bytes first
\* registered by one source could not be claimed for another.
ArtifactFits(o, a) == version < 7 => ArtifactSource[a] = SourceOf[o]

\* A COMPLETE row names an artifact.
CanComplete(o) == \E a \in Artifacts : ArtifactFits(o, a)

\* No trigger guards the insertion: any state will do.
Expect(o, state) ==
  /\ version >= 3
  /\ expected[o] = "none"
  /\ state = "COMPLETE" => CanComplete(o)
  /\ expected' = [expected EXCEPT ![o] = state]
  /\ UNCHANGED <<version, captured, assertion, event, attempted, imports>>

\* expected_occurrences_guard_update
Terminate(o, state) ==
  /\ expected[o] # "none"
  /\ Guarded("expected", "UPDATE") => expected[o] = "PREPARED" /\ state # "PREPARED"
  /\ state = "COMPLETE" => CanComplete(o)
  /\ expected' = [expected EXCEPT ![o] = state]
  /\ UNCHANGED <<version, captured, assertion, event, attempted, imports>>

\* rtsp_capture_attempts_requires_prepared
Attempt(o) ==
  /\ version >= 6
  /\ ~attempted[o]
  /\ expected[o] # "none"
  /\ Guarded("attempted", "INSERT") => expected[o] = "PREPARED"
  /\ attempted' = [attempted EXCEPT ![o] = TRUE]
  /\ UNCHANGED <<version, expected, captured, assertion, event, imports>>

--------------------------------------------------------------------------------
\* Captures, assertions, events

Row(a, layout) == [artifact |-> a, layout |-> layout]

\* The digest layout names one manifest per artifact, the occurrence layout one
\* per occurrence; manifest_uri is UNIQUE.
ManifestFree(row) ==
  row.layout = "legacy_digest_v1" => \A q \in Occurrences : assertion[q] # row

\* A capture alone, while nothing forces an assertion on it.
Capture(o, a) ==
  /\ version < 8
  /\ captured[o] = None
  /\ ArtifactFits(o, a)
  /\ captured' = [captured EXCEPT ![o] = a]
  /\ UNCHANGED <<version, expected, assertion, event, attempted, imports>>

\* Version 7: an assertion for a capture that is there.
AddAssertion(o, layout) ==
  /\ version = 7
  /\ captured[o] # None
  /\ assertion[o] = None
  /\ Guarded("assertion", "INSERT") => expected[o] = "COMPLETE"
  /\ ManifestFree(Row(captured[o], layout))
  /\ assertion' = [assertion EXCEPT ![o] = Row(captured[o], layout)]
  /\ UNCHANGED <<version, expected, captured, event, attempted, imports>>

\* From version 8 each needs the other at COMMIT.
CaptureAsserted(o, a, layout) ==
  /\ version >= 8
  /\ captured[o] = None
  /\ assertion[o] = None
  /\ Guarded("assertion", "INSERT") => expected[o] = "COMPLETE"
  /\ ManifestFree(Row(a, layout))
  /\ captured' = [captured EXCEPT ![o] = a]
  /\ assertion' = [assertion EXCEPT ![o] = Row(a, layout)]
  /\ UNCHANGED <<version, expected, event, attempted, imports>>

\* The foreign key of an event: its capture in version 2, which knows finalized
\* segments only, its intent later.
EventRefers(o, type) ==
  IF version = 2 THEN type = "SegmentFinalized" /\ captured[o] # None
  ELSE expected[o] # "none"

\* outbox_events_terminal_correctness
TerminalCorrect(o, type) ==
  \/ type = "SegmentFinalized" /\ expected[o] = "COMPLETE" /\ captured[o] # None
  \/ type = "GapRecorded" /\ expected[o] = "GAP" /\ captured[o] = None

Publish(o, type) ==
  /\ event[o] = "none"
  /\ EventRefers(o, type)
  /\ Guarded("event", "INSERT") => TerminalCorrect(o, type)
  /\ event' = [event EXCEPT ![o] = type]
  /\ UNCHANGED <<version, expected, captured, assertion, attempted, imports>>

--------------------------------------------------------------------------------
\* Recording imports

StartRecording(r) ==
  /\ version >= 5
  /\ recording[r] = "none"
  /\ \E state \in {"PREPARED", "COMPLETE"} : recording' = [recording EXCEPT ![r] = state]
  /\ UNCHANGED <<version, occurrence, import, provenance>>

\* recording_imports_guard_update
FinishRecording(r) ==
  /\ version >= 5
  /\ recording[r] = "PREPARED"
  /\ recording' = [recording EXCEPT ![r] = "COMPLETE"]
  /\ UNCHANGED <<version, occurrence, import, provenance>>

\* No trigger guards the insertion: a job may be COMPLETE (it has an output) from
\* the start.  Its source column is that of its occurrence id; only the update
\* compares it with the source of the recording.
StartImport(o, r, output) ==
  /\ version >= 5
  /\ import[o] = None
  /\ recording[r] # "none"
  /\ import' = [import EXCEPT ![o] =
       [recording |-> r, output |-> output, guarded |-> FALSE]]
  /\ UNCHANGED <<version, occurrence, recording, provenance>>

\* The foreign keys, on the capture, some job and a recording, then
\* recording_provenance_consistency.
Attribute(o, r) ==
  /\ provenance[o] = None
  /\ captured[o] # None
  /\ recording[r] # "none" /\ \E q \in Occurrences : import[q] # None
  /\ Guarded("provenance", "INSERT") => import[o] # None /\ import[o].recording = r
  /\ provenance' = [provenance EXCEPT ![o] = r]
  /\ UNCHANGED <<version, occurrence, recording, import>>

\* Mutant: an output that is the capture, whether or not it comes from the recording.
ImportUnproven(o, a) ==
  /\ recording[import[o].recording] = "COMPLETE"
  /\ RecordingSource[import[o].recording] = SourceOf[o]
  /\ expected[o] = "COMPLETE"
  /\ captured[o] = a

\* recording_import_jobs_guard_update
ImportProven(o, a) ==
  LET r == import[o].recording
  IN  /\ recording[r] = "COMPLETE"
      /\ RecordingSource[r] = SourceOf[o]
      /\ expected[o] = "COMPLETE"
      /\ captured[o] = a
      /\ provenance[o] = r

FinishImport(o, a) ==
  /\ import[o] # None
  /\ Guarded("import", "UPDATE") => import[o].output = None /\ ImportProven(o, a)
  /\ import' = [import EXCEPT ![o].output = a, ![o].guarded = TRUE]
  /\ UNCHANGED <<version, occurrence, recording, provenance>>

--------------------------------------------------------------------------------
\* What only triggers forbid: rows that go or change once written.

Present(o, table) ==
  CASE table = "expected"   -> expected[o] # "none"
    [] table = "captured"   -> captured[o] # None
    [] table = "assertion"  -> assertion[o] # None
    [] table = "event"      -> event[o] # "none"
    [] table = "attempted"  -> attempted[o]
    [] table = "import"     -> import[o] # None
    [] table = "provenance" -> provenance[o] # None

\* The foreign keys, as pairs of the referring and the referenced table.
References ==
  {<<"event", IF version = 2 THEN "captured" ELSE "expected">>, <<"attempted", "expected">>,
   <<"assertion", "captured">>, <<"provenance", "captured">>, <<"provenance", "import">>}
    \cup IF version >= 8 THEN {<<"captured", "assertion">>} ELSE {}

\* Rows of one occurrence that one transaction deletes: deletions that need each
\* other are those of a capture and its assertion.
Deletions == {{table} : table \in Tables} \cup {{"captured", "assertion"}}

Delete(o, tables) ==
  /\ \A table \in tables : Present(o, table) /\ ~Guarded(table, "DELETE")
  /\ \A ref \in References : ref[2] \in tables /\ Present(o, ref[1]) => ref[1] \in tables
  /\ expected' = [expected EXCEPT ![o] = IF "expected" \in tables THEN "none" ELSE @]
  /\ captured' = [captured EXCEPT ![o] = IF "captured" \in tables THEN None ELSE @]
  /\ assertion' = [assertion EXCEPT ![o] = IF "assertion" \in tables THEN None ELSE @]
  /\ event' = [event EXCEPT ![o] = IF "event" \in tables THEN "none" ELSE @]
  /\ attempted' = [attempted EXCEPT ![o] = IF "attempted" \in tables THEN FALSE ELSE @]
  /\ import' = [import EXCEPT ![o] = IF "import" \in tables THEN None ELSE @]
  /\ provenance' = [provenance EXCEPT ![o] = IF "provenance" \in tables THEN None ELSE @]
  /\ UNCHANGED <<version, recording>>

Loose(o, table) == Present(o, table) /\ ~Guarded(table, "UPDATE")

\* Updates of the tables whose rows are meant to be immutable, as far as the foreign
\* keys let them.
Revise(o) ==
  /\ \/ /\ Loose(o, "captured") /\ assertion[o] = None
        /\ \E a \in Artifacts :
             ArtifactFits(o, a) /\ captured' = [captured EXCEPT ![o] = a]
        /\ UNCHANGED <<assertion, event, provenance>>
     \/ /\ Loose(o, "assertion")
        /\ \E layout \in Layouts :
             /\ ManifestFree(Row(assertion[o].artifact, layout))
             /\ assertion' = [assertion EXCEPT ![o].layout = layout]
        /\ UNCHANGED <<captured, event, provenance>>
     \/ /\ Loose(o, "event")
        /\ \E type \in Events \ {"none"} :
             EventRefers(o, type) /\ event' = [event EXCEPT ![o] = type]
        /\ UNCHANGED <<captured, assertion, provenance>>
     \/ /\ Loose(o, "provenance")
        /\ \E r \in Recordings :
             recording[r] # "none" /\ provenance' = [provenance EXCEPT ![o] = r]
        /\ UNCHANGED <<captured, assertion, event>>
  /\ UNCHANGED <<version, expected, attempted, recording, import>>

--------------------------------------------------------------------------------
\* migrate, by a release whose head is newer than the database: every missing
\* version in one transaction, in which any failing constraint discards all.  A
\* database newer than the release is refused.

Missing(v, head) == version < v /\ v <= head

\* Version 3: every capture gets a COMPLETE intent.
WithIntents ==
  [o \in Occurrences |-> IF captured[o] # None THEN "COMPLETE" ELSE "none"]

\* Mutant: an outer join, which backfills occurrences without capture.
WithAssertionsOuter ==
  [o \in Occurrences |-> Row(captured[o], "legacy_digest_v1")]

\* Version 7: every capture gets an assertion on its artifact's own manifest.
WithAssertions ==
  [o \in Occurrences |->
    IF captured[o] # None THEN Row(captured[o], "legacy_digest_v1") ELSE None]

ManifestsUnique(rows) ==
  \A o, q \in Occurrences : rows[o] # None /\ rows[o] = rows[q] => o = q

\* Mutant: captures without COMPLETE authority pass the authority guard.
BackedWithoutIntent(intents, rows) ==
  \A o \in Occurrences : (captured[o] # None) <=> (rows[o] # None)

\* Version 8: the authority guard, and the deferred foreign keys between captures
\* and assertions.
Backed(intents, rows) ==
  \A o \in Occurrences :
    /\ rows[o] # None => intents[o] = "COMPLETE"
    /\ captured[o] # None <=> rows[o] # None
    /\ captured[o] # None => rows[o].artifact = captured[o]

\* Mutant: rows that stand in the way are discarded.
MigrateRepairing(head) ==
  /\ head > version
  /\ version' = head
  /\ expected' = IF Missing(3, head) THEN WithIntents ELSE expected
  /\ captured' = [o \in Occurrences |->
       IF Missing(8, head) /\ expected'[o] # "COMPLETE" THEN None ELSE captured[o]]
  /\ assertion' = [o \in Occurrences |->
       IF captured'[o] = None THEN None
       ELSE IF Missing(7, head) THEN WithAssertions[o] ELSE assertion[o]]
  /\ Missing(7, head) => ManifestsUnique(assertion')
  /\ UNCHANGED <<event, attempted, imports>>

Migrate(head) ==
  /\ head > version
  /\ version' = head
  /\ expected' = IF Missing(3, head) THEN WithIntents ELSE expected
  /\ assertion' = IF Missing(7, head) THEN WithAssertions ELSE assertion
  /\ Missing(7, head) => ManifestsUnique(assertion')
  /\ Missing(8, head) => Backed(expected', assertion')
  /\ UNCHANGED <<captured, event, attempted, imports>>

--------------------------------------------------------------------------------
Write(o) ==
  \/ \E state \in ExpectedStates \ {"none"} : Expect(o, state) \/ Terminate(o, state)
  \/ Attempt(o)
  \/ \E a \in Artifacts : Capture(o, a) \/ FinishImport(o, a)
  \/ \E layout \in Layouts : AddAssertion(o, layout)
  \/ \E a \in Artifacts, layout \in Layouts : CaptureAsserted(o, a, layout)
  \/ \E type \in Events \ {"none"} : Publish(o, type)
  \/ Revise(o) \/ \E tables \in Deletions : Delete(o, tables)
  \/ \E r \in Recordings, output \in Artifacts \cup {None} : StartImport(o, r, output)
  \/ \E r \in Recordings : Attribute(o, r)

Next ==
  \/ \E o \in Occurrences : Write(o)
  \/ \E r \in Recordings : StartRecording(r) \/ FinishRecording(r)
  \/ \E head \in Releases : Migrate(head)

Spec == Init /\ [][Next]_vars

--------------------------------------------------------------------------------
(***************************************************************************)
(* Properties                                                              *)
(***************************************************************************)

\* What the outbox announced is true, and from version 8 it stays true whatever
\* is written later and whichever version the rows come from: a finalized
\* segment has its intent, capture and assertion, a gap never gets a capture.
\* (Before version 8 a capture could still be inserted after the gap.)
EventsTellTheTruth ==
  \A o \in Occurrences :
    /\ event[o] = "SegmentFinalized" =>
         /\ captured[o] # None
         /\ version >= 3 => expected[o] = "COMPLETE"
         /\ version >= 8 => assertion[o] # None
    /\ event[o] = "GapRecorded" =>
         /\ expected[o] = "GAP"
         /\ version >= 8 => captured[o] = None /\ assertion[o] = None

\* From version 8 the ledger has no capture without its assertion, no assertion
\* without its capture, and neither without a COMPLETE intent: the cycle is
\* closed for the rows of older schemas too, or the migration is refused.
AuthorityCycle ==
  version >= 8 => \A o \in Occurrences :
    /\ captured[o] = None <=> assertion[o] = None
    /\ captured[o] # None =>
         assertion[o].artifact = captured[o] /\ expected[o] = "COMPLETE"

Completed(o) == import[o] # None /\ import[o].output # None

\* The finished recording of the same source, the provenance, and a capture of
\* exactly the output.
Proven(o) ==
  LET r == import[o].recording
  IN  /\ recording[r] = "COMPLETE" /\ RecordingSource[r] = SourceOf[o]
      /\ provenance[o] = r
      /\ captured[o] = import[o].output
      /\ expected[o] = "COMPLETE"

\* What the guard saw when it let an import complete stays true for ever: two
\* rebuilds of the tables behind it change nothing about it.
ImportsAreProven == \A o \in Occurrences : Completed(o) /\ import[o].guarded => Proven(o)

\* "completion requires the source recording COMPLETE with the same source, a
\* matching COMPLETE expected + capture occurrence ..., and a matching provenance
\* row" (migrations.py, version 5), however the row became COMPLETE.
CompletionIsProven == \A o \in Occurrences : Completed(o) => Proven(o)

\* Authority only grows: no statement and no migration takes back or rewrites a
\* terminal intent, a capture, an assertion, an event, an attempt or a finished
\* import, once version 3 has brought the triggers.
GrowStep ==
  version' >= 3 => \A o \in Occurrences :
    /\ expected[o] \in {"COMPLETE", "GAP"} => expected'[o] = expected[o]
    /\ captured[o] # None => captured'[o] = captured[o]
    /\ assertion[o] # None => assertion'[o] = assertion[o]
    /\ event[o] # "none" => event'[o] = event[o]
    /\ attempted[o] => attempted'[o] /\ expected'[o] # "none"
    /\ Completed(o) => import'[o] = import[o]
    /\ provenance[o] # None => provenance'[o] = provenance[o]
AuthorityOnlyGrows == [][GrowStep]_vars

\* "backfill every existing COMPLETE occurrence as a legacy_digest_v1 assertion"
\* (migrations.py, version 7): the rows that older versions accept do not stand
\* in the way of the backfill.
BackfillSucceeds ==
  version \in 3..6 => ManifestsUnique(WithAssertions)

================================================================================
