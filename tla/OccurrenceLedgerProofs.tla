------------------------- MODULE OccurrenceLedgerProofs -------------------------
(***************************************************************************)
(* The properties of OccurrenceLedger for any sets of occurrences,         *)
(* artifacts, recordings and sources, and any history of releases.         *)
(***************************************************************************)
EXTENDS OccurrenceLedger, TLAPS

\* A table has no rows before the version that creates it, and a capture attempt
\* refers to an intent.
NotYet ==
  \A o \in Occurrences :
    /\ version < 3 => expected[o] = "none"
    /\ version < 5 => import[o] = None /\ provenance[o] = None
    /\ version < 6 => ~attempted[o]
    /\ version < 7 => assertion[o] = None
    /\ attempted[o] => expected[o] # "none"

LedgerInv ==
  /\ LTypeOK
  /\ NotYet
  /\ EventsTellTheTruth
  /\ AuthorityCycle
  /\ ImportsAreProven

--------------------------------------------------------------------------------
LEMMA RowType ==
  ASSUME NEW a \in Artifacts, NEW layout \in Layouts
  PROVE  /\ Row(a, layout) \in Assertions
         /\ Row(a, layout).artifact = a
         /\ Row(a, layout) # None
<1>1. Row(a, layout) \in Assertions /\ Row(a, layout).artifact = a
  BY DEF Row, Assertions
<1> QED BY <1>1, LedgerAssumption

\* A trigger once created is in force at every later version: 7 and 8 create anew
\* whatever they drop, and no other version drops one.
LEMMA CreatedStays ==
  ASSUME NEW v \in 2..10, NEW u \in 2..v, NEW g \in Created(u)
  PROVE  g \in Triggers[v]
<1>1. g \in Tables \X Statements
  BY DEF Created, Tables, Statements, RowChanges
<1>2. SUFFICES \E t \in 2..v : g \in Created(t) /\ \A w \in (t + 1)..v : g \notin Dropped(w)
  BY <1>1 DEF Triggers
<1>3. \A w \in 4..10 : w \notin {7, 8} => Dropped(w) = {}
  BY DEF Dropped
<1>4. CASE v >= 8 /\ u <= 8 /\ g \in Dropped(8)
  <2>1. g \in Created(8)
    BY <1>4 DEF Dropped, Created, Statements, RowChanges
  <2>2. \A w \in 9..v : g \notin Dropped(w)
    BY <1>3
  <2>3. 8 \in 2..v
    BY <1>4
  <2> QED BY <2>1, <2>2, <2>3
<1>5. CASE v >= 7 /\ u <= 7 /\ g \in Dropped(7) /\ ~(v >= 8 /\ g \in Dropped(8))
  <2>1. g \in Created(7)
    BY <1>5 DEF Dropped, Created, Statements, RowChanges
  <2>2. \A w \in 8..v : g \notin Dropped(w)
    <3> TAKE w \in 8..v
    <3>1. CASE w = 8
      BY <1>5, <3>1
    <3>2. CASE w # 8
      <4>1. w \in 4..10 /\ w \notin {7, 8}
        BY <3>2
      <4> QED BY <1>3, <4>1
    <3> QED BY <3>1, <3>2
  <2>3. 7 \in 2..v
    BY <1>5
  <2> QED BY <2>1, <2>2, <2>3
<1>6. CASE /\ ~(v >= 8 /\ u <= 8 /\ g \in Dropped(8))
           /\ ~(v >= 7 /\ u <= 7 /\ g \in Dropped(7))
  <2>1. u >= 3
    BY DEF Created
  <2>2. \A w \in (u + 1)..v : g \notin Dropped(w)
    <3> TAKE w \in (u + 1)..v
    <3>1. CASE w \in {7, 8}
      BY <1>6, <3>1
    <3>2. CASE w \notin {7, 8}
      <4>1. w \in 4..10
        BY <2>1
      <4> QED BY <1>3, <3>2, <4>1
    <3> QED BY <3>1, <3>2
  <2> WITNESS u \in 2..v
  <2> QED BY <2>2
<1>7. CASE v >= 8 /\ u <= 7 /\ g \in Dropped(8)
  BY <1>4, <1>7
<1> QED BY <1>4, <1>5, <1>6

\* The triggers in force from each version on.
LEMMA InForce ==
  ASSUME version \in 2..10
  PROVE  /\ version >= 3 =>
              /\ Guarded("event", "INSERT")
              /\ \A table \in {"expected", "captured", "event"}, statement \in RowChanges :
                   Guarded(table, statement)
         /\ version >= 5 =>
              /\ Guarded("provenance", "INSERT")
              /\ \A table \in {"import", "provenance"}, statement \in RowChanges :
                   Guarded(table, statement)
         /\ version >= 6 => \A statement \in Statements : Guarded("attempted", statement)
         /\ version >= 7 => \A statement \in Statements : Guarded("assertion", statement)
<1>1. \A u \in 2..version : \A g \in Created(u) : g \in Triggers[version]
  BY CreatedStays
<1>2. ASSUME version >= 3
      PROVE  \A g \in Created(3) : g \in Triggers[version]
  <2>1. 3 \in 2..version
    BY <1>2
  <2> QED BY <1>1, <2>1
<1>3. ASSUME version >= 5
      PROVE  \A g \in Created(5) : g \in Triggers[version]
  <2>1. 5 \in 2..version
    BY <1>3
  <2> QED BY <1>1, <2>1
<1>4. ASSUME version >= 6
      PROVE  \A g \in Created(6) : g \in Triggers[version]
  <2>1. 6 \in 2..version
    BY <1>4
  <2> QED BY <1>1, <2>1
<1>5. ASSUME version >= 7
      PROVE  \A g \in Created(7) : g \in Triggers[version]
  <2>1. 7 \in 2..version
    BY <1>5
  <2> QED BY <1>1, <2>1
<1> QED BY <1>2, <1>3, <1>4, <1>5 DEF Guarded, Created, Statements, RowChanges

\* Only a ledger of version 2 lets rows go or change, its captures and events: no
\* other table of it has a row, and an event keeps its capture.
LEMMA LooseStep ==
  ASSUME LTypeOK, NotYet, NEW o \in Occurrences,
         Revise(o) \/ \E tables \in Deletions : Delete(o, tables)
  PROVE  /\ version = 2 /\ version' = version
         /\ UNCHANGED <<expected, assertion, attempted, imports>>
         /\ captured' \in [Occurrences -> Artifacts \cup {None}]
         /\ event' \in [Occurrences -> Events]
         /\ \A q \in Occurrences :
              /\ event'[q] = event[q] \/ event'[q] \in {"none", "SegmentFinalized"}
              /\ event'[q] # "none" => event[q] # "none"
              /\ event'[q] # "none" /\ captured[q] # None => captured'[q] # None
<1> USE DEF LTypeOK
<1>1. \A table \in Tables, statement \in RowChanges :
        /\ Present(o, table) /\ ~Guarded(table, statement)
        => version = 2 /\ table \in {"captured", "event"}
  <2>1. ASSUME NEW table \in Tables, NEW statement \in RowChanges,
               Present(o, table), ~Guarded(table, statement)
        PROVE  version = 2 /\ table \in {"captured", "event"}
    <3>1. /\ table = "expected" => version >= 3
          /\ table \in {"import", "provenance"} => version >= 5
          /\ table = "attempted" => version >= 6
          /\ table = "assertion" => version >= 7
      <4>1. CASE table = "expected"
        BY <2>1, <4>1 DEF Present, NotYet
      <4>2. CASE table = "import"
        BY <2>1, <4>2 DEF Present, NotYet
      <4>5. CASE table = "provenance"
        BY <2>1, <4>5 DEF Present, NotYet
      <4>3. CASE table = "attempted"
        BY <2>1, <4>3 DEF Present, NotYet
      <4>4. CASE table = "assertion"
        BY <2>1, <4>4 DEF Present, NotYet
      <4> QED BY <4>1, <4>2, <4>3, <4>4, <4>5
    <3>2. statement \in Statements /\ version \in 2..10
      BY DEF Statements
    <3>3. version < 3
      BY <2>1, <3>1, <3>2, InForce DEF Tables
    <3> QED BY <3>1, <3>2, <3>3 DEF Tables
  <2> QED BY <2>1
<1>2. CASE Revise(o)
  <2>1. ~Loose(o, "assertion") /\ ~Loose(o, "provenance")
    BY <1>1 DEF Loose, Tables, RowChanges
  <2>2. CASE Loose(o, "captured") /\ \E a \in Artifacts : captured' = [captured EXCEPT ![o] = a]
               /\ UNCHANGED <<assertion, event, provenance>>
    <3>1. version = 2
      BY <1>1, <2>2 DEF Loose, Tables, RowChanges
    <3> QED BY <1>2, <2>2, <3>1, LedgerAssumption DEF Revise, imports
  <2>3. CASE Loose(o, "event") /\ UNCHANGED <<captured, assertion, provenance>>
               /\ \E type \in Events \ {"none"} :
                    EventRefers(o, type) /\ event' = [event EXCEPT ![o] = type]
    <3>1. version = 2 /\ event[o] # "none"
      BY <1>1, <2>3 DEF Loose, Present, Tables, RowChanges
    <3>2. event' = [event EXCEPT ![o] = "SegmentFinalized"]
      BY <2>3, <3>1 DEF EventRefers
    <3> QED BY <1>2, <2>3, <3>1, <3>2 DEF Revise, imports, Events
  <2> QED BY <1>2, <2>1, <2>2, <2>3 DEF Revise
<1>3. CASE \E tables \in Deletions : Delete(o, tables)
  <2>1. PICK tables \in Deletions : Delete(o, tables)
    BY <1>3
  <2>2. tables \subseteq Tables /\ tables # {}
    BY DEF Deletions, Tables
  <2>3. version = 2 /\ tables \subseteq {"captured", "event"}
    BY <1>1, <2>1, <2>2 DEF Delete, RowChanges
  <2>4. tables = {"captured"} \/ tables = {"event"}
    BY <2>2, <2>3 DEF Deletions
  <2>5. /\ UNCHANGED <<version, expected, assertion, attempted, recording, import, provenance>>
        /\ captured' = [captured EXCEPT ![o] = IF "captured" \in tables THEN None ELSE @]
        /\ event' = [event EXCEPT ![o] = IF "event" \in tables THEN "none" ELSE @]
    <3>1. \A table \in Tables \ {"captured", "event"} : table \notin tables
      BY <2>3
    <3>2. expected' = expected /\ assertion' = assertion /\ attempted' = attempted
      BY <2>1, <3>1 DEF Delete, Tables
    <3>3. import' = import /\ provenance' = provenance
      BY <2>1, <3>1 DEF Delete, Tables
    <3> QED BY <2>1, <3>2, <3>3 DEF Delete
  <2>6. "captured" \in tables => event[o] = "none"
    <3>1. <<"event", "captured">> \in References
      BY <2>3 DEF References
    <3>2. "captured" \in tables /\ Present(o, "event") => "event" \in tables
      <4>1. <<"event", "captured">>[1] = "event" /\ <<"event", "captured">>[2] = "captured"
        OBVIOUS
      <4> QED BY <2>1, <3>1, <4>1 DEF Delete
    <3> QED BY <2>4, <3>2 DEF Present
  <2> QED BY <2>3, <2>4, <2>5, <2>6 DEF imports, Events
<1> QED BY <1>2, <1>3

LEMMA InitInv == Init => LedgerInv
  BY LedgerAssumption DEF Init, LedgerInv, LTypeOK, NotYet, EventsTellTheTruth,
     AuthorityCycle, ImportsAreProven, Completed, ExpectedStates, Events, ImportStates

--------------------------------------------------------------------------------
LEMMA TypeStep ==
  ASSUME LTypeOK, NotYet, [Next]_vars PROVE LTypeOK'
<1> USE DEF LTypeOK
<1>1. ASSUME NEW o \in Occurrences, NEW state \in ExpectedStates \ {"none"}, Expect(o, state) PROVE LTypeOK'
  BY <1>1 DEF Expect, imports
<1>2. ASSUME NEW o \in Occurrences, NEW state \in ExpectedStates \ {"none"}, Terminate(o, state) PROVE LTypeOK'
  BY <1>2 DEF Terminate, imports
<1>3. ASSUME NEW o \in Occurrences, Attempt(o) PROVE LTypeOK'
  BY <1>3 DEF Attempt, imports
<1>4. ASSUME NEW o \in Occurrences, NEW a \in Artifacts, Capture(o, a) PROVE LTypeOK'
  BY <1>4 DEF Capture, imports
<1>5. ASSUME NEW o \in Occurrences, NEW a \in Artifacts, FinishImport(o, a) PROVE LTypeOK'
  <2>1. import[o] \in ImportJobs
    BY <1>5 DEF FinishImport
  <2>2. [import[o] EXCEPT !.output = a, !.guarded = TRUE] \in ImportJobs
    BY <2>1 DEF ImportJobs
  <2>3. import' \in [Occurrences -> ImportJobs \cup {None}]
    BY <1>5, <2>2 DEF FinishImport
  <2> QED BY <1>5, <2>3 DEF FinishImport, occurrence
<1>6. ASSUME NEW o \in Occurrences, NEW layout \in Layouts, AddAssertion(o, layout) PROVE LTypeOK'
  <2>1. Row(captured[o], layout) \in Assertions
    BY <1>6, RowType DEF AddAssertion
  <2> QED BY <1>6, <2>1 DEF AddAssertion, imports
<1>7. ASSUME NEW o \in Occurrences, NEW a \in Artifacts, NEW layout \in Layouts, CaptureAsserted(o, a, layout) PROVE LTypeOK'
  BY <1>7, RowType DEF CaptureAsserted, imports
<1>8. ASSUME NEW o \in Occurrences, NEW type \in Events \ {"none"}, Publish(o, type) PROVE LTypeOK'
  BY <1>8 DEF Publish, imports
<1>9. ASSUME NEW o \in Occurrences, NEW r \in Recordings,
             NEW output \in Artifacts \cup {None}, StartImport(o, r, output)
      PROVE  LTypeOK'
  <2>1. [recording |-> r, output |-> output, guarded |-> FALSE] \in ImportJobs
    BY DEF ImportJobs
  <2> QED BY <1>9, <2>1 DEF StartImport, occurrence
<1>10. ASSUME NEW o \in Occurrences, NEW r \in Recordings, Attribute(o, r) PROVE LTypeOK'
  BY <1>10 DEF Attribute, occurrence
<1>11. ASSUME NEW r \in Recordings, StartRecording(r) \/ FinishRecording(r) PROVE LTypeOK'
  BY <1>11 DEF StartRecording, FinishRecording, occurrence, ImportStates
<1>12. ASSUME NEW head \in Releases, Migrate(head) PROVE LTypeOK'
  <2>1. version' \in 2..10
    BY <1>12, LedgerAssumption DEF Migrate
  <2>2. expected' \in [Occurrences -> ExpectedStates]
    BY <1>12 DEF Migrate, WithIntents, ExpectedStates
  <2>3. WithAssertions \in [Occurrences -> Assertions \cup {None}]
    BY RowType DEF WithAssertions, Layouts
  <2> QED BY <1>12, <2>1, <2>2, <2>3 DEF Migrate, imports
<1>13. ASSUME NEW o \in Occurrences,
              Revise(o) \/ \E tables \in Deletions : Delete(o, tables)
       PROVE  LTypeOK'
  BY <1>13, LooseStep DEF imports
<1>14. ASSUME UNCHANGED vars PROVE LTypeOK'
  BY <1>14 DEF vars, occurrence, imports
<1> QED BY <1>1, <1>2, <1>3, <1>4, <1>5, <1>6, <1>7, <1>8, <1>9, <1>10, <1>11, <1>12, <1>13, <1>14
  DEF Next, Write

--------------------------------------------------------------------------------
\* Tables that do not exist yet are empty.
LEMMA NotYetStep ==
  ASSUME LedgerInv, LTypeOK', [Next]_vars PROVE NotYet'
<1> USE DEF LedgerInv, LTypeOK, NotYet
<1>1. ASSUME NEW o \in Occurrences, Write(o) PROVE NotYet'
  <2>1. CASE \/ \E a \in Artifacts : FinishImport(o, a)
             \/ \E r \in Recordings : Attribute(o, r)
             \/ \E r \in Recordings, output \in Artifacts \cup {None} : StartImport(o, r, output)
    <3>1. version' = version
      BY <2>1 DEF FinishImport, Attribute, StartImport
    <3>2. expected' = expected /\ attempted' = attempted /\ assertion' = assertion
      BY <2>1 DEF FinishImport, Attribute, StartImport, occurrence
    <3>3. version >= 5
      <4>1. (\E q \in Occurrences : import[q] # None) => version >= 5
        OBVIOUS
      <4> QED BY <2>1, <4>1 DEF FinishImport, Attribute, StartImport
    <3> QED BY <3>1, <3>2, <3>3
  <2>2. CASE \/ \E state \in ExpectedStates \ {"none"} : Expect(o, state) \/ Terminate(o, state)
             \/ Attempt(o)
             \/ \E a \in Artifacts : Capture(o, a)
    BY <2>2 DEF Expect, Terminate, Attempt, Capture, imports
  <2>3. CASE Revise(o) \/ \E tables \in Deletions : Delete(o, tables)
    BY <2>3, LooseStep DEF imports
  <2>4. CASE \/ \E layout \in Layouts : AddAssertion(o, layout)
             \/ \E a \in Artifacts, layout \in Layouts : CaptureAsserted(o, a, layout)
             \/ \E type \in Events \ {"none"} : Publish(o, type)
    BY <2>4 DEF AddAssertion, CaptureAsserted, Publish, imports
  <2> QED BY <1>1, <2>1, <2>2, <2>3, <2>4 DEF Write
<1>2. ASSUME NEW r \in Recordings, StartRecording(r) \/ FinishRecording(r) PROVE NotYet'
  BY <1>2 DEF StartRecording, FinishRecording, occurrence
<1>3. ASSUME NEW head \in Releases, Migrate(head) PROVE NotYet'
  <2>1. head \in 2..10 /\ version < head /\ version' = head
    BY <1>3, LedgerAssumption DEF Migrate
  <2> QED BY <1>3, <2>1 DEF Migrate, Missing, WithIntents, imports
<1>4. ASSUME UNCHANGED vars PROVE NotYet'
  BY <1>4 DEF vars, occurrence, imports
<1> QED BY <1>1, <1>2, <1>3, <1>4 DEF Next

\* Announcements stay true.
LEMMA EventStep ==
  ASSUME LedgerInv, LTypeOK', [Next]_vars PROVE EventsTellTheTruth'
<1> USE DEF LedgerInv, LTypeOK
<1>1. ASSUME NEW o \in Occurrences, Write(o) PROVE EventsTellTheTruth'
  <2>1. CASE \E state \in ExpectedStates \ {"none"} : Expect(o, state) \/ Terminate(o, state)
    BY <2>1, InForce, LedgerAssumption DEF Expect, Terminate, EventsTellTheTruth, AuthorityCycle,
       NotYet, imports, RowChanges
  <2>2. CASE \E a \in Artifacts : Capture(o, a)
    BY <2>2, LedgerAssumption DEF Capture, EventsTellTheTruth, imports
  <2>3. CASE \E layout \in Layouts : AddAssertion(o, layout)
    BY <2>3, LedgerAssumption DEF AddAssertion, EventsTellTheTruth, imports
  <2>4. CASE \E a \in Artifacts, layout \in Layouts : CaptureAsserted(o, a, layout)
    <3>1. PICK a \in Artifacts, layout \in Layouts : CaptureAsserted(o, a, layout)
      BY <2>4
    <3>2. Row(a, layout) # None
      BY RowType
    <3>3. expected[o] = "COMPLETE" /\ version' = version /\ expected' = expected
      BY <3>1, InForce DEF CaptureAsserted, Statements
    <3> QED BY <3>1, <3>2, <3>3, LedgerAssumption DEF CaptureAsserted, EventsTellTheTruth
  <2>5. CASE \E type \in Events \ {"none"} : Publish(o, type)
    BY <2>5, InForce DEF Publish, EventRefers, TerminalCorrect, EventsTellTheTruth, AuthorityCycle,
       imports
  <2>6. CASE Attempt(o) \/ (\E a \in Artifacts : FinishImport(o, a))
               \/ (\E r \in Recordings : Attribute(o, r))
               \/ (\E r \in Recordings, output \in Artifacts \cup {None} : StartImport(o, r, output))
    BY <2>6 DEF Attempt, Attribute, FinishImport, StartImport, occurrence, imports, EventsTellTheTruth
  <2>7. CASE Revise(o) \/ \E tables \in Deletions : Delete(o, tables)
    <3>1. version = 2 /\ version' = 2
      BY <2>7, LooseStep
    <3> SUFFICES ASSUME NEW q \in Occurrences, event'[q] # "none"
                 PROVE  event'[q] = "SegmentFinalized" /\ captured'[q] # None
      BY <3>1 DEF EventsTellTheTruth
    <3>2. event[q] # "none" /\ expected[q] # "GAP"
      BY <2>7, <3>1, LooseStep DEF NotYet
    <3>3. event[q] = "SegmentFinalized" /\ captured[q] # None
      BY <3>2 DEF EventsTellTheTruth, Events
    <3> QED BY <2>7, <3>3, LooseStep
  <2> QED BY <1>1, <2>1, <2>2, <2>3, <2>4, <2>5, <2>6, <2>7 DEF Write
<1>2. ASSUME NEW r \in Recordings, StartRecording(r) \/ FinishRecording(r)
      PROVE  EventsTellTheTruth'
  BY <1>2 DEF StartRecording, FinishRecording, occurrence, EventsTellTheTruth
<1>3. ASSUME NEW head \in Releases, Migrate(head) PROVE EventsTellTheTruth'
  <2>1. head \in 2..10 /\ version < head /\ version' = head
    BY <1>3, LedgerAssumption DEF Migrate
  <2>2. version < 3 => \A o \in Occurrences : event[o] # "GapRecorded"
    BY DEF EventsTellTheTruth, NotYet
  <2>3. version' >= 3 => \A o \in Occurrences :
          event[o] = "SegmentFinalized" => expected'[o] = "COMPLETE"
    BY <1>3, <2>1 DEF Migrate, Missing, WithIntents, EventsTellTheTruth
  <2>4. \A o \in Occurrences : event[o] = "GapRecorded" => expected'[o] = "GAP"
    BY <1>3, <2>1, <2>2 DEF Migrate, Missing, EventsTellTheTruth
  <2>5. version' >= 8 => Backed(expected', assertion')
    <3>1. CASE version < 8
      BY <1>3, <2>1, <3>1 DEF Migrate, Missing
    <3>2. CASE version >= 8
      BY <1>3, <2>1, <3>2, LedgerAssumption DEF Migrate, Missing, AuthorityCycle, Backed
    <3> QED BY <3>1, <3>2
  <2> QED BY <1>3, <2>1, <2>3, <2>4, <2>5 DEF Migrate, Backed, EventsTellTheTruth
<1>4. ASSUME UNCHANGED vars PROVE EventsTellTheTruth'
  BY <1>4 DEF vars, occurrence, EventsTellTheTruth
<1> QED BY <1>1, <1>2, <1>3, <1>4 DEF Next

\* The cycle of capture, assertion and intent.
LEMMA CycleStep ==
  ASSUME LedgerInv, LTypeOK', [Next]_vars PROVE AuthorityCycle'
<1> USE DEF LedgerInv, LTypeOK
<1>1. ASSUME NEW o \in Occurrences, Write(o) PROVE AuthorityCycle'
  <2>1. CASE \E state \in ExpectedStates \ {"none"} : Expect(o, state) \/ Terminate(o, state)
    BY <2>1, InForce DEF Expect, Terminate, AuthorityCycle, imports, RowChanges
  <2>2. CASE (\E a \in Artifacts : Capture(o, a))
               \/ \E layout \in Layouts : AddAssertion(o, layout)
    BY <2>2 DEF Capture, AddAssertion, AuthorityCycle
  <2>3. CASE \E a \in Artifacts, layout \in Layouts : CaptureAsserted(o, a, layout)
    <3>1. PICK a \in Artifacts, layout \in Layouts : CaptureAsserted(o, a, layout)
      BY <2>3
    <3>2. a # None /\ Row(a, layout) # None /\ Row(a, layout).artifact = a
      BY LedgerAssumption, RowType
    <3> QED BY <3>1, <3>2, InForce DEF CaptureAsserted, AuthorityCycle, Statements
  <2>4. CASE Attempt(o) \/ (\E a \in Artifacts : FinishImport(o, a))
               \/ (\E r \in Recordings : Attribute(o, r))
               \/ (\E r \in Recordings, output \in Artifacts \cup {None} : StartImport(o, r, output))
               \/ (\E type \in Events \ {"none"} : Publish(o, type))
    BY <2>4 DEF Attempt, Attribute, FinishImport, StartImport, Publish, occurrence, imports, AuthorityCycle
  <2>5. CASE Revise(o) \/ \E tables \in Deletions : Delete(o, tables)
    BY <2>5, LooseStep DEF AuthorityCycle
  <2> QED BY <1>1, <2>1, <2>2, <2>3, <2>4, <2>5 DEF Write
<1>2. ASSUME NEW r \in Recordings, StartRecording(r) \/ FinishRecording(r) PROVE AuthorityCycle'
  BY <1>2 DEF StartRecording, FinishRecording, occurrence, AuthorityCycle
<1>3. ASSUME NEW head \in Releases, Migrate(head) PROVE AuthorityCycle'
  <2>1. head \in 2..10 /\ version < head /\ version' = head
    BY <1>3, LedgerAssumption DEF Migrate
  <2>2. CASE version < 8
    BY <1>3, <2>1, <2>2 DEF Migrate, Missing, Backed, AuthorityCycle
  <2>3. CASE version >= 8
    BY <1>3, <2>1, <2>3 DEF Migrate, Missing, AuthorityCycle
  <2> QED BY <2>2, <2>3
<1>4. ASSUME UNCHANGED vars PROVE AuthorityCycle'
  BY <1>4 DEF vars, occurrence, AuthorityCycle
<1> QED BY <1>1, <1>2, <1>3, <1>4 DEF Next

\* Completed imports stay proven.
LEMMA ImportStep ==
  ASSUME LedgerInv, LTypeOK', [Next]_vars PROVE ImportsAreProven'
<1> USE DEF LedgerInv, LTypeOK
<1> DEFINE Done(q) == Completed(q) /\ import[q].guarded
<1>0. ASSUME NEW q \in Occurrences, Done(q)
      PROVE  /\ Proven(q) /\ captured[q] # None /\ provenance[q] # None
             /\ import[q].recording \in Recordings
  BY <1>0, LedgerAssumption DEF ImportsAreProven, ImportJobs, Completed, Proven
<1>a. SUFFICES ASSUME NEW q \in Occurrences, Done(q)' PROVE Proven(q)'
  BY DEF ImportsAreProven
<1>1. ASSUME NEW o \in Occurrences, Write(o) PROVE Proven(q)'
  <2>1. CASE \E state \in ExpectedStates \ {"none"} : Expect(o, state) \/ Terminate(o, state)
    <3>1. Done(q) /\ import[q] # None
      BY <1>a, <2>1 DEF Expect, Terminate, imports, Completed
    <3>2. version >= 3 /\ Guarded("expected", "UPDATE")
      BY <3>1, InForce DEF NotYet, RowChanges
    <3> QED BY <1>0, <2>1, <3>1, <3>2 DEF Expect, Terminate, imports, Proven
  <2>2. CASE \E a \in Artifacts : FinishImport(o, a)
    <3>1. PICK a \in Artifacts : FinishImport(o, a)
      BY <2>2
    <3>2. CASE q = o
      <4>0. ImportProven(o, a)
        <5>1. import[o] # None
          BY <3>1 DEF FinishImport
        <5>2. Guarded("import", "UPDATE")
          BY <5>1, InForce DEF NotYet, RowChanges
        <5> QED BY <3>1, <5>2 DEF FinishImport
      <4>1. import'[q].output = a /\ import'[q].recording = import[q].recording
        BY <3>1, <3>2 DEF FinishImport, ImportJobs
      <4> QED BY <3>1, <3>2, <4>0, <4>1 DEF FinishImport, ImportProven, occurrence, Proven
    <3>3. CASE q # o
      BY <1>0, <1>a, <3>1, <3>3 DEF FinishImport, occurrence, Completed, Proven
    <3> QED BY <3>2, <3>3
  <2>3. CASE \/ \E a \in Artifacts : Capture(o, a)
             \/ \E a \in Artifacts, layout \in Layouts : CaptureAsserted(o, a, layout)
    BY <1>0, <1>a, <2>3 DEF Capture, CaptureAsserted, imports, Completed, Proven
  <2>4. CASE \E r \in Recordings, output \in Artifacts \cup {None} : StartImport(o, r, output)
    <3>1. ~import'[o].guarded /\ (q # o => import'[q] = import[q])
      BY <2>4 DEF StartImport
    <3> QED BY <1>0, <1>a, <2>4, <3>1 DEF StartImport, occurrence, Completed, Proven
  <2>5. CASE \E r \in Recordings : Attribute(o, r)
    BY <1>0, <1>a, <2>5 DEF Attribute, occurrence, Completed, Proven
  <2>6. CASE \/ Attempt(o) \/ (\E layout \in Layouts : AddAssertion(o, layout))
             \/ \E type \in Events \ {"none"} : Publish(o, type)
    BY <1>0, <1>a, <2>6 DEF Attempt, AddAssertion, Publish, imports, Completed, Proven
  <2>7. CASE Revise(o) \/ \E tables \in Deletions : Delete(o, tables)
    BY <1>a, <2>7, LooseStep DEF NotYet, imports, Completed
  <2> QED BY <1>1, <2>1, <2>2, <2>3, <2>4, <2>5, <2>6, <2>7 DEF Write
<1>2. ASSUME NEW r \in Recordings, StartRecording(r) \/ FinishRecording(r) PROVE Proven(q)'
  BY <1>0, <1>a, <1>2 DEF StartRecording, FinishRecording, occurrence, Completed, Proven
<1>3. ASSUME NEW head \in Releases, Migrate(head) PROVE Proven(q)'
  <2>1. version >= 5
    BY <1>a, <1>3 DEF Migrate, NotYet, imports, Completed
  <2>2. expected' = expected
    BY <1>3, <2>1 DEF Migrate, Missing
  <2> QED BY <1>0, <1>a, <1>3, <2>2 DEF Migrate, imports, Completed, Proven
<1>4. ASSUME UNCHANGED vars PROVE Proven(q)'
  BY <1>0, <1>a, <1>4 DEF vars, occurrence, imports, Completed, Proven
<1> QED BY <1>1, <1>2, <1>3, <1>4 DEF Next

\* No statement and no migration takes authority back.
LEMMA GrowthStep ==
  ASSUME LedgerInv, [Next]_vars PROVE GrowStep
<1> USE DEF LedgerInv, LTypeOK
<1>1. ASSUME NEW o \in Occurrences, Write(o) PROVE GrowStep
  <2>1. CASE \E state \in ExpectedStates \ {"none"} : Expect(o, state) \/ Terminate(o, state)
    BY <2>1, InForce DEF Expect, Terminate, imports, GrowStep, NotYet, RowChanges
  <2>2. CASE \/ \E a \in Artifacts : Capture(o, a)
             \/ \E layout \in Layouts : AddAssertion(o, layout)
             \/ \E a \in Artifacts, layout \in Layouts : CaptureAsserted(o, a, layout)
    BY <2>2 DEF Capture, AddAssertion, CaptureAsserted, imports, GrowStep, NotYet
  <2>3. CASE Attempt(o) \/ \E type \in Events \ {"none"} : Publish(o, type)
    BY <2>3 DEF Attempt, Publish, imports, GrowStep, NotYet
  <2>4. CASE \/ \E r \in Recordings : Attribute(o, r)
             \/ \E r \in Recordings, output \in Artifacts \cup {None} : StartImport(o, r, output)
    BY <2>4 DEF Attribute, StartImport, occurrence, GrowStep, NotYet, Completed
  <2>5. CASE Revise(o) \/ \E tables \in Deletions : Delete(o, tables)
    BY <2>5, LooseStep DEF GrowStep
  <2>6. CASE \E a \in Artifacts : FinishImport(o, a)
    <3>1. PICK a \in Artifacts : FinishImport(o, a)
      BY <2>6
    <3>2. import[o] # None /\ Guarded("import", "UPDATE")
      <4>1. import[o] # None
        BY <3>1 DEF FinishImport
      <4> QED BY <4>1, InForce DEF NotYet, RowChanges
    <3> QED BY <3>1, <3>2 DEF FinishImport, occurrence, GrowStep, NotYet, Completed
  <2> QED BY <1>1, <2>1, <2>2, <2>3, <2>4, <2>5, <2>6 DEF Write
<1>2. ASSUME NEW r \in Recordings, StartRecording(r) \/ FinishRecording(r) PROVE GrowStep
  BY <1>2 DEF StartRecording, FinishRecording, occurrence, GrowStep, NotYet
<1>3. ASSUME NEW head \in Releases, Migrate(head) PROVE GrowStep
  <2>1. \A o \in Occurrences : expected[o] # "none" => expected' = expected
    BY <1>3 DEF Migrate, Missing, NotYet
  <2>2. \A o \in Occurrences : assertion[o] # None => assertion' = assertion
    BY <1>3 DEF Migrate, Missing, NotYet
  <2> QED BY <1>3, <2>1, <2>2 DEF Migrate, GrowStep, NotYet, imports
<1>4. ASSUME UNCHANGED vars PROVE GrowStep
  BY <1>4 DEF vars, occurrence, imports, GrowStep, NotYet
<1> QED BY <1>1, <1>2, <1>3, <1>4 DEF Next

--------------------------------------------------------------------------------
THEOREM LedgerInductive == Spec => []LedgerInv
<1>1. LedgerInv /\ [Next]_vars => LedgerInv'
  BY TypeStep, NotYetStep, EventStep, CycleStep, ImportStep DEF LedgerInv
<1> QED BY InitInv, <1>1, PTL DEF Spec

\* The type invariant.
THEOREM LedgerTypes == Spec => []LTypeOK
<1>1. LedgerInv => LTypeOK
  BY DEF LedgerInv
<1> QED BY <1>1, LedgerInductive, PTL

\* What the outbox announced is true, at every version and after every migration.
THEOREM OutboxIsTrue == Spec => []EventsTellTheTruth
<1>1. LedgerInv => EventsTellTheTruth
  BY DEF LedgerInv
<1> QED BY <1>1, LedgerInductive, PTL

\* From version 8 on captures, assertions and COMPLETE intents go together.
THEOREM CycleIsClosed == Spec => []AuthorityCycle
<1>1. LedgerInv => AuthorityCycle
  BY DEF LedgerInv
<1> QED BY <1>1, LedgerInductive, PTL

\* A completed import has its recording, provenance and capture for ever.
THEOREM ImportsStayProven == Spec => []ImportsAreProven
<1>1. LedgerInv => ImportsAreProven
  BY DEF LedgerInv
<1> QED BY <1>1, LedgerInductive, PTL

\* Authority only grows, through writers and migrations of any release.
THEOREM NothingIsTakenBack == Spec => AuthorityOnlyGrows
<1>1. LedgerInv /\ [Next]_vars => [GrowStep]_vars
  BY GrowthStep
<1> QED BY <1>1, LedgerInductive, PTL DEF Spec, AuthorityOnlyGrows

\* Versions are not taken back.
LEMMA VersionGrows ==
  ASSUME LedgerInv, [Next]_vars
  PROVE  version' \in 2..10 /\ version' >= version
<1>1. version \in 2..10
  BY DEF LedgerInv, LTypeOK
<1>2. ASSUME NEW head \in Releases, Migrate(head) PROVE version' \in 2..10 /\ version' >= version
  <2>1. head \in 2..10 /\ version' = head /\ head > version
    BY <1>2, LedgerAssumption DEF Migrate
  <2> QED BY <1>1, <2>1
<1>3. ASSUME ~\E head \in Releases : Migrate(head) PROVE version' = version
  BY <1>3 DEF Next, Write, Expect, Terminate, Attempt, Capture, FinishImport, Publish, Delete,
     Revise, StartImport, Attribute, AddAssertion, CaptureAsserted, StartRecording,
     FinishRecording, vars
<1> QED BY <1>1, <1>2, <1>3

\* What is in force at one version is in force at the next.
TriggersStay == [][Triggers[version] \subseteq Triggers[version']]_vars

\* No migration loses a trigger: whatever the rebuilds of versions 3, 7 and 8 drop, with
\* a table or by name, they create anew.
THEOREM NoTriggerIsLost == Spec => TriggersStay
<1>1. LedgerInv /\ [Next]_vars => Triggers[version] \subseteq Triggers[version']
  <2> SUFFICES ASSUME LedgerInv, [Next]_vars, NEW g \in Triggers[version]
               PROVE  g \in Triggers[version']
    OBVIOUS
  <2>1. version \in 2..10 /\ version' \in 2..10 /\ version' >= version
    BY VersionGrows DEF LedgerInv, LTypeOK
  <2>2. PICK u \in 2..version : g \in Created(u)
    BY <2>1 DEF Triggers
  <2>3. u \in 2..version'
    BY <2>1
  <2> QED BY <2>1, <2>2, <2>3, CreatedStays
<1> QED BY <1>1, LedgerInductive, PTL DEF Spec, TriggersStay

--------------------------------------------------------------------------------
(***************************************************************************)
(* What ProcessArtifact assumes of the ledger                              *)
(***************************************************************************)

\* The assertions on an artifact and, as process_artifact counts them, their number:
\* none, one, or several.
AssertionsOn(a) == {o \in Occurrences : assertion[o] # None /\ assertion[o].artifact = a}

Asserted(a) ==
  IF AssertionsOn(a) = {} THEN 0
  ELSE IF \E o \in Occurrences : AssertionsOn(a) = {o} THEN 1 ELSE 2

\* ProcessArtifact lets one assertion at a time be registered, for one artifact, and
\* none be taken away.
RegisterStep ==
  version >= 7 =>
    /\ \A a \in Artifacts : Asserted(a)' \in {Asserted(a), Asserted(a) + 1}
    /\ \A a, b \in Artifacts :
         Asserted(a)' # Asserted(a) /\ Asserted(b)' # Asserted(b) => a = b
RegistersOneByOne == [][RegisterStep]_vars

\* One more assertion raises the number by one at most.
LEMMA OneMore ==
  ASSUME LTypeOK, NEW o \in Occurrences, NEW row \in Assertions, assertion[o] = None,
         assertion' = [assertion EXCEPT ![o] = row]
  PROVE  \A a \in Artifacts : /\ Asserted(a)' \in {Asserted(a), Asserted(a) + 1}
                              /\ a # row.artifact => Asserted(a)' = Asserted(a)
<1> TAKE a \in Artifacts
<1>1. /\ assertion \in [Occurrences -> Assertions \cup {None}]
      /\ row # None
  BY LedgerAssumption DEF LTypeOK
<1>2. o \notin AssertionsOn(a)
  BY DEF AssertionsOn
<1>3. CASE a = row.artifact
  <2>1. AssertionsOn(a)' = AssertionsOn(a) \cup {o}
    BY <1>1, <1>3 DEF AssertionsOn
  <2>2. CASE AssertionsOn(a) = {}
    <3>1. AssertionsOn(a)' = {o}
      BY <2>1, <2>2
    <3>2. Asserted(a)' = 1 /\ Asserted(a) = 0
      BY <2>2, <3>1 DEF Asserted
    <3> QED BY <1>3, <3>2
  <2>3. CASE AssertionsOn(a) # {}
    <3>1. \A q \in Occurrences : AssertionsOn(a)' # {q}
      BY <1>2, <2>1, <2>3
    <3>2. Asserted(a)' = 2
      BY <2>1, <3>1 DEF Asserted
    <3>3. Asserted(a) \in {1, 2}
      BY <2>3 DEF Asserted
    <3> QED BY <1>3, <3>2, <3>3
  <2> QED BY <2>2, <2>3
<1>4. CASE a # row.artifact
  <2>1. AssertionsOn(a)' = AssertionsOn(a)
    BY <1>1, <1>4 DEF AssertionsOn
  <2>2. Asserted(a)' = Asserted(a)
    BY <2>1 DEF Asserted
  <2> QED BY <2>2
<1> QED BY <1>3, <1>4

\* From version 7 on every statement and every migration keeps to it.
LEMMA RegisterHolds ==
  ASSUME LedgerInv, [Next]_vars PROVE RegisterStep
<1> SUFFICES ASSUME version >= 7 PROVE RegisterStep
  BY DEF RegisterStep
<1> USE DEF LedgerInv
<1>1. ASSUME UNCHANGED assertion PROVE RegisterStep
  <2>1. \A a \in Artifacts : Asserted(a)' = Asserted(a)
    BY <1>1 DEF Asserted, AssertionsOn
  <2> QED BY <2>1 DEF RegisterStep
<1>2. ASSUME NEW o \in Occurrences, NEW a \in Artifacts, NEW layout \in Layouts,
             assertion[o] = None, assertion' = [assertion EXCEPT ![o] = Row(a, layout)]
      PROVE  RegisterStep
  <2>1. Row(a, layout) \in Assertions /\ Row(a, layout).artifact = a
    BY RowType
  <2> QED BY <1>2, <2>1, OneMore DEF RegisterStep
<1>3. ASSUME NEW o \in Occurrences, Write(o) PROVE RegisterStep
  <2>1. CASE \E layout \in Layouts : AddAssertion(o, layout)
    <3>1. captured[o] # None => captured[o] \in Artifacts
      BY DEF LTypeOK
    <3> QED BY <1>2, <2>1, <3>1 DEF AddAssertion
  <2>2. CASE \E a \in Artifacts, layout \in Layouts : CaptureAsserted(o, a, layout)
    BY <1>2, <2>2 DEF CaptureAsserted
  <2>3. CASE Revise(o) \/ \E tables \in Deletions : Delete(o, tables)
    BY <1>1, <2>3, LooseStep
  <2>4. CASE ~(\/ Revise(o) \/ \E tables \in Deletions : Delete(o, tables)
               \/ \E layout \in Layouts : AddAssertion(o, layout)
               \/ \E a \in Artifacts, layout \in Layouts : CaptureAsserted(o, a, layout))
    <3>1. UNCHANGED assertion
      BY <1>3, <2>4 DEF Write, Expect, Terminate, Attempt, Capture, FinishImport, Publish,
         StartImport, Attribute, occurrence
    <3> QED BY <1>1, <3>1
  <2> QED BY <2>1, <2>2, <2>3, <2>4
<1>4. ASSUME NEW head \in Releases, Migrate(head) PROVE RegisterStep
  <2>1. UNCHANGED assertion
    BY <1>4, LedgerAssumption DEF Migrate, Missing, LTypeOK
  <2> QED BY <1>1, <2>1
<1>5. ASSUME NEW r \in Recordings, StartRecording(r) \/ FinishRecording(r) PROVE RegisterStep
  BY <1>1, <1>5 DEF StartRecording, FinishRecording, occurrence
<1>6. CASE UNCHANGED vars
  BY <1>1, <1>6 DEF vars, occurrence
<1> QED BY <1>3, <1>4, <1>5, <1>6 DEF Next

\* So the number a call reads under its lock only goes 0, 1, several: the steps of
\* ProcessArtifact!Register are all that writers and migrations of the ledger can do
\* to it, and an input once ambiguous stays so.
THEOREM AssertionsAccrueOneByOne == Spec => RegistersOneByOne
<1>1. LedgerInv /\ [Next]_vars => [RegisterStep]_vars
  BY RegisterHolds
<1> QED BY <1>1, LedgerInductive, PTL DEF Spec, RegistersOneByOne

--------------------------------------------------------------------------------
(***************************************************************************)
(* What no writer and no release can repair                                *)
(***************************************************************************)

\* Two occurrences of the same bytes, before the version that gives every capture a
\* manifest of its own.
Stuck ==
  /\ version \in 3..6
  /\ \E o, q \in Occurrences : o # q /\ captured[o] # None /\ captured[o] = captured[q]

\* A completed import whose output is not what was captured.
Contradicted(o) ==
  /\ version >= 5
  /\ Completed(o) /\ captured[o] # None /\ captured[o] # import[o].output

\* Every step keeps a ledger stuck.
LEMMA StuckStep == LedgerInv /\ [Next]_vars /\ Stuck => Stuck'
<1> SUFFICES ASSUME LedgerInv, [Next]_vars, Stuck PROVE Stuck'
  OBVIOUS
<1>1. PICK o \in Occurrences, q \in Occurrences :
        o # q /\ captured[o] # None /\ captured[o] = captured[q]
  BY DEF Stuck
<1>2. version \in 3..6
  BY DEF Stuck
<1>3. ASSUME version' \in 3..6 PROVE Stuck'
  <2>1. captured'[o] = captured[o] /\ captured'[q] = captured[q]
    BY <1>1, <1>3, GrowthStep DEF GrowStep
  <2> QED BY <1>1, <1>3, <2>1 DEF Stuck
<1>4. ASSUME NEW head \in Releases, Migrate(head) PROVE version' \in 3..6
  <2>1. head \in 2..10 /\ version' = head /\ head > version
    BY <1>4, LedgerAssumption DEF Migrate
  <2>2. WithAssertions[o] = WithAssertions[q] /\ WithAssertions[o] # None
    <3>1. captured[o] \in Artifacts
      BY <1>1 DEF LedgerInv, LTypeOK
    <3>2. Row(captured[o], "legacy_digest_v1") # None
      BY <3>1, RowType DEF Layouts
    <3> QED BY <1>1, <3>2 DEF WithAssertions
  <2>3. ~ManifestsUnique(WithAssertions)
    BY <1>1, <2>2 DEF ManifestsUnique
  <2>4. ~Missing(7, head)
    BY <1>4, <2>3 DEF Migrate
  <2> QED BY <1>2, <2>1, <2>4 DEF Missing
<1>5. ASSUME ~\E head \in Releases : Migrate(head) PROVE version' = version
  BY <1>5 DEF Next, Write, Expect, Terminate, Attempt, Capture, FinishImport, Publish, Delete,
     Revise, StartImport, Attribute, AddAssertion, CaptureAsserted, StartRecording,
     FinishRecording, vars
<1> QED BY <1>2, <1>3, <1>4, <1>5

\* Once version 3 to 6 has captured the same bytes twice, which they accept, no
\* statement repairs it and no release takes the ledger past version 6.
THEOREM StuckForEver == Spec => [](Stuck => []Stuck)
  BY StuckStep, LedgerInductive, PTL DEF Spec

\* An import inserted as COMPLETE with an output that is not the capture, which no
\* trigger prevents, contradicts it for ever: the row is immutable and so is the
\* capture.
THEOREM ContradictedForEver ==
  ASSUME NEW o \in Occurrences
  PROVE  Spec => [](Contradicted(o) => []Contradicted(o))
<1>1. LedgerInv /\ [Next]_vars /\ Contradicted(o) => Contradicted(o)'
  <2> SUFFICES ASSUME LedgerInv, [Next]_vars, Contradicted(o) PROVE Contradicted(o)'
    OBVIOUS
  <2>1. version' >= version /\ version \in 2..10 /\ version' \in 2..10
    BY VersionGrows DEF LedgerInv, LTypeOK
  <2>2. version' >= 3 /\ version' >= 5
    BY <2>1 DEF Contradicted
  <2>3. captured'[o] = captured[o] /\ import'[o] = import[o]
    BY <2>2, GrowthStep DEF GrowStep, Contradicted
  <2> QED BY <2>2, <2>3 DEF Contradicted, Completed
<1> QED BY <1>1, LedgerInductive, PTL DEF Spec

================================================================================
