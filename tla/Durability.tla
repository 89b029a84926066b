------------------------------- MODULE Durability -------------------------------
(***************************************************************************)
(* Which bytes of process_artifact have been fsynced.  ProcessArtifact     *)
(* writes and fsyncs in one step, which is all that other processes see;   *)
(* here the fsync may also fail, or the call be killed before it returns.  *)
(* The kernel keeps the bytes, so the next call reads them, but no fsync   *)
(* has covered them.                                                       *)
(***************************************************************************)
EXTENDS ProcessArtifact

VARIABLES
  partialSynced,   \* per job: kinds whose partial is on disk as far as written
  finalSynced      \* per job: kinds whose published bytes are on disk

synced == <<partialSynced, finalSynced>>
dvars  == <<vars, synced>>

DInit ==
  /\ Init
  /\ partialSynced = [j \in Jobs |-> {}]
  /\ finalSynced = [j \in Jobs |-> {}]

--------------------------------------------------------------------------------
\* A new inode, none of whose bytes were synced.
OpenUnsynced(p) ==
  /\ Open(p)
  /\ partialSynced' = [partialSynced EXCEPT ![cur[p]] = @ \ {kind[p]}]
  /\ UNCHANGED finalSynced

\* out.flush and os.fsync return.
WriteSynced(p) ==
  /\ Write(p)
  /\ partialSynced' = [partialSynced EXCEPT ![cur[p]] = @ \cup {kind[p]}]
  /\ UNCHANGED finalSynced

\* os.fsync raises an OSError, which ends the call with an error, or the call is
\* killed after out.flush and before os.fsync returned.
WriteUnsynced(p) ==
  /\ pc[p] = "write"
  /\ Spend("fault")
  /\ SetPartial(p, IF kind[p] = "report" /\ partial[cur[p]][kind[p]] = "empty"
                   THEN "half" ELSE "full")
  /\ partialSynced' = [partialSynced EXCEPT ![cur[p]] = @ \ {kind[p]}]
  /\ \E outcome \in {"filesystem", "none"} : Leave(p, outcome)
  /\ UNCHANGED <<db, evidence, final, quarantine, altered, finalSynced>>

\* os.link gives the partial's inode its final name and syncs the directory only.
PublishInode(p) ==
  /\ Publish(p)
  /\ finalSynced' =
       IF final[cur[p]][kind[p]] = "absent" /\ kind[p] \in partialSynced[cur[p]]
       THEN [finalSynced EXCEPT ![cur[p]] = @ \cup {kind[p]}]
       ELSE finalSynced
  /\ UNCHANGED partialSynced

\* Steps that give no file new bytes or a new name.
Otherwise(p) ==
  /\ \/ Acquire(p) \/ LockTimeout(p) \/ Gate(p) \/ Eligible(p) \/ Prepare(p)
     \/ Inspect(p) \/ Stage(p) \/ Quarantine(p) \/ Withdraw(p) \/ Unlink(p)
     \/ VerifyPair(p) \/ Commit(p) \/ Confirm(p) \/ Interrupt(p)
     \/ \E j \in Jobs : Begin(p, j)
  /\ UNCHANGED synced

DNext ==
  \/ \E p \in Procs : OpenUnsynced(p) \/ WriteSynced(p) \/ WriteUnsynced(p)
                        \/ PublishInode(p) \/ Otherwise(p)
  \/ Environment /\ UNCHANGED synced

DSpec == DInit /\ [][DNext]_dvars

--------------------------------------------------------------------------------
\* "Steps 5-10: partials -> fsync/verify -> publish report first, manifest last"
\* (_produce_and_publish): bytes that the program publishes under a
\* content-addressed name have been fsynced before.
PublishedIsSynced ==
  \A j \in Jobs \ altered, k \in Kinds :
    final[j][k] # "absent" => k \in finalSynced[j]

================================================================================
