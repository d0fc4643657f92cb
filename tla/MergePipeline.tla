--------------------------- MODULE MergePipeline ---------------------------
(***************************************************************************)
(* worker merge, write by write.                                           *)
(*                                                                         *)
(* Multorum.tla takes a merge as one step.  Here it is the sequence the    *)
(* code runs once the submission has passed its checks: stage the new      *)
(* state and the audit entry in a temporary directory, require a clean     *)
(* workspace, apply the worker's commit without committing it, promote the *)
(* staged artifacts one by one by renames, commit, and on a failure put    *)
(* everything back in reverse order.  The renames and git may fail, the    *)
(* process may die anywhere, and the orchestrator may try again.           *)
(*                                                                         *)
(* Data abstraction: an artifact is the old one, the new one or missing;   *)
(* the canonical working tree is clean, edited by the orchestrator, or     *)
(* holds the applied or the conflicting patch ("abandoned" once no merge   *)
(* answers for it any more).  One worker is merged; the records of its     *)
(* siblings are part of the worker artifact.                               *)
(***************************************************************************)
EXTENDS Naturals, Sequences

CONSTANTS
  MaxAttempts,  \* bound: invocations of "worker merge" for the worker
  MaxFaults     \* bound: failing renames and git calls, and crashes

ASSUME MergeBoundsAssumption == MaxAttempts \in Nat /\ MaxFaults \in Nat

\* The artifacts a merge replaces, and the order of their promotion.
Artifact == {"bundle", "entry", "group", "worker", "exclusion"}

VARIABLES
  emptySubmission,  \* the submitted commit changes no file
  final,      \* what lies at the final path of each artifact
  staged,     \* artifacts whose staged version lies in the temporary directory
  backup,     \* artifacts whose original lies there
  auditDir,   \* .multorum/audit/<worker>-<head> exists
  tree,       \* working tree and index of the canonical workspace
  integrated, \* times the worker's commit was committed to the branch
  unreported, \* those of them git committed and then reported as failed
  payload,    \* "caller": the rationale files are the caller's; "moved"
  withBundle, \* this merge was given a nonempty rationale
  pc,         \* next step of the merge, "idle" when none runs
  done,       \* promotions made, or still to roll back
  before,     \* final when this merge began
  outcome,    \* how the latest merge ended
  unrecovered,\* recovery steps of this merge that failed
  attempts, faults

state == <<final, auditDir>>

temporary == <<staged, backup>>

branch == <<integrated, unreported>>

counters == <<attempts, faults>>

vars == <<emptySubmission, state, temporary, tree, branch, payload, withBundle, pc,
          done, before, outcome, unrecovered, counters>>

-----------------------------------------------------------------------------

Order ==
  IF withBundle THEN <<"bundle", "entry", "group", "worker", "exclusion">>
  ELSE <<"entry", "group", "worker", "exclusion">>

Original == [a \in Artifact |-> IF a \in {"bundle", "entry"} THEN "none" ELSE "old"]

HadOriginal(a) == before[a] # "none"

Failure == faults < MaxFaults /\ faults' = faults + 1 /\ UNCHANGED attempts

\* The temporary directory is deleted with what it holds.
DropStaging == staged' = {} /\ backup' = {}

End(how) ==
  /\ DropStaging
  /\ pc' = "idle" /\ outcome' = how /\ done' = 0
  /\ UNCHANGED <<emptySubmission, withBundle, before, unrecovered>>

Abandoned == IF tree = "picked" THEN "abandoned" ELSE tree

-----------------------------------------------------------------------------
(* Before the canonical branch is touched. *)

\* The worker must be COMMITTED in a state that can be read; once the boundary
\* of its group is cleared only an empty submission is still in scope.
BeginMerge ==
  /\ pc = "idle" /\ attempts < MaxAttempts /\ attempts' = attempts + 1
  /\ final["worker"] = "old"
  /\ final["group"] = "old" \/ (final["group"] = "new" /\ emptySubmission)
  /\ withBundle' \in {FALSE, payload = "caller"}
  /\ pc' = "prepare" /\ before' = final /\ outcome' = "running" /\ unrecovered' = 0
  /\ UNCHANGED <<emptySubmission, state, temporary, tree, branch, payload, done, faults>>

\* The audit id is taken: nothing of the payload has been moved yet.
RefuseExistingAudit ==
  /\ pc = "prepare" /\ auditDir
  /\ End("refused")
  /\ UNCHANGED <<state, tree, branch, payload, counters>>

PrepareMergeArtifacts ==
  /\ pc = "prepare" /\ ~auditDir
  /\ staged' = {Order[i] : i \in 1..Len(Order)}
  /\ payload' = IF withBundle THEN "moved" ELSE payload
  /\ pc' = "inspect"
  /\ UNCHANGED <<emptySubmission, state, backup, tree, branch, withBundle, done, before,
                 outcome, unrecovered, counters>>

\* A failing write: the body or an artifact may have been moved by then.
PrepareFails ==
  /\ pc = "prepare" /\ ~auditDir
  /\ Failure
  /\ payload' \in {payload, IF withBundle THEN "moved" ELSE payload}
  /\ End("refused")
  /\ UNCHANGED <<state, tree, branch>>

EnsureCleanWorkspace ==
  /\ pc = "inspect"
  /\ IF tree = "clean"
     THEN /\ pc' = "integrate"
          /\ UNCHANGED <<emptySubmission, temporary, withBundle, done, before, outcome,
                         unrecovered>>
     ELSE End("refused")
  /\ UNCHANGED <<state, tree, branch, payload, counters>>

-----------------------------------------------------------------------------
(* Integration without a commit, and the promotions. *)

\* Slip: the commit is picked and committed at once.
PickAndCommit ==
  /\ pc = "integrate"
  /\ integrated' = integrated + 1 /\ unreported' = unreported
  /\ pc' = "promote"
  /\ UNCHANGED <<emptySubmission, state, temporary, tree, payload, withBundle, done, before,
                 outcome, unrecovered, counters>>

BeginIntegration ==
  /\ pc = "integrate"
  /\ tree' = IF emptySubmission THEN tree ELSE "picked"
  /\ pc' = "promote"
  /\ UNCHANGED <<emptySubmission, state, temporary, branch, payload, withBundle, done,
                 before, outcome, unrecovered, counters>>

\* The patch conflicts.  "cherry-pick --abort" has nothing to abort after a
\* "cherry-pick --no-commit" of one commit: the conflict stays in the tree.
ConflictingIntegration ==
  /\ pc = "integrate" /\ ~emptySubmission
  /\ tree' = "conflicted"
  /\ End("refused")
  /\ UNCHANGED <<state, branch, payload, counters>>

\* The original is renamed into the temporary directory first ...
SetAside ==
  LET a == Order[done + 1] IN
  /\ pc = "promote" /\ HadOriginal(a)
  /\ final' = [final EXCEPT ![a] = "none"]
  /\ backup' = backup \cup {a}
  /\ pc' = "swap"
  /\ UNCHANGED <<emptySubmission, auditDir, staged, tree, branch, payload, withBundle,
                 done, before, outcome, unrecovered, counters>>

\* Slip: the canonical commit comes before the exclusion set is replaced.
FinalizeEarly == IF done + 2 >= Len(Order) THEN "finalize" ELSE "promote"

AfterPromotion == IF done + 1 = Len(Order) THEN "finalize" ELSE "promote"

\* ... and then the staged version takes its place.
Promote ==
  LET a == Order[done + 1] IN
  /\ pc = "swap" \/ (pc = "promote" /\ ~HadOriginal(a))
  /\ final' = [final EXCEPT ![a] = "new"]
  /\ staged' = staged \ {a}
  /\ auditDir' = (auditDir \/ a \in {"bundle", "entry"})
  /\ done' = done + 1
  /\ pc' = AfterPromotion
  /\ UNCHANGED <<emptySubmission, backup, tree, branch, payload, withBundle, before,
                 outcome, unrecovered, counters>>

\* Slip: the rollback starts one artifact too far.
RollBackTooMany ==
  /\ pc \in {"promote", "swap"}
  /\ Failure
  /\ done' = done + 2
  /\ pc' = "rollback"
  /\ UNCHANGED <<emptySubmission, state, temporary, tree, branch, payload, withBundle,
                 before, outcome, unrecovered>>

\* The parent directory may have been created by then.
PromotionFails ==
  /\ pc \in {"promote", "swap"}
  /\ Failure
  /\ auditDir' \in {auditDir, auditDir \/ Order[done + 1] = "entry"}
  /\ done' = done + 1
  /\ pc' = "rollback"
  /\ UNCHANGED <<emptySubmission, final, temporary, tree, branch, payload, withBundle,
                 before, outcome, unrecovered>>

\* git commit --allow-empty: the work is on the branch.  The pre-commit hook
\* reads the exclusion set as it is by now, released for the merged group.
FinalizeIntegration ==
  /\ pc = "finalize" /\ (final["exclusion"] # "old" \/ emptySubmission)
  /\ integrated' = integrated + 1 /\ unreported' = unreported
  /\ tree' = "clean"
  /\ pc' = "cleanup"
  /\ UNCHANGED <<emptySubmission, state, temporary, payload, withBundle, done, before, outcome,
                 unrecovered, counters>>

\* A hook of the canonical workspace rejects the commit.
FinalizeFails ==
  /\ pc = "finalize"
  /\ pc' = "rollback"
  /\ UNCHANGED <<emptySubmission, state, temporary, tree, branch, payload, withBundle,
                 done, before, outcome, unrecovered, counters>>

\* git has moved the branch and then fails, at writing the new index: the merge
\* takes it for a refusal, and the abort keeps the commit.
FinalizeUnreported ==
  /\ pc = "finalize" /\ (final["exclusion"] # "old" \/ emptySubmission)
  /\ Failure
  /\ integrated' = integrated + 1 /\ unreported' = unreported + 1
  /\ pc' = "rollback"
  /\ UNCHANGED <<emptySubmission, state, temporary, tree, payload, withBundle, done, before,
                 outcome, unrecovered>>

Cleanup ==
  /\ pc = "cleanup"
  /\ End("merged")
  /\ UNCHANGED <<state, tree, branch, payload, counters>>

-----------------------------------------------------------------------------
(* Recovery. *)

\* Slip: only artifacts that replaced something are put back.
RestoreOriginals(a) ==
  /\ final' = [final EXCEPT ![a] = IF a \in backup THEN "old" ELSE @]
  /\ staged' = staged /\ auditDir' = auditDir

\* The promoted version goes back to the temporary directory, the audit
\* directory with it when the bundle was promoted, and the original returns.
Restore(a) ==
  /\ final' = [final EXCEPT ![a] = IF a \in backup THEN before[a]
                                   ELSE IF @ = "new" /\ ~HadOriginal(a) THEN "none" ELSE @]
  /\ staged' = staged \cup {a}
  /\ auditDir' = (auditDir /\ a # "bundle")

Rollback ==
  LET a == Order[done] IN
  /\ pc = "rollback" /\ done > 0
  /\ Restore(a)
  /\ backup' = backup \ {a}
  /\ done' = done - 1
  /\ UNCHANGED <<emptySubmission, tree, branch, payload, withBundle, pc, before, outcome,
                 unrecovered, counters>>

\* The first failure ends the rollback; what is left stays as it is.
RollbackFails ==
  /\ pc = "rollback" /\ done > 0
  /\ Failure
  /\ pc' = "abort" /\ unrecovered' = unrecovered + 1
  /\ UNCHANGED <<emptySubmission, state, temporary, tree, branch, payload, withBundle,
                 done, before, outcome>>

RolledBack ==
  /\ pc = "rollback" /\ done = 0
  /\ pc' = "abort"
  /\ UNCHANGED <<emptySubmission, state, temporary, tree, branch, payload, withBundle,
                 done, before, outcome, unrecovered, counters>>

\* Slip: the canonical workspace is left as it is.
SkipAbort ==
  /\ pc = "abort"
  /\ End("refused")
  /\ UNCHANGED <<state, tree, branch, payload, counters>>

\* cherry-pick --abort, or else reset --hard; then the cleanup.
AbortIntegration ==
  /\ pc = "abort"
  /\ tree' = IF emptySubmission THEN tree ELSE "clean"
  /\ End("refused")
  /\ UNCHANGED <<state, branch, payload, counters>>

AbortFails ==
  /\ pc = "abort" /\ ~emptySubmission
  /\ Failure
  /\ DropStaging
  /\ tree' = Abandoned
  /\ pc' = "idle" /\ outcome' = "refused" /\ done' = 0 /\ unrecovered' = unrecovered + 1
  /\ UNCHANGED <<emptySubmission, state, branch, payload, withBundle, before>>

-----------------------------------------------------------------------------
(* The environment. *)

\* The temporary directory survives a crash, but no command looks there.
Crash ==
  /\ pc # "idle"
  /\ Failure
  /\ tree' = Abandoned
  /\ End("crashed")
  /\ UNCHANGED <<state, branch, payload>>

\* Between merges the orchestrator edits the workspace or cleans it up.
EditWorkspace ==
  /\ pc = "idle"
  /\ tree' = IF tree = "clean" THEN "dirty" ELSE "clean"
  /\ UNCHANGED <<emptySubmission, state, temporary, branch, payload, withBundle, pc, done,
                 before, outcome, unrecovered, counters>>

Init ==
  /\ emptySubmission \in BOOLEAN
  /\ final = Original /\ before = Original
  /\ staged = {} /\ backup = {} /\ auditDir = FALSE
  /\ tree = "clean" /\ integrated = 0 /\ unreported = 0
  /\ payload = "caller" /\ withBundle = FALSE
  /\ pc = "idle" /\ done = 0 /\ outcome = "none" /\ unrecovered = 0
  /\ attempts = 0 /\ faults = 0

\* What the merge does of itself.
Step ==
  \/ RefuseExistingAudit \/ PrepareMergeArtifacts \/ EnsureCleanWorkspace
  \/ BeginIntegration \/ ConflictingIntegration \/ SetAside \/ Promote
  \/ FinalizeIntegration \/ FinalizeFails \/ Cleanup
  \/ Rollback \/ RolledBack \/ AbortIntegration

Fault ==
  \/ PrepareFails \/ PromotionFails \/ FinalizeUnreported \/ RollbackFails \/ AbortFails
  \/ Crash

Next == BeginMerge \/ Step \/ Fault \/ EditWorkspace

\* The merge waits for nobody: one of its steps is always taken.
Spec == Init /\ [][Next]_vars /\ WF_vars(Step)

-----------------------------------------------------------------------------
(* Properties. *)

TypeOK ==
  /\ emptySubmission \in BOOLEAN /\ withBundle \in BOOLEAN /\ auditDir \in BOOLEAN
  /\ final \in [Artifact -> {"old", "new", "none"}]
  /\ before \in [Artifact -> {"old", "new", "none"}]
  /\ staged \subseteq Artifact /\ backup \subseteq Artifact
  /\ tree \in {"clean", "dirty", "picked", "conflicted", "abandoned"}
  /\ integrated \in Nat /\ unreported \in Nat /\ payload \in {"caller", "moved"}
  /\ pc \in {"idle", "prepare", "inspect", "integrate", "promote", "swap", "finalize",
             "cleanup", "rollback", "abort"}
  /\ done \in 0..Len(Order)
  /\ outcome \in {"none", "running", "refused", "merged", "crashed"}
  /\ unrecovered \in Nat /\ attempts \in 0..MaxAttempts /\ faults \in 0..MaxFaults

\* Work that git reported as committed is on the canonical branch only if the
\* worker is recorded as MERGED, its group's boundary and the exclusion set are
\* released, and the audit entry is written: the record is promoted before the
\* commit, and no failure or crash undoes it afterwards (orchestrator.rs, 1246).
CommittedImpliesRecorded ==
  integrated > unreported => \A a \in Artifact \ {"bundle"} : final[a] = "new"

\* One submission reaches the canonical branch at most once, not counting the
\* commits git reported as failed, however often the merge is retried and
\* wherever it died.
NeverIntegratedTwice == integrated <= unreported + 1

\* A merge that was refused, at whatever step, has put every artifact and the
\* workspace back, unless a step of the recovery itself failed; exceptions are
\* the conflict left by a patch that does not apply and, without a rationale
\* bundle, an empty audit directory.  One that succeeded replaced everything.
AllOrNothing ==
  /\ outcome = "refused" /\ unrecovered = 0 /\ pc = "idle" =>
       /\ final = before
       /\ tree # "picked"
       /\ withBundle /\ payload = "moved" => ~auditDir
       /\ integrated = unreported
  /\ outcome = "merged" =>
       /\ \A i \in 1..Len(Order) : final[Order[i]] = "new"
       /\ integrated = unreported + 1 /\ tree # "picked"

\* The rationale files are the caller's until they are in the audit trail.
PayloadRetained ==
  pc = "idle" /\ outcome = "refused" /\ unrecovered = 0 =>
    payload = "caller" \/ final["bundle"] = "new"

\* A patch applied to the canonical workspace is committed or taken out again,
\* unless the process died or its recovery failed.
PickedIsSettled ==
  (tree = "picked") ~> (tree = "clean" \/ outcome = "crashed" \/ unrecovered > 0)
=============================================================================
