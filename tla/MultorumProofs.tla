--------------------------- MODULE MultorumProofs ---------------------------
(***************************************************************************)
(* Theorems about the orchestration core, for every set of workers,        *)
(* perspectives, files and rulebook versions, and for every choice of when *)
(* agents issue commands.                                                  *)
(***************************************************************************)
EXTENDS Multorum, TLAPS

GroupRecord == [base : Nat, read : SUBSET File, write : SUBSET File]

HeadOrNone == Revision \cup {None}

USE DEF Live, Final, WorkerState

-----------------------------------------------------------------------------
(* The operators the actions are built from. *)

\* The record a group is formed or forwarded to is a group record.
LEMMA TargetTyped ==
  ASSUME TypeOK, NEW p \in Perspective, Declared(p)
  PROVE  Target(p) \in GroupRecord
<1>1. Compiled[rulebook][p] \in Boundary
  BY CompiledAssumption DEF TypeOK, Declared
<1>2. CurrentHead \in Nat
  BY DEF TypeOK, CurrentHead
<1> QED
  BY <1>1, <1>2 DEF Target, Boundary, GroupRecord

\* Collecting group records never leaves the repository.
LEMMA CollectTyped ==
  group' \in [Perspective -> GroupRecord] => CollectExclusionSet' \in SUBSET File
BY DEF CollectExclusionSet, Contribution, Owned, GroupRecord

\* Dropping an entry leaves group records.
LEMMA GcTyped ==
  ASSUME TypeOK, NEW w \in Worker
  PROVE  GcEmptyGroups(w) \in [Perspective -> GroupRecord]
BY DEF TypeOK, GcEmptyGroups, NoGroup, GroupRecord

\* A worker with an entry has a perspective and a worktree.
LEMMA EntryTyped ==
  ASSUME TypeOK, NEW w \in Worker, state[w] # "ABSENT"
  PROVE  member[w] \in Perspective /\ worktree[w] \in Revision
BY DEF TypeOK

\* Moving a revision to HEAD yields a revision.
LEMMA RebaseTyped ==
  ASSUME TypeOK, NEW h \in Revision
  PROVE  Rebase(h) \in Revision
<1>1. CurrentHead \in Nat
  BY DEF TypeOK, CurrentHead
<1> QED
  BY <1>1 DEF Rebase, Revision

\* A fresh worktree at HEAD is a revision.
LEMMA CheckoutTyped ==
  ASSUME TypeOK
  PROVE  Checkout(CurrentHead) \in Revision
<1>1. CurrentHead \in Nat
  BY DEF TypeOK, CurrentHead
<1> QED
  BY <1>1 DEF Checkout, Revision

\* Forwarding moves worktrees and submissions and takes none away.
LEMMA ForwardedTyped ==
  ASSUME TypeOK, NEW p \in Perspective
  PROVE  /\ ForwardedWorktrees(p) \in [Worker -> HeadOrNone]
         /\ ForwardedSubmissions(p) \in [Worker -> HeadOrNone]
         /\ \A v \in Worker :
              worktree[v] # None => ForwardedWorktrees(p)[v] # None
<1>1. \A v \in MovedWorkers(p) : Rebase(worktree[v]) \in Revision
  <2> SUFFICES ASSUME NEW v \in MovedWorkers(p)
               PROVE  Rebase(worktree[v]) \in Revision
    OBVIOUS
  <2>1. v \in Worker /\ state[v] # "ABSENT"
    BY DEF MovedWorkers, LiveWorkers
  <2>2. worktree[v] \in Revision
    BY <2>1, EntryTyped
  <2> QED
    BY <2>2, RebaseTyped
<1> QED
  BY <1>1, AgentAssumption DEF TypeOK, ForwardedWorktrees, ForwardedSubmissions, HeadOrNone

-----------------------------------------------------------------------------
(* Type correctness. *)

\* The empty project has the types.
LEMMA TypeInit == Init => TypeOK
BY CompiledAssumption, AgentAssumption
   DEF Init, TypeOK, NoGroup, EmptyInbox

\* Creating a worker keeps the types, whatever it does to its siblings.
LEMMA EnterKeepsTypes ==
  ASSUME TypeOK, NEW p \in Perspective, NEW w \in Worker,
         Declared(p),
         NEW trees \in [Worker -> HeadOrNone],
         NEW heads \in [Worker -> HeadOrNone],
         \A v \in Worker : worktree[v] # None => trees[v] # None,
         Enter(p, w, trees, heads)
  PROVE  TypeOK'
<1>1. group' \in [Perspective -> GroupRecord]
  BY TargetTyped, GcTyped DEF Enter
<1>2. exclusion' \in SUBSET File
  BY <1>1, CollectTyped DEF Enter
<1>3. worktree' \in [Worker -> HeadOrNone] /\ submitted' \in [Worker -> HeadOrNone]
  BY CheckoutTyped DEF Enter, HeadOrNone
<1>4. reported' \in [Worker -> HeadOrNone]
  BY DEF Enter, TypeOK, HeadOrNone
<1>5. inbox' \in [Worker -> [Kind -> Nat]]
  BY DEF Enter, TypeOK, EmptyInbox, Kind
<1>6. /\ state' \in [Worker -> WorkerState \cup {"ABSENT"}]
      /\ member' \in [Worker -> Perspective \cup {None}]
      /\ rulebook' \in Rulebook /\ committed' \in Rulebook
      /\ canonical' \in Seq(SUBSET File)
  BY DEF Enter, TypeOK
<1>7. \A v \in Worker : state'[v] # "ABSENT" =>
        member'[v] # None /\ worktree'[v] # None
  BY CheckoutTyped, AgentAssumption DEF Enter, TypeOK
<1> QED
  BY <1>1, <1>2, <1>3, <1>4, <1>5, <1>6, <1>7
     DEF TypeOK, GroupRecord, HeadOrNone

\* So does forwarding a group.
LEMMA ForwardKeepsTypes ==
  ASSUME TypeOK, NEW p \in Perspective, Forward(p),
         inbox' \in [Worker -> [Kind -> Nat]]
  PROVE  TypeOK'
<1>1. group' \in [Perspective -> GroupRecord]
  BY TargetTyped DEF Forward, Forwardable, TypeOK, GroupRecord
<1>2. exclusion' \in SUBSET File
  BY <1>1, CollectTyped DEF Forward
<1>3. /\ worktree' \in [Worker -> HeadOrNone]
      /\ submitted' \in [Worker -> HeadOrNone]
      /\ \A v \in Worker : worktree[v] # None => worktree'[v] # None
  BY ForwardedTyped DEF Forward
<1> QED
  BY <1>1, <1>2, <1>3 DEF Forward, TypeOK, GroupRecord, HeadOrNone

\* The revisions an agent can name are revisions.
LEMMA AncestorsTyped ==
  ASSUME NEW h \in Revision
  PROVE  Ancestors(h) \subseteq Revision
<1>1. SUFFICES ASSUME NEW i \in 0..Len(h.edits)
               PROVE  [h EXCEPT !.edits = SubSeq(@, 1, i)] \in Revision
  BY DEF Ancestors
<1>2. SubSeq(h.edits, 1, i) \in Seq(SUBSET File)
  BY DEF Revision
<1> QED
  BY <1>2 DEF Revision

\* Publishing a bundle counts one more.
LEMMA PublishTyped ==
  ASSUME TypeOK, NEW w \in Worker, NEW k \in Kind, Publish(w, k)
  PROVE  inbox' \in [Worker -> [Kind -> Nat]]
BY DEF TypeOK, Publish

\* Every command keeps the types.
LEMMA TypeStep == TypeOK /\ [Next]_vars => TypeOK'
<1> SUFFICES ASSUME TypeOK, [Next]_vars
             PROVE  TypeOK'
  OBVIOUS
<1>1. ASSUME NEW p \in Perspective, NEW w \in Worker,
             \/ CreateForming(p, w)
             \/ CreateJoining(p, w)
             \/ CreateAutoForwarding(p, w)
      PROVE  TypeOK'
  <2>1. worktree \in [Worker -> HeadOrNone] /\ submitted \in [Worker -> HeadOrNone]
    BY DEF TypeOK, HeadOrNone
  <2>2. CASE CreateForming(p, w) \/ CreateJoining(p, w)
    BY <2>1, <2>2, EnterKeepsTypes DEF CreateForming, CreateJoining
  <2>3. CASE CreateAutoForwarding(p, w)
    BY <2>3, ForwardedTyped, EnterKeepsTypes
       DEF CreateAutoForwarding, Forwardable
  <2> QED
    BY <1>1, <2>2, <2>3
<1>2. ASSUME NEW p \in Perspective, ForwardPerspective(p)
      PROVE  TypeOK'
  BY <1>2, ForwardKeepsTypes DEF ForwardPerspective, TypeOK
<1>3. ASSUME NEW w \in Worker, ResolveWorker(w)
      PROVE  TypeOK'
  BY <1>3, PublishTyped DEF ResolveWorker, Kind, TypeOK
<1>4. ASSUME NEW w \in Worker, ResolveAutoForwarding(w)
      PROVE  TypeOK'
  <2>1. member[w] \in Perspective
    BY <1>4, EntryTyped DEF ResolveAutoForwarding
  <2>2. inbox' \in [Worker -> [Kind -> Nat]]
    BY <1>4, PublishTyped DEF ResolveAutoForwarding, Kind
  <2> QED
    BY <1>4, <2>1, <2>2, ForwardKeepsTypes DEF ResolveAutoForwarding
<1>5. ASSUME NEW w \in Worker, HintWorker(w)
      PROVE  TypeOK'
  BY <1>5, PublishTyped DEF HintWorker, Kind, TypeOK
<1>6. ASSUME NEW w \in Worker, ReviseWorker(w)
      PROVE  TypeOK'
  BY <1>6, PublishTyped DEF ReviseWorker, Kind, TypeOK
<1>7. ASSUME NEW w \in Worker, DiscardWorker(w)
      PROVE  TypeOK'
  <2>1. group' \in [Perspective -> GroupRecord]
    BY <1>7 DEF DiscardWorker, ClearBoundary, TypeOK, GroupRecord
  <2>2. exclusion' \in SUBSET File
    BY <1>7, <2>1, CollectTyped DEF DiscardWorker
  <2> QED
    BY <1>7, <2>1, <2>2 DEF DiscardWorker, TypeOK, GroupRecord
<1>8. ASSUME NEW w \in Worker, DeleteWorker(w)
      PROVE  TypeOK'
  <2>1. group' \in [Perspective -> GroupRecord]
    BY <1>8, GcTyped DEF DeleteWorker
  <2>2. exclusion' \in SUBSET File
    BY <1>8, <2>1, CollectTyped DEF DeleteWorker
  <2>3. inbox' \in [Worker -> [Kind -> Nat]]
    BY <1>8 DEF DeleteWorker, TypeOK, EmptyInbox
  <2> QED
    BY <1>8, <2>1, <2>2, <2>3 DEF DeleteWorker, TypeOK, GroupRecord
<1>9. ASSUME NEW w \in Worker, MergeWorker(w)
      PROVE  TypeOK'
  <2>1. submitted[w] \in Revision
    BY <1>9 DEF MergeWorker, TypeOK
  <2>2. canonical' \in Seq(SUBSET File)
    BY <1>9, <2>1 DEF MergeWorker, TypeOK, HeadFiles, Revision
  <2>3. group' \in [Perspective -> GroupRecord]
    BY <1>9 DEF MergeWorker, ClearBoundary, TypeOK, GroupRecord
  <2>4. exclusion' \in SUBSET File
    BY <1>9, <2>3, CollectTyped DEF MergeWorker
  <2>5. state' \in [Worker -> WorkerState \cup {"ABSENT"}]
    BY <1>9 DEF MergeWorker, GroupFinalized, TypeOK
  <2>6. submitted' \in [Worker -> Revision \cup {None}]
    BY <1>9 DEF MergeWorker, TypeOK
  <2>7. \A v \in Worker : state'[v] # "ABSENT" =>
          member'[v] # None /\ worktree'[v] # None
    BY <1>9 DEF MergeWorker, GroupFinalized, LiveWorkers, TypeOK
  <2> QED
    BY <1>9, <2>2, <2>3, <2>4, <2>5, <2>6, <2>7
       DEF MergeWorker, TypeOK, GroupRecord
<1>10. ASSUME NEW w \in Worker, NEW k \in Kind, AckInbox(w, k)
       PROVE  TypeOK'
  <2>1. state[w] # "ABSENT"
    BY <1>10, AgentAssumption DEF AckInbox, Agent
  <2> QED
    BY <1>10, <2>1 DEF AckInbox, TypeOK
<1>11. ASSUME NEW w \in Worker, Agent(w), NEW h \in ReportedHeads(w),
              SendReport(w, h) \/ RejectedReport(w, h)
       PROVE  TypeOK'
  <2>1. state[w] # "ABSENT"
    BY <1>11, AgentAssumption DEF Agent
  <2>2. h \in Revision \cup {None}
    BY <2>1, EntryTyped, AncestorsTyped DEF ReportedHeads
  <2> QED
    BY <1>11, <2>1, <2>2 DEF SendReport, RejectedReport, TypeOK
<1>12. ASSUME NEW w \in Worker, Agent(w), NEW h \in Ancestors(worktree[w]),
              SendCommit(w, h)
       PROVE  TypeOK'
  <2>1. state[w] # "ABSENT"
    BY <1>12, AgentAssumption DEF Agent
  <2>2. h \in Revision
    BY <2>1, EntryTyped, AncestorsTyped
  <2> QED
    BY <1>12, <2>1, <2>2 DEF SendCommit, TypeOK
<1>13. ASSUME NEW w \in Worker, NEW S \in EditSet, CommitInWorktree(w, S)
       PROVE  TypeOK'
  <2>1. worktree[w] \in Revision
    BY <1>13, EntryTyped, AgentAssumption DEF CommitInWorktree, Agent
  <2>2. S \in SUBSET File
    BY AgentAssumption
  <2>3. worktree'[w] \in Revision
    <3>1. worktree'[w] = [worktree[w] EXCEPT !.edits = Append(@, S)]
      BY <1>13 DEF CommitInWorktree, TypeOK
    <3>2. Append(worktree[w].edits, S) \in Seq(SUBSET File)
      BY <2>1, <2>2 DEF Revision
    <3> QED
      BY <2>1, <3>1, <3>2 DEF Revision
  <2>4. worktree' \in [Worker -> Revision \cup {None}]
    BY <1>13, <2>3 DEF CommitInWorktree, TypeOK
  <2> QED
    BY <1>13, <2>3, <2>4, AgentAssumption DEF CommitInWorktree, TypeOK
<1>14. ASSUME NEW r \in Rulebook, EditRulebook(r)
       PROVE  TypeOK'
  BY <1>14 DEF EditRulebook, TypeOK
<1>15. CASE CommitRulebook
  BY <1>15 DEF CommitRulebook, TypeOK
<1>16. ASSUME NEW S \in EditSet, CommitCanonical(S)
       PROVE  TypeOK'
  BY <1>16, AgentAssumption DEF CommitCanonical, TypeOK
<1>17. CASE UNCHANGED vars
  BY <1>17 DEF vars, TypeOK
<1>18. CASE OrchestratorStep
  BY <1>18, <1>1, <1>2, <1>3, <1>4, <1>5, <1>6, <1>7, <1>8, <1>9
     DEF OrchestratorStep
<1>19. CASE AgentStep
  BY <1>19, <1>10, <1>11, <1>12, <1>13 DEF AgentStep
<1>20. CASE CanonicalStep
  BY <1>20, <1>14, <1>15, <1>16 DEF CanonicalStep
<1> QED
  BY <1>17, <1>18, <1>19, <1>20 DEF Next

\* The types hold in every reachable state; in particular a worker entry
\* never outlives its worktree.
THEOREM TypeCorrect == Spec => []TypeOK
BY TypeInit, TypeStep, PTL DEF Spec

-----------------------------------------------------------------------------
(***************************************************************************)
(* The exclusion set.  A command of a worker changes its lifecycle state   *)
(* and leaves exclusion-set.txt alone, so the file stays exact only because *)
(* a worker that comes back to life brings no boundary with it: the group  *)
(* it belongs to either was live all along or owns nothing.                *)
(***************************************************************************)
ExclusionInv == TypeOK /\ DeadGroupsOwnNothing /\ ExclusionMatches

\* In an empty project no group is live and the exclusion set is empty.
LEMMA ExclusionInit == Init => ExclusionInv
<1> SUFFICES ASSUME Init
             PROVE  ExclusionInv
  OBVIOUS
<1>1. TypeOK
  BY TypeInit
<1>2. \A p \in Perspective : ~HasLiveWorkers(p)
  BY DEF Init, HasLiveWorkers, LiveWorkers
<1>3. DeadGroupsOwnNothing
  BY DEF Init, DeadGroupsOwnNothing, Owned, NoGroup
<1>4. ExclusionMatches
  BY <1>2 DEF Init, ExclusionMatches, CollectExclusionSet
<1> QED
  BY <1>1, <1>3, <1>4 DEF ExclusionInv

\* A worker that is live after a step of its own keeps the invariant.
LEMMA ReviveKeepsExclusion ==
  ASSUME ExclusionInv, NEW w \in Worker, NEW s \in Live,
         state' = [state EXCEPT ![w] = s],
         UNCHANGED <<group, member, exclusion>>
  PROVE  DeadGroupsOwnNothing' /\ ExclusionMatches'
<1>1. \A p \in Perspective : HasLiveWorkers(p) => HasLiveWorkers(p)'
  BY DEF ExclusionInv, TypeOK, HasLiveWorkers, LiveWorkers
<1>2. DeadGroupsOwnNothing'
  BY <1>1 DEF ExclusionInv, DeadGroupsOwnNothing
<1>3. CollectExclusionSet' = CollectExclusionSet
  BY <1>1 DEF ExclusionInv, DeadGroupsOwnNothing, CollectExclusionSet,
              Contribution
<1> QED
  BY <1>2, <1>3 DEF ExclusionInv, ExclusionMatches

\* Steps that touch no group, worker state or projection keep it as well.
LEMMA IdleKeepsExclusion ==
  ASSUME ExclusionInv, UNCHANGED <<group, state, member, exclusion>>
  PROVE  DeadGroupsOwnNothing' /\ ExclusionMatches'
BY DEF ExclusionInv, DeadGroupsOwnNothing, ExclusionMatches, HasLiveWorkers,
       LiveWorkers, CollectExclusionSet, Contribution

\* A new worker gives its own group a boundary and revives no other group.
LEMMA EnterKeepsExclusion ==
  ASSUME ExclusionInv, NEW p \in Perspective, NEW w \in Worker,
         NEW trees, NEW heads, Enter(p, w, trees, heads)
  PROVE  DeadGroupsOwnNothing' /\ ExclusionMatches'
<1>1. HasLiveWorkers(p)'
  BY DEF Enter, ExclusionInv, TypeOK, HasLiveWorkers, LiveWorkers
<1>2. \A q \in Perspective : HasLiveWorkers(q) => HasLiveWorkers(q)'
  BY DEF Enter, ExclusionInv, TypeOK, HasLiveWorkers, LiveWorkers
<1>3. \A q \in Perspective \ {p} : group'[q] = group[q] \/ group'[q] = NoGroup
  BY DEF Enter, GcEmptyGroups
<1>4. DeadGroupsOwnNothing'
  BY <1>1, <1>2, <1>3 DEF ExclusionInv, DeadGroupsOwnNothing, Owned, NoGroup
<1> QED
  BY <1>4 DEF Enter, ExclusionMatches

\* Forwarding touches the record of a live group only.
LEMMA ForwardKeepsExclusion ==
  ASSUME ExclusionInv, NEW p \in Perspective, Forward(p)
  PROVE  DeadGroupsOwnNothing' /\ ExclusionMatches'
<1>1. \A q \in Perspective : HasLiveWorkers(q)' <=> HasLiveWorkers(q)
  BY DEF Forward, HasLiveWorkers, LiveWorkers
<1>2. HasLiveWorkers(p)
  BY DEF Forward, Forwardable
<1>3. DeadGroupsOwnNothing'
  BY <1>1, <1>2 DEF Forward, ExclusionInv, DeadGroupsOwnNothing
<1> QED
  BY <1>3 DEF Forward, ExclusionMatches

\* Discarding clears the boundary exactly when the last live worker goes.
LEMMA DiscardKeepsExclusion ==
  ASSUME ExclusionInv, NEW w \in Worker, DiscardWorker(w)
  PROVE  DeadGroupsOwnNothing' /\ ExclusionMatches'
<1>1. w \in LiveWorkers(member[w]) /\ member[w] \in Perspective
  BY EntryTyped DEF DiscardWorker, ExclusionInv, LiveWorkers
<1>2. \A q \in Perspective \ {member[w]} :
        group'[q] = group[q] /\ (HasLiveWorkers(q) => HasLiveWorkers(q)')
  BY DEF DiscardWorker, ExclusionInv, TypeOK, HasLiveWorkers, LiveWorkers
<1>3. ~HasLiveWorkers(member[w])' => Owned(group'[member[w]]) = {}
  <2>1. CASE LiveWorkers(member[w]) = {w}
    BY <1>1, <2>1 DEF DiscardWorker, ClearBoundary, Owned, ExclusionInv, TypeOK
  <2>2. CASE LiveWorkers(member[w]) # {w}
    <3>1. PICK v \in LiveWorkers(member[w]) : v # w
      BY <1>1, <2>2
    <3>2. v \in Worker /\ member'[v] = member[w] /\ state'[v] \in Live
      BY <3>1 DEF DiscardWorker, ExclusionInv, TypeOK, LiveWorkers
    <3> QED
      BY <3>2 DEF DiscardWorker, HasLiveWorkers, LiveWorkers
  <2> QED
    BY <2>1, <2>2
<1>4. member' = member
  BY DEF DiscardWorker
<1>5. DeadGroupsOwnNothing'
  BY <1>2, <1>3, <1>4 DEF ExclusionInv, DeadGroupsOwnNothing
<1> QED
  BY <1>5 DEF DiscardWorker, ExclusionMatches

\* Deleting concerns a worker that kept no group alive.
LEMMA DeleteKeepsExclusion ==
  ASSUME ExclusionInv, NEW w \in Worker, DeleteWorker(w)
  PROVE  DeadGroupsOwnNothing' /\ ExclusionMatches'
<1>1. \A q \in Perspective : HasLiveWorkers(q) => HasLiveWorkers(q)'
  BY DEF DeleteWorker, ExclusionInv, TypeOK, HasLiveWorkers, LiveWorkers
<1>2. \A q \in Perspective : group'[q] = group[q] \/ group'[q] = NoGroup
  BY DEF DeleteWorker, GcEmptyGroups
<1>3. DeadGroupsOwnNothing'
  BY <1>1, <1>2 DEF ExclusionInv, DeadGroupsOwnNothing, Owned, NoGroup
<1> QED
  BY <1>3 DEF DeleteWorker, ExclusionMatches

\* A merge ends one group and no other.
LEMMA MergeKeepsExclusion ==
  ASSUME ExclusionInv, NEW w \in Worker, MergeWorker(w)
  PROVE  DeadGroupsOwnNothing' /\ ExclusionMatches'
<1>1. member[w] \in Perspective
  BY EntryTyped DEF MergeWorker, ExclusionInv
<1>2. \A q \in Perspective \ {member[w]} :
        group'[q] = group[q] /\ (HasLiveWorkers(q) => HasLiveWorkers(q)')
  BY DEF MergeWorker, GroupFinalized, ExclusionInv, TypeOK, HasLiveWorkers,
         LiveWorkers
<1>3. Owned(group'[member[w]]) = {}
  BY <1>1 DEF MergeWorker, ClearBoundary, Owned, ExclusionInv, TypeOK
<1>4. DeadGroupsOwnNothing'
  BY <1>2, <1>3 DEF ExclusionInv, DeadGroupsOwnNothing
<1> QED
  BY <1>4 DEF MergeWorker, ExclusionMatches

\* Every command keeps the exclusion set exact and dead groups empty.
LEMMA ExclusionStep == ExclusionInv /\ [Next]_vars => ExclusionInv'
<1> SUFFICES ASSUME ExclusionInv, [Next]_vars
             PROVE  DeadGroupsOwnNothing' /\ ExclusionMatches'
  BY TypeStep DEF ExclusionInv
<1>1. ASSUME NEW p \in Perspective, NEW w \in Worker,
             \/ CreateForming(p, w)
             \/ CreateJoining(p, w)
             \/ CreateAutoForwarding(p, w)
      PROVE  DeadGroupsOwnNothing' /\ ExclusionMatches'
  BY <1>1, EnterKeepsExclusion
     DEF CreateForming, CreateJoining, CreateAutoForwarding
<1>2. ASSUME NEW p \in Perspective, ForwardPerspective(p)
      PROVE  DeadGroupsOwnNothing' /\ ExclusionMatches'
  BY <1>2, ForwardKeepsExclusion DEF ForwardPerspective
<1>3. ASSUME NEW w \in Worker,
             ResolveWorker(w) \/ HintWorker(w) \/ ReviseWorker(w)
      PROVE  DeadGroupsOwnNothing' /\ ExclusionMatches'
  BY <1>3, IdleKeepsExclusion DEF ResolveWorker, HintWorker, ReviseWorker
<1>4. ASSUME NEW w \in Worker, ResolveAutoForwarding(w)
      PROVE  DeadGroupsOwnNothing' /\ ExclusionMatches'
  <2>1. member[w] \in Perspective
    BY <1>4, EntryTyped DEF ResolveAutoForwarding, ExclusionInv
  <2> QED
    BY <1>4, <2>1, ForwardKeepsExclusion DEF ResolveAutoForwarding
<1>5. ASSUME NEW w \in Worker,
             DiscardWorker(w) \/ DeleteWorker(w) \/ MergeWorker(w)
      PROVE  DeadGroupsOwnNothing' /\ ExclusionMatches'
  BY <1>5, DiscardKeepsExclusion, DeleteKeepsExclusion, MergeKeepsExclusion
<1>6. ASSUME NEW w \in Worker, NEW k \in Kind, AckInbox(w, k)
      PROVE  DeadGroupsOwnNothing' /\ ExclusionMatches'
  <2>1. CASE Reactivates(k)
    BY <1>6, <2>1, ReviveKeepsExclusion DEF AckInbox
  <2>2. CASE ~Reactivates(k)
    <3>1. state' = state
      BY <1>6, <2>2 DEF AckInbox, ExclusionInv, TypeOK
    <3> QED
      BY <1>6, <3>1, IdleKeepsExclusion DEF AckInbox
  <2> QED
    BY <2>1, <2>2
<1>7. ASSUME NEW w \in Worker, NEW h,
             SendReport(w, h) \/ SendCommit(w, h)
      PROVE  DeadGroupsOwnNothing' /\ ExclusionMatches'
  BY <1>7, ReviveKeepsExclusion DEF SendReport, SendCommit
<1>8. ASSUME NEW w \in Worker, NEW h, RejectedReport(w, h)
      PROVE  DeadGroupsOwnNothing' /\ ExclusionMatches'
  BY <1>8, IdleKeepsExclusion DEF RejectedReport
<1>9. ASSUME NEW w \in Worker, NEW S, CommitInWorktree(w, S)
      PROVE  DeadGroupsOwnNothing' /\ ExclusionMatches'
  BY <1>9, IdleKeepsExclusion DEF CommitInWorktree
<1>10. CASE CanonicalStep
  BY <1>10, IdleKeepsExclusion
     DEF CanonicalStep, EditRulebook, CommitRulebook, CommitCanonical
<1>11. CASE UNCHANGED vars
  BY <1>11, IdleKeepsExclusion DEF vars
<1>12. CASE OrchestratorStep
  BY <1>12, <1>1, <1>2, <1>3, <1>4, <1>5 DEF OrchestratorStep
<1>13. CASE AgentStep
  BY <1>13, <1>6, <1>7, <1>8, <1>9 DEF AgentStep
<1> QED
  BY <1>10, <1>11, <1>12, <1>13 DEF Next

\* The inductive invariant holds throughout.
LEMMA ExclusionInvariant == Spec => []ExclusionInv
BY ExclusionInit, ExclusionStep, PTL DEF Spec

\* exclusion-set.txt is the union of the live boundaries after every command
\* of either side, also when agents go on after their worker is finalized.
THEOREM ExclusionExact == Spec => []ExclusionMatches
<1>1. ExclusionInv => ExclusionMatches
  BY DEF ExclusionInv
<1> QED
  BY <1>1, ExclusionInvariant, PTL

\* A group whose workers are all finalized owns no file.
THEOREM NoOwnershipAfterDeath == Spec => []DeadGroupsOwnNothing
<1>1. ExclusionInv => DeadGroupsOwnNothing
  BY DEF ExclusionInv
<1> QED
  BY <1>1, ExclusionInvariant, PTL

-----------------------------------------------------------------------------
(* Where boundaries come from, and what a listing shows of them. *)

\* A record of p that owns nothing or what some rulebook version gives p.
FromRulebook(g, p) ==
  \/ g.read = {} /\ g.write = {}
  \/ \E r \in Rulebook : /\ Compiled[r][p] # None
                         /\ g.read = Compiled[r][p].read
                         /\ g.write = Compiled[r][p].write

BoundariesCompiled == \A p \in Perspective : FromRulebook(group[p], p)

\* Every step leaves a record, clears it, drops it or compiles it anew.
LEMMA CompiledStep ==
  ASSUME ExclusionInv, BoundariesCompiled, [Next]_vars
  PROVE  BoundariesCompiled'
<1> SUFFICES ASSUME NEW p \in Perspective
             PROVE  FromRulebook(group'[p], p)
  BY DEF BoundariesCompiled, FromRulebook
<1> DEFINE Ended == group'[p] \in {group[p], NoGroup, ClearBoundary(group[p])}
           Renewed == Declared(p) /\ group'[p] = Target(p)
<1> TypeOK
  BY DEF ExclusionInv
<1>1. FromRulebook(group[p], p)
  BY DEF BoundariesCompiled
<1>2. CASE Ended
  <2>1. NoGroup.read = {} /\ NoGroup.write = {}
    BY DEF NoGroup
  <2>2. ClearBoundary(group[p]).read = {} /\ ClearBoundary(group[p]).write = {}
    BY DEF ClearBoundary, TypeOK
  <2> QED
    BY <1>1, <1>2, <2>1, <2>2 DEF FromRulebook
<1>3. CASE Renewed
  <2>1. rulebook \in Rulebook /\ Compiled[rulebook][p] # None
    BY <1>3 DEF TypeOK, Declared
  <2>2. /\ group'[p].read = Compiled[rulebook][p].read
        /\ group'[p].write = Compiled[rulebook][p].write
    BY <1>3 DEF Target
  <2> QED
    BY <2>1, <2>2 DEF FromRulebook
<1>4. ASSUME NEW q \in Perspective, NEW w \in Worker,
             \/ CreateForming(q, w)
             \/ CreateJoining(q, w)
             \/ CreateAutoForwarding(q, w)
      PROVE  Ended \/ Renewed
  <2>1. Declared(q) /\ group' = [GcEmptyGroups(w) EXCEPT ![q] = Target(q)]
    BY <1>4 DEF CreateForming, CreateJoining, CreateAutoForwarding, Forwardable,
                Enter
  <2> QED
    BY <2>1 DEF GcEmptyGroups
<1>5. ASSUME NEW q \in Perspective, Forward(q)
      PROVE  Ended \/ Renewed
  BY <1>5 DEF Forward, Forwardable, TypeOK
<1>6. ASSUME NEW w \in Worker, ResolveAutoForwarding(w)
      PROVE  Ended \/ Renewed
  BY <1>5, <1>6, EntryTyped DEF ResolveAutoForwarding
<1>7. ASSUME NEW w \in Worker, DiscardWorker(w) \/ DeleteWorker(w) \/ MergeWorker(w)
      PROVE  Ended
  BY <1>7 DEF DiscardWorker, DeleteWorker, MergeWorker, GcEmptyGroups, TypeOK
<1>8. ASSUME UNCHANGED group
      PROVE  Ended
  BY <1>8
<1>9. CASE OrchestratorStep
  <2> HIDE DEF Ended, Renewed
  <2> QED
    BY <1>2, <1>3, <1>4, <1>5, <1>6, <1>7, <1>8, <1>9
       DEF OrchestratorStep, ForwardPerspective, ResolveWorker, HintWorker,
           ReviseWorker
<1>10. CASE AgentStep \/ CanonicalStep \/ UNCHANGED vars
  BY <1>2, <1>10, <1>8
     DEF AgentStep, AckInbox, SendReport, RejectedReport, SendCommit,
         CommitInWorktree, CanonicalStep, EditRulebook, CommitRulebook,
         CommitCanonical, vars
<1> QED
  BY <1>2, <1>3, <1>9, <1>10 DEF Next

\* The inductive invariant holds throughout.
LEMMA CompiledInvariant == Spec => [](ExclusionInv /\ BoundariesCompiled)
<1>1. Init => BoundariesCompiled
  BY DEF Init, BoundariesCompiled, FromRulebook, NoGroup
<1> QED
  BY <1>1, CompiledStep, ExclusionInit, ExclusionStep, PTL DEF Spec

\* When files are moved only inside the boundaries they are in, a change of a
\* boundary shows in every listing, and a change that lists only files of a
\* write set changes no others.
LEMMA ListingsShow ==
  ASSUME MovesStayInside, NEW g, NEW p \in Perspective, FromRulebook(g, p),
         NEW S, NEW L \in Listings(S)
  PROVE  /\ (L \ Quoted) \cap Owned(g) = {} => S \cap Owned(g) = {}
         /\ L \subseteq g.write \ Quoted => S \subseteq g.write
<1>1. PICK M \in MovesIn(S) : L = S \ {m[1] : m \in M}
  BY DEF Listings
<1>2. /\ M \subseteq Rename
      /\ \A m \in M : m[2] \in S
      /\ \A m, n \in M : m[1] # n[2]
  BY DEF MovesIn
<1>3. \A m \in M : m[2] \in L
  BY <1>1, <1>2
<1>4. \A x \in S \ L : \E m \in M : m[1] = x
  BY <1>1
<1>5. /\ Owned(g) \cap Quoted = {}
      /\ \A m \in Rename : /\ m[1] \in Owned(g) => m[2] \in Owned(g)
                           /\ m[2] \in g.write => m[1] \in g.write
  <2>1. CASE g.read = {} /\ g.write = {}
    BY <2>1 DEF Owned
  <2>2. ASSUME NEW r \in Rulebook, Compiled[r][p] # None,
               g.read = Compiled[r][p].read, g.write = Compiled[r][p].write
        PROVE  /\ Owned(g) \cap Quoted = {}
               /\ \A m \in Rename : /\ m[1] \in Owned(g) => m[2] \in Owned(g)
                                    /\ m[2] \in g.write => m[1] \in g.write
    BY <2>2 DEF MovesStayInside, Owned
  <2> QED
    BY <2>1, <2>2 DEF FromRulebook
<1>6. ASSUME (L \ Quoted) \cap Owned(g) = {}, NEW x \in S, x \in Owned(g)
      PROVE  FALSE
  <2>1. CASE x \in L
    BY <1>5, <1>6, <2>1
  <2>2. CASE x \notin L
    BY <1>2, <1>3, <1>4, <1>5, <1>6, <2>2
  <2> QED
    BY <2>1, <2>2
<1>7. ASSUME L \subseteq g.write \ Quoted, NEW x \in S
      PROVE  x \in g.write
  BY <1>2, <1>3, <1>4, <1>5, <1>7
<1> QED
  BY <1>6, <1>7

\* What the hook accepts changes no file of a boundary it knows.
LEMMA HookProtects ==
  ASSUME MovesStayInside, NEW g, NEW p \in Perspective, FromRulebook(g, p),
         NEW X, Owned(g) \subseteq X, NEW S, HookAccepts(S, X)
  PROVE  S \cap Owned(g) = {}
<1>1. PICK L \in Listings(S) : (L \ Quoted) \cap X = {}
  BY DEF HookAccepts
<1> QED
  BY <1>1, ListingsShow

\* What passes the scope check changes no file outside the write set.
LEMMA ScopeConfines ==
  ASSUME MovesStayInside, NEW p \in Perspective, FromRulebook(group[p], p),
         NEW h, InScope(p, h)
  PROVE  EditedFiles(h) \subseteq group[p].write
<1>1. PICK L \in Listings(ChangedFiles(group[p].base, h)) :
             L \subseteq group[p].write \ Quoted
  BY DEF InScope
<1>2. ChangedFiles(group[p].base, h) \subseteq group[p].write
  BY <1>1, ListingsShow
<1> QED
  BY <1>2 DEF ChangedFiles

-----------------------------------------------------------------------------
(* The canonical branch. *)

\* A step that adds a canonical commit passes the hook, which reads an exact
\* exclusion set.
LEMMA AvoidsStep ==
  ASSUME MovesStayInside
  PROVE  /\ ExclusionInv /\ BoundariesCompiled
         /\ (ExclusionInv /\ BoundariesCompiled)'
         /\ [Next]_vars
         => [AvoidsLiveGroups]_vars
<1> SUFFICES ASSUME ExclusionInv, ExclusionInv', BoundariesCompiled',
                    [Next]_vars, canonical' # canonical,
                    NEW p \in Perspective, HasLiveWorkers(p)'
             PROVE  canonical'[CurrentHead'] \cap Owned(group'[p]) = {}
  BY DEF AvoidsLiveGroups, Owned
<1>1. Owned(group'[p]) \subseteq exclusion'
  BY DEF ExclusionInv, ExclusionMatches, CollectExclusionSet, Contribution, Owned
<1>2. FromRulebook(group'[p], p)
  BY DEF BoundariesCompiled, FromRulebook
<1>3. ASSUME NEW S \in SUBSET File, HookAccepts(S, exclusion'),
             canonical' = Append(canonical, S)
      PROVE  canonical'[CurrentHead'] \cap Owned(group'[p]) = {}
  <2>1. canonical'[CurrentHead'] = S
    BY <1>3 DEF ExclusionInv, TypeOK, CurrentHead
  <2> QED
    BY <1>1, <1>2, <1>3, <2>1, HookProtects
<1>4. ASSUME NEW w \in Worker, MergeWorker(w)
      PROVE  canonical'[CurrentHead'] \cap Owned(group'[p]) = {}
  <2>1. HeadFiles(submitted[w]) \in SUBSET File
    BY <1>4 DEF MergeWorker, HeadFiles, Revision, ExclusionInv, TypeOK
  <2> QED
    BY <1>3, <1>4, <2>1 DEF MergeWorker
<1>5. CASE CommitRulebook
  BY <1>3, <1>5 DEF CommitRulebook
<1>6. ASSUME NEW S \in EditSet, CommitCanonical(S)
      PROVE  canonical'[CurrentHead'] \cap Owned(group'[p]) = {}
  BY <1>3, <1>6, AgentAssumption DEF CommitCanonical
<1>7. \/ \E w \in Worker : MergeWorker(w)
      \/ CommitRulebook
      \/ \E S \in EditSet : CommitCanonical(S)
  BY DEF Next, OrchestratorStep, AgentStep, CanonicalStep, vars, Enter,
         CreateForming, CreateJoining, CreateAutoForwarding, Forward,
         ForwardPerspective, ResolveWorker, ResolveAutoForwarding,
         HintWorker, ReviseWorker, DiscardWorker, DeleteWorker, AckInbox,
         SendReport, RejectedReport, SendCommit, CommitInWorktree,
         EditRulebook
<1> QED
  BY <1>4, <1>5, <1>6, <1>7

\* As long as files are moved only inside the boundaries they are in: no merge
\* and no commit of the orchestrator changes a file in the boundary of a group
\* that is live afterwards, although the hook sees only what git lists.
THEOREM CanonicalIsolation ==
  ASSUME MovesStayInside
  PROVE  Spec => CanonicalAvoidsLiveGroups
BY CompiledInvariant, AvoidsStep, PTL DEF Spec, CanonicalAvoidsLiveGroups

=============================================================================
