--------------------------- MODULE MultorumStability ---------------------------
(***************************************************************************)
(* What the pinned base of a candidate group is good for.  As long as      *)
(* files are moved only inside boundaries, no canonical commit since that  *)
(* base touches the boundary of a live group, whatever agents do; as long  *)
(* as agents stop at finalization, all worktrees of a live group start at  *)
(* that base; with both, the one merge the group ends with meets no        *)
(* conflicting change.  Of the rulebook's growth nothing is assumed.       *)
(***************************************************************************)
EXTENDS MultorumProofs

USE DEF Live, Final, WorkerState

-----------------------------------------------------------------------------
(* The canonical branch only grows. *)

\* A step leaves the canonical branch alone or adds one commit to it.
LEMMA CanonicalGrows ==
  ASSUME TypeOK, [Next]_vars
  PROVE  \/ canonical' = canonical
         \/ \E S \in SUBSET File : canonical' = Append(canonical, S)
<1>1. ASSUME NEW w \in Worker, MergeWorker(w)
      PROVE  \E S \in SUBSET File : canonical' = Append(canonical, S)
  <2>1. HeadFiles(submitted[w]) \in SUBSET File
    BY <1>1 DEF MergeWorker, HeadFiles, Revision, TypeOK
  <2> QED
    BY <1>1, <2>1 DEF MergeWorker
<1>2. CASE CommitRulebook
  BY <1>2 DEF CommitRulebook
<1>3. ASSUME NEW S \in EditSet, CommitCanonical(S)
      PROVE  \E T \in SUBSET File : canonical' = Append(canonical, T)
  BY <1>3, AgentAssumption DEF CommitCanonical
<1>4. \/ \E w \in Worker : MergeWorker(w)
      \/ CommitRulebook
      \/ \E S \in EditSet : CommitCanonical(S)
      \/ canonical' = canonical
  BY DEF Next, OrchestratorStep, AgentStep, CanonicalStep, vars, Enter,
         CreateForming, CreateJoining, CreateAutoForwarding, Forward,
         ForwardPerspective, ResolveWorker, ResolveAutoForwarding,
         HintWorker, ReviseWorker, DiscardWorker, DeleteWorker, AckInbox,
         SendReport, RejectedReport, SendCommit, CommitInWorktree,
         EditRulebook
<1> QED
  BY <1>1, <1>2, <1>3, <1>4

\* The commits that are there stay where they are.
LEMMA CommitsStay ==
  ASSUME TypeOK, [Next]_vars
  PROVE  /\ CurrentHead \in Nat /\ CurrentHead' \in Nat
         /\ CurrentHead' \in {CurrentHead, CurrentHead + 1}
         /\ canonical' # canonical => CurrentHead' = CurrentHead + 1
         /\ \A i \in 1..CurrentHead : canonical'[i] = canonical[i]
BY CanonicalGrows DEF TypeOK, CurrentHead

-----------------------------------------------------------------------------
(* What a step can do to the record of a group that is live after it. *)

\* It was live before, with the same record.
Kept(p) == HasLiveWorkers(p) /\ group'[p] = group[p]

\* It is formed, joined or forwarded at the current HEAD.
Fresh(p) == group'[p].base = CurrentHead /\ canonical' = canonical

\* A finalized worker came back to it: it owns nothing.
Bare(p) == Owned(group'[p]) = {}

\* A step that revives no worker changes records as Kept and Fresh say.
LEMMA EnterShapes ==
  ASSUME TypeOK, NEW p \in Perspective, NEW w \in Worker,
         NEW trees, NEW heads, Enter(p, w, trees, heads),
         NEW q \in Perspective, HasLiveWorkers(q)'
  PROVE  Kept(q) \/ Fresh(q)
<1>1. CASE q = p
  BY <1>1 DEF Enter, GcEmptyGroups, Target, Fresh
<1>2. CASE q # p
  <2>1. LiveWorkers(q)' = LiveWorkers(q) /\ w \notin LiveWorkers(q)
    BY <1>2 DEF Enter, TypeOK, LiveWorkers
  <2>2. \E v \in Worker \ {w} : member[v] = q
    BY <2>1 DEF HasLiveWorkers, LiveWorkers
  <2> QED
    BY <1>2, <2>1, <2>2 DEF Enter, GcEmptyGroups, Kept, HasLiveWorkers
<1> QED
  BY <1>1, <1>2

\* The same for forwarding.
LEMMA ForwardShapes ==
  ASSUME TypeOK, NEW p \in Perspective, Forward(p),
         NEW q \in Perspective, HasLiveWorkers(q)'
  PROVE  Kept(q) \/ Fresh(q)
<1>1. HasLiveWorkers(q)
  BY DEF Forward, HasLiveWorkers, LiveWorkers
<1> QED
  BY <1>1 DEF Forward, Target, TypeOK, Fresh, Kept

\* Discarding clears a record only with its last live worker.
LEMMA DiscardShapes ==
  ASSUME TypeOK, NEW w \in Worker, DiscardWorker(w),
         NEW q \in Perspective, HasLiveWorkers(q)'
  PROVE  Kept(q)
<1>1. LiveWorkers(q)' = LiveWorkers(q) \ {w}
  BY DEF DiscardWorker, TypeOK, LiveWorkers
<1>2. LiveWorkers(q) # {w} /\ HasLiveWorkers(q)
  BY <1>1 DEF HasLiveWorkers
<1> QED
  BY <1>2 DEF DiscardWorker, TypeOK, Kept

\* Deleting drops a record only with its last entry.
LEMMA DeleteShapes ==
  ASSUME TypeOK, NEW w \in Worker, DeleteWorker(w),
         NEW q \in Perspective, HasLiveWorkers(q)'
  PROVE  Kept(q)
<1>1. LiveWorkers(q)' = LiveWorkers(q) /\ w \notin LiveWorkers(q)
  BY DEF DeleteWorker, TypeOK, LiveWorkers
<1>2. \E v \in Worker \ {w} : member[v] = q
  BY <1>1 DEF HasLiveWorkers, LiveWorkers
<1> QED
  BY <1>1, <1>2 DEF DeleteWorker, GcEmptyGroups, Kept, HasLiveWorkers

\* A merge leaves its own group without a live worker.
LEMMA MergeShapes ==
  ASSUME TypeOK, NEW w \in Worker, MergeWorker(w),
         NEW q \in Perspective, HasLiveWorkers(q)'
  PROVE  q # member[w] /\ Kept(q)
<1>1. LiveWorkers(q)' = IF q = member[w] THEN {} ELSE LiveWorkers(q)
  BY DEF MergeWorker, GroupFinalized, TypeOK, LiveWorkers
<1>2. q # member[w] /\ HasLiveWorkers(q)
  BY <1>1 DEF HasLiveWorkers
<1> QED
  BY <1>2 DEF MergeWorker, TypeOK, Kept

\* Every step leaves a live group with its record, at HEAD, or bare.
LEMMA RecordShapes ==
  ASSUME ExclusionInv, [Next]_vars, NEW q \in Perspective, HasLiveWorkers(q)'
  PROVE  Kept(q) \/ Fresh(q) \/ Bare(q)
<1> TypeOK
  BY DEF ExclusionInv
<1>1. ASSUME NEW p \in Perspective, NEW w \in Worker,
             \/ CreateForming(p, w)
             \/ CreateJoining(p, w)
             \/ CreateAutoForwarding(p, w)
      PROVE  Kept(q) \/ Fresh(q)
  BY <1>1, EnterShapes DEF CreateForming, CreateJoining, CreateAutoForwarding
<1>2. ASSUME NEW p \in Perspective, Forward(p)
      PROVE  Kept(q) \/ Fresh(q)
  BY <1>2, ForwardShapes
<1>3. ASSUME NEW w \in Worker, ResolveAutoForwarding(w)
      PROVE  Kept(q) \/ Fresh(q)
  BY <1>2, <1>3, EntryTyped DEF ResolveAutoForwarding
<1>4. ASSUME UNCHANGED <<group, member>>
      PROVE  Kept(q) \/ Bare(q)
  BY <1>4 DEF ExclusionInv, DeadGroupsOwnNothing, Kept, Bare
<1>5. ASSUME NEW w \in Worker,
             DiscardWorker(w) \/ DeleteWorker(w) \/ MergeWorker(w)
      PROVE  Kept(q)
  BY <1>5, DiscardShapes, DeleteShapes, MergeShapes
<1>6. CASE OrchestratorStep
  BY <1>6, <1>1, <1>2, <1>3, <1>4, <1>5
     DEF OrchestratorStep, ForwardPerspective, ResolveWorker, HintWorker,
         ReviseWorker
<1>7. CASE AgentStep
  BY <1>7, <1>4 DEF AgentStep, AckInbox, SendReport, RejectedReport,
                    SendCommit, CommitInWorktree
<1>8. CASE CanonicalStep
  BY <1>8, <1>4 DEF CanonicalStep, EditRulebook, CommitRulebook,
                    CommitCanonical
<1>9. CASE UNCHANGED vars
  BY <1>9, <1>4 DEF vars
<1> QED
  BY <1>6, <1>7, <1>8, <1>9 DEF Next

-----------------------------------------------------------------------------
(* Stable boundaries. *)

StableInv == ExclusionInv /\ BoundariesCompiled /\ StableBoundary

\* An empty project has no live group.
LEMMA StableInit == Init => StableInv
<1> SUFFICES ASSUME Init
             PROVE  StableInv
  OBVIOUS
<1>1. \A p \in Perspective : ~HasLiveWorkers(p)
  BY DEF Init, HasLiveWorkers, LiveWorkers
<1>2. BoundariesCompiled
  BY DEF Init, BoundariesCompiled, FromRulebook, NoGroup
<1> QED
  BY <1>1, <1>2, ExclusionInit DEF StableInv, StableBoundary

\* A group that keeps its record meets at most one new commit, which avoids
\* it; one at HEAD has no later commit; a bare one has nothing to touch.
LEMMA StableStep ==
  ASSUME MovesStayInside
  PROVE  StableInv /\ [Next]_vars => StableInv'
<1> SUFFICES ASSUME StableInv, [Next]_vars
             PROVE  StableInv'
  OBVIOUS
<1>1. /\ ExclusionInv /\ TypeOK /\ ExclusionInv' /\ TypeOK'
      /\ BoundariesCompiled /\ BoundariesCompiled'
  BY ExclusionStep, CompiledStep DEF StableInv, ExclusionInv
<1> SUFFICES ASSUME NEW p \in Perspective, HasLiveWorkers(p)',
                    NEW i \in (group'[p].base + 1)..CurrentHead'
             PROVE  canonical'[i] \cap Owned(group'[p]) = {}
  BY <1>1 DEF StableInv, StableBoundary, Owned
<1>2. /\ group'[p].base \in Nat
      /\ CurrentHead \in Nat /\ CurrentHead' \in Nat
  BY <1>1, CommitsStay DEF TypeOK
<1>3. CASE Kept(p)
  <2>1. CASE i \in 1..CurrentHead
    <3>1. canonical'[i] = canonical[i]
      BY <1>1, <2>1, CommitsStay
    <3>2. i \in (group[p].base + 1)..CurrentHead
      BY <1>2, <1>3, <2>1 DEF Kept
    <3> QED
      BY <1>3, <3>1, <3>2 DEF Kept, StableInv, StableBoundary
  <2>2. CASE i \notin 1..CurrentHead
    <3>1. i = CurrentHead' /\ canonical' # canonical
      BY <1>1, <1>2, <2>2, CommitsStay DEF CurrentHead
    <3>2. [AvoidsLiveGroups]_vars /\ vars' # vars
      BY <1>1, <3>1, AvoidsStep DEF vars
    <3> QED
      BY <3>1, <3>2 DEF AvoidsLiveGroups, Owned
  <2> QED
    BY <2>1, <2>2
<1>4. CASE Fresh(p)
  BY <1>2, <1>4 DEF Fresh, CurrentHead
<1>5. CASE Bare(p)
  BY <1>5 DEF Bare
<1> QED
  BY <1>1, <1>3, <1>4, <1>5, RecordShapes

\* The inductive invariant holds throughout.
LEMMA StableInvariant ==
  ASSUME MovesStayInside
  PROVE  Spec => []StableInv
BY StableInit, StableStep, PTL DEF Spec

\* Whatever agents do and however the rulebook changes, as long as files are
\* moved only inside the boundaries they are in: no commit since the base of a
\* live group, by a merge or by the orchestrator, changed a file that the
\* group reads or writes.
THEOREM BoundariesAreStable ==
  ASSUME MovesStayInside
  PROVE  Spec => []StableBoundary
<1>1. StableInv => StableBoundary
  BY DEF StableInv
<1> QED
  BY <1>1, StableInvariant, PTL

-----------------------------------------------------------------------------
(***************************************************************************)
(* Bases.  From here on agents stop at finalization.  Without that, a      *)
(* discarded worker could come back with the worktree of an older base.    *)
(***************************************************************************)

\* No group is pinned to a commit that is not there yet.
BasesInPast == \A p \in Perspective : group[p].base <= CurrentHead

\* A merged worker started before HEAD, and before every live worker of its
\* perspective: their group was formed after the merge.
MergedPrecede ==
  \A v \in Worker : state[v] = "MERGED" =>
    /\ worktree[v].base < CurrentHead
    /\ \A u \in Worker : state[u] \in Live /\ member[u] = member[v] =>
         worktree[v].base < worktree[u].base

BaseInv ==
  /\ TypeOK
  /\ SiblingsShareBase
  /\ BasesInPast
  /\ MergedPrecede
  /\ OneMergePerGroup

\* An empty project has no worker.
LEMMA BaseInit == Init => BaseInv
<1> SUFFICES ASSUME Init
             PROVE  BaseInv
  OBVIOUS
<1>1. TypeOK
  BY TypeInit
<1>2. BasesInPast
  BY DEF Init, BasesInPast, NoGroup, CurrentHead
<1> QED
  BY <1>1, <1>2 DEF Init, BaseInv, SiblingsShareBase, MergedPrecede,
                    OneMergePerGroup

\* Forwarding takes every live worker of the group to HEAD and no other worker.
LEMMA ForwardedBases ==
  ASSUME BaseInv, NEW p \in Perspective
  PROVE  /\ \A v \in LiveWorkers(p) :
              ForwardedWorktrees(p)[v].base = CurrentHead
         /\ \A v \in Worker \ LiveWorkers(p) :
              ForwardedWorktrees(p)[v] = worktree[v]
<1>1. \A v \in LiveWorkers(p) :
        v \in Worker /\ worktree[v] \in Revision
          /\ worktree[v].base = group[p].base
  BY EntryTyped DEF LiveWorkers, BaseInv, SiblingsShareBase
<1>2. \A v \in LiveWorkers(p) : Rebase(worktree[v]).base = CurrentHead
  BY <1>1 DEF Rebase, Revision
<1> QED
  BY <1>1, <1>2 DEF ForwardedWorktrees, MovedWorkers

\* The workers of a group that is formed, joined or forwarded end at HEAD.
LEMMA EnterKeepsBases ==
  ASSUME BaseInv, TypeOK', NEW p \in Perspective, NEW w \in Worker,
         NEW trees \in [Worker -> HeadOrNone], NEW heads,
         Enter(p, w, trees, heads),
         \A v \in LiveWorkers(p) : trees[v].base = CurrentHead,
         \A v \in Worker \ LiveWorkers(p) : trees[v] = worktree[v]
  PROVE  BaseInv'
<1>1. /\ CurrentHead \in Nat /\ CurrentHead' = CurrentHead
      /\ group'[p].base = CurrentHead
      /\ worktree'[w].base = CurrentHead
      /\ member'[w] = p /\ state'[w] = "ACTIVE"
  BY DEF Enter, BaseInv, TypeOK, CurrentHead, Target, Checkout
<1>2. \A v \in Worker \ {w} : /\ state'[v] = state[v] /\ member'[v] = member[v]
                              /\ worktree'[v] = trees[v]
  BY DEF Enter, BaseInv, TypeOK
<1>3. \A q \in Perspective \ {p} : \A v \in LiveWorkers(q) :
        group'[q] = group[q]
  <2>1. \A q \in Perspective \ {p} : \A v \in LiveWorkers(q) :
          v \in Worker \ {w} /\ member[v] = q
    BY DEF Enter, LiveWorkers
  <2> QED
    BY <2>1 DEF Enter, GcEmptyGroups
<1>4. SiblingsShareBase'
  <2> SUFFICES ASSUME NEW v \in Worker, state'[v] \in Live
               PROVE  worktree'[v].base = group'[member'[v]].base
    BY DEF SiblingsShareBase
  <2>1. CASE v = w
    BY <1>1, <2>1
  <2>2. CASE v # w /\ member[v] = p
    BY <1>1, <1>2, <2>2 DEF LiveWorkers
  <2>3. CASE v # w /\ member[v] # p
    <3>1. member[v] \in Perspective /\ v \in LiveWorkers(member[v])
      BY <1>2, <2>3, EntryTyped DEF LiveWorkers, BaseInv
    <3> QED
      BY <1>2, <1>3, <2>3, <3>1 DEF BaseInv, SiblingsShareBase, LiveWorkers
  <2> QED
    BY <2>1, <2>2, <2>3
<1>5. BasesInPast'
  <2> SUFFICES ASSUME NEW q \in Perspective
               PROVE  group'[q].base <= CurrentHead'
    BY DEF BasesInPast
  <2>1. q = p \/ group'[q] = group[q] \/ group'[q] = NoGroup
    BY DEF Enter, GcEmptyGroups
  <2> QED
    BY <1>1, <2>1 DEF BaseInv, BasesInPast, NoGroup
<1>6. \A v \in Worker : state'[v] = "MERGED" =>
        /\ v # w /\ state[v] = "MERGED" /\ member'[v] = member[v]
        /\ worktree'[v] = worktree[v]
  BY <1>1, <1>2 DEF LiveWorkers
<1>7. MergedPrecede'
  <2> SUFFICES ASSUME NEW v \in Worker, state'[v] = "MERGED"
               PROVE  /\ worktree'[v].base < CurrentHead'
                      /\ \A u \in Worker :
                           state'[u] \in Live /\ member'[u] = member'[v] =>
                             worktree'[v].base < worktree'[u].base
    BY DEF MergedPrecede
  <2>1. worktree'[v].base < CurrentHead'
    BY <1>1, <1>6 DEF BaseInv, MergedPrecede
  <2>2. ASSUME NEW u \in Worker, state'[u] \in Live, member'[u] = member'[v]
        PROVE  worktree'[v].base < worktree'[u].base
    <3>1. CASE u = w \/ u \in LiveWorkers(p)
      BY <1>1, <1>2, <2>1, <3>1
    <3>2. CASE u # w /\ u \notin LiveWorkers(p)
      BY <1>2, <1>6, <2>2, <3>2 DEF BaseInv, MergedPrecede
    <3> QED
      BY <3>1, <3>2
  <2> QED
    BY <2>1, <2>2
<1>8. OneMergePerGroup'
  BY <1>6 DEF BaseInv, OneMergePerGroup
<1> QED
  BY <1>4, <1>5, <1>7, <1>8 DEF BaseInv

\* A new worker of a live group starts where its siblings are.
LEMMA CreateKeepsBases ==
  ASSUME BaseInv, TypeOK', NEW p \in Perspective, NEW w \in Worker,
         \/ CreateForming(p, w)
         \/ CreateJoining(p, w)
         \/ CreateAutoForwarding(p, w)
  PROVE  BaseInv'
<1>1. /\ worktree \in [Worker -> HeadOrNone]
      /\ ForwardedWorktrees(p) \in [Worker -> HeadOrNone]
  BY ForwardedTyped DEF BaseInv, TypeOK, HeadOrNone
<1>2. CASE CreateForming(p, w)
  <2>1. LiveWorkers(p) = {} /\ Enter(p, w, worktree, submitted)
    BY <1>2 DEF CreateForming, HasLiveWorkers
  <2> QED
    BY <1>1, <2>1, EnterKeepsBases
<1>3. CASE CreateJoining(p, w)
  <2>1. group[p].base = CurrentHead /\ Enter(p, w, worktree, submitted)
    BY <1>3 DEF CreateJoining, Drifted, Target
  <2>2. \A v \in LiveWorkers(p) : worktree[v].base = CurrentHead
    BY <2>1 DEF BaseInv, SiblingsShareBase, LiveWorkers
  <2> QED
    BY <1>1, <2>1, <2>2, EnterKeepsBases
<1>4. CASE CreateAutoForwarding(p, w)
  <2>1. Enter(p, w, ForwardedWorktrees(p), ForwardedSubmissions(p))
    BY <1>4 DEF CreateAutoForwarding
  <2> QED
    BY <1>1, <2>1, ForwardedBases, EnterKeepsBases
<1> QED
  BY <1>2, <1>3, <1>4

\* Forwarding moves a whole group to HEAD.
LEMMA ForwardKeepsBases ==
  ASSUME BaseInv, TypeOK', NEW p \in Perspective, Forward(p)
  PROVE  BaseInv'
<1>1. /\ CurrentHead \in Nat /\ CurrentHead' = CurrentHead
      /\ group'[p].base = CurrentHead
      /\ \A q \in Perspective \ {p} : group'[q] = group[q]
      /\ state' = state /\ member' = member
      /\ worktree' = ForwardedWorktrees(p)
  BY DEF Forward, BaseInv, TypeOK, CurrentHead, Target
<1>2. \A v \in LiveWorkers(p) : worktree'[v].base = CurrentHead
  BY <1>1, ForwardedBases
<1>3. \A v \in Worker \ LiveWorkers(p) : worktree'[v] = worktree[v]
  BY <1>1, ForwardedBases
<1>4. SiblingsShareBase'
  <2> SUFFICES ASSUME NEW v \in Worker, state[v] \in Live
               PROVE  worktree'[v].base = group'[member[v]].base
    BY <1>1 DEF SiblingsShareBase
  <2>1. CASE member[v] = p
    BY <1>1, <1>2, <2>1 DEF LiveWorkers
  <2>2. CASE member[v] # p
    <3>1. member[v] \in Perspective \ {p} /\ v \notin LiveWorkers(p)
      BY <2>2, EntryTyped DEF LiveWorkers, BaseInv
    <3> QED
      BY <1>1, <1>3, <3>1 DEF BaseInv, SiblingsShareBase
  <2> QED
    BY <2>1, <2>2
<1>5. BasesInPast'
  BY <1>1 DEF BaseInv, BasesInPast
<1>6. \A v \in Worker : state[v] = "MERGED" => worktree'[v] = worktree[v]
  BY <1>3 DEF LiveWorkers
<1>7. MergedPrecede'
  <2> SUFFICES ASSUME NEW v \in Worker, state[v] = "MERGED",
                      NEW u \in Worker
               PROVE  /\ worktree'[v].base < CurrentHead'
                      /\ state[u] \in Live /\ member[u] = member[v] =>
                           worktree'[v].base < worktree'[u].base
    BY <1>1 DEF MergedPrecede
  <2>1. worktree'[v].base < CurrentHead'
    BY <1>1, <1>6 DEF BaseInv, MergedPrecede
  <2>2. CASE u \in LiveWorkers(p)
    BY <1>1, <1>2, <2>1, <2>2
  <2>3. CASE u \notin LiveWorkers(p)
    BY <1>3, <1>6, <2>1, <2>3 DEF BaseInv, MergedPrecede
  <2> QED
    BY <2>2, <2>3
<1>8. OneMergePerGroup'
  BY <1>1, <1>6 DEF BaseInv, OneMergePerGroup
<1> QED
  BY <1>4, <1>5, <1>7, <1>8 DEF BaseInv

\* Ending or dropping live workers leaves the others where they are.  No
\* worker becomes merged or live, records of live groups stay.
LEMMA EndingKeepsBases ==
  ASSUME BaseInv, TypeOK', canonical' = canonical,
         \A v \in Worker : state'[v] \in Live \cup {"MERGED"} =>
           /\ state'[v] = state[v] /\ member'[v] = member[v]
           /\ worktree'[v] = worktree[v],
         \A v \in Worker : state'[v] \in Live =>
           group'[member[v]] = group[member[v]],
         \A q \in Perspective : group'[q].base \in {group[q].base, 0}
  PROVE  BaseInv'
<1>1. CurrentHead' = CurrentHead /\ CurrentHead \in Nat
  BY DEF CurrentHead, BaseInv, TypeOK
<1>2. SiblingsShareBase'
  BY DEF BaseInv, SiblingsShareBase
<1>3. BasesInPast'
  BY <1>1 DEF BaseInv, BasesInPast
<1>4. MergedPrecede'
  BY <1>1 DEF BaseInv, MergedPrecede
<1>5. OneMergePerGroup'
  BY DEF BaseInv, OneMergePerGroup
<1> QED
  BY <1>2, <1>3, <1>4, <1>5 DEF BaseInv

\* A merge finalizes its group below the new HEAD.
LEMMA MergeKeepsBases ==
  ASSUME BaseInv, TypeOK', NEW w \in Worker, MergeWorker(w)
  PROVE  BaseInv'
<1>1. /\ member[w] \in Perspective
      /\ worktree[w].base = group[member[w]].base
      /\ worktree[w].base \in Nat
  BY EntryTyped DEF MergeWorker, BaseInv, SiblingsShareBase, Revision
<1>2. CurrentHead \in Nat /\ CurrentHead' = CurrentHead + 1
  BY CommitsStay DEF MergeWorker, Next, OrchestratorStep, BaseInv, TypeOK,
                     CurrentHead
<1>3. worktree' = worktree /\ member' = member
  BY DEF MergeWorker
<1>4. \A v \in Worker : state'[v] \in Live =>
        state[v] = state'[v] /\ member[v] # member[w]
  BY DEF MergeWorker, GroupFinalized, LiveWorkers
<1>5. \A v \in Worker \ {w} : state'[v] = "MERGED" => state[v] = "MERGED"
  BY DEF MergeWorker, GroupFinalized
<1>6. \A q \in Perspective : /\ group'[q].base = group[q].base
                             /\ q # member[w] => group'[q] = group[q]
  BY DEF MergeWorker, ClearBoundary, BaseInv, TypeOK
<1>7. SiblingsShareBase'
  <2>1. \A v \in Worker : state[v] \in Live => member[v] \in Perspective
    BY EntryTyped DEF BaseInv
  <2> QED
    BY <1>3, <1>4, <1>6, <2>1 DEF BaseInv, SiblingsShareBase
<1>8. BasesInPast'
  BY <1>2, <1>6 DEF BaseInv, BasesInPast, TypeOK
<1>9. MergedPrecede'
  <2> SUFFICES ASSUME NEW v \in Worker, state'[v] = "MERGED",
                      NEW u \in Worker
               PROVE  /\ worktree[v].base < CurrentHead'
                      /\ state'[u] \in Live /\ member[u] = member[v] =>
                           worktree[v].base < worktree[u].base
    BY <1>3 DEF MergedPrecede
  <2>1. CASE v = w
    BY <1>1, <1>2, <1>4, <2>1 DEF BaseInv, BasesInPast
  <2>2. CASE v # w
    <3>1. state[v] = "MERGED" /\ worktree[v].base \in Nat
      BY <1>5, <2>2, EntryTyped DEF BaseInv, Revision
    <3> QED
      BY <1>2, <1>4, <3>1 DEF BaseInv, MergedPrecede
  <2> QED
    BY <2>1, <2>2
<1>10. OneMergePerGroup'
  <2>1. \A v \in Worker \ {w} :
          state[v] = "MERGED" /\ member[v] = member[w] =>
            worktree[v].base < worktree[w].base
    BY DEF MergeWorker, BaseInv, MergedPrecede
  <2>2. \A v \in Worker : state'[v] = "MERGED" => worktree[v].base \in Nat
    BY <1>1, <1>5, EntryTyped DEF BaseInv, Revision
  <2> QED
    BY <1>3, <1>5, <2>1, <2>2 DEF BaseInv, OneMergePerGroup
<1> QED
  BY <1>7, <1>8, <1>9, <1>10 DEF BaseInv

\* Steps that leave groups and bases alone, finalize nobody and revive nobody.
LEMMA StayingKeepsBases ==
  ASSUME BaseInv, TypeOK', CurrentHead' >= CurrentHead,
         UNCHANGED <<group, member>>,
         \A v \in Worker : /\ state'[v] \in Live <=> state[v] \in Live
                           /\ state'[v] = "MERGED" <=> state[v] = "MERGED"
                           /\ worktree'[v].base = worktree[v].base
  PROVE  BaseInv'
<1>1. CurrentHead \in Nat /\ CurrentHead' \in Nat
  BY DEF BaseInv, TypeOK, CurrentHead
<1>2. SiblingsShareBase' /\ OneMergePerGroup'
  BY DEF BaseInv, SiblingsShareBase, OneMergePerGroup
<1>3. BasesInPast'
  BY <1>1 DEF BaseInv, BasesInPast, TypeOK
<1>4. MergedPrecede'
  <2>1. \A v \in Worker : state[v] = "MERGED" => worktree[v].base \in Nat
    BY EntryTyped DEF BaseInv, Revision
  <2> QED
    BY <1>1, <2>1 DEF BaseInv, MergedPrecede
<1> QED
  BY <1>2, <1>3, <1>4 DEF BaseInv

\* Every command keeps the bases in order.
LEMMA BaseStep ==
  ASSUME AgentsStopAtFinal
  PROVE  BaseInv /\ [Next]_vars => BaseInv'
<1> SUFFICES ASSUME BaseInv, [Next]_vars
             PROVE  BaseInv'
  OBVIOUS
<1> TypeOK /\ TypeOK'
  BY TypeStep DEF BaseInv
<1>1. ASSUME NEW p \in Perspective, NEW w \in Worker,
             \/ CreateForming(p, w)
             \/ CreateJoining(p, w)
             \/ CreateAutoForwarding(p, w)
      PROVE  BaseInv'
  BY <1>1, CreateKeepsBases
<1>2. ASSUME NEW p \in Perspective, Forward(p)
      PROVE  BaseInv'
  BY <1>2, ForwardKeepsBases
<1>3. ASSUME NEW w \in Worker, ResolveAutoForwarding(w)
      PROVE  BaseInv'
  BY <1>2, <1>3, EntryTyped DEF ResolveAutoForwarding
<1>4. ASSUME NEW w \in Worker, DiscardWorker(w)
      PROVE  BaseInv'
  <2>1. /\ canonical' = canonical /\ member' = member /\ worktree' = worktree
        /\ \A v \in Worker : state'[v] \in Live \cup {"MERGED"} =>
             state'[v] = state[v]
        /\ \A q \in Perspective : group'[q].base \in {group[q].base, 0}
    BY <1>4 DEF DiscardWorker, ClearBoundary, TypeOK
  <2>2. ASSUME NEW v \in Worker, state'[v] \in Live
        PROVE  group'[member[v]] = group[member[v]]
    <3>1. v \in LiveWorkers(member[v]) /\ v # w
      BY <1>4, <2>1, <2>2 DEF DiscardWorker, TypeOK, LiveWorkers
    <3>2. CASE member[v] = member[w]
      BY <1>4, <3>1, <3>2 DEF DiscardWorker
    <3>3. CASE member[v] # member[w]
      BY <1>4, <3>3 DEF DiscardWorker, TypeOK
    <3> QED
      BY <3>2, <3>3
  <2> QED
    BY <2>1, <2>2, EndingKeepsBases
<1>5. ASSUME NEW w \in Worker, DeleteWorker(w)
      PROVE  BaseInv'
  <2>1. /\ canonical' = canonical
        /\ \A v \in Worker : state'[v] \in Live \cup {"MERGED"} =>
             /\ v # w
             /\ state'[v] = state[v] /\ member'[v] = member[v]
             /\ worktree'[v] = worktree[v]
        /\ \A q \in Perspective : group'[q].base \in {group[q].base, 0}
    BY <1>5 DEF DeleteWorker, GcEmptyGroups, NoGroup, TypeOK
  <2>2. ASSUME NEW v \in Worker, state'[v] \in Live
        PROVE  group'[member[v]] = group[member[v]]
    <3>1. v \in Worker \ {w} /\ member[v] \in Perspective
      BY <2>1, <2>2, EntryTyped
    <3> QED
      BY <1>5, <3>1 DEF DeleteWorker, GcEmptyGroups
  <2> QED
    BY <2>1, <2>2, EndingKeepsBases
<1>6. ASSUME NEW w \in Worker, MergeWorker(w)
      PROVE  BaseInv'
  BY <1>6, MergeKeepsBases
<1>7. CurrentHead' >= CurrentHead
  BY CommitsStay
<1>8. ASSUME UNCHANGED <<group, member, state, worktree>>
      PROVE  BaseInv'
  BY <1>7, <1>8, StayingKeepsBases
<1>9. ASSUME NEW w \in Worker, NEW s \in Live, Agent(w),
             state' = [state EXCEPT ![w] = s],
             UNCHANGED <<group, member, worktree>>
      PROVE  BaseInv'
  <2>1. state[w] \in Live
    BY <1>9 DEF Agent, AgentsStopAtFinal
  <2>2. \A v \in Worker : /\ state'[v] \in Live <=> state[v] \in Live
                          /\ state'[v] = "MERGED" <=> state[v] = "MERGED"
    BY <1>9, <2>1 DEF TypeOK
  <2> QED
    BY <1>7, <1>9, <2>2, StayingKeepsBases
<1>10. ASSUME NEW w \in Worker, NEW k \in Kind, AckInbox(w, k)
       PROVE  BaseInv'
  <2>1. CASE Reactivates(k)
    BY <1>9, <1>10, <2>1 DEF AckInbox
  <2>2. CASE ~Reactivates(k)
    <3>1. state' = state
      BY <1>10, <2>2 DEF AckInbox, TypeOK
    <3> QED
      BY <1>8, <1>10, <3>1 DEF AckInbox
  <2> QED
    BY <2>1, <2>2
<1>11. ASSUME NEW w \in Worker, NEW h, SendReport(w, h) \/ SendCommit(w, h)
       PROVE  BaseInv'
  BY <1>9, <1>11 DEF SendReport, SendCommit
<1>12. ASSUME NEW w \in Worker, NEW S, CommitInWorktree(w, S)
       PROVE  BaseInv'
  <2>1. worktree[w] \in Revision
    BY <1>12, EntryTyped, AgentAssumption DEF CommitInWorktree, Agent
  <2>2. \A v \in Worker : worktree'[v].base = worktree[v].base
    BY <1>12, <2>1 DEF CommitInWorktree, TypeOK, Revision
  <2> QED
    BY <1>7, <1>12, <2>2, StayingKeepsBases DEF CommitInWorktree
<1>13. CASE OrchestratorStep
  BY <1>13, <1>1, <1>2, <1>3, <1>4, <1>5, <1>6, <1>8
     DEF OrchestratorStep, ForwardPerspective, ResolveWorker, HintWorker,
         ReviseWorker
<1>14. CASE AgentStep
  BY <1>14, <1>8, <1>10, <1>11, <1>12 DEF AgentStep, RejectedReport
<1>15. CASE CanonicalStep
  BY <1>15, <1>8 DEF CanonicalStep, EditRulebook, CommitRulebook,
                     CommitCanonical
<1>16. CASE UNCHANGED vars
  BY <1>16, <1>8 DEF vars
<1> QED
  BY <1>13, <1>14, <1>15, <1>16 DEF Next

\* The inductive invariant holds throughout.
LEMMA BaseInvariant ==
  ASSUME AgentsStopAtFinal
  PROVE  Spec => []BaseInv
BY BaseInit, BaseStep, PTL DEF Spec

\* All worktrees of a live group start at the commit the group is pinned to,
\* also after joins, id reuse, forwards and merges of other groups.
THEOREM SharedBase ==
  ASSUME AgentsStopAtFinal
  PROVE  Spec => []SiblingsShareBase
<1>1. BaseInv => SiblingsShareBase
  BY DEF BaseInv
<1> QED
  BY <1>1, BaseInvariant, PTL

\* A candidate group is merged at most once: two merged workers of one
\* perspective started at different commits.
THEOREM AtMostOneMerge ==
  ASSUME AgentsStopAtFinal
  PROVE  Spec => []OneMergePerGroup
<1>1. BaseInv => OneMergePerGroup
  BY DEF BaseInv
<1> QED
  BY <1>1, BaseInvariant, PTL

-----------------------------------------------------------------------------
(* Merges. *)

\* What a merge applies was changed inside the write set, on top of the base
\* of the group, and nobody else touched the boundary since.
LEMMA MergeMeetsNoConflict ==
  ASSUME MovesStayInside, StableInv, BaseInv, NEW w \in Worker, MergeWorker(w)
  PROVE  \A i \in (worktree[w].base + 1)..CurrentHead :
           canonical[i] \cap EditedFiles(worktree[w]) = {}
<1>1. /\ member[w] \in Perspective /\ HasLiveWorkers(member[w])
      /\ worktree[w].base = group[member[w]].base
  BY EntryTyped DEF MergeWorker, BaseInv, SiblingsShareBase, HasLiveWorkers,
                    LiveWorkers
<1>2. EditedFiles(worktree[w]) \subseteq Owned(group[member[w]])
  <2>1. FromRulebook(group[member[w]], member[w])
    BY <1>1 DEF StableInv, BoundariesCompiled
  <2> QED
    BY <1>1, <2>1, ScopeConfines DEF MergeWorker, Owned
<1> QED
  BY <1>1, <1>2 DEF StableInv, StableBoundary

\* Only the merge of a worker makes it merged.
LEMMA OnlyMergeMerges ==
  ASSUME TypeOK, [Next]_vars, NEW w \in Worker, Merges(w)
  PROVE  MergeWorker(w)
<1>1. ASSUME NEW v \in Worker, MergeWorker(v)
      PROVE  w = v
  BY <1>1 DEF MergeWorker, GroupFinalized, Merges
<1>2. ASSUME NEW v \in Worker, NEW s,
             s # "MERGED", state' = [state EXCEPT ![v] = s]
      PROVE  FALSE
  BY <1>2 DEF Merges, TypeOK
<1>3. ASSUME NEW v \in Worker, NEW k, AckInbox(v, k)
      PROVE  FALSE
  BY <1>3 DEF AckInbox, Merges, TypeOK
<1>4. ASSUME state' = state
      PROVE  FALSE
  BY <1>4 DEF Merges
<1>5. CASE OrchestratorStep
  BY <1>1, <1>2, <1>4, <1>5
     DEF OrchestratorStep, CreateForming, CreateJoining, CreateAutoForwarding,
         Enter, ForwardPerspective, Forward, ResolveWorker,
         ResolveAutoForwarding, HintWorker, ReviseWorker, DiscardWorker,
         DeleteWorker
<1>6. CASE AgentStep
  BY <1>2, <1>3, <1>4, <1>6
     DEF AgentStep, SendReport, RejectedReport, SendCommit, CommitInWorktree
<1>7. CASE CanonicalStep
  BY <1>4, <1>7 DEF CanonicalStep, EditRulebook, CommitRulebook,
                    CommitCanonical
<1>8. CASE UNCHANGED vars
  BY <1>4, <1>8 DEF vars
<1> QED
  BY <1>5, <1>6, <1>7, <1>8 DEF Next

\* A merge never meets a conflicting canonical change: no commit since the
\* base of the merged worker touched a file the worker changed, although the
\* code never looks at the commits between the base and HEAD.
THEOREM MergesNeverConflict ==
  ASSUME AgentsStopAtFinal, MovesStayInside
  PROVE  Spec => MergeNeverConflicts
<1>1. StableInv /\ BaseInv /\ [Next]_vars =>
        [\A w \in Worker : Merges(w) =>
           \A i \in (worktree[w].base + 1)..CurrentHead :
             canonical[i] \cap EditedFiles(worktree[w]) = {}]_vars
  BY OnlyMergeMerges, MergeMeetsNoConflict DEF BaseInv
<1> QED
  BY <1>1, StableInvariant, BaseInvariant, PTL DEF Spec, MergeNeverConflicts

=============================================================================
