---------------------------- MODULE MultorumLease ----------------------------
(***************************************************************************)
(* When agents stop at finalization and rulebook growth is private, live   *)
(* groups never conflict; when moreover files are moved only inside the    *)
(* boundaries they are in, the orchestration core implements the           *)
(* readers-writer lease of OwnershipLease.  The code checks for conflicts when a group is formed   *)
(* and never again, so the argument needs to know where the boundaries of  *)
(* live groups come from: each is one the rulebook gave its perspective.   *)
(***************************************************************************)
EXTENDS MultorumProofs

USE DEF Live, Final, WorkerState

\* Every live group holds a boundary some rulebook version gave it.
GroupsFromRulebook ==
  \A p \in Perspective : HasLiveWorkers(p) =>
    \E r \in Rulebook :
      /\ Compiled[r][p] # None
      /\ group[p].read = Compiled[r][p].read
      /\ group[p].write = Compiled[r][p].write

LeaseInv == ExclusionInv /\ GroupsFromRulebook /\ ConflictFree

-----------------------------------------------------------------------------
(* Overlap of boundaries. *)

\* Overlap does not depend on which group is the candidate.
LEMMA OverlapSymmetric ==
  ASSUME NEW x, NEW y
  PROVE  BoundaryOverlap(x, y) <=> BoundaryOverlap(y, x)
BY DEF BoundaryOverlap

\* The target of a live group that expands overlaps no other live group.
LEMMA ForwardCompatible ==
  ASSUME PrivateGrowth, LeaseInv, NEW p \in Perspective, Forwardable(p),
         NEW q \in Perspective \ {p}, HasLiveWorkers(q)
  PROVE  ~BoundaryOverlap(Target(p), group[q])
<1>1. PICK r \in Rulebook : /\ Compiled[r][p] # None
                            /\ group[p].read = Compiled[r][p].read
                            /\ group[p].write = Compiled[r][p].write
  BY DEF LeaseInv, GroupsFromRulebook, Forwardable
<1>2. PICK t \in Rulebook : /\ Compiled[t][q] # None
                            /\ group[q].read = Compiled[t][q].read
                            /\ group[q].write = Compiled[t][q].write
  BY DEF LeaseInv, GroupsFromRulebook
<1>3. rulebook \in Rulebook /\ Compiled[rulebook][p] # None
  BY DEF LeaseInv, ExclusionInv, TypeOK, Forwardable, Declared
<1> DEFINE old == Compiled[r][p]
           new == Compiled[rulebook][p]
           other == Compiled[t][q]
<1>4. ~BoundaryOverlap([read |-> new.read \ old.read,
                        write |-> new.write \ old.write], other)
  <2>1. old.read \subseteq new.read /\ old.write \subseteq new.write
    BY <1>1 DEF Forwardable, BoundaryExpands
  <2> HIDE DEF old, new, other
  <2>2. None \notin {old, new, other}
    BY <1>1, <1>2, <1>3 DEF old, new, other
  <2> QED
    BY <1>1, <1>2, <1>3, <2>1, <2>2 DEF PrivateGrowth, old, new, other
<1>5. ~BoundaryOverlap(group[p], group[q])
  BY DEF LeaseInv, ConflictFree, Forwardable
<1>6. \A f \in other.write : f \notin new.write /\ f \notin new.read
  BY <1>1, <1>2, <1>4, <1>5 DEF BoundaryOverlap
<1>7. \A f \in other.read : f \notin new.write
  BY <1>1, <1>2, <1>4, <1>5 DEF BoundaryOverlap
<1> QED
  BY <1>2, <1>6, <1>7 DEF BoundaryOverlap, Target

-----------------------------------------------------------------------------
(* The steps that form or change a live group. *)

\* Forming, joining and auto-forwarding all end with a target that overlaps
\* no other live group.
LEMMA CreateCompatible ==
  ASSUME PrivateGrowth, LeaseInv, NEW p \in Perspective, NEW w \in Worker,
         \/ CreateForming(p, w)
         \/ CreateJoining(p, w)
         \/ CreateAutoForwarding(p, w),
         NEW q \in Perspective \ {p}, HasLiveWorkers(q)
  PROVE  ~BoundaryOverlap(Target(p), group[q])
<1>1. CASE CreateForming(p, w)
  BY <1>1 DEF CreateForming, ValidBoundary
<1>2. CASE CreateJoining(p, w)
  BY <1>2 DEF CreateJoining, Drifted, LeaseInv, ConflictFree
<1>3. CASE CreateAutoForwarding(p, w)
  BY <1>3, ForwardCompatible DEF CreateAutoForwarding
<1> QED
  BY <1>1, <1>2, <1>3

\* What creating a worker does to the groups.
LEMMA EnterGroups ==
  ASSUME LeaseInv, NEW p \in Perspective, NEW w \in Worker,
         NEW trees, NEW heads, Enter(p, w, trees, heads)
  PROVE  /\ group'[p] = Target(p) /\ HasLiveWorkers(p)'
         /\ \A q \in Perspective \ {p} :
              /\ HasLiveWorkers(q)' <=> HasLiveWorkers(q)
              /\ HasLiveWorkers(q) => group'[q] = group[q]
<1>1. group'[p] = Target(p)
  BY DEF Enter, GcEmptyGroups
<1>2. HasLiveWorkers(p)'
  <2>1. member'[w] = p /\ state'[w] = "ACTIVE"
    BY DEF Enter, LeaseInv, ExclusionInv, TypeOK
  <2> QED
    BY <2>1 DEF HasLiveWorkers, LiveWorkers
<1>3. \A q \in Perspective \ {p} : LiveWorkers(q)' = LiveWorkers(q)
  BY DEF Enter, LeaseInv, ExclusionInv, TypeOK, LiveWorkers
<1>4. \A q \in Perspective \ {p} :
        HasLiveWorkers(q) => \E v \in Worker \ {w} : member[v] = q
  BY DEF Enter, HasLiveWorkers, LiveWorkers
<1>5. \A q \in Perspective \ {p} : HasLiveWorkers(q) => group'[q] = group[q]
  BY <1>4 DEF Enter, GcEmptyGroups
<1> QED
  BY <1>1, <1>2, <1>3, <1>5 DEF HasLiveWorkers

\* What forwarding does to the groups.
LEMMA ForwardGroups ==
  ASSUME LeaseInv, NEW p \in Perspective, Forward(p)
  PROVE  /\ group'[p] = Target(p)
         /\ \A q \in Perspective : HasLiveWorkers(q)' <=> HasLiveWorkers(q)
         /\ \A q \in Perspective \ {p} : group'[q] = group[q]
<1>1. \A q \in Perspective : HasLiveWorkers(q)' <=> HasLiveWorkers(q)
  BY DEF Forward, HasLiveWorkers, LiveWorkers
<1> QED
  BY <1>1 DEF Forward, LeaseInv, ExclusionInv, TypeOK

\* A step that only ends groups, or leaves them as they are.
Ends ==
  \A p \in Perspective : HasLiveWorkers(p)' =>
    HasLiveWorkers(p) /\ group'[p] = group[p]

\* A step after which p holds its target and every other group is as before.
Targets(p) ==
  /\ group'[p] = Target(p)
  /\ Declared(p)
  /\ \A q \in Perspective \ {p} : HasLiveWorkers(q)' =>
       /\ HasLiveWorkers(q) /\ group'[q] = group[q]
       /\ ~BoundaryOverlap(Target(p), group[q])

\* Ending groups creates no conflict.
LEMMA EndsKeepsLease ==
  ASSUME LeaseInv, Ends
  PROVE  GroupsFromRulebook' /\ ConflictFree'
BY DEF LeaseInv, Ends, GroupsFromRulebook, ConflictFree

\* Neither does giving one group a target compatible with the others.
LEMMA TargetsKeepsLease ==
  ASSUME LeaseInv, NEW p \in Perspective, Targets(p)
  PROVE  GroupsFromRulebook' /\ ConflictFree'
<1>1. rulebook \in Rulebook
  BY DEF LeaseInv, ExclusionInv, TypeOK
<1>2. GroupsFromRulebook'
  <2> SUFFICES ASSUME NEW q \in Perspective, HasLiveWorkers(q)'
               PROVE  \E r \in Rulebook :
                        /\ Compiled[r][q] # None
                        /\ group'[q].read = Compiled[r][q].read
                        /\ group'[q].write = Compiled[r][q].write
    BY DEF GroupsFromRulebook
  <2>1. CASE q = p
    BY <1>1, <2>1 DEF Targets, Target, Declared
  <2>2. CASE q # p
    BY <2>2 DEF Targets, LeaseInv, GroupsFromRulebook
  <2> QED
    BY <2>1, <2>2
<1>3. ConflictFree'
  <2> SUFFICES ASSUME NEW x \in Perspective, NEW y \in Perspective, x # y,
                      HasLiveWorkers(x)', HasLiveWorkers(y)'
               PROVE  ~BoundaryOverlap(group'[x], group'[y])
    BY DEF ConflictFree, BoundaryOverlap
  <2>1. CASE x = p
    BY <2>1 DEF Targets
  <2>2. CASE y = p
    BY <2>2, OverlapSymmetric DEF Targets
  <2>3. CASE x # p /\ y # p
    BY <2>3 DEF Targets, LeaseInv, ConflictFree
  <2> QED
    BY <2>1, <2>2, <2>3
<1> QED
  BY <1>2, <1>3

\* Every step forms or extends one group, or only ends groups.
LEMMA StepShape ==
  ASSUME PrivateGrowth, AgentsStopAtFinal, LeaseInv, [Next]_vars
  PROVE  Ends \/ \E p \in Perspective : Targets(p)
<1>1. ASSUME NEW p \in Perspective, NEW w \in Worker,
             \/ CreateForming(p, w)
             \/ CreateJoining(p, w)
             \/ CreateAutoForwarding(p, w)
      PROVE  Targets(p)
  <2>1. PICK trees, heads : Enter(p, w, trees, heads)
    BY <1>1 DEF CreateForming, CreateJoining, CreateAutoForwarding
  <2>2. Declared(p)
    BY <1>1 DEF CreateForming, CreateJoining, CreateAutoForwarding, Forwardable
  <2> QED
    BY <1>1, <2>1, <2>2, EnterGroups, CreateCompatible DEF Targets
<1>2. ASSUME NEW p \in Perspective, Forward(p)
      PROVE  Targets(p)
  <2>1. Forwardable(p) /\ Declared(p)
    BY <1>2 DEF Forward, Forwardable
  <2> QED
    BY <1>2, <2>1, ForwardGroups, ForwardCompatible DEF Targets
<1>3. ASSUME UNCHANGED <<group, state, member>>
      PROVE  Ends
  BY <1>3 DEF Ends, HasLiveWorkers, LiveWorkers
<1>4. ASSUME NEW w \in Worker, ResolveAutoForwarding(w)
      PROVE  \E p \in Perspective : Targets(p)
  <2>1. member[w] \in Perspective
    BY <1>4, EntryTyped DEF ResolveAutoForwarding, LeaseInv, ExclusionInv
  <2> QED
    BY <1>2, <1>4, <2>1 DEF ResolveAutoForwarding
<1>5. ASSUME NEW w \in Worker, DiscardWorker(w)
      PROVE  Ends
  <2>1. \A p \in Perspective : LiveWorkers(p)' \subseteq LiveWorkers(p) \ {w}
    BY <1>5 DEF DiscardWorker, LeaseInv, ExclusionInv, TypeOK, LiveWorkers
  <2>2. \A p \in Perspective :
          group'[p] = group[p] \/ LiveWorkers(p) = {w}
    BY <1>5 DEF DiscardWorker, LeaseInv, ExclusionInv, TypeOK
  <2> QED
    BY <2>1, <2>2 DEF Ends, HasLiveWorkers
<1>6. ASSUME NEW w \in Worker, DeleteWorker(w)
      PROVE  Ends
  <2>1. \A p \in Perspective : LiveWorkers(p)' = LiveWorkers(p) \ {w}
    BY <1>6 DEF DeleteWorker, LeaseInv, ExclusionInv, TypeOK, LiveWorkers
  <2>2. \A p \in Perspective :
          LiveWorkers(p) \ {w} # {} => group'[p] = group[p]
    BY <1>6 DEF DeleteWorker, GcEmptyGroups, LiveWorkers
  <2> QED
    BY <2>1, <2>2 DEF Ends, HasLiveWorkers
<1>7. ASSUME NEW w \in Worker, MergeWorker(w)
      PROVE  Ends
  <2>1. \A p \in Perspective : LiveWorkers(p)' \subseteq LiveWorkers(p)
    BY <1>7 DEF MergeWorker, GroupFinalized, LeaseInv, ExclusionInv, TypeOK,
                LiveWorkers
  <2>2. \A p \in Perspective : p = member[w] => LiveWorkers(p)' = {}
    BY <1>7 DEF MergeWorker, GroupFinalized, LeaseInv, ExclusionInv, TypeOK,
                LiveWorkers
  <2>3. \A p \in Perspective : p = member[w] \/ group'[p] = group[p]
    BY <1>7 DEF MergeWorker, LeaseInv, ExclusionInv, TypeOK
  <2> QED
    BY <2>1, <2>2, <2>3 DEF Ends, HasLiveWorkers
<1>8. ASSUME NEW w \in Worker, NEW s \in Live, Agent(w),
             state' = [state EXCEPT ![w] = s], UNCHANGED <<group, member>>
      PROVE  Ends
  <2>1. \A p \in Perspective : LiveWorkers(p)' = LiveWorkers(p)
    BY <1>8 DEF Agent, AgentsStopAtFinal, LeaseInv, ExclusionInv, TypeOK,
                LiveWorkers
  <2> QED
    BY <1>8, <2>1 DEF Ends, HasLiveWorkers
<1>9. ASSUME NEW w \in Worker, NEW k \in Kind, AckInbox(w, k)
      PROVE  Ends
  <2>1. CASE Reactivates(k)
    BY <1>8, <1>9, <2>1 DEF AckInbox
  <2>2. CASE ~Reactivates(k)
    <3>1. state' = state
      BY <1>9, <2>2 DEF AckInbox, LeaseInv, ExclusionInv, TypeOK
    <3> QED
      BY <1>3, <1>9, <3>1 DEF AckInbox
  <2> QED
    BY <2>1, <2>2
<1>10. ASSUME NEW w \in Worker, NEW h, SendReport(w, h) \/ SendCommit(w, h)
       PROVE  Ends
  BY <1>8, <1>10 DEF SendReport, SendCommit
<1>11. CASE OrchestratorStep
  BY <1>11, <1>1, <1>2, <1>3, <1>4, <1>5, <1>6, <1>7
     DEF OrchestratorStep, ForwardPerspective, ResolveWorker, HintWorker,
         ReviseWorker
<1>12. CASE AgentStep
  BY <1>12, <1>3, <1>9, <1>10
     DEF AgentStep, RejectedReport, CommitInWorktree
<1>13. CASE CanonicalStep
  BY <1>13, <1>3 DEF CanonicalStep, EditRulebook, CommitRulebook,
                     CommitCanonical
<1>14. CASE UNCHANGED vars
  BY <1>14, <1>3 DEF vars
<1> QED
  BY <1>11, <1>12, <1>13, <1>14 DEF Next

-----------------------------------------------------------------------------
(* Conflict freedom. *)

\* An empty project has no live group.
LEMMA LeaseInvInit == Init => LeaseInv
<1> SUFFICES ASSUME Init
             PROVE  LeaseInv
  OBVIOUS
<1>1. \A p \in Perspective : ~HasLiveWorkers(p)
  BY DEF Init, HasLiveWorkers, LiveWorkers
<1> QED
  BY <1>1, ExclusionInit DEF LeaseInv, GroupsFromRulebook, ConflictFree

\* Every command keeps live groups compatible.
LEMMA LeaseInvStep ==
  ASSUME PrivateGrowth, AgentsStopAtFinal
  PROVE  LeaseInv /\ [Next]_vars => LeaseInv'
<1> SUFFICES ASSUME LeaseInv, [Next]_vars
             PROVE  LeaseInv'
  OBVIOUS
<1>1. ExclusionInv'
  BY ExclusionStep DEF LeaseInv
<1> QED
  BY <1>1, StepShape, EndsKeepsLease, TargetsKeepsLease DEF LeaseInv

\* The inductive invariant holds throughout.
LEMMA LeaseInvariant ==
  ASSUME PrivateGrowth, AgentsStopAtFinal
  PROVE  Spec => []LeaseInv
BY LeaseInvInit, LeaseInvStep, PTL DEF Spec

\* No two live groups hold overlapping boundaries, although boundaries are
\* compared only when a group is formed and not when it is forwarded.
THEOREM ConflictFreedom ==
  ASSUME PrivateGrowth, AgentsStopAtFinal
  PROVE  Spec => []ConflictFree
<1>1. LeaseInv => ConflictFree
  BY DEF LeaseInv
<1> QED
  BY <1>1, LeaseInvariant, PTL

-----------------------------------------------------------------------------
(***************************************************************************)
(* Refinement.  The lease of a perspective is its boundary while one of    *)
(* its workers lives.                                                      *)
(***************************************************************************)

\* The leases of p before and after a step.
LEMMA LeaseOf ==
  ASSUME NEW p \in Perspective
  PROVE  /\ HasLiveWorkers(p) => Leases[p] = [read  |-> group[p].read,
                                              write |-> group[p].write]
         /\ ~HasLiveWorkers(p) => Leases[p] = [read |-> {}, write |-> {}]
         /\ HasLiveWorkers(p)' => Leases'[p] = [read  |-> group'[p].read,
                                                write |-> group'[p].write]
         /\ ~HasLiveWorkers(p)' => Leases'[p] = [read |-> {}, write |-> {}]
BY DEF Leases

\* Leases depend on the groups and on which workers are live, nothing else.
LEMMA LeaseUnchanged ==
  ASSUME UNCHANGED <<group, state, member>>
  PROVE  Leases' = Leases
BY DEF Leases, HasLiveWorkers, LiveWorkers

\* A step that leaves group p on its target claims the lease of p.
LEMMA TargetsClaims ==
  ASSUME LeaseInv, NEW p \in Perspective, Targets(p),
         \A q \in Perspective \ {p} : HasLiveWorkers(q)' <=> HasLiveWorkers(q),
         HasLiveWorkers(p)',
         \/ ~HasLiveWorkers(p)
         \/ BoundaryExpands(p)
         \/ group[p] = Target(p),
         UNCHANGED canonical
  PROVE  Lease!Claim(p)
<1>1. \A q \in Perspective \ {p} : Leases'[q] = Leases[q]
  BY LeaseOf DEF Targets
<1>2. Leases'[p] = [read |-> Target(p).read, write |-> Target(p).write]
  BY LeaseOf DEF Targets
<1>3. /\ Leases[p].read \subseteq Leases'[p].read
      /\ Leases[p].write \subseteq Leases'[p].write
  <2>1. CASE ~HasLiveWorkers(p)
    <3>1. Leases[p] = [read |-> {}, write |-> {}]
      BY <2>1, LeaseOf
    <3> QED
      BY <3>1
  <2>2. CASE HasLiveWorkers(p) /\ BoundaryExpands(p)
    <3>1. Leases[p] = [read |-> group[p].read, write |-> group[p].write]
      BY <2>2, LeaseOf
    <3>2. /\ group[p].read \subseteq Target(p).read
          /\ group[p].write \subseteq Target(p).write
      BY <2>2 DEF BoundaryExpands, Target
    <3> QED
      BY <1>2, <3>1, <3>2
  <2>3. CASE HasLiveWorkers(p) /\ group[p] = Target(p)
    BY <1>2, <2>3, LeaseOf
  <2> QED
    BY <2>1, <2>2, <2>3
<1>4. ASSUME NEW q \in Perspective \ {p}
      PROVE  Lease!Compatible(Leases'[p], Leases[q])
  <2>1. CASE HasLiveWorkers(q)
    <3>1. ~BoundaryOverlap(Target(p), group[q])
      BY <2>1 DEF Targets
    <3>2. Leases[q] = [read |-> group[q].read, write |-> group[q].write]
      BY <2>1, LeaseOf
    <3> QED
      BY <1>2, <3>1, <3>2 DEF BoundaryOverlap, Lease!Compatible, Lease!Held
  <2>2. CASE ~HasLiveWorkers(q)
    <3>1. Leases[q] = [read |-> {}, write |-> {}]
      BY <2>2, LeaseOf
    <3> QED
      BY <3>1 DEF Lease!Compatible, Lease!Held
  <2> QED
    BY <2>1, <2>2
<1> QED
  BY <1>1, <1>3, <1>4 DEF Lease!Claim, Lease!Untouched

\* Creating a worker claims.
LEMMA CreateClaims ==
  ASSUME PrivateGrowth, LeaseInv, NEW p \in Perspective, NEW w \in Worker,
         \/ CreateForming(p, w)
         \/ CreateJoining(p, w)
         \/ CreateAutoForwarding(p, w)
  PROVE  Lease!Claim(p)
<1>1. PICK trees, heads : Enter(p, w, trees, heads)
  BY DEF CreateForming, CreateJoining, CreateAutoForwarding
<1>2. /\ Declared(p)
      /\ \/ ~HasLiveWorkers(p)
         \/ BoundaryExpands(p)
         \/ group[p] = Target(p)
  BY DEF CreateForming, CreateJoining, CreateAutoForwarding, Forwardable,
         Drifted
<1>3. Targets(p)
  BY <1>1, <1>2, EnterGroups, CreateCompatible DEF Targets
<1>4. UNCHANGED canonical
  BY <1>1 DEF Enter
<1> QED
  BY <1>1, <1>2, <1>3, <1>4, EnterGroups, TargetsClaims

\* Forwarding a group claims.
LEMMA ForwardClaims ==
  ASSUME PrivateGrowth, LeaseInv, NEW p \in Perspective, Forward(p)
  PROVE  Lease!Claim(p)
<1>1. /\ Forwardable(p) /\ Declared(p) /\ BoundaryExpands(p)
      /\ HasLiveWorkers(p)
      /\ UNCHANGED canonical
  BY DEF Forward, Forwardable
<1>2. Targets(p)
  BY <1>1, ForwardGroups, ForwardCompatible DEF Targets
<1> QED
  BY <1>1, <1>2, ForwardGroups, TargetsClaims

\* Discarding releases the lease with the last live worker.
LEMMA DiscardReleases ==
  ASSUME LeaseInv, NEW w \in Worker, DiscardWorker(w)
  PROVE  Lease!Release(member[w]) \/ UNCHANGED <<Leases, canonical>>
<1>1. member[w] \in Perspective
  BY EntryTyped DEF DiscardWorker, LeaseInv, ExclusionInv
<1>2. \A p \in Perspective : LiveWorkers(p)' = LiveWorkers(p) \ {w}
  BY DEF DiscardWorker, LeaseInv, ExclusionInv, TypeOK, LiveWorkers
<1>3. \A p \in Perspective \ {member[w]} : w \notin LiveWorkers(p)
  BY DEF LiveWorkers
<1>4. \A p \in Perspective \ {member[w]} :
        /\ group'[p] = group[p]
        /\ HasLiveWorkers(p)' <=> HasLiveWorkers(p)
  BY <1>2, <1>3 DEF DiscardWorker, HasLiveWorkers
<1>5. \A p \in Perspective \ {member[w]} : Leases'[p] = Leases[p]
  BY <1>4, LeaseOf
<1>6. UNCHANGED canonical
  BY DEF DiscardWorker
<1>7. CASE LiveWorkers(member[w]) = {w}
  <2>1. \A p \in Perspective : p = member[w] => ~HasLiveWorkers(p)'
    BY <1>2, <1>7 DEF HasLiveWorkers
  <2>2. Leases'[member[w]] = [read |-> {}, write |-> {}]
    BY <1>1, <2>1, LeaseOf
  <2> QED
    BY <1>1, <1>5, <1>6, <2>2
       DEF Lease!Release, Lease!Untouched, Lease!Nothing
<1>8. CASE LiveWorkers(member[w]) # {w}
  <2>1. w \in LiveWorkers(member[w])
    BY DEF DiscardWorker, LiveWorkers
  <2>2. group' = group
    BY <1>8 DEF DiscardWorker
  <2>3. \A p \in Perspective : HasLiveWorkers(p)' <=> HasLiveWorkers(p)
    BY <1>2, <1>3, <1>8, <2>1 DEF HasLiveWorkers
  <2>4. Leases' = Leases
    BY <2>2, <2>3 DEF Leases
  <2> QED
    BY <1>6, <2>4
<1> QED
  BY <1>7, <1>8

\* Deleting concerns no lease.
LEMMA DeleteKeepsLeases ==
  ASSUME LeaseInv, NEW w \in Worker, DeleteWorker(w)
  PROVE  UNCHANGED <<Leases, canonical>>
<1>1. \A p \in Perspective : LiveWorkers(p)' = LiveWorkers(p)
  BY DEF DeleteWorker, LeaseInv, ExclusionInv, TypeOK, LiveWorkers
<1>2. \A p \in Perspective : HasLiveWorkers(p) => group'[p] = group[p]
  BY DEF DeleteWorker, GcEmptyGroups, HasLiveWorkers, LiveWorkers
<1>3. Leases' = Leases
  BY <1>1, <1>2 DEF Leases, HasLiveWorkers
<1> QED
  BY <1>3 DEF DeleteWorker

\* A merge publishes inside the write set of the group and ends its lease.
LEMMA MergePublishes ==
  ASSUME MovesStayInside, LeaseInv, NEW w \in Worker, MergeWorker(w)
  PROVE  Lease!PublishAndRelease(member[w])
<1>1. member[w] \in Perspective
  BY EntryTyped DEF MergeWorker, LeaseInv, ExclusionInv
<1>2. \A p \in Perspective :
        LiveWorkers(p)' = IF p = member[w] THEN {} ELSE LiveWorkers(p)
  BY DEF MergeWorker, GroupFinalized, LeaseInv, ExclusionInv, TypeOK,
         LiveWorkers
<1>3. \A p \in Perspective \ {member[w]} :
        group'[p] = group[p] /\ (HasLiveWorkers(p)' <=> HasLiveWorkers(p))
  BY <1>2 DEF MergeWorker, HasLiveWorkers
<1>4. \A p \in Perspective \ {member[w]} : Leases'[p] = Leases[p]
  BY <1>3, LeaseOf
<1>5. \A p \in Perspective : p = member[w] => ~HasLiveWorkers(p)'
  BY <1>2 DEF HasLiveWorkers
<1>6. Leases'[member[w]] = [read |-> {}, write |-> {}]
  BY <1>1, <1>5, LeaseOf
<1>7. HasLiveWorkers(member[w])
  BY DEF MergeWorker, HasLiveWorkers, LiveWorkers
<1>8. Leases[member[w]].write = group[member[w]].write
  <2>1. Leases[member[w]] = [read  |-> group[member[w]].read,
                             write |-> group[member[w]].write]
    BY <1>1, <1>7, LeaseOf
  <2> QED
    BY <2>1
<1>9. HeadFiles(submitted[w]) \subseteq group[member[w]].write
  <2>1. submitted[w] \in Revision
    BY DEF MergeWorker, LeaseInv, ExclusionInv, TypeOK
  <2>2. HeadFiles(submitted[w]) \subseteq EditedFiles(submitted[w])
    BY <2>1 DEF HeadFiles, EditedFiles, Revision
  <2>3. FromRulebook(group[member[w]], member[w])
    BY <1>1, <1>7 DEF LeaseInv, GroupsFromRulebook, FromRulebook
  <2> QED
    BY <1>1, <2>2, <2>3, ScopeConfines DEF MergeWorker
<1>10. canonical' = Append(canonical, HeadFiles(submitted[w]))
  BY DEF MergeWorker
<1> QED
  BY <1>1, <1>4, <1>6, <1>8, <1>9, <1>10
     DEF Lease!PublishAndRelease, Lease!Untouched, Lease!Nothing

\* What the hook accepts lies outside every lease.
LEMMA HookOutside ==
  ASSUME MovesStayInside, LeaseInv,
         NEW S \in SUBSET File, HookAccepts(S, exclusion),
         UNCHANGED <<group, state, member>>,
         canonical' = Append(canonical, S)
  PROVE  Lease!CommitOutside
<1>1. \A p \in Perspective : S \cap Lease!Held(Leases[p]) = {}
  <2>1. ASSUME NEW p \in Perspective, HasLiveWorkers(p)
        PROVE  S \cap Owned(group[p]) = {}
    <3>1. Owned(group[p]) \subseteq exclusion
      BY <2>1 DEF LeaseInv, ExclusionInv, ExclusionMatches,
                  CollectExclusionSet, Contribution
    <3>2. FromRulebook(group[p], p)
      BY <2>1 DEF LeaseInv, GroupsFromRulebook, FromRulebook
    <3> QED
      BY <3>1, <3>2, HookProtects
  <2> SUFFICES ASSUME NEW p \in Perspective
               PROVE  S \cap Lease!Held(Leases[p]) = {}
    OBVIOUS
  <2>2. CASE HasLiveWorkers(p)
    <3>1. Leases[p] = [read |-> group[p].read, write |-> group[p].write]
      BY <2>2, LeaseOf
    <3> QED
      BY <2>1, <2>2, <3>1 DEF Lease!Held, Owned
  <2>3. CASE ~HasLiveWorkers(p)
    <3>1. Leases[p] = [read |-> {}, write |-> {}]
      BY <2>3, LeaseOf
    <3> QED
      BY <3>1 DEF Lease!Held
  <2> QED
    BY <2>2, <2>3
<1>2. S \in SUBSET (File \ UNION {Lease!Held(Leases[p]) : p \in Perspective})
  BY <1>1
<1> QED
  BY <1>2, LeaseUnchanged DEF Lease!CommitOutside

\* In an empty project nobody holds a lease.
LEMMA RefinementInit == Init => Lease!LeaseInit
BY DEF Init, Leases, HasLiveWorkers, LiveWorkers, Lease!LeaseInit,
       Lease!Nothing

\* Every command is a step of the lease, or concerns none.
LEMMA RefinementStep ==
  ASSUME PrivateGrowth, AgentsStopAtFinal, MovesStayInside
  PROVE  LeaseInv /\ [Next]_vars => [Lease!LeaseNext]_<<Leases, canonical>>
<1> SUFFICES ASSUME LeaseInv, [Next]_vars
             PROVE  Lease!LeaseNext \/ UNCHANGED <<Leases, canonical>>
  OBVIOUS
<1>1. ASSUME NEW p \in Perspective, NEW w \in Worker,
             \/ CreateForming(p, w)
             \/ CreateJoining(p, w)
             \/ CreateAutoForwarding(p, w)
      PROVE  Lease!LeaseNext
  BY <1>1, CreateClaims DEF Lease!LeaseNext
<1>2. ASSUME NEW p \in Perspective, Forward(p)
      PROVE  Lease!LeaseNext
  BY <1>2, ForwardClaims DEF Lease!LeaseNext
<1>3. ASSUME NEW w \in Worker, state[w] \in Live
      PROVE  member[w] \in Perspective
  BY <1>3, EntryTyped DEF LeaseInv, ExclusionInv
<1>4. ASSUME NEW w \in Worker, ResolveAutoForwarding(w)
      PROVE  Lease!LeaseNext
  BY <1>2, <1>3, <1>4 DEF ResolveAutoForwarding
<1>5. ASSUME NEW w \in Worker, DiscardWorker(w)
      PROVE  Lease!LeaseNext \/ UNCHANGED <<Leases, canonical>>
  BY <1>3, <1>5, DiscardReleases DEF DiscardWorker, Lease!LeaseNext
<1>6. ASSUME NEW w \in Worker, DeleteWorker(w)
      PROVE  UNCHANGED <<Leases, canonical>>
  BY <1>6, DeleteKeepsLeases
<1>7. ASSUME NEW w \in Worker, MergeWorker(w)
      PROVE  Lease!LeaseNext
  BY <1>3, <1>7, MergePublishes DEF MergeWorker, Lease!LeaseNext
<1>8. ASSUME UNCHANGED <<canonical, group, state, member>>
      PROVE  UNCHANGED <<Leases, canonical>>
  BY <1>8, LeaseUnchanged
<1>9. ASSUME NEW w \in Worker, NEW s \in Live, Agent(w),
             state' = [state EXCEPT ![w] = s],
             UNCHANGED <<canonical, group, member>>
      PROVE  UNCHANGED <<Leases, canonical>>
  <2>1. \A p \in Perspective : LiveWorkers(p)' = LiveWorkers(p)
    BY <1>9 DEF Agent, AgentsStopAtFinal, LeaseInv, ExclusionInv, TypeOK,
                LiveWorkers
  <2> QED
    BY <1>9, <2>1 DEF Leases, HasLiveWorkers
<1>10. ASSUME NEW w \in Worker, NEW k \in Kind, AckInbox(w, k)
       PROVE  UNCHANGED <<Leases, canonical>>
  <2>1. CASE Reactivates(k)
    BY <1>9, <1>10, <2>1 DEF AckInbox
  <2>2. CASE ~Reactivates(k)
    <3>1. state' = state
      BY <1>10, <2>2 DEF AckInbox, LeaseInv, ExclusionInv, TypeOK
    <3> QED
      BY <1>8, <1>10, <3>1 DEF AckInbox
  <2> QED
    BY <2>1, <2>2
<1>11. ASSUME NEW w \in Worker, NEW h, SendReport(w, h) \/ SendCommit(w, h)
       PROVE  UNCHANGED <<Leases, canonical>>
  BY <1>9, <1>11 DEF SendReport, SendCommit
<1>12. ASSUME NEW S \in EditSet, CommitCanonical(S)
       PROVE  Lease!LeaseNext
  BY <1>12, HookOutside, AgentAssumption DEF CommitCanonical, Lease!LeaseNext
<1>13. CASE CommitRulebook
  BY <1>13, HookOutside DEF CommitRulebook, Lease!LeaseNext
<1>14. CASE OrchestratorStep
  BY <1>14, <1>1, <1>2, <1>4, <1>5, <1>6, <1>7, <1>8
     DEF OrchestratorStep, ForwardPerspective, ResolveWorker, HintWorker,
         ReviseWorker
<1>15. CASE AgentStep
  BY <1>15, <1>8, <1>10, <1>11
     DEF AgentStep, RejectedReport, CommitInWorktree
<1>16. CASE CanonicalStep
  BY <1>16, <1>8, <1>12, <1>13 DEF CanonicalStep, EditRulebook
<1>17. CASE UNCHANGED vars
  BY <1>17, <1>8 DEF vars
<1> QED
  BY <1>14, <1>15, <1>16, <1>17 DEF Next

\* The orchestrator implements the readers-writer lease: creation, joining
\* and forwarding claim, the end of the last worker releases, a merge
\* publishes inside the lease, and the hook keeps everybody else outside.
THEOREM LeaseImplementation ==
  ASSUME PrivateGrowth, AgentsStopAtFinal, MovesStayInside
  PROVE  Spec => ImplementsLease
BY RefinementInit, RefinementStep, LeaseInvariant, PTL
   DEF Spec, ImplementsLease, Lease!LeaseSpec

-----------------------------------------------------------------------------
(* What the lease is worth: its own steps keep leases apart. *)

LeasesExclude ==
  \A p, q \in Perspective : p # q => Lease!Compatible(Leases[p], Leases[q])

\* Whoever claims compares with every other lease; whoever releases or
\* publishes keeps nothing.
LEMMA LeaseStepExcludes ==
  ASSUME LeasesExclude, [Lease!LeaseNext]_<<Leases, canonical>>
  PROVE  LeasesExclude'
<1>1. CASE UNCHANGED Leases
  BY <1>1 DEF LeasesExclude
<1>2. CASE \E p \in Perspective :
             Lease!Claim(p) \/ Lease!Release(p) \/ Lease!PublishAndRelease(p)
  <2>1. PICK p \in Perspective :
               Lease!Claim(p) \/ Lease!Release(p) \/ Lease!PublishAndRelease(p)
    BY <1>2
  <2>2. \A q \in Perspective \ {p} : Leases'[q] = Leases[q]
    BY <2>1 DEF Lease!Claim, Lease!Release, Lease!PublishAndRelease, Lease!Untouched
  <2>3. \A q \in Perspective \ {p} : Lease!Compatible(Leases'[p], Leases[q])
    BY <2>1 DEF Lease!Claim, Lease!Release, Lease!PublishAndRelease, Lease!Compatible,
                Lease!Nothing, Lease!Held
  <2>4. \A l, m : Lease!Compatible(l, m) = Lease!Compatible(m, l)
    BY DEF Lease!Compatible
  <2>5. ASSUME NEW q \in Perspective, NEW r \in Perspective, q # r
        PROVE  Lease!Compatible(Leases'[q], Leases'[r])
    <3>1. CASE q = p
      BY <2>2, <2>3, <2>5, <3>1
    <3>2. CASE r = p
      BY <2>2, <2>3, <2>4, <2>5, <3>2
    <3>3. CASE q # p /\ r # p
      BY <2>2, <2>5, <3>3 DEF LeasesExclude
    <3> QED
      BY <3>1, <3>2, <3>3
  <2> QED
    BY <2>5 DEF LeasesExclude
<1> QED
  BY <1>1, <1>2 DEF Lease!LeaseNext, Lease!CommitOutside

\* Any implementation of the lease keeps the leases of two perspectives
\* compatible at all times: exclusion is a consequence of what OwnershipLease
\* promises, not an addition to it.
THEOREM LeaseExclusion == Lease!LeaseSpec => []LeasesExclude
<1>1. Lease!LeaseInit => LeasesExclude
  BY DEF Lease!LeaseInit, LeasesExclude, Lease!Compatible, Lease!Nothing, Lease!Held
<1>2. LeasesExclude /\ [Lease!LeaseNext]_<<Leases, canonical>> => LeasesExclude'
  BY LeaseStepExcludes
<1> QED
  BY <1>1, <1>2, PTL DEF Lease!LeaseSpec

\* The refinement is strong enough for the invariant of DESIGN.md: whatever
\* implements the lease never has two live groups with overlapping boundaries.
THEOREM LeaseGivesConflictFreedom == ImplementsLease => []ConflictFree
<1>1. LeasesExclude => ConflictFree
  <2> SUFFICES ASSUME LeasesExclude, NEW p \in Perspective, NEW q \in Perspective, p # q,
                      HasLiveWorkers(p), HasLiveWorkers(q)
               PROVE  ~ BoundaryOverlap(group[p], group[q])
    BY DEF ConflictFree
  <2>1. Lease!Compatible(Leases[p], Leases[q])
    BY DEF LeasesExclude
  <2>2. /\ Leases[p] = [read |-> group[p].read, write |-> group[p].write]
        /\ Leases[q] = [read |-> group[q].read, write |-> group[q].write]
    BY DEF Leases
  <2> QED
    BY <2>1, <2>2 DEF Lease!Compatible, Lease!Held, BoundaryOverlap
<1> QED
  BY <1>1, LeaseExclusion, PTL DEF ImplementsLease
=============================================================================
