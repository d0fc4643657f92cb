------------------------ MODULE MergePipelineProofs -------------------------
(***************************************************************************)
(* A merge, however often it is tried and wherever it dies, is recorded    *)
(* before it is committed, committed once, and undone as a whole, for any  *)
(* number of attempts and failures.                                        *)
(*                                                                         *)
(* The invariant says what lies at the final paths at every step: the      *)
(* artifacts promoted so far are new, the one being replaced is set aside, *)
(* the rest are as they were when the merge began; and in a rollback the   *)
(* artifacts still to undo can be undone.                                  *)
(***************************************************************************)
EXTENDS MergePipeline, TLAPS

Pending == {"prepare", "inspect", "integrate"}

Promoting == {"promote", "swap"}

\* The merge in progress counts its promotions and its failures of recovery.
ProgressInv ==
  /\ pc \in Pending \cup {"idle"} => done = 0
  /\ pc \in Promoting => done < Len(Order)
  /\ pc \in {"finalize", "cleanup"} => done = Len(Order)
  /\ pc # "idle" => outcome = "running"
  /\ pc \notin {"idle", "abort"} => unrecovered = 0

\* Only the artifact at hand is away; those before it are promoted.
PromotionInv ==
  /\ pc \in Pending => final = before
  /\ pc \in Pending \cup {"idle"} => backup = {}
  /\ pc = "swap" => Order[done + 1] \in backup /\ HadOriginal(Order[done + 1])
  /\ pc \in Promoting \cup {"finalize"} =>
       /\ \A i \in 1..done : final[Order[i]] = "new" /\ (Order[i] \in backup <=> HadOriginal(Order[i]))
       /\ \A a \in Artifact :
            \/ \E i \in 1..done : Order[i] = a
            \/ pc = "swap" /\ a = Order[done + 1]
            \/ a \notin backup /\ final[a] = before[a]

\* What is still to undo was set aside, or replaced nothing, or is untouched.
RollbackInv ==
  /\ pc = "rollback" =>
       \A a \in Artifact :
         \/ a \notin backup /\ final[a] = before[a]
         \/ /\ \E i \in 1..done : Order[i] = a
            /\ \/ a \in backup /\ HadOriginal(a)
               \/ a \notin backup /\ final[a] = "new" /\ ~HadOriginal(a)
  /\ pc = "abort" /\ unrecovered = 0 => final = before

\* The patch lies in the workspace only until the merge has ended.
TreeInv == tree = "picked" => ~emptySubmission /\ pc \in Promoting \cup {"finalize", "rollback", "abort"}

\* The audit directory of a rationale bundle is there from its promotion on.
AuditInv ==
  /\ pc \in {"inspect", "integrate"} => ~auditDir
  /\ pc = "prepare" /\ withBundle => payload = "caller"
  /\ pc = "rollback" /\ done = 0 /\ withBundle => ~auditDir
  /\ pc = "abort" /\ unrecovered = 0 /\ withBundle => ~auditDir

\* No commit is made while a merge is under way, but ones it takes for failures.
IntegrationInv ==
  /\ integrated >= unreported
  /\ pc \notin {"idle", "cleanup"} => integrated = unreported
  /\ pc = "cleanup" =>
       /\ integrated = unreported + 1 /\ tree = "clean"
       /\ \A i \in 1..Len(Order) : final[Order[i]] = "new"

MergeInv ==
  /\ TypeOK /\ ProgressInv /\ PromotionInv /\ RollbackInv /\ TreeInv /\ AuditInv /\ IntegrationInv
  /\ CommittedImpliesRecorded /\ NeverIntegratedTwice /\ AllOrNothing

-----------------------------------------------------------------------------

\* The order of promotion names every artifact once, the bundle only when
\* there is one, and then first.
LEMMA OrderFacts ==
  ASSUME withBundle \in BOOLEAN
  PROVE  /\ Len(Order) \in Nat /\ Len(Order) > 0
         /\ \A i \in 1..Len(Order) : Order[i] \in Artifact
         /\ \A i \in 1..Len(Order), j \in 1..Len(Order) : Order[i] = Order[j] => i = j
         /\ \A a \in Artifact \ {"bundle"} : \E i \in 1..Len(Order) : Order[i] = a
         /\ withBundle <=> Order[1] = "bundle"
         /\ \A i \in 2..Len(Order) : Order[i] # "bundle"
<1>1. CASE withBundle
  <2>1. /\ Len(Order) = 5
        /\ Order[1] = "bundle" /\ Order[2] = "entry" /\ Order[3] = "group"
        /\ Order[4] = "worker" /\ Order[5] = "exclusion"
    BY <1>1 DEF Order
  <2>2. \A i \in 1..5 : i = 1 \/ i = 2 \/ i = 3 \/ i = 4 \/ i = 5
    OBVIOUS
  <2> QED
    BY <1>1, <2>1, <2>2 DEF Artifact
<1>2. CASE ~withBundle
  <2>1. /\ Len(Order) = 4
        /\ Order[1] = "entry" /\ Order[2] = "group"
        /\ Order[3] = "worker" /\ Order[4] = "exclusion"
    BY <1>2 DEF Order
  <2>2. \A i \in 1..4 : i = 1 \/ i = 2 \/ i = 3 \/ i = 4
    OBVIOUS
  <2> QED
    BY <1>2, <2>1, <2>2 DEF Artifact
<1> QED
  BY <1>1, <1>2

\* A merge that keeps its rationale keeps its order, and what it began with.
LEMMA SameOrder == withBundle' = withBundle => Order' = Order
BY DEF Order

\* So does what it replaces.
LEMMA SameOriginals == before' = before => \A a \in Artifact : HadOriginal(a)' <=> HadOriginal(a)
BY DEF HadOriginal

\* Before the first merge nothing is promoted and nothing committed.
LEMMA MergeInvInit == Init => MergeInv
<1> SUFFICES ASSUME Init PROVE MergeInv
  OBVIOUS
<1>1. Len(Order) \in Nat /\ Len(Order) > 0
  BY OrderFacts DEF Init
<1>2. TypeOK
  <2>1. final \in [Artifact -> {"old", "new", "none"}] /\ before = final
    BY DEF Init, Original, Artifact
  <2>2. done \in 0..Len(Order) /\ attempts \in 0..MaxAttempts /\ faults \in 0..MaxFaults
    BY <1>1, MergeBoundsAssumption DEF Init
  <2>3. emptySubmission \in BOOLEAN /\ withBundle \in BOOLEAN /\ auditDir \in BOOLEAN
    BY DEF Init
  <2>4. staged \subseteq Artifact /\ backup \subseteq Artifact /\ integrated \in Nat /\ unreported \in Nat
        /\ unrecovered \in Nat
    BY DEF Init
  <2> QED
    BY <2>1, <2>2, <2>3, <2>4 DEF Init, TypeOK
<1>3. ProgressInv /\ PromotionInv /\ RollbackInv /\ TreeInv /\ AuditInv /\ IntegrationInv
  BY DEF Init, ProgressInv, PromotionInv, RollbackInv, TreeInv, AuditInv, IntegrationInv, Pending, Promoting
<1> QED
  BY <1>2, <1>3 DEF Init, MergeInv, CommittedImpliesRecorded, NeverIntegratedTwice, AllOrNothing

\* A merge begins with nothing promoted and nothing committed: the worker is
\* still recorded as COMMITTED.
LEMMA BeginMergeStep == MergeInv /\ BeginMerge => MergeInv'
<1> SUFFICES ASSUME MergeInv, BeginMerge PROVE MergeInv'
  OBVIOUS
<1> USE DEF MergeInv, BeginMerge, End, DropStaging, Failure, state, temporary, branch, counters
<1>1. TypeOK'
  <2>1. withBundle' \in BOOLEAN
    BY DEF TypeOK
  <2>2. Len(Order)' \in Nat /\ done' \in 0..Len(Order)'
    BY <2>1 DEF Order, ProgressInv
  <2> QED
    BY <2>1, <2>2, MergeBoundsAssumption DEF TypeOK
<1>2. ProgressInv'
  BY DEF ProgressInv, Promoting, Pending
<1>3. PromotionInv'
  BY DEF PromotionInv, Promoting, Pending
<1>4. TreeInv'
  BY DEF TreeInv, Promoting, Pending
<1>5. IntegrationInv'
  <2>1. integrated = unreported
    BY DEF TypeOK, CommittedImpliesRecorded, IntegrationInv, Artifact
  <2> QED
    BY <2>1 DEF IntegrationInv
<1>6. RollbackInv' /\ AuditInv' /\ CommittedImpliesRecorded' /\ NeverIntegratedTwice' /\
     AllOrNothing'
  BY DEF RollbackInv, AuditInv, CommittedImpliesRecorded, NeverIntegratedTwice, AllOrNothing
<1> QED
  BY <1>1, <1>2, <1>3, <1>4, <1>5, <1>6

\* The refusal of a taken audit id leaves everything as it was.
LEMMA RefuseExistingAuditStep == MergeInv /\ RefuseExistingAudit => MergeInv'
<1> SUFFICES ASSUME MergeInv, RefuseExistingAudit PROVE MergeInv'
  OBVIOUS
<1> USE DEF MergeInv, RefuseExistingAudit, End, DropStaging, Failure, state, temporary, branch, counters
<1>order. Order' = Order
  BY SameOrder
<1>originals. \A x \in Artifact : HadOriginal(x)' <=> HadOriginal(x)
  BY SameOriginals
<1>1. ProgressInv'
  BY <1>order DEF ProgressInv, Promoting, Pending
<1>2. PromotionInv'
  BY <1>order DEF PromotionInv, Promoting, Pending
<1>3. TreeInv'
  BY <1>order DEF TreeInv, Promoting, Pending
<1>4. AllOrNothing'
  BY <1>order, <1>originals DEF TypeOK, ProgressInv, PromotionInv, RollbackInv, TreeInv, AuditInv, IntegrationInv, AllOrNothing, Promoting, Pending
<1>5. TypeOK' /\ RollbackInv' /\ AuditInv' /\ IntegrationInv' /\ CommittedImpliesRecorded' /\
     NeverIntegratedTwice'
  BY DEF TypeOK, RollbackInv, AuditInv, IntegrationInv, CommittedImpliesRecorded,
     NeverIntegratedTwice
<1> QED
  BY <1>1, <1>2, <1>3, <1>4, <1>5

\* Staging touches no final path.
LEMMA PrepareMergeArtifactsStep == MergeInv /\ PrepareMergeArtifacts => MergeInv'
<1> SUFFICES ASSUME MergeInv, PrepareMergeArtifacts PROVE MergeInv'
  OBVIOUS
<1> USE DEF MergeInv, PrepareMergeArtifacts, End, DropStaging, Failure, state, temporary, branch, counters
<1>bundle. withBundle \in BOOLEAN
  BY DEF TypeOK
<1>order. Order' = Order
  BY SameOrder
<1>1. TypeOK'
  BY <1>bundle, <1>order, MergeBoundsAssumption, OrderFacts DEF TypeOK, Promoting, Pending, ProgressInv
<1>2. ProgressInv'
  BY <1>order DEF ProgressInv, Promoting, Pending
<1>3. PromotionInv'
  BY <1>order DEF PromotionInv, Promoting, Pending
<1>4. TreeInv'
  BY <1>order DEF TreeInv, Promoting, Pending
<1>5. AllOrNothing'
  BY <1>order DEF AllOrNothing, Promoting, Pending
<1>6. RollbackInv' /\ AuditInv' /\ IntegrationInv' /\ CommittedImpliesRecorded' /\
     NeverIntegratedTwice'
  BY DEF RollbackInv, AuditInv, IntegrationInv, CommittedImpliesRecorded, NeverIntegratedTwice
<1> QED
  BY <1>1, <1>2, <1>3, <1>4, <1>5, <1>6

\* A failed staging is thrown away.
LEMMA PrepareFailsStep == MergeInv /\ PrepareFails => MergeInv'
<1> SUFFICES ASSUME MergeInv, PrepareFails PROVE MergeInv'
  OBVIOUS
<1> USE DEF MergeInv, PrepareFails, End, DropStaging, Failure, state, temporary, branch, counters
<1>order. Order' = Order
  BY SameOrder
<1>originals. \A x \in Artifact : HadOriginal(x)' <=> HadOriginal(x)
  BY SameOriginals
<1>1. TypeOK'
  BY <1>order, MergeBoundsAssumption DEF TypeOK, Promoting, Pending
<1>2. ProgressInv'
  BY <1>order DEF ProgressInv, Promoting, Pending
<1>3. PromotionInv'
  BY <1>order DEF PromotionInv, Promoting, Pending
<1>4. TreeInv'
  BY <1>order DEF TreeInv, Promoting, Pending
<1>5. AllOrNothing'
  BY <1>order, <1>originals DEF TypeOK, ProgressInv, PromotionInv, RollbackInv, TreeInv, AuditInv, IntegrationInv, AllOrNothing, Promoting, Pending
<1>6. RollbackInv' /\ AuditInv' /\ IntegrationInv' /\ CommittedImpliesRecorded' /\
     NeverIntegratedTwice'
  BY DEF RollbackInv, AuditInv, IntegrationInv, CommittedImpliesRecorded, NeverIntegratedTwice
<1> QED
  BY <1>1, <1>2, <1>3, <1>4, <1>5, <1>6

\* The look at the workspace changes nothing.
LEMMA EnsureCleanWorkspaceStep == MergeInv /\ EnsureCleanWorkspace => MergeInv'
<1> SUFFICES ASSUME MergeInv, EnsureCleanWorkspace PROVE MergeInv'
  OBVIOUS
<1> USE DEF MergeInv, EnsureCleanWorkspace, End, DropStaging, Failure, state, temporary, branch, counters
<1>order. Order' = Order
  BY SameOrder
<1>originals. \A x \in Artifact : HadOriginal(x)' <=> HadOriginal(x)
  BY SameOriginals
<1>1. TypeOK'
  BY <1>order DEF TypeOK, Promoting, Pending
<1>2. ProgressInv'
  BY <1>order DEF ProgressInv, Promoting, Pending
<1>3. PromotionInv'
  BY <1>order DEF PromotionInv, Promoting, Pending
<1>4. TreeInv'
  BY <1>order DEF TreeInv, Promoting, Pending
<1>5. AllOrNothing'
  BY <1>order, <1>originals DEF TypeOK, ProgressInv, PromotionInv, RollbackInv, TreeInv, AuditInv, IntegrationInv, AllOrNothing, Promoting, Pending
<1>6. RollbackInv' /\ AuditInv' /\ IntegrationInv' /\ CommittedImpliesRecorded' /\
     NeverIntegratedTwice'
  BY DEF RollbackInv, AuditInv, IntegrationInv, CommittedImpliesRecorded, NeverIntegratedTwice
<1> QED
  BY <1>1, <1>2, <1>3, <1>4, <1>5, <1>6

\* The patch is applied and the promotions begin.
LEMMA BeginIntegrationStep == MergeInv /\ BeginIntegration => MergeInv'
<1> SUFFICES ASSUME MergeInv, BeginIntegration PROVE MergeInv'
  OBVIOUS
<1> USE DEF MergeInv, BeginIntegration, End, DropStaging, Failure, state, temporary, branch, counters
<1>bundle. withBundle \in BOOLEAN
  BY DEF TypeOK
<1>order. Order' = Order
  BY SameOrder
<1>originals. \A x \in Artifact : HadOriginal(x)' <=> HadOriginal(x)
  BY SameOriginals
<1>1. TypeOK'
  BY <1>order DEF TypeOK, Promoting, Pending
<1>2. ProgressInv'
  BY <1>bundle, <1>order, OrderFacts DEF TypeOK, ProgressInv, Promoting, Pending
<1>3. PromotionInv'
  BY <1>order, <1>originals DEF TypeOK, PromotionInv, Promoting, Pending, ProgressInv
<1>4. TreeInv'
  BY <1>order DEF TreeInv, Promoting, Pending
<1>5. AllOrNothing'
  BY <1>order, <1>originals DEF TypeOK, AllOrNothing, Promoting, Pending, ProgressInv
<1>6. RollbackInv' /\ AuditInv' /\ IntegrationInv' /\ CommittedImpliesRecorded' /\
     NeverIntegratedTwice'
  BY DEF RollbackInv, AuditInv, IntegrationInv, CommittedImpliesRecorded, NeverIntegratedTwice
<1> QED
  BY <1>1, <1>2, <1>3, <1>4, <1>5, <1>6

\* A conflict ends the merge before any promotion.
LEMMA ConflictingIntegrationStep == MergeInv /\ ConflictingIntegration => MergeInv'
<1> SUFFICES ASSUME MergeInv, ConflictingIntegration PROVE MergeInv'
  OBVIOUS
<1> USE DEF MergeInv, ConflictingIntegration, End, DropStaging, Failure, state, temporary, branch, counters
<1>order. Order' = Order
  BY SameOrder
<1>originals. \A x \in Artifact : HadOriginal(x)' <=> HadOriginal(x)
  BY SameOriginals
<1>1. ProgressInv'
  BY <1>order DEF ProgressInv, Promoting, Pending
<1>2. PromotionInv'
  BY <1>order DEF PromotionInv, Promoting, Pending
<1>3. AllOrNothing'
  BY <1>order, <1>originals DEF TypeOK, ProgressInv, PromotionInv, RollbackInv, TreeInv, AuditInv, IntegrationInv, AllOrNothing, Promoting, Pending
<1>4. TypeOK' /\ RollbackInv' /\ TreeInv' /\ AuditInv' /\ IntegrationInv' /\
     CommittedImpliesRecorded' /\ NeverIntegratedTwice'
  BY DEF TypeOK, RollbackInv, TreeInv, AuditInv, IntegrationInv, CommittedImpliesRecorded,
     NeverIntegratedTwice
<1> QED
  BY <1>1, <1>2, <1>3, <1>4

\* The original at hand is set aside.
LEMMA SetAsideStep == MergeInv /\ SetAside => MergeInv'
<1> SUFFICES ASSUME MergeInv, SetAside PROVE MergeInv'
  OBVIOUS
<1> USE DEF MergeInv, SetAside, End, DropStaging, Failure, state, temporary, branch, counters
<1>bundle. withBundle \in BOOLEAN
  BY DEF TypeOK
<1>order. Order' = Order
  BY SameOrder
<1>originals. \A x \in Artifact : HadOriginal(x)' <=> HadOriginal(x)
  BY SameOriginals
<1>1. TypeOK'
  BY <1>bundle, <1>order, MergeBoundsAssumption, OrderFacts DEF TypeOK, Promoting, Pending, ProgressInv
<1>2. ProgressInv'
  BY <1>order DEF ProgressInv, Promoting, Pending
<1>3. PromotionInv'
  BY <1>bundle, <1>order, <1>originals, OrderFacts DEF TypeOK, ProgressInv, PromotionInv, Promoting, Pending
<1>4. TreeInv'
  BY <1>order DEF TreeInv, Promoting, Pending
<1>5. CommittedImpliesRecorded'
  BY <1>order, <1>originals DEF TypeOK, ProgressInv, PromotionInv, IntegrationInv, CommittedImpliesRecorded, Artifact, Promoting, Pending
<1>6. AllOrNothing'
  BY <1>order, <1>originals DEF TypeOK, AllOrNothing, Promoting, Pending, ProgressInv
<1>7. RollbackInv' /\ AuditInv' /\ IntegrationInv' /\ NeverIntegratedTwice'
  BY DEF RollbackInv, AuditInv, IntegrationInv, NeverIntegratedTwice
<1> QED
  BY <1>1, <1>2, <1>3, <1>4, <1>5, <1>6, <1>7

\* One artifact more is promoted.
LEMMA PromoteStep == MergeInv /\ Promote => MergeInv'
<1> SUFFICES ASSUME MergeInv, Promote PROVE MergeInv'
  OBVIOUS
<1> USE DEF MergeInv, Promote, End, DropStaging, Failure, state, temporary, branch, counters, AfterPromotion
<1>bundle. withBundle \in BOOLEAN
  BY DEF TypeOK
<1>order. Order' = Order
  BY SameOrder
<1>originals. \A x \in Artifact : HadOriginal(x)' <=> HadOriginal(x)
  BY SameOriginals
<1>1. TypeOK'
  BY <1>bundle, <1>order, MergeBoundsAssumption, OrderFacts DEF TypeOK, Promoting, Pending, ProgressInv
<1>2. ProgressInv'
  BY <1>order DEF TypeOK, ProgressInv, Promoting, Pending
<1>3. PromotionInv'
  <2> DEFINE a == Order[done + 1]
  <2>1. /\ pc \in Promoting /\ done \in Nat /\ done < Len(Order) /\ done' = done + 1
        /\ pc' \in {"promote", "finalize"} /\ backup' = backup
    BY DEF TypeOK, ProgressInv, Promoting
  <2>2. a \in Artifact /\ \A i \in 1..done : Order[i] # a /\ Order[i] \in Artifact
    BY <1>bundle, <2>1, OrderFacts
  <2>3. final'[a] = "new" /\ \A x \in Artifact \ {a} : final'[x] = final[x]
    BY <2>2 DEF TypeOK
  <2>4. a \in backup <=> HadOriginal(a)
    BY <2>1, <2>2 DEF PromotionInv, Promoting
  <2>5. \A i \in 1..done' : final'[Order[i]] = "new" /\ (Order[i] \in backup <=> HadOriginal(Order[i]))
    <3> SUFFICES ASSUME NEW i \in 1..done'
                 PROVE  final'[Order[i]] = "new" /\ (Order[i] \in backup <=> HadOriginal(Order[i]))
      OBVIOUS
    <3>1. CASE i = done + 1
      BY <3>1, <2>3, <2>4
    <3>2. CASE i \in 1..done
      BY <3>2, <2>1, <2>2, <2>3 DEF PromotionInv
    <3> QED
      BY <3>1, <3>2, <2>1
  <2>6. ASSUME NEW x \in Artifact, \A i \in 1..done' : Order[i] # x
        PROVE  x \notin backup /\ final'[x] = before[x]
    <3>1. x # a /\ \A i \in 1..done : Order[i] # x
      BY <2>1, <2>6
    <3> QED
      BY <3>1, <2>1, <2>3 DEF PromotionInv
  <2>7. \A i \in 1..done' : Order[i] \in Artifact
    BY <2>1, <2>2
  <2> QED
    BY <1>order, <1>originals, <2>1, <2>5, <2>6, <2>7 DEF PromotionInv, Promoting, Pending
<1>4. TreeInv'
  BY <1>order DEF TreeInv, Promoting, Pending
<1>5. AllOrNothing'
  BY <1>order DEF AllOrNothing, Promoting, Pending
<1>6. RollbackInv' /\ AuditInv' /\ IntegrationInv' /\ CommittedImpliesRecorded' /\
     NeverIntegratedTwice'
  BY DEF RollbackInv, AuditInv, IntegrationInv, CommittedImpliesRecorded, NeverIntegratedTwice
<1> QED
  BY <1>1, <1>2, <1>3, <1>4, <1>5, <1>6

\* The rollback begins with the artifact at hand.
LEMMA PromotionFailsStep == MergeInv /\ PromotionFails => MergeInv'
<1> SUFFICES ASSUME MergeInv, PromotionFails PROVE MergeInv'
  OBVIOUS
<1> USE DEF MergeInv, PromotionFails, End, DropStaging, Failure, state, temporary, branch, counters
<1>bundle. withBundle \in BOOLEAN
  BY DEF TypeOK
<1>order. Order' = Order
  BY SameOrder
<1>originals. \A x \in Artifact : HadOriginal(x)' <=> HadOriginal(x)
  BY SameOriginals
<1>1. TypeOK'
  <2>1. auditDir' \in BOOLEAN
    BY DEF TypeOK
  <2>2. done' \in 0..Len(Order)'
    BY <1>bundle, <1>order, OrderFacts DEF TypeOK, ProgressInv, Promoting
  <2>3. faults' \in 0..MaxFaults
    BY MergeBoundsAssumption DEF TypeOK
  <2>4. pc' = "rollback"
    OBVIOUS
  <2> QED
    BY <2>1, <2>2, <2>3, <2>4 DEF TypeOK
<1>2. ProgressInv'
  BY <1>order DEF ProgressInv, Promoting, Pending
<1>3. PromotionInv'
  BY <1>order DEF PromotionInv, Promoting, Pending
<1>4. RollbackInv'
  BY <1>order, <1>originals DEF TypeOK, ProgressInv, PromotionInv, RollbackInv, Promoting, Pending
<1>5. AuditInv'
  BY <1>order DEF TypeOK, AuditInv, Promoting, Pending
<1>6. AllOrNothing'
  BY <1>order DEF AllOrNothing, Promoting, Pending
<1>7. TreeInv' /\ IntegrationInv' /\ CommittedImpliesRecorded' /\ NeverIntegratedTwice'
  BY DEF TreeInv, IntegrationInv, CommittedImpliesRecorded, NeverIntegratedTwice
<1> QED
  BY <1>1, <1>2, <1>3, <1>4, <1>5, <1>6, <1>7

\* The commit comes when every artifact is promoted.
LEMMA FinalizeIntegrationStep == MergeInv /\ FinalizeIntegration => MergeInv'
<1> SUFFICES ASSUME MergeInv, FinalizeIntegration PROVE MergeInv'
  OBVIOUS
<1> USE DEF MergeInv, FinalizeIntegration, End, DropStaging, Failure, state, temporary, branch, counters
<1>bundle. withBundle \in BOOLEAN
  BY DEF TypeOK
<1>order. Order' = Order
  BY SameOrder
<1>originals. \A x \in Artifact : HadOriginal(x)' <=> HadOriginal(x)
  BY SameOriginals
<1>1. TypeOK'
  BY <1>order DEF TypeOK, Promoting, Pending
<1>2. ProgressInv'
  BY <1>order DEF ProgressInv, Promoting, Pending
<1>3. PromotionInv'
  BY <1>order DEF PromotionInv, Promoting, Pending
<1>4. IntegrationInv'
  BY <1>order, <1>originals DEF TypeOK, ProgressInv, PromotionInv, IntegrationInv, Promoting, Pending
<1>5. CommittedImpliesRecorded'
  BY <1>bundle, <1>order, <1>originals, OrderFacts DEF TypeOK, ProgressInv, PromotionInv, IntegrationInv, CommittedImpliesRecorded, Artifact, Promoting, Pending
<1>6. NeverIntegratedTwice'
  BY <1>order, <1>originals DEF TypeOK, IntegrationInv, NeverIntegratedTwice
<1>7. AllOrNothing'
  BY <1>order, <1>originals DEF TypeOK, AllOrNothing, Promoting, Pending, ProgressInv
<1>8. RollbackInv' /\ TreeInv' /\ AuditInv'
  BY DEF RollbackInv, TreeInv, AuditInv
<1> QED
  BY <1>1, <1>2, <1>3, <1>4, <1>5, <1>6, <1>7, <1>8

\* The rollback begins with the last artifact.
LEMMA FinalizeFailsStep == MergeInv /\ FinalizeFails => MergeInv'
<1> SUFFICES ASSUME MergeInv, FinalizeFails PROVE MergeInv'
  OBVIOUS
<1> USE DEF MergeInv, FinalizeFails, End, DropStaging, Failure, state, temporary, branch, counters
<1>bundle. withBundle \in BOOLEAN
  BY DEF TypeOK
<1>order. Order' = Order
  BY SameOrder
<1>originals. \A x \in Artifact : HadOriginal(x)' <=> HadOriginal(x)
  BY SameOriginals
<1>1. TypeOK'
  BY <1>order DEF TypeOK, Promoting, Pending
<1>2. ProgressInv'
  BY <1>order DEF ProgressInv, Promoting, Pending
<1>3. PromotionInv'
  BY <1>order DEF PromotionInv, Promoting, Pending
<1>4. RollbackInv'
  BY <1>order, <1>originals DEF TypeOK, ProgressInv, PromotionInv, RollbackInv, Promoting, Pending
<1>5. AuditInv'
  BY <1>bundle, <1>order, OrderFacts DEF TypeOK, AuditInv, Promoting, Pending, ProgressInv
<1>6. AllOrNothing'
  BY <1>order DEF AllOrNothing, Promoting, Pending
<1>7. TreeInv' /\ IntegrationInv' /\ CommittedImpliesRecorded' /\ NeverIntegratedTwice'
  BY DEF TreeInv, IntegrationInv, CommittedImpliesRecorded, NeverIntegratedTwice
<1> QED
  BY <1>1, <1>2, <1>3, <1>4, <1>5, <1>6, <1>7

\* A commit that is taken for a refusal counts on both sides.
LEMMA FinalizeUnreportedStep == MergeInv /\ FinalizeUnreported => MergeInv'
<1> SUFFICES ASSUME MergeInv, FinalizeUnreported PROVE MergeInv'
  OBVIOUS
<1> USE DEF MergeInv, FinalizeUnreported, End, DropStaging, Failure, state, temporary, branch, counters
<1>bundle. withBundle \in BOOLEAN
  BY DEF TypeOK
<1>order. Order' = Order
  BY SameOrder
<1>originals. \A x \in Artifact : HadOriginal(x)' <=> HadOriginal(x)
  BY SameOriginals
<1>1. TypeOK'
  BY <1>order, MergeBoundsAssumption DEF TypeOK, Promoting, Pending
<1>2. ProgressInv'
  BY <1>order DEF ProgressInv, Promoting, Pending
<1>3. PromotionInv'
  BY <1>order DEF PromotionInv, Promoting, Pending
<1>4. RollbackInv'
  BY <1>order, <1>originals DEF TypeOK, ProgressInv, PromotionInv, RollbackInv, Promoting, Pending
<1>5. AuditInv'
  BY <1>bundle, <1>order, OrderFacts DEF TypeOK, AuditInv, Promoting, Pending, ProgressInv
<1>6. AllOrNothing'
  BY <1>order DEF AllOrNothing, Promoting, Pending
<1>7. IntegrationInv' /\ CommittedImpliesRecorded' /\ NeverIntegratedTwice'
  BY DEF TypeOK, IntegrationInv, CommittedImpliesRecorded, NeverIntegratedTwice
<1>8. TreeInv'
  BY DEF TreeInv
<1> QED
  BY <1>1, <1>2, <1>3, <1>4, <1>5, <1>6, <1>7, <1>8

\* A merge that is done has replaced everything.
LEMMA CleanupStep == MergeInv /\ Cleanup => MergeInv'
<1> SUFFICES ASSUME MergeInv, Cleanup PROVE MergeInv'
  OBVIOUS
<1> USE DEF MergeInv, Cleanup, End, DropStaging, Failure, state, temporary, branch, counters
<1>order. Order' = Order
  BY SameOrder
<1>originals. \A x \in Artifact : HadOriginal(x)' <=> HadOriginal(x)
  BY SameOriginals
<1>1. ProgressInv'
  BY <1>order DEF ProgressInv, Promoting, Pending
<1>2. PromotionInv'
  BY <1>order DEF PromotionInv, Promoting, Pending
<1>3. TreeInv'
  BY <1>order DEF TreeInv, Promoting, Pending
<1>4. AllOrNothing'
  BY <1>order, <1>originals DEF TypeOK, ProgressInv, PromotionInv, RollbackInv, TreeInv, AuditInv, IntegrationInv, AllOrNothing, Promoting, Pending
<1>5. TypeOK' /\ RollbackInv' /\ AuditInv' /\ IntegrationInv' /\ CommittedImpliesRecorded' /\
     NeverIntegratedTwice'
  BY DEF TypeOK, RollbackInv, AuditInv, IntegrationInv, CommittedImpliesRecorded,
     NeverIntegratedTwice
<1> QED
  BY <1>1, <1>2, <1>3, <1>4, <1>5

\* One artifact less is to undo.
LEMMA RollbackStep == MergeInv /\ Rollback => MergeInv'
<1> SUFFICES ASSUME MergeInv, Rollback PROVE MergeInv'
  OBVIOUS
<1> USE DEF MergeInv, Rollback, End, DropStaging, Failure, state, temporary, branch, counters, Restore
<1>bundle. withBundle \in BOOLEAN
  BY DEF TypeOK
<1>order. Order' = Order
  BY SameOrder
<1>originals. \A x \in Artifact : HadOriginal(x)' <=> HadOriginal(x)
  BY SameOriginals
<1>1. TypeOK'
  BY <1>bundle, <1>order, MergeBoundsAssumption, OrderFacts DEF TypeOK, Promoting, Pending, ProgressInv
<1>2. ProgressInv'
  BY <1>order DEF ProgressInv, Promoting, Pending
<1>3. PromotionInv'
  BY <1>order DEF PromotionInv, Promoting, Pending
<1>4. RollbackInv'
  <2> DEFINE a == Order[done]
  <2>1. done \in 1..Len(Order) /\ done' = done - 1 /\ pc = "rollback" /\ pc' = pc /\ before' = before
    BY DEF TypeOK
  <2>2. a \in Artifact /\ backup' = backup \ {a} /\ \A x \in Artifact \ {a} : final'[x] = final[x]
    BY <1>bundle, <2>1, OrderFacts DEF TypeOK
  <2>3. final'[a] = before[a]
    BY <2>1, <2>2 DEF TypeOK, RollbackInv, HadOriginal
  <2> SUFFICES ASSUME NEW x \in Artifact
               PROVE  \/ x \notin backup' /\ final'[x] = before[x]
                      \/ /\ \E i \in 1..done' : Order[i] = x
                         /\ \/ x \in backup' /\ HadOriginal(x)
                            \/ x \notin backup' /\ final'[x] = "new" /\ ~HadOriginal(x)
    BY <1>order, <1>originals, <2>1 DEF RollbackInv
  <2>4. CASE x = a
    BY <2>2, <2>3, <2>4
  <2>5. CASE x # a /\ x \notin backup /\ final[x] = before[x]
    BY <2>2, <2>5
  <2>6. CASE x # a /\ \E i \in 1..done : Order[i] = x
    <3>1. \E i \in 1..done' : Order[i] = x
      BY <2>1, <2>6
    <3> QED
      BY <2>1, <2>2, <2>6, <3>1 DEF RollbackInv
  <2> QED
    BY <2>1, <2>4, <2>5, <2>6 DEF RollbackInv
<1>5. AuditInv'
  <2>1. CASE done' = 0 /\ withBundle
    <3>1. Order[done] = "bundle"
      BY <1>bundle, <2>1, OrderFacts DEF TypeOK
    <3> QED
      BY <2>1, <3>1 DEF AuditInv
  <2>2. CASE ~(done' = 0 /\ withBundle)
    BY <2>2 DEF AuditInv
  <2> QED
    BY <2>1, <2>2
<1>6. CommittedImpliesRecorded'
  BY <1>order, <1>originals DEF TypeOK, ProgressInv, PromotionInv, IntegrationInv, CommittedImpliesRecorded, Artifact, Promoting, Pending
<1>7. AllOrNothing'
  BY <1>order, <1>originals DEF TypeOK, AllOrNothing, Promoting, Pending, ProgressInv
<1>8. TreeInv' /\ IntegrationInv' /\ NeverIntegratedTwice'
  BY DEF TreeInv, IntegrationInv, NeverIntegratedTwice
<1> QED
  BY <1>1, <1>2, <1>3, <1>4, <1>5, <1>6, <1>7, <1>8

\* A rollback that fails is counted.
LEMMA RollbackFailsStep == MergeInv /\ RollbackFails => MergeInv'
<1> SUFFICES ASSUME MergeInv, RollbackFails PROVE MergeInv'
  OBVIOUS
<1> USE DEF MergeInv, RollbackFails, End, DropStaging, Failure, state, temporary, branch, counters
<1>order. Order' = Order
  BY SameOrder
<1>1. TypeOK'
  BY <1>order, MergeBoundsAssumption DEF TypeOK, Promoting, Pending
<1>2. ProgressInv'
  BY <1>order DEF ProgressInv, Promoting, Pending
<1>3. PromotionInv'
  BY <1>order DEF PromotionInv, Promoting, Pending
<1>4. RollbackInv'
  BY <1>order DEF TypeOK, RollbackInv, Promoting, Pending
<1>5. AuditInv'
  BY <1>order DEF TypeOK, AuditInv, Promoting, Pending
<1>6. AllOrNothing'
  BY <1>order DEF AllOrNothing, Promoting, Pending
<1>7. TreeInv' /\ IntegrationInv' /\ CommittedImpliesRecorded' /\ NeverIntegratedTwice'
  BY DEF TreeInv, IntegrationInv, CommittedImpliesRecorded, NeverIntegratedTwice
<1> QED
  BY <1>1, <1>2, <1>3, <1>4, <1>5, <1>6, <1>7

\* A rollback that has undone all has restored every artifact.
LEMMA RolledBackStep == MergeInv /\ RolledBack => MergeInv'
<1> SUFFICES ASSUME MergeInv, RolledBack PROVE MergeInv'
  OBVIOUS
<1> USE DEF MergeInv, RolledBack, End, DropStaging, Failure, state, temporary, branch, counters
<1>order. Order' = Order
  BY SameOrder
<1>1. ProgressInv'
  BY <1>order DEF ProgressInv, Promoting, Pending
<1>2. PromotionInv'
  BY <1>order DEF PromotionInv, Promoting, Pending
<1>3. RollbackInv'
  BY <1>order DEF TypeOK, RollbackInv, Promoting, Pending
<1>4. AllOrNothing'
  BY <1>order DEF AllOrNothing, Promoting, Pending
<1>5. TypeOK' /\ TreeInv' /\ AuditInv' /\ IntegrationInv' /\ CommittedImpliesRecorded' /\
     NeverIntegratedTwice'
  BY DEF TypeOK, TreeInv, AuditInv, IntegrationInv, CommittedImpliesRecorded,
     NeverIntegratedTwice
<1> QED
  BY <1>1, <1>2, <1>3, <1>4, <1>5

\* The refused merge leaves what it found.
LEMMA AbortIntegrationStep == MergeInv /\ AbortIntegration => MergeInv'
<1> SUFFICES ASSUME MergeInv, AbortIntegration PROVE MergeInv'
  OBVIOUS
<1> USE DEF MergeInv, AbortIntegration, End, DropStaging, Failure, state, temporary, branch, counters
<1>order. Order' = Order
  BY SameOrder
<1>originals. \A x \in Artifact : HadOriginal(x)' <=> HadOriginal(x)
  BY SameOriginals
<1>1. ProgressInv'
  BY <1>order DEF ProgressInv, Promoting, Pending
<1>2. PromotionInv'
  BY <1>order DEF PromotionInv, Promoting, Pending
<1>3. AllOrNothing'
  BY <1>order, <1>originals DEF TypeOK, ProgressInv, PromotionInv, RollbackInv, TreeInv, AuditInv, IntegrationInv, AllOrNothing, Promoting, Pending
<1>4. TypeOK' /\ RollbackInv' /\ TreeInv' /\ AuditInv' /\ IntegrationInv' /\
     CommittedImpliesRecorded' /\ NeverIntegratedTwice'
  BY DEF TypeOK, RollbackInv, TreeInv, AuditInv, IntegrationInv, CommittedImpliesRecorded,
     NeverIntegratedTwice
<1> QED
  BY <1>1, <1>2, <1>3, <1>4

\* A failed abort is counted.
LEMMA AbortFailsStep == MergeInv /\ AbortFails => MergeInv'
<1> SUFFICES ASSUME MergeInv, AbortFails PROVE MergeInv'
  OBVIOUS
<1> USE DEF MergeInv, AbortFails, End, DropStaging, Failure, state, temporary, branch, counters, Abandoned
<1>order. Order' = Order
  BY SameOrder
<1>1. TypeOK'
  BY <1>order, MergeBoundsAssumption DEF TypeOK, Promoting, Pending
<1>2. ProgressInv'
  BY <1>order DEF ProgressInv, Promoting, Pending
<1>3. PromotionInv'
  BY <1>order DEF PromotionInv, Promoting, Pending
<1>4. AllOrNothing'
  BY <1>order DEF TypeOK, AllOrNothing, Promoting, Pending
<1>5. RollbackInv' /\ TreeInv' /\ AuditInv' /\ IntegrationInv' /\ CommittedImpliesRecorded' /\
     NeverIntegratedTwice'
  BY DEF RollbackInv, TreeInv, AuditInv, IntegrationInv, CommittedImpliesRecorded,
     NeverIntegratedTwice
<1> QED
  BY <1>1, <1>2, <1>3, <1>4, <1>5

\* A crash leaves the final paths as they are; a commit that was made stays.
LEMMA CrashStep == MergeInv /\ Crash => MergeInv'
<1> SUFFICES ASSUME MergeInv, Crash PROVE MergeInv'
  OBVIOUS
<1> USE DEF MergeInv, Crash, End, DropStaging, Failure, state, temporary, branch, counters, Abandoned
<1>order. Order' = Order
  BY SameOrder
<1>1. TypeOK'
  BY <1>order, MergeBoundsAssumption DEF TypeOK, Promoting, Pending
<1>2. ProgressInv'
  BY <1>order DEF ProgressInv, Promoting, Pending
<1>3. PromotionInv'
  BY <1>order DEF PromotionInv, Promoting, Pending
<1>4. RollbackInv' /\ TreeInv' /\ AuditInv' /\ IntegrationInv' /\ CommittedImpliesRecorded' /\
     NeverIntegratedTwice' /\ AllOrNothing'
  BY DEF RollbackInv, TreeInv, AuditInv, IntegrationInv, CommittedImpliesRecorded,
     NeverIntegratedTwice, AllOrNothing
<1> QED
  BY <1>1, <1>2, <1>3, <1>4

\* Editing the workspace touches no artifact.
LEMMA EditWorkspaceStep == MergeInv /\ EditWorkspace => MergeInv'
<1> SUFFICES ASSUME MergeInv, EditWorkspace PROVE MergeInv'
  OBVIOUS
<1> USE DEF MergeInv, EditWorkspace, End, DropStaging, Failure, state, temporary, branch, counters
<1>order. Order' = Order
  BY SameOrder
<1>1. TypeOK'
  BY <1>order DEF TypeOK, Promoting, Pending
<1>2. ProgressInv'
  BY <1>order DEF ProgressInv, Promoting, Pending
<1>3. PromotionInv'
  BY <1>order DEF PromotionInv, Promoting, Pending
<1>4. AllOrNothing'
  BY <1>order DEF AllOrNothing, Promoting, Pending
<1>5. RollbackInv' /\ TreeInv' /\ AuditInv' /\ IntegrationInv' /\ CommittedImpliesRecorded' /\
     NeverIntegratedTwice'
  BY DEF RollbackInv, TreeInv, AuditInv, IntegrationInv, CommittedImpliesRecorded,
     NeverIntegratedTwice
<1> QED
  BY <1>1, <1>2, <1>3, <1>4, <1>5

-----------------------------------------------------------------------------

\* The invariant of a merge, over every attempt, failure and crash.
LEMMA MergeInvariance == Spec => []MergeInv
<1>1. MergeInv /\ [Next]_vars => MergeInv'
  <2> SUFFICES ASSUME MergeInv, [Next]_vars PROVE MergeInv'
    OBVIOUS
  <2>1. CASE Step
    BY <2>1, RefuseExistingAuditStep, PrepareMergeArtifactsStep, EnsureCleanWorkspaceStep,
       BeginIntegrationStep, ConflictingIntegrationStep, SetAsideStep, PromoteStep,
       FinalizeIntegrationStep, FinalizeFailsStep, CleanupStep, RollbackStep,
       RolledBackStep, AbortIntegrationStep DEF Step
  <2>2. CASE Fault
    BY <2>2, PrepareFailsStep, PromotionFailsStep, FinalizeUnreportedStep,
       RollbackFailsStep, AbortFailsStep, CrashStep DEF Fault
  <2>3. CASE BeginMerge \/ EditWorkspace
    BY <2>3, BeginMergeStep, EditWorkspaceStep
  <2>4. CASE UNCHANGED vars
    <3>1. Order' = Order /\ \A a \in Artifact : HadOriginal(a)' <=> HadOriginal(a)
      BY <2>4, SameOrder, SameOriginals DEF vars
    <3>2. TypeOK' /\ ProgressInv' /\ PromotionInv' /\ RollbackInv'
      <4>1. TypeOK' /\ ProgressInv'
        BY <2>4, <3>1 DEF vars, state, temporary, branch, counters, MergeInv, TypeOK, ProgressInv
      <4>2. PromotionInv'
        BY <2>4, <3>1 DEF vars, state, temporary, branch, counters, MergeInv, PromotionInv, HadOriginal
      <4>3. RollbackInv'
        BY <2>4, <3>1 DEF vars, state, temporary, branch, counters, MergeInv, RollbackInv
      <4> QED
        BY <4>1, <4>2, <4>3
    <3>3. TreeInv' /\ AuditInv' /\ IntegrationInv'
      BY <2>4, <3>1 DEF vars, state, temporary, branch, counters, MergeInv, TreeInv, AuditInv, IntegrationInv
    <3>4. CommittedImpliesRecorded' /\ NeverIntegratedTwice' /\ AllOrNothing'
      BY <2>4, <3>1 DEF vars, state, temporary, branch, counters, MergeInv, CommittedImpliesRecorded,
         NeverIntegratedTwice, AllOrNothing
    <3> QED
      BY <3>2, <3>3, <3>4 DEF MergeInv
  <2> QED
    BY <2>1, <2>2, <2>3, <2>4 DEF Next
<1> QED
  BY <1>1, MergeInvInit, PTL DEF Spec

\* Every variable of a merge keeps its type.
THEOREM MergeTypeCorrect == Spec => []TypeOK
BY MergeInvariance, PTL DEF MergeInv

\* Work on the canonical branch is recorded, released and audited, for any
\* number of attempts, failing file operations and crashes, unless git itself
\* reported its commit as failed.
THEOREM MergeRecorded == Spec => []CommittedImpliesRecorded
BY MergeInvariance, PTL DEF MergeInv

\* However often the merge of a submission is tried, it is committed once, not
\* counting commits git reported as failed.
THEOREM MergedOnce == Spec => []NeverIntegratedTwice
BY MergeInvariance, PTL DEF MergeInv

\* A refused merge leaves everything as it found it, a successful one replaces
\* everything.
THEOREM MergeAtomic == Spec => []AllOrNothing
BY MergeInvariance, PTL DEF MergeInv
=============================================================================
