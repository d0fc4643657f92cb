------------------------------ MODULE Multorum ------------------------------
(***************************************************************************)
(* The orchestration core: perspectives, candidate groups, workers, their  *)
(* worktrees, the canonical branch and the orchestrator exclusion set.     *)
(*                                                                         *)
(* Every action is one whole command of the orchestrator, of a worker or   *)
(* of git, run from its load_state to its last write.  Commands that fail  *)
(* leave the state alone and are not steps, except where a failing command *)
(* leaves something behind (RejectedReport).                               *)
(*                                                                         *)
(* Data abstraction:                                                       *)
(*  - a canonical commit is its position in the sequence canonical; the    *)
(*    entry at that position is the set of files the commit changed;       *)
(*  - a worker revision is the canonical commit it descends from and the   *)
(*    sequence of file sets its own commits changed; two revisions are the *)
(*    same commit hash exactly when they are the same value;               *)
(*  - a mailbox is the number of unacknowledged inbox bundles of each kind *)
(*    and the head named by the latest report of the outbox: nothing else  *)
(*    of a bundle is ever read back by a command;                          *)
(*  - the files a change lists are not the files it changes: Listings.     *)
(***************************************************************************)
EXTENDS Naturals, Sequences, FiniteSets

CONSTANTS
  Worker,           \* worker ids
  Perspective,      \* perspective names
  File,             \* repository files
  Rulebook,         \* versions of the working-tree rulebook
  Compiled,         \* Compiled[r][p]: the boundary of p under r, or None
  InitialRulebook,  \* the version on disk when the project starts
  RulebookEdit,     \* pairs of versions the orchestrator edits between
  AgentStates,      \* states in which the agent of a worker issues commands
  EditSet,          \* file sets one git commit may change
  Rename,           \* pairs <<x, y>>: git takes x gone and y new for a move
  Quoted,           \* files whose names git prints in quotes
  MaxCommits,       \* bound: length of canonical
  MaxEdits,         \* bound: commits a worker makes in one worktree
  MaxUnacked,       \* bound: unacknowledged inbox bundles of any two kinds
  None

Live == {"ACTIVE", "BLOCKED", "COMMITTED"}

Final == {"MERGED", "DISCARDED"}

WorkerState == Live \cup Final

Kind == {"task", "hint", "resolve", "revise"}

Boundary == [read : SUBSET File, write : SUBSET File]

\* A commit of a worker's branch: where it starts and what was changed since.
Revision == [base : Nat, edits : Seq(SUBSET File)]

ASSUME CompiledAssumption ==
  /\ Compiled \in [Rulebook -> [Perspective -> Boundary \cup {None}]]
  /\ None \notin Boundary
  /\ InitialRulebook \in Rulebook
  /\ RulebookEdit \subseteq Rulebook \X Rulebook

ASSUME AgentAssumption ==
  /\ AgentStates \subseteq WorkerState
  /\ EditSet \subseteq SUBSET File
  /\ None \notin Perspective
  /\ None \notin Revision

ASSUME GitAssumption == Rename \subseteq File \X File /\ Quoted \subseteq File

ASSUME BoundsAssumption ==
  MaxCommits \in Nat /\ MaxEdits \in Nat /\ MaxUnacked \in Nat

VARIABLES
  rulebook,   \* the rulebook version in the canonical working tree
  committed,  \* the rulebook version of the canonical HEAD
  canonical,  \* the canonical branch: the files each commit changed
  group,      \* group/<Perspective>.toml: base commit and boundary
  state,      \* worker/<worker>.toml: lifecycle state, "ABSENT" if no file
  member,     \* worker/<worker>.toml: perspective, None if no file
  submitted,  \* worker/<worker>.toml: submitted_head_commit
  worktree,   \* HEAD of .multorum/tr/<worker>, None if there is no worktree
  reported,   \* head_commit of the latest report in the worker's outbox
  inbox,      \* unacknowledged bundles of each kind in the worker's inbox
  exclusion   \* exclusion-set.txt

vars == <<rulebook, committed, canonical, group, state, member, submitted, worktree,
          reported, inbox, exclusion>>

-----------------------------------------------------------------------------
(* Revisions. *)

CurrentHead == Len(canonical)

Checkout(b) == [base |-> b, edits |-> << >>]

EditedFiles(h) == UNION {h.edits[i] : i \in 1..Len(h.edits)}

\* The files of the head commit alone: what a cherry-pick of it applies.
HeadFiles(h) == IF h.edits = << >> THEN {} ELSE h.edits[Len(h.edits)]

(***************************************************************************)
(* git diff --name-only.  Rename detection is on by default, and of a file *)
(* that was moved it prints the new name alone.  Whether two files are     *)
(* similar enough is a matter of their contents, so a change has several   *)
(* possible listings: any moves between its files, each file in one.       *)
(***************************************************************************)
MovesIn(S) ==
  {M \in SUBSET Rename :
     /\ \A m \in M : m[1] \in S /\ m[2] \in S
     /\ \A m, n \in M : m[1] # n[2] /\ (m # n => m[1] # n[1] /\ m[2] # n[2])}

Listings(S) == {S \ {m[1] : m \in M} : M \in MovesIn(S)}

\* The files that differ between canonical commit b and revision h.
ChangedFiles(b, h) ==
  EditedFiles(h) \cup UNION {canonical[i] : i \in (h.base + 1)..b}

\* The revisions a worker can name in its own worktree.
Ancestors(h) == {[h EXCEPT !.edits = SubSeq(@, 1, i)] : i \in 0..Len(h.edits)}

-----------------------------------------------------------------------------
(* Groups. *)

NoGroup == [base |-> 0, read |-> {}, write |-> {}]

EmptyInbox == [k \in Kind |-> 0]

LiveWorkers(p) == {w \in Worker : member[w] = p /\ state[w] \in Live}

HasLiveWorkers(p) == LiveWorkers(p) # {}

Owned(g) == g.read \cup g.write

\* The mutual-exclusion test of two boundaries.
BoundaryOverlap(a, b) ==
  \/ a.write \cap b.write # {}
  \/ a.write \cap b.read # {}
  \/ a.read \cap b.write # {}

\* Slip: the exclusion set forgets what the groups only read.
UnionOfWriteSets(p) == group[p].write

Contribution(p) == Owned(group[p])

CollectExclusionSet ==
  UNION {Contribution(p) : p \in {q \in Perspective : HasLiveWorkers(q)}}

\* The group records once w's entry is dropped: a group without workers goes.
GcEmptyGroups(w) ==
  [p \in Perspective |->
     IF \E v \in Worker \ {w} : member[v] = p THEN group[p] ELSE NoGroup]

\* Slip: the group file of a finished group keeps its boundary.
KeepBoundary(g) == g

ClearBoundary(g) == [g EXCEPT !.read = {}, !.write = {}]

-----------------------------------------------------------------------------
(* Forwarding a live group to the current HEAD and rulebook. *)

Declared(p) == Compiled[rulebook][p] # None

\* The group record a fresh or forwarded group of p gets.
Target(p) ==
  [base  |-> CurrentHead,
   read  |-> Compiled[rulebook][p].read,
   write |-> Compiled[rulebook][p].write]

\* forward_changes_for_group: the base commit or the boundary drifted.
Drifted(p) == group[p] # Target(p)

Checkpoint(w) == IF state[w] = "BLOCKED" THEN reported[w] ELSE submitted[w]

AtCheckpoint(w) ==
  /\ state[w] \in {"BLOCKED", "COMMITTED"}
  /\ Checkpoint(w) # None
  /\ worktree[w] = Checkpoint(w)

BoundaryExpands(p) ==
  /\ group[p].read \subseteq Compiled[rulebook][p].read
  /\ group[p].write \subseteq Compiled[rulebook][p].write

\* prove_forward_perspective succeeds and finds something to move.
Forwardable(p) ==
  /\ HasLiveWorkers(p)
  /\ \A w \in LiveWorkers(p) : AtCheckpoint(w)
  /\ Declared(p)
  /\ Drifted(p)
  /\ BoundaryExpands(p)

\* Slip: blocked siblings are left behind on the old base.
MovedCommitted(p) ==
  IF group[p].base = CurrentHead THEN {}
  ELSE {w \in LiveWorkers(p) : state[w] = "COMMITTED"}

MovedWorkers(p) ==
  IF group[p].base = CurrentHead THEN {} ELSE LiveWorkers(p)

Rebase(h) == [h EXCEPT !.base = CurrentHead]

ForwardedWorktrees(p) ==
  [w \in Worker |->
     IF w \in MovedWorkers(p) THEN Rebase(worktree[w]) ELSE worktree[w]]

ForwardedSubmissions(p) ==
  [w \in Worker |->
     IF w \in MovedWorkers(p) /\ state[w] = "COMMITTED"
     THEN Rebase(worktree[w]) ELSE submitted[w]]

\* Slip: the group record is stored without the projection of it.
ForwardKeepingExclusion(p) ==
  /\ Forwardable(p)
  /\ group' = [group EXCEPT ![p] = Target(p)]
  /\ worktree' = ForwardedWorktrees(p)
  /\ submitted' = ForwardedSubmissions(p)
  /\ UNCHANGED <<rulebook, committed, canonical, state, member, reported,
                 exclusion>>

\* execute_proven_forward.
Forward(p) ==
  /\ Forwardable(p)
  /\ group' = [group EXCEPT ![p] = Target(p)]
  /\ worktree' = ForwardedWorktrees(p)
  /\ submitted' = ForwardedSubmissions(p)
  /\ UNCHANGED <<rulebook, committed, canonical, state, member, reported>>
  /\ exclusion' = CollectExclusionSet'

-----------------------------------------------------------------------------
(* Orchestrator commands. *)

\* Slip: a new group is compared with the perspectives of the rulebook
\* instead of the boundaries the live groups hold.
ValidPerspectives(p) ==
  \A q \in Perspective \ {p} :
    HasLiveWorkers(q) /\ Declared(q) => ~BoundaryOverlap(Target(p), Target(q))

\* validate_create_boundary: a new group conflicts with no live group.
ValidBoundary(p) ==
  \A q \in Perspective \ {p} :
    HasLiveWorkers(q) => ~BoundaryOverlap(Target(p), group[q])

\* The common end of create_worker: w joins p's group, whose record is then
\* Target(p) in every case; trees and heads are the worktrees and submitted
\* heads of the other workers.  A finalized entry of w is evicted first.
Enter(p, w, trees, heads) ==
  /\ state[w] \notin Live
  /\ state' = [state EXCEPT ![w] = "ACTIVE"]
  /\ member' = [member EXCEPT ![w] = p]
  /\ group' = [GcEmptyGroups(w) EXCEPT ![p] = Target(p)]
  /\ worktree' = [trees EXCEPT ![w] = Checkout(CurrentHead)]
  /\ submitted' = [heads EXCEPT ![w] = None]
  /\ reported' = [reported EXCEPT ![w] = None]
  /\ inbox' = [inbox EXCEPT ![w] = [EmptyInbox EXCEPT !["task"] = 1]]
  /\ exclusion' = CollectExclusionSet'
  /\ UNCHANGED <<rulebook, committed, canonical>>

CreateForming(p, w) ==
  /\ Declared(p)
  /\ ~HasLiveWorkers(p)
  /\ ValidBoundary(p)
  /\ Enter(p, w, worktree, submitted)

CreateJoining(p, w) ==
  /\ Declared(p)
  /\ HasLiveWorkers(p)
  /\ ~Drifted(p)
  /\ Enter(p, w, worktree, submitted)

CreateAutoForwarding(p, w) ==
  /\ Forwardable(p)
  /\ Enter(p, w, ForwardedWorktrees(p), ForwardedSubmissions(p))

ForwardPerspective(p) == Forward(p) /\ UNCHANGED inbox

\* publish_worker_inbox, after its state check.
Publish(w, k) ==
  /\ \A j \in Kind \ {k} : inbox[w][j] + inbox[w][k] < MaxUnacked
  /\ inbox' = [inbox EXCEPT ![w][k] = @ + 1]

ResolveWorker(w) ==
  /\ state[w] = "BLOCKED"
  /\ Declared(member[w])
  /\ Publish(w, "resolve")
  /\ UNCHANGED <<rulebook, committed, canonical, group, state, member, submitted,
                 worktree, reported, exclusion>>

ResolveAutoForwarding(w) ==
  /\ state[w] = "BLOCKED"
  /\ Publish(w, "resolve")
  /\ Forward(member[w])

HintWorker(w) ==
  /\ state[w] = "ACTIVE"
  /\ Publish(w, "hint")
  /\ UNCHANGED <<rulebook, committed, canonical, group, state, member, submitted,
                 worktree, reported, exclusion>>

ReviseWorker(w) ==
  /\ state[w] = "COMMITTED"
  /\ Publish(w, "revise")
  /\ UNCHANGED <<rulebook, committed, canonical, group, state, member, submitted,
                 worktree, reported, exclusion>>

DiscardWorker(w) ==
  /\ state[w] \in Live
  /\ state' = [state EXCEPT ![w] = "DISCARDED"]
  /\ submitted' = [submitted EXCEPT ![w] = None]
  /\ group' = IF LiveWorkers(member[w]) = {w}
              THEN [group EXCEPT ![member[w]] = ClearBoundary(@)]
              ELSE group
  /\ UNCHANGED <<rulebook, committed, canonical, member, worktree, reported,
                 inbox>>
  /\ exclusion' = CollectExclusionSet'

DeleteWorker(w) ==
  /\ state[w] \in Final
  /\ state' = [state EXCEPT ![w] = "ABSENT"]
  /\ member' = [member EXCEPT ![w] = None]
  /\ group' = GcEmptyGroups(w)
  /\ submitted' = [submitted EXCEPT ![w] = None]
  /\ worktree' = [worktree EXCEPT ![w] = None]
  /\ reported' = [reported EXCEPT ![w] = None]
  /\ inbox' = [inbox EXCEPT ![w] = EmptyInbox]
  /\ UNCHANGED <<rulebook, committed, canonical>>
  /\ exclusion' = CollectExclusionSet'

\* Slip: the siblings of the merged worker stay live.
OnlyWinnerFinalized(p, w) == [state EXCEPT ![w] = "MERGED"]

\* The lifecycle states once w of group p is merged: siblings are discarded.
GroupFinalized(p, w) ==
  [v \in Worker |-> IF v = w THEN "MERGED"
                    ELSE IF v \in LiveWorkers(p) THEN "DISCARDED"
                    ELSE state[v]]

\* Slip: the changed files are not compared with the write set.
NoScopeCheck(p, h) == TRUE

\* The listed names are looked up in the write set; a quoted name is no path.
InScope(p, h) ==
  \E L \in Listings(ChangedFiles(group[p].base, h)) :
    L \subseteq group[p].write \ Quoted

\* Slip: the pre-commit hook lets every commit through.
UnguardedHook(S, X) == TRUE

\* The hook looks every listed name up in exclusion-set.txt, which holds X.
HookAccepts(S, X) == \E L \in Listings(S) : (L \ Quoted) \cap X = {}

\* merge_worker: verify the submission, project the finalized group, apply
\* the head commit and commit it through the canonical pre-commit hook.  An
\* uncommitted edit of the rulebook makes the workspace dirty.
MergeWorker(w) ==
  LET p == member[w]
      h == submitted[w]
  IN  /\ state[w] = "COMMITTED"
      /\ h # None
      /\ worktree[w] = h
      /\ InScope(p, h)
      /\ rulebook = committed
      /\ Len(canonical) < MaxCommits
      /\ canonical' = Append(canonical, HeadFiles(h))
      /\ state' = GroupFinalized(p, w)
      /\ submitted' = [v \in Worker |->
                         IF v \in LiveWorkers(p) \ {w} THEN None
                         ELSE submitted[v]]
      /\ group' = [group EXCEPT ![p] = ClearBoundary(@)]
      /\ UNCHANGED <<rulebook, committed, member, worktree, reported, inbox>>
      /\ exclusion' = CollectExclusionSet'
      /\ HookAccepts(HeadFiles(h), exclusion')

-----------------------------------------------------------------------------
(* Worker commands, issued by its agent from the worktree. *)

Agent(w) == state[w] \in AgentStates

Reactivates(k) == k # "hint"

\* Slip: a bundle that has its acknowledgement is acknowledged again.
AckInboxAgain(w, k) ==
  /\ Agent(w)
  /\ inbox' = [inbox EXCEPT ![w][k] = @ - 1]
  /\ state' = [state EXCEPT ![w] = IF Reactivates(k) THEN "ACTIVE" ELSE @]
  /\ UNCHANGED <<rulebook, committed, canonical, group, member, submitted,
                 worktree, reported, exclusion>>

\* ack_inbox and update_state_after_ack: no look at the current state.
AckInbox(w, k) ==
  /\ Agent(w)
  /\ inbox[w][k] > 0
  /\ inbox' = [inbox EXCEPT ![w][k] = @ - 1]
  /\ state' = [state EXCEPT ![w] = IF Reactivates(k) THEN "ACTIVE" ELSE @]
  /\ UNCHANGED <<rulebook, committed, canonical, group, member, submitted, worktree,
                 reported, exclusion>>

\* A report may name any revision of the worktree, or none.
ReportedHeads(w) == Ancestors(worktree[w]) \cup {None}

SendReport(w, h) ==
  /\ Agent(w)
  /\ state[w] = "ACTIVE"
  /\ reported' = [reported EXCEPT ![w] = h]
  /\ state' = [state EXCEPT ![w] = "BLOCKED"]
  /\ submitted' = [submitted EXCEPT ![w] = None]
  /\ UNCHANGED <<rulebook, committed, canonical, group, member, worktree, inbox,
                 exclusion>>

\* The bundle is published before the state is checked, and stays.
RejectedReport(w, h) ==
  /\ Agent(w)
  /\ state[w] # "ACTIVE"
  /\ reported' = [reported EXCEPT ![w] = h]
  /\ UNCHANGED <<rulebook, committed, canonical, group, state, member, submitted,
                 worktree, inbox, exclusion>>

SendCommit(w, h) ==
  /\ Agent(w)
  /\ state[w] = "ACTIVE"
  /\ state' = [state EXCEPT ![w] = "COMMITTED"]
  /\ submitted' = [submitted EXCEPT ![w] = h]
  /\ UNCHANGED <<rulebook, committed, canonical, group, member, worktree, reported,
                 inbox, exclusion>>

\* git commit in the worktree: the hook's write-set guard can be bypassed
\* with --no-verify, so any file may be changed.
CommitInWorktree(w, S) ==
  /\ Agent(w)
  /\ Len(worktree[w].edits) < MaxEdits
  /\ worktree' = [worktree EXCEPT ![w].edits = Append(@, S)]
  /\ UNCHANGED <<rulebook, committed, canonical, group, state, member, submitted,
                 reported, inbox, exclusion>>

-----------------------------------------------------------------------------
(* The canonical workspace outside Multorum. *)

EditRulebook(r) ==
  /\ <<rulebook, r>> \in RulebookEdit
  /\ rulebook' = r
  /\ UNCHANGED <<committed, canonical, group, state, member, submitted, worktree,
                 reported, inbox, exclusion>>

\* git commit in the canonical workspace, through the pre-commit hook.
CommitCanonical(S) ==
  /\ Len(canonical) < MaxCommits
  /\ HookAccepts(S, exclusion)
  /\ canonical' = Append(canonical, S)
  /\ UNCHANGED <<rulebook, committed, group, state, member, submitted, worktree,
                 reported, inbox, exclusion>>

\* The same for the edited rulebook, a file no boundary holds.
CommitRulebook ==
  /\ rulebook # committed
  /\ Len(canonical) < MaxCommits
  /\ HookAccepts({}, exclusion)
  /\ committed' = rulebook
  /\ canonical' = Append(canonical, {})
  /\ UNCHANGED <<rulebook, group, state, member, submitted, worktree,
                 reported, inbox, exclusion>>

-----------------------------------------------------------------------------

Init ==
  /\ rulebook = InitialRulebook
  /\ committed = InitialRulebook
  /\ canonical = << >>
  /\ group = [p \in Perspective |-> NoGroup]
  /\ state = [w \in Worker |-> "ABSENT"]
  /\ member = [w \in Worker |-> None]
  /\ submitted = [w \in Worker |-> None]
  /\ worktree = [w \in Worker |-> None]
  /\ reported = [w \in Worker |-> None]
  /\ inbox = [w \in Worker |-> EmptyInbox]
  /\ exclusion = {}

OrchestratorStep ==
  \/ \E p \in Perspective, w \in Worker :
       \/ CreateForming(p, w)
       \/ CreateJoining(p, w)
       \/ CreateAutoForwarding(p, w)
  \/ \E p \in Perspective : ForwardPerspective(p)
  \/ \E w \in Worker :
       \/ ResolveWorker(w)
       \/ ResolveAutoForwarding(w)
       \/ HintWorker(w)
       \/ ReviseWorker(w)
       \/ DiscardWorker(w)
       \/ DeleteWorker(w)
       \/ MergeWorker(w)

AgentStep ==
  \E w \in Worker :
    \/ \E k \in Kind : AckInbox(w, k)
    \/ Agent(w) /\ \E h \in ReportedHeads(w) :
                      SendReport(w, h) \/ RejectedReport(w, h)
    \/ Agent(w) /\ \E h \in Ancestors(worktree[w]) : SendCommit(w, h)
    \/ \E S \in EditSet : CommitInWorktree(w, S)

CanonicalStep ==
  \/ \E r \in Rulebook : EditRulebook(r)
  \/ CommitRulebook
  \/ \E S \in EditSet : CommitCanonical(S)

Next == OrchestratorStep \/ AgentStep \/ CanonicalStep

Spec == Init /\ [][Next]_vars

-----------------------------------------------------------------------------
(***************************************************************************)
(* Three disciplines the code relies on and does not enforce.              *)
(***************************************************************************)

\* A worker's agent issues no command once the worker is finalized.
AgentsStopAtFinal == AgentStates \subseteq Live

\* When a perspective grows from one rulebook version to another, the files
\* it gains are ones no other perspective uses in a conflicting way.
PrivateGrowth ==
  \A r, s, t \in Rulebook, p, q \in Perspective :
    LET old == Compiled[r][p]
        new == Compiled[s][p]
        other == Compiled[t][q]
    IN  p # q /\ None \notin {old, new, other}
        /\ old.read \subseteq new.read /\ old.write \subseteq new.write
          => ~BoundaryOverlap([read |-> new.read \ old.read,
                               write |-> new.write \ old.write], other)

\* A file some perspective holds is moved only to names it holds as well, none
\* is moved from outside into a write set, and names are printed as they are.
MovesStayInside ==
  \A r \in Rulebook, p \in Perspective :
    LET held == Compiled[r][p]
    IN  held # None =>
          /\ Owned(held) \cap Quoted = {}
          /\ \A m \in Rename : /\ m[1] \in Owned(held) => m[2] \in Owned(held)
                               /\ m[2] \in held.write => m[1] \in held.write

-----------------------------------------------------------------------------
(* Type invariant. *)

TypeOK ==
  /\ rulebook \in Rulebook
  /\ committed \in Rulebook
  /\ canonical \in Seq(SUBSET File)
  /\ group \in [Perspective ->
                  [base : Nat, read : SUBSET File, write : SUBSET File]]
  /\ state \in [Worker -> WorkerState \cup {"ABSENT"}]
  /\ member \in [Worker -> Perspective \cup {None}]
  /\ submitted \in [Worker -> Revision \cup {None}]
  /\ worktree \in [Worker -> Revision \cup {None}]
  /\ reported \in [Worker -> Revision \cup {None}]
  /\ inbox \in [Worker -> [Kind -> Nat]]
  /\ exclusion \in SUBSET File
  /\ \A w \in Worker : state[w] # "ABSENT" =>
       member[w] # None /\ worktree[w] # None

(***************************************************************************)
(* Safety.                                                                 *)
(***************************************************************************)

\* The projection the pre-commit hook reads is exact after every command of
\* either side, also after those that never rewrite exclusion-set.txt.
ExclusionMatches == exclusion = CollectExclusionSet

\* A group without live workers owns no file, so that a worker entry that
\* becomes live again by itself brings no boundary back with it.
DeadGroupsOwnNothing ==
  \A p \in Perspective : ~HasLiveWorkers(p) => Owned(group[p]) = {}

\* The conflict-free invariant: no two live groups own boundaries of which
\* one writes a file the other reads or writes.
ConflictFree ==
  \A p, q \in Perspective :
    p # q /\ HasLiveWorkers(p) /\ HasLiveWorkers(q) =>
      ~BoundaryOverlap(group[p], group[q])

\* No canonical commit since the base of a live group changed a file of its
\* boundary: what its workers read, and what they write to, stays as it was.
StableBoundary ==
  \A p \in Perspective : HasLiveWorkers(p) =>
    \A i \in (group[p].base + 1)..CurrentHead :
      canonical[i] \cap Owned(group[p]) = {}

\* The worktrees of a live group descend from the base the group is pinned
\* to, through joins, reuse of ids, forwards and merges of other groups.
SiblingsShareBase ==
  \A w \in Worker : state[w] \in Live =>
    worktree[w].base = group[member[w]].base

\* Only one worker of a candidate group is merged: two merged workers of a
\* perspective come from groups pinned to different commits.
OneMergePerGroup ==
  \A v, w \in Worker :
    v # w /\ state[v] = "MERGED" /\ state[w] = "MERGED" /\ member[v] = member[w]
      => worktree[v].base # worktree[w].base

Merges(w) == state[w] # "MERGED" /\ state'[w] = "MERGED"

\* A merge never meets a conflicting canonical change: no commit since the
\* base of the merged worker touched a file the worker changed.
MergeNeverConflicts ==
  [][\A w \in Worker : Merges(w) =>
       \A i \in (worktree[w].base + 1)..CurrentHead :
         canonical[i] \cap EditedFiles(worktree[w]) = {}]_vars

AvoidsLiveGroups ==
  canonical' # canonical =>
    \A p \in Perspective : HasLiveWorkers(p)' =>
      canonical'[CurrentHead'] \cap Owned(group[p])' = {}

\* No step, a merge included, puts a commit on the canonical branch that
\* changes a file in the boundary of a group that is live after the step.
CanonicalAvoidsLiveGroups == [][AvoidsLiveGroups]_vars

\* What a group holds: its boundary for as long as one of its workers lives.
Leases ==
  [p \in Perspective |->
     IF HasLiveWorkers(p)
     THEN [read |-> group[p].read, write |-> group[p].write]
     ELSE [read |-> {}, write |-> {}]]

Lease == INSTANCE OwnershipLease
           WITH Holder <- Perspective, lease <- Leases, branch <- canonical

\* The orchestrator implements the readers-writer lease: creation, joining and
\* forwarding claim, the end of the last worker releases, a merge publishes.
ImplementsLease == Lease!LeaseSpec

=============================================================================
