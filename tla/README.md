# Multorum: TLA+ verification project

Multorum coordinates several coding agents that work on one repository. A
*rulebook* names *perspectives*, each with a read set and a write set of files.
The orchestrator creates *workers* for a perspective; every worker gets its own
git worktree, and the workers of one perspective form a *candidate group* with
a common base commit and boundary. Workers report, submit commits and
acknowledge messages; the orchestrator resolves, forwards, discards and merges.
Nothing runs in the background: every operation is one short-lived command (or
one MCP call) that loads files, decides, and writes files and git objects.

Paths below are relative to `src/` of the repository tree. Every
definition of a model is tied to the lines it translates in `PROJECT.json`
(`map`).

## 1. Inventory

| Component | State | Operations | Talks to |
| --- | --- | --- | --- |
| Orchestrator service (`src/runtime/orchestrator.rs`) | none of its own; works on a snapshot it loads | create, perspective validate and forward, resolve, hint, revise, discard, delete, merge, list and acknowledge | state store, mailbox storage, git, rulebook |
| Worker service (`src/runtime/worker.rs`) | none of its own | contract, read inbox/outbox, `ack_inbox`, `send_report`, `send_commit`, status | state store, mailbox storage, git |
| Lifecycle and mailbox policy (`src/runtime/state.rs`, `mailbox.rs`) | - | `is_live`, `can_submit`, `can_forward_perspective`, the three transition tables of `MessageKind` | used by both services |
| State store (`src/runtime/storage.rs`) | `group/<Perspective>.toml`, `worker/<worker>.toml`, `exclusion-set.txt` | `load_state`, `store_state`, `rewrite_exclusion_set`, `initialize_rulebook` | both services, pre-commit hook |
| Merge transaction (`storage.rs`, `merge_worker`) | staged files, backups, audit entries | prepare, promote, roll back, clean up; checks | state store, git |
| Mailbox storage (`storage.rs`, `src/bundle/`) | `inbox/` and `outbox/` of every worktree: numbered bundles, acknowledgement files | publish, list, acknowledge | both services |
| Git backend (`src/vcs/git.rs`) | canonical branch, worktrees, pre-commit hook | worktree add/remove, replay onto a base, diff, cherry-pick, commit, hook | both services, people committing by hand |
| Rulebook and perspectives (`src/schema/rulebook/`, `perspective/`) | `rulebook.toml`, uncommitted or committed | compile; check pipeline and skip policy | orchestrator |
| File sets (`src/schema/fileset/`) | - | parse, validate (cycles), compile set expressions | perspectives |
| Project roles, paths, ids, timestamps (`src/runtime/project.rs`, ...) | - | classify a directory, derive paths | everything |
| MCP server and descriptors (`src/mcp/`) | the directory each handler is bound to | one tool call per service method | the two services |
| Command line (`src/cli.rs`) | - | parse and render | the two services |

**What is hard here.** The state is spread over files that different processes
read and write without a lock, and over git objects nobody else knows about.
Three actors act in any order: the orchestrator, every agent, and whoever
commits in the canonical workspace. A group is pinned to a base commit and a
boundary while HEAD and the rulebook move on. Liveness of a worker is changed
by the worker, yet the exclusion set derived from it is written only by the
orchestrator. Messages wait in mailboxes while the state they were written for
passes. Commands consist of several writes with failures between them. The
list with source lines is in `PROJECT.json` (`hazards`).

**What makes it correct.**

- *Orchestration core*: live groups have compatible boundaries; what a group
  reads or may write stays as it was at its base; siblings share one base; one
  worker of a group is merged; a merge stays inside the write set and meets no
  conflicting change; `exclusion-set.txt` is exact, so that the hook protects
  live groups; a paused worker resumes only when it is answered.
- *State store*: a stored snapshot contains every update that preceded its
  load; wherever a command stops, no live worker is without group or worktree.
- *Merge transaction*: work on the branch is recorded as `MERGED`, after every
  failure and crash; a merge that fails puts everything back.
- *Mailbox*: bundles are numbered without gaps or duplicates, listed only when
  complete, and a listed bundle is acknowledged once, with the state change that
  belongs to it.
- *Rulebook*: only checks whose policy allows it are skipped; file-set
  expressions mean what their definitions say; every compilation ends.
- *Roles, servers, command line*: whoever acts on a directory acts in the role
  that directory has.

## 2. Modules

| Module | What it is |
| --- | --- |
| `Multorum` | the orchestration core: state, one action per command, properties, and the definition of the refinement |
| `OwnershipLease` | the abstract promise: a readers-writer lease on files, with a branch only lease holders publish to inside their lease |
| `MCMultorum` | rulebooks, edit sets, views and symmetry for TLC |
| `MultorumProofs` | type correctness, the exclusion set, isolation of the canonical branch |
| `MultorumLease` | conflict freedom and the refinement of `OwnershipLease`, under the disciplines; what the lease itself guarantees |
| `MultorumStability` | stable boundaries, one base and one merge per group, merges without conflict |
| `StateStore`, `MCStateStore` | commands as sequences of file writes: load, worktrees, store, exclusion set; failures, crashes, several processes |
| `StateStoreProofs` | what every stop of a command leaves on disk, for one command at a time |
| `MergePipeline` | `worker merge` from the staged artifacts to the commit, with roll-back, abort, clean-up, failures, crashes and retries |
| `MergePipelineProofs` | what a merge leaves behind, for any number of attempts and failures |
| `Mailbox` | publishing and acknowledging bundles, file operation by file operation |
| `MailboxLog` | what a mailbox promises its readers: an append-only numbered log, acknowledged once |
| `MailboxProofs` | the mailboxes' invariants and their refinement of `MailboxLog` |
| `FilesetOrder` | the depth-first search that orders file sets and reports cycles |
| `FilesetOrderProofs` | its two guarantees, for every graph |
| `Rulebook` | extends `FilesetOrder`: the check table, the phases of compilation, evaluation of expressions, the check gate of a merge |
| `Project`, `MCProject` | extends `Rulebook`: roles of directories, the command line, the MCP servers, and the calls that compile a rulebook or run checks |
| `ProjectProofs` | what rulebooks compile to, what the gate lets pass, who may act as orchestrator, for every project |

`Multorum` is the system with atomic commands; `StateStore`, `MergePipeline` and
`Mailbox` each open one kind of command and keep the rest small. What connects
them is stated where it is used: `Multorum` takes a command as one step, which
`StateStore` justifies only for a single invocation at a time
(`ConsistentWhenIdle`, and the counterexample of `lost_update`);
`MergePipeline` starts where the checks of `Rulebook` have passed, and what it
leaves on success is the effect `MergeWorker` has in `Multorum`; the state change
after an acknowledgement is one step in `Mailbox` and several in `StateStore`.

### State and actions of `Multorum`

| Variable | In the code |
| --- | --- |
| `rulebook`, `committed` | version of `rulebook.toml` in the working tree and at HEAD |
| `canonical` | the canonical branch: per commit the files it changed |
| `group` | `group/<Perspective>.toml`: base commit, read set, write set |
| `state`, `member`, `submitted` | `worker/<worker>.toml` |
| `worktree` | HEAD of `.multorum/tr/<worker>` |
| `reported` | `head_commit` of the latest report in the worker's outbox |
| `inbox` | number of unacknowledged inbox bundles per kind |
| `exclusion` | `exclusion-set.txt` |

| Action | Code |
| --- | --- |
| `CreateForming`, `CreateJoining`, `CreateAutoForwarding` | the three ways through `create_worker`; `Enter` is their common end, with the eviction of a finalized entry whose id is reused |
| `ForwardPerspective`, `ResolveAutoForwarding` | `forward_perspective`, `maybe_auto_forward_for_resolve`; `Forward` is `execute_proven_forward` guarded by `prove_forward_perspective` |
| `ResolveWorker`, `HintWorker`, `ReviseWorker` | `publish_worker_inbox` with the state each kind requires |
| `DiscardWorker`, `DeleteWorker`, `MergeWorker` | the commands of these names |
| `AckInbox` | `ack_inbox` with `update_state_after_ack`, which looks at no state |
| `SendReport`, `RejectedReport`, `SendCommit` | `publish_submission` with `update_submission_state`; a report is published before the state is checked, so a refused one stays in the outbox |
| `CommitInWorktree` | git, in a worktree; `--no-verify` is allowed |
| `EditRulebook`, `CommitRulebook`, `CommitCanonical` | the orchestrator's own edits and commits, the latter through the pre-commit hook |

### Abstractions of `Multorum`

- A command is one step: the whole handler, from `load_state` to its last
  write. Interleavings inside commands, crashes and lost updates are in
  `StateStore`, `Mailbox` and `MergePipeline`.
- A command that fails changes nothing and is no step. The exceptions are
  modelled: a refused report leaves its bundle (`RejectedReport`), and a
  `create` or `resolve` that fails after its auto-forward is the step
  `ForwardPerspective`. A refused commit leaves a bundle no command reads back.
- The hook and the scope check do not see a change, they see how git lists it.
  Both read `git diff --name-only` without `--no-renames`; git takes a file gone
  and a similar one new for a move, and prints the new name alone. Similarity is a
  matter of contents, so a change has several possible listings (`Listings`): any
  moves between its files, out of the pairs in the constant `Rename`, each file in
  one of them. A name with unusual characters (the constant `Quoted`) is printed in
  quotes, which no line of `exclusion-set.txt` and no path of a write set is.
  `HookAccepts` and `InScope` are about listings; the properties are about the
  files that changed.
- A canonical commit is its position and the set of files it changed; position
  0 is the commit the project starts from. A worker's revision is the canonical
  commit it descends from and the file sets of its own commits. The diff of two
  revisions is the union of the changed files: a change and its exact revert
  are still a change, so scope checks in the model are at least as strict.
- Textual conflicts of a cherry-pick or rebase do not occur: the model permits
  merges and forwards git might refuse, and `MergeNeverConflicts` says that
  merges never meet such a change anyway.
- An agent commits on top of its worktree and names revisions of it, or no
  revision in a report. It does not reset or amend.
- An *uncommitted* worktree or workspace is seen only where it changes a
  command's outcome: `merge_worker` refuses a workspace with an uncommitted
  rulebook (`rulebook = committed`).
- A rulebook is the table `Compiled` from versions and perspectives to
  boundaries (or `None`, not declared); compilation is in `Rulebook`.
  `RulebookEdit` says which versions may follow which.
- Two in-memory group records of one perspective (a finalized one and a new
  one) are stored under the same file name, the new one last: the model has one
  record per perspective.
- Any worker id without a live worker may be chosen; automatic numbering is in
  `StateStore`.
- Merge checks either succeed or make the command fail (`Rulebook` has them).

### State and actions of `StateStore`

`groupFile`, `workerFile`, `exclusion` are the files under `.multorum/orchestrator`;
`worktree` is `.multorum/tr/<worker>` with its contract, the head its latest
report names and whether its inbox waits; `registered` is git's list of
worktrees; `head` is the version of canonical HEAD. `job[q]` is process `q`: the
command, the state it loaded and changed in memory, and in `pc` the next write.

| Action | Code |
| --- | --- |
| `StartCreate`, `CleanupWorkspaceBeforeCreate`, `ClearDirectory`, `AddWorktree`, `PrepareWorkerRuntime`, `PublishTask` | `create_worker` with `resolve_create_worker_id`, `allocate_worker_id` and git's `create_worktree` |
| `StartDiscard`, `StartDelete`, `DropWorktree` | `discard_worker`, `delete_worker` |
| `StartForward`, `ForwardWorktree`, `RefreshWorker`, `FailForward`, `RollbackForwardWorktree`, `RefuseForward` | `execute_proven_forward` worktree by worktree, and its roll-back |
| `StartReport`, `StartCommit`, `UpdateSubmissionState`, `StartAck`, `UpdateStateAfterAck`, `PublishWorkerInbox` | the worker's commands and the bundles it is answered with: a mailbox first, the state after |
| `RemoveStaleGroupFiles`, `RemoveStaleWorkerFiles`, `WriteRecord`, `Stored`, `RewriteExclusionSet` | `store_state`, `write_state_snapshot`, `rewrite_exclusion_set` |
| `TearRecord`, `TearExclusionSet`, `Fault` | a write that stops after truncating; a crash or an early error return |

The fields of an entry of `ResolveCreateWorkerId` are what the function of that
name returns: the id, and whether a finalized entry of that id is replaced, which an
automatic id never does.

Left to the other modules: merges, hints, conflicts between perspectives, and
commits an agent makes after its checkpoint. HEAD and the rulebook are one
version number. `AllocateWorkerId` is the set that holds the automatic id of a
perspective, `AutoId[p]` its numbered names in order, and empty when the model's
names are used up; `IdAssumption` says that names numbered for different
perspectives differ, `FileAssumption` that a missing and a torn file are no
records. An auto-forward is a forward followed by a create or a resolve.
Agents act in worktrees of workers that are not finalized.

### State and actions of `MergePipeline`

`final`, `staged`, `backup` say for each artifact (bundle and entry of the audit
trail, group, worker, exclusion set) what lies at its final path and in the
temporary directory; `tree` is the canonical working tree, `integrated` counts
commits of the submission, `unreported` those of them git reported as failed,
`payload` tells whose the rationale files are, and
`pc` is the next step.

| Action | Code |
| --- | --- |
| `BeginMerge`, `RefuseExistingAudit`, `PrepareMergeArtifacts`, `PrepareFails`, `EnsureCleanWorkspace` | `merge_worker` from the submission to `ensure_clean_workspace`; `prepare_merge_artifacts` |
| `BeginIntegration`, `ConflictingIntegration` | `begin_integration`: cherry-pick without a commit |
| `SetAside`, `Promote`, `PromotionFails` | `PromotedPath::promote`: two renames each, in the order of the list |
| `FinalizeIntegration`, `FinalizeFails`, `FinalizeUnreported`, `Cleanup` | the canonical commit, which the pre-commit hook may refuse; git may also move the branch and then fail to write the index, which the code takes for a refusal |
| `Rollback`, `RollbackFails`, `RolledBack`, `AbortIntegration`, `AbortFails` | roll-back in reverse, then `abort_integration` |
| `Crash`, `EditWorkspace` | the process dies anywhere; the orchestrator works in the workspace between merges |

### State and actions of `Mailbox`

`published` and `temporary` are the directories of `inbox/new` and `outbox/new`,
`receipts` the files of `ack/`, `state` the worker's state; `author[d]` and
`ack[a]` are the processes that publish and acknowledge.

| Action | Code |
| --- | --- |
| `Begin`, `MakeTemporary`, `WriteEnvelope`, `WritePayload`, `PayloadRefused`, `Publish` | `publish_bundle` and `BundleWriter` |
| `UpdateSubmissionState` | the function of that name, after the bundle is published |
| `FindBundle`, `CreateAck`, `UpdateStateAfterAck` | `find_bundle`, `acknowledge_message`, `update_state_after_ack` |
| `AuthorDies`, `CallerDies`, `Restart` | a process ends between two file operations; the next call is a new one |

A bundle is one marker per file: the number of the publication that wrote it. A
mixed bundle is one whose markers differ. Each mailbox has one author at a time,
as `DESIGN.md` requires (`:564`); two would take one number, since nothing else keeps
publications apart.

`FindBundle` reads temporary directories too, as `find_bundle_by_sequence`
(`storage.rs:1171`) does. `OnlyListed` says what callers name: when it is true, only
numbers that are in a listing (`Numbers`), otherwise any number.

### State and actions of `FilesetOrder`, `Rulebook`, `Project`

| Action | Code |
| --- | --- |
| `VisitNext`, `Descend`, `CloseCycle`, `Finish` | `topological_sort` and its recursive `visit`; `path` is the recursion's stack |
| `StartCompile`, `Sort`, `ExpandOpaques`, `ResolveNext`, `CompilePerspective` | `Rulebook::compile`: `CheckTable`, `FilesetTable` with its three phases, `PerspectiveTable` |
| `BeginChecks`, `SkipCheck`, `RunCheck` | `validate_skip_request` and the pipeline loop of `merge_worker` |
| `InitCommand`, `ToolInit` | `multorum init` and the tool `rulebook_init` |
| `StartServer`, `SetWorkingDirectory`, `RejectArguments`, `AnswerFailed` | the MCP servers: binding at start-up, rebinding, argument check, a kept failure |
| `ListPerspectives`, `CreateWorker`, `AddWorktree`, `RefuseWorktree`, `PrepareWorkerRuntime`, `AbandonCreate`, `MergeWorker`, `RefuseMerge`, `CheckStep`, `EndMerge`, `RefuseCall`, `ReadState`, `ReadResource`, `LocalCommand`, `WorkerCall` | calls by the command line or a server, as far as roles, rulebooks and checks go |
| `RemoveWorktree`, `StrayContract` | a worktree is removed; someone copies or removes a contract by hand |

`disk` holds the marker files under `.multorum` of the workspace and of one
worktree, `linked` the places with a `.git`; `Role` is the classification every
entry point starts from. A path is its segments, a glob the files it matches, an
expression its first name and the operators applied from the left; one
parenthesised operand is a set of its own. `Values` is the recursion of `evaluate`
along such a chain. `BookAssumption` says what the parsers can return: sets of the
three kinds under the names of the table, paths over `Segment`.

## 3. What is checked

| Run | Question | Result |
| --- | --- | --- |
| `core` | Do groups hold exclusive leases, keep a stable snapshot and merge once, if agents stop at finalization, rulebook growth is private and moves stay inside boundaries? | passes, about 246,000 states |
| `open` | What remains when agents go on after finalization? The exclusion set is exact, dead groups own nothing, no commit touches a live group, moves staying inside. | passes, about 380,000 states |
| `growth` | Is the conflict-free invariant of `DESIGN.md` kept when a group is forwarded onto an edited rulebook? | violated |
| `second_merge` | Is one worker per group merged whatever agents do after finalization? | violated |
| `moved_away` | Does the hook keep every file of a live group on the branch when a file may be moved out of its boundary? | violated |
| `store` | What do the state directories and worktrees look like wherever a command failed or died? | passes, about 943,000 states |
| `lost_update` | Does a join write only its own worker's file when another command runs beside it? | violated |
| `auto_id` | Does a live worker keep its worktree whatever ids are chosen? | violated |
| `merge` | What is on the branch, in the records and in the workspace after merges that fail or die anywhere and are retried? | passes, 16,225 states |
| `payload_lost` | Do the rationale files survive a refused merge? | violated |
| `mailbox` | Do the directories of a mailbox implement a numbered log acknowledged once, with deaths and concurrent callers? | passes, 123,211 states |
| `project` | Does compilation mean what the definitions say and end on every graph, is the gate complete, and who may act as orchestrator where? | passes, 268,445 states |

### Properties

Of the orchestration core (`core`, `open`, and the runs that violate one):

- `ExclusionMatches`, `DeadGroupsOwnNothing`: the projection the hook reads is
  exact although worker commands change liveness and never rewrite it. The
  second is why the first holds: what comes back to life owns nothing.
- `ConflictFree`: the central invariant of `DESIGN.md`.
- `StableBoundary`: no commit since a live group's base changed a file of its
  boundary, through merges of other groups, forwards and rulebook edits.
- `SiblingsShareBase`: all worktrees of a live group descend from its base.
- `OneMergePerGroup`: two merged workers of a perspective come from different
  bases, i.e. from different groups.
- `MergeNeverConflicts`: at a merge, no commit since the worker's base touched
  a file the worker changed.
- `CanonicalAvoidsLiveGroups`: no step adds a canonical commit that changes a
  file of a group that is live after the step.
- `ImplementsLease`: `Spec` implements `OwnershipLease` under the mapping
  *lease of p = boundary of p's group while one of its workers lives, else
  nothing; branch = canonical*. Creating, joining and forwarding claim;
  discarding the last worker releases; a merge publishes inside the write set
  and ends the lease in the same step; hand-made commits stay outside of all
  leases.

Of the state directories (`store`, and the two runs that violate one):

- `NoOrphanWorkers`: wherever a command stops, a live worker's group file is
  there. Groups are written before workers; the other order would let a stop
  lose live workers behind a state nobody can load.
- `LiveWorkerHasWorktree`: wherever a command stops, a live worker has a
  registered worktree with its contract, at or past its group's recorded base.
- `ConsistentWhenIdle`: without failures, what a command leaves loads, has no
  empty group, an exact exclusion set, and contracts and submissions that agree
  with the worktrees.
- `ProjectionRepaired`: a create, discard, delete or forward that runs to its end
  makes the exclusion set exact again, whatever died before it. (So does a merge,
  which replaces the file as one of its artifacts.) A resolve without a forward, a
  hint, a revise and the worker's commands do not rewrite it.
- `RefusedForwardMovesNothing`: a forward that moved some worktrees and then
  failed puts each back at its checkpoint.
- `CommandsEnd`: a command that has begun ends.
- `JoinWritesOnlyItsWorker`: a join does not put back another worker's record.

Of the merge transaction (`merge`, `payload_lost`):

- `CommittedImpliesRecorded`: work on the branch is recorded as merged, released
  from the exclusion set and audited, wherever a later step fails or dies.
- `NeverIntegratedTwice`: retries do not put one submission on the branch twice.
- `AllOrNothing`: a refused merge has restored every artifact, taken its patch
  out and committed nothing; a successful one has replaced everything. It names two
  exceptions of the code: the conflict a patch leaves that does not apply, and the
  audit directory of a merge without rationale bundle.
- These three except a commit that git made and reported as failed
  (`FinalizeUnreported`): the code rolls the records back and the abort keeps the
  commit, so it is on the branch and not on record, and a retry commits again.
- `PickedIsSettled`: an applied patch is committed or taken out again, unless the
  process dies or its recovery fails.
- `PayloadRetained`: rationale files are the caller's or in the audit trail.

Of the mailboxes (`mailbox`):

- `PublishedIsWhole`: a published bundle comes from one publication; what an
  attempt under the same name left behind is not in it.
- `AckedOnce`: of racing callers one is told that it acknowledged.
- `StateIsBacked`: a waiting worker has the bundle that says why in its outbox.
- `AckTakesEffect`: a caller that has looked up a published task, resolve or
  revise makes the worker `ACTIVE`, or a faster one does, unless a process dies
  between the acknowledgement file and the state (then the state stays, and the
  bundle cannot be acknowledged again) and unless a leftover of the same number was
  there to be read (disagreement 7).
- `PublicationsEnd`: a publication ends whatever lies in its way.
- `ImplementsLog`: read from disk, a mailbox implements `MailboxLog`, in which only
  what is in the log is acknowledged, for callers that name listed numbers. It
  assumes the one author per mailbox.

Of rulebooks, roles and servers (`project`):

- `OrderIsTopological`, `CycleIsReal`: the search orders every set after what it
  refers to, once; a reported cycle is one.
- `CompiledIsMeaning`: the compiled sets satisfy the equations of all
  definitions at once, whatever order they were resolved in.
- `OpaqueByReferenceOnly`: a file under an opaque directory is in no other set
  except through an expression that names it.
- `GateIsComplete`: a merge passes when each check its base commit declares ran,
  in order, or was skipped with leave. That the table is the base's is how
  `MergeWorker` is written, after the code; the property tests order and skips.
- `OnlyReboundServersCrossRoles`: a worktree, which holds a copy of the committed
  rulebook, gets an orchestrator's control plane only by a rebound server. Of
  rebound servers, which are bound to whatever directory they are told, it says
  nothing.
- `CallsEnd`: every call ends, whatever graph the file sets form.

Each of the modules has one type invariant. Every property of a passing run is
sensitive to the code: `PROJECT.json` (`mutants`) names for each a slip (a
dropped guard, a missing reset, a swapped order) under which TLC finds it
violated. The slips are the definitions marked `Slip:` in the modules and are
used by nothing else.

### Disagreements with the documentation

1. *Forwarding can break the conflict-free invariant* (`growth`). Conflicts are
   checked when a group forms. `prove_forward_perspective`
   (`orchestrator.rs:491`) only requires the new boundary to contain the old
   one; nothing compares it with other live groups. Edit the rulebook so that
   one perspective gains a file another one reads, block the worker, forward:
   both groups are live and overlap. `DESIGN.md:84` forbids it.
2. *A finalized worker can come back and be merged as well* (`second_merge`).
   `update_state_after_ack` (`worker.rs:166`) writes `ACTIVE` whatever it finds.
   A sibling discarded by a merge that still has an unacknowledged task is live
   again, can be forwarded, submit and be merged. `DESIGN.md:78` and `:487`
   exclude it.
   By the same line a worker that reported before it acknowledged its task leaves
   `BLOCKED` by that acknowledgement, without a resolve; `DESIGN.md:482` and the
   transition table have no such arc.
3. *The hook does not see where a moved file came from* (`moved_away`). It
   compares the lines of `git diff --cached --name-only` (`git.rs:68`) with the
   exclusion set. After `git mv` of a leased file to a name outside every boundary
   git prints the new name alone, and the commit is accepted while the group is
   live; `DESIGN.md:409` says the hook rejects commits that touch a listed file,
   `:94` that the orchestrator must not commit to them. In the model the commit
   changes `{c, e}`, is listed as `{e}`, and alpha reads `c`. A name git prints in
   quotes is not recognised either (`core.quotePath`). The scope check of a merge
   reads the same kind of listing (`git.rs:286`): a file outside the write set that
   a worker moves to a name inside it is removed from the branch unchecked, against
   `DESIGN.md:577`. (The name has to be new: git finds no move to a file the base
   commit has.) A quoted name makes this check refuse what is in scope. `--no-renames
   -z` would list the files themselves.
4. *A join rewrites everything* (`lost_update`). `store_state`
   (`storage.rs:709`) writes the whole snapshot a command loaded, and nothing
   locks the files: a report stored between a join's load and its store is
   undone. `DESIGN.md:395` says a join writes only the new worker's file.
5. *An automatic id can be a live worker's* (`auto_id`). Ids are numbered from
   the perspective's own group (`orchestrator.rs:276`) and the result is not
   looked up among the others; `worker create` for another perspective may have
   been given that id explicitly. The create then removes the live worker's
   worktree directory (`git.rs:298`). `DESIGN.md:437` allows an id to be reused
   only after `MERGED` or `DISCARDED`.
6. *A refused merge loses the rationale files* (`payload_lost`). They are moved
   into the staging directory before the workspace is inspected
   (`orchestrator.rs:1247`), and a refusal deletes the directory.
   `DESIGN.md:343` makes the runtime responsible for them on success only, and
   `payload.rs:23` calls the fields consumed on successful publication.
7. *Unpublished bundles can be acknowledged* (no run of its own: set `OnlyListed =
   FALSE` in `Mailbox_mailbox.cfg`, and TLC reports `ImplementsLog` violated in six
   states). The listing skips `.tmp-` directories, the lookup of an acknowledgement
   does not (`storage.rs:1171`). A caller that names the next number while its
   bundle is being written, or after its author died, acknowledges a bundle no
   listing shows; the one published under that number later is acknowledged from
   the start, and nobody is told to read it. `DESIGN.md:558` says readers see the
   complete bundle or nothing. Callers that name listed numbers are safe from this,
   but not from the leftover itself: beside a published `0002-resolve` the lookup of
   2 may meet a dead author's `.tmp-hint-0002` first and take the resolve for a
   hint. It is then acknowledged and the worker stays `BLOCKED`. `AckTakesEffect`
   excludes exactly that case, by the last conjunct of `ReadsReactivation`. It takes
   four publications (task, dead hint, report, resolve), one more than the run has:
   with `MaxAttempts = 4` and one caller the property holds, and without that
   conjunct TLC finds it violated.

### The three disciplines

The code relies on three rules it does not enforce. They are operators of
`Multorum` and hold in the instance of `core`; the third holds in `open` as well.
Section 4 says which theorem needs which.

- `AgentsStopAtFinal`: no worker command is issued once the worker is
  finalized. Without it, disagreement 2.
- `PrivateGrowth`: when a perspective grows from one rulebook version to
  another, no other perspective (in any version) uses the gained files in a
  conflicting way. Without it, disagreement 1. Growth only: versions may
  conflict with each other otherwise, shrink, drop perspectives or replace
  boundaries. In `core`, beta writes what alpha reads under version 1 and not
  under version 2, so whether the two can run together changes during the run.
- `MovesStayInside`: a file of a boundary is moved only to names in the same
  boundary, nothing is moved from outside into a write set, and the names of a
  boundary are printed without quotes. Without it, disagreement 3. Moves inside a
  boundary are allowed, and their listings are not what changed either: in `core`
  alpha's own files `a` and `b` are one change that git may list as `{b}`, in
  `open` somebody changes the two files alpha reads and git may list one.

### Bounds, and why they are enough

Of the runs of `MCMultorum`:

| Bound | Value | Reason |
| --- | --- | --- |
| `Worker` | 2 | winner and sibling in one group, or two groups of one worker each; ids are reused after discard, merge and delete |
| `Perspective` | 2 | compatibility, conflicts and leases are pairwise |
| `File` | 5 in `core`, 3 in `growth`, 4 elsewhere | one shared, one to move to, one private each, one to grow by |
| `Rulebook` | 2 in `core` and `growth`, 1 elsewhere | one edit is enough for held and compiled boundaries to differ |
| `MaxCommits` | 2 (1 in `growth`) | a merge followed by another, or a foreign commit between formation and merge |
| `MaxEdits` | 1 per worktree | in scope or out of scope; more commits add only unions |
| `MaxUnacked` | 1: the orchestrator publishes only while nothing else waits in the inbox | the task, or any later message, may stay unread while its worker reports, commits, is forwarded, discarded, merged or revived; every acknowledgement that changes the state changes it in the same way, so more waiting bundles allow the same transitions in closer succession |
| `EditSet` | `{a, b}`, `{c}` in `core`; `{c, d}` in `open`; `{c, e}` in `moved_away`; `{c}` elsewhere | alpha's own files and the shared ones; empty submissions exist as worktrees without commits |
| `Rename` | one pair in `core`, `open`, `moved_away`: inside alpha's write set, inside its read set, out of it; none elsewhere | a listing leaves out one file at most per pair, and a pair is judged by itself |

Workers are interchangeable: `SYMMETRY Workers` is used with safety properties
that treat all workers alike. With SYMMETRY, TLC picks a representative before
it takes the view, so two states with one view may both be kept and the counts
of `core` and `open` vary slightly between executions. Without SYMMETRY they
are 389,378 and 641,572 every time, and the same properties hold.

`core` and `open` identify states by a VIEW. Forgotten is only what no later
step and no property can tell apart:

- `submitted[w]` and `reported[w]` matter only through `AtCheckpoint(w)` and
  `MergeWorker`: whether they name the worktree's head. When they do not, they
  never do again: worktrees only move on, and a new submission or report
  overwrites them. `AtCheckpoint` is in the view.
- The files of a canonical commit matter only to worktrees and groups with an
  earlier base; those at or before every base are blanked. A worktree's base is
  never later than its group's.
- In `core`, where finalized agents are silent, only the base of a finalized
  worker's worktree is read again (`OneMergePerGroup`), and the record of a
  group without live workers is replaced when the group is formed anew; its
  owned files are kept, so that a group that kept them would show.

Of the other runs:

| Run | Bounds | Reason |
| --- | --- | --- |
| `store` | 1 process, 2 workers, 2 perspectives, 2 versions of HEAD, 1 failure | one worker has an automatic id, the other is given explicitly to either perspective, so both join one group or form two; a second version makes forwards and stale bases; one failure anywhere, followed by any further commands, is what every property is about |
| `lost_update` | 2 processes, HEAD fixed, no failure | a join and one other command |
| `auto_id` | as `store`, one worker id given explicitly to the perspective that does not own it, no failure | the smallest sharing of an id |
| `merge` | 4 attempts, 4 failures | a failure at any step, another in each step of its recovery, and retries after whatever that left; the theorems have no such bound |
| `payload_lost` | 1 attempt, no failure | nothing has to fail |
| `mailbox` | 3 publications (the task is the first), 2 acknowledging callers, 1 death | the theorems have no such bound; here a leftover, the publication that reuses its name and one more mailbox in use; two callers race for one number |
| `project` | 3 file-set names over 3 files, 2 checks; 8 check tables; one worktree, one server | cycles of length one to three, on one path and on several, nested directories, all three operators; each way a table is refused |

Deadlock is checked in `core`, `open`, `growth`, `second_merge`, `moved_away`
and `project`. In `merge` and `mailbox` the bounded attempts run out. In `store`
the system really stops: a torn or orphaned state file makes every later load
fail, and no command repairs it.

### Fairness

Nothing in the code schedules an agent or the orchestrator: every command is
issued by somebody who may never do so, and no run assumes that anything is ever
begun. Once begun, a command waits for nobody; it runs to its end unless its
process dies. That is the fairness of the models, weak fairness of the steps of
what is already running: `Continue(q)` in `StateStore`, `Step` in
`MergePipeline`, `Publication(d)` and `Acknowledgement(a)` in `Mailbox`,
`Running` in `Project`. Failures and deaths have none: they may happen or not.
`Multorum`, with its atomic commands, claims no liveness.

## 4. What is proved

Checked by TLAPS for every value of the constants, under the named assumptions
of the modules (the constants have their types, the bounds are natural numbers,
values that stand for "none" are not values of the sets they stand beside).

| Theorem | States | Inductive invariant |
| --- | --- | --- |
| `TypeCorrect` | `Spec => []TypeOK`, including that a worker entry has a perspective and a worktree | `TypeOK` |
| `ExclusionExact` | `Spec => []ExclusionMatches` | `ExclusionInv` |
| `NoOwnershipAfterDeath` | `Spec => []DeadGroupsOwnNothing` | `ExclusionInv` |
| `CanonicalIsolation` | `Spec => CanonicalAvoidsLiveGroups`, given `MovesStayInside` | `ExclusionInv`, `BoundariesCompiled` |
| `ConflictFreedom` | `Spec => []ConflictFree`, given `PrivateGrowth` and `AgentsStopAtFinal` | `LeaseInv` |
| `LeaseImplementation` | `Spec => ImplementsLease`, given all three disciplines | `LeaseInv` |
| `MergeTypeCorrect` | `Spec => []TypeOK` of `MergePipeline` | `MergeInv` |
| `MergeRecorded` | `Spec => []CommittedImpliesRecorded` | `MergeInv` |
| `MergedOnce` | `Spec => []NeverIntegratedTwice` | `MergeInv` |
| `MergeAtomic` | `Spec => []AllOrNothing` | `MergeInv` |
| `MailboxTypeCorrect` | `Spec => []TypeOK` of `Mailbox` | `MailboxInv` |
| `BundlesWhole` | `Spec => []PublishedIsWhole` | `MailboxInv` |
| `OneAcknowledger` | `Spec => []AckedOnce` | `MailboxInv` |
| `SubmissionBacked` | `Spec => []StateIsBacked` | `MailboxInv` |
| `MailboxImplementsLog` | `Spec => ImplementsLog`, given `OnlyListed` | `MailboxInv`, `LogInv` |
| `LeaseExclusion` | `LeaseSpec => []LeasesExclude`: leases of two holders are compatible | `LeasesExclude` |
| `LeaseGivesConflictFreedom` | `ImplementsLease => []ConflictFree` | `LeasesExclude` |
| `BoundariesAreStable` | `Spec => []StableBoundary`, given `MovesStayInside` | `StableInv` |
| `SharedBase` | `Spec => []SiblingsShareBase`, given `AgentsStopAtFinal` | `BaseInv` |
| `AtMostOneMerge` | `Spec => []OneMergePerGroup`, likewise | `BaseInv` |
| `MergesNeverConflict` | `Spec => MergeNeverConflicts`, likewise, and given `MovesStayInside` | `BaseInv`, `StableInv` |
| `StoreTypeOK` | `Spec => []TypeOK` of `StateStore`, given `OneProcess` and `IdsAreOwn` | `StoreInv` |
| `LiveWorkersLoad` | `Spec => []NoOrphanWorkers`, likewise | `StoreInv` |
| `LiveWorkersWork` | `Spec => []LiveWorkerHasWorktree`, likewise | `StoreInv` |
| `CommandsRepairProjection` | `Spec => ProjectionRepaired`, likewise | `StoreInv` |
| `RefusalsMoveNothing` | `Spec => RefusedForwardMovesNothing`, likewise | `StoreInv` |
| `ConsistentBetweenCommands` | `Spec => []ConsistentWhenIdle`, likewise | `CalmInv` |
| `OrderTopological` | `OrderSpec => []OrderIsTopological` | `OrderInv` |
| `CycleReal` | `OrderSpec => []CycleIsReal` | `OrderInv` |
| `ProjectTypeOK` | `Spec => []TypeOK` of `Project` | `ProjectInv` |
| `CompiledSetsAreRight` | `Spec => []CompiledIsMeaning` | `CompileInv` |
| `OpaqueFilesAreHidden` | `Spec => []OpaqueByReferenceOnly` | `CompileInv` |
| `GatePassesOnlyComplete` | `Spec => []GateIsComplete` | `GateInv`, `CallInv` |
| `ProjectOrders` | `Spec => [](OrderIsTopological /\ CycleIsReal)` of `Project` | `CompileInv` |
| `WorktreesStayWorktrees` | `Spec => OnlyReboundServersCrossRoles` | `SessionInv` |

*`ExclusionInv`* is `TypeOK /\ DeadGroupsOwnNothing /\ ExclusionMatches`.
`ExclusionMatches` is not inductive by itself: an acknowledgement may revive
the only worker of a group and leaves the file alone, so the group must have
nothing to contribute. The first four theorems hold whatever agents and
rulebooks do; the fourth, `CanonicalIsolation`, needs `MovesStayInside`. That
speaks of the rulebook and what it protects is what groups hold, so the proof
carries `BoundariesCompiled`: what a group owns is nothing or what some version
declared. From the two, `ListingsShow` concludes that a change of a group's file
shows in every listing, `HookProtects` that the hook then sees it, and
`ScopeConfines` that the scope check keeps a submission inside the write set.

*`LeaseInv`* adds `ConflictFree` and `GroupsFromRulebook`: every live group
holds a boundary some rulebook version gave its perspective. Since forwarding
compares nothing, compatibility after it has to come from the rulebook:
`PrivateGrowth` speaks of rulebook versions, and `GroupsFromRulebook` connects
it to what groups hold. `AgentsStopAtFinal` is needed because a revived group
holds the empty boundary, which no rulebook gave it and which may grow to
anything. The proof classifies steps (`StepShape`): each only ends groups, or
gives one group its target; the refinement proof then maps every command to a
step of the lease. `LeaseGivesConflictFreedom` is the other half: conflict freedom is
a consequence of the lease alone, so the refinement leaves nothing of it out.

*`StableInv`* adds `StableBoundary` to `ExclusionInv` and needs of the disciplines
`MovesStayInside` only: a commit, a merge's included, passes the hook, which reads
the exact set of files that live groups own after it, and by `HookProtects` sees
them. A boundary is given to a group when it is formed and grows
only by a forward, and both put its base at HEAD; a group that comes back to life
owns nothing.

*`BaseInv`* needs `AgentsStopAtFinal` and nothing of the rulebook. That siblings
share a base is kept by joins and forwards, which give every worktree the group's
base. That a group merges once needs `MergedPrecede`: a merged worker's base lies
before the base of every live worker of its perspective, because the group these
belong to was formed after that merge, at a later HEAD; when one of them is merged
as well, the two bases therefore differ. A finalized worker that came back would
break it (`second_merge`). `MergesNeverConflict` follows from both invariants: the
merged worker starts at its group's base, no commit since touched what the group may
write, and by `ScopeConfines` the worker changed nothing else.

*`StoreInv`* is `FilesInv`, about the files, and `JobInv`, about every command in
progress. `FilesInv` says that what is on disk is typed, names no head that does
not exist yet, holds live workers only under groups and in their worktrees
(`NoOrphanWorkers`, `LiveWorkerHasWorktree`), and that ids belong to the
perspective that may use them. None of it is inductive without `JobInv`, which says
for each step of a command what memory, files and worktrees may differ in: the
worktree of a create is replaced only while its id is free or finalized
(`ReplacingInv`, `CreateInv`); worktrees a forward has moved are ahead of the record
and at a base the memory will store (`ForwardInv`); during the store every name
that is no longer left is written as in memory, groups first (`WriteInv`).
`CalmInv` adds, while no failure has happened, that memory and files differ by the
command's own change only. The theorems have two premises, which TLC shows to be
necessary: `OneProcess`, one command at a time, since nothing in the code locks the
files (`lost_update`); and `IdsAreOwn`, that nobody explicitly gives a perspective
an id another one may number its workers with, since an automatic id is not looked
up in other groups (`auto_id`). The number of failures, workers, perspectives and
heads is arbitrary.

*`MergeInv`* says for every step of the merge which artifacts are promoted, which
one is away and which are still as before. None of its four theorems is inductive
alone: that a refused merge restored everything needs to know, at each step of the
roll-back, that what is left to undo was set aside or replaced nothing
(`RollbackInv`); that a commit finds everything recorded needs the promotions
made so far to be a prefix of the order (`PromotionInv`); that no submission is
committed twice needs the recorded worker to keep later merges from beginning. The
commits git made and reported as failed are counted apart (`unreported`), and the
theorems speak of the others (`IntegrationInv`).

*`MailboxInv`* is about an author between two of its steps: the number it chose
is still the next one, because nobody else publishes (`Numbered`); its temporary
directory holds what it has written and nothing else (`Written`). From that a
published bundle is whole and its number new, and publishing maps to appending to
the log: `MailboxImplementsLog` maps the rename to `Publish`, the creation of the
acknowledgement file to `Acknowledge`, everything else to a stutter. `LogInv` adds
what that last mapping needs: the number a caller has looked up is in the log. It is
what `OnlyListed` is for; nothing is ever removed from a mailbox.

*`OrderInv`* is about the path of the search: each name on it refers to the next
(so a closed path is a cycle), none occurs twice, none is finished (so what is
finished is ordered once). `OrderInit` admits every graph whose references are
defined.

*`ProjectInv`* is `CompileInv /\ GateInv /\ CallInv /\ SessionInv`, one invariant per
group of variables. `CallInv` keeps them apart: a rulebook is compiled only for a
list or a create, checks run only for a merge, so the base whose checks run is not
replaced meanwhile.

- `CompileInv` contains `OrderInv`: compilation steps are those of the search until
  all is ordered. Then `ResolvedInv` says that what is resolved refers to resolved
  names only and has its meaning. The next name of the order refers to earlier ones
  (`OrderIsTopological`), and the set that is added changes no value that is there,
  since an expression depends on the names in it alone (`EvaluateAgrees`).
- `OpaqueFilesAreHidden` needs what an expression evaluates to: every file of it is
  in a set it names (`EvaluateWithin`). That is an induction along the expression,
  done with a least counterexample (`LeastNumber`, `ValuesStep`), because the
  induction theorems of the library are out of the provers' reach. The rest is that
  two directories above one file contain one another (`PrefixesCompare`), which
  `Overlapping` excludes.
- `GateInv`: what ran is the pipeline up to the next check without the skips, in its
  order.
- `SessionInv`: a server that is ready as orchestrator and was not rebound is at the
  workspace.

Every invariant and every action property of a passing run is a theorem. Some have
premises: the theorems about the core that name a discipline, those about
`StateStore`, and `MailboxImplementsLog`. Without them most are false,
as the violation runs and the disagreements of section 3 show. Model-checked
only is liveness, out of the prover's reach with `ENABLED`: `CommandsEnd`,
`PickedIsSettled`, `AckTakesEffect`, `PublicationsEnd`, `CallsEnd`. That the violated
properties are violated is shown by TLC alone.

## 5. Not modelled, and why

- *MCP tool and resource descriptors*, help texts, rulebook templates, rendered
  documentation: static texts.
- *Command-line parsing, TOML and envelope decoding, name and id syntax, the
  character parser of file-set expressions, path arithmetic*: pure functions of
  their input, with no order of steps. What they accept is in the models as the
  values they produce.
- *Timestamps, wording of notices and results, error texts*: no later step reads
  them. Errors are their codes in `Project`.
- *Installation of the pre-commit hook and of git's local excludes*: idempotent
  edits of files nothing else writes. The hook's own decision is in `Multorum`
  (`CommitCanonical`) and `MergePipeline` (`FinalizeIntegration`).
- *Textual conflicts* beyond "this patch may or may not apply", and agents that
  rewrite the history of their worktree.
- *Files that appear in a boundary because worktrees lie inside the workspace*:
  `enumerate_files` (`compile.rs:155`) walks `.multorum/tr` too. Files are
  constants of the models; the hazard is listed.
- *Nested projects* that a rebound server could initialise inside a worktree,
  more than one worktree or server in `Project`, and body and artifacts of
  bundles beyond one marker each.
- *Two publishers of one mailbox at a time*: `DESIGN.md:564` gives every mailbox
  one writer, and the code relies on it.

## 6. What is left to do

| Work | Content |
| --- | --- |
| Two processes | which of the theorems about `StateStore` survive when only worker commands run beside one command of the orchestrator |
| Base of merges | `BaseInv` under a weaker premise than silence after finalization: no acknowledgement after it |
