----------------------------- MODULE StateStore -----------------------------
(***************************************************************************)
(* The orchestrator state directories and how commands write them.         *)
(*                                                                         *)
(* Multorum.tla takes a command as one step.  Here a command is what it is *)
(* on disk: it loads every group and worker file, changes the joined state *)
(* in memory, moves worktrees, writes every file back one by one (each     *)
(* write truncates first) and last rewrites the exclusion set.  Any step   *)
(* may fail or be the last of the process, and the processes share nothing *)
(* but the files: there is no lock.                                        *)
(*                                                                         *)
(* Data abstraction:                                                       *)
(*  - canonical HEAD and the rulebook are one version number; a boundary   *)
(*    is the perspective and the version it was compiled at;               *)
(*  - perspectives of this module never conflict (Multorum.tla has that);  *)
(*  - a worktree is the version it stands on, a checkpoint the version of  *)
(*    the head a report or submission named; an agent whose head moves     *)
(*    past its checkpoint is in Multorum.tla.                              *)
(***************************************************************************)
EXTENDS Naturals, Sequences, FiniteSets

CONSTANTS
  Process,      \* concurrent invocations: CLI calls, MCP tool calls
  Worker,       \* worker ids
  Perspective,  \* perspective names
  AutoId,       \* AutoId[p]: the ids <p>-1, <p>-2, ... as far as they are used
  Explicit,     \* pairs <<p, w>>: "worker create p --worker w" is issued
  MaxHead,      \* bound: versions of canonical HEAD
  MaxFaults,    \* bound: crashes and failing steps
  Absent,       \* no file, no record
  Torn          \* a file truncated and not yet written: no record can be read

Live == {"ACTIVE", "BLOCKED", "COMMITTED"}

\* A cleared group claims nothing.
GroupRecord == [base : 1..MaxHead, open : BOOLEAN]

WorkerRecord ==
  [of : Perspective, state : Live \cup {"DISCARDED"}, submitted : 0..MaxHead]

\* HEAD, the perspective and base of contract.toml, the head of the latest
\* report in the outbox (0 if none), and whether the inbox has an
\* unacknowledged task, resolve or revise.
Worktree == [at : 1..MaxHead, contract : (Perspective \X (1..MaxHead)) \cup {Absent},
             reported : 0..MaxHead, unacked : BOOLEAN]

\* A perspective name starts with an uppercase letter and a worker id with a
\* lowercase one; the kebab-case prefixes of two perspectives never give one id.
ASSUME IdAssumption ==
  /\ Perspective \cap Worker = {}
  /\ AutoId \in [Perspective -> Seq(Worker)]
  /\ \A p, q \in Perspective : p # q =>
       \A i \in 1..Len(AutoId[p]), k \in 1..Len(AutoId[q]) : AutoId[p][i] # AutoId[q][k]
  /\ Explicit \subseteq Perspective \X Worker

ASSUME FileAssumption ==
  /\ Absent # Torn
  /\ {Absent, Torn} \cap (GroupRecord \cup WorkerRecord \cup Worktree
                            \cup Perspective \cup Worker \cup (Perspective \X (1..MaxHead))) = {}

ASSUME StoreBoundsAssumption == MaxHead \in Nat \ {0} /\ MaxFaults \in Nat

VARIABLES
  groupFile,   \* group/<Perspective>.toml
  workerFile,  \* worker/<worker>.toml
  exclusion,   \* exclusion-set.txt, as boundaries
  worktree,    \* .multorum/tr/<worker>: its HEAD and its runtime surface
  registered,  \* worktrees git has a registration for
  head,        \* version of canonical HEAD
  job,         \* what each process is executing
  faults       \* failures so far

vars == <<groupFile, workerFile, exclusion, worktree, registered, head, job, faults>>

disk == <<groupFile, workerFile>>

-----------------------------------------------------------------------------
(* Files and the joined state. *)

Groups == [Perspective -> GroupRecord \cup {Absent}]

Workers == [Worker -> WorkerRecord \cup {Absent}]

\* from_records: every file parses and every worker names a group.
Loadable ==
  /\ \A p \in Perspective : groupFile[p] # Torn
  /\ \A w \in Worker :
       /\ workerFile[w] # Torn
       /\ workerFile[w] # Absent => groupFile[workerFile[w].of] # Absent

Readable(r) == r \notin {Absent, Torn}

Members(s, p) == {w \in Worker : Readable(s.worker[w]) /\ s.worker[w].of = p}

LiveMembers(s, p) == {w \in Members(s, p) : s.worker[w].state \in Live}

IsLive(s, w) == Readable(s.worker[w]) /\ s.worker[w].state \in Live

IsFinal(s, w) == Readable(s.worker[w]) /\ s.worker[w].state = "DISCARDED"

\* Slip: the emptied group keeps its file.
KeepEmptyGroups(s) == s

GcEmptyGroups(s) ==
  [s EXCEPT !.group = [p \in Perspective |-> IF Members(s, p) = {} THEN Absent ELSE @[p]]]

RemoveWorker(s, w) == GcEmptyGroups([s EXCEPT !.worker[w] = Absent])

CollectExclusionSet(s) ==
  {<<p, s.group[p].base>> :
     p \in {q \in Perspective : LiveMembers(s, q) # {} /\ s.group[q].open}}

OnDisk == [group |-> groupFile, worker |-> workerFile]

-----------------------------------------------------------------------------
(* Jobs.  pc names the next write of the command.                          *)

NoState == [group |-> [p \in Perspective |-> Absent], worker |-> [w \in Worker |-> Absent]]

Idle == [pc |-> "idle", cmd |-> "none", of |-> Absent, subject |-> Absent,
         mem |-> NoState, to |-> 0, left |-> {}, moved |-> {}, slips |-> 0]

Running(q, pc) == job[q].pc = pc

\* Sets of names are walked in one fixed order, the order of the names.
NextOf(S) == CHOOSE x \in S : TRUE

\* A command begins after its load_state, unless the load fails.
Begin(q, j) == job' = [job EXCEPT ![q] = j]

Goto(q, pc) == job' = [job EXCEPT ![q].pc = pc]

End(q) == job' = [job EXCEPT ![q] = Idle]

Job(pc, cmd, p, w, mem) ==
  [Idle EXCEPT !.pc = pc, !.cmd = cmd, !.of = p, !.subject = w, !.mem = mem]

-----------------------------------------------------------------------------
(* worker create *)

\* The id after the highest-numbered one of this perspective's own group.
AllocateWorkerId(s, p) ==
  LET used == {i \in 1..Len(AutoId[p]) : AutoId[p][i] \in Members(s, p)}
      next == {i \in 1..Len(AutoId[p]) :
                 (\A k \in used : k < i) /\ (i = 1 \/ i - 1 \in used)}
  IN {AutoId[p][i] : i \in next}

\* Only an explicit id is looked up among all groups: it must not be live, and
\* a finalized entry that has it is the one the new worker replaces.
ResolveCreateWorkerId(s, p) ==
  {[id |-> w, replaces |-> FALSE] : w \in AllocateWorkerId(s, p)}
    \cup {[id |-> w, replaces |-> IsFinal(s, w)] :
            w \in {x \in Worker : <<p, x>> \in Explicit /\ ~IsLive(s, x)}}

NewWorker(p) == [of |-> p, state |-> "ACTIVE", submitted |-> 0]

WithWorker(s, p, c) ==
  LET kept == IF c.replaces THEN RemoveWorker(s, c.id) ELSE s
      base == IF LiveMembers(s, p) # {} THEN s.group[p] ELSE [base |-> head, open |-> TRUE]
  IN [group |-> [kept.group EXCEPT ![p] = base],
      worker |-> [kept.worker EXCEPT ![c.id] = NewWorker(p)]]

\* With --overwriting-worktree; a live group must be at HEAD.
StartCreate(q) ==
  /\ Running(q, "idle") /\ Loadable
  /\ \E p \in Perspective : \E c \in ResolveCreateWorkerId(OnDisk, p) :
       /\ LiveMembers(OnDisk, p) # {} => groupFile[p].base = head
       /\ Begin(q, Job(IF c.replaces /\ worktree[c.id] # Absent THEN "cleanup" ELSE "clear",
                       "create", p, c.id, WithWorker(OnDisk, p, c)))
  /\ UNCHANGED <<disk, exclusion, worktree, registered, head, faults>>

\* git worktree remove --force; nothing when git has no registration.
RemoveWorktree(w) ==
  /\ worktree' = IF w \in registered THEN [worktree EXCEPT ![w] = Absent] ELSE worktree
  /\ registered' = registered \ {w}

CleanupWorkspaceBeforeCreate(q) ==
  /\ Running(q, "cleanup")
  /\ RemoveWorktree(job[q].subject)
  /\ Goto(q, "clear")
  /\ UNCHANGED <<disk, exclusion, head, faults>>

\* create_worktree first removes a directory that is in the way ...
ClearDirectory(q) ==
  /\ Running(q, "clear")
  /\ worktree' = [worktree EXCEPT ![job[q].subject] = Absent]
  /\ Goto(q, "add")
  /\ UNCHANGED <<disk, exclusion, registered, head, faults>>

\* Slip: the head of the new worktree is asked for before the checkout.
Unborn(b) == [at |-> 0, contract |-> Absent, reported |-> 0, unacked |-> FALSE]

Fresh(b) == [at |-> b, contract |-> Absent, reported |-> 0, unacked |-> FALSE]

\* Slip: a refused path is cleared and tried again.
RetryAddWorktree(q) ==
  LET w == job[q].subject IN
  /\ Running(q, "add")
  /\ IF w \in registered
     THEN Goto(q, "clear") /\ UNCHANGED <<worktree, registered>>
     ELSE /\ worktree' = [worktree EXCEPT ![w] = Fresh(job[q].mem.group[job[q].of].base)]
          /\ registered' = registered \cup {w}
          /\ Goto(q, "runtime")
  /\ UNCHANGED <<disk, exclusion, head, faults>>

\* ... and git refuses a path it still has a registration for.
AddWorktree(q) ==
  LET w == job[q].subject IN
  /\ Running(q, "add")
  /\ IF w \in registered
     THEN End(q) /\ UNCHANGED <<worktree, registered>>
     ELSE /\ worktree' = [worktree EXCEPT ![w] = Fresh(job[q].mem.group[job[q].of].base)]
          /\ registered' = registered \cup {w}
          /\ Goto(q, "runtime")
  /\ UNCHANGED <<disk, exclusion, head, faults>>

\* Here and below a command stops being followed when another invocation has
\* taken the worktree from under it; alone, it always finds it.
PrepareWorkerRuntime(q) ==
  LET w == job[q].subject IN
  /\ Running(q, "runtime") /\ worktree[w] # Absent
  /\ worktree' = [worktree EXCEPT ![w].contract = <<job[q].of, worktree[w].at>>]
  /\ Goto(q, "groups")
  /\ UNCHANGED <<disk, exclusion, registered, head, faults>>

\* Between the store and the exclusion set the new worker gets its task.
PublishTask(q) ==
  /\ Running(q, "task") /\ worktree[job[q].subject] # Absent
  /\ worktree' = [worktree EXCEPT ![job[q].subject].unacked = TRUE]
  /\ Goto(q, "project")
  /\ UNCHANGED <<disk, exclusion, registered, head, faults>>

-----------------------------------------------------------------------------
(* worker discard, worker delete *)

ClearIfFinished(s, p) ==
  IF LiveMembers(s, p) = {} /\ s.group[p] # Absent
  THEN [s EXCEPT !.group[p].open = FALSE] ELSE s

Finalized(s, w) ==
  ClearIfFinished([s EXCEPT !.worker[w].state = "DISCARDED", !.worker[w].submitted = 0],
                  s.worker[w].of)

StartDiscard(q) ==
  /\ Running(q, "idle") /\ Loadable
  /\ \E w \in {v \in Worker : IsLive(OnDisk, v)} :
       Begin(q, Job("groups", "discard", workerFile[w].of, w, Finalized(OnDisk, w)))
  /\ UNCHANGED <<disk, exclusion, worktree, registered, head, faults>>

StartDelete(q) ==
  /\ Running(q, "idle") /\ Loadable
  /\ \E w \in {v \in Worker : IsFinal(OnDisk, v)} :
       Begin(q, Job("drop", "delete", workerFile[w].of, w, RemoveWorker(OnDisk, w)))
  /\ UNCHANGED <<disk, exclusion, worktree, registered, head, faults>>

DropWorktree(q) ==
  /\ Running(q, "drop")
  /\ RemoveWorktree(job[q].subject)
  /\ Goto(q, "groups")
  /\ UNCHANGED <<disk, exclusion, head, faults>>

-----------------------------------------------------------------------------
(* The commands of a worker write a mailbox first and then load the state. *)
(* Agents work in the worktree of a worker that is not finalized.          *)

HasAgent(w) ==
  worktree[w] # Absent /\ worktree[w].contract # Absent /\ ~IsFinal(OnDisk, w)

StartReport(q) ==
  /\ Running(q, "idle")
  /\ \E w \in {v \in Worker : HasAgent(v)} :
       /\ worktree' = [worktree EXCEPT ![w].reported = worktree[w].at]
       /\ Begin(q, Job("submit", "report", Absent, w, NoState))
  /\ UNCHANGED <<disk, exclusion, registered, head, faults>>

StartCommit(q) ==
  /\ Running(q, "idle")
  /\ \E w \in {v \in Worker : HasAgent(v)} :
       Begin(q, Job("submit", "commit", Absent, w, NoState))
  /\ UNCHANGED <<disk, exclusion, worktree, registered, head, faults>>

Submitted(w, cmd) ==
  IF cmd = "commit"
  THEN [workerFile[w] EXCEPT !.state = "COMMITTED", !.submitted = worktree[w].at]
  ELSE [workerFile[w] EXCEPT !.state = "BLOCKED", !.submitted = 0]

\* update_submission_state; the bundle stays when the update is refused.
UpdateSubmissionState(q) ==
  LET w == job[q].subject IN
  /\ Running(q, "submit")
  /\ worktree[w] # Absent
  /\ IF Loadable /\ workerFile[w] # Absent /\ workerFile[w].state = "ACTIVE"
     THEN Begin(q, [job[q] EXCEPT !.pc = "groups",
                      !.mem = [OnDisk EXCEPT !.worker[w] = Submitted(w, job[q].cmd)]])
     ELSE End(q)
  /\ UNCHANGED <<disk, exclusion, worktree, registered, head, faults>>

\* resolve (to a blocked) or revise (to a committed worker): one bundle.
PublishWorkerInbox(q) ==
  /\ Running(q, "idle") /\ Loadable
  /\ \E w \in {v \in Worker : IsLive(OnDisk, v) /\ workerFile[v].state # "ACTIVE"} :
       worktree[w] # Absent /\ worktree' = [worktree EXCEPT ![w].unacked = TRUE]
  /\ UNCHANGED <<disk, exclusion, registered, head, job, faults>>

StartAck(q) ==
  /\ Running(q, "idle")
  /\ \E w \in {v \in Worker : HasAgent(v) /\ worktree[v].unacked} :
       /\ worktree' = [worktree EXCEPT ![w].unacked = FALSE]
       /\ Begin(q, Job("activate", "ack", Absent, w, NoState))
  /\ UNCHANGED <<disk, exclusion, registered, head, faults>>

UpdateStateAfterAck(q) ==
  LET w == job[q].subject IN
  /\ Running(q, "activate")
  /\ IF Loadable /\ workerFile[w] # Absent
     THEN Begin(q, [job[q] EXCEPT !.pc = "groups",
                      !.mem = [OnDisk EXCEPT !.worker[w].state = "ACTIVE"]])
     ELSE End(q)
  /\ UNCHANGED <<disk, exclusion, worktree, registered, head, faults>>

-----------------------------------------------------------------------------
(* perspective forward *)

Checkpoint(r, w) == IF r.state = "COMMITTED" THEN r.submitted ELSE worktree[w].reported

AtCheckpoint(s, w) == worktree[w] # Absent /\ worktree[w].at = Checkpoint(s.worker[w], w)

StartForward(q) ==
  /\ Running(q, "idle") /\ Loadable
  /\ \E p \in Perspective :
       LET live == LiveMembers(OnDisk, p) IN
       /\ live # {} /\ groupFile[p].base # head
       /\ \A w \in live : workerFile[w].state # "ACTIVE" /\ AtCheckpoint(OnDisk, w)
       /\ Begin(q, [Job("move", "forward", p, Absent, OnDisk) EXCEPT !.left = live, !.to = head])
  /\ UNCHANGED <<disk, exclusion, worktree, registered, head, faults>>

\* When no worker is left, the contract and boundary files are next.
MoveOn(q, w, moved) ==
  LET rest == job[q].left \ {w} IN
  Begin(q, [job[q] EXCEPT
              !.pc = IF rest = {} THEN "refresh" ELSE "move",
              !.left = IF rest = {} THEN LiveMembers(job[q].mem, job[q].of) ELSE rest,
              !.moved = moved])

\* Slip: the worktrees follow once the state is on disk.
MoveLater(q) ==
  /\ Running(q, "move")
  /\ LET w == NextOf(job[q].left) IN MoveOn(q, w, job[q].moved)
  /\ UNCHANGED <<disk, exclusion, worktree, registered, head, faults>>

\* Slip: the workers moved before this one are forgotten.
ForgetMoved(q) ==
  /\ Running(q, "move")
  /\ LET w == NextOf(job[q].left) IN
       /\ worktree[w] # Absent /\ worktree' = [worktree EXCEPT ![w].at = job[q].to]
       /\ MoveOn(q, w, {w})
  /\ UNCHANGED <<disk, exclusion, registered, head, faults>>

ForwardWorktree(q) ==
  /\ Running(q, "move")
  /\ LET w == NextOf(job[q].left) IN
       /\ worktree[w] # Absent /\ worktree' = [worktree EXCEPT ![w].at = job[q].to]
       /\ MoveOn(q, w, job[q].moved \cup {w})
  /\ UNCHANGED <<disk, exclusion, registered, head, faults>>

Forwarded(s, p, to, live) ==
  [group |-> [s.group EXCEPT ![p] = [base |-> to, open |-> TRUE]],
   worker |-> [w \in Worker |->
                 IF w \in live /\ s.worker[w].state = "COMMITTED"
                 THEN [s.worker[w] EXCEPT !.submitted = to] ELSE s.worker[w]]]

\* Contract and boundary files of each worker, and then the store.
RefreshWorker(q) ==
  LET p == job[q].of IN
  /\ Running(q, "refresh")
  /\ IF job[q].left = {}
     THEN /\ Begin(q, [job[q] EXCEPT !.pc = "groups", !.moved = {},
                         !.mem = Forwarded(@, p, job[q].to, LiveMembers(@, p))])
          /\ UNCHANGED worktree
     ELSE LET w == NextOf(job[q].left) IN
          /\ worktree[w] # Absent
          /\ worktree' = [worktree EXCEPT ![w].contract = <<p, job[q].to>>]
          /\ Begin(q, [job[q] EXCEPT !.left = @ \ {w}])
  /\ UNCHANGED <<disk, exclusion, registered, head, faults>>

\* A worktree that does not rebase (no fault: the worker's commits conflict with
\* the new base), or a surface that cannot be rewritten.
FailForward(q) ==
  /\ \/ Running(q, "move") /\ UNCHANGED faults
     \/ Running(q, "refresh") /\ faults < MaxFaults /\ faults' = faults + 1
  /\ Begin(q, [job[q] EXCEPT !.pc = "rollback", !.left = {}])
  /\ UNCHANGED <<disk, exclusion, worktree, registered, head>>

\* checkout_detached may fail too, which is only logged.
RollbackForwardWorktree(q) ==
  /\ Running(q, "rollback")
  /\ job[q].moved # {} /\ LET w == NextOf(job[q].moved) IN
       \/ /\ worktree[w] # Absent
          /\ worktree' = [worktree EXCEPT ![w].at = Checkpoint(job[q].mem.worker[w], w)]
          /\ Begin(q, [job[q] EXCEPT !.moved = @ \ {w}])
          /\ UNCHANGED faults
       \/ /\ faults < MaxFaults /\ faults' = faults + 1
          /\ Begin(q, [job[q] EXCEPT !.moved = @ \ {w}, !.slips = @ + 1])
          /\ UNCHANGED worktree
  /\ UNCHANGED <<disk, exclusion, registered, head>>

RefuseForward(q) ==
  /\ Running(q, "rollback") /\ job[q].moved = {}
  /\ End(q)
  /\ UNCHANGED <<disk, exclusion, worktree, registered, head, faults>>

-----------------------------------------------------------------------------
(* store_state and rewrite_exclusion_set                                   *)

Kept(files, s) == [x \in DOMAIN files |-> IF s[x] = Absent THEN Absent ELSE files[x]]

Expected(s) == {x \in DOMAIN s : s[x] # Absent}

RemoveStaleGroupFiles(q) ==
  /\ Running(q, "groups")
  /\ groupFile' = Kept(groupFile, job[q].mem.group)
  /\ Goto(q, "workers")
  /\ UNCHANGED <<workerFile, exclusion, worktree, registered, head, faults>>

RemoveStaleWorkerFiles(q) ==
  /\ Running(q, "workers")
  /\ workerFile' = Kept(workerFile, job[q].mem.worker)
  /\ Begin(q, [job[q] EXCEPT !.pc = "write",
                     !.left = Expected(job[q].mem.group) \cup Expected(job[q].mem.worker)])
  /\ UNCHANGED <<groupFile, exclusion, worktree, registered, head, faults>>

\* Slip: the workers are written first.
WorkersFirst(left) ==
  IF left \cap Worker # {} THEN NextOf(left \cap Worker) ELSE NextOf(left)

\* All groups are written before any worker.
NextFile(left) ==
  IF left \cap Perspective # {} THEN NextOf(left \cap Perspective) ELSE NextOf(left)

\* One file gets the contents c; a write that stops leaves it truncated.
WriteFile(f, c) ==
  \/ f \in Perspective /\ groupFile' = [groupFile EXCEPT ![f] = c] /\ UNCHANGED workerFile
  \/ f \in Worker /\ workerFile' = [workerFile EXCEPT ![f] = c] /\ UNCHANGED groupFile

Contents(s, f) == IF f \in Perspective THEN s.group[f] ELSE s.worker[f]

WriteRecord(q) ==
  LET f == NextFile(job[q].left) IN
  /\ Running(q, "write") /\ job[q].left # {}
  /\ WriteFile(f, Contents(job[q].mem, f))
  /\ Begin(q, [job[q] EXCEPT !.left = @ \ {f}])
  /\ UNCHANGED <<exclusion, worktree, registered, head, faults>>

TearRecord(q) ==
  /\ Running(q, "write") /\ job[q].left # {}
  /\ faults < MaxFaults /\ faults' = faults + 1
  /\ WriteFile(NextFile(job[q].left), Torn)
  /\ End(q)
  /\ UNCHANGED <<exclusion, worktree, registered, head>>

\* The commands of a worker leave the exclusion set alone.
Stored(q) ==
  /\ Running(q, "write") /\ job[q].left = {}
  /\ CASE job[q].cmd = "create" -> Goto(q, "task")
       [] job[q].cmd \in {"discard", "delete", "forward"} -> Goto(q, "project")
       [] OTHER -> End(q)
  /\ UNCHANGED <<disk, exclusion, worktree, registered, head, faults>>

\* Slip: the lines are appended to the file.
AppendExclusionSet(q) ==
  /\ Running(q, "project")
  /\ exclusion' = exclusion \cup CollectExclusionSet(job[q].mem)
  /\ End(q)
  /\ UNCHANGED <<disk, worktree, registered, head, faults>>

RewriteExclusionSet(q) ==
  /\ Running(q, "project")
  /\ exclusion' = CollectExclusionSet(job[q].mem)
  /\ End(q)
  /\ UNCHANGED <<disk, worktree, registered, head, faults>>

\* write_path_list truncates and writes line by line.
TearExclusionSet(q) ==
  /\ Running(q, "project")
  /\ faults < MaxFaults /\ faults' = faults + 1
  /\ \E lines \in SUBSET CollectExclusionSet(job[q].mem) : exclusion' = lines
  /\ End(q)
  /\ UNCHANGED <<disk, worktree, registered, head>>

-----------------------------------------------------------------------------
(* The environment. *)

\* A crash of the process, or an error that makes the command return early.
Fault(q) ==
  /\ ~Running(q, "idle")
  /\ faults < MaxFaults /\ faults' = faults + 1
  /\ End(q)
  /\ UNCHANGED <<disk, exclusion, worktree, registered, head>>

AdvanceHead ==
  /\ head < MaxHead /\ head' = head + 1
  /\ UNCHANGED <<disk, exclusion, worktree, registered, job, faults>>

Init ==
  /\ groupFile = [p \in Perspective |-> Absent]
  /\ workerFile = [w \in Worker |-> Absent]
  /\ exclusion = {}
  /\ worktree = [w \in Worker |-> Absent]
  /\ registered = {}
  /\ head = 1
  /\ job = [q \in Process |-> Idle]
  /\ faults = 0

Start(q) ==
  \/ StartCreate(q) \/ StartDiscard(q) \/ StartDelete(q) \/ StartForward(q)
  \/ StartReport(q) \/ StartCommit(q) \/ StartAck(q) \/ PublishWorkerInbox(q)

Store(q) ==
  \/ RemoveStaleGroupFiles(q) \/ RemoveStaleWorkerFiles(q)
  \/ WriteRecord(q) \/ Stored(q) \/ RewriteExclusionSet(q)

Continue(q) ==
  \/ CleanupWorkspaceBeforeCreate(q) \/ ClearDirectory(q) \/ AddWorktree(q)
  \/ PrepareWorkerRuntime(q) \/ PublishTask(q) \/ DropWorktree(q)
  \/ UpdateSubmissionState(q) \/ UpdateStateAfterAck(q)
  \/ ForwardWorktree(q) \/ RefreshWorker(q)
  \/ RollbackForwardWorktree(q) \/ RefuseForward(q)
  \/ Store(q)

Next ==
  \/ \E q \in Process : 
       \/ Start(q) \/ Continue(q) \/ FailForward(q)
       \/ Fault(q) \/ TearRecord(q) \/ TearExclusionSet(q)
  \/ AdvanceHead

\* A process that was started runs on: nothing in a command waits.
Fairness == \A q \in Process : WF_vars(Continue(q))

Spec == Init /\ [][Next]_vars /\ Fairness

-----------------------------------------------------------------------------
(* Properties. *)

AllIdle == \A q \in Process : Running(q, "idle")

\* The files hold records, nothing or a torn write; jobs are well formed.
TypeOK ==
  /\ groupFile \in [Perspective -> GroupRecord \cup {Absent, Torn}]
  /\ workerFile \in [Worker -> WorkerRecord \cup {Absent, Torn}]
  /\ exclusion \subseteq Perspective \X (1..MaxHead)
  /\ worktree \in [Worker -> Worktree \cup {Absent}]
  /\ registered \subseteq Worker
  /\ head \in 1..MaxHead
  /\ faults \in 0..MaxFaults
  /\ \A q \in Process : job[q].mem.group \in Groups /\ job[q].mem.worker \in Workers

\* Wherever a command stops, a worker file that names a missing group is the
\* file of a finalized worker: the groups are written before the workers, so
\* no live worker is lost behind an unreadable state (from_records).
NoOrphanWorkers ==
  \A w \in Worker :
    IsLive(OnDisk, w) => groupFile[workerFile[w].of] # Absent

\* Wherever a command stops, a worker recorded as live has its registered
\* worktree, with the contract of its perspective, at or past the base its
\* group is recorded at: create and forward store the state last.
LiveWorkerHasWorktree ==
  \A w \in Worker : IsLive(OnDisk, w) =>
    LET p == workerFile[w].of IN
    /\ worktree[w] # Absent /\ w \in registered
    /\ worktree[w].contract # Absent /\ worktree[w].contract[1] = p
    /\ Readable(groupFile[p]) =>
         worktree[w].at >= groupFile[p].base /\ worktree[w].contract[2] >= groupFile[p].base

\* While nothing has failed, no command leaves the state torn: between
\* commands it loads, every group has a worker, the exclusion set is the
\* projection of the live groups, contracts name the base of their group and
\* a submission names its worktree's head.
ConsistentWhenIdle ==
  AllIdle /\ faults = 0 =>
    /\ Loadable
    /\ \A p \in Perspective : (groupFile[p] # Absent) = (Members(OnDisk, p) # {})
    /\ exclusion = CollectExclusionSet(OnDisk)
    /\ \A w \in Worker : IsLive(OnDisk, w) =>
         /\ worktree[w].contract[2] = groupFile[workerFile[w].of].base
         /\ workerFile[w].state = "COMMITTED" => AtCheckpoint(OnDisk, w)

\* A create, discard, delete or forward that runs to its end leaves the exclusion
\* set equal to the projection of what is stored, however many commands before
\* it died between the store and the rewrite.  Answers and the worker's commands
\* do not rewrite it.
ProjectionRepaired ==
  [][\A q \in Process :
       Running(q, "project") /\ job'[q] = Idle /\ faults' = faults
         => exclusion' = CollectExclusionSet(OnDisk)']_vars

\* A forward that is refused after moving some worktrees has put every one of
\* them back at its checkpoint, unless a checkout failed (DESIGN.md, 108).
RefusedForwardMovesNothing ==
  [][\A q \in Process :
       Running(q, "rollback") /\ job'[q] = Idle /\ faults' = faults /\ job[q].slips = 0
         => \A w \in LiveMembers(job[q].mem, job[q].of) :
              worktree'[w].at = Checkpoint(job[q].mem.worker[w], w)]_vars

\* A join rewrites every file of the snapshot it loaded; it must not put back
\* or remove a record of another worker that has changed since.
IsJoin(j) == j.cmd = "create" /\ LiveMembers(j.mem, j.of) # {j.subject}

JoinWritesOnlyItsWorker ==
  [][\A q \in Process, w \in Worker :
       (IsJoin(job[q]) /\ job'[q] # job[q] /\ w # job[q].subject
          /\ Readable(workerFile[w]) /\ workerFile'[w] # workerFile[w])
       => job[q].mem.worker[w] = workerFile[w]]_vars

\* A command that has begun ends: it stores, is refused or fails.
CommandsEnd == \A q \in Process : (job[q] # Idle) ~> (job[q] = Idle)
=============================================================================
