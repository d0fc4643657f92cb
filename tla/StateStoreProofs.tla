---------------------------- MODULE StateStoreProofs ----------------------------
(***************************************************************************)
(* Theorems about the orchestrator state on disk: what every stop of a     *)
(* command leaves behind, for any number of workers, perspectives, heads   *)
(* and failures, as long as one command runs at a time.                    *)
(***************************************************************************)
EXTENDS StateStore, TLAPS

\* Nothing in the code locks the state: with two invocations a record can be
\* lost (JoinWritesOnlyItsWorker), so the theorems are about one at a time.
OneProcess == \E q : Process = {q}

\* No perspective is explicitly given an id that another one may choose: the
\* automatic id is not looked up in the other groups.
IdsAreOwn ==
  \A p, q \in Perspective : p # q =>
    \A i \in 1..Len(AutoId[p]) : <<q, AutoId[p][i]>> \notin Explicit

-----------------------------------------------------------------------------
(* The shape of a job. *)

Preparing == {"cleanup", "clear", "add", "runtime"}

Forwarding == {"move", "refresh", "rollback"}

Storing == {"groups", "workers", "write"}

Persisted == {"task", "project"}

Pc == {"idle", "drop", "submit", "activate"}
        \cup Preparing \cup Forwarding \cup Storing \cup Persisted

WorkerCmd == {"report", "commit", "ack"}

Cmd == {"none", "create", "discard", "delete", "forward"} \cup WorkerCmd

JobRecord ==
  [pc : Pc, cmd : Cmd, of : Perspective \cup {Absent}, subject : Worker \cup {Absent},
   mem : [group : Groups, worker : Workers], to : 0..MaxHead,
   left : SUBSET (Perspective \cup Worker), moved : SUBSET Worker, slips : Nat]

-----------------------------------------------------------------------------
(***************************************************************************)
(* The files.                                                              *)
(***************************************************************************)

FilesTyped ==
  /\ groupFile \in [Perspective -> GroupRecord \cup {Absent, Torn}]
  /\ workerFile \in [Worker -> WorkerRecord \cup {Absent, Torn}]
  /\ exclusion \subseteq Perspective \X (1..MaxHead)
  /\ worktree \in [Worker -> Worktree \cup {Absent}]
  /\ registered \subseteq Worker
  /\ head \in 1..MaxHead
  /\ faults \in 0..MaxFaults
  /\ job \in [Process -> JobRecord]

\* No group is recorded at a base that canonical HEAD has not reached.
Reached(s) == \A p \in Perspective : Readable(s.group[p]) => s.group[p].base <= head

\* A worker has an id its perspective may choose or was given.
IdOf(p, w) == (\E i \in 1..Len(AutoId[p]) : AutoId[p][i] = w) \/ <<p, w>> \in Explicit

NamedByOwner(s) == \A w \in Worker : Readable(s.worker[w]) => IdOf(s.worker[w].of, w)

FilesInv ==
  /\ FilesTyped
  /\ Reached(OnDisk)
  /\ NamedByOwner(OnDisk)
  /\ NoOrphanWorkers
  /\ LiveWorkerHasWorktree

\* What from_records accepts.
Joined(s) ==
  \A w \in Worker : s.worker[w] # Absent => s.group[s.worker[w].of] # Absent

Sound(s) ==
  /\ s.group \in Groups /\ s.worker \in Workers
  /\ Joined(s) /\ Reached(s) /\ NamedByOwner(s)

Whole ==
  /\ \A p \in Perspective : groupFile[p] # Torn
  /\ \A w \in Worker : workerFile[w] # Torn

-----------------------------------------------------------------------------
(***************************************************************************)
(* The jobs: what the snapshot in memory has to do with the files and the  *)
(* worktrees while a command is at each of its steps.                      *)
(***************************************************************************)

Provisioned(w, p, b) ==
  /\ worktree[w] # Absent /\ w \in registered
  /\ worktree[w].contract # Absent /\ worktree[w].contract[1] = p
  /\ worktree[w].at >= b /\ worktree[w].contract[2] >= b

ProvisionedIn(s, w) == Provisioned(w, s.worker[w].of, s.group[s.worker[w].of].base)

\* The snapshot may replace the files: it drops no live worker, and the live
\* workers of either have the worktree the snapshot says.
Replaces(j) ==
  /\ Whole /\ Sound(j.mem)
  /\ \A w \in Worker : IsLive(OnDisk, w) =>
       /\ j.mem.worker[w] # Absent
       /\ j.mem.worker[w].of = workerFile[w].of
  /\ \A w \in Worker :
       (IsLive(OnDisk, w) \/ IsLive(j.mem, w)) /\ (j.pc \in Preparing => w # j.subject)
         => ProvisionedIn(j.mem, w)

ReplacingInv(j) == j.pc \in Preparing \cup Storing \cup {"drop"} => Replaces(j)

CreateInv(j) ==
  /\ j.cmd = "create" => j.subject \in Worker
  /\ j.pc = "task" => j.cmd = "create"
  /\ j.pc \in Preparing =>
       /\ j.cmd = "create" /\ j.of \in Perspective
       /\ ~IsLive(OnDisk, j.subject)
       /\ j.mem.worker[j.subject] = NewWorker(j.of)
  /\ j.pc = "runtime" =>
       /\ worktree[j.subject] # Absent /\ j.subject \in registered
       /\ worktree[j.subject].at = j.mem.group[j.of].base

DeleteInv(j) ==
  j.pc = "drop" =>
    /\ j.cmd = "delete" /\ j.subject \in Worker
    /\ ~IsLive(OnDisk, j.subject) /\ ~IsLive(j.mem, j.subject)

AgentInv(j) ==
  /\ j.pc = "submit" => j.cmd \in {"report", "commit"}
  /\ j.pc = "activate" => j.cmd = "ack"
  /\ j.pc \in {"submit", "activate"} =>
       j.subject \in Worker /\ ~IsFinal(OnDisk, j.subject)

Movers(j) == LiveMembers(j.mem, j.of)

CheckpointOf(j, w) == Checkpoint(j.mem.worker[w], w)

ForwardInv(j) ==
  j.pc \in Forwarding =>
    /\ j.cmd = "forward" /\ j.of \in Perspective
    /\ j.mem = OnDisk /\ Sound(j.mem)
    /\ j.to \in j.mem.group[j.of].base..head
    /\ Movers(j) # {} /\ j.left \subseteq Movers(j) /\ j.moved \subseteq Movers(j)
    /\ \A w \in Movers(j) :
         CheckpointOf(j, w) \in j.mem.group[j.of].base..MaxHead
    /\ j.pc # "rollback" => j.slips = 0
    /\ j.pc = "move" =>
         /\ j.left # {} /\ j.moved = Movers(j) \ j.left
         /\ \A w \in Movers(j) \ j.left : worktree[w].at = j.to
         /\ \A w \in Movers(j) \ j.moved : worktree[w].at = CheckpointOf(j, w)
    /\ j.pc = "refresh" =>
         /\ j.moved = Movers(j)
         /\ \A w \in Movers(j) : worktree[w].at = j.to
         /\ \A w \in Movers(j) \ j.left : worktree[w].contract = <<j.of, j.to>>
    /\ j.pc = "rollback" /\ j.slips = 0 =>
         \A w \in Movers(j) \ j.moved : worktree[w].at = CheckpointOf(j, w)

WriteInv(j) ==
  /\ j.pc \in Storing => j.cmd # "none"
  /\ j.pc = "workers" =>
       \A p \in Perspective : j.mem.group[p] = Absent => groupFile[p] = Absent
  /\ j.pc = "write" =>
       /\ j.left \subseteq Expected(j.mem.group) \cup Expected(j.mem.worker)
       /\ \A p \in Perspective \ j.left : groupFile[p] = j.mem.group[p]
       /\ \A w \in Worker \ j.left : workerFile[w] = j.mem.worker[w]
  /\ j.pc \in Persisted => j.mem = OnDisk /\ Sound(j.mem)

JobInv(j) ==
  /\ ReplacingInv(j)
  /\ CreateInv(j)
  /\ DeleteInv(j)
  /\ AgentInv(j)
  /\ ForwardInv(j)
  /\ WriteInv(j)

StoreInv == FilesInv /\ \A q \in Process : JobInv(job[q])

-----------------------------------------------------------------------------
(***************************************************************************)
(* While nothing has failed.                                               *)
(***************************************************************************)

\* Every group has a worker.
Populated(s) ==
  \A p \in Perspective : (s.group[p] # Absent) = (Members(s, p) # {})

ContractMatches(s, w, t) == t.contract[2] = s.group[s.worker[w].of].base

SubmissionMatches(s, w, t) ==
  s.worker[w].state = "COMMITTED" => t.at = s.worker[w].submitted

\* A live worker's worktree is what its record says.
Matches(s, w, t) ==
  IsLive(s, w) => ContractMatches(s, w, t) /\ SubmissionMatches(s, w, t)

\* The files as the last command left them.
FilesCalm(s, x) ==
  /\ s.group \in Groups /\ s.worker \in Workers
  /\ Joined(s) /\ Populated(s) /\ x = CollectExclusionSet(s)

\* A command at each of its steps, over the files s, the worktrees t and the
\* exclusion set x.
Calm(j, s, t, x) ==
  /\ j.pc \notin Storing \cup Persisted => FilesCalm(s, x)
  /\ j.pc \notin Storing \cup Persisted \cup Forwarding =>
       \A w \in Worker : Matches(s, w, t[w])
  /\ j.pc \in Preparing \cup Storing \cup Persisted \cup {"drop"} =>
       /\ Populated(j.mem)
       /\ \A w \in Worker :
            (j.pc \in Preparing => w # j.subject) => Matches(j.mem, w, t[w])
  /\ j.pc \in Storing /\ j.cmd \in WorkerCmd =>
       x = CollectExclusionSet(j.mem)
  /\ j.pc \in Forwarding =>
       /\ \A w \in Worker \ Movers(j) : Matches(s, w, t[w])
       /\ j.pc # "refresh" => \A w \in Movers(j) : ContractMatches(s, w, t[w])
       /\ j.slips = 0

CalmInv ==
  /\ StoreInv
  /\ faults = 0 => \A q \in Process : Calm(job[q], OnDisk, worktree, exclusion)

-----------------------------------------------------------------------------
(* Jobs and their fields. *)

USE DEF Preparing, Forwarding, Storing, Persisted, WorkerCmd, Live

\* Walking a set of names takes one of them.
LEMMA NextOfIn ==
  ASSUME NEW S, S # {}
  PROVE  NextOf(S) \in S
BY DEF NextOf

\* Nothing is running at first.
LEMMA IdleTyped == Idle \in JobRecord
<1>1. NoState \in [group : Groups, worker : Workers]
  BY DEF NoState, Groups, Workers
<1>2. 0 \in 0..MaxHead
  BY StoreBoundsAssumption
<1> QED
  BY <1>1, <1>2 DEF Idle, JobRecord, Pc, Cmd

\* A fresh job has the fields it is given.
LEMMA JobFields ==
  ASSUME NEW pc \in Pc, NEW cmd \in Cmd, NEW p \in Perspective \cup {Absent},
         NEW w \in Worker \cup {Absent},
         NEW mem \in [group : Groups, worker : Workers]
  PROVE  /\ Job(pc, cmd, p, w, mem) \in JobRecord
         /\ Job(pc, cmd, p, w, mem).pc = pc
         /\ Job(pc, cmd, p, w, mem).cmd = cmd
         /\ Job(pc, cmd, p, w, mem).of = p
         /\ Job(pc, cmd, p, w, mem).subject = w
         /\ Job(pc, cmd, p, w, mem).mem = mem
         /\ Job(pc, cmd, p, w, mem).to = 0
         /\ Job(pc, cmd, p, w, mem).left = {}
         /\ Job(pc, cmd, p, w, mem).moved = {}
         /\ Job(pc, cmd, p, w, mem).slips = 0
<1>1. Idle.to = 0 /\ Idle.left = {} /\ Idle.moved = {} /\ Idle.slips = 0
  BY DEF Idle
<1> QED
  BY <1>1, IdleTyped DEF Job, JobRecord

\* Beginning a job makes it the job of the process.
LEMMA BeginJob ==
  ASSUME job \in [Process -> JobRecord], NEW q \in Process,
         NEW j \in JobRecord, Begin(q, j)
  PROVE  job' \in [Process -> JobRecord] /\ job'[q] = j
BY DEF Begin

\* Going on changes the pc and nothing else.
LEMMA GotoJob ==
  ASSUME job \in [Process -> JobRecord], NEW q \in Process,
         NEW pc \in Pc, Goto(q, pc)
  PROVE  /\ job' \in [Process -> JobRecord]
         /\ job'[q] = [job[q] EXCEPT !.pc = pc]
         /\ job'[q].pc = pc
         /\ job'[q].cmd = job[q].cmd /\ job'[q].of = job[q].of
         /\ job'[q].subject = job[q].subject /\ job'[q].mem = job[q].mem
         /\ job'[q].to = job[q].to /\ job'[q].left = job[q].left
         /\ job'[q].moved = job[q].moved /\ job'[q].slips = job[q].slips
BY DEF Goto, JobRecord

\* The updates a command makes of its job, under a name each: a leaf that has
\* to see the update as a function takes too long.
Aimed(k, left, to) ==
  [k EXCEPT !.left = left, !.to = to]

Moving(k, pc, left, moved) ==
  [k EXCEPT !.pc = pc, !.left = left, !.moved = moved]

Walked(k, left) ==
  [k EXCEPT !.left = left]

Phase(k, pc, left) ==
  [k EXCEPT !.pc = pc, !.left = left]

Snapshot(k, pc, mem) ==
  [k EXCEPT !.pc = pc, !.mem = mem]

Advanced(k, pc, moved, mem) ==
  [k EXCEPT !.pc = pc, !.moved = moved, !.mem = mem]

Undone(k, moved) ==
  [k EXCEPT !.moved = moved]

Slipped(k, moved, slips) ==
  [k EXCEPT !.moved = moved, !.slips = slips]

\* A forward gets its workers and the HEAD it goes to.
LEMMA AimFields ==
  ASSUME NEW k \in JobRecord,
         NEW left \in SUBSET (Perspective \cup Worker),
         NEW to \in 0..MaxHead
  PROVE  /\ Aimed(k, left, to) \in JobRecord
         /\ Aimed(k, left, to).pc = k.pc
         /\ Aimed(k, left, to).cmd = k.cmd
         /\ Aimed(k, left, to).of = k.of
         /\ Aimed(k, left, to).subject = k.subject
         /\ Aimed(k, left, to).mem = k.mem
         /\ Aimed(k, left, to).to = to
         /\ Aimed(k, left, to).left = left
         /\ Aimed(k, left, to).moved = k.moved
         /\ Aimed(k, left, to).slips = k.slips
BY DEF Aimed, JobRecord

\* It goes from worker to worker.
LEMMA MoveFields ==
  ASSUME NEW k \in JobRecord,
         NEW pc \in Pc,
         NEW left \in SUBSET (Perspective \cup Worker),
         NEW moved \in SUBSET Worker
  PROVE  /\ Moving(k, pc, left, moved) \in JobRecord
         /\ Moving(k, pc, left, moved).pc = pc
         /\ Moving(k, pc, left, moved).cmd = k.cmd
         /\ Moving(k, pc, left, moved).of = k.of
         /\ Moving(k, pc, left, moved).subject = k.subject
         /\ Moving(k, pc, left, moved).mem = k.mem
         /\ Moving(k, pc, left, moved).to = k.to
         /\ Moving(k, pc, left, moved).left = left
         /\ Moving(k, pc, left, moved).moved = moved
         /\ Moving(k, pc, left, moved).slips = k.slips
BY DEF Moving, JobRecord

\* A walk goes on.
LEMMA LeftFields ==
  ASSUME NEW k \in JobRecord,
         NEW left \in SUBSET (Perspective \cup Worker)
  PROVE  /\ Walked(k, left) \in JobRecord
         /\ Walked(k, left).pc = k.pc
         /\ Walked(k, left).cmd = k.cmd
         /\ Walked(k, left).of = k.of
         /\ Walked(k, left).subject = k.subject
         /\ Walked(k, left).mem = k.mem
         /\ Walked(k, left).to = k.to
         /\ Walked(k, left).left = left
         /\ Walked(k, left).moved = k.moved
         /\ Walked(k, left).slips = k.slips
BY DEF Walked, JobRecord

\* A walk begins.
LEMMA PhaseFields ==
  ASSUME NEW k \in JobRecord,
         NEW pc \in Pc,
         NEW left \in SUBSET (Perspective \cup Worker)
  PROVE  /\ Phase(k, pc, left) \in JobRecord
         /\ Phase(k, pc, left).pc = pc
         /\ Phase(k, pc, left).cmd = k.cmd
         /\ Phase(k, pc, left).of = k.of
         /\ Phase(k, pc, left).subject = k.subject
         /\ Phase(k, pc, left).mem = k.mem
         /\ Phase(k, pc, left).to = k.to
         /\ Phase(k, pc, left).left = left
         /\ Phase(k, pc, left).moved = k.moved
         /\ Phase(k, pc, left).slips = k.slips
BY DEF Phase, JobRecord

\* A command has made its new snapshot.
LEMMA SnapshotFields ==
  ASSUME NEW k \in JobRecord,
         NEW pc \in Pc,
         NEW mem \in [group : Groups, worker : Workers]
  PROVE  /\ Snapshot(k, pc, mem) \in JobRecord
         /\ Snapshot(k, pc, mem).pc = pc
         /\ Snapshot(k, pc, mem).cmd = k.cmd
         /\ Snapshot(k, pc, mem).of = k.of
         /\ Snapshot(k, pc, mem).subject = k.subject
         /\ Snapshot(k, pc, mem).mem = mem
         /\ Snapshot(k, pc, mem).to = k.to
         /\ Snapshot(k, pc, mem).left = k.left
         /\ Snapshot(k, pc, mem).moved = k.moved
         /\ Snapshot(k, pc, mem).slips = k.slips
BY DEF Snapshot, JobRecord

\* A forward has made its new snapshot.
LEMMA ForwardedFields ==
  ASSUME NEW k \in JobRecord,
         NEW pc \in Pc,
         NEW moved \in SUBSET Worker,
         NEW mem \in [group : Groups, worker : Workers]
  PROVE  /\ Advanced(k, pc, moved, mem) \in JobRecord
         /\ Advanced(k, pc, moved, mem).pc = pc
         /\ Advanced(k, pc, moved, mem).cmd = k.cmd
         /\ Advanced(k, pc, moved, mem).of = k.of
         /\ Advanced(k, pc, moved, mem).subject = k.subject
         /\ Advanced(k, pc, moved, mem).mem = mem
         /\ Advanced(k, pc, moved, mem).to = k.to
         /\ Advanced(k, pc, moved, mem).left = k.left
         /\ Advanced(k, pc, moved, mem).moved = moved
         /\ Advanced(k, pc, moved, mem).slips = k.slips
BY DEF Advanced, JobRecord

\* A rollback has put one worktree back.
LEMMA UndoFields ==
  ASSUME NEW k \in JobRecord,
         NEW moved \in SUBSET Worker
  PROVE  /\ Undone(k, moved) \in JobRecord
         /\ Undone(k, moved).pc = k.pc
         /\ Undone(k, moved).cmd = k.cmd
         /\ Undone(k, moved).of = k.of
         /\ Undone(k, moved).subject = k.subject
         /\ Undone(k, moved).mem = k.mem
         /\ Undone(k, moved).to = k.to
         /\ Undone(k, moved).left = k.left
         /\ Undone(k, moved).moved = moved
         /\ Undone(k, moved).slips = k.slips
BY DEF Undone, JobRecord

\* Or has failed to.
LEMMA SlipFields ==
  ASSUME NEW k \in JobRecord,
         NEW moved \in SUBSET Worker,
         NEW slips \in Nat
  PROVE  /\ Slipped(k, moved, slips) \in JobRecord
         /\ Slipped(k, moved, slips).pc = k.pc
         /\ Slipped(k, moved, slips).cmd = k.cmd
         /\ Slipped(k, moved, slips).of = k.of
         /\ Slipped(k, moved, slips).subject = k.subject
         /\ Slipped(k, moved, slips).mem = k.mem
         /\ Slipped(k, moved, slips).to = k.to
         /\ Slipped(k, moved, slips).left = k.left
         /\ Slipped(k, moved, slips).moved = moved
         /\ Slipped(k, moved, slips).slips = slips
BY DEF Slipped, JobRecord

\* A job that has ended satisfies the job invariant.
LEMMA EndJob ==
  ASSUME job \in [Process -> JobRecord], NEW q \in Process, End(q)
  PROVE  /\ job' \in [Process -> JobRecord]
         /\ job'[q] = Idle
         /\ JobInv(job[q])'
<1>1. job' \in [Process -> JobRecord] /\ job'[q] = Idle
  BY IdleTyped DEF End
<1>2. job'[q].pc = "idle" /\ job'[q].cmd = "none"
  BY <1>1 DEF Idle
<1> QED
  BY <1>1, <1>2
     DEF JobInv, ReplacingInv, CreateInv, DeleteInv, AgentInv, ForwardInv, WriteInv

-----------------------------------------------------------------------------
(* The joined state. *)

\* Reading the files as records.
LEMMA DiskTyped ==
  ASSUME FilesTyped, Whole
  PROVE  OnDisk \in [group : Groups, worker : Workers]
BY DEF FilesTyped, Whole, OnDisk, Groups, Workers

\* What loads is whole, and sound.
LEMMA LoadableSound ==
  ASSUME FilesInv, Loadable
  PROVE  Whole /\ Sound(OnDisk)
<1>1. Whole
  BY DEF Loadable, Whole
<1>2. OnDisk.group \in Groups /\ OnDisk.worker \in Workers
  BY <1>1, DiskTyped DEF FilesInv
<1>3. Joined(OnDisk)
  BY DEF Joined, Loadable, OnDisk
<1> QED
  BY <1>1, <1>2, <1>3 DEF Sound, FilesInv

\* A record is readable unless the file is missing or torn.
LEMMA RecordReadable ==
  ASSUME NEW r \in GroupRecord \cup WorkerRecord \cup Worktree
  PROVE  Readable(r)
BY FileAssumption DEF Readable

\* In a sound state a name has a record or nothing.
LEMMA SoundRecords ==
  ASSUME NEW s, Sound(s)
  PROVE  /\ \A p \in Perspective : s.group[p] \in GroupRecord \cup {Absent}
         /\ \A w \in Worker : s.worker[w] \in WorkerRecord \cup {Absent}
         /\ \A p \in Perspective : Readable(s.group[p]) <=> s.group[p] # Absent
         /\ \A w \in Worker : Readable(s.worker[w]) <=> s.worker[w] # Absent
         /\ \A w \in Worker : s.worker[w] # Absent =>
              /\ s.worker[w].of \in Perspective
              /\ s.group[s.worker[w].of] \in GroupRecord
BY FileAssumption DEF Sound, Groups, Workers, Joined, Readable, WorkerRecord

\* The live workers of a state that loads have their worktrees.
LEMMA LiveProvisioned ==
  ASSUME FilesInv, Loadable, NEW w \in Worker, IsLive(OnDisk, w)
  PROVE  ProvisionedIn(OnDisk, w)
<1>1. Sound(OnDisk)
  BY LoadableSound
<1>2. workerFile[w] # Absent /\ OnDisk.worker[w] = workerFile[w]
  BY DEF IsLive, OnDisk, Readable
<1>3. OnDisk.group[workerFile[w].of] = groupFile[workerFile[w].of]
  BY DEF OnDisk
<1>4. Readable(groupFile[workerFile[w].of])
  BY <1>1, <1>2, <1>3, SoundRecords, RecordReadable
<1> QED
  BY <1>2, <1>3, <1>4 DEF FilesInv, LiveWorkerHasWorktree, ProvisionedIn, Provisioned

-----------------------------------------------------------------------------
(* The snapshots commands make of what they loaded. *)

\* Replacing one entry of the joined state.
LEMMA PutWorker ==
  ASSUME NEW s \in [group : Groups, worker : Workers],
         NEW w \in Worker, NEW e \in WorkerRecord \cup {Absent}
  PROVE  /\ [s EXCEPT !.worker[w] = e] \in [group : Groups, worker : Workers]
         /\ [s EXCEPT !.worker[w] = e].worker = [s.worker EXCEPT ![w] = e]
         /\ [s EXCEPT !.worker[w] = e].group = s.group
BY DEF Groups, Workers

\* The entry of a worker that is finalized.
LEMMA DiscardedEntry ==
  ASSUME NEW r \in WorkerRecord
  PROVE  LET e == [r EXCEPT !.state = "DISCARDED", !.submitted = 0]
         IN  e \in WorkerRecord /\ e.of = r.of /\ e.state = "DISCARDED"
<1> DEFINE d == [r EXCEPT !.state = "DISCARDED"]
<1>1. d \in WorkerRecord /\ d.of = r.of /\ d.state = "DISCARDED"
  BY DEF WorkerRecord
<1>2. [r EXCEPT !.state = "DISCARDED", !.submitted = 0] = [d EXCEPT !.submitted = 0]
  OBVIOUS
<1> HIDE DEF d
<1>3. /\ [d EXCEPT !.submitted = 0] \in WorkerRecord
      /\ [d EXCEPT !.submitted = 0].of = d.of
      /\ [d EXCEPT !.submitted = 0].state = d.state
  BY <1>1, StoreBoundsAssumption DEF WorkerRecord
<1> QED
  BY <1>1, <1>2, <1>3

\* Dropping a worker, and with it its group if it was the last, drops nothing
\* else.
LEMMA RemoveSound ==
  ASSUME NEW s \in [group : Groups, worker : Workers], Sound(s), NEW w \in Worker
  PROVE  /\ RemoveWorker(s, w) \in [group : Groups, worker : Workers]
         /\ Sound(RemoveWorker(s, w))
         /\ RemoveWorker(s, w).worker = [s.worker EXCEPT ![w] = Absent]
         /\ \A p \in Perspective :
              RemoveWorker(s, w).group[p] \in {Absent, s.group[p]}
<1> DEFINE t == [s EXCEPT !.worker[w] = Absent]
           r == RemoveWorker(s, w)
<1>1. /\ t \in [group : Groups, worker : Workers]
      /\ t.group = s.group
      /\ t.worker = [s.worker EXCEPT ![w] = Absent]
  BY DEF Groups, Workers
<1>2. /\ r.group = [p \in Perspective |->
                      IF Members(t, p) = {} THEN Absent ELSE s.group[p]]
      /\ r.worker = t.worker
      /\ DOMAIN r = {"group", "worker"}
  BY <1>1 DEF RemoveWorker, GcEmptyGroups
<1>3. r \in [group : Groups, worker : Workers]
  BY <1>1, <1>2 DEF Groups, Workers, RemoveWorker, GcEmptyGroups
<1>4. \A v \in Worker : r.worker[v] # Absent => r.worker[v] = s.worker[v]
  BY <1>1, <1>2 DEF Groups, Workers
<1>5. Joined(r)
  <2> SUFFICES ASSUME NEW v \in Worker, r.worker[v] # Absent
               PROVE  r.group[r.worker[v].of] # Absent
    BY DEF Joined
  <2>1. r.worker[v] = s.worker[v] /\ s.worker[v] # Absent
    BY <1>4
  <2>2. /\ s.worker[v].of \in Perspective
        /\ s.group[s.worker[v].of] \in GroupRecord
        /\ Readable(s.worker[v])
    BY <2>1, SoundRecords
  <2>3. v \in Members(t, s.worker[v].of)
    BY <1>2, <2>1, <2>2 DEF Members
  <2> QED
    BY <1>2, <2>1, <2>2, <2>3, FileAssumption
<1>6. Reached(r)
  BY <1>2 DEF Reached, Sound, Readable
<1>7. NamedByOwner(r)
  BY <1>4 DEF NamedByOwner, Sound, Readable
<1> QED
  BY <1>1, <1>2, <1>3, <1>5, <1>6, <1>7 DEF Sound

\* Finalizing a worker keeps who belongs where, and every base.
LEMMA FinalizedSound ==
  ASSUME NEW s \in [group : Groups, worker : Workers], Sound(s),
         NEW w \in Worker, s.worker[w] # Absent
  PROVE  /\ Finalized(s, w) \in [group : Groups, worker : Workers]
         /\ Sound(Finalized(s, w))
         /\ \A v \in Worker :
              /\ v # w => Finalized(s, w).worker[v] = s.worker[v]
              /\ s.worker[v] # Absent => Finalized(s, w).worker[v].of = s.worker[v].of
              /\ Finalized(s, w).worker[v] = Absent <=> s.worker[v] = Absent
         /\ Finalized(s, w).worker[w].state = "DISCARDED"
         /\ \A p \in Perspective :
              /\ Finalized(s, w).group[p] = Absent <=> s.group[p] = Absent
              /\ s.group[p] # Absent =>
                   Finalized(s, w).group[p].base = s.group[p].base
<1> DEFINE t == [s EXCEPT !.worker[w].state = "DISCARDED", !.worker[w].submitted = 0]
           f == Finalized(s, w)
<1>1. s.worker[w] \in WorkerRecord /\ s.worker[w].of \in Perspective
  BY SoundRecords
<1> DEFINE e == [s.worker[w] EXCEPT !.state = "DISCARDED", !.submitted = 0]
<1>2. /\ e \in WorkerRecord
      /\ e.state = "DISCARDED" /\ e.of = s.worker[w].of
  BY <1>1, DiscardedEntry
<1>3. /\ t \in [group : Groups, worker : Workers]
      /\ t.group = s.group
      /\ t.worker = [s.worker EXCEPT ![w] = e]
  <2>1. t = [s EXCEPT !.worker[w] = e]
    BY DEF Workers
  <2> HIDE DEF e, t
  <2> QED
    BY <1>2, <2>1, PutWorker
<1> HIDE DEF e
<1> HIDE DEF t
<1>4. \/ f = t
      \/ /\ s.group[s.worker[w].of] # Absent
         /\ f = [t EXCEPT !.group[s.worker[w].of].open = FALSE]
  BY <1>3 DEF t, Finalized, ClearIfFinished
<1>5. \A p \in Perspective : s.group[p] # Absent =>
        /\ [s.group[p] EXCEPT !.open = FALSE] \in GroupRecord
        /\ [s.group[p] EXCEPT !.open = FALSE].base = s.group[p].base
  <2>1. \A g \in GroupRecord : /\ [g EXCEPT !.open = FALSE] \in GroupRecord
                               /\ [g EXCEPT !.open = FALSE].base = g.base
    BY DEF GroupRecord
  <2> QED
    BY <2>1, SoundRecords
<1>6. /\ f \in [group : Groups, worker : Workers]
      /\ f.worker = t.worker
  BY <1>1, <1>3, <1>4, <1>5 DEF Groups, Workers
<1>7. \A p \in Perspective :
        /\ f.group[p] = Absent <=> s.group[p] = Absent
        /\ s.group[p] # Absent => f.group[p].base = s.group[p].base
  <2> SUFFICES ASSUME NEW p \in Perspective
               PROVE  /\ f.group[p] = Absent <=> s.group[p] = Absent
                      /\ s.group[p] # Absent => f.group[p].base = s.group[p].base
    OBVIOUS
  <2>1. CASE f.group[p] = s.group[p]
    BY <2>1
  <2>2. CASE f.group[p] # s.group[p]
    <3>1. s.group[p] # Absent /\ f.group[p] = [s.group[p] EXCEPT !.open = FALSE]
      <4>1. f.group = [s.group EXCEPT ![s.worker[w].of] = [@ EXCEPT !.open = FALSE]]
        BY <1>3, <1>4, <2>2 DEF Groups
      <4> QED
        BY <1>1, <1>4, <2>2, <4>1, <1>3 DEF Groups
    <3> QED
      BY <1>5, <3>1, FileAssumption
  <2> QED
    BY <2>1, <2>2
<1>8. \A v \in Worker :
        /\ v # w => f.worker[v] = s.worker[v]
        /\ s.worker[v] # Absent => f.worker[v].of = s.worker[v].of
        /\ f.worker[v] = Absent <=> s.worker[v] = Absent
  BY <1>1, <1>2, <1>3, <1>6, FileAssumption DEF Workers
<1>9. f.worker[w].state = "DISCARDED"
  BY <1>1, <1>2, <1>3, <1>6 DEF Workers
<1>10. Joined(f)
  BY <1>7, <1>8, SoundRecords DEF Joined, Sound
<1>11. Reached(f)
  BY <1>7, FileAssumption DEF Reached, Sound, Readable, Groups
<1>12. NamedByOwner(f)
  BY <1>8, SoundRecords DEF NamedByOwner, Sound, Readable
<1> QED
  BY <1>6, <1>7, <1>8, <1>9, <1>10, <1>11, <1>12 DEF Sound

\* An id is taken that no live worker has: one of the perspective's own, or
\* one it was explicitly given.
LEMMA ResolvedId ==
  ASSUME IdsAreOwn, NEW s, Sound(s), NEW p \in Perspective,
         NEW c \in ResolveCreateWorkerId(s, p)
  PROVE  /\ c.id \in Worker /\ ~IsLive(s, c.id) /\ IdOf(p, c.id)
         /\ c.replaces = IsFinal(s, c.id)
<1>1. CASE \E w \in AllocateWorkerId(s, p) : c = [id |-> w, replaces |-> FALSE]
  <2> DEFINE w == c.id
  <2>1. w \in AllocateWorkerId(s, p) /\ c.replaces = FALSE
    BY <1>1
  <2>2. PICK i \in 1..Len(AutoId[p]) :
          w = AutoId[p][i] /\ AutoId[p][i] \notin Members(s, p)
    BY <2>1 DEF AllocateWorkerId
  <2>3. w \in Worker /\ IdOf(p, w)
    BY <2>2, IdAssumption DEF IdOf
  <2>4. ASSUME Readable(s.worker[w])
        PROVE  FALSE
    <3>1. IdOf(s.worker[w].of, w) /\ s.worker[w].of \in Perspective
      BY <2>3, <2>4, SoundRecords DEF Sound, NamedByOwner
    <3>2. s.worker[w].of = p
      BY <2>2, <3>1, IdAssumption DEF IdOf, IdsAreOwn
    <3> QED
      BY <2>2, <2>3, <2>4, <3>2 DEF Members
  <2> QED
    BY <2>1, <2>3, <2>4 DEF IsLive, IsFinal
<1>2. CASE \E w \in {x \in Worker : <<p, x>> \in Explicit /\ ~IsLive(s, x)} :
             c = [id |-> w, replaces |-> IsFinal(s, w)]
  BY <1>2 DEF IdOf
<1> QED
  BY <1>1, <1>2 DEF ResolveCreateWorkerId

\* The record of a group that is formed now.
LEMMA FormedTyped ==
  ASSUME head \in 1..MaxHead
  PROVE  /\ [base |-> head, open |-> TRUE] \in GroupRecord
         /\ [base |-> head, open |-> TRUE].base = head
BY DEF GroupRecord

\* A new worker joins a live group, or forms one at HEAD, and disturbs no
\* other worker.
LEMMA WithWorkerSound ==
  ASSUME NEW s \in [group : Groups, worker : Workers], Sound(s),
         head \in 1..MaxHead, NEW p \in Perspective, NEW c, NEW w \in Worker,
         c.id = w, c.replaces = IsFinal(s, w), ~IsLive(s, w), IdOf(p, w)
  PROVE  /\ WithWorker(s, p, c) \in [group : Groups, worker : Workers]
         /\ Sound(WithWorker(s, p, c))
         /\ WithWorker(s, p, c).worker[w] = NewWorker(p)
         /\ \A v \in Worker \ {w} : WithWorker(s, p, c).worker[v] = s.worker[v]
         /\ WithWorker(s, p, c).group[p] \in GroupRecord
         /\ LiveMembers(s, p) # {} => WithWorker(s, p, c).group[p] = s.group[p]
         /\ \A x \in Perspective \ {p} :
              WithWorker(s, p, c).group[x] \in {Absent, s.group[x]}
<1> DEFINE r == WithWorker(s, p, c)
           kept == IF IsFinal(s, w) THEN RemoveWorker(s, w) ELSE s
           g == IF LiveMembers(s, p) # {} THEN s.group[p]
                ELSE [base |-> head, open |-> TRUE]
<1>1. /\ kept \in [group : Groups, worker : Workers] /\ Sound(kept)
      /\ kept.worker = [s.worker EXCEPT ![w] = Absent]
      /\ \A x \in Perspective : kept.group[x] \in {Absent, s.group[x]}
  <2>1. CASE IsFinal(s, w)
    BY <2>1, RemoveSound
  <2>2. CASE ~IsFinal(s, w)
    <3>1. s.worker[w] = Absent
      BY <2>2, SoundRecords DEF IsLive, IsFinal, WorkerRecord
    <3>2. s.worker = [s.worker EXCEPT ![w] = Absent]
      BY <3>1 DEF Workers
    <3> QED
      BY <2>2, <3>2
  <2> QED
    BY <2>1, <2>2
<1>2. g \in GroupRecord /\ g.base <= head
  <2>1. CASE LiveMembers(s, p) # {}
    <3>1. PICK v \in Worker : Readable(s.worker[v]) /\ s.worker[v].of = p
      BY <2>1 DEF LiveMembers, Members
    <3>2. s.group[p] \in GroupRecord
      BY <3>1, SoundRecords
    <3> QED
      BY <2>1, <3>2, RecordReadable DEF Sound, Reached
  <2>2. CASE LiveMembers(s, p) = {}
    BY <2>2, FormedTyped
  <2> QED
    BY <2>1, <2>2
<1>3. NewWorker(p) \in WorkerRecord /\ NewWorker(p).of = p
  BY StoreBoundsAssumption DEF NewWorker, WorkerRecord
<1>4. /\ r.group = [kept.group EXCEPT ![p] = g]
      /\ r.worker = [kept.worker EXCEPT ![w] = NewWorker(p)]
      /\ r = [group |-> r.group, worker |-> r.worker]
  BY DEF WithWorker
<1> HIDE DEF kept, g, r
<1>5. r \in [group : Groups, worker : Workers]
  BY <1>1, <1>2, <1>3, <1>4 DEF Groups, Workers
<1>6. /\ r.group[p] = g
      /\ \A x \in Perspective \ {p} : r.group[x] = kept.group[x]
  BY <1>1, <1>4 DEF Groups
<1>7. /\ r.worker[w] = NewWorker(p)
      /\ \A v \in Worker \ {w} :
           r.worker[v] = s.worker[v] /\ r.worker[v] = kept.worker[v]
  BY <1>1, <1>4 DEF Workers
<1>8. Joined(r)
  <2> SUFFICES ASSUME NEW v \in Worker, r.worker[v] # Absent
               PROVE  r.group[r.worker[v].of] # Absent
    BY DEF Joined
  <2>1. CASE r.worker[v].of = p
    BY <1>2, <1>6, <2>1, FileAssumption
  <2>2. CASE r.worker[v].of # p
    <3>1. v # w /\ r.worker[v] = kept.worker[v]
      BY <1>3, <1>7, <2>2
    <3>2. /\ kept.worker[v].of \in Perspective
          /\ kept.group[kept.worker[v].of] # Absent
      BY <1>1, <3>1, SoundRecords DEF Sound, Joined
    <3> QED
      BY <1>6, <2>2, <3>1, <3>2
  <2> QED
    BY <2>1, <2>2
<1>9. Reached(r)
  BY <1>1, <1>2, <1>6 DEF Reached, Sound
<1>10. NamedByOwner(r)
  BY <1>1, <1>3, <1>7 DEF NamedByOwner, Sound
<1>11. LiveMembers(s, p) # {} => g = s.group[p]
  BY DEF g
<1> QED
  BY <1>1, <1>2, <1>5, <1>6, <1>7, <1>8, <1>9, <1>10, <1>11 DEF Sound, r

\* The groups of the other live workers keep their base.
LEMMA WithWorkerKeeps ==
  ASSUME NEW s \in [group : Groups, worker : Workers], Sound(s),
         head \in 1..MaxHead, NEW p \in Perspective, NEW c, NEW w \in Worker,
         c.id = w, c.replaces = IsFinal(s, w), ~IsLive(s, w), IdOf(p, w),
         NEW v \in Worker, IsLive(s, v)
  PROVE  /\ v # w /\ s.worker[v] # Absent
         /\ WithWorker(s, p, c).worker[v] = s.worker[v]
         /\ WithWorker(s, p, c).group[s.worker[v].of] = s.group[s.worker[v].of]
<1> DEFINE r == WithWorker(s, p, c)
<1>1. v # w /\ s.worker[v] # Absent
  BY DEF IsLive, Readable
<1>2. /\ Sound(r) /\ r.worker[v] = s.worker[v]
      /\ LiveMembers(s, p) # {} => r.group[p] = s.group[p]
      /\ \A x \in Perspective \ {p} : r.group[x] \in {Absent, s.group[x]}
  BY <1>1, WithWorkerSound
<1> HIDE DEF r
<1>3. s.worker[v].of \in Perspective /\ r.group[s.worker[v].of] # Absent
  BY <1>1, <1>2, SoundRecords DEF Sound, Joined
<1>4. s.worker[v].of = p => LiveMembers(s, p) # {}
  BY DEF LiveMembers, Members, IsLive
<1>5. r.group[s.worker[v].of] = s.group[s.worker[v].of]
  BY <1>2, <1>3, <1>4
<1> QED
  BY <1>1, <1>2, <1>5 DEF r

\* A snapshot may replace the files it was made from when it keeps the live
\* workers and the bases of their groups.
LEMMA SnapshotReplaces ==
  ASSUME FilesInv, Loadable, NEW j, Sound(j.mem),
         \A w \in Worker : IsLive(OnDisk, w) =>
           /\ j.mem.worker[w] # Absent
           /\ j.mem.worker[w].of = workerFile[w].of
           /\ j.mem.group[workerFile[w].of].base = groupFile[workerFile[w].of].base,
         \A w \in Worker :
           IsLive(j.mem, w) /\ (j.pc \in Preparing => w # j.subject)
             => IsLive(OnDisk, w)
  PROVE  Replaces(j)
<1>1. Whole
  BY LoadableSound
<1>2. ASSUME NEW w \in Worker, IsLive(OnDisk, w)
      PROVE  ProvisionedIn(j.mem, w)
  <2>1. ProvisionedIn(OnDisk, w)
    BY <1>2, LiveProvisioned
  <2> QED
    BY <1>2, <2>1 DEF ProvisionedIn, OnDisk
<1> QED
  BY <1>1, <1>2 DEF Replaces

-----------------------------------------------------------------------------
(* Steps that leave the files, or the worktrees of live workers, alone. *)

\* The worktree of w is where it was, with the contract it had.
Stays(w) ==
  /\ worktree[w] # Absent => /\ worktree'[w] # Absent
                             /\ worktree'[w].at = worktree[w].at
                             /\ worktree'[w].contract = worktree[w].contract
  /\ w \in registered => w \in registered'

\* Files that are not written keep the invariant as long as the worktrees of
\* live workers keep theirs.
LEMMA FilesHeld ==
  ASSUME FilesInv, FilesTyped', UNCHANGED disk, head' >= head,
         LiveWorkerHasWorktree'
  PROVE  FilesInv'
<1>1. OnDisk' = OnDisk /\ groupFile' = groupFile /\ workerFile' = workerFile
  BY DEF disk, OnDisk
<1>2. Reached(OnDisk)'
  <2>1. \A p \in Perspective : Readable(groupFile[p]) =>
          groupFile[p] \in GroupRecord
    BY DEF FilesInv, FilesTyped, Readable
  <2>2. \A p \in Perspective : Readable(groupFile[p]) => groupFile[p].base \in Nat
    BY <2>1, StoreBoundsAssumption DEF GroupRecord
  <2>3. head \in Nat /\ head' \in Nat
    BY DEF FilesInv, FilesTyped
  <2> QED
    BY <1>1, <2>2, <2>3 DEF Reached, FilesInv, OnDisk
<1>3. NamedByOwner(OnDisk)' /\ NoOrphanWorkers'
  BY <1>1 DEF FilesInv, NamedByOwner, NoOrphanWorkers, IsLive, OnDisk
<1> QED
  BY <1>2, <1>3 DEF FilesInv

\* They do when they stay.
LEMMA FilesKept ==
  ASSUME FilesInv, FilesTyped', UNCHANGED disk, head' >= head,
         \A w \in Worker : IsLive(OnDisk, w) => Stays(w)
  PROVE  FilesInv'
<1>1. OnDisk' = OnDisk /\ groupFile' = groupFile /\ workerFile' = workerFile
  BY DEF disk, OnDisk
<1>2. LiveWorkerHasWorktree'
  <2> SUFFICES ASSUME NEW w \in Worker, IsLive(OnDisk, w)
               PROVE  /\ worktree'[w] # Absent /\ w \in registered'
                      /\ worktree'[w].contract = worktree[w].contract
                      /\ worktree'[w].at = worktree[w].at
    BY <1>1 DEF FilesInv, LiveWorkerHasWorktree, IsLive, OnDisk
  <2> QED
    BY DEF Stays, FilesInv, LiveWorkerHasWorktree
<1> QED
  BY <1>2, FilesHeld

\* A sound snapshot stays sound while HEAD advances.
LEMMA SoundKept ==
  ASSUME NEW s, Sound(s), head \in Nat, head' \in Nat, head' >= head
  PROVE  Sound(s)'
<1>1. \A p \in Perspective : Readable(s.group[p]) => s.group[p].base \in Nat
  BY StoreBoundsAssumption DEF Sound, Groups, GroupRecord, Readable
<1> QED
  BY <1>1 DEF Sound, Joined, Reached, NamedByOwner

\* A job that could replace the files still can, if its snapshot is the same.
LEMMA ReplacesKept ==
  ASSUME FilesInv, FilesTyped', NEW q \in Process, NEW j, Replaces(j),
         UNCHANGED disk, head' >= head,
         job'[q].mem = j.mem, job'[q].subject = j.subject,
         j.pc \in Preparing => job'[q].pc \in Preparing,
         \A w \in Worker :
           (IsLive(OnDisk, w) \/ IsLive(j.mem, w))
             /\ (job'[q].pc \in Preparing => w # j.subject) => Stays(w)
  PROVE  Replaces(job[q])'
<1>1. OnDisk' = OnDisk /\ groupFile' = groupFile /\ workerFile' = workerFile
  BY DEF disk, OnDisk
<1>2. head \in Nat /\ head' \in Nat
  BY DEF FilesInv, FilesTyped
<1>3. Sound(j.mem)' 
  BY <1>2, SoundKept DEF Replaces
<1>4. Sound(job[q].mem)'
  BY <1>3 DEF Sound, Joined, Reached, NamedByOwner
<1>5. Whole'
  BY <1>1 DEF Replaces, Whole
<1>6. ASSUME NEW w \in Worker,
             IsLive(OnDisk, w) \/ IsLive(j.mem, w),
             job'[q].pc \in Preparing => w # j.subject
      PROVE  ProvisionedIn(job[q].mem, w)'
  <2>1. ProvisionedIn(j.mem, w)
    BY <1>6 DEF Replaces
  <2>2. Stays(w)
    BY <1>6
  <2> QED
    BY <2>1, <2>2 DEF ProvisionedIn, Provisioned, Stays
<1> QED
  BY <1>1, <1>4, <1>5, <1>6 DEF Replaces, IsLive, OnDisk

-----------------------------------------------------------------------------
(* Commands that begin. *)

\* The live members of a group that loads are workers of it.
LEMMA LiveMemberFacts ==
  ASSUME NEW s, Sound(s), NEW p, NEW w \in LiveMembers(s, p)
  PROVE  /\ w \in Worker /\ IsLive(s, w) /\ s.worker[w].of = p
         /\ p \in Perspective /\ s.group[p] \in GroupRecord
BY SoundRecords DEF LiveMembers, Members, IsLive

\* Starting a command changes nothing but the job.
LEMMA StartKeepsFiles ==
  ASSUME FilesInv, NEW q \in Process, NEW j \in JobRecord, Begin(q, j),
         UNCHANGED <<disk, exclusion, worktree, registered, head, faults>>
  PROVE  FilesInv' /\ job'[q] = j
<1>1. job' \in [Process -> JobRecord] /\ job'[q] = j
  BY BeginJob DEF FilesInv, FilesTyped
<1>2. FilesTyped'
  BY <1>1 DEF FilesInv, FilesTyped, disk
<1>3. \A w \in Worker : Stays(w)
  BY DEF Stays
<1>4. head' >= head
  BY DEF FilesInv, FilesTyped
<1> QED
  BY <1>1, <1>2, <1>3, <1>4, FilesKept

\* worker create.
LEMMA StartCreateStep ==
  ASSUME IdsAreOwn, StoreInv, NEW q \in Process, StartCreate(q)
  PROVE  FilesInv' /\ JobInv(job[q])'
<1>1a. PICK p \in Perspective :
         \E c \in ResolveCreateWorkerId(OnDisk, p) :
           \E pc \in {"cleanup", "clear"} :
             Begin(q, Job(pc, "create", p, c.id, WithWorker(OnDisk, p, c)))
  BY DEF StartCreate
<1>1. PICK c \in ResolveCreateWorkerId(OnDisk, p), pc \in {"cleanup", "clear"} :
        Begin(q, Job(pc, "create", p, c.id, WithWorker(OnDisk, p, c)))
  BY <1>1a
<1> DEFINE w == c.id
           r == WithWorker(OnDisk, p, c)
<1>2. /\ FilesInv /\ Loadable /\ Sound(OnDisk)
      /\ OnDisk \in [group : Groups, worker : Workers]
      /\ head \in 1..MaxHead
  BY LoadableSound, DiskTyped DEF StoreInv, StartCreate, FilesInv, FilesTyped
<1>3. /\ w \in Worker /\ ~IsLive(OnDisk, w) /\ IdOf(p, w)
      /\ c.replaces = IsFinal(OnDisk, w)
  BY <1>2, ResolvedId
<1>4. /\ r \in [group : Groups, worker : Workers] /\ Sound(r)
      /\ r.worker[w] = NewWorker(p)
      /\ \A v \in Worker \ {w} : r.worker[v] = OnDisk.worker[v]
      /\ LiveMembers(OnDisk, p) # {} => r.group[p] = OnDisk.group[p]
      /\ \A x \in Perspective \ {p} : r.group[x] \in {Absent, OnDisk.group[x]}
  BY <1>2, <1>3, WithWorkerSound
<1> HIDE DEF r
<1> DEFINE j == Job(pc, "create", p, w, r)
<1>5. /\ j \in JobRecord /\ j.pc = pc /\ j.cmd = "create" /\ j.of = p
      /\ j.subject = w /\ j.mem = r
  <2>1. pc \in Pc /\ "create" \in Cmd
    BY DEF Pc, Cmd
  <2> QED
    BY <1>3, <1>4, <2>1, JobFields
<1>6. Begin(q, j)
  BY <1>1 DEF r
<1> HIDE DEF j
<1>7. FilesInv' /\ job'[q] = j
  BY <1>2, <1>5, <1>6, StartKeepsFiles DEF StartCreate
<1>8. ASSUME NEW v \in Worker, IsLive(OnDisk, v)
      PROVE  /\ r.worker[v] = OnDisk.worker[v] /\ r.worker[v] # Absent
             /\ r.group[workerFile[v].of].base = groupFile[workerFile[v].of].base
  <2>1. /\ OnDisk.worker[v] # Absent /\ r.worker[v] = OnDisk.worker[v]
        /\ r.group[OnDisk.worker[v].of] = OnDisk.group[OnDisk.worker[v].of]
    BY <1>2, <1>3, <1>8, WithWorkerKeeps DEF r
  <2> QED
    BY <2>1 DEF OnDisk
<1>9. \A v \in Worker \ {w} : IsLive(r, v) => IsLive(OnDisk, v)
  BY <1>4 DEF IsLive
<1>10. Replaces(j)
  <2>1. \A v \in Worker : IsLive(OnDisk, v) =>
          /\ j.mem.worker[v] # Absent
          /\ j.mem.worker[v].of = workerFile[v].of
          /\ j.mem.group[workerFile[v].of].base = groupFile[workerFile[v].of].base
    BY <1>5, <1>8 DEF OnDisk
  <2>2. \A v \in Worker :
          IsLive(j.mem, v) /\ (j.pc \in Preparing => v # j.subject)
            => IsLive(OnDisk, v)
    BY <1>5, <1>9
  <2> QED
    BY <1>2, <1>4, <1>5, <2>1, <2>2, SnapshotReplaces
<1>11. Replaces(job[q])'
  <2>1. head' >= head
    BY <1>2 DEF StartCreate
  <2> QED
    BY <1>2, <1>5, <1>7, <1>10, <2>1, ReplacesKept
       DEF StartCreate, Stays, FilesInv
<1>12. CreateInv(job[q])'
  BY <1>3, <1>4, <1>5, <1>7
     DEF CreateInv, StartCreate, IsLive, OnDisk, disk, NewWorker
<1> QED
  BY <1>5, <1>7, <1>11, <1>12
     DEF JobInv, ReplacingInv, DeleteInv, AgentInv, ForwardInv, WriteInv

\* worker discard.
LEMMA StartDiscardStep ==
  ASSUME StoreInv, NEW q \in Process, StartDiscard(q)
  PROVE  FilesInv' /\ JobInv(job[q])'
<1>1. PICK w \in Worker :
        /\ IsLive(OnDisk, w)
        /\ Begin(q, Job("groups", "discard", workerFile[w].of, w, Finalized(OnDisk, w)))
  BY DEF StartDiscard
<1> DEFINE r == Finalized(OnDisk, w)
           p == workerFile[w].of
<1>2. /\ FilesInv /\ Loadable /\ Sound(OnDisk)
      /\ OnDisk \in [group : Groups, worker : Workers]
  BY LoadableSound, DiskTyped DEF StoreInv, StartDiscard, FilesInv
<1>3. OnDisk.worker[w] # Absent /\ p \in Perspective
  BY <1>1, <1>2, SoundRecords DEF IsLive, Readable, OnDisk
<1>4. /\ r \in [group : Groups, worker : Workers] /\ Sound(r)
      /\ \A v \in Worker :
           /\ v # w => r.worker[v] = OnDisk.worker[v]
           /\ OnDisk.worker[v] # Absent => r.worker[v].of = OnDisk.worker[v].of
           /\ r.worker[v] = Absent <=> OnDisk.worker[v] = Absent
      /\ r.worker[w].state = "DISCARDED"
      /\ \A x \in Perspective :
           OnDisk.group[x] # Absent => r.group[x].base = OnDisk.group[x].base
  BY <1>2, <1>3, FinalizedSound
<1> HIDE DEF r, p
<1> DEFINE j == Job("groups", "discard", p, w, r)
<1>5. /\ j \in JobRecord /\ j.pc = "groups" /\ j.cmd = "discard" /\ j.mem = r
  <2>1. "groups" \in Pc /\ "discard" \in Cmd
    BY DEF Pc, Cmd
  <2> QED
    BY <1>3, <1>4, <2>1, JobFields
<1>6. Begin(q, j)
  BY <1>1 DEF r, p
<1> HIDE DEF j
<1>7. FilesInv' /\ job'[q] = j
  BY <1>2, <1>5, <1>6, StartKeepsFiles DEF StartDiscard
<1>8. Replaces(j)
  <2>1. \A v \in Worker : IsLive(OnDisk, v) =>
          /\ j.mem.worker[v] # Absent
          /\ j.mem.worker[v].of = workerFile[v].of
          /\ j.mem.group[workerFile[v].of].base = groupFile[workerFile[v].of].base
    <3> SUFFICES ASSUME NEW v \in Worker, IsLive(OnDisk, v)
                 PROVE  /\ r.worker[v] # Absent
                        /\ r.worker[v].of = workerFile[v].of
                        /\ r.group[workerFile[v].of].base
                             = groupFile[workerFile[v].of].base
      BY <1>5
    <3>1. OnDisk.worker[v] = workerFile[v] /\ workerFile[v] # Absent
      BY DEF IsLive, Readable, OnDisk
    <3>2. /\ workerFile[v].of \in Perspective
          /\ OnDisk.group[workerFile[v].of] # Absent
      BY <1>2, <3>1, SoundRecords DEF Sound, Joined
    <3> QED
      BY <1>4, <3>1, <3>2 DEF OnDisk
  <2>2. \A v \in Worker : IsLive(j.mem, v) => IsLive(OnDisk, v)
    BY <1>4, <1>5 DEF IsLive
  <2> QED
    BY <1>2, <1>4, <1>5, <2>1, <2>2, SnapshotReplaces
<1>9. Replaces(job[q])'
  <2>1. head' >= head
    BY <1>2 DEF StartDiscard, FilesInv, FilesTyped
  <2> QED
    BY <1>2, <1>5, <1>7, <1>8, <2>1, ReplacesKept
       DEF StartDiscard, Stays, FilesInv
<1> QED
  BY <1>5, <1>7, <1>9
     DEF JobInv, ReplacingInv, CreateInv, DeleteInv, AgentInv, ForwardInv,
         WriteInv

\* worker delete.
LEMMA StartDeleteStep ==
  ASSUME StoreInv, NEW q \in Process, StartDelete(q)
  PROVE  FilesInv' /\ JobInv(job[q])'
<1>1. PICK w \in Worker :
        /\ IsFinal(OnDisk, w)
        /\ Begin(q, Job("drop", "delete", workerFile[w].of, w, RemoveWorker(OnDisk, w)))
  BY DEF StartDelete
<1> DEFINE r == RemoveWorker(OnDisk, w)
           p == workerFile[w].of
<1>2. /\ FilesInv /\ Loadable /\ Sound(OnDisk)
      /\ OnDisk \in [group : Groups, worker : Workers]
  BY LoadableSound, DiskTyped DEF StoreInv, StartDelete, FilesInv
<1>3. ~IsLive(OnDisk, w) /\ p \in Perspective
  BY <1>1, <1>2, SoundRecords DEF IsLive, IsFinal, Readable, OnDisk
<1>4. /\ r \in [group : Groups, worker : Workers] /\ Sound(r)
      /\ r.worker = [OnDisk.worker EXCEPT ![w] = Absent]
      /\ \A x \in Perspective : r.group[x] \in {Absent, OnDisk.group[x]}
  BY <1>2, RemoveSound
<1> HIDE DEF r, p
<1> DEFINE j == Job("drop", "delete", p, w, r)
<1>5. /\ j \in JobRecord /\ j.pc = "drop" /\ j.cmd = "delete" /\ j.mem = r
      /\ j.subject = w
  <2>1. "drop" \in Pc /\ "delete" \in Cmd
    BY DEF Pc, Cmd
  <2> QED
    BY <1>3, <1>4, <2>1, JobFields
<1>6. Begin(q, j)
  BY <1>1 DEF r, p
<1> HIDE DEF j
<1>7. FilesInv' /\ job'[q] = j
  BY <1>2, <1>5, <1>6, StartKeepsFiles DEF StartDelete
<1>8. \A v \in Worker : r.worker[v] = IF v = w THEN Absent ELSE OnDisk.worker[v]
  BY <1>2, <1>4 DEF Workers
<1>9. Replaces(j)
  <2>1. \A v \in Worker : IsLive(OnDisk, v) =>
          /\ j.mem.worker[v] # Absent
          /\ j.mem.worker[v].of = workerFile[v].of
          /\ j.mem.group[workerFile[v].of].base = groupFile[workerFile[v].of].base
    <3> SUFFICES ASSUME NEW v \in Worker, IsLive(OnDisk, v)
                 PROVE  /\ r.worker[v] # Absent
                        /\ r.worker[v].of = workerFile[v].of
                        /\ r.group[workerFile[v].of].base
                             = groupFile[workerFile[v].of].base
      BY <1>5
    <3>1. r.worker[v] = workerFile[v] /\ workerFile[v] # Absent
      BY <1>3, <1>8 DEF IsLive, Readable, OnDisk
    <3>2. /\ workerFile[v].of \in Perspective
          /\ r.group[workerFile[v].of] # Absent
      BY <1>4, <3>1, SoundRecords DEF Sound, Joined
    <3> QED
      BY <1>4, <3>1, <3>2 DEF OnDisk
  <2>2. \A v \in Worker : IsLive(j.mem, v) => IsLive(OnDisk, v)
    BY <1>5, <1>8 DEF IsLive, Readable
  <2> QED
    BY <1>2, <1>4, <1>5, <2>1, <2>2, SnapshotReplaces
<1>10. Replaces(job[q])'
  <2>1. head' >= head
    BY <1>2 DEF StartDelete, FilesInv, FilesTyped
  <2> QED
    BY <1>2, <1>5, <1>7, <1>9, <2>1, ReplacesKept
       DEF StartDelete, Stays, FilesInv
<1>11. DeleteInv(job[q])'
  BY <1>3, <1>5, <1>7, <1>8
     DEF DeleteInv, StartDelete, IsLive, Readable, OnDisk, disk
<1> QED
  BY <1>5, <1>7, <1>10, <1>11
     DEF JobInv, ReplacingInv, CreateInv, AgentInv, ForwardInv, WriteInv

\* perspective forward: every live worker stands at its checkpoint, which is
\* at or past the base of the group.
LEMMA StartForwardStep ==
  ASSUME StoreInv, NEW q \in Process, StartForward(q)
  PROVE  FilesInv' /\ JobInv(job[q])'
<1>1. PICK p \in Perspective :
        /\ LiveMembers(OnDisk, p) # {}
        /\ \A w \in LiveMembers(OnDisk, p) : AtCheckpoint(OnDisk, w)
        /\ Begin(q, [Job("move", "forward", p, Absent, OnDisk) EXCEPT
                       !.left = LiveMembers(OnDisk, p), !.to = head])
  BY DEF StartForward
<1> DEFINE live == LiveMembers(OnDisk, p)
           k == Job("move", "forward", p, Absent, OnDisk)
           j == Aimed(k, live, head)
<1>2. /\ FilesInv /\ Loadable /\ Sound(OnDisk)
      /\ OnDisk \in [group : Groups, worker : Workers]
      /\ head \in 1..MaxHead
  BY LoadableSound, DiskTyped DEF StoreInv, StartForward, FilesInv, FilesTyped
<1>3. /\ k \in JobRecord /\ k.pc = "move" /\ k.cmd = "forward" /\ k.of = p
      /\ k.mem = OnDisk /\ k.moved = {} /\ k.slips = 0
  <2>1. "move" \in Pc /\ "forward" \in Cmd
    BY DEF Pc, Cmd
  <2> QED
    BY <1>2, <2>1, JobFields
<1>4. live \subseteq Worker
  BY DEF LiveMembers, Members
<1>5. Begin(q, j)
  BY <1>1 DEF Aimed
<1> HIDE DEF k, live, j
<1>6. /\ j \in JobRecord /\ j.pc = "move" /\ j.cmd = "forward" /\ j.of = p
      /\ j.mem = OnDisk /\ j.moved = {} /\ j.slips = 0
      /\ j.left = live /\ j.to = head
  <2>1. live \in SUBSET (Perspective \cup Worker)
    BY <1>4
  <2>2. head \in 0..MaxHead
    BY <1>2
  <2>3. k \in JobRecord
    BY <1>3
  <2>4. /\ j \in JobRecord /\ j.pc = k.pc /\ j.cmd = k.cmd /\ j.of = k.of
        /\ j.mem = k.mem /\ j.moved = k.moved /\ j.slips = k.slips
        /\ j.left = live /\ j.to = head
    BY <2>1, <2>2, <2>3, AimFields DEF j
  <2> QED
    BY <1>3, <2>4
<1>7. FilesInv' /\ job'[q] = j
  BY <1>2, <1>5, <1>6, StartKeepsFiles DEF StartForward
<1>8. Movers(j) = live
  BY <1>6 DEF Movers, live
<1>9. \A w \in live :
        /\ worktree[w].at = CheckpointOf(j, w)
        /\ CheckpointOf(j, w) \in j.mem.group[j.of].base..MaxHead
  <2> SUFFICES ASSUME NEW w \in live
               PROVE  /\ worktree[w].at = CheckpointOf(j, w)
                      /\ CheckpointOf(j, w) \in j.mem.group[j.of].base..MaxHead
    OBVIOUS
  <2>1. worktree[w].at = CheckpointOf(j, w) /\ worktree[w] # Absent
    BY <1>1, <1>6 DEF AtCheckpoint, CheckpointOf, live
  <2>2. /\ w \in Worker /\ IsLive(OnDisk, w) /\ OnDisk.worker[w].of = p
        /\ OnDisk.group[p] \in GroupRecord
    BY <1>2, LiveMemberFacts DEF live
  <2>3. worktree[w].at >= OnDisk.group[p].base
    BY <1>2, <2>2, LiveProvisioned DEF ProvisionedIn, Provisioned
  <2>4. worktree[w].at \in 1..MaxHead /\ OnDisk.group[p].base \in 1..MaxHead
    BY <1>2, <2>1, <2>2 DEF FilesInv, FilesTyped, Worktree, GroupRecord
  <2> QED
    BY <1>6, <2>1, <2>3, <2>4
<1>10. /\ OnDisk' = OnDisk /\ head' = head /\ worktree' = worktree
  BY DEF StartForward, disk, OnDisk
<1>11. head \in j.mem.group[j.of].base..head
  <2>1. PICK w \in live : TRUE
    BY <1>1 DEF live
  <2>2. OnDisk.group[p] \in GroupRecord
    BY <1>2, <2>1, LiveMemberFacts DEF live
  <2>3. OnDisk.group[p].base \in 1..MaxHead /\ OnDisk.group[p].base <= head
    BY <1>2, <2>2, RecordReadable DEF Sound, Reached, GroupRecord
  <2> QED
    BY <1>2, <1>6, <2>3
<1>12. ForwardInv(j)
  <2>1. Movers(j) # {} /\ j.left = Movers(j)
    BY <1>1, <1>6, <1>8 DEF live
  <2> QED
    BY <1>2, <1>6, <1>8, <1>9, <1>11, <2>1 DEF ForwardInv
<1>13. ForwardInv(job[q])'
  BY <1>7, <1>10, <1>12
     DEF ForwardInv, Movers, CheckpointOf, Checkpoint, LiveMembers, Members,
         Sound, Joined, Reached, NamedByOwner
<1> QED
  BY <1>6, <1>7, <1>13
     DEF JobInv, ReplacingInv, CreateInv, DeleteInv, AgentInv, WriteInv

-----------------------------------------------------------------------------
(* The surfaces of workers: reports, acknowledgements and inboxes. *)

\* A worktree with another report or inbox is a worktree at the same place.
LEMMA SurfaceTyped ==
  ASSUME NEW t \in Worktree
  PROVE  /\ t.at \in 1..MaxHead
         /\ \A h \in 0..MaxHead :
              /\ [t EXCEPT !.reported = h] \in Worktree
              /\ [t EXCEPT !.reported = h].at = t.at
              /\ [t EXCEPT !.reported = h].contract = t.contract
         /\ \A b \in BOOLEAN :
              /\ [t EXCEPT !.unacked = b] \in Worktree
              /\ [t EXCEPT !.unacked = b].at = t.at
              /\ [t EXCEPT !.unacked = b].contract = t.contract
              /\ [t EXCEPT !.unacked = b].reported = t.reported
BY DEF Worktree

\* Writing one surface moves no worktree.
LEMMA SurfaceStays ==
  ASSUME FilesTyped, NEW w \in Worker, NEW t \in Worktree,
         worktree[w] # Absent, t.at = worktree[w].at,
         t.contract = worktree[w].contract,
         worktree' = [worktree EXCEPT ![w] = t], UNCHANGED registered
  PROVE  /\ worktree' \in [Worker -> Worktree \cup {Absent}]
         /\ \A v \in Worker : Stays(v)
<1>1. worktree'[w] = t /\ t # Absent
  BY FileAssumption DEF FilesTyped
<1> QED
  BY <1>1 DEF FilesTyped, Stays

\* The commands of a worker begin with its mailbox.
LEMMA StartAgentStep ==
  ASSUME StoreInv, NEW q \in Process,
         StartReport(q) \/ StartCommit(q) \/ StartAck(q)
  PROVE  FilesInv' /\ JobInv(job[q])'
<1>1. PICK w \in Worker, pc \in {"submit", "activate"}, cmd \in WorkerCmd :
        /\ HasAgent(w)
        /\ pc = "submit" => cmd \in {"report", "commit"}
        /\ pc = "activate" => cmd = "ack"
        /\ Begin(q, Job(pc, cmd, Absent, w, NoState))
        /\ \/ worktree' = worktree
           \/ worktree' = [worktree EXCEPT ![w].reported = worktree[w].at]
           \/ worktree' = [worktree EXCEPT ![w].unacked = FALSE]
  BY DEF StartReport, StartCommit, StartAck
<1> DEFINE j == Job(pc, cmd, Absent, w, NoState)
<1>2. /\ j \in JobRecord /\ j.pc = pc /\ j.cmd = cmd /\ j.subject = w
  <2>1. pc \in Pc /\ cmd \in Cmd
    BY DEF Pc, Cmd
  <2>2. NoState \in [group : Groups, worker : Workers]
    BY DEF NoState, Groups, Workers
  <2> QED
    BY <2>1, <2>2, JobFields
<1>3. Begin(q, j)
  BY <1>1
<1> HIDE DEF j
<1>4. FilesInv /\ FilesTyped /\ worktree[w] \in Worktree /\ ~IsFinal(OnDisk, w)
      /\ worktree[w] # Absent
  BY <1>1 DEF StoreInv, FilesInv, FilesTyped, HasAgent
<1>5. UNCHANGED <<disk, exclusion, registered, head, faults>>
  BY DEF StartReport, StartCommit, StartAck
<1>6. /\ worktree' \in [Worker -> Worktree \cup {Absent}]
      /\ \A v \in Worker : Stays(v)
  <2>1. CASE worktree' = worktree
    BY <1>4, <1>5, <2>1 DEF Stays, FilesTyped
  <2>2. CASE worktree' = [worktree EXCEPT ![w].reported = worktree[w].at]
    <3>1. worktree[w].at \in 0..MaxHead
      BY <1>4, SurfaceTyped, StoreBoundsAssumption
    <3> DEFINE t == [worktree[w] EXCEPT !.reported = worktree[w].at]
    <3>2. /\ t \in Worktree /\ t.at = worktree[w].at
          /\ t.contract = worktree[w].contract
      BY <1>4, <3>1, SurfaceTyped
    <3>3. worktree' = [worktree EXCEPT ![w] = t]
      BY <1>4, <2>2 DEF FilesTyped
    <3> HIDE DEF t
    <3> QED
      BY <1>4, <1>5, <3>2, <3>3, SurfaceStays
  <2>3. CASE worktree' = [worktree EXCEPT ![w].unacked = FALSE]
    <3> DEFINE t == [worktree[w] EXCEPT !.unacked = FALSE]
    <3>1. /\ t \in Worktree /\ t.at = worktree[w].at
          /\ t.contract = worktree[w].contract
      BY <1>4, SurfaceTyped
    <3>2. worktree' = [worktree EXCEPT ![w] = t]
      BY <1>4, <2>3 DEF FilesTyped
    <3> HIDE DEF t
    <3> QED
      BY <1>4, <1>5, <3>1, <3>2, SurfaceStays
  <2> QED
    BY <1>1, <2>1, <2>2, <2>3
<1>7. FilesTyped' /\ job'[q] = j
  BY <1>2, <1>3, <1>4, <1>5, <1>6, BeginJob DEF FilesTyped, disk
<1>8. FilesInv'
  <2>1. head' >= head
    BY <1>4, <1>5 DEF FilesTyped
  <2> QED
    BY <1>4, <1>5, <1>6, <1>7, <2>1, FilesKept
<1>9. AgentInv(job[q])'
  BY <1>1, <1>2, <1>4, <1>5, <1>7 DEF AgentInv, IsFinal, OnDisk, disk
<1> QED
  BY <1>1, <1>2, <1>7, <1>8, <1>9
     DEF JobInv, ReplacingInv, CreateInv, DeleteInv, ForwardInv, WriteInv

\* A bundle for a worker.
LEMMA PublishWorkerInboxStep ==
  ASSUME StoreInv, NEW q \in Process, PublishWorkerInbox(q)
  PROVE  FilesInv' /\ JobInv(job[q])'
<1>1. PICK w \in Worker :
        /\ worktree[w] # Absent
        /\ worktree' = [worktree EXCEPT ![w].unacked = TRUE]
  BY DEF PublishWorkerInbox
<1> DEFINE t == [worktree[w] EXCEPT !.unacked = TRUE]
<1>2. FilesInv /\ FilesTyped /\ worktree[w] \in Worktree
  BY <1>1 DEF StoreInv, FilesInv, FilesTyped
<1>3. t \in Worktree /\ t.at = worktree[w].at /\ t.contract = worktree[w].contract
  BY <1>2, SurfaceTyped
<1>4. worktree' = [worktree EXCEPT ![w] = t]
  BY <1>1, <1>2 DEF FilesTyped
<1> HIDE DEF t
<1>5. /\ worktree' \in [Worker -> Worktree \cup {Absent}]
      /\ \A v \in Worker : Stays(v)
  BY <1>1, <1>2, <1>3, <1>4, SurfaceStays DEF PublishWorkerInbox
<1>6. FilesTyped'
  BY <1>2, <1>5 DEF PublishWorkerInbox, FilesTyped, disk
<1>7. FilesInv'
  <2>1. head' >= head
    BY <1>2 DEF FilesTyped, PublishWorkerInbox
  <2> QED
    BY <1>2, <1>5, <1>6, <2>1, FilesKept DEF PublishWorkerInbox
<1>8. job'[q].pc = "idle" /\ job'[q].cmd = job[q].cmd /\ job'[q].subject = job[q].subject
  BY DEF PublishWorkerInbox, Running
<1> QED
  BY <1>7, <1>8
     DEF JobInv, ReplacingInv, CreateInv, DeleteInv, AgentInv, ForwardInv,
         WriteInv, StoreInv

-----------------------------------------------------------------------------
(* Worktrees. *)

\* Ending a command, or losing it, leaves the files as they are.
LEMMA EndKeepsFiles ==
  ASSUME FilesInv, NEW q \in Process, End(q), faults' \in 0..MaxFaults,
         UNCHANGED <<disk, exclusion, worktree, registered, head>>
  PROVE  FilesInv' /\ JobInv(job[q])'
<1>1. FilesTyped /\ job \in [Process -> JobRecord]
  BY DEF FilesInv, FilesTyped
<1>2. job' \in [Process -> JobRecord] /\ JobInv(job[q])'
  BY <1>1, EndJob
<1>3. FilesTyped'
  BY <1>1, <1>2 DEF FilesTyped, disk
<1>4. \A w \in Worker : Stays(w)
  BY DEF Stays
<1>5. head' >= head
  BY <1>1 DEF FilesTyped
<1> QED
  BY <1>2, <1>3, <1>4, <1>5, FilesKept

\* While the new worker's worktree is prepared no other worktree changes.
LEMMA PreparingKept ==
  ASSUME FilesInv, NEW q \in Process, JobInv(job[q]), FilesTyped',
         job[q].pc \in Preparing, job'[q].pc \in Preparing,
         job'[q].cmd = job[q].cmd, job'[q].of = job[q].of,
         job'[q].subject = job[q].subject, job'[q].mem = job[q].mem,
         UNCHANGED <<disk, head>>,
         \A w \in Worker : w # job[q].subject => Stays(w),
         job'[q].pc = "runtime" =>
           /\ worktree'[job[q].subject] # Absent
           /\ job[q].subject \in registered'
           /\ worktree'[job[q].subject].at = job[q].mem.group[job[q].of].base
  PROVE  FilesInv' /\ JobInv(job[q])'
<1>1. OnDisk' = OnDisk
  BY DEF disk, OnDisk
<1>2. /\ job[q].subject \in Worker /\ job[q].cmd = "create"
      /\ job[q].of \in Perspective
      /\ ~IsLive(OnDisk, job[q].subject)
      /\ job[q].mem.worker[job[q].subject] = NewWorker(job[q].of)
  BY DEF JobInv, CreateInv
<1>3. head' >= head
  BY DEF FilesInv, FilesTyped
<1>4. FilesInv'
  BY <1>2, <1>3, FilesKept
<1>5. Replaces(job[q])
  BY DEF JobInv, ReplacingInv
<1>6. Replaces(job[q])'
  BY <1>3, <1>5, ReplacesKept
<1>7. CreateInv(job[q])'
  BY <1>1, <1>2 DEF CreateInv, IsLive
<1> QED
  BY <1>2, <1>4, <1>6, <1>7
     DEF JobInv, ReplacingInv, DeleteInv, AgentInv, ForwardInv, WriteInv

\* worker create takes the worktree of a finalized worker away.
LEMMA CleanupStep ==
  ASSUME StoreInv, NEW q \in Process, CleanupWorkspaceBeforeCreate(q)
  PROVE  FilesInv' /\ JobInv(job[q])'
<1>1. FilesInv /\ FilesTyped /\ JobInv(job[q])
  BY DEF StoreInv, FilesInv
<1>2. job[q].pc = "cleanup" /\ job \in [Process -> JobRecord] /\ "clear" \in Pc
  BY <1>1 DEF CleanupWorkspaceBeforeCreate, Running, FilesTyped, Pc
<1>3. /\ job' \in [Process -> JobRecord] /\ job'[q].pc = "clear"
      /\ job'[q].cmd = job[q].cmd /\ job'[q].of = job[q].of
      /\ job'[q].subject = job[q].subject /\ job'[q].mem = job[q].mem
  BY <1>2, GotoJob DEF CleanupWorkspaceBeforeCreate
<1>4. /\ worktree' \in [Worker -> Worktree \cup {Absent}]
      /\ registered' \subseteq Worker
      /\ \A w \in Worker : w # job[q].subject => Stays(w)
  BY <1>1 DEF CleanupWorkspaceBeforeCreate, RemoveWorktree, FilesTyped, Stays
<1>5. FilesTyped'
  BY <1>1, <1>3, <1>4 DEF CleanupWorkspaceBeforeCreate, FilesTyped, disk
<1> QED
  BY <1>1, <1>2, <1>3, <1>4, <1>5, PreparingKept DEF CleanupWorkspaceBeforeCreate

\* And whatever directory is left in its place.
LEMMA ClearStep ==
  ASSUME StoreInv, NEW q \in Process, ClearDirectory(q)
  PROVE  FilesInv' /\ JobInv(job[q])'
<1>1. FilesInv /\ FilesTyped /\ JobInv(job[q])
  BY DEF StoreInv, FilesInv
<1>2. job[q].pc = "clear" /\ job \in [Process -> JobRecord] /\ "add" \in Pc
  BY <1>1 DEF ClearDirectory, Running, FilesTyped, Pc
<1>3. /\ job' \in [Process -> JobRecord] /\ job'[q].pc = "add"
      /\ job'[q].cmd = job[q].cmd /\ job'[q].of = job[q].of
      /\ job'[q].subject = job[q].subject /\ job'[q].mem = job[q].mem
  BY <1>2, GotoJob DEF ClearDirectory
<1>4. /\ worktree' \in [Worker -> Worktree \cup {Absent}]
      /\ \A w \in Worker : w # job[q].subject => Stays(w)
  BY <1>1 DEF ClearDirectory, FilesTyped, Stays
<1>5. FilesTyped'
  BY <1>1, <1>3, <1>4 DEF ClearDirectory, FilesTyped, disk
<1> QED
  BY <1>1, <1>2, <1>3, <1>4, <1>5, PreparingKept DEF ClearDirectory

\* A worktree that git has just added.
LEMMA FreshWorktree ==
  ASSUME NEW b \in 1..MaxHead
  PROVE  Fresh(b) \in Worktree /\ Fresh(b).at = b /\ Fresh(b) # Absent
<1>1. Fresh(b) \in Worktree /\ Fresh(b).at = b
  BY StoreBoundsAssumption DEF Fresh, Worktree
<1> QED
  BY <1>1, FileAssumption

\* git adds the worktree at the base of the group, or refuses to.
LEMMA AddStep ==
  ASSUME StoreInv, NEW q \in Process, AddWorktree(q)
  PROVE  FilesInv' /\ JobInv(job[q])'
<1> DEFINE w == job[q].subject
           b == job[q].mem.group[job[q].of].base
<1>1. FilesInv /\ FilesTyped /\ JobInv(job[q])
  BY DEF StoreInv, FilesInv
<1>2. job[q].pc = "add" /\ job \in [Process -> JobRecord]
  BY <1>1 DEF AddWorktree, Running, FilesTyped
<1>3. CASE w \in registered
  <2>1. End(q) /\ UNCHANGED <<disk, exclusion, worktree, registered, head, faults>>
    BY <1>3 DEF AddWorktree
  <2>2. faults' \in 0..MaxFaults
    BY <1>1, <2>1 DEF FilesTyped
  <2> QED
    BY <1>1, <2>1, <2>2, EndKeepsFiles
<1>4. CASE w \notin registered
  <2>1. /\ worktree' = [worktree EXCEPT ![w] = Fresh(b)]
        /\ registered' = registered \cup {w}
        /\ Goto(q, "runtime")
        /\ UNCHANGED <<disk, exclusion, head, faults>>
    BY <1>4 DEF AddWorktree
  <2>2. "runtime" \in Pc
    BY DEF Pc
  <2>3. /\ job' \in [Process -> JobRecord] /\ job'[q].pc = "runtime"
        /\ job'[q].cmd = job[q].cmd /\ job'[q].of = job[q].of
        /\ job'[q].subject = job[q].subject /\ job'[q].mem = job[q].mem
    BY <1>2, <2>1, <2>2, GotoJob
  <2>4. /\ w \in Worker /\ job[q].of \in Perspective
        /\ job[q].mem.worker[w] = NewWorker(job[q].of)
        /\ Sound(job[q].mem)
    BY <1>1, <1>2 DEF JobInv, CreateInv, ReplacingInv, Replaces
  <2>5. b \in 1..MaxHead
    <3>1. NewWorker(job[q].of) # Absent /\ NewWorker(job[q].of).of = job[q].of
      <4>1. NewWorker(job[q].of) \in WorkerRecord
        BY <2>4, StoreBoundsAssumption DEF NewWorker, WorkerRecord
      <4> QED
        BY <4>1, FileAssumption DEF NewWorker
    <3>2. job[q].mem.group[job[q].of] \in GroupRecord
      BY <2>4, <3>1, SoundRecords
    <3> QED
      BY <3>2 DEF GroupRecord
  <2> HIDE DEF b, w
  <2>6. /\ worktree' \in [Worker -> Worktree \cup {Absent}]
        /\ registered' \subseteq Worker
        /\ \A v \in Worker : v # w => Stays(v)
        /\ worktree'[w] # Absent /\ w \in registered' /\ worktree'[w].at = b
    BY <1>1, <2>1, <2>4, <2>5, FreshWorktree DEF FilesTyped, Stays
  <2>7. FilesTyped'
    BY <1>1, <2>1, <2>3, <2>6 DEF FilesTyped, disk
  <2> QED
    BY <1>1, <1>2, <2>1, <2>3, <2>6, <2>7, PreparingKept DEF w, b
<1> QED
  BY <1>3, <1>4

\* A worktree with another contract is a worktree at the same place.
LEMMA ContractTyped ==
  ASSUME NEW t \in Worktree, NEW p \in Perspective, NEW b \in 1..MaxHead
  PROVE  /\ [t EXCEPT !.contract = <<p, b>>] \in Worktree
         /\ [t EXCEPT !.contract = <<p, b>>].at = t.at
         /\ [t EXCEPT !.contract = <<p, b>>].contract = <<p, b>>
         /\ [t EXCEPT !.contract = <<p, b>>].reported = t.reported
BY DEF Worktree

\* A boundary names its perspective and its base.
LEMMA ContractParts ==
  ASSUME NEW p \in Perspective, NEW b \in 1..MaxHead
  PROVE  <<p, b>> # Absent /\ <<p, b>>[1] = p /\ <<p, b>>[2] = b
BY FileAssumption

\* The contract is the last thing the new worktree gets.
LEMMA RuntimeStep ==
  ASSUME StoreInv, NEW q \in Process, PrepareWorkerRuntime(q)
  PROVE  FilesInv' /\ JobInv(job[q])'
<1> DEFINE w == job[q].subject
           p == job[q].of
           t == [worktree[w] EXCEPT !.contract = <<p, worktree[w].at>>]
<1>1. FilesInv /\ FilesTyped /\ JobInv(job[q])
  BY DEF StoreInv, FilesInv
<1>2. job[q].pc = "runtime" /\ job \in [Process -> JobRecord] /\ "groups" \in Pc
  BY <1>1 DEF PrepareWorkerRuntime, Running, FilesTyped, Pc
<1>3. /\ job' \in [Process -> JobRecord] /\ job'[q].pc = "groups"
      /\ job'[q].cmd = job[q].cmd
      /\ job'[q].subject = w /\ job'[q].mem = job[q].mem
  BY <1>2, GotoJob DEF PrepareWorkerRuntime
<1>4. /\ w \in Worker /\ p \in Perspective /\ job[q].cmd = "create"
      /\ ~IsLive(OnDisk, w)
      /\ job[q].mem.worker[w] = NewWorker(p)
      /\ worktree[w] # Absent /\ w \in registered
      /\ worktree[w].at = job[q].mem.group[p].base
      /\ Replaces(job[q])
  BY <1>1, <1>2 DEF JobInv, CreateInv, ReplacingInv
<1>5. worktree[w] \in Worktree /\ worktree[w].at \in 1..MaxHead
  BY <1>1, <1>4 DEF FilesTyped, Worktree
<1>6. worktree' = [worktree EXCEPT ![w] = t]
  BY <1>1, <1>4 DEF PrepareWorkerRuntime, FilesTyped
<1>7. /\ t \in Worktree /\ t.at = worktree[w].at
      /\ t.contract = <<p, worktree[w].at>> /\ t # Absent
  BY <1>4, <1>5, ContractTyped, FileAssumption
<1>8. /\ t.contract # Absent /\ t.contract[1] = p
      /\ t.contract[2] = worktree[w].at
  BY <1>4, <1>5, <1>7, ContractParts
<1> HIDE DEF t, w, p
<1>9. UNCHANGED <<disk, exclusion, registered, head, faults>>
  BY DEF PrepareWorkerRuntime
<1>10. /\ worktree' \in [Worker -> Worktree \cup {Absent}]
       /\ worktree'[w] = t
       /\ \A v \in Worker : v # w => Stays(v)
  BY <1>1, <1>4, <1>6, <1>7, <1>9 DEF FilesTyped, Stays
<1>11. FilesTyped'
  BY <1>1, <1>3, <1>9, <1>10 DEF FilesTyped, disk
<1>12. head' >= head
  BY <1>1, <1>9 DEF FilesTyped
<1>13. FilesInv'
  BY <1>1, <1>4, <1>9, <1>10, <1>11, <1>12, FilesKept
<1>14. OnDisk' = OnDisk
  BY <1>9 DEF disk, OnDisk
<1>15. Replaces(job[q])'
  <2>1. Sound(job[q].mem)'
    BY <1>3, <1>4, <1>9 DEF Replaces, Sound, Joined, Reached, NamedByOwner
  <2>2. Whole'
    BY <1>4, <1>9 DEF Replaces, Whole, disk
  <2>3. ASSUME NEW v \in Worker, v # w,
               IsLive(OnDisk, v) \/ IsLive(job[q].mem, v)
        PROVE  ProvisionedIn(job[q].mem, v)'
    <3>1. ProvisionedIn(job[q].mem, v)
      BY <1>4, <2>3 DEF Replaces, w
    <3>2. Stays(v)
      BY <1>10, <2>3
    <3> QED
      BY <1>3, <3>1, <3>2 DEF ProvisionedIn, Provisioned, Stays
  <2>4. ASSUME NEW v \in Worker, v = w
        PROVE  ProvisionedIn(job[q].mem, v)'
    <3>1. job'[q].mem.worker[v].of = p
      BY <1>3, <1>4, <2>4 DEF NewWorker
    <3>2. /\ worktree'[v].at >= job'[q].mem.group[p].base
          /\ worktree'[v].contract[2] >= job'[q].mem.group[p].base
      BY <1>3, <1>4, <1>5, <1>7, <1>8, <1>10, <2>4
    <3>3. /\ worktree'[v] # Absent /\ v \in registered'
          /\ worktree'[v].contract # Absent /\ worktree'[v].contract[1] = p
      BY <1>4, <1>7, <1>8, <1>9, <1>10, <2>4
    <3> QED
      BY <3>1, <3>2, <3>3 DEF ProvisionedIn, Provisioned
  <2>5. \A v \in Worker : IsLive(OnDisk, v) =>
          /\ job[q].mem.worker[v] # Absent
          /\ job[q].mem.worker[v].of = workerFile[v].of
    BY <1>4 DEF Replaces
  <2>6. \A v \in Worker : IsLive(OnDisk, v) \/ IsLive(job[q].mem, v) =>
          ProvisionedIn(job[q].mem, v)'
    BY <2>3, <2>4
  <2>7. workerFile' = workerFile
    BY <1>9 DEF disk
  <2> QED
    BY <1>3, <1>14, <2>1, <2>2, <2>5, <2>6, <2>7 DEF Replaces, IsLive
<1> QED
  BY <1>3, <1>4, <1>13, <1>15
     DEF JobInv, ReplacingInv, CreateInv, DeleteInv, AgentInv, ForwardInv, WriteInv

\* The new worker's task, when its state is on disk.
LEMMA PublishTaskStep ==
  ASSUME StoreInv, NEW q \in Process, PublishTask(q)
  PROVE  FilesInv' /\ JobInv(job[q])'
<1> DEFINE w == job[q].subject
           t == [worktree[w] EXCEPT !.unacked = TRUE]
<1>1. FilesInv /\ FilesTyped /\ JobInv(job[q])
  BY DEF StoreInv, FilesInv
<1>2. job[q].pc = "task" /\ job \in [Process -> JobRecord] /\ "project" \in Pc
  BY <1>1 DEF PublishTask, Running, FilesTyped, Pc
<1>3. /\ job' \in [Process -> JobRecord] /\ job'[q].pc = "project"
      /\ job'[q].cmd = job[q].cmd
      /\ job'[q].subject = w /\ job'[q].mem = job[q].mem
  BY <1>2, GotoJob DEF PublishTask
<1>4. /\ w \in Worker /\ job[q].cmd = "create" /\ worktree[w] # Absent
      /\ job[q].mem = OnDisk /\ Sound(job[q].mem)
  BY <1>1, <1>2 DEF JobInv, CreateInv, WriteInv, PublishTask
<1>5. worktree[w] \in Worktree
  BY <1>1, <1>4 DEF FilesTyped
<1>6. worktree' = [worktree EXCEPT ![w] = t]
  BY <1>1, <1>4 DEF PublishTask, FilesTyped
<1>7. t \in Worktree /\ t.at = worktree[w].at /\ t.contract = worktree[w].contract
  BY <1>5, SurfaceTyped
<1> HIDE DEF t, w
<1>8. UNCHANGED <<disk, exclusion, registered, head, faults>>
  BY DEF PublishTask
<1>9. /\ worktree' \in [Worker -> Worktree \cup {Absent}]
      /\ \A v \in Worker : Stays(v)
  BY <1>1, <1>4, <1>6, <1>7, <1>8, SurfaceStays
<1>10. FilesTyped'
  BY <1>1, <1>3, <1>8, <1>9 DEF FilesTyped, disk
<1>11. head' >= head
  BY <1>1, <1>8 DEF FilesTyped
<1>12. FilesInv'
  BY <1>1, <1>8, <1>9, <1>10, <1>11, FilesKept
<1>13. job'[q].mem = OnDisk' /\ Sound(job[q].mem)'
  BY <1>3, <1>4, <1>8
     DEF OnDisk, disk, Sound, Joined, Reached, NamedByOwner
<1> QED
  BY <1>3, <1>4, <1>12, <1>13
     DEF JobInv, ReplacingInv, CreateInv, DeleteInv, AgentInv, ForwardInv, WriteInv

\* worker delete takes the worktree first.
LEMMA DropStep ==
  ASSUME StoreInv, NEW q \in Process, DropWorktree(q)
  PROVE  FilesInv' /\ JobInv(job[q])'
<1> DEFINE w == job[q].subject
<1>1. FilesInv /\ FilesTyped /\ JobInv(job[q])
  BY DEF StoreInv, FilesInv
<1>2. job[q].pc = "drop" /\ job \in [Process -> JobRecord] /\ "groups" \in Pc
  BY <1>1 DEF DropWorktree, Running, FilesTyped, Pc
<1>3. /\ job' \in [Process -> JobRecord] /\ job'[q].pc = "groups"
      /\ job'[q].cmd = job[q].cmd
      /\ job'[q].subject = w /\ job'[q].mem = job[q].mem
  BY <1>2, GotoJob DEF DropWorktree
<1>4. /\ w \in Worker /\ job[q].cmd = "delete" /\ Replaces(job[q])
      /\ ~IsLive(OnDisk, w) /\ ~IsLive(job[q].mem, w)
  BY <1>1, <1>2 DEF JobInv, DeleteInv, ReplacingInv
<1>5. UNCHANGED <<disk, exclusion, head, faults>>
  BY DEF DropWorktree
<1>6. /\ worktree' \in [Worker -> Worktree \cup {Absent}]
      /\ registered' \subseteq Worker
      /\ \A v \in Worker : v # w => Stays(v)
  BY <1>1 DEF DropWorktree, RemoveWorktree, FilesTyped, Stays
<1>7. FilesTyped'
  BY <1>1, <1>3, <1>5, <1>6 DEF FilesTyped, disk
<1>8. head' >= head
  BY <1>1, <1>5 DEF FilesTyped
<1>9. FilesInv'
  BY <1>1, <1>4, <1>5, <1>6, <1>7, <1>8, FilesKept
<1>10. Replaces(job[q])'
  BY <1>1, <1>2, <1>3, <1>4, <1>5, <1>6, <1>7, <1>8, ReplacesKept
<1> QED
  BY <1>3, <1>4, <1>9, <1>10
     DEF JobInv, ReplacingInv, CreateInv, DeleteInv, AgentInv, ForwardInv, WriteInv

-----------------------------------------------------------------------------
(* The commands of a worker, once they load the state. *)

\* Replacing the record of a worker by one of the same perspective.
LEMMA EntrySound ==
  ASSUME NEW s \in [group : Groups, worker : Workers], Sound(s), NEW w \in Worker,
         s.worker[w] # Absent, NEW e \in WorkerRecord, e.of = s.worker[w].of
  PROVE  /\ [s EXCEPT !.worker[w] = e] \in [group : Groups, worker : Workers]
         /\ Sound([s EXCEPT !.worker[w] = e])
         /\ [s EXCEPT !.worker[w] = e].group = s.group
         /\ [s EXCEPT !.worker[w] = e].worker = [s.worker EXCEPT ![w] = e]
<1> DEFINE r == [s EXCEPT !.worker[w] = e]
<1>1. /\ r \in [group : Groups, worker : Workers]
      /\ r.group = s.group /\ r.worker = [s.worker EXCEPT ![w] = e]
  BY PutWorker
<1> HIDE DEF r
<1>2. \A v \in Worker :
        /\ r.worker[v] # Absent => s.worker[v] # Absent
        /\ s.worker[v] # Absent => r.worker[v].of = s.worker[v].of
  BY <1>1 DEF Workers
<1>3. Joined(r)
  BY <1>1, <1>2 DEF Sound, Joined
<1>4. Reached(r)
  BY <1>1 DEF Sound, Reached
<1>5. NamedByOwner(r)
  <2> SUFFICES ASSUME NEW v \in Worker, Readable(r.worker[v])
               PROVE  IdOf(r.worker[v].of, v)
    BY DEF NamedByOwner
  <2>1. r.worker[v] # Absent
    BY DEF Readable
  <2> QED
    BY <1>2, <2>1, SoundRecords DEF Sound, NamedByOwner
<1> QED
  BY <1>1, <1>3, <1>4, <1>5 DEF Sound, r

\* A worker that reports, commits or acknowledges changes its own record only.
LEMMA EntryUpdate ==
  ASSUME StoreInv, NEW q \in Process, Loadable, job[q].cmd \in WorkerCmd,
         NEW w \in Worker, ~IsFinal(OnDisk, w), workerFile[w] # Absent,
         NEW e \in WorkerRecord, e.of = workerFile[w].of,
         Begin(q, Snapshot(job[q], "groups", [OnDisk EXCEPT !.worker[w] = e])),
         UNCHANGED <<disk, exclusion, worktree, registered, head, faults>>
  PROVE  FilesInv' /\ JobInv(job[q])'
<1> DEFINE r == [OnDisk EXCEPT !.worker[w] = e]
           j == Snapshot(job[q], "groups", r)
<1>1. /\ FilesInv /\ Sound(OnDisk) /\ job[q] \in JobRecord
      /\ OnDisk \in [group : Groups, worker : Workers]
  BY LoadableSound, DiskTyped DEF StoreInv, FilesInv, FilesTyped
<1>2. OnDisk.worker[w] = workerFile[w] /\ OnDisk.group = groupFile
  BY DEF OnDisk
<1>3. /\ r \in [group : Groups, worker : Workers] /\ Sound(r)
      /\ r.group = groupFile
      /\ r.worker = [OnDisk.worker EXCEPT ![w] = e]
  BY <1>1, <1>2, EntrySound
<1> HIDE DEF r
<1>4. j \in JobRecord /\ j.pc = "groups" /\ j.cmd = job[q].cmd /\ j.mem = r
  <2>1. "groups" \in Pc
    BY DEF Pc
  <2> QED
    BY <1>1, <1>3, <2>1, SnapshotFields
<1>5. Begin(q, j)
  BY DEF r
<1> HIDE DEF j
<1>6. FilesInv' /\ job'[q] = j
  BY <1>1, <1>4, <1>5, StartKeepsFiles
<1>7. IsLive(OnDisk, w)
  <2>1. OnDisk.worker[w] \in WorkerRecord /\ Readable(OnDisk.worker[w])
    BY <1>1, <1>2, SoundRecords
  <2> QED
    BY <2>1 DEF IsLive, IsFinal, WorkerRecord
<1>8. \A v \in Worker : v # w => r.worker[v] = workerFile[v]
  BY <1>1, <1>3 DEF Workers, OnDisk
<1>9. r.worker[w] = e /\ e # Absent
  BY <1>1, <1>3, FileAssumption DEF Workers
<1>10. Replaces(j)
  <2>1. \A v \in Worker : IsLive(OnDisk, v) =>
          /\ j.mem.worker[v] # Absent
          /\ j.mem.worker[v].of = workerFile[v].of
          /\ j.mem.group[workerFile[v].of].base = groupFile[workerFile[v].of].base
    <3> SUFFICES ASSUME NEW v \in Worker, IsLive(OnDisk, v)
                 PROVE  r.worker[v] # Absent /\ r.worker[v].of = workerFile[v].of
      BY <1>3, <1>4
    <3>1. workerFile[v] # Absent
      BY DEF IsLive, OnDisk, Readable
    <3> QED
      BY <1>8, <1>9, <3>1
  <2>2. \A v \in Worker : IsLive(j.mem, v) => IsLive(OnDisk, v)
    BY <1>4, <1>7, <1>8 DEF IsLive, OnDisk
  <2> QED
    BY <1>1, <1>3, <1>4, <2>1, <2>2, SnapshotReplaces
<1>11. Replaces(job[q])'
  <2>1. head' >= head
    BY <1>1 DEF FilesInv, FilesTyped
  <2> QED
    BY <1>1, <1>4, <1>6, <1>10, <2>1, ReplacesKept DEF Stays, FilesInv
<1> QED
  BY <1>4, <1>6, <1>11
     DEF JobInv, ReplacingInv, CreateInv, DeleteInv, AgentInv, ForwardInv, WriteInv

\* What a submission records.
LEMMA SubmittedEntry ==
  ASSUME NEW r \in WorkerRecord, NEW state \in Live
  PROVE  /\ [r EXCEPT !.state = state] \in WorkerRecord
         /\ [r EXCEPT !.state = state].of = r.of
         /\ \A h \in 0..MaxHead :
              /\ [r EXCEPT !.state = state, !.submitted = h] \in WorkerRecord
              /\ [r EXCEPT !.state = state, !.submitted = h].of = r.of
BY DEF WorkerRecord

\* update_submission_state.
LEMMA SubmitStep ==
  ASSUME StoreInv, NEW q \in Process, UpdateSubmissionState(q)
  PROVE  FilesInv' /\ JobInv(job[q])'
<1> DEFINE w == job[q].subject
<1>1. FilesInv /\ FilesTyped /\ JobInv(job[q]) /\ job[q] \in JobRecord
  BY DEF StoreInv, FilesInv, FilesTyped
<1>2. /\ w \in Worker /\ ~IsFinal(OnDisk, w) /\ worktree[w] # Absent
      /\ job[q].cmd \in {"report", "commit"}
  BY <1>1 DEF UpdateSubmissionState, Running, JobInv, AgentInv
<1>3. UNCHANGED <<disk, exclusion, worktree, registered, head, faults>>
  BY DEF UpdateSubmissionState
<1>4. CASE End(q)
  <2>1. faults' \in 0..MaxFaults
    BY <1>1, <1>3 DEF FilesTyped
  <2> QED
    BY <1>1, <1>3, <1>4, <2>1, EndKeepsFiles
<1>5. CASE ~End(q)
  <2> DEFINE e == Submitted(w, job[q].cmd)
  <2>1. /\ Loadable /\ workerFile[w] # Absent
        /\ Begin(q, Snapshot(job[q], "groups", [OnDisk EXCEPT !.worker[w] = e]))
    BY <1>5 DEF UpdateSubmissionState, Snapshot
  <2>2. workerFile[w] \in WorkerRecord
    BY <1>1, <1>2, <2>1 DEF Loadable, FilesTyped
  <2>3. worktree[w].at \in 0..MaxHead /\ 0 \in 0..MaxHead
    BY <1>1, <1>2, StoreBoundsAssumption DEF FilesTyped, Worktree
  <2>4. e \in WorkerRecord /\ e.of = workerFile[w].of
    BY <2>2, <2>3, SubmittedEntry DEF Submitted
  <2> HIDE DEF e
  <2> QED
    BY <1>2, <1>3, <2>1, <2>4, EntryUpdate
<1> QED
  BY <1>4, <1>5

\* update_state_after_ack.
LEMMA AckStep ==
  ASSUME StoreInv, NEW q \in Process, UpdateStateAfterAck(q)
  PROVE  FilesInv' /\ JobInv(job[q])'
<1> DEFINE w == job[q].subject
<1>1. FilesInv /\ FilesTyped /\ JobInv(job[q]) /\ job[q] \in JobRecord
  BY DEF StoreInv, FilesInv, FilesTyped
<1>2. w \in Worker /\ ~IsFinal(OnDisk, w) /\ job[q].cmd = "ack"
  BY <1>1 DEF UpdateStateAfterAck, Running, JobInv, AgentInv
<1>3. UNCHANGED <<disk, exclusion, worktree, registered, head, faults>>
  BY DEF UpdateStateAfterAck
<1>4. CASE End(q)
  <2>1. faults' \in 0..MaxFaults
    BY <1>1, <1>3 DEF FilesTyped
  <2> QED
    BY <1>1, <1>3, <1>4, <2>1, EndKeepsFiles
<1>5. CASE ~End(q)
  <2> DEFINE e == [workerFile[w] EXCEPT !.state = "ACTIVE"]
             r == [OnDisk EXCEPT !.worker[w].state = "ACTIVE"]
  <2>1. /\ Loadable /\ workerFile[w] # Absent
        /\ Begin(q, Snapshot(job[q], "groups", r))
    BY <1>5 DEF UpdateStateAfterAck, Snapshot
  <2>2. workerFile[w] \in WorkerRecord
    BY <1>1, <1>2, <2>1 DEF Loadable, FilesTyped
  <2>3. r = [OnDisk EXCEPT !.worker[w] = e]
    BY DEF OnDisk
  <2>4. e \in WorkerRecord /\ e.of = workerFile[w].of
    BY <2>2, SubmittedEntry
  <2> HIDE DEF e, r
  <2>5. Begin(q, Snapshot(job[q], "groups", [OnDisk EXCEPT !.worker[w] = e]))
    BY <2>1, <2>3
  <2> QED
    BY <1>2, <1>3, <2>1, <2>4, <2>5, EntryUpdate
<1> QED
  BY <1>4, <1>5

-----------------------------------------------------------------------------
(* perspective forward. *)

\* A sound state is one that loads.
LEMMA SoundLoadable ==
  ASSUME Sound(OnDisk)
  PROVE  Loadable
<1>1. \A p \in Perspective : groupFile[p] # Torn
  BY SoundRecords, FileAssumption DEF OnDisk
<1>2. \A w \in Worker : workerFile[w] # Torn
  BY SoundRecords, FileAssumption DEF OnDisk
<1> QED
  BY <1>1, <1>2 DEF Loadable, Sound, Joined, OnDisk

\* A worker that is forwarded is live and has its worktree.
LEMMA MoverFacts ==
  ASSUME FilesInv, NEW j, ForwardInv(j), j.pc \in Forwarding, NEW w \in Movers(j)
  PROVE  /\ w \in Worker /\ IsLive(OnDisk, w) /\ workerFile[w].of = j.of
         /\ j.mem.group[j.of] = groupFile[j.of] /\ groupFile[j.of] \in GroupRecord
         /\ worktree[w] \in Worktree /\ worktree[w] # Absent
         /\ Provisioned(w, j.of, groupFile[j.of].base)
         /\ j.to \in 1..MaxHead /\ j.to >= groupFile[j.of].base
<1>1. Sound(OnDisk) /\ j.mem = OnDisk /\ Loadable
  BY SoundLoadable DEF ForwardInv
<1>2. /\ w \in Worker /\ IsLive(OnDisk, w) /\ OnDisk.worker[w].of = j.of
      /\ OnDisk.group[j.of] \in GroupRecord
  BY <1>1, LiveMemberFacts DEF Movers
<1>3. OnDisk.worker[w] = workerFile[w] /\ OnDisk.group[j.of] = groupFile[j.of]
  BY DEF OnDisk
<1>4. Provisioned(w, j.of, groupFile[j.of].base)
  BY <1>1, <1>2, <1>3, LiveProvisioned DEF ProvisionedIn
<1>5. worktree[w] # Absent /\ worktree[w] \in Worktree
  BY <1>2, <1>4 DEF Provisioned, FilesInv, FilesTyped
<1>6. j.to \in groupFile[j.of].base..head
  BY <1>1, <1>3 DEF ForwardInv
<1>7. groupFile[j.of].base \in 1..MaxHead /\ head \in 1..MaxHead
  BY <1>2, <1>3 DEF GroupRecord, FilesInv, FilesTyped
<1>8. j.to \in 1..MaxHead /\ j.to >= groupFile[j.of].base
  BY <1>6, <1>7, StoreBoundsAssumption
<1>9. j.mem.group[j.of] = groupFile[j.of] /\ groupFile[j.of] \in GroupRecord
  BY <1>1, <1>2, <1>3
<1> QED
  BY <1>2, <1>3, <1>4, <1>5, <1>8, <1>9

\* A worktree that is moved is the same surface at another place.
LEMMA MovedTyped ==
  ASSUME NEW t \in Worktree, NEW h \in 1..MaxHead
  PROVE  /\ [t EXCEPT !.at = h] \in Worktree
         /\ [t EXCEPT !.at = h].at = h
         /\ [t EXCEPT !.at = h].contract = t.contract
         /\ [t EXCEPT !.at = h].reported = t.reported
BY DEF Worktree

\* One worktree of a live worker may change as long as it stays at or past the
\* base of its group.
LEMMA MoveKeepsFiles ==
  ASSUME FilesInv, NEW q \in Process, job' \in [Process -> JobRecord],
         faults' \in 0..MaxFaults,
         NEW w \in Worker, NEW t \in Worktree,
         worktree' = [worktree EXCEPT ![w] = t],
         IsLive(OnDisk, w),
         t.contract # Absent, t.contract[1] = workerFile[w].of,
         t.at >= groupFile[workerFile[w].of].base,
         t.contract[2] >= groupFile[workerFile[w].of].base,
         UNCHANGED <<disk, exclusion, registered, head>>
  PROVE  FilesInv'
<1>1. FilesTyped /\ t # Absent
  BY FileAssumption DEF FilesInv
<1>2. /\ worktree'[w] = t /\ worktree' \in [Worker -> Worktree \cup {Absent}]
      /\ \A v \in Worker : v # w => worktree'[v] = worktree[v]
  BY <1>1 DEF FilesTyped
<1>3. FilesTyped' /\ head' >= head
  BY <1>1, <1>2 DEF FilesTyped, disk
<1>4. LiveWorkerHasWorktree'
  <2> SUFFICES ASSUME NEW v \in Worker, IsLive(OnDisk, v)
               PROVE  LET p == workerFile[v].of IN
                      /\ worktree'[v] # Absent /\ v \in registered
                      /\ worktree'[v].contract # Absent /\ worktree'[v].contract[1] = p
                      /\ Readable(groupFile[p]) =>
                           /\ worktree'[v].at >= groupFile[p].base
                           /\ worktree'[v].contract[2] >= groupFile[p].base
    BY DEF LiveWorkerHasWorktree, IsLive, OnDisk, disk
  <2>1. CASE v = w
    BY <1>1, <1>2, <2>1 DEF FilesInv, LiveWorkerHasWorktree
  <2>2. CASE v # w
    BY <1>2, <2>2 DEF FilesInv, LiveWorkerHasWorktree
  <2> QED
    BY <2>1, <2>2
<1> QED
  BY <1>3, <1>4, FilesHeld

\* What no step of a forward changes before its snapshot is made.
LEMMA ForwardCommon ==
  ASSUME NEW q \in Process, ForwardInv(job[q]), job[q].pc \in Forwarding,
         UNCHANGED <<disk, head>>,
         job'[q].cmd = job[q].cmd, job'[q].of = job[q].of,
         job'[q].mem = job[q].mem, job'[q].to = job[q].to,
         \A v \in Movers(job[q]) : worktree'[v].reported = worktree[v].reported
  PROVE  /\ job'[q].cmd = "forward" /\ job'[q].of \in Perspective
         /\ job'[q].mem = OnDisk' /\ Sound(job[q].mem)'
         /\ job'[q].to \in job'[q].mem.group[job'[q].of].base..head'
         /\ Movers(job[q])' = Movers(job[q]) /\ Movers(job[q]) # {}
         /\ \A v \in Movers(job[q]) :
              /\ CheckpointOf(job[q], v)' = CheckpointOf(job[q], v)
              /\ CheckpointOf(job[q], v) \in job'[q].mem.group[job'[q].of].base..MaxHead
<1>1. /\ job[q].cmd = "forward" /\ job[q].of \in Perspective
      /\ job[q].mem = OnDisk /\ Sound(job[q].mem)
      /\ job[q].to \in job[q].mem.group[job[q].of].base..head
      /\ Movers(job[q]) # {}
      /\ \A w \in Movers(job[q]) :
           CheckpointOf(job[q], w) \in job[q].mem.group[job[q].of].base..MaxHead
  BY DEF ForwardInv
<1>2. OnDisk' = OnDisk
  BY DEF disk, OnDisk
<1>3. Sound(job[q].mem)'
  BY <1>1 DEF Sound, Joined, Reached, NamedByOwner
<1>4. Movers(job[q])' = Movers(job[q])
  BY DEF Movers, LiveMembers, Members
<1>5. \A v \in Movers(job[q]) :
        CheckpointOf(job[q], v)' = CheckpointOf(job[q], v)
  BY DEF CheckpointOf, Checkpoint
<1> QED
  BY <1>1, <1>2, <1>3, <1>4, <1>5

\* A worktree is rebased onto the new base.
LEMMA ForwardStep ==
  ASSUME StoreInv, NEW q \in Process, ForwardWorktree(q)
  PROVE  FilesInv' /\ JobInv(job[q])'
<1> DEFINE k == job[q]
           w == NextOf(k.left)
           rest == k.left \ {w}
           t == [worktree[w] EXCEPT !.at = k.to]
           pc == IF rest = {} THEN "refresh" ELSE "move"
           left == IF rest = {} THEN Movers(k) ELSE rest
           moved == k.moved \cup {w}
<1>1. FilesInv /\ FilesTyped /\ JobInv(k) /\ k \in JobRecord /\ k.pc = "move"
  BY DEF StoreInv, FilesInv, FilesTyped, ForwardWorktree, Running
<1>2. /\ ForwardInv(k) /\ k.pc \in Forwarding
      /\ k.left # {} /\ k.left \subseteq Movers(k)
      /\ k.moved = Movers(k) \ k.left /\ k.slips = 0
      /\ \A v \in Movers(k) \ k.left : worktree[v].at = k.to
      /\ \A v \in Movers(k) \ k.moved : worktree[v].at = CheckpointOf(k, v)
  BY <1>1 DEF JobInv, ForwardInv
<1>3. w \in k.left /\ w \in Movers(k)
  BY <1>2, NextOfIn
<1>4. UNCHANGED <<disk, exclusion, registered, head, faults>>
  BY DEF ForwardWorktree
<1>5. Begin(q, Moving(k, pc, left, moved))
  BY DEF ForwardWorktree, MoveOn, Moving, Movers
<1>6. /\ w \in Worker /\ IsLive(OnDisk, w) /\ workerFile[w].of = k.of
      /\ worktree[w] \in Worktree /\ worktree[w] # Absent
      /\ Provisioned(w, k.of, groupFile[k.of].base)
      /\ k.to \in 1..MaxHead /\ k.to >= groupFile[k.of].base
  BY <1>1, <1>2, <1>3, MoverFacts
<1>7. worktree' = [worktree EXCEPT ![w] = t]
  BY <1>1, <1>6 DEF ForwardWorktree, FilesTyped
<1>8. /\ t \in Worktree /\ t.at = k.to
      /\ t.contract = worktree[w].contract /\ t.reported = worktree[w].reported
  BY <1>6, MovedTyped
<1>9. Movers(k) \subseteq Worker
  BY DEF Movers, LiveMembers, Members
<1>10. pc \in Pc /\ left \in SUBSET (Perspective \cup Worker) /\ moved \in SUBSET Worker
  BY <1>2, <1>3, <1>9 DEF Pc
<1> HIDE DEF t, w
<1>11. /\ job' \in [Process -> JobRecord]
       /\ job'[q].pc = pc /\ job'[q].left = left /\ job'[q].moved = moved
       /\ job'[q].cmd = k.cmd /\ job'[q].of = k.of
       /\ job'[q].mem = k.mem /\ job'[q].to = k.to /\ job'[q].slips = k.slips
  <2> HIDE DEF pc, left, moved, k
  <2>1. /\ Moving(k, pc, left, moved) \in JobRecord
        /\ Moving(k, pc, left, moved).pc = pc
        /\ Moving(k, pc, left, moved).left = left
        /\ Moving(k, pc, left, moved).moved = moved
        /\ Moving(k, pc, left, moved).cmd = k.cmd
        /\ Moving(k, pc, left, moved).of = k.of
        /\ Moving(k, pc, left, moved).mem = k.mem
        /\ Moving(k, pc, left, moved).to = k.to
        /\ Moving(k, pc, left, moved).slips = k.slips
    BY <1>1, <1>10, MoveFields
  <2>2. job \in [Process -> JobRecord]
    BY <1>1 DEF FilesTyped
  <2>3. /\ job' \in [Process -> JobRecord]
        /\ job'[q] = Moving(k, pc, left, moved)
    BY <1>5, <2>1, <2>2, BeginJob
  <2> QED
    BY <2>1, <2>3
<1>12. FilesInv'
  <2>1. faults' \in 0..MaxFaults
    BY <1>1, <1>4 DEF FilesTyped
  <2> QED
    BY <1>1, <1>4, <1>6, <1>7, <1>8, <1>11, <2>1, MoveKeepsFiles DEF Provisioned
<1>13. /\ worktree'[w] = t
       /\ \A v \in Worker : v # w => worktree'[v] = worktree[v]
       /\ \A v \in Movers(k) : worktree'[v].reported = worktree[v].reported
  BY <1>1, <1>6, <1>7, <1>8, <1>9 DEF FilesTyped
<1>14. /\ job'[q].cmd = "forward" /\ job'[q].of \in Perspective
       /\ job'[q].mem = OnDisk' /\ Sound(job[q].mem)'
       /\ job'[q].to \in job'[q].mem.group[job'[q].of].base..head'
       /\ Movers(job[q])' = Movers(k) /\ Movers(k) # {}
       /\ \A v \in Movers(k) :
            /\ CheckpointOf(job[q], v)' = CheckpointOf(k, v)
            /\ CheckpointOf(k, v) \in job'[q].mem.group[job'[q].of].base..MaxHead
  BY <1>2, <1>4, <1>11, <1>13, ForwardCommon
<1>15. /\ left \subseteq Movers(k) /\ moved \subseteq Movers(k)
       /\ left # {}
       /\ pc = "move" => moved = Movers(k) \ left
       /\ pc = "refresh" => moved = Movers(k) /\ left = Movers(k)
       /\ \A v \in moved : worktree'[v].at = k.to
       /\ \A v \in Movers(k) \ moved : worktree'[v].at = CheckpointOf(k, v)
  BY <1>2, <1>3, <1>8, <1>9, <1>13, <1>14
<1> HIDE DEF left, moved
<1>16. ForwardInv(job[q])'
  BY <1>2, <1>11, <1>14, <1>15 DEF ForwardInv
<1> QED
  BY <1>11, <1>12, <1>14, <1>16
     DEF JobInv, ReplacingInv, CreateInv, DeleteInv, AgentInv, WriteInv

\* The snapshot of a forward that has moved every worktree.
LEMMA ForwardedSound ==
  ASSUME NEW s \in [group : Groups, worker : Workers], Sound(s),
         NEW p \in Perspective, NEW to \in 1..MaxHead, to <= head,
         NEW live, \A w \in live : s.worker[w] # Absent
  PROVE  /\ Forwarded(s, p, to, live) \in [group : Groups, worker : Workers]
         /\ Sound(Forwarded(s, p, to, live))
         /\ Forwarded(s, p, to, live).group[p].base = to
         /\ \A x \in Perspective \ {p} :
              Forwarded(s, p, to, live).group[x] = s.group[x]
         /\ \A w \in Worker :
              /\ Forwarded(s, p, to, live).worker[w] = Absent <=> s.worker[w] = Absent
              /\ s.worker[w] # Absent =>
                   /\ Forwarded(s, p, to, live).worker[w].of = s.worker[w].of
                   /\ Forwarded(s, p, to, live).worker[w].state = s.worker[w].state
<1> DEFINE f == Forwarded(s, p, to, live)
           g == [base |-> to, open |-> TRUE]
<1>1. g \in GroupRecord /\ g.base = to
  BY DEF GroupRecord
<1>2. /\ f.group = [s.group EXCEPT ![p] = g]
      /\ f.worker = [w \in Worker |->
                       IF w \in live /\ s.worker[w].state = "COMMITTED"
                       THEN [s.worker[w] EXCEPT !.submitted = to] ELSE s.worker[w]]
      /\ f = [group |-> f.group, worker |-> f.worker]
  BY DEF Forwarded
<1> HIDE DEF f, g
<1>3. \A r \in WorkerRecord :
        /\ [r EXCEPT !.submitted = to] \in WorkerRecord
        /\ [r EXCEPT !.submitted = to].of = r.of
        /\ [r EXCEPT !.submitted = to].state = r.state
  BY DEF WorkerRecord
<1>4. \A w \in Worker : s.worker[w] \in WorkerRecord \cup {Absent}
  BY SoundRecords
<1>5. \A w \in Worker :
        /\ f.worker[w] = Absent <=> s.worker[w] = Absent
        /\ s.worker[w] # Absent =>
             /\ f.worker[w] \in WorkerRecord
             /\ f.worker[w].of = s.worker[w].of
             /\ f.worker[w].state = s.worker[w].state
  <2> SUFFICES ASSUME NEW w \in Worker
               PROVE  /\ f.worker[w] = Absent <=> s.worker[w] = Absent
                      /\ s.worker[w] # Absent =>
                           /\ f.worker[w] \in WorkerRecord
                           /\ f.worker[w].of = s.worker[w].of
                           /\ f.worker[w].state = s.worker[w].state
    OBVIOUS
  <2>1. CASE s.worker[w] = Absent
    BY <1>2, <2>1
  <2>2. CASE s.worker[w] # Absent
    <3>1. s.worker[w] \in WorkerRecord
      BY <1>4, <2>2
    <3>2. \/ f.worker[w] = s.worker[w]
          \/ f.worker[w] = [s.worker[w] EXCEPT !.submitted = to]
      BY <1>2
    <3>3. f.worker[w] \in WorkerRecord
      BY <1>3, <3>1, <3>2
    <3> QED
      BY <1>3, <2>2, <3>1, <3>2, <3>3, FileAssumption
  <2> QED
    BY <2>1, <2>2
<1>6. f.group \in Groups
  BY <1>1, <1>2 DEF Groups
<1>7. f.worker \in Workers
  <2>1. \A w \in Worker : f.worker[w] \in WorkerRecord \cup {Absent}
    BY <1>5
  <2> QED
    BY <1>2, <2>1 DEF Workers
<1>8. /\ f.group[p] = g
      /\ \A x \in Perspective \ {p} : f.group[x] = s.group[x]
  BY <1>2 DEF Groups
<1>9. Joined(f)
  <2> SUFFICES ASSUME NEW w \in Worker, f.worker[w] # Absent
               PROVE  f.group[f.worker[w].of] # Absent
    BY DEF Joined
  <2>1. f.worker[w].of = s.worker[w].of /\ s.worker[w] # Absent
    BY <1>5
  <2>2. /\ s.worker[w].of \in Perspective
        /\ s.group[s.worker[w].of] \in GroupRecord
    BY <2>1, SoundRecords
  <2> QED
    BY <1>1, <1>8, <2>1, <2>2, FileAssumption
<1>10. Reached(f)
  BY <1>1, <1>8 DEF Sound, Reached
<1>11. NamedByOwner(f)
  <2> SUFFICES ASSUME NEW w \in Worker, Readable(f.worker[w])
               PROVE  IdOf(f.worker[w].of, w)
    BY DEF NamedByOwner
  <2>1. s.worker[w] # Absent
    BY <1>5 DEF Readable
  <2>2. IdOf(s.worker[w].of, w)
    BY <2>1, SoundRecords DEF Sound, NamedByOwner
  <2> QED
    BY <1>5, <2>1, <2>2
<1> QED
  BY <1>1, <1>2, <1>5, <1>6, <1>7, <1>8, <1>9, <1>10, <1>11 DEF Sound, f

\* The snapshot of a forward may replace the files: every worktree of the group
\* stands on the new base, under a contract that names it.
LEMMA ForwardedReplaces ==
  ASSUME FilesInv, NEW k \in JobRecord, ForwardInv(k), k.pc = "refresh", k.left = {},
         NEW j, j.pc = "groups", j.mem = Forwarded(k.mem, k.of, k.to, Movers(k))
  PROVE  Replaces(j)
<1> DEFINE p == k.of
           f == Forwarded(k.mem, p, k.to, Movers(k))
<1>1. /\ k.mem = OnDisk /\ Sound(OnDisk) /\ p \in Perspective
      /\ \A w \in Movers(k) : worktree[w].at = k.to /\ worktree[w].contract = <<p, k.to>>
      /\ k.to \in OnDisk.group[p].base..head /\ Movers(k) # {}
  BY DEF ForwardInv
<1>2. Loadable /\ Whole /\ OnDisk \in [group : Groups, worker : Workers]
  BY <1>1, SoundLoadable, LoadableSound, DiskTyped DEF FilesInv
<1>3. k.to \in 1..MaxHead /\ k.to <= head
  <2>1. PICK w \in Movers(k) : TRUE
    BY <1>1
  <2>2. k.to \in 1..MaxHead
    BY <2>1, MoverFacts
  <2>3. head \in Nat /\ OnDisk.group[p].base \in Nat
    BY <2>1, MoverFacts, StoreBoundsAssumption
       DEF FilesInv, FilesTyped, OnDisk, GroupRecord
  <2> QED
    BY <1>1, <2>2, <2>3
<1>4. \A w \in Movers(k) : OnDisk.worker[w] # Absent
  BY <1>1, SoundRecords DEF Movers, LiveMembers, Members, Readable
<1>5. /\ Sound(f) /\ f.group[p].base = k.to
      /\ \A x \in Perspective \ {p} : f.group[x] = OnDisk.group[x]
      /\ \A w \in Worker :
           /\ f.worker[w] = Absent <=> OnDisk.worker[w] = Absent
           /\ OnDisk.worker[w] # Absent =>
                /\ f.worker[w].of = OnDisk.worker[w].of
                /\ f.worker[w].state = OnDisk.worker[w].state
  BY <1>1, <1>2, <1>3, <1>4, ForwardedSound
<1> HIDE DEF f
<1>6. j.mem = f
  BY DEF f
<1>7. \A w \in Worker : IsLive(f, w) => IsLive(OnDisk, w)
  <2> SUFFICES ASSUME NEW w \in Worker, IsLive(f, w)
               PROVE  IsLive(OnDisk, w)
    OBVIOUS
  <2>1. OnDisk.worker[w] # Absent
    BY <1>5 DEF IsLive, Readable
  <2>2. Readable(OnDisk.worker[w])
    BY <1>1, <2>1, SoundRecords
  <2> QED
    BY <1>5, <2>1, <2>2 DEF IsLive
<1>8. ASSUME NEW w \in Worker, IsLive(OnDisk, w)
      PROVE  /\ f.worker[w] # Absent /\ f.worker[w].of = workerFile[w].of
             /\ ProvisionedIn(f, w)
  <2>1. OnDisk.worker[w] # Absent /\ OnDisk.worker[w] = workerFile[w]
    BY <1>8 DEF IsLive, Readable, OnDisk
  <2>2. /\ f.worker[w] # Absent /\ f.worker[w].of = workerFile[w].of
        /\ workerFile[w].of \in Perspective
    BY <1>1, <1>5, <2>1, SoundRecords
  <2>3. CASE workerFile[w].of = p
    <3>1. w \in Movers(k)
      BY <1>1, <1>8, <2>1, <2>3 DEF Movers, LiveMembers, Members, IsLive
    <3>2. worktree[w].at = k.to /\ worktree[w].contract = <<p, k.to>>
      BY <1>1, <3>1
    <3>3. worktree[w] # Absent /\ w \in registered
      BY <1>8 DEF FilesInv, LiveWorkerHasWorktree
    <3>4. /\ worktree[w].contract # Absent /\ worktree[w].contract[1] = p
          /\ worktree[w].contract[2] = k.to
      BY <1>1, <1>3, <3>2, ContractParts
    <3> QED
      BY <1>3, <1>5, <2>2, <2>3, <3>2, <3>3, <3>4 DEF ProvisionedIn, Provisioned
  <2>4. CASE workerFile[w].of # p
    <3>1. ProvisionedIn(OnDisk, w)
      BY <1>2, <1>8, LiveProvisioned
    <3> QED
      BY <1>5, <2>1, <2>2, <2>4, <3>1 DEF ProvisionedIn
  <2> QED
    BY <2>2, <2>3, <2>4
<1> QED
  BY <1>2, <1>5, <1>6, <1>7, <1>8 DEF Replaces

\* The contract and boundary files of each worker, and then the snapshot.
LEMMA RefreshStep ==
  ASSUME StoreInv, NEW q \in Process, RefreshWorker(q)
  PROVE  FilesInv' /\ JobInv(job[q])'
<1> DEFINE k == job[q]
           p == k.of
<1>1. FilesInv /\ FilesTyped /\ JobInv(k) /\ k \in JobRecord /\ k.pc = "refresh"
  BY DEF StoreInv, FilesInv, FilesTyped, RefreshWorker, Running
<1>2. /\ ForwardInv(k) /\ k.pc \in Forwarding /\ p \in Perspective
      /\ k.cmd = "forward"
      /\ k.left \subseteq Movers(k) /\ k.moved = Movers(k) /\ k.slips = 0
      /\ \A v \in Movers(k) : worktree[v].at = k.to
      /\ \A v \in Movers(k) \ k.left : worktree[v].contract = <<p, k.to>>
  BY <1>1 DEF JobInv, ForwardInv
<1>3. UNCHANGED <<disk, exclusion, registered, head, faults>>
  BY DEF RefreshWorker
<1>4. Movers(k) \subseteq Worker
  BY DEF Movers, LiveMembers, Members
<1>5. CASE k.left = {}
  <2> DEFINE f == Forwarded(k.mem, p, k.to, Movers(k))
             j == Advanced(k, "groups", {}, f)
  <2>1. Begin(q, j) /\ UNCHANGED worktree
    BY <1>5 DEF RefreshWorker, Advanced, Movers
  <2>2. /\ k.mem \in [group : Groups, worker : Workers] /\ Sound(k.mem)
        /\ \E w \in Movers(k) : TRUE
        /\ \A w \in Movers(k) : k.mem.worker[w] # Absent
    BY <1>1, <1>2, SoundRecords
       DEF JobRecord, ForwardInv, Movers, LiveMembers, Members, Readable
  <2>3. k.to \in 1..MaxHead /\ k.to <= head
    <3>1. k.to \in 1..MaxHead
      BY <1>1, <1>2, <2>2, MoverFacts
    <3>2. k.to <= head
      BY <1>1, <1>2, <3>1 DEF ForwardInv, FilesTyped
    <3> QED
      BY <3>1, <3>2
  <2>4. f \in [group : Groups, worker : Workers]
    BY <1>2, <2>2, <2>3, ForwardedSound
  <2> HIDE DEF f
  <2>5. j \in JobRecord /\ j.pc = "groups" /\ j.mem = f /\ j.cmd = k.cmd
    <3>1. "groups" \in Pc
      BY DEF Pc
    <3> HIDE DEF k
    <3> QED
      BY <1>1, <2>4, <3>1, ForwardedFields
  <2> HIDE DEF j
  <2>6. FilesInv' /\ job'[q] = j
    BY <1>1, <1>3, <2>1, <2>5, StartKeepsFiles
  <2>7. Replaces(j)
    BY <1>1, <1>2, <1>5, <2>5, ForwardedReplaces DEF f
  <2>8. Replaces(job[q])'
    <3>1. head' >= head
      BY <1>1, <1>3 DEF FilesTyped
    <3> QED
      BY <1>1, <1>3, <2>1, <2>5, <2>6, <2>7, <3>1, ReplacesKept DEF Stays, FilesInv
  <2> QED
    BY <1>2, <2>5, <2>6, <2>8
       DEF JobInv, ReplacingInv, CreateInv, DeleteInv, AgentInv, ForwardInv, WriteInv
<1>6. CASE k.left # {}
  <2> DEFINE w == NextOf(k.left)
             t == [worktree[w] EXCEPT !.contract = <<p, k.to>>]
             left == k.left \ {w}
  <2>1. w \in k.left /\ w \in Movers(k)
    BY <1>2, <1>6, NextOfIn
  <2>2. Begin(q, Walked(k, left)) /\ worktree' = [worktree EXCEPT ![w].contract = <<p, k.to>>]
    BY <1>6 DEF RefreshWorker, Walked
  <2>3. /\ w \in Worker /\ IsLive(OnDisk, w) /\ workerFile[w].of = p
        /\ worktree[w] \in Worktree /\ worktree[w] # Absent
        /\ Provisioned(w, p, groupFile[p].base)
        /\ k.to \in 1..MaxHead /\ k.to >= groupFile[p].base
    BY <1>1, <1>2, <2>1, MoverFacts
  <2>4. worktree' = [worktree EXCEPT ![w] = t]
    BY <1>1, <2>2, <2>3 DEF FilesTyped
  <2>5. /\ t \in Worktree /\ t.at = worktree[w].at
        /\ t.contract = <<p, k.to>> /\ t.reported = worktree[w].reported
    BY <1>2, <2>3, ContractTyped
  <2>6. t.contract # Absent /\ t.contract[1] = p /\ t.contract[2] = k.to
    BY <1>2, <2>3, <2>5, ContractParts
  <2>7. left \in SUBSET (Perspective \cup Worker)
    BY <1>2, <1>4
  <2> HIDE DEF t, w
  <2>8. /\ job' \in [Process -> JobRecord]
        /\ job'[q].pc = "refresh" /\ job'[q].left = left /\ job'[q].moved = k.moved
        /\ job'[q].cmd = k.cmd /\ job'[q].of = k.of
        /\ job'[q].mem = k.mem /\ job'[q].to = k.to /\ job'[q].slips = k.slips
    <3> HIDE DEF left, k
    <3>1. /\ Walked(k, left) \in JobRecord
          /\ Walked(k, left).pc = k.pc /\ Walked(k, left).left = left
          /\ Walked(k, left).moved = k.moved /\ Walked(k, left).cmd = k.cmd
          /\ Walked(k, left).of = k.of /\ Walked(k, left).mem = k.mem
          /\ Walked(k, left).to = k.to /\ Walked(k, left).slips = k.slips
      BY <1>1, <2>7, LeftFields
    <3>2. job \in [Process -> JobRecord]
      BY <1>1 DEF FilesTyped
    <3>3. job' \in [Process -> JobRecord] /\ job'[q] = Walked(k, left)
      BY <2>2, <3>1, <3>2, BeginJob
    <3> QED
      BY <1>1, <3>1, <3>3
  <2>9. FilesInv'
    <3>1. faults' \in 0..MaxFaults
      BY <1>1, <1>3 DEF FilesTyped
    <3> QED
      BY <1>1, <1>3, <2>3, <2>4, <2>5, <2>6, <2>8, <3>1, MoveKeepsFiles
         DEF Provisioned
  <2>10. /\ worktree'[w] = t
         /\ \A v \in Worker : v # w => worktree'[v] = worktree[v]
         /\ \A v \in Movers(k) : /\ worktree'[v].reported = worktree[v].reported
                                 /\ worktree'[v].at = worktree[v].at
    BY <1>1, <1>4, <2>3, <2>4, <2>5 DEF FilesTyped
  <2>11. /\ job'[q].cmd = "forward" /\ job'[q].of \in Perspective
         /\ job'[q].mem = OnDisk' /\ Sound(job[q].mem)'
         /\ job'[q].to \in job'[q].mem.group[job'[q].of].base..head'
         /\ Movers(job[q])' = Movers(k) /\ Movers(k) # {}
         /\ \A v \in Movers(k) :
              /\ CheckpointOf(job[q], v)' = CheckpointOf(k, v)
              /\ CheckpointOf(k, v) \in job'[q].mem.group[job'[q].of].base..MaxHead
    BY <1>2, <1>3, <2>8, <2>10, ForwardCommon
  <2>12. /\ left \subseteq Movers(k)
         /\ \A v \in Movers(k) : worktree'[v].at = k.to
         /\ \A v \in Movers(k) \ left : worktree'[v].contract = <<p, k.to>>
    BY <1>2, <1>4, <2>5, <2>10
  <2> HIDE DEF left
  <2>13. ForwardInv(job[q])'
    BY <1>2, <2>8, <2>11, <2>12 DEF ForwardInv
  <2> QED
    BY <2>8, <2>9, <2>11, <2>13
       DEF JobInv, ReplacingInv, CreateInv, DeleteInv, AgentInv, WriteInv
<1> QED
  BY <1>5, <1>6

\* A forward that fails has moved the workers it remembers and no other.
LEMMA FailForwardStep ==
  ASSUME StoreInv, NEW q \in Process, FailForward(q)
  PROVE  FilesInv' /\ JobInv(job[q])'
<1> DEFINE k == job[q]
<1>1. /\ FilesInv /\ FilesTyped /\ JobInv(k) /\ k \in JobRecord
      /\ k.pc \in {"move", "refresh"}
  BY DEF StoreInv, FilesInv, FilesTyped, FailForward, Running
<1>2. /\ ForwardInv(k) /\ k.pc \in Forwarding /\ k.slips = 0
      /\ k.moved \subseteq Movers(k)
      /\ \A v \in Movers(k) \ k.moved : worktree[v].at = CheckpointOf(k, v)
  BY <1>1 DEF JobInv, ForwardInv
<1>3. UNCHANGED <<disk, exclusion, worktree, registered, head>>
  BY DEF FailForward
<1>4. faults' \in 0..MaxFaults
  BY <1>1, StoreBoundsAssumption DEF FailForward, FilesTyped
<1>5. Begin(q, Phase(k, "rollback", {}))
  BY DEF FailForward, Phase
<1>6. /\ job' \in [Process -> JobRecord]
      /\ job'[q].pc = "rollback" /\ job'[q].left = {} /\ job'[q].moved = k.moved
      /\ job'[q].cmd = k.cmd /\ job'[q].of = k.of
      /\ job'[q].mem = k.mem /\ job'[q].to = k.to /\ job'[q].slips = k.slips
  <2> HIDE DEF k
  <2>1. "rollback" \in Pc
    BY DEF Pc
  <2>2. /\ Phase(k, "rollback", {}) \in JobRecord
        /\ Phase(k, "rollback", {}).pc = "rollback"
        /\ Phase(k, "rollback", {}).left = {}
        /\ Phase(k, "rollback", {}).moved = k.moved
        /\ Phase(k, "rollback", {}).cmd = k.cmd
        /\ Phase(k, "rollback", {}).of = k.of
        /\ Phase(k, "rollback", {}).mem = k.mem
        /\ Phase(k, "rollback", {}).to = k.to
        /\ Phase(k, "rollback", {}).slips = k.slips
    BY <1>1, <2>1, PhaseFields
  <2>3. job \in [Process -> JobRecord]
    BY <1>1 DEF FilesTyped
  <2>4. job' \in [Process -> JobRecord] /\ job'[q] = Phase(k, "rollback", {})
    BY <1>5, <2>2, <2>3, BeginJob
  <2> QED
    BY <2>2, <2>4
<1>7. FilesInv'
  <2>1. FilesTyped' /\ head' >= head
    BY <1>1, <1>3, <1>4, <1>6 DEF FilesTyped, disk
  <2> QED
    BY <1>1, <1>3, <2>1, FilesKept DEF Stays
<1>8. /\ job'[q].cmd = "forward" /\ job'[q].of \in Perspective
      /\ job'[q].mem = OnDisk' /\ Sound(job[q].mem)'
      /\ job'[q].to \in job'[q].mem.group[job'[q].of].base..head'
      /\ Movers(job[q])' = Movers(k) /\ Movers(k) # {}
      /\ \A v \in Movers(k) :
           /\ CheckpointOf(job[q], v)' = CheckpointOf(k, v)
           /\ CheckpointOf(k, v) \in job'[q].mem.group[job'[q].of].base..MaxHead
  BY <1>2, <1>3, <1>6, ForwardCommon
<1>9. ForwardInv(job[q])'
  BY <1>2, <1>3, <1>6, <1>8 DEF ForwardInv
<1> QED
  BY <1>6, <1>7, <1>8, <1>9
     DEF JobInv, ReplacingInv, CreateInv, DeleteInv, AgentInv, WriteInv

\* One worktree goes back to its checkpoint, or is left where it is.
LEMMA RollbackStep ==
  ASSUME StoreInv, NEW q \in Process, RollbackForwardWorktree(q)
  PROVE  FilesInv' /\ JobInv(job[q])'
<1> DEFINE k == job[q]
           w == NextOf(k.moved)
           moved == k.moved \ {w}
           b == k.mem.group[k.of].base
<1>1. FilesInv /\ FilesTyped /\ JobInv(k) /\ k \in JobRecord /\ k.pc = "rollback"
  BY DEF StoreInv, FilesInv, FilesTyped, RollbackForwardWorktree, Running
<1>2. /\ ForwardInv(k) /\ k.pc \in Forwarding
      /\ k.moved \subseteq Movers(k) /\ k.left \subseteq Movers(k)
      /\ \A v \in Movers(k) : CheckpointOf(k, v) \in b..MaxHead
      /\ k.slips = 0 =>
           \A v \in Movers(k) \ k.moved : worktree[v].at = CheckpointOf(k, v)
  BY <1>1 DEF JobInv, ForwardInv
<1>3. w \in k.moved /\ w \in Movers(k)
  BY <1>2, NextOfIn DEF RollbackForwardWorktree
<1>4. UNCHANGED <<disk, exclusion, registered, head>>
  BY DEF RollbackForwardWorktree
<1>5. Movers(k) \subseteq Worker
  BY DEF Movers, LiveMembers, Members
<1>6. moved \in SUBSET Worker
  BY <1>2, <1>5
<1>7. job \in [Process -> JobRecord]
  BY <1>1 DEF FilesTyped
<1>8. CASE /\ worktree[w] # Absent
           /\ worktree' = [worktree EXCEPT ![w].at = CheckpointOf(k, w)]
           /\ Begin(q, Undone(k, moved))
           /\ UNCHANGED faults
  <2> DEFINE t == [worktree[w] EXCEPT !.at = CheckpointOf(k, w)]
  <2>1. /\ w \in Worker /\ IsLive(OnDisk, w) /\ workerFile[w].of = k.of
        /\ worktree[w] \in Worktree /\ groupFile[k.of] \in GroupRecord
        /\ b = groupFile[k.of].base
        /\ Provisioned(w, k.of, groupFile[k.of].base)
    BY <1>1, <1>2, <1>3, MoverFacts
  <2>2. CheckpointOf(k, w) \in 1..MaxHead /\ CheckpointOf(k, w) >= groupFile[k.of].base
    <3>1. groupFile[k.of].base \in 1..MaxHead
      BY <2>1 DEF GroupRecord
    <3>2. CheckpointOf(k, w) \in groupFile[k.of].base..MaxHead
      BY <1>2, <1>3, <2>1
    <3> QED
      BY <3>1, <3>2, StoreBoundsAssumption
  <2>3. worktree' = [worktree EXCEPT ![w] = t]
    BY <1>1, <1>8, <2>1 DEF FilesTyped
  <2>4. /\ t \in Worktree /\ t.at = CheckpointOf(k, w)
        /\ t.contract = worktree[w].contract /\ t.reported = worktree[w].reported
    BY <2>1, <2>2, MovedTyped
  <2> HIDE DEF t, w, b
  <2>5. /\ job' \in [Process -> JobRecord]
        /\ job'[q].pc = "rollback" /\ job'[q].left = k.left /\ job'[q].moved = moved
        /\ job'[q].cmd = k.cmd /\ job'[q].of = k.of
        /\ job'[q].mem = k.mem /\ job'[q].to = k.to /\ job'[q].slips = k.slips
    <3> HIDE DEF moved, k
    <3>1. /\ Undone(k, moved) \in JobRecord
          /\ Undone(k, moved).pc = k.pc /\ Undone(k, moved).left = k.left
          /\ Undone(k, moved).moved = moved /\ Undone(k, moved).cmd = k.cmd
          /\ Undone(k, moved).of = k.of /\ Undone(k, moved).mem = k.mem
          /\ Undone(k, moved).to = k.to /\ Undone(k, moved).slips = k.slips
      BY <1>1, <1>6, UndoFields
    <3>2. job' \in [Process -> JobRecord] /\ job'[q] = Undone(k, moved)
      BY <1>7, <1>8, <3>1, BeginJob
    <3> QED
      BY <1>1, <3>1, <3>2
  <2>6. FilesInv'
    <3>1. faults' \in 0..MaxFaults
      BY <1>1, <1>8 DEF FilesTyped
    <3> QED
      BY <1>1, <1>4, <2>1, <2>2, <2>3, <2>4, <2>5, <3>1, MoveKeepsFiles
         DEF Provisioned
  <2>7. /\ worktree'[w] = t
        /\ \A v \in Worker : v # w => worktree'[v] = worktree[v]
        /\ \A v \in Movers(k) : worktree'[v].reported = worktree[v].reported
    BY <1>1, <1>5, <2>1, <2>3, <2>4 DEF FilesTyped
  <2>8. /\ job'[q].cmd = "forward" /\ job'[q].of \in Perspective
        /\ job'[q].mem = OnDisk' /\ Sound(job[q].mem)'
        /\ job'[q].to \in job'[q].mem.group[job'[q].of].base..head'
        /\ Movers(job[q])' = Movers(k) /\ Movers(k) # {}
        /\ \A v \in Movers(k) :
             /\ CheckpointOf(job[q], v)' = CheckpointOf(k, v)
             /\ CheckpointOf(k, v) \in job'[q].mem.group[job'[q].of].base..MaxHead
    BY <1>2, <1>4, <2>5, <2>7, ForwardCommon
  <2>9. k.slips = 0 =>
          \A v \in Movers(k) \ moved : worktree'[v].at = CheckpointOf(k, v)
    BY <1>2, <1>5, <2>4, <2>7
  <2>10. moved \subseteq Movers(k)
    BY <1>2
  <2> HIDE DEF moved
  <2>11. ForwardInv(job[q])'
    BY <1>2, <2>5, <2>8, <2>9, <2>10 DEF ForwardInv
  <2> QED
    BY <2>5, <2>6, <2>8, <2>11
       DEF JobInv, ReplacingInv, CreateInv, DeleteInv, AgentInv, WriteInv
<1>9. CASE /\ faults < MaxFaults /\ faults' = faults + 1
           /\ Begin(q, Slipped(k, moved, k.slips + 1))
           /\ UNCHANGED worktree
  <2>1. k.slips \in Nat /\ k.slips + 1 \in Nat /\ k.slips + 1 # 0
    BY <1>1 DEF JobRecord
  <2>2. /\ job' \in [Process -> JobRecord]
        /\ job'[q].pc = "rollback" /\ job'[q].left = k.left /\ job'[q].moved = moved
        /\ job'[q].cmd = k.cmd /\ job'[q].of = k.of
        /\ job'[q].mem = k.mem /\ job'[q].to = k.to /\ job'[q].slips # 0
    <3> DEFINE n == k.slips + 1
    <3> HIDE DEF moved, k, n
    <3>1. /\ Slipped(k, moved, n) \in JobRecord
          /\ Slipped(k, moved, n).pc = k.pc /\ Slipped(k, moved, n).left = k.left
          /\ Slipped(k, moved, n).moved = moved /\ Slipped(k, moved, n).cmd = k.cmd
          /\ Slipped(k, moved, n).of = k.of /\ Slipped(k, moved, n).mem = k.mem
          /\ Slipped(k, moved, n).to = k.to /\ Slipped(k, moved, n).slips = n
      BY <1>1, <1>6, <2>1, SlipFields DEF n
    <3>2. job' \in [Process -> JobRecord] /\ job'[q] = Slipped(k, moved, n)
      BY <1>7, <1>9, <3>1, BeginJob DEF n
    <3> QED
      BY <1>1, <2>1, <3>1, <3>2 DEF n
  <2>3. FilesInv'
    <3>1. faults' \in 0..MaxFaults
      BY <1>1, <1>9, StoreBoundsAssumption DEF FilesTyped
    <3>2. FilesTyped' /\ head' >= head
      BY <1>1, <1>4, <1>9, <2>2, <3>1 DEF FilesTyped, disk
    <3> QED
      BY <1>1, <1>4, <1>9, <3>2, FilesKept DEF Stays
  <2>4. /\ job'[q].cmd = "forward" /\ job'[q].of \in Perspective
        /\ job'[q].mem = OnDisk' /\ Sound(job[q].mem)'
        /\ job'[q].to \in job'[q].mem.group[job'[q].of].base..head'
        /\ Movers(job[q])' = Movers(k) /\ Movers(k) # {}
        /\ \A v \in Movers(k) :
             /\ CheckpointOf(job[q], v)' = CheckpointOf(k, v)
             /\ CheckpointOf(k, v) \in job'[q].mem.group[job'[q].of].base..MaxHead
    BY <1>2, <1>4, <1>9, <2>2, ForwardCommon
  <2>5. moved \subseteq Movers(k)
    BY <1>2
  <2> HIDE DEF moved
  <2>6. ForwardInv(job[q])'
    BY <1>2, <2>2, <2>4, <2>5 DEF ForwardInv
  <2> QED
    BY <2>2, <2>3, <2>4, <2>6
       DEF JobInv, ReplacingInv, CreateInv, DeleteInv, AgentInv, WriteInv
<1> QED
  <2>1. \/ /\ worktree[w] # Absent
           /\ worktree' = [worktree EXCEPT ![w].at = CheckpointOf(k, w)]
           /\ Begin(q, Undone(k, moved))
           /\ UNCHANGED faults
        \/ /\ faults < MaxFaults /\ faults' = faults + 1
           /\ Begin(q, Slipped(k, moved, k.slips + 1))
           /\ UNCHANGED worktree
    BY DEF RollbackForwardWorktree, CheckpointOf, Undone, Slipped
  <2> QED
    BY <1>8, <1>9, <2>1

\* Then the forward is refused.
LEMMA RefuseStep ==
  ASSUME StoreInv, NEW q \in Process, RefuseForward(q)
  PROVE  FilesInv' /\ JobInv(job[q])'
<1>1. FilesInv /\ faults' \in 0..MaxFaults
  BY DEF StoreInv, FilesInv, FilesTyped, RefuseForward
<1> QED
  BY <1>1, EndKeepsFiles DEF RefuseForward

-----------------------------------------------------------------------------
(* store_state. *)

\* Files that are written from a snapshot that may replace them keep the
\* invariant, as long as no worker is written before the groups.
LEMMA FilesWritten ==
  ASSUME FilesInv, FilesTyped', NEW k, Replaces(k), k.pc \in Storing,
         UNCHANGED <<worktree, registered, head>>,
         \A p \in Perspective : groupFile'[p] \in {groupFile[p], k.mem.group[p], Torn},
         \A w \in Worker : Readable(workerFile'[w]) =>
           \/ workerFile'[w] = workerFile[w]
           \/ /\ workerFile'[w] = k.mem.worker[w]
              /\ \A p \in Perspective : groupFile'[p] = k.mem.group[p]
  PROVE  FilesInv'
<1>1. /\ Sound(k.mem)
      /\ \A w \in Worker : IsLive(OnDisk, w) =>
           k.mem.worker[w] # Absent /\ k.mem.worker[w].of = workerFile[w].of
      /\ \A w \in Worker : IsLive(OnDisk, w) \/ IsLive(k.mem, w) =>
           ProvisionedIn(k.mem, w)
  BY DEF Replaces
<1>2. ~Readable(Torn) /\ Torn # Absent
  BY FileAssumption DEF Readable
<1>3. Reached(OnDisk)'
  BY <1>1, <1>2 DEF FilesInv, Reached, Sound, OnDisk
<1>4. NamedByOwner(OnDisk)'
  BY <1>1 DEF FilesInv, NamedByOwner, Sound, OnDisk
<1>5. ASSUME NEW w \in Worker, Readable(workerFile'[w]), workerFile'[w].state \in Live
      PROVE  LET p == workerFile'[w].of IN
             /\ groupFile'[p] # Absent
             /\ worktree[w] # Absent /\ w \in registered
             /\ worktree[w].contract # Absent /\ worktree[w].contract[1] = p
             /\ Readable(groupFile'[p]) =>
                  /\ worktree[w].at >= groupFile'[p].base
                  /\ worktree[w].contract[2] >= groupFile'[p].base
  <2> DEFINE p == workerFile'[w].of
  <2>1. CASE workerFile'[w] = workerFile[w]
    <3>1. IsLive(OnDisk, w)
      BY <1>5, <2>1 DEF IsLive, OnDisk
    <3>2. /\ k.mem.worker[w] # Absent /\ k.mem.worker[w].of = p
          /\ ProvisionedIn(k.mem, w)
      BY <1>1, <2>1, <3>1
    <3>3. p \in Perspective /\ k.mem.group[p] # Absent
      BY <1>1, <3>2, SoundRecords DEF Sound, Joined
    <3>4. /\ groupFile[p] # Absent
          /\ worktree[w] # Absent /\ w \in registered
          /\ worktree[w].contract # Absent /\ worktree[w].contract[1] = p
          /\ Readable(groupFile[p]) =>
               /\ worktree[w].at >= groupFile[p].base
               /\ worktree[w].contract[2] >= groupFile[p].base
      BY <2>1, <3>1 DEF FilesInv, NoOrphanWorkers, LiveWorkerHasWorktree
    <3>5. /\ worktree[w].at >= k.mem.group[p].base
          /\ worktree[w].contract[2] >= k.mem.group[p].base
      BY <3>2 DEF ProvisionedIn, Provisioned
    <3> HIDE DEF p
    <3>6. groupFile'[p] \in {groupFile[p], k.mem.group[p], Torn}
      BY <3>3
    <3> QED
      BY <1>2, <3>3, <3>4, <3>5, <3>6 DEF p
  <2>2. CASE /\ workerFile'[w] = k.mem.worker[w]
             /\ \A x \in Perspective : groupFile'[x] = k.mem.group[x]
    <3>1. IsLive(k.mem, w) /\ k.mem.worker[w] # Absent /\ k.mem.worker[w].of = p
      BY <1>5, <2>2 DEF IsLive, Readable
    <3>2. p \in Perspective /\ k.mem.group[p] # Absent
      BY <1>1, <3>1, SoundRecords DEF Sound, Joined
    <3>3. ProvisionedIn(k.mem, w)
      BY <1>1, <3>1
    <3>4. groupFile'[p] = k.mem.group[p]
      BY <2>2, <3>2
    <3> HIDE DEF p
    <3> QED
      BY <3>1, <3>2, <3>3, <3>4 DEF p, ProvisionedIn, Provisioned
  <2> QED
    BY <1>5, <2>1, <2>2
<1>6. NoOrphanWorkers'
  BY <1>5 DEF NoOrphanWorkers, IsLive, OnDisk
<1>7. LiveWorkerHasWorktree'
  BY <1>5 DEF LiveWorkerHasWorktree, IsLive, OnDisk
<1> QED
  BY <1>3, <1>4, <1>6, <1>7 DEF FilesInv

\* And the snapshot may go on replacing them.
LEMMA ReplacesWritten ==
  ASSUME NEW q \in Process, Replaces(job[q]), job[q].pc \in Storing,
         job'[q].pc \in Storing, job'[q].mem = job[q].mem,
         UNCHANGED <<worktree, registered, head>>, Whole',
         \A w \in Worker : Readable(workerFile'[w]) =>
           workerFile'[w] \in {workerFile[w], job[q].mem.worker[w]}
  PROVE  Replaces(job[q])'
<1> DEFINE k == job[q]
<1>1. /\ Sound(k.mem)
      /\ \A w \in Worker : IsLive(OnDisk, w) =>
           k.mem.worker[w] # Absent /\ k.mem.worker[w].of = workerFile[w].of
      /\ \A w \in Worker : IsLive(OnDisk, w) \/ IsLive(k.mem, w) =>
           ProvisionedIn(k.mem, w)
  BY DEF Replaces
<1>2. Sound(job[q].mem)'
  BY <1>1 DEF Sound, Joined, Reached, NamedByOwner
<1>3. \A w \in Worker : ProvisionedIn(k.mem, w) => ProvisionedIn(job[q].mem, w)'
  BY DEF ProvisionedIn, Provisioned
<1>4. ASSUME NEW w \in Worker, Readable(workerFile'[w]), workerFile'[w].state \in Live
      PROVE  /\ IsLive(OnDisk, w) \/ IsLive(k.mem, w)
             /\ k.mem.worker[w] # Absent /\ k.mem.worker[w].of = workerFile'[w].of
  <2>1. CASE workerFile'[w] = workerFile[w]
    BY <1>1, <1>4, <2>1 DEF IsLive, OnDisk
  <2>2. CASE workerFile'[w] = k.mem.worker[w]
    BY <1>4, <2>2 DEF IsLive, Readable
  <2> QED
    BY <1>4, <2>1, <2>2
<1>5. \A w \in Worker : IsLive(k.mem, w) => ProvisionedIn(job[q].mem, w)'
  BY <1>1, <1>3
<1>6. \A w \in Worker : Readable(workerFile'[w]) /\ workerFile'[w].state \in Live =>
        /\ ProvisionedIn(job[q].mem, w)'
        /\ job'[q].mem.worker[w] # Absent
        /\ job'[q].mem.worker[w].of = workerFile'[w].of
  BY <1>1, <1>3, <1>4
<1> QED
  BY <1>2, <1>5, <1>6 DEF Replaces, IsLive, OnDisk

\* What a step of a store has to start from.
LEMMA StoringFacts ==
  ASSUME StoreInv, NEW q \in Process, job[q].pc \in Storing
  PROVE  /\ FilesInv /\ FilesTyped /\ JobInv(job[q]) /\ WriteInv(job[q])
         /\ job \in [Process -> JobRecord] /\ job[q] \in JobRecord
         /\ Replaces(job[q]) /\ Whole /\ Sound(job[q].mem)
         /\ job[q].mem.group \in Groups /\ job[q].mem.worker \in Workers
         /\ job[q].cmd # "none"
         /\ groupFile \in Groups /\ workerFile \in Workers
<1>1. /\ FilesInv /\ FilesTyped /\ JobInv(job[q])
      /\ job \in [Process -> JobRecord] /\ job[q] \in JobRecord
  BY DEF StoreInv, FilesInv, FilesTyped
<1>2. Replaces(job[q]) /\ WriteInv(job[q]) /\ job[q].cmd # "none"
  BY <1>1 DEF JobInv, ReplacingInv, WriteInv
<1>3. Whole /\ Sound(job[q].mem)
  BY <1>2 DEF Replaces
<1>4. groupFile \in Groups /\ workerFile \in Workers
  BY <1>1, <1>3 DEF Whole, FilesTyped, Groups, Workers
<1> QED
  BY <1>1, <1>2, <1>3, <1>4 DEF Sound

\* A job that goes on storing.
LEMMA StoringOn ==
  ASSUME NEW q \in Process, JobInv(job[q]), job[q].pc \in Storing,
         job'[q].pc \in Storing, job'[q].cmd = job[q].cmd,
         job'[q].subject = job[q].subject,
         Replaces(job[q])', WriteInv(job[q])'
  PROVE  JobInv(job[q])'
BY DEF JobInv, ReplacingInv, CreateInv, DeleteInv, AgentInv, ForwardInv

\* Files that the snapshot does not have are removed.
LEMMA StaleGroupsStep ==
  ASSUME StoreInv, NEW q \in Process, RemoveStaleGroupFiles(q)
  PROVE  FilesInv' /\ JobInv(job[q])'
<1> DEFINE k == job[q]
<1>1. k.pc = "groups" /\ k.pc \in Storing /\ "workers" \in Pc
  BY DEF RemoveStaleGroupFiles, Running, Pc
<1>2. /\ FilesInv /\ FilesTyped /\ JobInv(k) /\ job \in [Process -> JobRecord]
      /\ Replaces(k) /\ Whole /\ Sound(k.mem) /\ k.cmd # "none"
      /\ k.mem.group \in Groups /\ groupFile \in Groups
  BY <1>1, StoringFacts
<1>3. /\ job' \in [Process -> JobRecord] /\ job'[q].pc = "workers"
      /\ job'[q].cmd = k.cmd /\ job'[q].subject = k.subject /\ job'[q].mem = k.mem
  BY <1>1, <1>2, GotoJob DEF RemoveStaleGroupFiles
<1>4. UNCHANGED <<workerFile, exclusion, worktree, registered, head, faults>>
  BY DEF RemoveStaleGroupFiles
<1>5. groupFile' = [p \in Perspective |->
                      IF k.mem.group[p] = Absent THEN Absent ELSE groupFile[p]]
  BY <1>2 DEF RemoveStaleGroupFiles, Kept, Groups
<1>6. groupFile' \in Groups
  BY <1>2, <1>5 DEF Groups
<1>7. \A p \in Perspective : groupFile'[p] \in {groupFile[p], k.mem.group[p], Torn}
  BY <1>5
<1>8. FilesTyped' /\ Whole'
  BY <1>2, <1>3, <1>4, <1>6, FileAssumption DEF FilesTyped, Whole, Groups
<1>9. FilesInv'
  BY <1>1, <1>2, <1>4, <1>7, <1>8, FilesWritten
<1>10. Replaces(job[q])'
  BY <1>1, <1>2, <1>3, <1>4, <1>8, ReplacesWritten
<1>11. WriteInv(job[q])'
  BY <1>2, <1>3, <1>5 DEF WriteInv
<1> QED
  BY <1>1, <1>2, <1>3, <1>9, <1>10, <1>11, StoringOn

LEMMA StaleWorkersStep ==
  ASSUME StoreInv, NEW q \in Process, RemoveStaleWorkerFiles(q)
  PROVE  FilesInv' /\ JobInv(job[q])'
<1> DEFINE k == job[q]
           left == Expected(k.mem.group) \cup Expected(k.mem.worker)
<1>1. k.pc = "workers" /\ k.pc \in Storing /\ "write" \in Pc
  BY DEF RemoveStaleWorkerFiles, Running, Pc
<1>2. /\ FilesInv /\ FilesTyped /\ JobInv(k) /\ WriteInv(k)
      /\ job \in [Process -> JobRecord] /\ k \in JobRecord
      /\ Replaces(k) /\ Whole /\ Sound(k.mem) /\ k.cmd # "none"
      /\ k.mem.group \in Groups /\ k.mem.worker \in Workers /\ workerFile \in Workers
  BY <1>1, StoringFacts
<1>3. /\ \A p \in Perspective : p \in left \/ k.mem.group[p] = Absent
      /\ \A w \in Worker : w \in left \/ k.mem.worker[w] = Absent
      /\ left \in SUBSET (Perspective \cup Worker)
  BY <1>2 DEF Expected, Groups, Workers
<1>4. UNCHANGED <<groupFile, exclusion, worktree, registered, head, faults>>
  BY DEF RemoveStaleWorkerFiles
<1>5. Begin(q, Phase(k, "write", left))
  BY DEF RemoveStaleWorkerFiles, Phase
<1>6. workerFile' = [w \in Worker |->
                       IF k.mem.worker[w] = Absent THEN Absent ELSE workerFile[w]]
  BY <1>2 DEF RemoveStaleWorkerFiles, Kept, Workers
<1>7. /\ job' \in [Process -> JobRecord] /\ job'[q].pc = "write" /\ job'[q].left = left
      /\ job'[q].cmd = k.cmd /\ job'[q].subject = k.subject /\ job'[q].mem = k.mem
  <2> HIDE DEF left, k
  <2>1. /\ Phase(k, "write", left) \in JobRecord
        /\ Phase(k, "write", left).pc = "write"
        /\ Phase(k, "write", left).left = left
        /\ Phase(k, "write", left).cmd = k.cmd
        /\ Phase(k, "write", left).subject = k.subject
        /\ Phase(k, "write", left).mem = k.mem
    BY <1>1, <1>2, <1>3, PhaseFields
  <2>2. job' \in [Process -> JobRecord] /\ job'[q] = Phase(k, "write", left)
    BY <1>2, <1>5, <2>1, BeginJob
  <2> QED
    BY <2>1, <2>2
<1>8. workerFile' \in Workers
  BY <1>2, <1>6 DEF Workers
<1>9. \A w \in Worker : Readable(workerFile'[w]) => workerFile'[w] = workerFile[w]
  BY <1>6 DEF Readable
<1>10. FilesTyped' /\ Whole'
  BY <1>2, <1>4, <1>7, <1>8, FileAssumption DEF FilesTyped, Whole, Workers
<1>11. FilesInv'
  BY <1>1, <1>2, <1>4, <1>9, <1>10, FilesWritten
<1>12. Replaces(job[q])'
  BY <1>1, <1>2, <1>4, <1>7, <1>9, <1>10, ReplacesWritten
<1>13. WriteInv(job[q])'
  <2>1. \A p \in Perspective \ left : groupFile'[p] = k.mem.group[p]
    BY <1>1, <1>2, <1>3, <1>4 DEF WriteInv
  <2>2. \A w \in Worker \ left : workerFile'[w] = k.mem.worker[w]
    BY <1>3, <1>6
  <2> QED
    BY <1>2, <1>7, <2>1, <2>2 DEF WriteInv
<1> QED
  BY <1>1, <1>2, <1>7, <1>11, <1>12, <1>13, StoringOn

\* The next file to be written is one of those left; a worker only once no
\* group is.
LEMMA NextFileIn ==
  ASSUME NEW left, left # {}
  PROVE  /\ NextFile(left) \in left
         /\ left \cap Perspective # {} => NextFile(left) \in Perspective
<1>1. CASE left \cap Perspective # {}
  <2>1. NextFile(left) \in left \cap Perspective
    BY <1>1, NextOfIn DEF NextFile
  <2> QED
    BY <2>1
<1>2. CASE left \cap Perspective = {}
  BY <1>2, NextOfIn DEF NextFile
<1> QED
  BY <1>1, <1>2

\* A file is the file of a group or of a worker, and the snapshot has it.
LEMMA FileToWrite ==
  ASSUME NEW q \in Process, WriteInv(job[q]), job[q].pc = "write",
         Sound(job[q].mem), job[q].left # {}, NEW f, f = NextFile(job[q].left)
  PROVE  /\ f \in job[q].left
         /\ \/ f \in Perspective /\ f \notin Worker
               /\ job[q].mem.group[f] \in GroupRecord
            \/ f \in Worker /\ f \notin Perspective
               /\ job[q].mem.worker[f] \in WorkerRecord
               /\ job[q].left \cap Perspective = {}
<1> DEFINE k == job[q]
<1>1. f \in k.left /\ (k.left \cap Perspective # {} => f \in Perspective)
  BY NextFileIn
<1>2. k.left \subseteq Expected(k.mem.group) \cup Expected(k.mem.worker)
  BY DEF WriteInv
<1>3. /\ \A x \in Expected(k.mem.group) : x \in Perspective /\ k.mem.group[x] # Absent
      /\ \A x \in Expected(k.mem.worker) : x \in Worker /\ k.mem.worker[x] # Absent
  BY DEF Expected, Sound, Groups, Workers
<1>4. Perspective \cap Worker = {}
  BY IdAssumption
<1>5. /\ \A x \in Perspective : k.mem.group[x] \in GroupRecord \cup {Absent}
      /\ \A x \in Worker : k.mem.worker[x] \in WorkerRecord \cup {Absent}
  BY SoundRecords
<1> QED
  BY <1>1, <1>2, <1>3, <1>4, <1>5

\* One file gets its record.
LEMMA WriteStep ==
  ASSUME StoreInv, NEW q \in Process, WriteRecord(q)
  PROVE  FilesInv' /\ JobInv(job[q])'
<1> DEFINE k == job[q]
           f == NextFile(k.left)
           left == k.left \ {f}
<1>1. k.pc = "write" /\ k.pc \in Storing /\ k.left # {}
  BY DEF WriteRecord, Running
<1>2. /\ FilesInv /\ FilesTyped /\ JobInv(k) /\ WriteInv(k)
      /\ job \in [Process -> JobRecord] /\ k \in JobRecord
      /\ Replaces(k) /\ Whole /\ Sound(k.mem) /\ k.cmd # "none"
      /\ groupFile \in Groups /\ workerFile \in Workers
  BY <1>1, StoringFacts
<1>3. /\ k.left \subseteq Expected(k.mem.group) \cup Expected(k.mem.worker)
      /\ \A p \in Perspective \ k.left : groupFile[p] = k.mem.group[p]
      /\ \A w \in Worker \ k.left : workerFile[w] = k.mem.worker[w]
  BY <1>1, <1>2 DEF WriteInv
<1>4. /\ f \in k.left
      /\ \/ f \in Perspective /\ f \notin Worker
            /\ k.mem.group[f] \in GroupRecord
         \/ f \in Worker /\ f \notin Perspective
            /\ k.mem.worker[f] \in WorkerRecord
            /\ k.left \cap Perspective = {}
  BY <1>1, <1>2, FileToWrite
<1>5. /\ WriteFile(f, Contents(k.mem, f))
      /\ Begin(q, Walked(k, left))
      /\ UNCHANGED <<exclusion, worktree, registered, head, faults>>
  BY DEF WriteRecord, Walked
<1>6. left \in SUBSET (Perspective \cup Worker)
  BY <1>2 DEF JobRecord
<1> HIDE DEF f
<1>7. /\ job' \in [Process -> JobRecord] /\ job'[q].pc = "write" /\ job'[q].left = left
      /\ job'[q].cmd = k.cmd /\ job'[q].subject = k.subject /\ job'[q].mem = k.mem
  <2> HIDE DEF left, k
  <2>1. /\ Walked(k, left) \in JobRecord
        /\ Walked(k, left).pc = k.pc
        /\ Walked(k, left).left = left
        /\ Walked(k, left).cmd = k.cmd
        /\ Walked(k, left).subject = k.subject
        /\ Walked(k, left).mem = k.mem
    BY <1>2, <1>6, LeftFields
  <2>2. job' \in [Process -> JobRecord] /\ job'[q] = Walked(k, left)
    BY <1>2, <1>5, <2>1, BeginJob
  <2> QED
    BY <1>1, <2>1, <2>2
<1>8. \/ /\ f \in Perspective /\ f \notin Worker
         /\ groupFile' = [groupFile EXCEPT ![f] = k.mem.group[f]]
         /\ UNCHANGED workerFile
      \/ /\ f \in Worker /\ f \notin Perspective
         /\ workerFile' = [workerFile EXCEPT ![f] = k.mem.worker[f]]
         /\ UNCHANGED groupFile
         /\ \A p \in Perspective : groupFile'[p] = k.mem.group[p]
  BY <1>3, <1>4, <1>5 DEF WriteFile, Contents
<1>9. /\ groupFile' \in Groups /\ workerFile' \in Workers
      /\ \A p \in Perspective : groupFile'[p] = IF p = f THEN k.mem.group[p] ELSE groupFile[p]
      /\ \A w \in Worker : workerFile'[w] = IF w = f THEN k.mem.worker[w] ELSE workerFile[w]
  BY <1>2, <1>4, <1>8 DEF Groups, Workers
<1>10. FilesTyped' /\ Whole'
  BY <1>2, <1>5, <1>7, <1>9, FileAssumption DEF FilesTyped, Whole, Groups, Workers
<1>11. /\ \A p \in Perspective : groupFile'[p] \in {groupFile[p], k.mem.group[p], Torn}
       /\ \A w \in Worker : Readable(workerFile'[w]) =>
            \/ workerFile'[w] = workerFile[w]
            \/ /\ workerFile'[w] = k.mem.worker[w]
               /\ \A p \in Perspective : groupFile'[p] = k.mem.group[p]
  BY <1>8, <1>9
<1>12. FilesInv'
  BY <1>1, <1>2, <1>5, <1>10, <1>11, FilesWritten
<1>13. Replaces(job[q])'
  BY <1>1, <1>2, <1>5, <1>7, <1>10, <1>11, ReplacesWritten
<1>14. WriteInv(job[q])'
  <2>1. /\ left \subseteq Expected(k.mem.group) \cup Expected(k.mem.worker)
        /\ \A p \in Perspective \ left : groupFile'[p] = k.mem.group[p]
        /\ \A w \in Worker \ left : workerFile'[w] = k.mem.worker[w]
    BY <1>3, <1>9
  <2> HIDE DEF left
  <2> QED
    BY <1>2, <1>7, <2>1 DEF WriteInv
<1> QED
  BY <1>1, <1>2, <1>7, <1>12, <1>13, <1>14, StoringOn

\* Or is left truncated, and the command is over.
LEMMA TearStep ==
  ASSUME StoreInv, NEW q \in Process, TearRecord(q)
  PROVE  FilesInv' /\ JobInv(job[q])'
<1> DEFINE k == job[q]
           f == NextFile(k.left)
<1>1. k.pc = "write" /\ k.pc \in Storing /\ k.left # {}
  BY DEF TearRecord, Running
<1>2. /\ FilesInv /\ FilesTyped /\ WriteInv(k)
      /\ job \in [Process -> JobRecord]
      /\ Replaces(k) /\ Sound(k.mem)
      /\ groupFile \in Groups /\ workerFile \in Workers
  BY <1>1, StoringFacts
<1>3. \/ f \in Perspective /\ f \notin Worker
      \/ f \in Worker /\ f \notin Perspective
  BY <1>1, <1>2, FileToWrite
<1>4. /\ WriteFile(f, Torn) /\ End(q)
      /\ faults' \in 0..MaxFaults
      /\ UNCHANGED <<exclusion, worktree, registered, head>>
  BY <1>2, StoreBoundsAssumption DEF TearRecord, FilesTyped
<1> HIDE DEF f
<1>5. job' \in [Process -> JobRecord] /\ JobInv(job[q])'
  BY <1>2, <1>4, EndJob
<1>6. /\ groupFile' \in [Perspective -> GroupRecord \cup {Absent, Torn}]
      /\ workerFile' \in [Worker -> WorkerRecord \cup {Absent, Torn}]
      /\ \A p \in Perspective : groupFile'[p] \in {groupFile[p], Torn}
      /\ \A w \in Worker : workerFile'[w] \in {workerFile[w], Torn}
  BY <1>2, <1>3, <1>4 DEF WriteFile, Groups, Workers
<1>7. FilesTyped'
  BY <1>2, <1>4, <1>5, <1>6 DEF FilesTyped
<1>8. \A w \in Worker : Readable(workerFile'[w]) => workerFile'[w] = workerFile[w]
  BY <1>6 DEF Readable
<1>9. FilesInv'
  BY <1>1, <1>2, <1>4, <1>6, <1>7, <1>8, FilesWritten
<1> QED
  BY <1>5, <1>9

\* Every file is written: the snapshot is what is on disk.
LEMMA StoredDisk ==
  ASSUME StoreInv, NEW q \in Process, Stored(q)
  PROVE  job[q].mem = OnDisk
<1> DEFINE k == job[q]
<1>1. k.pc = "write" /\ k.pc \in Storing /\ k.left = {}
  BY DEF Stored, Running
<1>2. /\ WriteInv(k) /\ k \in JobRecord
      /\ k.mem.group \in Groups /\ k.mem.worker \in Workers
      /\ groupFile \in Groups /\ workerFile \in Workers
  BY <1>1, StoringFacts
<1>3. /\ \A p \in Perspective : groupFile[p] = k.mem.group[p]
      /\ \A w \in Worker : workerFile[w] = k.mem.worker[w]
  BY <1>1, <1>2 DEF WriteInv
<1>4. groupFile = k.mem.group
  BY <1>2, <1>3 DEF Groups
<1>5. workerFile = k.mem.worker
  BY <1>2, <1>3 DEF Workers
<1>6. k.mem = [group |-> k.mem.group, worker |-> k.mem.worker]
  BY <1>2 DEF JobRecord
<1> QED
  BY <1>4, <1>5, <1>6 DEF OnDisk

\* The command is over, or the exclusion set is next.
LEMMA StoredStep ==
  ASSUME StoreInv, NEW q \in Process, Stored(q)
  PROVE  FilesInv' /\ JobInv(job[q])'
<1> DEFINE k == job[q]
<1>1. k.pc = "write" /\ k.pc \in Storing /\ k.left = {}
  BY DEF Stored, Running
<1>2. /\ FilesInv /\ FilesTyped /\ JobInv(k) /\ WriteInv(k)
      /\ job \in [Process -> JobRecord] /\ k \in JobRecord
      /\ Sound(k.mem)
      /\ k.mem.group \in Groups /\ k.mem.worker \in Workers
      /\ groupFile \in Groups /\ workerFile \in Workers
  BY <1>1, StoringFacts
<1>3. UNCHANGED <<disk, exclusion, worktree, registered, head, faults>>
  BY DEF Stored
<1>4. k.mem = OnDisk
  BY StoredDisk
<1>5. CASE End(q)
  <2>1. faults' \in 0..MaxFaults
    BY <1>2, <1>3 DEF FilesTyped
  <2> QED
    BY <1>2, <1>3, <1>5, <2>1, EndKeepsFiles
<1>6. ASSUME NEW pc \in Persisted, Goto(q, pc), pc = "task" => k.cmd = "create"
      PROVE  FilesInv' /\ JobInv(job[q])'
  <2>1. pc \in Pc
    BY DEF Pc
  <2>2. /\ job' \in [Process -> JobRecord] /\ job'[q].pc = pc
        /\ job'[q].cmd = k.cmd /\ job'[q].subject = k.subject /\ job'[q].mem = k.mem
    BY <1>2, <1>6, <2>1, GotoJob
  <2>3. FilesTyped' /\ head' >= head
    BY <1>2, <1>3, <2>2 DEF FilesTyped, disk
  <2>4. FilesInv'
    BY <1>2, <1>3, <2>3, FilesKept DEF Stays
  <2>5. job'[q].mem = OnDisk' /\ Sound(job[q].mem)'
    BY <1>2, <1>3, <1>4, <2>2
       DEF OnDisk, disk, Sound, Joined, Reached, NamedByOwner
  <2> QED
    BY <1>2, <1>6, <2>2, <2>4, <2>5
       DEF JobInv, ReplacingInv, CreateInv, DeleteInv, AgentInv, ForwardInv, WriteInv
<1> QED
  <2>1. \/ End(q)
        \/ k.cmd = "create" /\ Goto(q, "task")
        \/ Goto(q, "project")
    BY DEF Stored
  <2> QED
    BY <1>5, <1>6, <2>1

\* The exclusion set names boundaries.
LEMMA ExclusionTyped ==
  ASSUME NEW s, Sound(s)
  PROVE  CollectExclusionSet(s) \subseteq Perspective \X (1..MaxHead)
<1> SUFFICES ASSUME NEW p \in Perspective, LiveMembers(s, p) # {}
             PROVE  s.group[p].base \in 1..MaxHead
  BY DEF CollectExclusionSet
<1>1. PICK w \in LiveMembers(s, p) : TRUE
  OBVIOUS
<1>2. s.group[p] \in GroupRecord
  BY <1>1, LiveMemberFacts
<1> QED
  BY <1>2 DEF GroupRecord

\* Rewriting the exclusion set, in whole or in part, ends a command.
LEMMA RewriteStep ==
  ASSUME StoreInv, NEW q \in Process,
         RewriteExclusionSet(q) \/ TearExclusionSet(q)
  PROVE  FilesInv' /\ JobInv(job[q])'
<1>1. /\ FilesInv /\ FilesTyped /\ JobInv(job[q]) /\ job[q].pc = "project"
      /\ job \in [Process -> JobRecord]
  BY DEF StoreInv, FilesInv, FilesTyped, RewriteExclusionSet, TearExclusionSet, Running
<1>2. Sound(job[q].mem)
  BY <1>1 DEF JobInv, WriteInv
<1>3. /\ exclusion' \subseteq CollectExclusionSet(job[q].mem) /\ End(q)
      /\ UNCHANGED <<disk, worktree, registered, head>>
  BY DEF RewriteExclusionSet, TearExclusionSet
<1>4. faults' \in 0..MaxFaults
  BY <1>1, StoreBoundsAssumption DEF RewriteExclusionSet, TearExclusionSet, FilesTyped
<1>5. job' \in [Process -> JobRecord] /\ JobInv(job[q])'
  BY <1>1, <1>3, EndJob
<1>6. exclusion' \subseteq Perspective \X (1..MaxHead)
  BY <1>2, <1>3, ExclusionTyped
<1>7. FilesTyped' /\ head' >= head
  BY <1>1, <1>3, <1>4, <1>5, <1>6 DEF FilesTyped, disk
<1>8. FilesInv'
  BY <1>1, <1>3, <1>7, FilesKept DEF Stays
<1> QED
  BY <1>5, <1>8

-----------------------------------------------------------------------------
(* The environment. *)

\* A command may stop anywhere.
LEMMA FaultStep ==
  ASSUME StoreInv, NEW q \in Process, Fault(q)
  PROVE  FilesInv' /\ JobInv(job[q])'
<1>1. FilesInv /\ faults' \in 0..MaxFaults
  BY StoreBoundsAssumption DEF StoreInv, FilesInv, FilesTyped, Fault
<1> QED
  BY <1>1, EndKeepsFiles DEF Fault

\* The files do not depend on canonical HEAD staying where it is.
LEMMA HeadFiles ==
  ASSUME StoreInv, AdvanceHead \/ UNCHANGED vars
  PROVE  /\ FilesInv' /\ FilesTyped' /\ head' \in 1..MaxHead /\ head' >= head
         /\ UNCHANGED <<disk, exclusion, worktree, registered, job, faults>>
<1>1. FilesInv /\ FilesTyped
  BY DEF StoreInv, FilesInv
<1>2. /\ head' \in 1..MaxHead /\ head' >= head
      /\ UNCHANGED <<disk, exclusion, worktree, registered, job, faults>>
  BY <1>1, StoreBoundsAssumption DEF AdvanceHead, vars, disk, FilesTyped
<1>3. FilesTyped'
  BY <1>1, <1>2 DEF FilesTyped, disk
<1>4. FilesInv'
  BY <1>1, <1>2, <1>3, FilesKept DEF Stays
<1> QED
  BY <1>2, <1>3, <1>4

\* Nothing a command relies on changes when canonical HEAD advances, nor when
\* nothing happens.
LEMMA HeadStep ==
  ASSUME StoreInv, AdvanceHead \/ UNCHANGED vars, NEW q \in Process
  PROVE  FilesInv' /\ JobInv(job[q])'
<1> DEFINE k == job[q]
<1>1. /\ FilesInv /\ FilesTyped /\ JobInv(k) /\ k \in JobRecord
  BY DEF StoreInv, FilesInv, FilesTyped
<1>2. /\ FilesInv' /\ head' \in 1..MaxHead /\ head' >= head
      /\ UNCHANGED <<disk, exclusion, worktree, registered, job, faults>>
  BY HeadFiles
<1>3. FilesTyped'
  BY HeadFiles
<1>4. job'[q] = k /\ OnDisk' = OnDisk
  BY <1>2 DEF OnDisk, disk
<1>5. ReplacingInv(job[q])'
  <2> SUFFICES ASSUME k.pc \in Preparing \cup Storing \cup {"drop"}
               PROVE  Replaces(job[q])'
    BY <1>4 DEF ReplacingInv
  <2>1. Replaces(k)
    BY <1>1 DEF JobInv, ReplacingInv
  <2> QED
    BY <1>1, <1>2, <1>3, <1>4, <2>1, ReplacesKept DEF Stays
<1>6. CreateInv(job[q])' /\ DeleteInv(job[q])' /\ AgentInv(job[q])'
  BY <1>1, <1>2, <1>4
     DEF JobInv, CreateInv, DeleteInv, AgentInv, IsLive, IsFinal
<1>7. Sound(k.mem) => Sound(job[q].mem)'
  <2> SUFFICES ASSUME Sound(k.mem)
               PROVE  Sound(job[q].mem)'
    OBVIOUS
  <2>1. head \in Nat /\ head' \in Nat
    BY <1>1, <1>2 DEF FilesTyped
  <2>2. Sound(k.mem)
    OBVIOUS
  <2>3. \A p \in Perspective : Readable(k.mem.group[p]) => k.mem.group[p].base \in Nat
    BY <2>2, StoreBoundsAssumption DEF Sound, Groups, GroupRecord, Readable
  <2> QED
    BY <1>2, <1>4, <2>1, <2>2, <2>3 DEF Sound, Joined, Reached, NamedByOwner
<1>8. WriteInv(job[q])'
  BY <1>1, <1>2, <1>4, <1>7 DEF JobInv, WriteInv, disk
<1>9. ForwardInv(job[q])'
  <2> SUFFICES ASSUME k.pc \in Forwarding
               PROVE  ForwardInv(job[q])'
    BY <1>4 DEF ForwardInv
  <2>1. ForwardInv(k)
    BY <1>1 DEF JobInv
  <2>2. k.to \in k.mem.group[k.of].base..head'
    <3>1. PICK w \in Movers(k) : TRUE
      BY <2>1 DEF ForwardInv
    <3>2. k.mem.group[k.of].base \in 1..MaxHead
      BY <1>1, <2>1, <3>1, MoverFacts DEF GroupRecord
    <3>3. k.to \in k.mem.group[k.of].base..head
      BY <2>1 DEF ForwardInv
    <3> QED
      BY <1>1, <1>2, <3>2, <3>3 DEF FilesTyped
  <2>3. Movers(job[q])' = Movers(k)
    BY <1>2 DEF Movers, LiveMembers, Members
  <2>4. \A v \in Movers(k) : CheckpointOf(job[q], v)' = CheckpointOf(k, v)
    BY <1>2 DEF CheckpointOf, Checkpoint
  <2> QED
    BY <1>2, <1>4, <1>7, <2>1, <2>2, <2>3, <2>4 DEF ForwardInv
<1> QED
  BY <1>2, <1>5, <1>6, <1>8, <1>9 DEF JobInv

-----------------------------------------------------------------------------
(* The whole. *)

\* At first there is nothing on disk.
LEMMA StoreInit ==
  ASSUME Init
  PROVE  StoreInv
<1>1. FilesTyped
  BY IdleTyped, StoreBoundsAssumption DEF Init, FilesTyped
<1>2. /\ \A p \in Perspective : ~Readable(groupFile[p])
      /\ \A w \in Worker : ~Readable(workerFile[w])
  BY DEF Init, Readable
<1>3. FilesInv
  BY <1>1, <1>2
     DEF FilesInv, Reached, NamedByOwner, NoOrphanWorkers, LiveWorkerHasWorktree,
         IsLive, OnDisk
<1>4. \A q \in Process : job[q].pc = "idle" /\ job[q].cmd = "none"
  BY DEF Init, Idle
<1>5. \A q \in Process : JobInv(job[q])
  BY <1>4 DEF JobInv, ReplacingInv, CreateInv, DeleteInv, AgentInv, ForwardInv, WriteInv
<1> QED
  BY <1>3, <1>5 DEF StoreInv

\* A step of a process keeps what it relies on itself.
LEMMA ProcessStep ==
  ASSUME IdsAreOwn, StoreInv, NEW q \in Process,
         Start(q) \/ Continue(q) \/ FailForward(q) \/ Fault(q)
           \/ TearRecord(q) \/ TearExclusionSet(q)
  PROVE  FilesInv' /\ JobInv(job[q])'
<1>1. CASE Start(q)
  BY <1>1, StartCreateStep, StartDiscardStep, StartDeleteStep, StartForwardStep,
     StartAgentStep, PublishWorkerInboxStep DEF Start
<1>2. CASE Store(q)
  BY <1>2, StaleGroupsStep, StaleWorkersStep, WriteStep, StoredStep, RewriteStep
     DEF Store
<1>3. CASE Continue(q) /\ ~Store(q)
  BY <1>3, CleanupStep, ClearStep, AddStep, RuntimeStep, PublishTaskStep, DropStep,
     SubmitStep, AckStep, ForwardStep, RefreshStep, RollbackStep, RefuseStep
     DEF Continue
<1>4. CASE FailForward(q) \/ Fault(q) \/ TearRecord(q) \/ TearExclusionSet(q)
  BY <1>4, FailForwardStep, FaultStep, TearStep, RewriteStep
<1> QED
  BY <1>1, <1>2, <1>3, <1>4

\* With one process there is nobody else to disturb.
LEMMA StoreStep ==
  ASSUME OneProcess, IdsAreOwn, StoreInv, [Next]_vars
  PROVE  StoreInv'
<1>1. CASE \E q \in Process :
             Start(q) \/ Continue(q) \/ FailForward(q) \/ Fault(q)
               \/ TearRecord(q) \/ TearExclusionSet(q)
  <2>1. PICK q \in Process :
          Start(q) \/ Continue(q) \/ FailForward(q) \/ Fault(q)
            \/ TearRecord(q) \/ TearExclusionSet(q)
    BY <1>1
  <2>2. FilesInv' /\ JobInv(job[q])'
    BY <2>1, ProcessStep
  <2>3. \A r \in Process : r = q
    BY DEF OneProcess
  <2>4. \A r \in Process : JobInv(job[r])'
    BY <2>2, <2>3
  <2> QED
    BY <2>2, <2>4 DEF StoreInv
<1>2. CASE AdvanceHead \/ UNCHANGED vars
  BY <1>2, HeadFiles, HeadStep DEF StoreInv
<1> QED
  BY <1>1, <1>2 DEF Next

\* Every reachable state satisfies the invariant.
LEMMA StoreInvariant ==
  ASSUME OneProcess, IdsAreOwn
  PROVE  Spec => []StoreInv
<1>1. Init => StoreInv
  BY StoreInit
<1>2. StoreInv /\ [Next]_vars => StoreInv'
  BY StoreStep
<1> QED
  BY <1>1, <1>2, PTL DEF Spec

\* The files hold records, nothing or a torn write (storage.rs), whatever step
\* of a command was the last one.
THEOREM StoreTypeOK ==
  ASSUME OneProcess, IdsAreOwn
  PROVE  Spec => []TypeOK
<1>1. StoreInv => TypeOK
  <2> SUFFICES ASSUME StoreInv PROVE TypeOK
    OBVIOUS
  <2>1. FilesTyped
    BY DEF StoreInv, FilesInv
  <2>2. \A q \in Process :
          job[q].mem.group \in Groups /\ job[q].mem.worker \in Workers
    BY <2>1 DEF FilesTyped, JobRecord
  <2> QED
    BY <2>1, <2>2 DEF FilesTyped, TypeOK
<1> QED
  BY <1>1, StoreInvariant, PTL

\* No live worker is ever lost behind a group file that is gone: store_state
\* writes the groups before the workers.
THEOREM LiveWorkersLoad ==
  ASSUME OneProcess, IdsAreOwn
  PROVE  Spec => []NoOrphanWorkers
<1>1. StoreInv => NoOrphanWorkers
  BY DEF StoreInv, FilesInv
<1> QED
  BY <1>1, StoreInvariant, PTL

\* A worker recorded as live has its worktree, at or past the base of its group
\* and under its contract, wherever a command stops.
THEOREM LiveWorkersWork ==
  ASSUME OneProcess, IdsAreOwn
  PROVE  Spec => []LiveWorkerHasWorktree
<1>1. StoreInv => LiveWorkerHasWorktree
  BY DEF StoreInv, FilesInv
<1> QED
  BY <1>1, StoreInvariant, PTL

-----------------------------------------------------------------------------
(* What a command leaves behind when it ends. *)

\* A job that is not idle is not ended by a step of nobody.
LEMMA IdlePc == Idle.pc = "idle"
BY DEF Idle

\* Only the rewrite ends a command that is about to rewrite the exclusion set.
LEMMA ProjectStep ==
  ASSUME OneProcess, StoreInv, [Next]_vars, NEW q \in Process,
         Running(q, "project"), job'[q] = Idle, faults' = faults
  PROVE  exclusion' = CollectExclusionSet(OnDisk)'
<1>1. /\ JobInv(job[q]) /\ FilesTyped
      /\ job[q].pc = "project" /\ job[q] # Idle
  BY IdlePc DEF StoreInv, FilesInv, Running
<1>2. faults # faults + 1
  BY <1>1 DEF FilesTyped
<1>3. ~(AdvanceHead \/ UNCHANGED vars)
  BY <1>1 DEF AdvanceHead, vars
<1>4. PICK r \in Process :
        Start(r) \/ Continue(r) \/ FailForward(r) \/ Fault(r)
          \/ TearRecord(r) \/ TearExclusionSet(r)
  BY <1>3 DEF Next
<1>5. r = q
  BY DEF OneProcess
<1>6. ~Start(q)
  BY <1>1 DEF Start, StartCreate, StartDiscard, StartDelete, StartForward, StartReport,
              StartCommit, StartAck, PublishWorkerInbox, Running
<1>7. ~(FailForward(q) \/ Fault(q) \/ TearRecord(q) \/ TearExclusionSet(q))
  BY <1>1, <1>2 DEF FailForward, Fault, TearRecord, TearExclusionSet, Running
<1>8. RewriteExclusionSet(q)
  BY <1>1, <1>4, <1>5, <1>6, <1>7
     DEF Continue, Store, CleanupWorkspaceBeforeCreate, ClearDirectory, AddWorktree,
         PrepareWorkerRuntime, PublishTask, DropWorktree, UpdateSubmissionState,
         UpdateStateAfterAck, ForwardWorktree, RefreshWorker, RollbackForwardWorktree,
         RefuseForward, RemoveStaleGroupFiles, RemoveStaleWorkerFiles, WriteRecord,
         Stored, Running
<1>9. exclusion' = CollectExclusionSet(OnDisk) /\ UNCHANGED disk
  BY <1>1, <1>8 DEF RewriteExclusionSet, JobInv, WriteInv
<1>10. OnDisk' = OnDisk
  BY <1>9 DEF OnDisk, disk
<1> QED
  BY <1>9, <1>10 DEF CollectExclusionSet, LiveMembers, Members

\* A create, discard, delete or forward that runs to its end leaves the exclusion
\* set equal to the projection of what is stored (rewrite_exclusion_set).
THEOREM CommandsRepairProjection ==
  ASSUME OneProcess, IdsAreOwn
  PROVE  Spec => ProjectionRepaired
<1>1. StoreInv /\ [Next]_vars =>
        [\A q \in Process :
           Running(q, "project") /\ job'[q] = Idle /\ faults' = faults
             => exclusion' = CollectExclusionSet(OnDisk)']_vars
  BY ProjectStep
<1> QED
  BY <1>1, StoreInvariant, PTL DEF Spec, ProjectionRepaired

\* Only a refusal ends a rollback that does not fail.
LEMMA RefusalStep ==
  ASSUME OneProcess, StoreInv, [Next]_vars, NEW q \in Process,
         Running(q, "rollback"), job'[q] = Idle, faults' = faults, job[q].slips = 0
  PROVE  \A w \in LiveMembers(job[q].mem, job[q].of) :
           worktree'[w].at = Checkpoint(job[q].mem.worker[w], w)
<1>1. /\ JobInv(job[q]) /\ FilesTyped /\ job \in [Process -> JobRecord]
      /\ job[q] \in JobRecord
      /\ job[q].pc = "rollback" /\ job[q] # Idle
  BY IdlePc DEF StoreInv, FilesInv, FilesTyped, Running
<1>2. faults # faults + 1
  BY <1>1 DEF FilesTyped
<1>3. ~(AdvanceHead \/ UNCHANGED vars)
  BY <1>1 DEF AdvanceHead, vars
<1>4. PICK r \in Process :
        Start(r) \/ Continue(r) \/ FailForward(r) \/ Fault(r)
          \/ TearRecord(r) \/ TearExclusionSet(r)
  BY <1>3 DEF Next
<1>5. r = q
  BY DEF OneProcess
<1>6. ~Start(q)
  BY <1>1 DEF Start, StartCreate, StartDiscard, StartDelete, StartForward, StartReport,
              StartCommit, StartAck, PublishWorkerInbox, Running
<1>7. ~(FailForward(q) \/ Fault(q) \/ TearRecord(q) \/ TearExclusionSet(q))
  BY <1>1, <1>2 DEF FailForward, Fault, TearRecord, TearExclusionSet, Running
<1>8. ~RollbackForwardWorktree(q)
  <2> SUFFICES ASSUME RollbackForwardWorktree(q)
               PROVE  FALSE
    OBVIOUS
  <2> DEFINE k == job[q]
             moved == k.moved \ {NextOf(k.moved)}
  <2>1. Begin(q, Undone(k, moved))
    BY <1>2 DEF RollbackForwardWorktree, Undone
  <2>2. moved \in SUBSET Worker
    BY <1>1 DEF JobRecord
  <2> HIDE DEF moved, k
  <2>3. k \in JobRecord /\ k.pc = "rollback"
    BY <1>1 DEF k
  <2>4. Undone(k, moved) \in JobRecord /\ Undone(k, moved).pc = k.pc
    BY <2>2, <2>3, UndoFields
  <2>5. job'[q].pc = "rollback"
    BY <1>1, <2>1, <2>3, <2>4, BeginJob
  <2> QED
    BY <2>5, IdlePc
<1>9. RefuseForward(q)
  BY <1>1, <1>4, <1>5, <1>6, <1>7, <1>8
     DEF Continue, Store, CleanupWorkspaceBeforeCreate, ClearDirectory, AddWorktree,
         PrepareWorkerRuntime, PublishTask, DropWorktree, UpdateSubmissionState,
         UpdateStateAfterAck, ForwardWorktree, RefreshWorker,
         RemoveStaleGroupFiles, RemoveStaleWorkerFiles, WriteRecord,
         Stored, RewriteExclusionSet, Running
<1>10. job[q].moved = {} /\ worktree' = worktree
  BY <1>9 DEF RefuseForward
<1>11. \A w \in Movers(job[q]) : worktree[w].at = CheckpointOf(job[q], w)
  BY <1>1, <1>10 DEF JobInv, ForwardInv
<1> QED
  BY <1>10, <1>11 DEF Movers, CheckpointOf

\* A forward that is refused has put every worktree it moved back
\* (rollback_forward_worktrees), unless a checkout failed.
THEOREM RefusalsMoveNothing ==
  ASSUME OneProcess, IdsAreOwn
  PROVE  Spec => RefusedForwardMovesNothing
<1>1. StoreInv /\ [Next]_vars =>
        [\A q \in Process :
           Running(q, "rollback") /\ job'[q] = Idle /\ faults' = faults /\ job[q].slips = 0
             => \A w \in LiveMembers(job[q].mem, job[q].of) :
                  worktree'[w].at = Checkpoint(job[q].mem.worker[w], w)]_vars
  BY RefusalStep
<1> QED
  BY <1>1, StoreInvariant, PTL DEF Spec, RefusedForwardMovesNothing

-----------------------------------------------------------------------------
(* While nothing has failed: the snapshots. *)

\* Who is a member of what depends on the perspectives of the workers only.
LEMMA MembersSame ==
  ASSUME NEW s, Sound(s), NEW r, Sound(r),
         \A w \in Worker :
           /\ r.worker[w] = Absent <=> s.worker[w] = Absent
           /\ s.worker[w] # Absent => r.worker[w].of = s.worker[w].of
  PROVE  \A p \in Perspective : Members(r, p) = Members(s, p)
<1>1. \A w \in Worker : /\ Readable(s.worker[w]) <=> s.worker[w] # Absent
                        /\ Readable(r.worker[w]) <=> r.worker[w] # Absent
  BY SoundRecords
<1> QED
  BY <1>1 DEF Members

\* So a snapshot with the same groups and members has a worker in every group.
LEMMA PopulatedSame ==
  ASSUME NEW s, Sound(s), NEW r, Sound(r), Populated(s),
         \A w \in Worker :
           /\ r.worker[w] = Absent <=> s.worker[w] = Absent
           /\ s.worker[w] # Absent => r.worker[w].of = s.worker[w].of,
         \A p \in Perspective : r.group[p] = Absent <=> s.group[p] = Absent
  PROVE  Populated(r)
<1>1. \A p \in Perspective : Members(r, p) = Members(s, p)
  BY MembersSame
<1> QED
  BY <1>1 DEF Populated

\* And one with the same live workers in the same groups claims the same.
LEMMA CollectSame ==
  ASSUME NEW s, NEW r, r.group = s.group,
         \A w \in Worker : IsLive(r, w) <=> IsLive(s, w),
         \A w \in Worker : IsLive(s, w) => r.worker[w].of = s.worker[w].of
  PROVE  CollectExclusionSet(r) = CollectExclusionSet(s)
<1>1. \A p \in Perspective : LiveMembers(r, p) = LiveMembers(s, p)
  BY DEF LiveMembers, Members, IsLive
<1> QED
  BY <1>1 DEF CollectExclusionSet

\* A group goes with its last worker.
LEMMA RemovePopulated ==
  ASSUME NEW s \in [group : Groups, worker : Workers], Sound(s), Populated(s),
         NEW w \in Worker
  PROVE  Populated(RemoveWorker(s, w))
<1> DEFINE t == [s EXCEPT !.worker[w] = Absent]
           r == RemoveWorker(s, w)
<1>1. /\ t.group = s.group
      /\ t.worker = [s.worker EXCEPT ![w] = Absent]
  BY DEF Groups, Workers
<1> HIDE DEF t
<1>2. /\ r.group = [p \in Perspective |->
                      IF Members(t, p) = {} THEN Absent ELSE s.group[p]]
      /\ r.worker = t.worker
  BY <1>1 DEF RemoveWorker, GcEmptyGroups, t
<1> HIDE DEF r
<1>3. \A p \in Perspective : Members(r, p) = Members(t, p)
  BY <1>2 DEF Members
<1>4. \A p \in Perspective : Members(t, p) \subseteq Members(s, p)
  <2>1. \A v \in Worker : Readable(t.worker[v]) => t.worker[v] = s.worker[v]
    BY <1>1 DEF Workers, Readable
  <2> QED
    BY <2>1 DEF Members
<1>5. \A p \in Perspective : r.group[p] # Absent <=> Members(r, p) # {}
  BY <1>2, <1>3, <1>4 DEF Populated
<1> QED
  BY <1>5 DEF Populated, r

\* A new worker populates its group.
LEMMA WithWorkerPopulated ==
  ASSUME NEW s \in [group : Groups, worker : Workers], Sound(s), Populated(s),
         head \in 1..MaxHead, NEW p \in Perspective, NEW c, NEW w \in Worker,
         c.id = w, c.replaces = IsFinal(s, w), ~IsLive(s, w), IdOf(p, w)
  PROVE  Populated(WithWorker(s, p, c))
<1> DEFINE r == WithWorker(s, p, c)
           kept == IF IsFinal(s, w) THEN RemoveWorker(s, w) ELSE s
           g == IF LiveMembers(s, p) # {} THEN s.group[p]
                ELSE [base |-> head, open |-> TRUE]
<1>1. /\ kept \in [group : Groups, worker : Workers]
      /\ kept.worker = [s.worker EXCEPT ![w] = Absent]
      /\ Populated(kept)
  <2>1. CASE IsFinal(s, w)
    BY <2>1, RemoveSound, RemovePopulated
  <2>2. CASE ~IsFinal(s, w)
    <3>1. s.worker[w] = Absent
      BY <2>2, SoundRecords DEF IsLive, IsFinal, WorkerRecord
    <3>2. s.worker = [s.worker EXCEPT ![w] = Absent]
      BY <3>1 DEF Workers
    <3> QED
      BY <2>2, <3>2
  <2> QED
    BY <2>1, <2>2
<1>2. /\ r.group = [kept.group EXCEPT ![p] = g]
      /\ r.worker = [kept.worker EXCEPT ![w] = NewWorker(p)]
  BY DEF WithWorker
<1>3. r.group[p] \in GroupRecord
  BY WithWorkerSound
<1> HIDE DEF kept, g, r
<1>4. NewWorker(p) \in WorkerRecord /\ NewWorker(p).of = p
  BY StoreBoundsAssumption DEF NewWorker, WorkerRecord
<1>5. /\ r.worker[w] = NewWorker(p) /\ kept.worker[w] = Absent
      /\ \A v \in Worker : v # w => r.worker[v] = kept.worker[v]
      /\ \A x \in Perspective : x # p => r.group[x] = kept.group[x]
  BY <1>1, <1>2 DEF Groups, Workers
<1>6. \A x \in Perspective : x # p => Members(r, x) = Members(kept, x)
  BY <1>4, <1>5 DEF Members, Readable
<1>7. w \in Members(r, p)
  BY <1>4, <1>5, RecordReadable DEF Members
<1>8. r.group[p] # Absent
  BY <1>3, FileAssumption
<1>9. \A x \in Perspective : (r.group[x] # Absent) = (Members(r, x) # {})
  BY <1>1, <1>5, <1>6, <1>7, <1>8 DEF Populated
<1> QED
  BY <1>9 DEF Populated, r

\* A record that is kept, in a group that keeps its base, still matches.
LEMMA MatchesKept ==
  ASSUME NEW s, NEW r, NEW w \in Worker, NEW t, Matches(s, w, t),
         IsLive(r, w) =>
           /\ r.worker[w] = s.worker[w]
           /\ r.group[s.worker[w].of].base = s.group[s.worker[w].of].base
  PROVE  Matches(r, w, t)
BY DEF Matches, ContractMatches, SubmissionMatches, IsLive

\* A worktree that stays matches as before.
LEMMA MatchesStay ==
  ASSUME NEW s, NEW w \in Worker, NEW t, NEW u, Matches(s, w, t),
         IsLive(s, w) => u.at = t.at /\ u.contract = t.contract
  PROVE  Matches(s, w, u)
BY DEF Matches, ContractMatches, SubmissionMatches

\* The worktrees of live workers exist.
LEMMA LiveStays ==
  ASSUME FilesInv, NEW w \in Worker, IsLive(OnDisk, w), Stays(w)
  PROVE  worktree'[w].at = worktree[w].at /\ worktree'[w].contract = worktree[w].contract
BY DEF FilesInv, LiveWorkerHasWorktree, Stays

-----------------------------------------------------------------------------
(* While nothing has failed: commands that begin. *)

\* worker create.
LEMMA StartCreateCalm ==
  ASSUME IdsAreOwn, StoreInv, NEW q \in Process, StartCreate(q),
         Calm(job[q], OnDisk, worktree, exclusion)
  PROVE  Calm(job'[q], OnDisk', worktree', exclusion')
<1>1a. PICK p \in Perspective :
         \E c \in ResolveCreateWorkerId(OnDisk, p) :
           \E pc \in {"cleanup", "clear"} :
             Begin(q, Job(pc, "create", p, c.id, WithWorker(OnDisk, p, c)))
  BY DEF StartCreate
<1>1. PICK c \in ResolveCreateWorkerId(OnDisk, p), pc \in {"cleanup", "clear"} :
        Begin(q, Job(pc, "create", p, c.id, WithWorker(OnDisk, p, c)))
  BY <1>1a
<1> DEFINE w == c.id
           r == WithWorker(OnDisk, p, c)
           j == Job(pc, "create", p, w, r)
<1>2. /\ FilesInv /\ Sound(OnDisk) /\ OnDisk \in [group : Groups, worker : Workers]
      /\ head \in 1..MaxHead /\ job \in [Process -> JobRecord]
  BY LoadableSound, DiskTyped DEF StoreInv, StartCreate, FilesInv, FilesTyped
<1>3. /\ FilesCalm(OnDisk, exclusion)
      /\ \A v \in Worker : Matches(OnDisk, v, worktree[v])
  BY DEF Calm, StartCreate, Running
<1>4. /\ w \in Worker /\ ~IsLive(OnDisk, w) /\ IdOf(p, w)
      /\ c.replaces = IsFinal(OnDisk, w)
  BY <1>2, ResolvedId
<1>5. /\ r \in [group : Groups, worker : Workers]
      /\ \A v \in Worker \ {w} : r.worker[v] = OnDisk.worker[v]
  BY <1>2, <1>4, WithWorkerSound
<1>6. Populated(r)
  BY <1>2, <1>3, <1>4, WithWorkerPopulated DEF FilesCalm
<1>7. \A v \in Worker : v # w => Matches(r, v, worktree[v])
  <2> SUFFICES ASSUME NEW v \in Worker, v # w
               PROVE  Matches(r, v, worktree[v])
    OBVIOUS
  <2>1. IsLive(r, v) => IsLive(OnDisk, v)
    BY <1>5 DEF IsLive
  <2>2. IsLive(OnDisk, v) =>
          /\ r.worker[v] = OnDisk.worker[v]
          /\ r.group[OnDisk.worker[v].of] = OnDisk.group[OnDisk.worker[v].of]
    BY <1>2, <1>4, WithWorkerKeeps
  <2>3. IsLive(r, v) =>
          /\ r.worker[v] = OnDisk.worker[v]
          /\ r.group[OnDisk.worker[v].of].base = OnDisk.group[OnDisk.worker[v].of].base
    BY <2>1, <2>2
  <2>4. Matches(OnDisk, v, worktree[v])
    BY <1>3
  <2> HIDE DEF r
  <2> QED
    BY <2>3, <2>4, MatchesKept
<1> HIDE DEF r
<1>8. /\ j \in JobRecord /\ j.pc = pc /\ j.cmd = "create" /\ j.subject = w /\ j.mem = r
  <2>1. pc \in Pc /\ "create" \in Cmd
    BY DEF Pc, Cmd
  <2> QED
    BY <1>4, <1>5, <2>1, JobFields
<1>9. job'[q] = j
  <2>1. Begin(q, j)
    BY <1>1 DEF r
  <2> HIDE DEF j
  <2> QED
    BY <1>2, <1>8, <2>1, BeginJob
<1> HIDE DEF j
<1>10. OnDisk' = OnDisk /\ worktree' = worktree /\ exclusion' = exclusion
  BY DEF StartCreate, disk, OnDisk
<1> QED
  BY <1>3, <1>6, <1>7, <1>8, <1>9, <1>10 DEF Calm

\* worker discard.
LEMMA StartDiscardCalm ==
  ASSUME StoreInv, NEW q \in Process, StartDiscard(q),
         Calm(job[q], OnDisk, worktree, exclusion)
  PROVE  Calm(job'[q], OnDisk', worktree', exclusion')
<1>1. PICK w \in Worker :
        /\ IsLive(OnDisk, w)
        /\ Begin(q, Job("groups", "discard", workerFile[w].of, w, Finalized(OnDisk, w)))
  BY DEF StartDiscard
<1> DEFINE r == Finalized(OnDisk, w)
           p == workerFile[w].of
           j == Job("groups", "discard", p, w, r)
<1>2. /\ FilesInv /\ Sound(OnDisk) /\ OnDisk \in [group : Groups, worker : Workers]
      /\ job \in [Process -> JobRecord]
  BY LoadableSound, DiskTyped DEF StoreInv, StartDiscard, FilesInv, FilesTyped
<1>3. Populated(OnDisk) /\ \A v \in Worker : Matches(OnDisk, v, worktree[v])
  BY DEF Calm, FilesCalm, StartDiscard, Running
<1>4. OnDisk.worker[w] # Absent /\ p \in Perspective
  BY <1>1, <1>2, SoundRecords DEF IsLive, Readable, OnDisk
<1>5. /\ r \in [group : Groups, worker : Workers] /\ Sound(r)
      /\ \A v \in Worker :
           /\ v # w => r.worker[v] = OnDisk.worker[v]
           /\ OnDisk.worker[v] # Absent => r.worker[v].of = OnDisk.worker[v].of
           /\ r.worker[v] = Absent <=> OnDisk.worker[v] = Absent
      /\ r.worker[w].state = "DISCARDED"
      /\ \A x \in Perspective :
           /\ r.group[x] = Absent <=> OnDisk.group[x] = Absent
           /\ OnDisk.group[x] # Absent => r.group[x].base = OnDisk.group[x].base
  BY <1>2, <1>4, FinalizedSound
<1> HIDE DEF r, p
<1>6. Populated(r)
  BY <1>2, <1>3, <1>5, PopulatedSame
<1>7. \A v \in Worker : Matches(r, v, worktree[v])
  <2> SUFFICES ASSUME NEW v \in Worker
               PROVE  Matches(r, v, worktree[v])
    OBVIOUS
  <2>1. IsLive(r, v) =>
          /\ r.worker[v] = OnDisk.worker[v]
          /\ r.group[OnDisk.worker[v].of].base = OnDisk.group[OnDisk.worker[v].of].base
    <3> SUFFICES ASSUME IsLive(r, v)
                 PROVE  /\ r.worker[v] = OnDisk.worker[v]
                        /\ r.group[OnDisk.worker[v].of].base
                             = OnDisk.group[OnDisk.worker[v].of].base
      OBVIOUS
    <3>1. v # w /\ r.worker[v] = OnDisk.worker[v] /\ OnDisk.worker[v] # Absent
      BY <1>5 DEF IsLive, Readable
    <3>2. /\ OnDisk.worker[v].of \in Perspective
          /\ OnDisk.group[OnDisk.worker[v].of] # Absent
      BY <1>2, <3>1, SoundRecords DEF Sound, Joined
    <3> QED
      BY <1>5, <3>1, <3>2
  <2>2. Matches(OnDisk, v, worktree[v])
    BY <1>3
  <2> QED
    BY <2>1, <2>2, MatchesKept
<1>8. j \in JobRecord /\ j.pc = "groups" /\ j.cmd = "discard" /\ j.mem = r
  <2>1. "groups" \in Pc /\ "discard" \in Cmd
    BY DEF Pc, Cmd
  <2> QED
    BY <1>4, <1>5, <2>1, JobFields
<1>9. job'[q] = j
  <2>1. Begin(q, j)
    BY <1>1 DEF r, p
  <2> HIDE DEF j
  <2> QED
    BY <1>2, <1>8, <2>1, BeginJob
<1> HIDE DEF j
<1>10. OnDisk' = OnDisk /\ worktree' = worktree /\ exclusion' = exclusion
  BY DEF StartDiscard, disk, OnDisk
<1> QED
  BY <1>6, <1>7, <1>8, <1>9, <1>10 DEF Calm

\* worker delete.
LEMMA StartDeleteCalm ==
  ASSUME StoreInv, NEW q \in Process, StartDelete(q),
         Calm(job[q], OnDisk, worktree, exclusion)
  PROVE  Calm(job'[q], OnDisk', worktree', exclusion')
<1>1. PICK w \in Worker :
        /\ IsFinal(OnDisk, w)
        /\ Begin(q, Job("drop", "delete", workerFile[w].of, w, RemoveWorker(OnDisk, w)))
  BY DEF StartDelete
<1> DEFINE r == RemoveWorker(OnDisk, w)
           p == workerFile[w].of
           j == Job("drop", "delete", p, w, r)
<1>2. /\ FilesInv /\ Sound(OnDisk) /\ OnDisk \in [group : Groups, worker : Workers]
      /\ job \in [Process -> JobRecord]
  BY LoadableSound, DiskTyped DEF StoreInv, StartDelete, FilesInv, FilesTyped
<1>3. /\ FilesCalm(OnDisk, exclusion)
      /\ \A v \in Worker : Matches(OnDisk, v, worktree[v])
  BY DEF Calm, StartDelete, Running
<1>4. p \in Perspective
  BY <1>1, <1>2, SoundRecords DEF IsFinal, Readable, OnDisk
<1>5. /\ r \in [group : Groups, worker : Workers] /\ Sound(r)
      /\ r.worker = [OnDisk.worker EXCEPT ![w] = Absent]
      /\ \A x \in Perspective : r.group[x] \in {Absent, OnDisk.group[x]}
  BY <1>2, RemoveSound
<1>6. Populated(r)
  BY <1>2, <1>3, RemovePopulated DEF FilesCalm
<1> HIDE DEF r, p
<1>7. \A v \in Worker : Matches(r, v, worktree[v])
  <2> SUFFICES ASSUME NEW v \in Worker
               PROVE  Matches(r, v, worktree[v])
    OBVIOUS
  <2>1. IsLive(r, v) =>
          /\ r.worker[v] = OnDisk.worker[v]
          /\ r.group[OnDisk.worker[v].of].base = OnDisk.group[OnDisk.worker[v].of].base
    <3> SUFFICES ASSUME IsLive(r, v)
                 PROVE  /\ r.worker[v] = OnDisk.worker[v]
                        /\ r.group[OnDisk.worker[v].of].base
                             = OnDisk.group[OnDisk.worker[v].of].base
      OBVIOUS
    <3>1. r.worker[v] # Absent
      BY DEF IsLive, Readable
    <3>2. r.worker[v] = OnDisk.worker[v]
      BY <1>2, <1>5, <3>1 DEF Workers
    <3>3. /\ r.worker[v].of \in Perspective
          /\ r.group[r.worker[v].of] # Absent
      BY <1>5, <3>1, SoundRecords DEF Sound, Joined
    <3> QED
      BY <1>5, <3>2, <3>3
  <2>2. Matches(OnDisk, v, worktree[v])
    BY <1>3
  <2> QED
    BY <2>1, <2>2, MatchesKept
<1>8. j \in JobRecord /\ j.pc = "drop" /\ j.mem = r
  <2>1. "drop" \in Pc /\ "delete" \in Cmd
    BY DEF Pc, Cmd
  <2> QED
    BY <1>4, <1>5, <2>1, JobFields
<1>9. job'[q] = j
  <2>1. Begin(q, j)
    BY <1>1 DEF r, p
  <2> HIDE DEF j
  <2> QED
    BY <1>2, <1>8, <2>1, BeginJob
<1> HIDE DEF j
<1>10. OnDisk' = OnDisk /\ worktree' = worktree /\ exclusion' = exclusion
  BY DEF StartDelete, disk, OnDisk
<1> QED
  BY <1>3, <1>6, <1>7, <1>8, <1>9, <1>10 DEF Calm

\* perspective forward.
LEMMA StartForwardCalm ==
  ASSUME StoreInv, NEW q \in Process, StartForward(q),
         Calm(job[q], OnDisk, worktree, exclusion)
  PROVE  Calm(job'[q], OnDisk', worktree', exclusion')
<1>1. PICK p \in Perspective :
        Begin(q, [Job("move", "forward", p, Absent, OnDisk) EXCEPT
                    !.left = LiveMembers(OnDisk, p), !.to = head])
  BY DEF StartForward
<1> DEFINE live == LiveMembers(OnDisk, p)
           k == Job("move", "forward", p, Absent, OnDisk)
           j == Aimed(k, live, head)
<1>2. /\ FilesInv /\ Sound(OnDisk) /\ OnDisk \in [group : Groups, worker : Workers]
      /\ head \in 0..MaxHead /\ job \in [Process -> JobRecord]
  BY LoadableSound, DiskTyped DEF StoreInv, StartForward, FilesInv, FilesTyped
<1>3. /\ FilesCalm(OnDisk, exclusion)
      /\ \A v \in Worker : Matches(OnDisk, v, worktree[v])
  BY DEF Calm, StartForward, Running
<1>4. /\ k \in JobRecord /\ k.pc = "move" /\ k.of = p /\ k.mem = OnDisk /\ k.slips = 0
  <2>1. "move" \in Pc /\ "forward" \in Cmd
    BY DEF Pc, Cmd
  <2> QED
    BY <1>2, <2>1, JobFields
<1>5. live \in SUBSET (Perspective \cup Worker)
  BY DEF LiveMembers, Members
<1>6. Begin(q, j)
  BY <1>1 DEF Aimed
<1> HIDE DEF k, live
<1>7. /\ j \in JobRecord /\ j.pc = k.pc /\ j.of = k.of /\ j.mem = k.mem
      /\ j.slips = k.slips
  BY <1>2, <1>4, <1>5, AimFields
<1> HIDE DEF j
<1>8. job'[q] = j
  BY <1>2, <1>6, <1>7, BeginJob
<1>9. Movers(j) = LiveMembers(OnDisk, p)
  BY <1>4, <1>7 DEF Movers
<1>10. \A w \in Movers(j) : ContractMatches(OnDisk, w, worktree[w])
  BY <1>2, <1>3, <1>9, LiveMemberFacts DEF Matches
<1>11. OnDisk' = OnDisk /\ worktree' = worktree /\ exclusion' = exclusion
  BY DEF StartForward, disk, OnDisk
<1> QED
  BY <1>3, <1>4, <1>7, <1>8, <1>10, <1>11 DEF Calm

\* A step that leaves the files and the live worktrees alone, of a command that
\* has made no snapshot yet, or that is over.
LEMMA QuietCalm ==
  ASSUME FilesInv, NEW q \in Process, Calm(job[q], OnDisk, worktree, exclusion),
         job[q].pc \notin Storing \cup Persisted \cup Forwarding,
         job'[q].pc \in {"idle", "submit", "activate"},
         UNCHANGED <<disk, exclusion>>,
         \A w \in Worker : IsLive(OnDisk, w) => Stays(w)
  PROVE  Calm(job'[q], OnDisk', worktree', exclusion')
<1>1. OnDisk' = OnDisk /\ exclusion' = exclusion
  BY DEF disk, OnDisk
<1>2. /\ FilesCalm(OnDisk, exclusion)
      /\ \A w \in Worker : Matches(OnDisk, w, worktree[w])
  BY DEF Calm
<1>3. ASSUME NEW w \in Worker
      PROVE  Matches(OnDisk, w, worktree'[w])
  <2>1. IsLive(OnDisk, w) =>
          worktree'[w].at = worktree[w].at /\ worktree'[w].contract = worktree[w].contract
    BY LiveStays
  <2>2. Matches(OnDisk, w, worktree[w])
    BY <1>2
  <2> QED
    BY <2>1, <2>2, MatchesStay
<1> QED
  BY <1>1, <1>2, <1>3 DEF Calm

\* The commands of a worker begin, or a bundle is published.
LEMMA StartAgentCalm ==
  ASSUME StoreInv, NEW q \in Process,
         StartReport(q) \/ StartCommit(q) \/ StartAck(q) \/ PublishWorkerInbox(q),
         Calm(job[q], OnDisk, worktree, exclusion)
  PROVE  Calm(job'[q], OnDisk', worktree', exclusion')
<1>1. FilesInv /\ FilesTyped /\ job \in [Process -> JobRecord] /\ job[q].pc = "idle"
  BY DEF StoreInv, FilesInv, FilesTyped, StartReport, StartCommit, StartAck,
         PublishWorkerInbox, Running
<1>2. UNCHANGED <<disk, exclusion, registered>>
  BY DEF StartReport, StartCommit, StartAck, PublishWorkerInbox
<1>3. PICK w \in Worker :
        /\ worktree[w] # Absent
        /\ \/ worktree' = worktree
           \/ worktree' = [worktree EXCEPT ![w].reported = worktree[w].at]
           \/ worktree' = [worktree EXCEPT ![w].unacked = FALSE]
           \/ worktree' = [worktree EXCEPT ![w].unacked = TRUE]
        /\ \/ job' = job
           \/ \E pc \in {"submit", "activate"}, cmd \in WorkerCmd :
                Begin(q, Job(pc, cmd, Absent, w, NoState))
  BY DEF StartReport, StartCommit, StartAck, PublishWorkerInbox, HasAgent
<1>4. job'[q].pc \in {"idle", "submit", "activate"}
  <2>1. CASE job' = job
    BY <1>1, <2>1
  <2>2. CASE job' # job
    <3>1. PICK pc \in {"submit", "activate"}, cmd \in WorkerCmd :
            Begin(q, Job(pc, cmd, Absent, w, NoState))
      BY <1>3, <2>2
    <3> DEFINE j == Job(pc, cmd, Absent, w, NoState)
    <3>2. pc \in Pc /\ cmd \in Cmd
      BY DEF Pc, Cmd
    <3>3. NoState \in [group : Groups, worker : Workers]
      BY DEF NoState, Groups, Workers
    <3>4. j \in JobRecord /\ j.pc = pc
      BY <3>2, <3>3, JobFields
    <3>5. Begin(q, j)
      BY <3>1
    <3> HIDE DEF j
    <3> QED
      BY <1>1, <3>4, <3>5, BeginJob
  <2> QED
    BY <2>1, <2>2
<1>5. \A v \in Worker : Stays(v)
  <2>1. worktree[w] \in Worktree
    BY <1>1, <1>3 DEF FilesTyped
  <2>2. CASE worktree' = worktree
    BY <1>2, <2>2 DEF Stays
  <2>3. CASE worktree' # worktree
    <3>1. PICK t \in Worktree :
            /\ t.at = worktree[w].at /\ t.contract = worktree[w].contract
            /\ worktree' = [worktree EXCEPT ![w] = t]
      <4>1. worktree[w].at \in 0..MaxHead
        BY <2>1, SurfaceTyped, StoreBoundsAssumption
      <4> DEFINE rep == [worktree[w] EXCEPT !.reported = worktree[w].at]
                 off == [worktree[w] EXCEPT !.unacked = FALSE]
                 on == [worktree[w] EXCEPT !.unacked = TRUE]
      <4>2a. /\ rep \in Worktree /\ rep.at = worktree[w].at
             /\ rep.contract = worktree[w].contract
        BY <2>1, <4>1, SurfaceTyped
      <4>2b. /\ off \in Worktree /\ off.at = worktree[w].at
             /\ off.contract = worktree[w].contract
        BY <2>1, <4>1, SurfaceTyped
      <4>2c. /\ on \in Worktree /\ on.at = worktree[w].at
             /\ on.contract = worktree[w].contract
        BY <2>1, <4>1, SurfaceTyped
      <4>3. \/ worktree' = [worktree EXCEPT ![w] = rep]
            \/ worktree' = [worktree EXCEPT ![w] = off]
            \/ worktree' = [worktree EXCEPT ![w] = on]
        BY <1>1, <1>3, <2>3 DEF FilesTyped
      <4> HIDE DEF rep, off, on
      <4> QED
        BY <4>2a, <4>2b, <4>2c, <4>3
    <3> QED
      BY <1>1, <1>2, <1>3, <3>1, SurfaceStays
  <2> QED
    BY <2>2, <2>3
<1> QED
  BY <1>1, <1>2, <1>4, <1>5, QuietCalm

-----------------------------------------------------------------------------
(* While nothing has failed: worktrees. *)

\* While the new worker's worktree is prepared.
LEMMA PreparingCalm ==
  ASSUME FilesInv, NEW q \in Process, JobInv(job[q]),
         Calm(job[q], OnDisk, worktree, exclusion),
         job[q].pc \in Preparing, job'[q].pc \in Preparing,
         job'[q].mem = job[q].mem, job'[q].subject = job[q].subject,
         UNCHANGED <<disk, exclusion>>,
         \A w \in Worker : w # job[q].subject => Stays(w)
  PROVE  Calm(job'[q], OnDisk', worktree', exclusion')
<1> DEFINE k == job[q]
<1>1. OnDisk' = OnDisk /\ exclusion' = exclusion
  BY DEF disk, OnDisk
<1>2. /\ FilesCalm(OnDisk, exclusion) /\ Populated(k.mem)
      /\ \A w \in Worker : Matches(OnDisk, w, worktree[w])
      /\ \A w \in Worker : w # k.subject => Matches(k.mem, w, worktree[w])
  BY DEF Calm
<1>3. ~IsLive(OnDisk, k.subject) /\ Replaces(k)
  BY DEF JobInv, CreateInv, ReplacingInv
<1>4. ASSUME NEW w \in Worker
      PROVE  Matches(OnDisk, w, worktree'[w])
  <2>1. IsLive(OnDisk, w) =>
          worktree'[w].at = worktree[w].at /\ worktree'[w].contract = worktree[w].contract
    BY <1>3, LiveStays
  <2>2. Matches(OnDisk, w, worktree[w])
    BY <1>2
  <2> QED
    BY <2>1, <2>2, MatchesStay
<1>5. ASSUME NEW w \in Worker, w # k.subject
      PROVE  Matches(k.mem, w, worktree'[w])
  <2>1. IsLive(k.mem, w) =>
          worktree'[w].at = worktree[w].at /\ worktree'[w].contract = worktree[w].contract
    BY <1>3, <1>5 DEF Replaces, ProvisionedIn, Provisioned, Stays
  <2>2. Matches(k.mem, w, worktree[w])
    BY <1>2, <1>5
  <2> QED
    BY <2>1, <2>2, MatchesStay
<1> QED
  BY <1>1, <1>2, <1>4, <1>5 DEF Calm

\* Taking a worktree away, clearing its path, and adding it.
LEMMA PrepareCalm ==
  ASSUME StoreInv, NEW q \in Process,
         CleanupWorkspaceBeforeCreate(q) \/ ClearDirectory(q) \/ AddWorktree(q),
         Calm(job[q], OnDisk, worktree, exclusion)
  PROVE  Calm(job'[q], OnDisk', worktree', exclusion')
<1>1. /\ FilesInv /\ FilesTyped /\ JobInv(job[q]) /\ job \in [Process -> JobRecord]
      /\ job[q].pc \in Preparing
  BY DEF StoreInv, FilesInv, FilesTyped, CleanupWorkspaceBeforeCreate, ClearDirectory,
         AddWorktree, Running
<1>2. UNCHANGED <<disk, exclusion>>
  BY DEF CleanupWorkspaceBeforeCreate, ClearDirectory, AddWorktree
<1>3. \A v \in Worker : v # job[q].subject => Stays(v)
  BY <1>1 DEF CleanupWorkspaceBeforeCreate, ClearDirectory, AddWorktree, RemoveWorktree,
              FilesTyped, Stays
<1>4. ~IsLive(OnDisk, job[q].subject)
  BY <1>1 DEF JobInv, CreateInv
<1>5. CASE End(q)
  <2>1. job'[q].pc = "idle"
    BY <1>1, <1>5 DEF End, Idle
  <2> QED
    BY <1>1, <1>2, <1>3, <1>4, <2>1, QuietCalm
<1>6. CASE ~End(q)
  <2>1. PICK pc \in Preparing : Goto(q, pc)
    BY <1>6 DEF CleanupWorkspaceBeforeCreate, ClearDirectory, AddWorktree
  <2>2. pc \in Pc
    BY DEF Pc
  <2>3. job'[q].pc = pc /\ job'[q].mem = job[q].mem /\ job'[q].subject = job[q].subject
    BY <1>1, <2>1, <2>2, GotoJob
  <2> QED
    BY <1>1, <1>2, <1>3, <2>3, PreparingCalm
<1> QED
  BY <1>5, <1>6

\* The contract names the base the worktree was added at.
LEMMA RuntimeCalm ==
  ASSUME StoreInv, NEW q \in Process, PrepareWorkerRuntime(q),
         Calm(job[q], OnDisk, worktree, exclusion)
  PROVE  Calm(job'[q], OnDisk', worktree', exclusion')
<1> DEFINE k == job[q]
           w == k.subject
           p == k.of
           t == [worktree[w] EXCEPT !.contract = <<p, worktree[w].at>>]
<1>1. /\ FilesInv /\ FilesTyped /\ JobInv(k) /\ job \in [Process -> JobRecord]
      /\ k.pc = "runtime" /\ "groups" \in Pc
  BY DEF StoreInv, FilesInv, FilesTyped, PrepareWorkerRuntime, Running, Pc
<1>2. /\ job'[q].pc = "groups" /\ job'[q].cmd = k.cmd /\ job'[q].mem = k.mem
  BY <1>1, GotoJob DEF PrepareWorkerRuntime
<1>3. /\ w \in Worker /\ p \in Perspective /\ k.cmd = "create"
      /\ k.mem.worker[w] = NewWorker(p)
      /\ worktree[w] # Absent /\ worktree[w].at = k.mem.group[p].base
      /\ Replaces(k)
  BY <1>1 DEF JobInv, CreateInv, ReplacingInv
<1>4. Populated(k.mem) /\ \A v \in Worker : v # w => Matches(k.mem, v, worktree[v])
  BY <1>1 DEF Calm
<1>5. worktree[w] \in Worktree /\ worktree[w].at \in 1..MaxHead
  BY <1>1, <1>3 DEF FilesTyped, Worktree
<1>6. /\ worktree'[w] = t
      /\ \A v \in Worker : v # w => worktree'[v] = worktree[v]
  BY <1>1, <1>3 DEF PrepareWorkerRuntime, FilesTyped
<1>7. t.contract[2] = k.mem.group[p].base
  <2>1. t.contract = <<p, worktree[w].at>>
    BY <1>3, <1>5, ContractTyped
  <2> QED
    BY <1>3, <1>5, <2>1, ContractParts
<1> HIDE DEF t
<1>8. Matches(k.mem, w, t)
  <2>1. k.mem.worker[w].of = p /\ k.mem.worker[w].state = "ACTIVE"
    BY <1>3 DEF NewWorker
  <2> QED
    BY <1>7, <2>1 DEF Matches, ContractMatches, SubmissionMatches
<1> HIDE DEF w, p
<1>9. \A v \in Worker : Matches(k.mem, v, worktree'[v])
  BY <1>4, <1>6, <1>8
<1> QED
  BY <1>2, <1>3, <1>4, <1>9 DEF Calm

\* The task of a new worker moves no worktree.
LEMMA PublishTaskCalm ==
  ASSUME StoreInv, NEW q \in Process, PublishTask(q),
         Calm(job[q], OnDisk, worktree, exclusion)
  PROVE  Calm(job'[q], OnDisk', worktree', exclusion')
<1> DEFINE k == job[q]
           w == k.subject
           t == [worktree[w] EXCEPT !.unacked = TRUE]
<1>1. /\ FilesTyped /\ JobInv(k) /\ job \in [Process -> JobRecord]
      /\ k.pc = "task" /\ "project" \in Pc
  BY DEF StoreInv, FilesInv, FilesTyped, PublishTask, Running, Pc
<1>2. job'[q].pc = "project" /\ job'[q].mem = k.mem
  BY <1>1, GotoJob DEF PublishTask
<1>3. w \in Worker /\ worktree[w] \in Worktree
  BY <1>1 DEF JobInv, CreateInv, PublishTask, FilesTyped
<1>4. /\ worktree'[w] = t
      /\ \A v \in Worker : v # w => worktree'[v] = worktree[v]
  BY <1>1, <1>3 DEF PublishTask, FilesTyped
<1>5. t.at = worktree[w].at /\ t.contract = worktree[w].contract
  BY <1>3, SurfaceTyped
<1> HIDE DEF t, w
<1>6. Populated(k.mem) /\ \A v \in Worker : Matches(k.mem, v, worktree[v])
  BY <1>1 DEF Calm
<1>7. ASSUME NEW v \in Worker
      PROVE  Matches(k.mem, v, worktree'[v])
  <2>1. worktree'[v].at = worktree[v].at /\ worktree'[v].contract = worktree[v].contract
    BY <1>4, <1>5
  <2>2. Matches(k.mem, v, worktree[v])
    BY <1>6
  <2> QED
    BY <2>1, <2>2, MatchesStay
<1> QED
  BY <1>2, <1>6, <1>7 DEF Calm

\* The worktree of a worker that is deleted belongs to no live worker.
LEMMA DropCalm ==
  ASSUME StoreInv, NEW q \in Process, DropWorktree(q),
         Calm(job[q], OnDisk, worktree, exclusion)
  PROVE  Calm(job'[q], OnDisk', worktree', exclusion')
<1> DEFINE k == job[q]
           w == k.subject
<1>1. /\ FilesTyped /\ JobInv(k) /\ job \in [Process -> JobRecord]
      /\ k.pc = "drop" /\ "groups" \in Pc
  BY DEF StoreInv, FilesInv, FilesTyped, DropWorktree, Running, Pc
<1>2. job'[q].pc = "groups" /\ job'[q].cmd = k.cmd /\ job'[q].mem = k.mem
  BY <1>1, GotoJob DEF DropWorktree
<1>3. k.cmd = "delete" /\ ~IsLive(k.mem, w)
  BY <1>1 DEF JobInv, DeleteInv
<1>4. \A v \in Worker : v # w => worktree'[v] = worktree[v]
  BY <1>1 DEF DropWorktree, RemoveWorktree, FilesTyped
<1>5. Populated(k.mem) /\ \A v \in Worker : Matches(k.mem, v, worktree[v])
  BY <1>1 DEF Calm
<1>6. \A v \in Worker : Matches(k.mem, v, worktree'[v])
  BY <1>3, <1>4, <1>5 DEF Matches
<1> QED
  BY <1>2, <1>3, <1>5, <1>6 DEF Calm

-----------------------------------------------------------------------------
(* While nothing has failed: the commands of a worker. *)

\* What a submission records, in full.
LEMMA SubmittedFields ==
  ASSUME NEW r \in WorkerRecord, NEW state \in Live, NEW h \in 0..MaxHead
  PROVE  /\ [r EXCEPT !.state = state, !.submitted = h].state = state
         /\ [r EXCEPT !.state = state, !.submitted = h].submitted = h
         /\ [r EXCEPT !.state = state].state = state
BY DEF WorkerRecord

\* A worker changes its own record only, and records where its worktree is.
LEMMA EntryCalm ==
  ASSUME StoreInv, NEW q \in Process, Loadable,
         job[q].pc \in {"submit", "activate"},
         Calm(job[q], OnDisk, worktree, exclusion),
         NEW w \in Worker, ~IsFinal(OnDisk, w), workerFile[w] # Absent,
         NEW e \in WorkerRecord, e.of = workerFile[w].of, e.state \in Live,
         e.state = "COMMITTED" => worktree[w].at = e.submitted,
         Begin(q, Snapshot(job[q], "groups", [OnDisk EXCEPT !.worker[w] = e])),
         UNCHANGED <<exclusion, worktree>>
  PROVE  Calm(job'[q], OnDisk', worktree', exclusion')
<1> DEFINE r == [OnDisk EXCEPT !.worker[w] = e]
           j == Snapshot(job[q], "groups", r)
<1>1. /\ FilesInv /\ Sound(OnDisk) /\ job[q] \in JobRecord
      /\ job \in [Process -> JobRecord]
      /\ OnDisk \in [group : Groups, worker : Workers]
  BY LoadableSound, DiskTyped DEF StoreInv, FilesInv, FilesTyped
<1>2. OnDisk.worker[w] = workerFile[w] /\ OnDisk.group = groupFile
  BY DEF OnDisk
<1>3. /\ r \in [group : Groups, worker : Workers] /\ Sound(r)
      /\ r.group = OnDisk.group
      /\ r.worker = [OnDisk.worker EXCEPT ![w] = e]
  BY <1>1, <1>2, EntrySound
<1> HIDE DEF r
<1>4. j \in JobRecord /\ j.pc = "groups" /\ j.mem = r
  <2>1. "groups" \in Pc
    BY DEF Pc
  <2> QED
    BY <1>1, <1>3, <2>1, SnapshotFields
<1>5. Begin(q, j)
  BY DEF r
<1> HIDE DEF j
<1>6. job'[q] = j
  BY <1>1, <1>4, <1>5, BeginJob
<1>7. OnDisk.worker[w] \in WorkerRecord /\ OnDisk.worker[w] # Absent
  BY <1>1, <1>2, SoundRecords
<1>8. IsLive(OnDisk, w)
  BY <1>1, <1>7, SoundRecords DEF IsLive, IsFinal, WorkerRecord
<1>9. \A v \in Worker : v # w => r.worker[v] = OnDisk.worker[v]
  BY <1>1, <1>3 DEF Workers
<1>10. r.worker[w] = e /\ e # Absent /\ Readable(e)
  BY <1>1, <1>3, FileAssumption, RecordReadable DEF Workers
<1>11. \A v \in Worker :
         /\ r.worker[v] = Absent <=> OnDisk.worker[v] = Absent
         /\ OnDisk.worker[v] # Absent => r.worker[v].of = OnDisk.worker[v].of
         /\ IsLive(r, v) <=> IsLive(OnDisk, v)
         /\ IsLive(OnDisk, v) => r.worker[v].of = OnDisk.worker[v].of
  <2>1. IsLive(r, w)
    BY <1>10 DEF IsLive
  <2>2. \A v \in Worker : v # w => (IsLive(r, v) <=> IsLive(OnDisk, v))
    BY <1>9 DEF IsLive
  <2>3. r.worker[w].of = OnDisk.worker[w].of
    BY <1>2, <1>10
  <2> QED
    BY <1>7, <1>8, <1>9, <1>10, <2>1, <2>2, <2>3
<1>12. /\ FilesCalm(OnDisk, exclusion)
       /\ \A v \in Worker : Matches(OnDisk, v, worktree[v])
  BY DEF Calm
<1>13. Populated(r)
  BY <1>1, <1>3, <1>11, <1>12, PopulatedSame DEF FilesCalm
<1>14. exclusion = CollectExclusionSet(r)
  BY <1>3, <1>11, <1>12, CollectSame DEF FilesCalm
<1>15. ASSUME NEW v \in Worker
       PROVE  Matches(r, v, worktree[v])
  <2>1. Matches(OnDisk, v, worktree[v])
    BY <1>12
  <2>2. CASE v # w
    BY <1>3, <1>9, <2>1, <2>2, MatchesKept
  <2>3. CASE v = w
    BY <1>2, <1>3, <1>8, <1>10, <2>1, <2>3
       DEF Matches, ContractMatches, SubmissionMatches
  <2> QED
    BY <2>2, <2>3
<1> QED
  BY <1>4, <1>6, <1>13, <1>14, <1>15 DEF Calm

\* update_submission_state.
LEMMA SubmitCalm ==
  ASSUME StoreInv, NEW q \in Process, UpdateSubmissionState(q),
         Calm(job[q], OnDisk, worktree, exclusion)
  PROVE  Calm(job'[q], OnDisk', worktree', exclusion')
<1> DEFINE w == job[q].subject
<1>1. /\ FilesInv /\ FilesTyped /\ JobInv(job[q]) /\ job \in [Process -> JobRecord]
      /\ job[q].pc = "submit"
  BY DEF StoreInv, FilesInv, FilesTyped, UpdateSubmissionState, Running
<1>2. w \in Worker /\ ~IsFinal(OnDisk, w) /\ worktree[w] # Absent
  BY <1>1 DEF UpdateSubmissionState, JobInv, AgentInv
<1>3. UNCHANGED <<disk, exclusion, worktree, registered, head, faults>>
  BY DEF UpdateSubmissionState
<1>4. CASE End(q)
  <2>1. job'[q].pc = "idle"
    BY <1>1, <1>4 DEF End, Idle
  <2> QED
    BY <1>1, <1>3, <2>1, QuietCalm DEF Stays
<1>5. CASE ~End(q)
  <2> DEFINE e == Submitted(w, job[q].cmd)
  <2>1. /\ Loadable /\ workerFile[w] # Absent
        /\ Begin(q, Snapshot(job[q], "groups", [OnDisk EXCEPT !.worker[w] = e]))
    BY <1>5 DEF UpdateSubmissionState, Snapshot
  <2>2. workerFile[w] \in WorkerRecord
    BY <1>1, <1>2, <2>1 DEF Loadable, FilesTyped
  <2>3. worktree[w].at \in 0..MaxHead /\ 0 \in 0..MaxHead
    BY <1>1, <1>2, StoreBoundsAssumption DEF FilesTyped, Worktree
  <2>4. e \in WorkerRecord /\ e.of = workerFile[w].of
    BY <2>2, <2>3, SubmittedEntry DEF Submitted
  <2>5. CASE job[q].cmd = "commit"
    <3>1. e.state = "COMMITTED" /\ e.submitted = worktree[w].at
      BY <2>2, <2>3, <2>5, SubmittedFields DEF Submitted
    <3> HIDE DEF e
    <3> QED
      BY <1>1, <1>2, <1>3, <2>1, <2>4, <3>1, EntryCalm
  <2>6. CASE job[q].cmd # "commit"
    <3>1. e.state = "BLOCKED"
      BY <2>2, <2>3, <2>6, SubmittedFields DEF Submitted
    <3> HIDE DEF e
    <3> QED
      BY <1>1, <1>2, <1>3, <2>1, <2>4, <3>1, EntryCalm
  <2> QED
    BY <2>5, <2>6
<1> QED
  BY <1>4, <1>5

\* update_state_after_ack.
LEMMA AckCalm ==
  ASSUME StoreInv, NEW q \in Process, UpdateStateAfterAck(q),
         Calm(job[q], OnDisk, worktree, exclusion)
  PROVE  Calm(job'[q], OnDisk', worktree', exclusion')
<1> DEFINE w == job[q].subject
<1>1. /\ FilesInv /\ FilesTyped /\ JobInv(job[q]) /\ job \in [Process -> JobRecord]
      /\ job[q].pc = "activate"
  BY DEF StoreInv, FilesInv, FilesTyped, UpdateStateAfterAck, Running
<1>2. w \in Worker /\ ~IsFinal(OnDisk, w)
  BY <1>1 DEF JobInv, AgentInv
<1>3. UNCHANGED <<disk, exclusion, worktree, registered, head, faults>>
  BY DEF UpdateStateAfterAck
<1>4. CASE End(q)
  <2>1. job'[q].pc = "idle"
    BY <1>1, <1>4 DEF End, Idle
  <2> QED
    BY <1>1, <1>3, <2>1, QuietCalm DEF Stays
<1>5. CASE ~End(q)
  <2> DEFINE e == [workerFile[w] EXCEPT !.state = "ACTIVE"]
             r == [OnDisk EXCEPT !.worker[w].state = "ACTIVE"]
  <2>1. /\ Loadable /\ workerFile[w] # Absent
        /\ Begin(q, Snapshot(job[q], "groups", r))
    BY <1>5 DEF UpdateStateAfterAck, Snapshot
  <2>2. workerFile[w] \in WorkerRecord
    BY <1>1, <1>2, <2>1 DEF Loadable, FilesTyped
  <2>3. r = [OnDisk EXCEPT !.worker[w] = e]
    BY DEF OnDisk
  <2>4. e \in WorkerRecord /\ e.of = workerFile[w].of /\ e.state = "ACTIVE"
    <3>1. 0 \in 0..MaxHead
      BY StoreBoundsAssumption
    <3> QED
      BY <2>2, <3>1, SubmittedEntry, SubmittedFields
  <2> HIDE DEF e, r
  <2>5. Begin(q, Snapshot(job[q], "groups", [OnDisk EXCEPT !.worker[w] = e]))
    BY <2>1, <2>3
  <2> QED
    BY <1>1, <1>2, <1>3, <2>1, <2>4, <2>5, EntryCalm
<1> QED
  BY <1>4, <1>5

-----------------------------------------------------------------------------
(* While nothing has failed: perspective forward. *)

\* A forward that goes on changes worktrees of its own group only, and no
\* contract before it refreshes the surfaces.
LEMMA ForwardingCalm ==
  ASSUME NEW q \in Process, Calm(job[q], OnDisk, worktree, exclusion),
         job[q].pc \in Forwarding, job'[q].pc \in Forwarding,
         job'[q].mem = job[q].mem, job'[q].of = job[q].of,
         job'[q].slips = job[q].slips,
         UNCHANGED <<disk, exclusion>>,
         \A w \in Worker \ Movers(job[q]) : worktree'[w] = worktree[w],
         job'[q].pc # "refresh" =>
           /\ job[q].pc # "refresh"
           /\ \A w \in Movers(job[q]) : worktree'[w].contract = worktree[w].contract
  PROVE  Calm(job'[q], OnDisk', worktree', exclusion')
<1> DEFINE k == job[q]
<1>1. OnDisk' = OnDisk /\ exclusion' = exclusion
  BY DEF disk, OnDisk
<1>2. LiveMembers(job'[q].mem, job'[q].of) = LiveMembers(k.mem, k.of)
  OBVIOUS
<1>3. /\ FilesCalm(OnDisk, exclusion) /\ k.slips = 0
      /\ \A w \in Worker \ Movers(k) : Matches(OnDisk, w, worktree[w])
      /\ k.pc # "refresh" => \A w \in Movers(k) : ContractMatches(OnDisk, w, worktree[w])
  BY DEF Calm
<1>4. \A w \in Worker \ Movers(k) : Matches(OnDisk, w, worktree'[w])
  BY <1>3
<1>5. job'[q].pc # "refresh" =>
        \A w \in Movers(k) : ContractMatches(OnDisk, w, worktree'[w])
  BY <1>3 DEF ContractMatches
<1> QED
  BY <1>1, <1>2, <1>3, <1>4, <1>5 DEF Calm, Movers

\* A worktree is rebased onto the new base.
LEMMA ForwardCalm ==
  ASSUME StoreInv, NEW q \in Process, ForwardWorktree(q),
         Calm(job[q], OnDisk, worktree, exclusion)
  PROVE  Calm(job'[q], OnDisk', worktree', exclusion')
<1> DEFINE k == job[q]
           w == NextOf(k.left)
           rest == k.left \ {w}
           t == [worktree[w] EXCEPT !.at = k.to]
           pc == IF rest = {} THEN "refresh" ELSE "move"
           left == IF rest = {} THEN Movers(k) ELSE rest
           moved == k.moved \cup {w}
<1>1. /\ FilesInv /\ FilesTyped /\ JobInv(k) /\ k \in JobRecord /\ k.pc = "move"
      /\ job \in [Process -> JobRecord]
  BY DEF StoreInv, FilesInv, FilesTyped, ForwardWorktree, Running
<1>2. /\ ForwardInv(k) /\ k.pc \in Forwarding /\ k.left # {}
      /\ k.left \subseteq Movers(k) /\ k.moved \subseteq Movers(k)
  BY <1>1 DEF JobInv, ForwardInv
<1>3. w \in k.left /\ w \in Movers(k)
  BY <1>2, NextOfIn
<1>4. UNCHANGED <<disk, exclusion>>
  BY DEF ForwardWorktree
<1>5. Begin(q, Moving(k, pc, left, moved))
  BY DEF ForwardWorktree, MoveOn, Moving, Movers
<1>6. /\ w \in Worker /\ worktree[w] \in Worktree /\ worktree[w] # Absent
      /\ k.to \in 1..MaxHead
  BY <1>1, <1>2, <1>3, MoverFacts
<1>7. worktree' = [worktree EXCEPT ![w] = t]
  BY <1>1, <1>6 DEF ForwardWorktree, FilesTyped
<1>8. t.contract = worktree[w].contract
  BY <1>6, MovedTyped
<1>9. Movers(k) \subseteq Worker
  BY DEF Movers, LiveMembers, Members
<1>10. /\ pc \in Pc /\ pc \in {"move", "refresh"}
       /\ left \in SUBSET (Perspective \cup Worker) /\ moved \in SUBSET Worker
  BY <1>2, <1>3, <1>9 DEF Pc
<1> HIDE DEF t, w
<1>11. /\ job'[q].pc = pc /\ job'[q].of = k.of
       /\ job'[q].mem = k.mem /\ job'[q].slips = k.slips
  <2> HIDE DEF pc, left, moved, k
  <2>1. /\ Moving(k, pc, left, moved) \in JobRecord
        /\ Moving(k, pc, left, moved).pc = pc
        /\ Moving(k, pc, left, moved).of = k.of
        /\ Moving(k, pc, left, moved).mem = k.mem
        /\ Moving(k, pc, left, moved).slips = k.slips
    BY <1>1, <1>10, MoveFields
  <2>2. job'[q] = Moving(k, pc, left, moved)
    BY <1>1, <1>5, <2>1, BeginJob
  <2> QED
    BY <2>1, <2>2
<1>12. /\ \A v \in Worker \ Movers(k) : worktree'[v] = worktree[v]
       /\ \A v \in Movers(k) : worktree'[v].contract = worktree[v].contract
  BY <1>1, <1>3, <1>6, <1>7, <1>8, <1>9 DEF FilesTyped
<1> HIDE DEF pc
<1> QED
  BY <1>1, <1>2, <1>4, <1>10, <1>11, <1>12, ForwardingCalm

\* What the snapshot of a forward has in it.
LEMMA ForwardedEntries ==
  ASSUME NEW s, s.worker \in Workers, NEW p, NEW to \in 0..MaxHead, NEW live
  PROVE  \A w \in Worker :
           /\ w \notin live => Forwarded(s, p, to, live).worker[w] = s.worker[w]
           /\ w \in live /\ s.worker[w] # Absent
                /\ Forwarded(s, p, to, live).worker[w].state = "COMMITTED" =>
                Forwarded(s, p, to, live).worker[w].submitted = to
<1> DEFINE f == Forwarded(s, p, to, live).worker
<1>1. \A w \in Worker :
        f[w] = IF w \in live /\ s.worker[w].state = "COMMITTED"
               THEN [s.worker[w] EXCEPT !.submitted = to] ELSE s.worker[w]
  BY DEF Forwarded
<1> HIDE DEF f
<1>2. \A r \in WorkerRecord : [r EXCEPT !.submitted = to].submitted = to
  BY DEF WorkerRecord
<1>3. ASSUME NEW w \in Worker
      PROVE  /\ w \notin live => f[w] = s.worker[w]
             /\ w \in live /\ s.worker[w] # Absent /\ f[w].state = "COMMITTED" =>
                  f[w].submitted = to
  <2>1. s.worker[w] # Absent => s.worker[w] \in WorkerRecord
    BY DEF Workers
  <2> QED
    BY <1>1, <1>2, <2>1
<1> QED
  BY <1>3 DEF f

\* When every contract names the new base, so does the snapshot.
LEMMA ForwardedCalm ==
  ASSUME StoreInv, NEW q \in Process, RefreshWorker(q), job[q].left = {},
         Calm(job[q], OnDisk, worktree, exclusion)
  PROVE  Calm(job'[q], OnDisk', worktree', exclusion')
<1> DEFINE k == job[q]
           p == k.of
           f == Forwarded(k.mem, p, k.to, Movers(k))
           j == Advanced(k, "groups", {}, f)
<1>1. /\ FilesInv /\ FilesTyped /\ JobInv(k) /\ k \in JobRecord /\ k.pc = "refresh"
      /\ job \in [Process -> JobRecord]
  BY DEF StoreInv, FilesInv, FilesTyped, RefreshWorker, Running
<1>2. /\ ForwardInv(k) /\ k.pc \in Forwarding /\ p \in Perspective
      /\ k.cmd = "forward" /\ k.mem = OnDisk /\ Sound(OnDisk)
      /\ k.to \in k.mem.group[p].base..head /\ Movers(k) # {}
      /\ \A v \in Movers(k) : worktree[v].at = k.to
      /\ \A v \in Movers(k) : worktree[v].contract = <<p, k.to>>
  BY <1>1 DEF JobInv, ForwardInv
<1>3. UNCHANGED <<disk, exclusion, worktree>> /\ Begin(q, j)
  BY DEF RefreshWorker, Advanced, Movers
<1>4. PICK m \in Movers(k) : TRUE
  BY <1>2
<1>5. /\ OnDisk \in [group : Groups, worker : Workers]
      /\ \A w \in Movers(k) : /\ w \in Worker /\ IsLive(OnDisk, w)
                              /\ OnDisk.worker[w].of = p
                              /\ OnDisk.worker[w] # Absent
  <2>1. OnDisk \in [group : Groups, worker : Workers]
    BY <1>1, <1>2 DEF JobRecord
  <2>2. \A w \in Movers(k) : w \in Worker /\ IsLive(OnDisk, w) /\ OnDisk.worker[w].of = p
    BY <1>2, LiveMemberFacts DEF Movers
  <2> QED
    BY <2>1, <2>2 DEF IsLive, Readable
<1>6. k.to \in 1..MaxHead /\ k.to <= head /\ k.to \in 0..MaxHead
  <2>1. k.to \in 1..MaxHead
    BY <1>1, <1>2, <1>4, MoverFacts
  <2>2. k.to <= head
    BY <1>1, <1>2, <2>1 DEF FilesTyped
  <2> QED
    BY <2>1, <2>2, StoreBoundsAssumption
<1>7. /\ f \in [group : Groups, worker : Workers] /\ Sound(f)
      /\ f.group[p].base = k.to
      /\ \A x \in Perspective \ {p} : f.group[x] = OnDisk.group[x]
      /\ \A w \in Worker :
           /\ f.worker[w] = Absent <=> OnDisk.worker[w] = Absent
           /\ OnDisk.worker[w] # Absent => f.worker[w].of = OnDisk.worker[w].of
  BY <1>2, <1>5, <1>6, ForwardedSound
<1>8. \A w \in Worker :
        /\ w \notin Movers(k) => f.worker[w] = OnDisk.worker[w]
        /\ w \in Movers(k) /\ f.worker[w].state = "COMMITTED" =>
             f.worker[w].submitted = k.to
  BY <1>2, <1>5, <1>6, ForwardedEntries
<1> HIDE DEF f
<1>9. j \in JobRecord /\ j.pc = "groups" /\ j.mem = f /\ j.cmd = "forward"
  <2>1. "groups" \in Pc
    BY DEF Pc
  <2>2. k.cmd = "forward"
    BY <1>2
  <2> HIDE DEF k
  <2> QED
    BY <1>1, <1>7, <2>1, <2>2, ForwardedFields
<1> HIDE DEF j
<1>10. job'[q] = j
  BY <1>1, <1>3, <1>9, BeginJob
<1>11. /\ FilesCalm(OnDisk, exclusion)
       /\ \A v \in Worker \ Movers(k) : Matches(OnDisk, v, worktree[v])
  BY <1>1 DEF Calm
<1>12. Populated(f)
  <2>1. f.worker[m] # Absent /\ f.worker[m].of = p
    BY <1>5, <1>7
  <2>2. f.group[p] # Absent
    BY <1>5, <1>7, <2>1 DEF Sound, Joined
  <2>3. OnDisk.group[p] # Absent
    BY <1>2, <1>5 DEF Sound, Joined
  <2>4. \A x \in Perspective : f.group[x] = Absent <=> OnDisk.group[x] = Absent
    BY <1>7, <2>2, <2>3
  <2> QED
    BY <1>2, <1>7, <1>11, <2>4, PopulatedSame DEF FilesCalm
<1>13. ASSUME NEW v \in Worker
       PROVE  Matches(f, v, worktree[v])
  <2>1. CASE v \in Movers(k)
    <3>1. worktree[v].at = k.to /\ worktree[v].contract[2] = k.to
      BY <1>2, <1>6, <2>1, ContractParts
    <3>2. f.worker[v].of = p
      BY <1>5, <1>7, <2>1
    <3> QED
      BY <1>7, <1>8, <2>1, <3>1, <3>2 DEF Matches, ContractMatches, SubmissionMatches
  <2>2. CASE v \notin Movers(k)
    <3>1. Matches(OnDisk, v, worktree[v]) /\ f.worker[v] = OnDisk.worker[v]
      BY <1>8, <1>11, <2>2
    <3>2. IsLive(f, v) =>
            f.group[OnDisk.worker[v].of].base = OnDisk.group[OnDisk.worker[v].of].base
      <4> SUFFICES ASSUME IsLive(f, v)
                   PROVE  /\ OnDisk.worker[v].of \in Perspective
                          /\ OnDisk.worker[v].of # p
        BY <1>7
      <4>1. IsLive(OnDisk, v) /\ OnDisk.worker[v] # Absent
        BY <3>1 DEF IsLive, Readable
      <4> QED
        BY <1>2, <2>2, <4>1, SoundRecords DEF Movers, LiveMembers, Members, IsLive
    <3> QED
      BY <3>1, <3>2, MatchesKept
  <2> QED
    BY <2>1, <2>2
<1> QED
  BY <1>3, <1>9, <1>10, <1>12, <1>13 DEF Calm

\* The surface of one worker is rewritten, or the snapshot is made.
LEMMA RefreshCalm ==
  ASSUME StoreInv, NEW q \in Process, RefreshWorker(q),
         Calm(job[q], OnDisk, worktree, exclusion)
  PROVE  Calm(job'[q], OnDisk', worktree', exclusion')
<1>1. CASE job[q].left = {}
  BY <1>1, ForwardedCalm
<1>2. CASE job[q].left # {}
  <2> DEFINE k == job[q]
             w == NextOf(k.left)
             left == k.left \ {w}
  <2>1. /\ FilesInv /\ FilesTyped /\ JobInv(k) /\ k \in JobRecord /\ k.pc = "refresh"
        /\ job \in [Process -> JobRecord]
    BY DEF StoreInv, FilesInv, FilesTyped, RefreshWorker, Running
  <2>2. w \in Movers(k) /\ Movers(k) \subseteq Worker /\ k.pc \in Forwarding
    BY <1>2, <2>1, NextOfIn DEF JobInv, ForwardInv, Movers, LiveMembers, Members
  <2>3. /\ Begin(q, Walked(k, left))
        /\ worktree' = [worktree EXCEPT ![w].contract = <<k.of, k.to>>]
        /\ UNCHANGED <<disk, exclusion>>
    BY <1>2 DEF RefreshWorker, Walked
  <2>4. left \in SUBSET (Perspective \cup Worker)
    BY <2>1 DEF JobRecord
  <2>5. \A v \in Worker \ Movers(k) : worktree'[v] = worktree[v]
    BY <2>1, <2>2, <2>3 DEF FilesTyped
  <2>6. /\ job'[q].pc = k.pc /\ job'[q].of = k.of
        /\ job'[q].mem = k.mem /\ job'[q].slips = k.slips
    <3> HIDE DEF left, k
    <3>1. /\ Walked(k, left) \in JobRecord
          /\ Walked(k, left).pc = k.pc /\ Walked(k, left).of = k.of
          /\ Walked(k, left).mem = k.mem /\ Walked(k, left).slips = k.slips
      BY <2>1, <2>4, LeftFields
    <3>2. job'[q] = Walked(k, left)
      BY <2>1, <2>3, <3>1, BeginJob
    <3> QED
      BY <3>1, <3>2
  <2> HIDE DEF w
  <2> QED
    BY <2>1, <2>2, <2>3, <2>5, <2>6, ForwardingCalm
<1> QED
  BY <1>1, <1>2

\* A worktree that does not rebase: no contract was touched yet.
LEMMA FailForwardCalm ==
  ASSUME StoreInv, NEW q \in Process, FailForward(q), faults' = faults,
         Calm(job[q], OnDisk, worktree, exclusion)
  PROVE  Calm(job'[q], OnDisk', worktree', exclusion')
<1> DEFINE k == job[q]
<1>1. /\ FilesTyped /\ k \in JobRecord /\ k.pc = "move" /\ k.pc \in Forwarding
      /\ job \in [Process -> JobRecord]
  BY DEF StoreInv, FilesInv, FilesTyped, FailForward, Running
<1>2. /\ Begin(q, Phase(k, "rollback", {}))
      /\ UNCHANGED <<disk, exclusion, worktree>>
  BY DEF FailForward, Phase
<1>3. /\ job'[q].pc = "rollback" /\ job'[q].of = k.of
      /\ job'[q].mem = k.mem /\ job'[q].slips = k.slips
  <2> HIDE DEF k
  <2>1. "rollback" \in Pc
    BY DEF Pc
  <2>2. /\ Phase(k, "rollback", {}) \in JobRecord
        /\ Phase(k, "rollback", {}).pc = "rollback"
        /\ Phase(k, "rollback", {}).of = k.of
        /\ Phase(k, "rollback", {}).mem = k.mem
        /\ Phase(k, "rollback", {}).slips = k.slips
    BY <1>1, <2>1, PhaseFields
  <2>3. job'[q] = Phase(k, "rollback", {})
    BY <1>1, <1>2, <2>2, BeginJob
  <2> QED
    BY <2>2, <2>3
<1> QED
  BY <1>1, <1>2, <1>3, ForwardingCalm

\* A worktree goes back to its checkpoint.
LEMMA RollbackCalm ==
  ASSUME StoreInv, NEW q \in Process, RollbackForwardWorktree(q), faults' = faults,
         Calm(job[q], OnDisk, worktree, exclusion)
  PROVE  Calm(job'[q], OnDisk', worktree', exclusion')
<1> DEFINE k == job[q]
           w == NextOf(k.moved)
           moved == k.moved \ {w}
           t == [worktree[w] EXCEPT !.at = CheckpointOf(k, w)]
<1>1. /\ FilesInv /\ FilesTyped /\ JobInv(k) /\ k \in JobRecord
      /\ k.pc = "rollback" /\ k.pc \in Forwarding /\ job \in [Process -> JobRecord]
  BY DEF StoreInv, FilesInv, FilesTyped, RollbackForwardWorktree, Running
<1>2. /\ ForwardInv(k) /\ k.moved \subseteq Movers(k) /\ Movers(k) \subseteq Worker
  BY <1>1 DEF JobInv, ForwardInv, Movers, LiveMembers, Members
<1>3. w \in Movers(k) /\ moved \in SUBSET Worker
  BY <1>2, NextOfIn DEF RollbackForwardWorktree
<1>4. /\ worktree' = [worktree EXCEPT ![w].at = CheckpointOf(k, w)]
      /\ Begin(q, Undone(k, moved))
      /\ UNCHANGED <<disk, exclusion>>
  <2>1. faults' # faults + 1
    BY <1>1 DEF FilesTyped
  <2> QED
    BY <2>1 DEF RollbackForwardWorktree, CheckpointOf, Undone
<1>5. worktree[w] \in Worktree
  BY <1>1, <1>2, <1>3, MoverFacts
<1>6. worktree' = [worktree EXCEPT ![w] = t]
  BY <1>1, <1>2, <1>3, <1>4 DEF FilesTyped
<1>7. t.contract = worktree[w].contract
  BY <1>5 DEF Worktree
<1> HIDE DEF t, w
<1>8. /\ \A v \in Worker \ Movers(k) : worktree'[v] = worktree[v]
      /\ \A v \in Movers(k) : worktree'[v].contract = worktree[v].contract
  BY <1>1, <1>2, <1>3, <1>6, <1>7 DEF FilesTyped
<1>9. /\ job'[q].pc = k.pc /\ job'[q].of = k.of
      /\ job'[q].mem = k.mem /\ job'[q].slips = k.slips
  <2> HIDE DEF moved, k
  <2>1. /\ Undone(k, moved) \in JobRecord
        /\ Undone(k, moved).pc = k.pc /\ Undone(k, moved).of = k.of
        /\ Undone(k, moved).mem = k.mem /\ Undone(k, moved).slips = k.slips
    BY <1>1, <1>3, UndoFields
  <2>2. job'[q] = Undone(k, moved)
    BY <1>1, <1>4, <2>1, BeginJob
  <2> QED
    BY <2>1, <2>2
<1> QED
  BY <1>1, <1>4, <1>8, <1>9, ForwardingCalm

\* A forward that is refused has put every worktree back.
LEMMA RefuseCalm ==
  ASSUME StoreInv, NEW q \in Process, RefuseForward(q),
         Calm(job[q], OnDisk, worktree, exclusion)
  PROVE  Calm(job'[q], OnDisk', worktree', exclusion')
<1> DEFINE k == job[q]
<1>1. /\ JobInv(k) /\ job \in [Process -> JobRecord] /\ k.pc = "rollback"
      /\ k.pc \in Forwarding /\ k.moved = {}
  BY DEF StoreInv, FilesInv, FilesTyped, RefuseForward, Running
<1>2. job'[q].pc = "idle"
  BY <1>1 DEF RefuseForward, End, Idle
<1>3. /\ FilesCalm(OnDisk, exclusion) /\ k.slips = 0
      /\ \A w \in Worker \ Movers(k) : Matches(OnDisk, w, worktree[w])
      /\ \A w \in Movers(k) : ContractMatches(OnDisk, w, worktree[w])
  BY <1>1 DEF Calm
<1>4. /\ k.mem = OnDisk
      /\ \A w \in Movers(k) : worktree[w].at = CheckpointOf(k, w)
  BY <1>1, <1>3 DEF JobInv, ForwardInv
<1>5. \A w \in Movers(k) : SubmissionMatches(OnDisk, w, worktree[w])
  BY <1>4 DEF SubmissionMatches, CheckpointOf, Checkpoint
<1>6. \A w \in Worker : Matches(OnDisk, w, worktree[w])
  BY <1>3, <1>5 DEF Matches
<1>7. OnDisk' = OnDisk /\ worktree' = worktree /\ exclusion' = exclusion
  BY DEF RefuseForward, disk, OnDisk
<1> QED
  BY <1>2, <1>3, <1>6, <1>7 DEF Calm

-----------------------------------------------------------------------------
(* While nothing has failed: store_state. *)

\* While it writes, a command has its snapshot.
LEMMA StoringCalm ==
  ASSUME NEW q \in Process, Calm(job[q], OnDisk, worktree, exclusion),
         job[q].pc \in Storing, job'[q].pc \in Storing,
         job'[q].cmd = job[q].cmd, job'[q].mem = job[q].mem,
         UNCHANGED <<exclusion, worktree>>
  PROVE  Calm(job'[q], OnDisk', worktree', exclusion')
BY DEF Calm

\* Files are removed, or one is written.
LEMMA StoreCalm ==
  ASSUME StoreInv, NEW q \in Process,
         RemoveStaleGroupFiles(q) \/ RemoveStaleWorkerFiles(q) \/ WriteRecord(q),
         Calm(job[q], OnDisk, worktree, exclusion)
  PROVE  Calm(job'[q], OnDisk', worktree', exclusion')
<1> DEFINE k == job[q]
<1>1. /\ k.pc \in Storing /\ UNCHANGED <<exclusion, worktree>>
  BY DEF RemoveStaleGroupFiles, RemoveStaleWorkerFiles, WriteRecord, Running
<1>2. /\ job \in [Process -> JobRecord] /\ k \in JobRecord
      /\ k.mem.group \in Groups /\ k.mem.worker \in Workers
  BY <1>1, StoringFacts
<1>3. job'[q].pc \in Storing /\ job'[q].cmd = k.cmd /\ job'[q].mem = k.mem
  <2>1. CASE RemoveStaleGroupFiles(q)
    <3>1. "workers" \in Pc
      BY DEF Pc
    <3> QED
      BY <1>2, <2>1, <3>1, GotoJob DEF RemoveStaleGroupFiles
  <2>2. CASE RemoveStaleWorkerFiles(q)
    <3> DEFINE left == Expected(k.mem.group) \cup Expected(k.mem.worker)
    <3>1. "write" \in Pc
      BY DEF Pc
    <3>2. left \in SUBSET (Perspective \cup Worker)
      BY <1>2 DEF Expected, Groups, Workers
    <3>3. Begin(q, Phase(k, "write", left))
      BY <2>2 DEF RemoveStaleWorkerFiles, Phase
    <3> HIDE DEF left, k
    <3>4. /\ Phase(k, "write", left) \in JobRecord
          /\ Phase(k, "write", left).pc = "write"
          /\ Phase(k, "write", left).cmd = k.cmd
          /\ Phase(k, "write", left).mem = k.mem
      BY <1>2, <3>1, <3>2, PhaseFields
    <3>5. job'[q] = Phase(k, "write", left)
      BY <1>2, <3>3, <3>4, BeginJob
    <3> QED
      BY <3>4, <3>5
  <2>3. CASE WriteRecord(q)
    <3> DEFINE left == k.left \ {NextFile(k.left)}
    <3>1. Begin(q, Walked(k, left))
      BY <2>3 DEF WriteRecord, Walked
    <3>2. left \in SUBSET (Perspective \cup Worker)
      BY <1>2 DEF JobRecord
    <3> HIDE DEF left, k
    <3>3. /\ Walked(k, left) \in JobRecord
          /\ Walked(k, left).pc = k.pc
          /\ Walked(k, left).cmd = k.cmd
          /\ Walked(k, left).mem = k.mem
      BY <1>2, <3>2, LeftFields
    <3>4. job'[q] = Walked(k, left)
      BY <1>2, <3>1, <3>3, BeginJob
    <3> QED
      BY <1>1, <3>3, <3>4
  <2> QED
    BY <2>1, <2>2, <2>3
<1> QED
  BY <1>1, <1>3, StoringCalm

\* When every file is written, the commands of a worker are over.
LEMMA StoredCalm ==
  ASSUME StoreInv, NEW q \in Process, Stored(q),
         Calm(job[q], OnDisk, worktree, exclusion)
  PROVE  Calm(job'[q], OnDisk', worktree', exclusion')
<1> DEFINE k == job[q]
<1>1. k.pc = "write" /\ k.pc \in Storing
  BY DEF Stored, Running
<1>2. /\ job \in [Process -> JobRecord] /\ k \in JobRecord
      /\ Sound(k.mem) /\ k.cmd # "none"
      /\ k.mem.group \in Groups /\ k.mem.worker \in Workers
  BY <1>1, StoringFacts
<1>3. k.mem = OnDisk
  BY StoredDisk
<1>4. /\ Populated(k.mem) /\ \A v \in Worker : Matches(k.mem, v, worktree[v])
      /\ k.cmd \in WorkerCmd => exclusion = CollectExclusionSet(k.mem)
  BY <1>1 DEF Calm
<1>5. OnDisk' = OnDisk /\ worktree' = worktree /\ exclusion' = exclusion
  BY DEF Stored, disk, OnDisk
<1>6. CASE k.cmd \in WorkerCmd
  <2>1. job'[q].pc = "idle"
    BY <1>2, <1>6 DEF Stored, End, Idle
  <2>2. FilesCalm(OnDisk, exclusion)
    BY <1>2, <1>3, <1>4, <1>6 DEF FilesCalm, Sound
  <2> QED
    BY <1>3, <1>4, <1>5, <2>1, <2>2 DEF Calm
<1>7. CASE k.cmd \notin WorkerCmd
  <2>1. k.cmd \in Cmd
    BY <1>2 DEF JobRecord
  <2>2. PICK pc \in Persisted : Goto(q, pc)
    BY <1>2, <1>7, <2>1 DEF Stored, Cmd
  <2>3. pc \in Pc
    BY DEF Pc
  <2>4. job'[q].pc \in Persisted /\ job'[q].mem = k.mem
    BY <1>2, <2>2, <2>3, GotoJob
  <2> QED
    BY <1>4, <1>5, <2>4 DEF Calm
<1> QED
  BY <1>6, <1>7

\* The commands of the orchestrator end with the exclusion set.
LEMMA RewriteCalm ==
  ASSUME StoreInv, NEW q \in Process, RewriteExclusionSet(q),
         Calm(job[q], OnDisk, worktree, exclusion)
  PROVE  Calm(job'[q], OnDisk', worktree', exclusion')
<1> DEFINE k == job[q]
<1>1. /\ JobInv(k) /\ job \in [Process -> JobRecord] /\ k \in JobRecord
      /\ k.pc = "project"
  BY DEF StoreInv, FilesInv, FilesTyped, RewriteExclusionSet, Running
<1>2. k.mem = OnDisk /\ Sound(k.mem)
  BY <1>1 DEF JobInv, WriteInv
<1>3. Populated(k.mem) /\ \A v \in Worker : Matches(k.mem, v, worktree[v])
  BY <1>1 DEF Calm
<1>4. job'[q].pc = "idle"
  BY <1>1 DEF RewriteExclusionSet, End, Idle
<1>5. /\ OnDisk' = OnDisk /\ worktree' = worktree
      /\ exclusion' = CollectExclusionSet(k.mem)
  BY DEF RewriteExclusionSet, disk, OnDisk
<1>6. FilesCalm(OnDisk, exclusion')
  BY <1>2, <1>3, <1>5 DEF FilesCalm, Sound
<1> QED
  BY <1>2, <1>3, <1>4, <1>5, <1>6 DEF Calm

-----------------------------------------------------------------------------
(* While nothing has failed: the whole. *)

\* At first nothing is claimed.
LEMMA CalmInit ==
  ASSUME Init
  PROVE  CalmInv
<1>1. StoreInv
  BY StoreInit
<1>2. /\ \A p \in Perspective : groupFile[p] = Absent
      /\ \A w \in Worker : workerFile[w] = Absent
      /\ groupFile \in Groups /\ workerFile \in Workers /\ exclusion = {}
  BY DEF Init, Groups, Workers
<1>3. \A w \in Worker : ~Readable(OnDisk.worker[w])
  BY <1>2 DEF Readable, OnDisk
<1>4. \A p \in Perspective : Members(OnDisk, p) = {} /\ LiveMembers(OnDisk, p) = {}
  BY <1>3 DEF Members, LiveMembers
<1>5. FilesCalm(OnDisk, exclusion)
  <2>1. Joined(OnDisk) /\ Populated(OnDisk)
    BY <1>2, <1>4 DEF Joined, Populated, OnDisk
  <2>2. CollectExclusionSet(OnDisk) = {}
    BY <1>4 DEF CollectExclusionSet
  <2> QED
    BY <1>2, <2>1, <2>2 DEF FilesCalm, OnDisk
<1>6. \A w \in Worker : Matches(OnDisk, w, worktree[w])
  BY <1>3 DEF Matches, IsLive
<1>7. \A q \in Process : job[q].pc = "idle"
  BY DEF Init, Idle
<1>8. \A q \in Process : Calm(job[q], OnDisk, worktree, exclusion)
  BY <1>5, <1>6, <1>7 DEF Calm
<1> QED
  BY <1>1, <1>8 DEF CalmInv

\* A step of a process that is no failure.
LEMMA ProcessCalm ==
  ASSUME IdsAreOwn, StoreInv, NEW q \in Process, faults' = faults,
         Start(q) \/ Continue(q) \/ FailForward(q) \/ Fault(q)
           \/ TearRecord(q) \/ TearExclusionSet(q),
         Calm(job[q], OnDisk, worktree, exclusion)
  PROVE  Calm(job'[q], OnDisk', worktree', exclusion')
<1>1. CASE Start(q)
  BY <1>1, StartCreateCalm, StartDiscardCalm, StartDeleteCalm, StartForwardCalm,
     StartAgentCalm DEF Start
<1>2. CASE Store(q)
  BY <1>2, StoreCalm, StoredCalm, RewriteCalm DEF Store
<1>3. CASE Continue(q) /\ ~Store(q)
  BY <1>3, PrepareCalm, RuntimeCalm, PublishTaskCalm, DropCalm, SubmitCalm, AckCalm,
     ForwardCalm, RefreshCalm, RollbackCalm, RefuseCalm DEF Continue
<1>4. CASE FailForward(q)
  BY <1>4, FailForwardCalm
<1>5. CASE Fault(q) \/ TearRecord(q) \/ TearExclusionSet(q)
  <2>1. faults' = faults + 1 /\ faults \in Nat
    BY <1>5, StoreBoundsAssumption
       DEF Fault, TearRecord, TearExclusionSet, StoreInv, FilesInv, FilesTyped
  <2> QED
    BY <2>1
<1> QED
  BY <1>1, <1>2, <1>3, <1>4, <1>5

\* Failures are counted.
LEMMA FaultsGrow ==
  ASSUME StoreInv, [Next]_vars, faults' = 0
  PROVE  faults = 0
<1>1. faults \in Nat
  BY StoreBoundsAssumption DEF StoreInv, FilesInv, FilesTyped
<1>2. faults' = faults \/ faults' = faults + 1
  <2>1. CASE AdvanceHead \/ UNCHANGED vars
    BY <2>1 DEF AdvanceHead, vars
  <2>2. CASE \E q \in Process :
               Start(q) \/ Continue(q) \/ FailForward(q) \/ Fault(q)
                 \/ TearRecord(q) \/ TearExclusionSet(q)
    <3>1. PICK q \in Process :
            Start(q) \/ Continue(q) \/ FailForward(q) \/ Fault(q)
              \/ TearRecord(q) \/ TearExclusionSet(q)
      BY <2>2
    <3>2. CASE Start(q)
      BY <3>2 DEF Start, StartCreate, StartDiscard, StartDelete, StartForward,
                  StartReport, StartCommit, StartAck, PublishWorkerInbox
    <3>3. CASE Store(q)
      BY <3>3 DEF Store, RemoveStaleGroupFiles, RemoveStaleWorkerFiles, WriteRecord,
                  Stored, RewriteExclusionSet
    <3>4. CASE Continue(q) /\ ~Store(q)
      BY <3>4 DEF Continue, CleanupWorkspaceBeforeCreate, ClearDirectory, AddWorktree,
                  PrepareWorkerRuntime, PublishTask, DropWorktree,
                  UpdateSubmissionState, UpdateStateAfterAck, ForwardWorktree,
                  RefreshWorker, RollbackForwardWorktree, RefuseForward
    <3>5. CASE FailForward(q) \/ Fault(q) \/ TearRecord(q) \/ TearExclusionSet(q)
      BY <3>5 DEF FailForward, Fault, TearRecord, TearExclusionSet
    <3> QED
      BY <3>1, <3>2, <3>3, <3>4, <3>5
  <2> QED
    BY <2>1, <2>2 DEF Next
<1> QED
  BY <1>1, <1>2

\* With one process, and nothing that fails, the files stay consistent.
LEMMA CalmStep ==
  ASSUME OneProcess, IdsAreOwn, CalmInv, [Next]_vars
  PROVE  CalmInv'
<1>1. StoreInv /\ StoreInv'
  BY StoreStep DEF CalmInv
<1>2. ASSUME faults' = 0, NEW r \in Process
      PROVE  Calm(job'[r], OnDisk', worktree', exclusion')
  <2>1. faults = 0 /\ Calm(job[r], OnDisk, worktree, exclusion)
    BY <1>1, <1>2, FaultsGrow DEF CalmInv
  <2>2. CASE AdvanceHead \/ UNCHANGED vars
    <3>1. /\ job' = job /\ OnDisk' = OnDisk
          /\ worktree' = worktree /\ exclusion' = exclusion
      BY <2>2 DEF AdvanceHead, vars, disk, OnDisk
    <3> QED
      BY <2>1, <3>1
  <2>3. CASE \E q \in Process :
               Start(q) \/ Continue(q) \/ FailForward(q) \/ Fault(q)
                 \/ TearRecord(q) \/ TearExclusionSet(q)
    <3>1. Start(r) \/ Continue(r) \/ FailForward(r) \/ Fault(r)
            \/ TearRecord(r) \/ TearExclusionSet(r)
      BY <2>3 DEF OneProcess
    <3> QED
      BY <1>1, <1>2, <2>1, <3>1, ProcessCalm
  <2> QED
    BY <2>2, <2>3 DEF Next
<1>3. faults' = 0 =>
        \A r \in Process : Calm(job'[r], OnDisk', worktree', exclusion')
  BY <1>2
<1> QED
  BY <1>1, <1>3 DEF CalmInv

\* While nothing has failed, no command leaves the state torn: between commands
\* it loads, every group has a worker, the exclusion set is the projection of
\* the live groups, contracts name the base of their group and a submission
\* names the head of its worktree.
THEOREM ConsistentBetweenCommands ==
  ASSUME OneProcess, IdsAreOwn
  PROVE  Spec => []ConsistentWhenIdle
<1>1. Init => CalmInv
  BY CalmInit
<1>2. CalmInv /\ [Next]_vars => CalmInv'
  BY CalmStep
<1>3. CalmInv => ConsistentWhenIdle
  <2> SUFFICES ASSUME CalmInv, AllIdle, faults = 0
               PROVE  /\ Loadable
                      /\ \A p \in Perspective :
                           (groupFile[p] # Absent) = (Members(OnDisk, p) # {})
                      /\ exclusion = CollectExclusionSet(OnDisk)
                      /\ \A w \in Worker : IsLive(OnDisk, w) =>
                           /\ worktree[w].contract[2] = groupFile[workerFile[w].of].base
                           /\ workerFile[w].state = "COMMITTED" => AtCheckpoint(OnDisk, w)
    BY DEF ConsistentWhenIdle
  <2>1. PICK q \in Process : TRUE
    BY DEF OneProcess
  <2>2. /\ job[q].pc = "idle" /\ Calm(job[q], OnDisk, worktree, exclusion)
        /\ FilesInv
    BY DEF AllIdle, Running, CalmInv, StoreInv
  <2>3. /\ FilesCalm(OnDisk, exclusion)
        /\ \A w \in Worker : Matches(OnDisk, w, worktree[w])
    BY <2>2 DEF Calm
  <2>4. Loadable
    <3>1. Sound(OnDisk)
      BY <2>2, <2>3 DEF FilesCalm, FilesInv, Sound
    <3> QED
      BY <3>1, SoundLoadable
  <2>5. /\ \A p \in Perspective : (groupFile[p] # Absent) = (Members(OnDisk, p) # {})
        /\ exclusion = CollectExclusionSet(OnDisk)
    BY <2>3 DEF FilesCalm, Populated, OnDisk
  <2>6. ASSUME NEW w \in Worker, IsLive(OnDisk, w)
        PROVE  /\ worktree[w].contract[2] = groupFile[workerFile[w].of].base
               /\ workerFile[w].state = "COMMITTED" => AtCheckpoint(OnDisk, w)
    <3>1. /\ ContractMatches(OnDisk, w, worktree[w])
          /\ SubmissionMatches(OnDisk, w, worktree[w])
      BY <2>3, <2>6 DEF Matches
    <3>2. worktree[w] # Absent
      BY <2>2, <2>6 DEF FilesInv, LiveWorkerHasWorktree
    <3>3. OnDisk.worker[w] = workerFile[w] /\ OnDisk.group = groupFile
      BY DEF OnDisk
    <3> QED
      BY <3>1, <3>2, <3>3
         DEF ContractMatches, SubmissionMatches, AtCheckpoint, Checkpoint
  <2> QED
    BY <2>4, <2>5, <2>6
<1> QED
  BY <1>1, <1>2, <1>3, PTL DEF Spec

=============================================================================
