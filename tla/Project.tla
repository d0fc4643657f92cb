------------------------------- MODULE Project -------------------------------
(***************************************************************************)
(* Who acts where: the roles of a workspace and of its worktrees, and the  *)
(* command line and MCP servers that find them.                            *)
(*                                                                         *)
(* A directory's role follows from the layout it lies in and two marker    *)
(* files.  The command line looks at it in every call, a server once, when *)
(* it starts; set_working_directory rebinds a server without looking.      *)
(* Calls that compile a rulebook or run checks take the steps of Rulebook; *)
(* the file may be edited at any time, so a call meets any rulebook.       *)
(*                                                                         *)
(* Data abstraction: one worktree, one server process at a time, one call  *)
(* at a time (the servers run calls one after the other; StateStore.tla    *)
(* interleaves processes); messages of errors by their code.               *)
(***************************************************************************)
EXTENDS Rulebook

Place == {"workspace", "worktree"}

Mode == {"orchestrator", "worker"}

ErrorCode == {"invalid_params", "invalid_state", "missing_worker_runtime", "unknown_worker",
              "check_failed", "internal"}

VARIABLES
  disk,     \* files under .multorum of each place
  linked,   \* places with a .git of their own
  server,   \* the MCP server: its mode, binding and place, or its error
  rebound,  \* set_working_directory was called on a server
  call,     \* call in progress
  reply     \* answer of the last call

sessionVars == <<disk, linked, server, rebound>>
vars == <<compileVars, gateVars, sessionVars, call, reply>>

Exists(p) == p \in linked \/ disk[p] # {}

\* The nearest directory upwards that has a .git.
RepositoryRoot(p) == IF p \in linked THEN p ELSE "workspace"

\* WorkerPaths::workspace_root: only .multorum/tr/<worker> is worker layout.
InLayout(root) == root = "worktree"

\* Slip: the rulebook is looked for first; worktrees hold a copy of it.
RulebookFirst(p) ==
  LET root == RepositoryRoot(p) IN
    IF "rulebook" \in disk[root] THEN "orchestrator"
    ELSE IF InLayout(root) /\ "contract" \in disk[root] THEN "worker" ELSE "invalid_state"

\* CurrentProject::with_vcs: a role, or the code of the error.
Role(p) ==
  LET root == RepositoryRoot(p) IN
    CASE InLayout(root) -> IF "contract" \in disk[root] THEN "worker" ELSE "missing_worker_runtime"
      [] ~ InLayout(root) -> IF "rulebook" \in disk[root] /\ "contract" \notin disk[root]
                             THEN "orchestrator" ELSE "invalid_state"

\* Whoever needs a mode in a place of another role, or of none, gets an error.
RequireRole(mode, p) ==
  IF Role(p) = mode THEN "ok" ELSE IF Role(p) \in Mode THEN "invalid_state" ELSE Role(p)

Idle == call = "none"

Answer(code) == reply' = code /\ call' = "none"

-----------------------------------------------------------------------------
(* multorum init and rulebook_init. *)

\* initialize_rulebook keeps what exists and creates what is missing.
Initialize(p) ==
  /\ disk' = [disk EXCEPT ![p] = @ \cup {"rulebook", "state"}]
  /\ UNCHANGED <<linked, server, rebound>>

\* The command initialises the workspace from a worktree too, whatever its role.
InitCommand ==
  /\ Idle
  /\ \E p \in {q \in Place : Exists(q)} : Initialize(IF InLayout(RepositoryRoot(p)) THEN "workspace" ELSE RepositoryRoot(p))
  /\ Answer("ok")
  /\ UNCHANGED <<compileVars, gateVars>>

-----------------------------------------------------------------------------
(* The MCP servers. *)

Ready(mode, p) == [mode |-> mode, binding |-> "ready", at |-> p, code |-> "ok"]

Failed(mode, code) == [mode |-> mode, binding |-> "failed", at |-> "workspace", code |-> code]

\* from_current_dir; a failure is kept and is the answer to every call.
StartServer ==
  /\ Idle
  /\ \E mode \in Mode, p \in {q \in Place : Exists(q)} :
       server' = IF Role(p) = mode THEN Ready(mode, RepositoryRoot(p))
                 ELSE Failed(mode, RequireRole(mode, p))
  /\ rebound' = FALSE
  /\ UNCHANGED <<compileVars, gateVars, disk, linked, call, reply>>

Serves(mode) == Idle /\ server.binding # "off" /\ server.mode = mode

\* set_working_directory: the directory must exist and, for a worker, have the
\* layout of a worktree; its markers are not read, and a failure replaces a
\* binding that worked.
SetWorkingDirectory ==
  /\ Idle /\ server.binding # "off"
  /\ \E p \in Place :
       LET code == CASE ~ Exists(p) -> "internal"
                     [] Exists(p) /\ server.mode = "worker" /\ ~ InLayout(p) -> "missing_worker_runtime"
                     [] OTHER -> "ok"
       IN /\ server' = IF code = "ok" THEN Ready(server.mode, p) ELSE Failed(server.mode, code)
          /\ Answer(code)
  /\ rebound' = TRUE
  /\ UNCHANGED <<compileVars, gateVars, disk, linked>>

\* Arguments are checked against the descriptor before the binding is.
RejectArguments ==
  /\ Idle /\ server.binding # "off"
  /\ Answer("invalid_params")
  /\ UNCHANGED <<compileVars, gateVars, sessionVars>>

AnswerFailed ==
  /\ Idle /\ server.binding = "failed"
  /\ Answer(server.code)
  /\ UNCHANGED <<compileVars, gateVars, sessionVars>>

\* rulebook_init by a server acts where the server is bound; missing
\* directories are created.
ToolInit ==
  /\ Serves("orchestrator") /\ server.binding = "ready"
  /\ Initialize(server.at)
  /\ Answer("ok")
  /\ UNCHANGED <<compileVars, gateVars>>

-----------------------------------------------------------------------------
(* Calls of the orchestrator, by the command line or a server. *)

Orchestrates(p) ==
  \/ \E q \in {r \in Place : Exists(r)} : Role(q) = "orchestrator" /\ RepositoryRoot(q) = p
  \/ Serves("orchestrator") /\ server.binding = "ready" /\ server.at = p

BeginCall(name) == call' = name /\ reply' = "none"

\* list_perspectives, validate_perspectives
ListPerspectives ==
  /\ Idle
  /\ \E p \in Place : Orchestrates(p) /\ "rulebook" \in disk[p]
  /\ \E b \in Book : StartCompile(b)
  /\ BeginCall("list")
  /\ UNCHANGED sessionVars

\* create_worker reads the state, then compiles the rulebook.
CreateWorker ==
  /\ Idle /\ Orchestrates("workspace")
  /\ {"state", "rulebook"} \subseteq disk["workspace"]
  /\ \E b \in Book : StartCompile(b)
  /\ BeginCall("create")
  /\ UNCHANGED sessionVars

\* The state directories or the rulebook are missing.
RefuseCall ==
  /\ Idle
  /\ \E p \in Place : Orchestrates(p) /\ \E missing \in {"state", "rulebook"} \ disk[p] :
       Answer(IF missing = "state" THEN "invalid_state" ELSE "internal")
  /\ UNCHANGED <<compileVars, gateVars, sessionVars>>

\* Calls that only read the state, or find no such worker in it; the calls that
\* change it are the commands of StateStore.tla and Mailbox.tla.
ReadState ==
  /\ Idle
  /\ \E p \in Place : Orchestrates(p) /\ "state" \in disk[p]
  /\ \E code \in {"ok", "unknown_worker"} : Answer(code)
  /\ UNCHANGED <<compileVars, gateVars, sessionVars>>

CompileStep == call \in {"list", "create"} /\ Compile /\ UNCHANGED <<sessionVars, call, reply>>

NoBook == [filesets |-> <<>>, perspective |-> {}, checks |-> [pipeline |-> <<>>, command |-> [c \in Check |-> "none"], skippable |-> {}]]

Forget == book' = NoBook /\ phase' = "idle" /\ resolved' = <<>> /\ Search(<<>>)

EndCompile ==
  /\ \/ phase = "refused" /\ Answer("internal")
     \/ call = "list" /\ phase = "compiled" /\ Answer("ok")
  /\ Forget
  /\ UNCHANGED <<gateVars, sessionVars>>

\* git worktree add: refused where something exists.
RefuseWorktree ==
  /\ call = "create" /\ phase = "compiled" /\ Exists("worktree")
  /\ Answer("internal")
  /\ Forget
  /\ UNCHANGED <<gateVars, sessionVars>>

\* HEAD becomes the base of the group; its rulebook may be another one or,
\* not yet committed, missing.
AddWorktree ==
  /\ call = "create" /\ phase = "compiled" /\ ~ Exists("worktree")
  /\ linked' = linked \cup {"worktree"}
  /\ \E g \in Gate :
       /\ gate' = g
       /\ disk' = [disk EXCEPT !["worktree"] = IF g.committed THEN {"rulebook"} ELSE {}]
  /\ call' = "prepare"
  /\ Forget
  /\ UNCHANGED <<server, rebound, position, skips, ran, reply>>

PrepareWorkerRuntime ==
  /\ call = "prepare"
  /\ disk' = [disk EXCEPT !["worktree"] = @ \cup {"contract"}]
  /\ Answer("ok")
  /\ UNCHANGED <<compileVars, gateVars, linked, server, rebound>>

\* The process ends between git and the contract.
AbandonCreate ==
  /\ call = "prepare"
  /\ Answer("none")
  /\ UNCHANGED <<compileVars, gateVars, sessionVars>>

\* merge_worker up to its gate: the base commit's rulebook, then the skips.
MergeWorker ==
  /\ Idle /\ Orchestrates("workspace")
  /\ "worktree" \in linked /\ "contract" \in disk["worktree"] /\ gate.committed
  /\ \E s \in SUBSET Check : BeginChecks(s)
  /\ BeginCall("merge")
  /\ UNCHANGED sessionVars

\* A base without a rulebook that compiles, or a skip that is not accepted.
RefuseMerge ==
  /\ Idle /\ Orchestrates("workspace")
  /\ "worktree" \in linked /\ "contract" \in disk["worktree"]
  /\ \/ ~ (gate.committed /\ ChecksCompile(gate)) /\ Answer("internal")
     \/ (\E s \in SUBSET Check : ~ SkipsAccepted(s)) /\ Answer("check_failed")
  /\ UNCHANGED <<compileVars, gateVars, sessionVars>>

CheckStep ==
  /\ call = "merge"
  /\ Checks
  /\ IF position' = 0 THEN Answer("check_failed") ELSE UNCHANGED <<call, reply>>
  /\ UNCHANGED sessionVars

NoGate == [committed |-> FALSE, pipeline |-> <<>>, command |-> [c \in Check |-> "none"], skippable |-> {}]

\* The gate is passed; MergePipeline.tla takes it from here, and the worker
\* is finalized.
EndMerge ==
  /\ call = "merge" /\ ChecksPassed
  /\ EndChecks /\ gate' = NoGate
  /\ Answer("ok")
  /\ UNCHANGED <<compileVars, sessionVars>>

\* delete_worker, or git worktree remove by hand.
RemoveWorktree ==
  /\ Idle /\ Exists("worktree")
  /\ linked' = linked \ {"worktree"}
  /\ disk' = [disk EXCEPT !["worktree"] = {}]
  /\ gate' = NoGate
  /\ Answer("ok")
  /\ UNCHANGED <<compileVars, server, rebound, position, skips, ran>>

\* The local commands, from a directory with the role of a worker.
LocalCommand ==
  /\ Idle
  /\ \E p \in {q \in Place : Exists(q)} : Answer(RequireRole("worker", p))
  /\ UNCHANGED <<compileVars, gateVars, sessionVars>>

\* A server's calls need the contract of the worktree it is bound to.
WorkerCall ==
  /\ Serves("worker") /\ server.binding = "ready"
  /\ Answer(IF "contract" \in disk[server.at] THEN "ok" ELSE "missing_worker_runtime")
  /\ UNCHANGED <<compileVars, gateVars, sessionVars>>

\* What a server of this mode looks for first, and its answer without it.
Needs(mode) == IF mode = "worker" THEN "contract" ELSE "state"

Unprepared(mode) == IF mode = "worker" THEN "missing_worker_runtime" ELSE "invalid_state"

\* A resource read: the methodology needs no binding, the others answer as the
\* call of that name.
ReadResource ==
  /\ Idle /\ server.binding # "off"
  /\ \/ Answer("ok")
     \/ server.binding = "failed" /\ Answer(server.code)
     \/ server.binding = "ready" /\ Needs(server.mode) \notin disk[server.at]
        /\ Answer(Unprepared(server.mode))
  /\ UNCHANGED <<compileVars, gateVars, sessionVars>>

\* Someone copies a contract into the workspace, or removes it.
StrayContract ==
  /\ Idle
  /\ disk' = [disk EXCEPT !["workspace"] =
                IF "contract" \in @ THEN @ \ {"contract"} ELSE @ \cup {"contract"}]
  /\ UNCHANGED <<compileVars, gateVars, linked, server, rebound, call, reply>>

Init ==
  /\ disk = [p \in Place |-> {}] /\ linked = {"workspace"}
  /\ server = [mode |-> "worker", binding |-> "off", at |-> "workspace", code |-> "ok"]
  /\ rebound = FALSE /\ call = "none" /\ reply = "none"
  /\ book = NoBook /\ phase = "idle" /\ resolved = <<>>
  /\ refs = <<>> /\ order = <<>> /\ path = <<>> /\ cycle = <<>>
  /\ gate = NoGate /\ position = 0 /\ skips = {} /\ ran = <<>>

Running ==
  \/ CompileStep \/ EndCompile \/ RefuseWorktree \/ AddWorktree
  \/ PrepareWorkerRuntime \/ AbandonCreate \/ CheckStep \/ EndMerge

Next ==
  \/ InitCommand \/ StartServer \/ SetWorkingDirectory \/ RejectArguments \/ AnswerFailed
  \/ ToolInit \/ ListPerspectives \/ CreateWorker \/ RefuseCall \/ MergeWorker \/ RefuseMerge
  \/ ReadState \/ ReadResource \/ RemoveWorktree \/ LocalCommand \/ WorkerCall \/ StrayContract
  \/ Running

\* A call that was begun runs to its end or dies; nobody has to call.
Spec == Init /\ [][Next]_vars /\ WF_vars(Running)

-----------------------------------------------------------------------------
(* Properties. *)

TypeOK ==
  /\ disk \in [Place -> SUBSET {"rulebook", "contract", "state"}] /\ linked \subseteq Place
  /\ server \in [mode : Mode, binding : {"off", "ready", "failed"}, at : Place,
                 code : ErrorCode \cup {"ok"}]
  /\ call \in {"none", "list", "create", "prepare", "merge"}
  /\ reply \in ErrorCode \cup {"none", "ok"}
  /\ phase \in {"idle", "sorting", "resolving", "compiled", "refused"}
  /\ position \in Nat /\ skips \subseteq Check /\ rebound \in BOOLEAN
  /\ OrderTypeOK

\* The control plane of an orchestrator appears in a worktree, which holds a
\* copy of the rulebook, only by a server that was rebound: no command and no
\* server started there takes it for a workspace, made in full or not.
OnlyReboundServersCrossRoles ==
  [][("state" \in disk'["worktree"] /\ "state" \notin disk["worktree"]) => rebound]_vars

\* Every call ends, whatever graph the file sets of its rulebook form.
CallsEnd == call # "none" ~> call = "none"
=============================================================================
