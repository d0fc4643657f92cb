----------------------------- MODULE MCMultorum -----------------------------
(* Instances of the orchestration core for TLC. *)
EXTENDS Multorum, TLC

CONSTANTS
  alpha, beta,  \* perspectives
  a, b, c, d, e  \* files

Bounds(r, w) == [read |-> r, write |-> w]

\* Under version 1 beta writes the file alpha reads, so they exclude each
\* other; under version 2 they can run together, and alpha has grown by a file
\* no version of beta mentions.
PrivateVersions ==
  1 :> (alpha :> Bounds({c}, {a, b}) @@ beta :> Bounds({}, {c}))
  @@ 2 :> (alpha :> Bounds({c}, {a, b, d}) @@ beta :> Bounds({}, {e}))

\* One version under which beta writes the files alpha reads.
OneVersion ==
  1 :> (alpha :> Bounds({c, d}, {a}) @@ beta :> Bounds({}, {c, d}))

\* The second version lets alpha write the file beta reads.
SharedVersions ==
  1 :> (alpha :> Bounds({}, {a}) @@ beta :> Bounds({b}, {c}))
  @@ 2 :> (alpha :> Bounds({}, {a, b}) @@ beta :> Bounds({b}, {c}))

NoEdit == {}

Upgrade == {<<1, 2>>}

\* What alpha writes, as one change that may be a move, and what it reads.
Edits == {{a, b}, {c}}

ReadEdits == {{c}}

MovedReadEdits == {{c, d}}

\* A file alpha reads and a file nobody holds.
MovedAwayEdits == {{c, e}}

NoMove == {}

MoveWritten == {<<a, b>>}

MoveRead == {<<c, d>>}

MoveAway == {<<c, e>>}

LiveAgents == Live

AllAgents == WorkerState

Workers == Permutations(Worker)

(***************************************************************************)
(* Views.  A report or submission matters only while its worker is blocked *)
(* or committed, and only by naming the head of the worktree: once the     *)
(* head has moved on it never comes back.  The files of a commit are       *)
(* looked up only for worktrees and groups pinned before it.               *)
(***************************************************************************)
CommitsAfter(W) ==
  [i \in 1..CurrentHead |->
     IF \E w \in W : worktree[w] # None /\ worktree[w].base < i
     THEN canonical[i] ELSE {}]

OpenView ==
  <<rulebook, committed, CommitsAfter(Worker), exclusion, group,
    [w \in Worker |->
       <<state[w], member[w], worktree[w], inbox[w], AtCheckpoint(w)>>]>>

(***************************************************************************)
(* When finalized agents are silent, a finalized worker is moreover only   *)
(* asked for the base it was pinned to, and a group without live workers   *)
(* is formed anew.                                                         *)
(***************************************************************************)
SilentFinalView ==
  <<rulebook, committed,
    CommitsAfter({w \in Worker : state[w] \in Live}), exclusion,
    [p \in Perspective |->
       IF HasLiveWorkers(p) THEN group[p] ELSE Owned(group[p])],
    [w \in Worker |->
       <<state[w], member[w],
         IF state[w] \in Final THEN worktree[w].base
         ELSE <<worktree[w], inbox[w], AtCheckpoint(w)>> >>]>>
=============================================================================
