------------------------------ MODULE Rulebook ------------------------------
(***************************************************************************)
(* Compilation of a rulebook and the check gate of a merge.                *)
(*                                                                         *)
(* Rulebook::compile validates the check pipeline, then orders and         *)
(* resolves the file sets (FilesetOrder), then evaluates the perspective.  *)
(* A merge compiles the rulebook of the group's base commit and runs the   *)
(* checks that one declares, whatever the rulebook says by now.            *)
(*                                                                         *)
(* Data abstraction: a path is the sequence of its segments, a glob the    *)
(* set of files it matches, an expression its first name and the operators *)
(* applied to it from the left (a parenthesised operand is a set of its    *)
(* own here); of the perspectives, the file sets they name.                *)
(***************************************************************************)
EXTENDS FilesetOrder, FiniteSets, SequencesExt

CONSTANTS
  Segment,  \* names of directories and files
  File,     \* files of the project, as sequences of segments
  Check,    \* check names
  Book,     \* rulebooks the working tree may hold: filesets, perspective, checks
  Gate      \* check tables the base commit of a group may hold

VARIABLES
  book,      \* rulebook under compilation
  phase,     \* how far it got
  resolved,  \* file sets compiled so far
  gate,      \* check table of the base commit of the group
  position,  \* place in its pipeline of the check that is next
  skips,     \* checks whose skip was accepted
  ran        \* checks that ran, in order

compileVars == <<orderVars, book, phase, resolved>>
gateVars == <<gate, position, skips, ran>>

Glob(files) == [kind |-> "glob", files |-> files, dir |-> <<>>, first |-> 0, rest |-> <<>>]
Opaque(dir) == [kind |-> "opaque", files |-> {}, dir |-> dir, first |-> 0, rest |-> <<>>]
Compound(e) == [kind |-> "compound", files |-> {}, dir |-> <<>>, first |-> e.first, rest |-> e.rest]

\* collect_references; rest is a sequence of an operator and a name each.
References(d) ==
  IF d.kind = "compound" THEN {d.first} \cup {d.rest[i].name : i \in 1..Len(d.rest)} ELSE {}

\* All operators bind alike and from the left.
Apply(left, step, sets) ==
  CASE step.op = "|" -> left \cup sets[step.name]
    [] step.op = "&" -> left \cap sets[step.name]
    [] step.op = "-" -> left \ sets[step.name]

\* The value of the first name and the first i operators, for each i.
Values(d, named) ==
  LET value[i \in 0..Len(d.rest)] ==
        IF i = 0 THEN named[d.first] ELSE Apply(value[i - 1], d.rest[i], named)
  IN value

\* evaluate looks up the names of the expression and nothing else.
Evaluate(d, sets) == Values(d, [n \in References(d) |-> sets[n]])[Len(d.rest)]

Definition ==
  [kind : {"glob", "opaque", "compound"}, files : SUBSET File, dir : Seq(Segment), first : Nat,
   rest : Seq([op : {"|", "&", "-"}, name : Nat])]

\* What the parsers of the rulebook and of an expression can return.
ASSUME BookAssumption ==
  /\ File \subseteq Seq(Segment)
  /\ \A b \in Book : DOMAIN b.filesets \subseteq Name /\ b.filesets \in [DOMAIN b.filesets -> Definition]
  /\ \A g \in Gate : g.pipeline \in Seq(Check)

-----------------------------------------------------------------------------
(* The check table. *)

Declared(t) == {c \in Check : t.command[c] # "none"}

\* Decoding refuses a policy for an undeclared command.
Decodes(t) == t.skippable \subseteq Declared(t)

\* CheckTable::compile: each declared check once in the pipeline, no blank command.
ChecksCompile(t) ==
  /\ Decodes(t)
  /\ IsInjective(t.pipeline) /\ ToSet(t.pipeline) = Declared(t)
  /\ \A c \in Declared(t) : t.command[c] # "blank"

-----------------------------------------------------------------------------
(* The file sets. *)

Opaques(sets) == {n \in DOMAIN sets : sets[n].kind = "opaque"}

\* Slip: only the first name of an expression is looked up.
FirstUndefined(sets) ==
  \E n \in DOMAIN sets : sets[n].kind = "compound" /\ sets[n].first \notin DOMAIN sets

Undefined(sets) == \E n \in DOMAIN sets : ~ References(sets[n]) \subseteq DOMAIN sets

\* Slip: only equal directories overlap.
SameDirectory(sets) == \E n, m \in Opaques(sets) : n # m /\ sets[n].dir = sets[m].dir

Overlapping(sets) ==
  \E n, m \in Opaques(sets) : n # m /\ IsPrefix(sets[n].dir, sets[m].dir)

ExpandOpaque(d) == {f \in File : IsStrictPrefix(d.dir, f)}

\* Every rejection ends the compilation.
Refused == phase' = "refused" /\ UNCHANGED <<orderVars, resolved>>

\* The checks first, then the names of the file sets, then the directories.
StartCompile(b) ==
  /\ phase = "idle"
  /\ book' = b
  /\ IF ~ ChecksCompile(b.checks) \/ Undefined(b.filesets) \/ Overlapping(b.filesets)
     THEN Refused
     ELSE /\ Search([n \in DOMAIN b.filesets |-> References(b.filesets[n])])
          /\ phase' = "sorting" /\ resolved' = <<>>
  /\ UNCHANGED gateVars

Sort ==
  /\ phase = "sorting"
  /\ OrderNext
  /\ phase' = IF cycle' # <<>> THEN "refused" ELSE phase
  /\ UNCHANGED <<book, resolved, gateVars>>

\* Phase 1, the opaque directories.
ExpandOpaques ==
  /\ phase = "sorting" /\ Sorted /\ cycle = <<>>
  /\ resolved' = [n \in Opaques(book.filesets) |-> ExpandOpaque(book.filesets[n])]
  /\ phase' = "resolving"
  /\ UNCHANGED <<orderVars, book, gateVars>>

\* Phase 2: what no opaque definition claims is left for the globs.
Claimed == UNION {ExpandOpaque(book.filesets[n]) : n \in Opaques(book.filesets)}

\* Slip: globs are expanded against all files.
ResolvedWithClaimed(d) == IF d.kind = "glob" THEN d.files ELSE Evaluate(d, resolved)

Resolved(d) == IF d.kind = "glob" THEN d.files \ Claimed ELSE Evaluate(d, resolved)

Unresolved == {i \in 1..Len(order) : order[i] \notin DOMAIN resolved}

\* Phase 3: the next name of the order that is not opaque.
ResolveNext ==
  /\ phase = "resolving"
  /\ \E i \in Unresolved :
       /\ Least(i, Unresolved)
       /\ resolved' = [n \in DOMAIN resolved \cup {order[i]} |->
                         IF n = order[i] THEN Resolved(book.filesets[n]) ELSE resolved[n]]
  /\ UNCHANGED <<orderVars, book, phase, gateVars>>

\* PerspectiveTable::compile: perspectives name compiled file sets only.
CompilePerspective ==
  /\ phase = "resolving" /\ Unresolved = {}
  /\ phase' = IF book.perspective \subseteq DOMAIN resolved THEN "compiled" ELSE "refused"
  /\ UNCHANGED <<orderVars, book, resolved, gateVars>>

Compile == Sort \/ ExpandOpaques \/ ResolveNext \/ CompilePerspective

-----------------------------------------------------------------------------
(* The gate of merge_worker. *)

\* Slip: any declared check may be skipped.
SkipsKnown(s) == s \subseteq Declared(gate)

\* validate_skip_request
SkipsAccepted(s) == s \subseteq gate.skippable

BeginChecks(s) ==
  /\ position = 0
  /\ ChecksCompile(gate) /\ SkipsAccepted(s)
  /\ skips' = s /\ position' = 1 /\ ran' = <<>>
  /\ UNCHANGED <<compileVars, gate>>

SkipCheck ==
  /\ position \in 1..Len(gate.pipeline)
  /\ gate.pipeline[position] \in skips
  /\ position' = position + 1
  /\ UNCHANGED <<compileVars, gate, skips, ran>>

EndChecks == position' = 0 /\ ran' = <<>> /\ skips' = {}

\* run_check, by its exit status; the first failure ends the merge.
RunCheck ==
  /\ position \in 1..Len(gate.pipeline)
  /\ gate.pipeline[position] \notin skips
  /\ \/ ran' = Append(ran, gate.pipeline[position]) /\ position' = position + 1 /\ UNCHANGED skips
     \/ EndChecks
  /\ UNCHANGED <<compileVars, gate>>

ChecksPassed == position > 0 /\ position = Len(gate.pipeline) + 1

Checks == SkipCheck \/ RunCheck

-----------------------------------------------------------------------------
(* Properties. *)

\* The sets a compiled rulebook holds are the ones its definitions say, all of
\* them: a glob, a directory, or an expression over the other sets (DESIGN.md,
\* 86-138), whatever order the search found.
CompiledIsMeaning ==
  phase = "compiled" =>
    /\ DOMAIN resolved = DOMAIN book.filesets
    /\ \A n \in DOMAIN resolved :
         LET d == book.filesets[n] IN
           CASE d.kind = "glob" -> resolved[n] = d.files \ Claimed
             [] d.kind = "opaque" -> resolved[n] = ExpandOpaque(d)
             [] d.kind = "compound" -> resolved[n] = Evaluate(d, resolved)

\* A file under an opaque directory is in no set but that directory's and the
\* expressions that name it, so no glob hands it to a perspective.
OpaqueByReferenceOnly ==
  phase = "compiled" =>
    \A n \in Opaques(book.filesets), m \in DOMAIN resolved : \A f \in resolved[n] \cap resolved[m] :
      m = n \/ \E k \in References(book.filesets[m]) : f \in resolved[k]

\* A merge passes the gate only when each check its base commit declares has
\* run, in pipeline order, or is one that may be skipped.
GateIsComplete ==
  ChecksPassed =>
    /\ Declared(gate) = ToSet(ran) \cup skips /\ skips \subseteq gate.skippable
    /\ ToSet(ran) \cap skips = {}
    /\ \A i, j \in 1..Len(ran) : i < j =>
         \E a, b \in 1..Len(gate.pipeline) :
           a < b /\ ran[i] = gate.pipeline[a] /\ ran[j] = gate.pipeline[b]
=============================================================================
