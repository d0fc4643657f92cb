---------------------------- MODULE FilesetOrder ----------------------------
(***************************************************************************)
(* The order in which the file sets of a rulebook are resolved.            *)
(*                                                                         *)
(* topological_sort is a depth-first search over the names a definition    *)
(* refers to, in name order.  A finished name is black, a name on the path *)
(* gray, any other white.  The names are numbered in that order; the       *)
(* recursion of visit is the sequence path.                                *)
(***************************************************************************)
EXTENDS Naturals, Sequences

CONSTANT Name  \* file set names, in the order of the table

ASSUME NameAssumption == Name \subseteq Nat

VARIABLES
  refs,   \* the names each defined name refers to
  order,  \* names resolved so far, the first first
  path,   \* names being visited, the innermost last
  cycle   \* the cycle that was reported

orderVars == <<refs, order, path, cycle>>

Black == {order[i] : i \in 1..Len(order)}

Gray == {path[i] : i \in 1..Len(path)}

White == DOMAIN refs \ (Black \cup Gray)

Least(n, S) == n \in S /\ \A m \in S : n <= m

Current == path[Len(path)]

\* Slip: a reference that is on the path counts as visited.
NotVisited == refs[Current] \ (Black \cup Gray)

\* The references of the current name that are still to be visited; visiting
\* a black one returns at once.
Unfinished == refs[Current] \ Black

VisitNext ==
  /\ cycle = <<>> /\ path = <<>>
  /\ \E n \in White : Least(n, White) /\ path' = <<n>>
  /\ UNCHANGED <<refs, order, cycle>>

Descend ==
  /\ cycle = <<>> /\ path # <<>>
  /\ \E n \in White : Least(n, Unfinished) /\ path' = Append(path, n)
  /\ UNCHANGED <<refs, order, cycle>>

\* Slip: the whole path is reported.
ReportPath ==
  /\ cycle = <<>> /\ path # <<>>
  /\ \E i \in 1..Len(path) :
       /\ Least(path[i], Unfinished)
       /\ cycle' = Append(path, path[i])
  /\ UNCHANGED <<refs, order, path>>

\* Slip: the search starts over where it met a cycle.
StartOver ==
  /\ cycle = <<>> /\ path # <<>>
  /\ \E i \in 1..Len(path) : Least(path[i], Unfinished)
  /\ path' = <<>>
  /\ UNCHANGED <<refs, order, cycle>>

\* A gray name is met again: the path from its place on closes a cycle.
CloseCycle ==
  /\ cycle = <<>> /\ path # <<>>
  /\ \E i \in 1..Len(path) :
       /\ Least(path[i], Unfinished)
       /\ cycle' = Append(SubSeq(path, i, Len(path)), path[i])
  /\ UNCHANGED <<refs, order, path>>

Finish ==
  /\ cycle = <<>> /\ path # <<>> /\ Unfinished = {}
  /\ order' = Append(order, Current)
  /\ path' = SubSeq(path, 1, Len(path) - 1)
  /\ UNCHANGED <<refs, cycle>>

\* check_undefined has passed: every reference is defined.
Graph == UNION {[S -> SUBSET S] : S \in SUBSET Name}

Search(r) == refs' = r /\ order' = <<>> /\ path' = <<>> /\ cycle' = <<>>

OrderInit == refs \in Graph /\ order = <<>> /\ path = <<>> /\ cycle = <<>>

OrderNext == VisitNext \/ Descend \/ CloseCycle \/ Finish

OrderSpec == OrderInit /\ [][OrderNext]_orderVars

Sorted == path = <<>> /\ White = {}

-----------------------------------------------------------------------------
(* Properties. *)

OrderTypeOK ==
  /\ DOMAIN refs \subseteq Name /\ refs \in [DOMAIN refs -> SUBSET DOMAIN refs]
  /\ order \in Seq(DOMAIN refs) /\ path \in Seq(DOMAIN refs) /\ cycle \in Seq(DOMAIN refs)

\* Whatever has been ordered is preceded by everything it refers to, and is
\* ordered once: the evaluation that follows meets only resolved names
\* (fileset/compile.rs, expect "topological order guarantees resolved").
OrderIsTopological ==
  \A i \in 1..Len(order) :
    /\ \A m \in refs[order[i]] : \E j \in 1..(i - 1) : order[j] = m
    /\ \A j \in 1..(i - 1) : order[j] # order[i]

\* A rulebook is refused for a cycle only when it has one: each name of the
\* reported cycle refers to the next, and the last name is the first.
CycleIsReal ==
  cycle # <<>> =>
    /\ Len(cycle) > 1 /\ cycle[1] = cycle[Len(cycle)]
    /\ \A i \in 1..(Len(cycle) - 1) : cycle[i + 1] \in refs[cycle[i]]
=============================================================================
