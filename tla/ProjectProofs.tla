---------------------------- MODULE ProjectProofs ----------------------------
(***************************************************************************)
(* What a rulebook compiles to, what a merge's gate lets pass, and which   *)
(* servers may take a worktree for a workspace, for every project.         *)
(*                                                                         *)
(* The steps of Project change the compilation, the gate or the session;   *)
(* each of the three has an invariant of its own, about its own variables  *)
(* (CompileInv, GateInv, SessionInv), and CallInv, the call that is in     *)
(* progress, is what keeps them apart: nothing is compiled during a merge, *)
(* and the base of the group stays while its checks run.                   *)
(***************************************************************************)
EXTENDS Project, FilesetOrderProofs, WellFoundedInduction

-----------------------------------------------------------------------------
(* Numbers and prefixes. *)

\* Every non-empty set of natural numbers has a least one.
LEMMA LeastNumber ==
  ASSUME NEW T, T \subseteq Nat, T # {}
  PROVE  \E x \in T : \A y \in T : x <= y
<1>1. \E x \in T : \A y \in T : ~ (<<y, x>> \in OpToRel(<, Nat))
  BY WFMin, NatLessThanWellFounded
<1>2. \A x \in T, y \in T : ~ (<<y, x>> \in OpToRel(<, Nat)) => x <= y
  BY DEF OpToRel
<1> QED
  BY <1>1, <1>2

\* Two prefixes of one sequence: one is a prefix of the other.
LEMMA PrefixesCompare ==
  ASSUME NEW S, NEW d \in Seq(S), NEW e \in Seq(S), NEW f \in Seq(S),
         IsPrefix(d, f), IsPrefix(e, f)
  PROVE  IsPrefix(d, e) \/ IsPrefix(e, d)
<1>1. /\ Len(d) \in Nat /\ Len(e) \in Nat /\ Len(f) \in Nat
      /\ Len(d) <= Len(f) /\ Len(e) <= Len(f)
  BY DEF IsPrefix
<1>2. \A i \in 1..Len(d) : d[i] = f[i]
  BY <1>1 DEF IsPrefix
<1>3. \A i \in 1..Len(e) : e[i] = f[i]
  BY <1>1 DEF IsPrefix
<1>4. CASE Len(d) <= Len(e)
  <2>1. SubSeq(d, 1, Len(d)) = SubSeq(e, 1, Len(d))
    BY <1>1, <1>2, <1>3, <1>4
  <2> QED
    BY <2>1, <1>4 DEF IsPrefix
<1>5. CASE Len(e) <= Len(d)
  <2>1. SubSeq(e, 1, Len(e)) = SubSeq(d, 1, Len(e))
    BY <1>1, <1>2, <1>3, <1>5
  <2> QED
    BY <2>1, <1>5 DEF IsPrefix
<1> QED
  BY <1>1, <1>4, <1>5

-----------------------------------------------------------------------------
(* The value of an expression. *)

\* An expression's value depends on the sets it names and on no others.
LEMMA EvaluateAgrees ==
  ASSUME NEW d, NEW s, NEW t, \A n \in References(d) : s[n] = t[n]
  PROVE  Evaluate(d, s) = Evaluate(d, t)
<1>1. [n \in References(d) |-> s[n]] = [n \in References(d) |-> t[n]]
  OBVIOUS
<1> QED
  BY <1>1 DEF Evaluate

\* One step of the evaluation, and the function it defines up to a number.
StepTo(d, named, f, i) ==
  IF i = 0 THEN named[d.first] ELSE Apply(f[i - 1], d.rest[i], named)

IsValuesUpTo(d, named, f, k) ==
  DOMAIN f = 0..k /\ \A i \in 0..k : f[i] = StepTo(d, named, f, i)

\* The recursion of Values defines a function.
LEMMA ValuesUpTo ==
  ASSUME NEW d, NEW named, NEW k \in Nat
  PROVE  \E f : IsValuesUpTo(d, named, f, k)
<1> DEFINE Bad == {j \in Nat : ~ \E f : IsValuesUpTo(d, named, f, j)}
<1> SUFFICES ASSUME Bad # {} PROVE FALSE
  OBVIOUS
<1>1. PICK j \in Bad : \A i \in Bad : j <= i
  BY LeastNumber
<1>2. CASE j = 0
  <2>1. IsValuesUpTo(d, named, [i \in 0..0 |-> named[d.first]], 0)
    BY DEF IsValuesUpTo, StepTo
  <2> QED
    BY <2>1, <1>1, <1>2
<1>3. CASE j # 0
  <2>1. j \in Nat /\ j - 1 \in Nat /\ j - 1 \notin Bad
    BY <1>1, <1>3
  <2>2. PICK f : IsValuesUpTo(d, named, f, j - 1)
    BY <2>1
  <2> DEFINE g == [i \in 0..j |-> IF i = j THEN Apply(f[j - 1], d.rest[j], named) ELSE f[i]]
  <2>3. ASSUME NEW i \in 0..j PROVE g[i] = StepTo(d, named, g, i)
    <3>1. CASE i = j
      <4>1. g[j] = Apply(f[j - 1], d.rest[j], named) /\ g[j - 1] = f[j - 1]
        BY <2>1
      <4> QED
        BY <4>1, <3>1, <1>3 DEF StepTo
    <3>2. CASE i = 0
      BY <3>2, <2>1, <2>2, <1>3 DEF StepTo, IsValuesUpTo
    <3>3. CASE i # j /\ i # 0
      <4>1. i \in 0..(j - 1) /\ i - 1 \in 0..j /\ i - 1 # j
        BY <3>3, <2>1
      <4>2. g[i] = f[i] /\ g[i - 1] = f[i - 1]
        BY <3>3, <4>1
      <4>3. f[i] = StepTo(d, named, f, i)
        BY <4>1, <2>2 DEF IsValuesUpTo
      <4> QED
        BY <4>2, <4>3, <3>3 DEF StepTo
    <3> QED
      BY <3>1, <3>2, <3>3
  <2>4. DOMAIN g = 0..j
    OBVIOUS
  <2> HIDE DEF g
  <2>5. IsValuesUpTo(d, named, g, j)
    BY <2>3, <2>4 DEF IsValuesUpTo
  <2> QED
    BY <2>5, <1>1
<1> QED
  BY <1>2, <1>3

LEMMA ValuesStep ==
  ASSUME NEW d \in Definition, NEW named
  PROVE  \A i \in 0..Len(d.rest) : Values(d, named)[i] = StepTo(d, named, Values(d, named), i)
<1> DEFINE N == Len(d.rest)
           Body(f) == [i \in 0..N |-> IF i = 0 THEN named[d.first]
                                       ELSE Apply(f[i - 1], d.rest[i], named)]
<1>1. N \in Nat
  BY DEF Definition
<1>2. PICK f : IsValuesUpTo(d, named, f, N)
  BY <1>1, ValuesUpTo
<1>3. Values(d, named) = CHOOSE g : g = Body(g)
  BY DEF Values
<1> DEFINE g == [i \in 0..N |-> f[i]]
<1>4. \A i \in 0..N : i # 0 => i - 1 \in 0..N
  BY <1>1
<1>5. \A i \in 0..N : g[i] = f[i] /\ f[i] = StepTo(d, named, f, i)
  BY <1>2 DEF IsValuesUpTo
<1>6. \A i \in 0..N : g[i] = StepTo(d, named, g, i)
  BY <1>4, <1>5 DEF StepTo
<1>7. g = Body(g)
  <2>1. \A i \in 0..N : g[i] = Body(g)[i]
    BY <1>6 DEF StepTo
  <2>2. DOMAIN g = 0..N /\ DOMAIN Body(g) = 0..N
    OBVIOUS
  <2> QED
    BY <2>1
<1> HIDE DEF g
<1>8. Values(d, named) = Body(Values(d, named))
  BY <1>3, <1>7
<1> QED
  BY <1>8 DEF StepTo

\* Whatever an expression evaluates to is in one of the sets it names.
LEMMA EvaluateWithin ==
  ASSUME NEW d \in Definition, d.kind = "compound", NEW s, NEW x \in Evaluate(d, s)
  PROVE  \E n \in References(d) : x \in s[n]
<1> DEFINE N == Len(d.rest)
           named == [n \in References(d) |-> s[n]]
           v == Values(d, named)
           Bad == {i \in 0..N : \E y \in v[i] : \A n \in References(d) : y \notin s[n]}
<1>1. N \in Nat /\ d.rest \in Seq([op : {"|", "&", "-"}, name : Nat])
  BY DEF Definition
<1>2. d.first \in References(d) /\ \A i \in 1..N : d.rest[i].name \in References(d)
  BY DEF References
<1>3. \A i \in 0..N : v[i] = StepTo(d, named, v, i)
  BY ValuesStep
<1>4. Bad = {}
  <2> SUFFICES ASSUME Bad # {} PROVE FALSE
    OBVIOUS
  <2>1. Bad \subseteq Nat
    BY <1>1
  <2>2. PICK i \in Bad : \A j \in Bad : i <= j
    BY <2>1, LeastNumber
  <2>3. i \in 0..N /\ \E y \in v[i] : \A n \in References(d) : y \notin s[n]
    OBVIOUS
  <2>4. PICK y \in v[i] : \A n \in References(d) : y \notin s[n]
    BY <2>3
  <2> HIDE DEF v
  <2>5. CASE i = 0
    BY <2>3, <2>4, <2>5, <1>2, <1>3 DEF StepTo
  <2>6. CASE i # 0
    <3>1. i - 1 \in 0..N /\ i \in 1..N /\ ~ i <= i - 1
      BY <2>3, <2>6, <1>1
    <3>2. i - 1 \notin Bad
      BY <3>1, <2>2
    <3> DEFINE step == d.rest[i]
    <3>3. step \in [op : {"|", "&", "-"}, name : Nat] /\ step.name \in References(d)
      <4>1. step \in [op : {"|", "&", "-"}, name : Nat]
        BY <3>1, <1>1, ElementOfSeq
      <4> QED
        BY <4>1, <3>1, <1>2
    <3>4. step.op \in {"|", "&", "-"} /\ named[step.name] = s[step.name]
      BY <3>3
    <3> HIDE DEF step, named
    <3>5. v[i] = Apply(v[i - 1], step, named)
      BY <2>3, <2>6, <1>3 DEF StepTo, step
    <3>6. v[i] \subseteq v[i - 1] \cup named[step.name]
      BY <3>4, <3>5 DEF Apply
    <3>7. y \in v[i - 1] \/ y \in s[step.name]
      BY <3>4, <3>6, <2>4
    <3>8. y \notin s[step.name]
      BY <3>3, <2>4
    <3> QED
      BY <3>1, <3>2, <3>7, <3>8, <2>4
  <2> QED
    BY <2>5, <2>6
<1>5. N \in 0..N /\ x \in v[N]
  BY <1>1 DEF Evaluate
<1> QED
  BY <1>4, <1>5

-----------------------------------------------------------------------------
(* The compilation: its invariant, and that each step keeps it. *)

\* The file sets under compilation passed the checks that come first, and the
\* search is about them.
Accepted ==
  /\ book \in Book /\ ~ Undefined(book.filesets) /\ ~ Overlapping(book.filesets)
  /\ refs = [n \in DOMAIN book.filesets |-> References(book.filesets[n])]

\* The set that was computed for one definition is the one it says.
HasMeaning(d, set, claimed, sets) ==
  /\ d.kind = "glob" => set = d.files \ claimed
  /\ d.kind = "opaque" => set = ExpandOpaque(d)
  /\ d.kind = "compound" => set = Evaluate(d, sets)

\* What is resolved refers to resolved names only, so that a set that is added
\* changes the value of none that is there.
ResolvedInv ==
  /\ Opaques(book.filesets) \subseteq DOMAIN resolved
  /\ DOMAIN resolved \subseteq DOMAIN book.filesets
  /\ \A n \in DOMAIN resolved : References(book.filesets[n]) \subseteq DOMAIN resolved
  /\ \A n \in DOMAIN resolved : HasMeaning(book.filesets[n], resolved[n], Claimed, resolved)

CompileInv ==
  /\ OrderInv
  /\ phase \in {"idle", "sorting", "resolving", "compiled", "refused"}
  /\ phase \in {"sorting", "resolving", "compiled"} => Accepted
  /\ phase \in {"resolving", "compiled"} => Sorted /\ cycle = <<>> /\ ResolvedInv
  /\ phase = "compiled" => Unresolved = {}

\* What the parser returns, and what it means for one definition.
LEMMA BookFacts ==
  ASSUME NEW b \in Book
  PROVE  /\ DOMAIN b.filesets \subseteq Name
         /\ \A n \in DOMAIN b.filesets : b.filesets[n] \in Definition
  BY BookAssumption

\* Nothing is ordered yet: the search may be started over any closed graph.
LEMMA SearchInv ==
  ASSUME NEW r, Search(r), DOMAIN r \subseteq Name, r \in [DOMAIN r -> SUBSET DOMAIN r]
  PROVE  OrderInv'
<1>1. refs' = r /\ order' = <<>> /\ path' = <<>> /\ cycle' = <<>>
  BY DEF Search
<1>2. OrderTypeOK'
  BY <1>1 DEF OrderTypeOK
<1> QED
  BY <1>1, <1>2 DEF OrderInv, PathIsChain, PathIsFresh, OrderIsTopological, CycleIsReal

LEMMA OrderNextInv == OrderInv /\ OrderNext => OrderInv'
  BY VisitNextInv, DescendInv, CloseCycleInv, FinishInv DEF OrderNext

LEMMA OrderInvFrame == OrderInv /\ UNCHANGED orderVars => OrderInv'
  BY DEF orderVars, OrderInv, OrderTypeOK, PathIsChain, PathIsFresh, OrderIsTopological, CycleIsReal

\* The compilation of any rulebook begins with an empty search.
LEMMA StartCompileInv ==
  ASSUME CompileInv, NEW b \in Book, StartCompile(b)
  PROVE  CompileInv'
<1>1. book' = b
  BY DEF StartCompile
<1>2. CASE Refused
  <2>1. phase' = "refused" /\ UNCHANGED orderVars
    BY <1>2 DEF Refused
  <2>2. OrderInv'
    BY <2>1, OrderInvFrame DEF CompileInv
  <2> QED
    BY <2>1, <2>2 DEF CompileInv
<1>3. CASE ~ Refused
  <2> DEFINE r == [n \in DOMAIN b.filesets |-> References(b.filesets[n])]
  <2>1. /\ ~ Undefined(b.filesets) /\ ~ Overlapping(b.filesets)
        /\ Search(r) /\ phase' = "sorting"
    BY <1>3 DEF StartCompile
  <2>2. DOMAIN r \subseteq Name /\ r \in [DOMAIN r -> SUBSET DOMAIN r]
    BY <2>1, BookFacts DEF Undefined
  <2>3. OrderInv'
    BY <2>1, <2>2, SearchInv
  <2>4. refs' = r
    BY <2>1 DEF Search
  <2>5. Accepted'
    BY <2>1, <2>4, <1>1 DEF Accepted
  <2> QED
    BY <2>1, <2>3, <2>5 DEF CompileInv
<1> QED
  BY <1>2, <1>3

LEMMA SortInv ==
  ASSUME CompileInv, Sort
  PROVE  CompileInv'
<1>1. OrderInv'
  BY OrderNextInv DEF CompileInv, Sort
<1>2. phase = "sorting" /\ phase' \in {"sorting", "refused"} /\ UNCHANGED <<book, refs>>
  BY DEF Sort, OrderNext, VisitNext, Descend, CloseCycle, Finish
<1>3. Accepted'
  BY <1>2 DEF CompileInv, Accepted
<1> QED
  BY <1>1, <1>2, <1>3 DEF CompileInv

\* An opaque definition refers to no name.
LEMMA ExpandOpaquesInv ==
  ASSUME CompileInv, ExpandOpaques
  PROVE  CompileInv'
<1>1. /\ phase = "sorting" /\ phase' = "resolving" /\ UNCHANGED orderVars /\ UNCHANGED book
      /\ Sorted /\ cycle = <<>>
      /\ resolved' = [n \in Opaques(book.filesets) |-> ExpandOpaque(book.filesets[n])]
  BY DEF ExpandOpaques
<1>2. OrderInv'
  BY <1>1, OrderInvFrame DEF CompileInv
<1>3. Accepted' /\ Sorted' /\ cycle' = <<>>
  BY <1>1 DEF CompileInv, Accepted, orderVars, Sorted, White, Black, Gray
<1>4. ResolvedInv'
  <2>1. /\ DOMAIN resolved' = Opaques(book.filesets)
        /\ \A n \in Opaques(book.filesets) : resolved'[n] = ExpandOpaque(book.filesets[n])
    BY <1>1
  <2>2. \A n \in Opaques(book.filesets) :
          n \in DOMAIN book.filesets /\ book.filesets[n].kind = "opaque"
    BY DEF Opaques
  <2>3. \A n \in Opaques(book.filesets) : References(book.filesets[n]) = {}
    BY <2>2 DEF References
  <2>4. book' = book
    BY <1>1
  <2>5. \A n \in DOMAIN resolved' : HasMeaning(book.filesets[n], resolved'[n], Claimed', resolved')
    BY <2>1, <2>2 DEF HasMeaning
  <2> QED
    BY <2>1, <2>2, <2>3, <2>4, <2>5 DEF ResolvedInv
<1> QED
  BY <1>1, <1>2, <1>3, <1>4 DEF CompileInv

\* A set that has its meaning keeps it when sets of other names are added.
LEMMA MeaningStays ==
  ASSUME NEW d, NEW set, NEW claimed, NEW s, NEW t,
         HasMeaning(d, set, claimed, s), \A m \in References(d) : s[m] = t[m]
  PROVE  HasMeaning(d, set, claimed, t)
<1>1. Evaluate(d, s) = Evaluate(d, t)
  BY EvaluateAgrees
<1> QED
  BY <1>1 DEF HasMeaning

\* Everything the next name refers to was ordered before it, hence resolved.
LEMMA NextIsReady ==
  ASSUME CompileInv, phase = "resolving", NEW i \in Unresolved, Least(i, Unresolved)
  PROVE  /\ order[i] \in DOMAIN book.filesets /\ order[i] \notin DOMAIN resolved
         /\ References(book.filesets[order[i]]) \subseteq DOMAIN resolved
<1>1. i \in 1..Len(order) /\ order[i] \notin DOMAIN resolved
  BY DEF Unresolved
<1>2. Accepted /\ OrderTypeOK /\ OrderIsTopological
  BY DEF CompileInv, OrderInv
<1>3. order \in Seq(DOMAIN refs) /\ DOMAIN refs = DOMAIN book.filesets
  BY <1>2 DEF Accepted, OrderTypeOK
<1>4. order[i] \in DOMAIN refs
  BY <1>1, <1>3
<1>5. refs[order[i]] = References(book.filesets[order[i]])
  BY <1>2, <1>3, <1>4 DEF Accepted
<1>6. ASSUME NEW m \in refs[order[i]] PROVE m \in DOMAIN resolved
  <2>1. PICK j \in 1..(i - 1) : order[j] = m
    BY <1>1, <1>2 DEF OrderIsTopological
  <2>2. j \in 1..Len(order) /\ ~ i <= j
    BY <1>1, <1>3
  <2>3. j \notin Unresolved
    BY <2>2 DEF Least
  <2> QED
    BY <2>1, <2>2, <2>3 DEF Unresolved
<1> QED
  BY <1>1, <1>3, <1>4, <1>5, <1>6

\* What Resolved computes for a definition that is not opaque.
LEMMA ResolvedHasMeaning ==
  ASSUME NEW d \in Definition, d.kind # "opaque"
  PROVE  HasMeaning(d, Resolved(d), Claimed, resolved)
<1>1. d.kind \in {"glob", "opaque", "compound"}
  BY DEF Definition
<1> QED
  BY <1>1 DEF HasMeaning, Resolved

LEMMA ResolveNextInv ==
  ASSUME CompileInv, ResolveNext
  PROVE  CompileInv'
<1>1. phase = "resolving" /\ phase' = "resolving" /\ UNCHANGED orderVars /\ book' = book
  BY DEF ResolveNext
<1>2. PICK i \in Unresolved :
        /\ Least(i, Unresolved)
        /\ resolved' = [n \in DOMAIN resolved \cup {order[i]} |->
                          IF n = order[i] THEN Resolved(book.filesets[n]) ELSE resolved[n]]
  BY DEF ResolveNext
<1> DEFINE k == order[i]
           d == book.filesets[k]
<1>3. /\ k \in DOMAIN book.filesets /\ k \notin DOMAIN resolved
      /\ References(d) \subseteq DOMAIN resolved
  BY <1>1, <1>2, NextIsReady
<1> HIDE DEF k
<1>4. /\ DOMAIN resolved' = DOMAIN resolved \cup {k}
      /\ resolved'[k] = Resolved(d)
      /\ \A m \in DOMAIN resolved : resolved'[m] = resolved[m]
  BY <1>2, <1>3 DEF k
<1>5. ResolvedInv /\ Accepted /\ Sorted /\ cycle = <<>>
  BY <1>1 DEF CompileInv
<1>6. Sorted' /\ cycle' = <<>> /\ Accepted'
  BY <1>1, <1>5 DEF Accepted, orderVars, Sorted, White, Black, Gray
<1>7. d \in Definition /\ d.kind # "opaque"
  BY <1>3, <1>5, BookFacts DEF Accepted, ResolvedInv, Opaques
<1>8. Claimed' = Claimed
  BY <1>1 DEF Claimed
<1>9. ASSUME NEW n \in DOMAIN resolved'
      PROVE  HasMeaning(book.filesets[n], resolved'[n], Claimed, resolved')
  <2>1. CASE n = k
    <3>1. HasMeaning(d, resolved'[k], Claimed, resolved)
      BY <1>4, <1>7, ResolvedHasMeaning
    <3> QED
      BY <3>1, <2>1, <1>3, <1>4, MeaningStays
  <2>2. CASE n # k
    <3>1. n \in DOMAIN resolved /\ resolved'[n] = resolved[n]
      BY <2>2, <1>4
    <3>2. /\ HasMeaning(book.filesets[n], resolved[n], Claimed, resolved)
          /\ References(book.filesets[n]) \subseteq DOMAIN resolved
      BY <3>1, <1>5 DEF ResolvedInv
    <3> QED
      BY <3>1, <3>2, <1>4, MeaningStays
  <2> QED
    BY <2>1, <2>2
<1>10. ResolvedInv'
  <2>1. \A n \in DOMAIN resolved' : HasMeaning(book'.filesets[n], resolved'[n], Claimed', resolved')
    BY <1>1, <1>8, <1>9
  <2>2. \A n \in DOMAIN resolved' : References(book.filesets[n]) \subseteq DOMAIN resolved'
    BY <1>3, <1>4, <1>5 DEF ResolvedInv
  <2> QED
    BY <2>1, <2>2, <1>1, <1>3, <1>4, <1>5 DEF ResolvedInv
<1>11. OrderInv'
  BY <1>1, OrderInvFrame DEF CompileInv
<1> QED
  BY <1>1, <1>6, <1>10, <1>11 DEF CompileInv

\* The perspective is evaluated when every name is resolved.
LEMMA CompilePerspectiveInv ==
  ASSUME CompileInv, CompilePerspective
  PROVE  CompileInv'
<1>1. /\ phase = "resolving" /\ phase' \in {"compiled", "refused"} /\ Unresolved = {}
      /\ UNCHANGED orderVars /\ book' = book /\ resolved' = resolved
  BY DEF CompilePerspective
<1>2. OrderInv'
  BY <1>1, OrderInvFrame DEF CompileInv
<1>3. Accepted' /\ Sorted' /\ cycle' = <<>> /\ Unresolved' = {}
  BY <1>1 DEF CompileInv, Accepted, orderVars, Sorted, White, Black, Gray, Unresolved
<1>4. ResolvedInv'
  BY <1>1 DEF CompileInv, ResolvedInv, HasMeaning, Claimed
<1> QED
  BY <1>1, <1>2, <1>3, <1>4 DEF CompileInv

LEMMA CompileStepInv ==
  ASSUME CompileInv, Compile
  PROVE  CompileInv'
  BY SortInv, ExpandOpaquesInv, ResolveNextInv, CompilePerspectiveInv DEF Compile

\* The end of a compilation leaves an empty search.
LEMMA ForgetInv ==
  ASSUME Forget
  PROVE  CompileInv'
<1>1. Search(<<>>) /\ phase' = "idle"
  BY DEF Forget
<1>2. OrderInv'
  <2>1. DOMAIN <<>> = {}
    OBVIOUS
  <2>2. <<>> \in [DOMAIN <<>> -> SUBSET DOMAIN <<>>]
    BY <2>1
  <2> QED
    BY <2>1, <2>2, <1>1, SearchInv
<1> QED
  BY <1>1, <1>2 DEF CompileInv

LEMMA CompileInvFrame ==
  ASSUME CompileInv, UNCHANGED compileVars
  PROVE  CompileInv'
<1>1. UNCHANGED orderVars /\ book' = book /\ phase' = phase /\ resolved' = resolved
  BY DEF compileVars
<1>2. OrderInv'
  BY <1>1, OrderInvFrame DEF CompileInv
<1>3. phase \in {"sorting", "resolving", "compiled"} => Accepted'
  BY <1>1 DEF CompileInv, Accepted, orderVars
<1>4. phase \in {"resolving", "compiled"} => Sorted' /\ cycle' = <<>> /\ ResolvedInv'
  BY <1>1 DEF CompileInv, orderVars, Sorted, White, Black, Gray, ResolvedInv, HasMeaning, Claimed
<1>5. phase = "compiled" => Unresolved' = {}
  BY <1>1 DEF CompileInv, orderVars, Unresolved
<1> QED
  BY <1>1, <1>2, <1>3, <1>4, <1>5 DEF CompileInv

-----------------------------------------------------------------------------
(* What the invariant says of a compiled rulebook. *)

\* Nothing is white and nothing on the path, so all that is defined was
\* ordered; and all that was ordered is resolved.
LEMMA AllResolved ==
  ASSUME CompileInv, phase = "compiled"
  PROVE  DOMAIN resolved = DOMAIN book.filesets
<1>1. OrderTypeOK /\ Accepted /\ Sorted /\ ResolvedInv /\ Unresolved = {}
  BY DEF CompileInv, OrderInv
<1>2. DOMAIN refs = DOMAIN book.filesets
  BY <1>1 DEF Accepted
<1>3. DOMAIN refs \subseteq Black
  BY <1>1 DEF Sorted, White, Gray
<1>4. Black \subseteq DOMAIN resolved
  BY <1>1 DEF Black, Unresolved
<1> QED
  BY <1>1, <1>2, <1>3, <1>4 DEF ResolvedInv

LEMMA CompiledMeaning == CompileInv => CompiledIsMeaning
<1> SUFFICES ASSUME CompileInv, phase = "compiled"
             PROVE  /\ DOMAIN resolved = DOMAIN book.filesets
                    /\ \A n \in DOMAIN resolved :
                         LET d == book.filesets[n] IN
                           CASE d.kind = "glob" -> resolved[n] = d.files \ Claimed
                             [] d.kind = "opaque" -> resolved[n] = ExpandOpaque(d)
                             [] d.kind = "compound" -> resolved[n] = Evaluate(d, resolved)
  BY DEF CompiledIsMeaning
<1>1. DOMAIN resolved = DOMAIN book.filesets /\ Accepted /\ ResolvedInv
  BY AllResolved DEF CompileInv
<1>2. \A n \in DOMAIN resolved : HasMeaning(book.filesets[n], resolved[n], Claimed, resolved)
  BY <1>1 DEF ResolvedInv
<1>3. \A n \in DOMAIN resolved : book.filesets[n].kind \in {"glob", "opaque", "compound"}
  BY <1>1, BookFacts DEF Accepted, Definition
<1> QED
  BY <1>1, <1>2, <1>3 DEF HasMeaning

\* Of two opaque directories none contains the other, so a file lies under at
\* most one; globs lost the files under either; an expression hands out what
\* the sets it names hold.
LEMMA OpaqueByReference == CompileInv => OpaqueByReferenceOnly
<1> SUFFICES ASSUME CompileInv, phase = "compiled",
                    NEW n \in Opaques(book.filesets), NEW m \in DOMAIN resolved,
                    NEW f \in resolved[n] \cap resolved[m], m # n
             PROVE  \E k \in References(book.filesets[m]) : f \in resolved[k]
  BY DEF OpaqueByReferenceOnly
<1> DEFINE d == book.filesets[n]
           e == book.filesets[m]
<1>1. DOMAIN resolved = DOMAIN book.filesets /\ Accepted /\ ResolvedInv
  BY AllResolved DEF CompileInv
<1>2. n \in DOMAIN resolved /\ d.kind = "opaque"
  BY <1>1 DEF Opaques
<1>3. d \in Definition /\ e \in Definition
  BY <1>1, <1>2, BookFacts DEF Accepted
<1>4. /\ HasMeaning(d, resolved[n], Claimed, resolved)
      /\ HasMeaning(e, resolved[m], Claimed, resolved)
  BY <1>1, <1>2 DEF ResolvedInv
<1> HIDE DEF d, e
<1>5. f \in ExpandOpaque(d)
  BY <1>2, <1>4 DEF HasMeaning
<1>6. CASE e.kind = "glob"
  <2>1. f \in Claimed
    BY <1>5 DEF Claimed, d
  <2> QED
    BY <2>1, <1>4, <1>6 DEF HasMeaning
<1>7. CASE e.kind = "opaque"
  <2>1. f \in ExpandOpaque(e)
    BY <1>4, <1>7 DEF HasMeaning
  <2>2. f \in Seq(Segment) /\ d.dir \in Seq(Segment) /\ e.dir \in Seq(Segment)
    BY <1>3, <1>5, BookAssumption DEF ExpandOpaque, Definition
  <2>3. IsPrefix(d.dir, f) /\ IsPrefix(e.dir, f)
    BY <2>1, <1>5 DEF ExpandOpaque, IsStrictPrefix
  <2>4. IsPrefix(d.dir, e.dir) \/ IsPrefix(e.dir, d.dir)
    BY <2>2, <2>3, PrefixesCompare
  <2>5. m \in Opaques(book.filesets)
    BY <1>1, <1>7 DEF Opaques, e
  <2> QED
    BY <2>4, <2>5, <1>1 DEF Accepted, Overlapping, d, e
<1>8. CASE e.kind = "compound"
  <2>1. f \in Evaluate(e, resolved)
    BY <1>4, <1>8 DEF HasMeaning
  <2> QED
    BY <2>1, <1>3, <1>8, EvaluateWithin DEF e
<1> QED
  BY <1>3, <1>6, <1>7, <1>8 DEF Definition

-----------------------------------------------------------------------------
(* The gate of a merge. *)

\* The checks of r are the first k of a pipeline, but for the skips.
RanSet(pipe, k, skipped, r) ==
  \A c : (\E i \in 1..Len(r) : r[i] = c) <=> c \notin skipped /\ \E a \in 1..k : pipe[a] = c

\* They ran in the order of the pipeline.
RanInOrder(pipe, k, r) ==
  \A i, j \in 1..Len(r) : i < j => \E a, b \in 1..k : a < b /\ r[i] = pipe[a] /\ r[j] = pipe[b]

\* What has run is the pipeline up to the next check without the skips, in its
\* order; the skips were allowed by the table that is being run.
GateInv ==
  /\ gate.pipeline \in Seq(Check) /\ position \in Nat /\ skips \subseteq Check
  /\ position > 0 =>
       /\ ChecksCompile(gate) /\ skips \subseteq gate.skippable
       /\ position <= Len(gate.pipeline) + 1 /\ ran \in Seq(Check)
       /\ RanSet(gate.pipeline, position - 1, skips, ran)
       /\ RanInOrder(gate.pipeline, position - 1, ran)

LEMMA BeginChecksInv ==
  ASSUME GateInv, NEW s \in SUBSET Check, BeginChecks(s)
  PROVE  GateInv'
<1>1. /\ ChecksCompile(gate) /\ s \subseteq gate.skippable
      /\ skips' = s /\ position' = 1 /\ ran' = <<>> /\ gate' = gate
  BY DEF BeginChecks, SkipsAccepted
<1>2. ChecksCompile(gate')
  BY <1>1
<1>3. Len(gate.pipeline) \in Nat /\ gate.pipeline \in Seq(Check)
  BY DEF GateInv
<1>4. RanSet(gate.pipeline, 0, s, <<>>) /\ RanInOrder(gate.pipeline, 0, <<>>)
  BY DEF RanSet, RanInOrder
<1> QED
  BY <1>1, <1>2, <1>3, <1>4 DEF GateInv

LEMMA SkipCheckInv ==
  ASSUME GateInv, SkipCheck
  PROVE  GateInv'
<1> DEFINE pipe == gate.pipeline
<1>1. /\ position \in 1..Len(pipe) /\ pipe[position] \in skips
      /\ position' = position + 1 /\ gate' = gate /\ skips' = skips /\ ran' = ran
  BY DEF SkipCheck
<1>2. /\ pipe \in Seq(Check) /\ position \in Nat /\ skips \subseteq Check /\ Len(pipe) \in Nat
      /\ ChecksCompile(gate) /\ skips \subseteq gate.skippable /\ ran \in Seq(Check)
  BY <1>1 DEF GateInv
<1>3. \A a : a \in 1..position <=> a \in 1..(position - 1) \/ a = position
  BY <1>2, <1>1
<1>4. RanSet(pipe, position, skips, ran)
  <2>1. RanSet(pipe, position - 1, skips, ran)
    BY <1>1 DEF GateInv
  <2> QED
    BY <2>1, <1>1, <1>3 DEF RanSet
<1>5. RanInOrder(pipe, position, ran)
  <2>1. RanInOrder(pipe, position - 1, ran)
    BY <1>1 DEF GateInv
  <2> QED
    BY <2>1, <1>3 DEF RanInOrder
<1>6. position' - 1 = position /\ position' <= Len(pipe) + 1 /\ position' \in Nat
  BY <1>1, <1>2
<1>7. ChecksCompile(gate')
  BY <1>1, <1>2
<1> QED
  BY <1>1, <1>2, <1>4, <1>5, <1>6, <1>7 DEF GateInv

\* The check that ran comes after all that ran before it.
LEMMA RunCheckInv ==
  ASSUME GateInv, position \in 1..Len(gate.pipeline), gate.pipeline[position] \notin skips,
         ran' = Append(ran, gate.pipeline[position]), position' = position + 1,
         skips' = skips, gate' = gate
  PROVE  GateInv'
<1> DEFINE pipe == gate.pipeline
           n == Len(ran)
<1>1. /\ pipe \in Seq(Check) /\ position \in Nat /\ skips \subseteq Check /\ Len(pipe) \in Nat
      /\ ChecksCompile(gate) /\ skips \subseteq gate.skippable /\ ran \in Seq(Check) /\ n \in Nat
  BY DEF GateInv
<1>2. \A a : a \in 1..position <=> a \in 1..(position - 1) \/ a = position
  BY <1>1
<1>3. pipe[position] \in Check
  BY <1>1
<1>4. /\ ran' \in Seq(Check) /\ Len(ran') = n + 1 /\ ran'[n + 1] = pipe[position]
      /\ \A i \in 1..n : ran'[i] = ran[i]
  BY <1>1, <1>3
<1>5. \A i : i \in 1..(n + 1) <=> i \in 1..n \/ i = n + 1
  BY <1>1
<1>6. RanSet(pipe, position - 1, skips, ran) /\ RanInOrder(pipe, position - 1, ran)
  BY DEF GateInv
<1>7. RanSet(pipe, position, skips, ran')
  <2> SUFFICES ASSUME NEW c
               PROVE  (\E i \in 1..(n + 1) : ran'[i] = c) <=>
                      c \notin skips /\ \E a \in 1..position : pipe[a] = c
    BY <1>4 DEF RanSet
  <2>1. (\E i \in 1..(n + 1) : ran'[i] = c) <=> (\E i \in 1..n : ran[i] = c) \/ pipe[position] = c
    BY <1>4, <1>5
  <2>2. (\E a \in 1..position : pipe[a] = c)
          <=> (\E a \in 1..(position - 1) : pipe[a] = c) \/ pipe[position] = c
    BY <1>2
  <2> QED
    BY <2>1, <2>2, <1>6 DEF RanSet
<1>8. RanInOrder(pipe, position, ran')
  <2>0. Len(ran') = n + 1
    BY <1>4
  <2> SUFFICES ASSUME NEW i \in 1..Len(ran'), NEW j \in 1..Len(ran'), i < j
               PROVE  \E a, b \in 1..position : a < b /\ ran'[i] = pipe[a] /\ ran'[j] = pipe[b]
    BY DEF RanInOrder
  <2>1. i \in 1..n
    BY <2>0, <1>1
  <2>2. CASE j = n + 1
    <3>1. PICK a \in 1..(position - 1) : pipe[a] = ran[i]
      BY <2>1, <1>6 DEF RanSet
    <3>2. a \in 1..position /\ a < position /\ position \in 1..position
      BY <3>1, <1>1
    <3> QED
      BY <3>1, <3>2, <2>1, <2>2, <1>4
  <2>3. CASE j # n + 1
    <3>1. j \in 1..n
      BY <2>0, <2>3, <1>5
    <3>2. \E a, b \in 1..(position - 1) : a < b /\ ran[i] = pipe[a] /\ ran[j] = pipe[b]
      BY <2>1, <3>1, <1>6 DEF RanInOrder
    <3> QED
      BY <3>1, <3>2, <2>1, <1>2, <1>4
  <2> QED
    BY <2>2, <2>3
<1>9. position' - 1 = position /\ position' <= Len(pipe) + 1 /\ position' \in Nat
  BY <1>1
<1>10. ChecksCompile(gate')
  BY <1>1
<1> QED
  BY <1>1, <1>4, <1>7, <1>8, <1>9, <1>10 DEF GateInv

\* Outside of a merge only the table matters.
LEMMA NoChecksInv ==
  ASSUME position' = 0, skips' \subseteq Check, gate'.pipeline \in Seq(Check)
  PROVE  GateInv'
  BY DEF GateInv

LEMMA ChecksInv ==
  ASSUME GateInv, Checks
  PROVE  GateInv'
<1>1. CASE RunCheck
  <2>1. CASE EndChecks
    <3>1. position' = 0 /\ skips' = {} /\ gate' = gate
      BY <1>1, <2>1 DEF RunCheck, EndChecks
    <3> QED
      BY <3>1, NoChecksInv DEF GateInv
  <2>2. CASE ~ EndChecks
    <3>1. /\ position \in 1..Len(gate.pipeline) /\ gate.pipeline[position] \notin skips
          /\ ran' = Append(ran, gate.pipeline[position]) /\ position' = position + 1
          /\ skips' = skips /\ gate' = gate
      BY <1>1, <2>2 DEF RunCheck
    <3> QED
      BY <3>1, RunCheckInv
  <2> QED
    BY <2>1, <2>2
<1> QED
  BY <1>1, SkipCheckInv DEF Checks

LEMMA GateInvFrame ==
  ASSUME GateInv, UNCHANGED gateVars
  PROVE  GateInv'
<1>1. gate' = gate /\ position' = position /\ skips' = skips /\ ran' = ran
  BY DEF gateVars
<1>2. ChecksCompile(gate') <=> ChecksCompile(gate)
  BY <1>1
<1> QED
  BY <1>1, <1>2 DEF GateInv

\* At the end of the pipeline what ran and what was skipped is all of it.
LEMMA GateComplete == GateInv => GateIsComplete
<1> SUFFICES ASSUME GateInv, ChecksPassed
             PROVE  /\ Declared(gate) = ToSet(ran) \cup skips /\ skips \subseteq gate.skippable
                    /\ ToSet(ran) \cap skips = {}
                    /\ \A i, j \in 1..Len(ran) : i < j =>
                         \E a, b \in 1..Len(gate.pipeline) :
                           a < b /\ ran[i] = gate.pipeline[a] /\ ran[j] = gate.pipeline[b]
  BY DEF GateIsComplete
<1> DEFINE pipe == gate.pipeline
<1>1. /\ position > 0 /\ pipe \in Seq(Check) /\ position - 1 = Len(pipe)
      /\ ChecksCompile(gate) /\ skips \subseteq gate.skippable /\ ran \in Seq(Check)
  BY DEF GateInv, ChecksPassed
<1>2. RanSet(pipe, Len(pipe), skips, ran) /\ RanInOrder(pipe, Len(pipe), ran)
  BY <1>1 DEF GateInv
<1>3. DOMAIN ran = 1..Len(ran) /\ DOMAIN pipe = 1..Len(pipe)
  BY <1>1
<1>4. Declared(gate) = ToSet(pipe) /\ skips \subseteq Declared(gate)
  BY <1>1 DEF ChecksCompile, Decodes
<1>5. \A c : c \in ToSet(pipe) <=> \E a \in 1..Len(pipe) : pipe[a] = c
  BY <1>3 DEF ToSet
<1>6. \A c : c \in ToSet(ran) <=> \E i \in 1..Len(ran) : ran[i] = c
  BY <1>3 DEF ToSet
<1>7. \A c \in ToSet(ran) \cup ToSet(pipe) \cup skips :
        /\ c \in Declared(gate) <=> c \in ToSet(ran) \/ c \in skips
        /\ ~ (c \in ToSet(ran) /\ c \in skips)
  BY <1>2, <1>4, <1>5, <1>6 DEF RanSet
<1>8. Declared(gate) = ToSet(ran) \cup skips /\ ToSet(ran) \cap skips = {}
  BY <1>4, <1>7
<1> QED
  BY <1>1, <1>2, <1>8 DEF RanInOrder

-----------------------------------------------------------------------------
(* The calls: which one may be in progress when. *)

\* A rulebook is compiled for a list or a create, and checks run for a merge.
CallInv ==
  /\ phase # "idle" => call \in {"list", "create"}
  /\ position > 0 => call = "merge"

\* What a step does to the compilation.
LEMMA CompileSteps ==
  ASSUME Next
  PROVE  \/ \E b \in Book : StartCompile(b) /\ Idle /\ call' \in {"list", "create"}
         \/ Compile /\ call' = call
         \/ Forget
         \/ UNCHANGED compileVars
<1>1. CASE ListPerspectives
  BY <1>1 DEF ListPerspectives, BeginCall
<1>2. CASE CreateWorker
  BY <1>2 DEF CreateWorker, BeginCall
<1>3. CASE CompileStep
  BY <1>3 DEF CompileStep
<1>4. CASE EndCompile \/ RefuseWorktree \/ AddWorktree
  BY <1>4 DEF EndCompile, RefuseWorktree, AddWorktree
<1>5. CASE InitCommand \/ StartServer \/ SetWorkingDirectory \/ RejectArguments \/ AnswerFailed \/ ToolInit
  BY <1>5 DEF InitCommand, StartServer, SetWorkingDirectory, RejectArguments, AnswerFailed, ToolInit
<1>6. CASE RefuseCall \/ RefuseMerge \/ ReadState \/ ReadResource \/ RemoveWorktree \/ LocalCommand
  BY <1>6 DEF RefuseCall, RefuseMerge, ReadState, ReadResource, RemoveWorktree, LocalCommand
<1>7. CASE WorkerCall \/ StrayContract \/ PrepareWorkerRuntime \/ AbandonCreate \/ EndMerge
  BY <1>7 DEF WorkerCall, StrayContract, PrepareWorkerRuntime, AbandonCreate, EndMerge
<1>8. CASE MergeWorker
  BY <1>8 DEF MergeWorker, BeginChecks
<1>9. CASE CheckStep
  BY <1>9 DEF CheckStep, Checks, SkipCheck, RunCheck
<1> QED
  BY <1>1, <1>2, <1>3, <1>4, <1>5, <1>6, <1>7, <1>8, <1>9 DEF Next, Running

LEMMA CompileInvStep ==
  ASSUME CompileInv, [Next]_vars
  PROVE  CompileInv'
<1>1. CASE UNCHANGED vars
  BY <1>1, CompileInvFrame DEF vars
<1>2. CASE Next
  BY <1>2, CompileSteps, StartCompileInv, CompileStepInv, ForgetInv, CompileInvFrame
<1> QED
  BY <1>1, <1>2

\* What a step does to the gate: outside of a merge only its table changes, and
\* only while no call runs checks.
LEMMA GateSteps ==
  ASSUME Next
  PROVE  \/ Idle /\ call' = "merge" /\ \E s \in SUBSET Check : BeginChecks(s)
         \/ CheckStep
         \/ EndMerge
         \/ RemoveWorktree
         \/ AddWorktree
         \/ UNCHANGED gateVars
<1>1. CASE ListPerspectives \/ CreateWorker \/ CompileStep
  BY <1>1 DEF ListPerspectives, CreateWorker, CompileStep, StartCompile, Compile, Sort,
              ExpandOpaques, ResolveNext, CompilePerspective
<1>2. CASE InitCommand \/ StartServer \/ SetWorkingDirectory \/ RejectArguments \/ AnswerFailed \/ ToolInit
  BY <1>2 DEF InitCommand, StartServer, SetWorkingDirectory, RejectArguments, AnswerFailed, ToolInit
<1>3. CASE RefuseCall \/ RefuseMerge \/ ReadState \/ ReadResource \/ LocalCommand
  BY <1>3 DEF RefuseCall, RefuseMerge, ReadState, ReadResource, LocalCommand
<1>4. CASE WorkerCall \/ StrayContract \/ PrepareWorkerRuntime \/ AbandonCreate \/ EndCompile \/ RefuseWorktree
  BY <1>4 DEF WorkerCall, StrayContract, PrepareWorkerRuntime, AbandonCreate, EndCompile, RefuseWorktree
<1>5. CASE MergeWorker
  BY <1>5 DEF MergeWorker, BeginCall
<1> QED
  BY <1>1, <1>2, <1>3, <1>4, <1>5 DEF Next, Running

LEMMA GateInvStep ==
  ASSUME GateInv, CallInv, [Next]_vars
  PROVE  GateInv'
<1>1. CASE UNCHANGED vars
  BY <1>1, GateInvFrame DEF vars
<1>2. CASE \E s \in SUBSET Check : BeginChecks(s)
  BY <1>2, BeginChecksInv
<1>3. CASE CheckStep
  BY <1>3, ChecksInv DEF CheckStep
<1>4. CASE EndMerge
  <2>1. position' = 0 /\ skips' = {} /\ gate'.pipeline = <<>>
    BY <1>4 DEF EndMerge, EndChecks, NoGate
  <2> QED
    BY <2>1, NoChecksInv
<1>5. CASE RemoveWorktree
  <2>1. position' = position /\ skips' = skips /\ gate'.pipeline = <<>> /\ call = "none"
    BY <1>5 DEF RemoveWorktree, NoGate, Idle
  <2>2. position = 0
    BY <2>1 DEF CallInv, GateInv
  <2> QED
    BY <2>1, <2>2, NoChecksInv DEF GateInv
<1>6. CASE AddWorktree
  <2>1. position' = position /\ skips' = skips /\ gate' \in Gate /\ call = "create"
    BY <1>6 DEF AddWorktree
  <2>2. position = 0
    BY <2>1 DEF CallInv, GateInv
  <2> QED
    BY <2>1, <2>2, NoChecksInv, BookAssumption DEF GateInv
<1>7. CASE UNCHANGED gateVars
  BY <1>7, GateInvFrame
<1> QED
  BY <1>1, <1>2, <1>3, <1>4, <1>5, <1>6, <1>7, GateSteps

\* A call begins and ends what is done for it.
LEMMA CallInvStep ==
  ASSUME CallInv, GateInv, [Next]_vars
  PROVE  CallInv'
<1>1. position \in Nat
  BY DEF GateInv
<1>2. CASE UNCHANGED vars
  BY <1>2 DEF vars, compileVars, gateVars, CallInv
<1>3. CASE ListPerspectives \/ CreateWorker
  <2>1. call' \in {"list", "create"} /\ position' = position /\ call = "none"
    BY <1>3 DEF ListPerspectives, CreateWorker, BeginCall, StartCompile, gateVars, Idle
  <2> QED
    BY <2>1 DEF CallInv
<1>4. CASE CompileStep
  <2>1. call \in {"list", "create"} /\ call' = call /\ position' = position
    BY <1>4 DEF CompileStep, Compile, Sort, ExpandOpaques, ResolveNext, CompilePerspective, gateVars
  <2> QED
    BY <2>1 DEF CallInv
<1>5. CASE EndCompile \/ RefuseWorktree \/ AddWorktree
  <2>1. phase # "idle" /\ phase' = "idle" /\ position' = position
    BY <1>5 DEF EndCompile, RefuseWorktree, AddWorktree, Forget, gateVars
  <2> QED
    BY <2>1 DEF CallInv
<1>6. CASE MergeWorker
  <2>1. call = "none" /\ call' = "merge" /\ phase' = phase
    BY <1>6 DEF MergeWorker, BeginChecks, BeginCall, compileVars, Idle
  <2> QED
    BY <2>1 DEF CallInv
<1>7. CASE CheckStep
  <2>1. /\ call = "merge" /\ phase' = phase
        /\ IF position' = 0 THEN TRUE ELSE call' = call
    BY <1>7 DEF CheckStep, Checks, SkipCheck, RunCheck, compileVars
  <2> QED
    BY <2>1 DEF CallInv
<1>8. CASE EndMerge
  <2>1. call = "merge" /\ phase' = phase /\ position' = 0
    BY <1>8 DEF EndMerge, EndChecks, compileVars
  <2> QED
    BY <2>1 DEF CallInv
<1>9. CASE PrepareWorkerRuntime \/ AbandonCreate
  <2>1. call = "prepare" /\ phase' = phase /\ position' = position
    BY <1>9 DEF PrepareWorkerRuntime, AbandonCreate, compileVars, gateVars
  <2> QED
    BY <2>1 DEF CallInv
<1>10. CASE call = "none" /\ phase' = phase /\ position' = position
  BY <1>10 DEF CallInv
<1>11. CASE InitCommand \/ StartServer \/ SetWorkingDirectory \/ RejectArguments \/ AnswerFailed \/ ToolInit
  BY <1>10, <1>11 DEF InitCommand, StartServer, SetWorkingDirectory, RejectArguments, AnswerFailed,
                     ToolInit, Serves, Idle, compileVars, gateVars
<1>12. CASE RefuseCall \/ RefuseMerge \/ ReadState \/ ReadResource \/ RemoveWorktree \/ LocalCommand
  BY <1>10, <1>12 DEF RefuseCall, RefuseMerge, ReadState, ReadResource, RemoveWorktree, LocalCommand,
                     Idle, compileVars, gateVars
<1>13. CASE WorkerCall \/ StrayContract
  BY <1>10, <1>13 DEF WorkerCall, StrayContract, Serves, Idle, compileVars, gateVars
<1> QED
  BY <1>2, <1>3, <1>4, <1>5, <1>6, <1>7, <1>8, <1>9, <1>11, <1>12, <1>13 DEF Next, Running

-----------------------------------------------------------------------------
(* Roles, servers and what is under .multorum. *)

\* A server that serves an orchestrator from elsewhere than the workspace was
\* rebound: it did not look at the markers when it was started there.
SessionInv ==
  /\ disk \in [Place -> SUBSET {"rulebook", "contract", "state"}] /\ linked \subseteq Place
  /\ server \in [mode : Mode, binding : {"off", "ready", "failed"}, at : Place,
                 code : ErrorCode \cup {"ok"}]
  /\ rebound \in BOOLEAN
  /\ call \in {"none", "list", "create", "prepare", "merge"}
  /\ reply \in ErrorCode \cup {"none", "ok"}
  /\ server.binding = "ready" /\ server.mode = "orchestrator" /\ ~ rebound
       => server.at = "workspace"

\* A directory whose repository is a worktree never has an orchestrator's role.
LEMMA RoleFacts ==
  ASSUME linked \subseteq Place, NEW p \in Place
  PROVE  /\ RepositoryRoot(p) \in Place
         /\ Role(p) \in Mode \cup {"missing_worker_runtime", "invalid_state"}
         /\ Role(p) = "orchestrator" => RepositoryRoot(p) = "workspace"
         /\ \A mode \in Mode : RequireRole(mode, p) \in ErrorCode \cup {"ok"}
<1>1. RepositoryRoot(p) \in Place
  BY DEF RepositoryRoot, Place
<1>2. /\ Role(p) \in Mode \cup {"missing_worker_runtime", "invalid_state"}
      /\ Role(p) = "orchestrator" => ~ InLayout(RepositoryRoot(p))
  BY DEF Role, Mode
<1>3. \A mode \in Mode : RequireRole(mode, p) \in ErrorCode \cup {"ok"}
  BY <1>2 DEF RequireRole, ErrorCode
<1> QED
  BY <1>1, <1>2, <1>3 DEF InLayout, Place

\* Initialising a place changes its own directory only.
LEMMA InitializeKeeps ==
  ASSUME SessionInv, NEW p \in Place, Initialize(p), NEW code \in ErrorCode \cup {"none", "ok"},
         Answer(code)
  PROVE  /\ SessionInv'
         /\ p = "workspace" => disk'["worktree"] = disk["worktree"]
<1>1. /\ disk' = [disk EXCEPT ![p] = @ \cup {"rulebook", "state"}]
      /\ linked' = linked /\ server' = server /\ rebound' = rebound
      /\ call' = "none" /\ reply' = code
  BY DEF Initialize, Answer
<1>2. disk \in [Place -> SUBSET {"rulebook", "contract", "state"}]
  BY DEF SessionInv
<1>3. disk' \in [Place -> SUBSET {"rulebook", "contract", "state"}]
  BY <1>1, <1>2
<1>4. p = "workspace" => disk'["worktree"] = disk["worktree"]
  BY <1>1, <1>2 DEF Place
<1> QED
  BY <1>1, <1>3, <1>4 DEF SessionInv

\* The control plane appears in a worktree only by a server that was rebound.
NoStateInWorktree ==
  "state" \in disk'["worktree"] /\ "state" \notin disk["worktree"] => rebound

LEMMA InitCommandStep ==
  ASSUME SessionInv, InitCommand
  PROVE  SessionInv' /\ NoStateInWorktree
<1>1. PICK p \in Place : Initialize(IF InLayout(RepositoryRoot(p)) THEN "workspace" ELSE RepositoryRoot(p))
  BY DEF InitCommand
<1>2. RepositoryRoot(p) \in Place
  BY RoleFacts DEF SessionInv
<1>3. Initialize("workspace")
  BY <1>1, <1>2 DEF InLayout, Place
<1>4. "workspace" \in Place /\ "ok" \in ErrorCode \cup {"none", "ok"} /\ Answer("ok")
  BY DEF InitCommand, Place
<1> QED
  BY <1>3, <1>4, InitializeKeeps DEF NoStateInWorktree

LEMMA ToolInitStep ==
  ASSUME SessionInv, ToolInit
  PROVE  SessionInv' /\ NoStateInWorktree
<1>1. /\ server.mode = "orchestrator" /\ server.binding = "ready"
      /\ Initialize(server.at) /\ Answer("ok")
  BY DEF ToolInit, Serves
<1>2. server.at \in Place /\ "ok" \in ErrorCode \cup {"none", "ok"}
  BY DEF SessionInv
<1>3. SessionInv' /\ (server.at = "workspace" => disk'["worktree"] = disk["worktree"])
  BY <1>1, <1>2, InitializeKeeps
<1>4. ~ rebound => server.at = "workspace"
  BY <1>1 DEF SessionInv
<1> QED
  BY <1>3, <1>4 DEF NoStateInWorktree

LEMMA StartServerStep ==
  ASSUME SessionInv, StartServer
  PROVE  SessionInv' /\ NoStateInWorktree
<1>1. PICK mode \in Mode, p \in Place :
        server' = IF Role(p) = mode THEN Ready(mode, RepositoryRoot(p))
                  ELSE Failed(mode, RequireRole(mode, p))
  BY DEF StartServer
<1>2. rebound' = FALSE /\ UNCHANGED <<disk, linked, call, reply>>
  BY DEF StartServer
<1>3. /\ RepositoryRoot(p) \in Place /\ RequireRole(mode, p) \in ErrorCode \cup {"ok"}
      /\ Role(p) = "orchestrator" => RepositoryRoot(p) = "workspace"
  BY RoleFacts DEF SessionInv
<1>4. CASE Role(p) = mode
  <2>1. server' = [mode |-> mode, binding |-> "ready", at |-> RepositoryRoot(p), code |-> "ok"]
    BY <1>1, <1>4 DEF Ready
  <2>2. mode = "orchestrator" => RepositoryRoot(p) = "workspace"
    BY <1>3, <1>4
  <2> QED
    BY <2>1, <2>2, <1>2, <1>3 DEF SessionInv, NoStateInWorktree
<1>5. CASE Role(p) # mode
  <2>1. server' = [mode |-> mode, binding |-> "failed", at |-> "workspace", code |-> RequireRole(mode, p)]
    BY <1>1, <1>5 DEF Failed
  <2> QED
    BY <2>1, <1>2, <1>3 DEF SessionInv, NoStateInWorktree, Place
<1> QED
  BY <1>4, <1>5

LEMMA SetWorkingDirectoryStep ==
  ASSUME SessionInv, SetWorkingDirectory
  PROVE  SessionInv' /\ NoStateInWorktree
<1>1. /\ rebound' = TRUE /\ UNCHANGED <<disk, linked>>
      /\ \E p \in Place, code \in {"internal", "missing_worker_runtime", "ok"} :
           /\ server' = IF code = "ok" THEN Ready(server.mode, p) ELSE Failed(server.mode, code)
           /\ Answer(code)
  BY DEF SetWorkingDirectory
<1>2. PICK p \in Place, code \in {"internal", "missing_worker_runtime", "ok"} :
        /\ server' = IF code = "ok" THEN Ready(server.mode, p) ELSE Failed(server.mode, code)
        /\ Answer(code)
  BY <1>1
<1>3. server.mode \in Mode /\ code \in ErrorCode \cup {"ok"} /\ "workspace" \in Place
  BY DEF SessionInv, ErrorCode, Place
<1>4. server' \in [mode : Mode, binding : {"off", "ready", "failed"}, at : Place,
                   code : ErrorCode \cup {"ok"}]
  BY <1>2, <1>3 DEF Ready, Failed
<1> QED
  BY <1>1, <1>2, <1>3, <1>4 DEF SessionInv, NoStateInWorktree, Answer

\* The steps that write under the worktree write its rulebook and contract.
LEMMA WorktreeStep ==
  ASSUME SessionInv, AddWorktree \/ PrepareWorkerRuntime \/ RemoveWorktree \/ StrayContract
  PROVE  SessionInv' /\ NoStateInWorktree
<1>1. disk \in [Place -> SUBSET {"rulebook", "contract", "state"}] /\ linked \subseteq Place
  BY DEF SessionInv
<1>2. CASE AddWorktree
  <2>1. PICK g \in Gate : disk' = [disk EXCEPT !["worktree"] = IF g.committed THEN {"rulebook"} ELSE {}]
    BY <1>2 DEF AddWorktree
  <2>2. "worktree" \in Place /\ linked' = linked \cup {"worktree"}
    BY <1>2 DEF AddWorktree, Place
  <2>3. /\ disk' \in [Place -> SUBSET {"rulebook", "contract", "state"}]
        /\ disk'["worktree"] \subseteq {"rulebook"}
    BY <2>1, <2>2, <1>1
  <2>4. server' = server /\ rebound' = rebound /\ reply' = reply /\ call' = "prepare"
    BY <1>2 DEF AddWorktree
  <2> QED
    BY <2>2, <2>3, <2>4 DEF SessionInv, NoStateInWorktree
<1>3. CASE PrepareWorkerRuntime
  <2>1. /\ disk' = [disk EXCEPT !["worktree"] = @ \cup {"contract"}] /\ linked' = linked
        /\ server' = server /\ rebound' = rebound /\ reply' = "ok" /\ call' = "none"
    BY <1>3 DEF PrepareWorkerRuntime, Answer
  <2>2. /\ disk' \in [Place -> SUBSET {"rulebook", "contract", "state"}]
        /\ disk'["worktree"] = disk["worktree"] \cup {"contract"}
    BY <2>1, <1>1 DEF Place
  <2> QED
    BY <2>1, <2>2 DEF SessionInv, NoStateInWorktree
<1>4. CASE RemoveWorktree
  <2>1. /\ disk' = [disk EXCEPT !["worktree"] = {}] /\ linked' \subseteq linked
        /\ server' = server /\ rebound' = rebound /\ reply' = "ok" /\ call' = "none"
    BY <1>4 DEF RemoveWorktree, Answer
  <2>2. /\ disk' \in [Place -> SUBSET {"rulebook", "contract", "state"}]
        /\ disk'["worktree"] = {}
    BY <2>1, <1>1 DEF Place
  <2> QED
    BY <2>1, <2>2 DEF SessionInv, NoStateInWorktree
<1>5. CASE StrayContract
  <2>1. /\ disk' = [disk EXCEPT !["workspace"] =
                      IF "contract" \in @ THEN @ \ {"contract"} ELSE @ \cup {"contract"}]
        /\ UNCHANGED <<linked, server, rebound, call, reply>>
    BY <1>5 DEF StrayContract
  <2>2. /\ disk' \in [Place -> SUBSET {"rulebook", "contract", "state"}]
        /\ disk'["worktree"] = disk["worktree"]
    BY <2>1, <1>1 DEF Place
  <2> QED
    BY <2>1, <2>2 DEF SessionInv, NoStateInWorktree
<1> QED
  BY <1>2, <1>3, <1>4, <1>5

\* The other steps leave the session alone, and answer or go on.
LEMMA OtherSteps ==
  ASSUME SessionInv, Next,
         ~ (InitCommand \/ ToolInit \/ StartServer \/ SetWorkingDirectory),
         ~ (AddWorktree \/ PrepareWorkerRuntime \/ RemoveWorktree \/ StrayContract)
  PROVE  /\ UNCHANGED sessionVars
         /\ call' \in {"none", "list", "create", "prepare", "merge"}
         /\ reply' \in ErrorCode \cup {"none", "ok"}
<1>1. server.code \in ErrorCode \cup {"ok"} /\ linked \subseteq Place
  BY DEF SessionInv
<1>2. /\ call \in {"none", "list", "create", "prepare", "merge"}
      /\ reply \in ErrorCode \cup {"none", "ok"}
  BY DEF SessionInv
<1>3. {"invalid_params", "invalid_state", "missing_worker_runtime", "unknown_worker",
       "check_failed", "internal"} = ErrorCode
  BY DEF ErrorCode
<1>4. CASE RejectArguments \/ AnswerFailed
  BY <1>1, <1>3, <1>4 DEF RejectArguments, AnswerFailed, Answer
<1>5. CASE ListPerspectives \/ CreateWorker \/ MergeWorker
  BY <1>5 DEF ListPerspectives, CreateWorker, MergeWorker, BeginCall
<1>6. CASE RefuseCall
  BY <1>3, <1>6 DEF RefuseCall, Answer
<1>7. CASE RefuseMerge
  BY <1>3, <1>7 DEF RefuseMerge, Answer
<1>8. CASE ReadState
  BY <1>3, <1>8 DEF ReadState, Answer
<1>9. CASE ReadResource
  BY <1>1, <1>3, <1>9 DEF ReadResource, Answer, Unprepared
<1>10. CASE LocalCommand
  <2>1. PICK p \in Place : Answer(RequireRole("worker", p))
    BY <1>10 DEF LocalCommand
  <2>2. RequireRole("worker", p) \in ErrorCode \cup {"ok"}
    BY <1>1, RoleFacts DEF Mode
  <2> QED
    BY <2>1, <2>2, <1>10 DEF LocalCommand, Answer
<1>11. CASE WorkerCall
  BY <1>3, <1>11 DEF WorkerCall, Answer
<1>12. CASE CompileStep
  BY <1>2, <1>12 DEF CompileStep
<1>13. CASE EndCompile \/ RefuseWorktree
  BY <1>3, <1>13 DEF EndCompile, RefuseWorktree, Answer
<1>14. CASE AbandonCreate \/ EndMerge
  BY <1>14 DEF AbandonCreate, EndMerge, Answer
<1>15. CASE CheckStep
  <2>1. UNCHANGED sessionVars /\ (Answer("check_failed") \/ UNCHANGED <<call, reply>>)
    BY <1>15 DEF CheckStep
  <2> QED
    BY <2>1, <1>2, <1>3 DEF Answer
<1> QED
  BY <1>4, <1>5, <1>6, <1>7, <1>8, <1>9, <1>10, <1>11, <1>12, <1>13, <1>14, <1>15 DEF Next, Running

LEMMA SessionStep ==
  ASSUME SessionInv, [Next]_vars
  PROVE  SessionInv' /\ NoStateInWorktree
<1>1. CASE UNCHANGED sessionVars /\ call' \in {"none", "list", "create", "prepare", "merge"}
             /\ reply' \in ErrorCode \cup {"none", "ok"}
  BY <1>1 DEF SessionInv, sessionVars, NoStateInWorktree
<1>2. CASE UNCHANGED vars
  <2>1. UNCHANGED sessionVars /\ call' = call /\ reply' = reply
    BY <1>2 DEF vars
  <2> QED
    BY <2>1, <1>1 DEF SessionInv
<1>3. CASE Next
  BY <1>1, <1>3, InitCommandStep, ToolInitStep, StartServerStep, SetWorkingDirectoryStep,
     WorktreeStep, OtherSteps
<1> QED
  BY <1>2, <1>3

-----------------------------------------------------------------------------
(* The theorems. *)

ProjectInv == CompileInv /\ GateInv /\ CallInv /\ SessionInv

LEMMA ProjectInvInit == Init => ProjectInv
<1> SUFFICES ASSUME Init PROVE ProjectInv
  OBVIOUS
<1>1. CompileInv
  BY DEF Init, CompileInv, OrderInv, OrderTypeOK, PathIsChain, PathIsFresh, OrderIsTopological,
         CycleIsReal
<1>2. GateInv /\ CallInv
  BY DEF Init, GateInv, CallInv, NoGate
<1>3. SessionInv
  BY DEF Init, SessionInv, Place, Mode, ErrorCode
<1> QED
  BY <1>1, <1>2, <1>3 DEF ProjectInv

LEMMA ProjectInvStep == ProjectInv /\ [Next]_vars => ProjectInv'
  BY CompileInvStep, GateInvStep, CallInvStep, SessionStep DEF ProjectInv

LEMMA ProjectInvariance == Spec => []ProjectInv
  BY ProjectInvInit, ProjectInvStep, PTL DEF Spec

\* Every variable of a project keeps its type; the compilation, the gate and
\* the session are each in a state that their own steps can leave.
THEOREM ProjectTypeOK == Spec => []TypeOK
<1>1. ProjectInv => TypeOK
  BY DEF ProjectInv, TypeOK, CompileInv, OrderInv, GateInv, SessionInv
<1> QED
  BY <1>1, ProjectInvariance, PTL

\* Whatever the file sets of a rulebook are, and however calls follow each
\* other, the sets a compiled one holds are the ones its definitions say.
THEOREM CompiledSetsAreRight == Spec => []CompiledIsMeaning
<1>1. ProjectInv => CompiledIsMeaning
  BY CompiledMeaning DEF ProjectInv
<1> QED
  BY <1>1, ProjectInvariance, PTL

\* A file under an opaque directory reaches a set only by the name of that
\* directory's set, in any rulebook over any files.
THEOREM OpaqueFilesAreHidden == Spec => []OpaqueByReferenceOnly
<1>1. ProjectInv => OpaqueByReferenceOnly
  BY OpaqueByReference DEF ProjectInv
<1> QED
  BY <1>1, ProjectInvariance, PTL

\* No merge passes its gate before every check of the base commit ran, in
\* pipeline order, or was one that may be skipped: for every check table.
THEOREM GatePassesOnlyComplete == Spec => []GateIsComplete
<1>1. ProjectInv => GateIsComplete
  BY GateComplete DEF ProjectInv
<1> QED
  BY <1>1, ProjectInvariance, PTL

\* In a whole project too, where a search is abandoned with the call it serves
\* and begun again over another rulebook, orders are topological and reported
\* cycles real.
THEOREM ProjectOrders == Spec => [](OrderIsTopological /\ CycleIsReal)
<1>1. ProjectInv => OrderIsTopological /\ CycleIsReal
  BY DEF ProjectInv, CompileInv, OrderInv
<1> QED
  BY <1>1, ProjectInvariance, PTL

\* No command and no server started in it makes a worktree a workspace: only a
\* server that was rebound puts the control plane there.
THEOREM WorktreesStayWorktrees == Spec => OnlyReboundServersCrossRoles
<1>1. ProjectInv /\ [Next]_vars =>
        [("state" \in disk'["worktree"] /\ "state" \notin disk["worktree"]) => rebound]_vars
  BY SessionStep DEF ProjectInv, NoStateInWorktree
<1> QED
  BY <1>1, ProjectInvariance, PTL DEF Spec, OnlyReboundServersCrossRoles
=============================================================================
