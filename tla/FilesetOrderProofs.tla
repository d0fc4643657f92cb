------------------------- MODULE FilesetOrderProofs -------------------------
(***************************************************************************)
(* The topological sort of file sets is right for every rulebook: what it  *)
(* orders is ordered, and what it reports is a cycle.                      *)
(*                                                                         *)
(* The invariant is about the path of the search: each name on it refers   *)
(* to the next, no name is on it twice, and none is finished.              *)
(***************************************************************************)
EXTENDS FilesetOrder, SequenceTheorems, TLAPS

PathIsChain == \A i \in 1..(Len(path) - 1) : path[i + 1] \in refs[path[i]]

PathIsFresh ==
  /\ \A i \in 1..Len(path), j \in 1..Len(path) : path[i] = path[j] => i = j
  /\ \A i \in 1..Len(path), j \in 1..Len(order) : path[i] # order[j]

OrderInv == OrderTypeOK /\ PathIsChain /\ PathIsFresh /\ OrderIsTopological /\ CycleIsReal

\* The search starts with nothing visited.
LEMMA OrderInvInit == OrderInit => OrderInv
<1> SUFFICES ASSUME OrderInit PROVE OrderInv
  OBVIOUS
<1>1. PICK S \in SUBSET Name : refs \in [S -> SUBSET S]
  BY DEF OrderInit, Graph
<1> QED
  BY <1>1 DEF OrderInit, OrderInv, OrderTypeOK, PathIsChain, PathIsFresh, OrderIsTopological, CycleIsReal

\* A root that is white begins a path.
LEMMA VisitNextInv == OrderInv /\ VisitNext => OrderInv'
<1> SUFFICES ASSUME OrderInv, VisitNext PROVE OrderInv'
  OBVIOUS
<1> USE DEF OrderInv
<1>1. PICK n \in White : path' = <<n>>
  BY DEF VisitNext
<1>2. n \in DOMAIN refs /\ \A j \in 1..Len(order) : n # order[j]
  BY <1>1 DEF White, Black
<1>3. UNCHANGED <<refs, order, cycle>> /\ cycle = <<>>
  BY DEF VisitNext
<1>4. path' \in Seq(DOMAIN refs) /\ Len(path') = 1 /\ path'[1] = n
  BY <1>1, <1>2
<1>5. OrderTypeOK'
  BY <1>3, <1>4 DEF OrderTypeOK
<1>6. PathIsChain' /\ PathIsFresh'
  BY <1>2, <1>3, <1>4 DEF PathIsChain, PathIsFresh
<1>7. OrderIsTopological' /\ CycleIsReal'
  BY <1>3 DEF OrderIsTopological, CycleIsReal
<1> QED
  BY <1>5, <1>6, <1>7

\* A white reference of the last name prolongs the path.
LEMMA DescendInv == OrderInv /\ Descend => OrderInv'
<1> SUFFICES ASSUME OrderInv, Descend PROVE OrderInv'
  OBVIOUS
<1> USE DEF OrderInv
<1>1. PICK n \in White : Least(n, Unfinished) /\ path' = Append(path, n)
  BY DEF Descend
<1>2. /\ n \in DOMAIN refs
      /\ \A j \in 1..Len(order) : n # order[j]
      /\ \A i \in 1..Len(path) : n # path[i]
      /\ n \in refs[path[Len(path)]]
  BY <1>1 DEF White, Black, Gray, Least, Unfinished, Current
<1>3. UNCHANGED <<refs, order, cycle>> /\ cycle = <<>> /\ path # <<>>
  BY DEF Descend
<1>4. path \in Seq(DOMAIN refs) /\ Len(path) \in Nat /\ Len(path) > 0
  BY <1>3, EmptySeq DEF OrderTypeOK
<1>5. /\ path' \in Seq(DOMAIN refs) /\ Len(path') = Len(path) + 1
      /\ path'[Len(path) + 1] = n
      /\ \A i \in 1..Len(path) : path'[i] = path[i]
  BY <1>1, <1>2, <1>4
<1>6. OrderTypeOK'
  BY <1>3, <1>5 DEF OrderTypeOK
<1>7. PathIsChain'
  <2> SUFFICES ASSUME NEW i \in 1..(Len(path') - 1) PROVE path'[i + 1] \in refs'[path'[i]]
    BY DEF PathIsChain
  <2>1. CASE i = Len(path)
    BY <2>1, <1>2, <1>3, <1>4, <1>5
  <2>2. CASE i # Len(path)
    BY <2>2, <1>3, <1>4, <1>5 DEF PathIsChain
  <2> QED
    BY <2>1, <2>2
<1>8. PathIsFresh'
  <2>1. ASSUME NEW i \in 1..Len(path'), NEW j \in 1..Len(path'), path'[i] = path'[j]
        PROVE  i = j
    <3>1. i \in 1..Len(path) \/ i = Len(path) + 1
      BY <1>4, <1>5
    <3>2. j \in 1..Len(path) \/ j = Len(path) + 1
      BY <1>4, <1>5
    <3> QED
      BY <2>1, <3>1, <3>2, <1>2, <1>5 DEF PathIsFresh
  <2>2. ASSUME NEW i \in 1..Len(path'), NEW j \in 1..Len(order)
        PROVE  path'[i] # order[j]
    <3>1. i \in 1..Len(path) \/ i = Len(path) + 1
      BY <1>4, <1>5
    <3> QED
      BY <3>1, <1>2, <1>5 DEF PathIsFresh
  <2> QED
    BY <2>1, <2>2, <1>3 DEF PathIsFresh
<1>9. OrderIsTopological' /\ CycleIsReal'
  BY <1>3 DEF OrderIsTopological, CycleIsReal
<1> QED
  BY <1>6, <1>7, <1>8, <1>9

\* The path from the place of a gray name on, closed by that name, is a cycle.
LEMMA CloseCycleInv == OrderInv /\ CloseCycle => OrderInv'
<1> SUFFICES ASSUME OrderInv, CloseCycle PROVE OrderInv'
  OBVIOUS
<1> USE DEF OrderInv
<1>1. PICK i \in 1..Len(path) :
        /\ Least(path[i], Unfinished)
        /\ cycle' = Append(SubSeq(path, i, Len(path)), path[i])
  BY DEF CloseCycle
<1>2. path[i] \in refs[path[Len(path)]]
  BY <1>1 DEF Least, Unfinished, Current
<1>3. UNCHANGED <<refs, order, path>>
  BY DEF CloseCycle
<1>4. path \in Seq(DOMAIN refs) /\ Len(path) \in Nat
  BY DEF OrderTypeOK
<1> DEFINE part == SubSeq(path, i, Len(path))
           k == Len(path) - i + 1
<1>5. /\ part \in Seq(DOMAIN refs) /\ Len(part) = k /\ k \in Nat /\ k > 0
      /\ \A j \in 1..k : part[j] = path[i + j - 1]
  BY <1>4
<1>6. path[i] \in DOMAIN refs
  BY <1>4
<1> HIDE DEF part
<1>7. cycle' = Append(part, path[i])
  BY <1>1 DEF part
<1> HIDE DEF k
<1>8. /\ cycle' \in Seq(DOMAIN refs) /\ Len(cycle') = k + 1
      /\ cycle'[k + 1] = path[i]
      /\ \A j \in 1..k : cycle'[j] = path[i + j - 1]
  <2>1. \A j \in 1..k : cycle'[j] = part[j]
    BY <1>5, <1>6, <1>7
  <2> QED
    BY <2>1, <1>5, <1>6, <1>7
<1>9. OrderTypeOK'
  BY <1>3, <1>8 DEF OrderTypeOK
<1>10. CycleIsReal'
  <2>1. cycle'[1] = path[i]
    BY <1>4, <1>5, <1>8
  <2>2. ASSUME NEW j \in 1..k PROVE cycle'[j + 1] \in refs[cycle'[j]]
    <3>1. CASE j = k
      <4>1. i + j - 1 = Len(path)
        BY <3>1, <1>4 DEF k
      <4>2. cycle'[j] = path[Len(path)] /\ cycle'[j + 1] = path[i]
        BY <4>1, <3>1, <1>8
      <4> QED
        BY <4>2, <1>2
    <3>2. CASE j # k
      <4>1. i + j - 1 \in 1..(Len(path) - 1) /\ j + 1 \in 1..k
        BY <3>2, <1>4 DEF k
      <4>2. path[(i + j - 1) + 1] \in refs[path[i + j - 1]]
        BY <4>1 DEF PathIsChain
      <4>3. cycle'[j] = path[i + j - 1] /\ cycle'[j + 1] = path[(i + j - 1) + 1]
        BY <4>1, <1>4, <1>8
      <4> QED
        BY <4>2, <4>3
    <3> QED
      BY <3>1, <3>2
  <2> QED
    BY <2>1, <2>2, <1>3, <1>5, <1>8 DEF CycleIsReal
<1>11. refs' = refs /\ order' = order /\ path' = path
  BY <1>3
<1>12. PathIsChain /\ PathIsFresh /\ OrderIsTopological
  OBVIOUS
<1>13. PathIsChain' = PathIsChain /\ PathIsFresh' = PathIsFresh
  BY <1>11 DEF PathIsChain, PathIsFresh
<1>14. OrderIsTopological' = OrderIsTopological
  BY <1>11 DEF OrderIsTopological
<1> QED
  BY <1>9, <1>10, <1>12, <1>13, <1>14

\* A name is finished when all it refers to is; nothing on the path is
\* finished with it.
LEMMA FinishInv == OrderInv /\ Finish => OrderInv'
<1> SUFFICES ASSUME OrderInv, Finish PROVE OrderInv'
  OBVIOUS
<1> USE DEF OrderInv
<1> DEFINE k == Len(path)
<1>1. /\ UNCHANGED <<refs, cycle>> /\ cycle = <<>>
      /\ order' = Append(order, path[k]) /\ path' = SubSeq(path, 1, k - 1)
      /\ refs[path[k]] \subseteq Black
  BY DEF Finish, Unfinished, Current
<1>2. path \in Seq(DOMAIN refs) /\ order \in Seq(DOMAIN refs) /\ k \in Nat /\ k > 0
  BY EmptySeq DEF OrderTypeOK, Finish
<1>3. path[k] \in DOMAIN refs
  BY <1>2
<1>4. /\ path' \in Seq(DOMAIN refs) /\ Len(path') = k - 1
      /\ \A i \in 1..(k - 1) : path'[i] = path[i]
  <2>1. path' = SubSeq(path, 1, k - 1)
    BY <1>1
  <2>2. \A i \in 1..(k - 1) : i \in 1..k
    BY <1>2
  <2> HIDE DEF k
  <2>3. k = Len(path)
    BY DEF k
  <2> QED
    BY <2>1, <2>2, <2>3, <1>2, SubSeqProperties
<1>5. /\ order' \in Seq(DOMAIN refs) /\ Len(order') = Len(order) + 1 /\ Len(order) \in Nat
      /\ order'[Len(order) + 1] = path[k]
      /\ \A i \in 1..Len(order) : order'[i] = order[i]
  BY <1>1, <1>2, <1>3
<1>6. OrderTypeOK'
  BY <1>1, <1>4, <1>5 DEF OrderTypeOK
<1>7. PathIsChain'
  <2> SUFFICES ASSUME NEW i \in 1..(Len(path') - 1) PROVE path'[i + 1] \in refs'[path'[i]]
    BY DEF PathIsChain
  <2>1. i \in 1..(k - 1) /\ i + 1 \in 1..(k - 1)
    BY <1>2, <1>4
  <2> QED
    BY <2>1, <1>1, <1>4 DEF PathIsChain
<1>8. PathIsFresh'
  <2>1. \A i \in 1..Len(path') : i \in 1..k /\ i # k /\ path'[i] = path[i]
    BY <1>2, <1>4
  <2>2. ASSUME NEW i \in 1..Len(path'), NEW j \in 1..Len(path'), path'[i] = path'[j]
        PROVE  i = j
    BY <2>1, <2>2 DEF PathIsFresh
  <2>3. ASSUME NEW i \in 1..Len(path'), NEW j \in 1..Len(order')
        PROVE  path'[i] # order'[j]
    <3>1. j \in 1..Len(order) \/ j = Len(order) + 1
      BY <1>5
    <3>2. k \in 1..k
      BY <1>2
    <3> QED
      BY <3>1, <3>2, <2>1, <1>5 DEF PathIsFresh
  <2> QED
    BY <2>2, <2>3 DEF PathIsFresh
<1>9. OrderIsTopological'
  <2> SUFFICES ASSUME NEW i \in 1..Len(order')
               PROVE  /\ \A m \in refs'[order'[i]] : \E j \in 1..(i - 1) : order'[j] = m
                      /\ \A j \in 1..(i - 1) : order'[j] # order'[i]
    BY DEF OrderIsTopological
  <2>1. CASE i = Len(order) + 1
    <3>1. \A m \in refs[path[k]] : \E j \in 1..Len(order) : order[j] = m
      BY <1>1 DEF Black
    <3>2. \A j \in 1..Len(order) : order[j] # path[k]
      BY <1>2 DEF PathIsFresh
    <3> QED
      BY <2>1, <3>1, <3>2, <1>1, <1>5
  <2>2. CASE i # Len(order) + 1
    <3>1. i \in 1..Len(order)
      BY <2>2, <1>5
    <3>2. \A j \in 1..(i - 1) : j \in 1..Len(order)
      BY <3>1, <1>5
    <3>3. order'[i] = order[i] /\ \A j \in 1..(i - 1) : order'[j] = order[j]
      BY <3>1, <3>2, <1>5
    <3>4. /\ \A m \in refs[order[i]] : \E j \in 1..(i - 1) : order[j] = m
          /\ \A j \in 1..(i - 1) : order[j] # order[i]
      BY <3>1 DEF OrderIsTopological
    <3>5. refs'[order'[i]] = refs[order[i]]
      BY <3>3, <1>1
    <3> QED
      BY <3>3, <3>4, <3>5
  <2> QED
    BY <2>1, <2>2
<1>10. CycleIsReal'
  BY <1>1 DEF CycleIsReal
<1> QED
  BY <1>6, <1>7, <1>8, <1>9, <1>10

\* The invariant holds in every state of the search.
LEMMA OrderInvariance == OrderSpec => []OrderInv
<1>1. OrderInv /\ [OrderNext]_orderVars => OrderInv'
  <2> SUFFICES ASSUME OrderInv, [OrderNext]_orderVars PROVE OrderInv'
    OBVIOUS
  <2>1. CASE UNCHANGED orderVars
    BY <2>1 DEF orderVars, OrderInv, OrderTypeOK, PathIsChain, PathIsFresh, OrderIsTopological,
                CycleIsReal
  <2> QED
    BY <2>1, VisitNextInv, DescendInv, CloseCycleInv, FinishInv DEF OrderNext
<1> QED
  BY <1>1, OrderInvInit, PTL DEF OrderSpec

\* What has been ordered is preceded by all it refers to, and ordered once, so
\* that the compilation of file sets never meets an unresolved name.
THEOREM OrderTopological == OrderSpec => []OrderIsTopological
  BY OrderInvariance, PTL DEF OrderInv

\* A rulebook is rejected for a cycle only if the names reported form one.
THEOREM CycleReal == OrderSpec => []CycleIsReal
  BY OrderInvariance, PTL DEF OrderInv
=============================================================================
