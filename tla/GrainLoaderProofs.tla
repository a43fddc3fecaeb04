-------------------------- MODULE GrainLoaderProofs --------------------------
(* Proofs about importing grains, for any set of grains, any of them         *)
(* unreadable, and any depth of imports and calls.                           *)
EXTENDS GrainLoader, SequenceTheorems, FiniteSetTheorems, TLAPS

USE GrainsAssumption

\* Frame k is the nearest top level at or below frame n of s.
IsVm(s, k, n) == k \in 1..n /\ s[k].top /\ \A j \in k + 1..n : ~s[j].top

\* The script is the outermost frame, every frame has a VM below it, only a
\* VM keeps a set of imports, and the other frames belong to grains.
Shape ==
  /\ stack # <<>> /\ stack[1].top
  /\ \A n \in 2..Len(stack) : stack[n].file \in Grains
  /\ \A n \in DOMAIN stack : ~stack[n].top => stack[n].imported = {}
  /\ \A n \in DOMAIN stack : \E k \in DOMAIN stack : IsVm(stack, k, n)

\* A grain that a VM counts as imported without its being cached is the one
\* whose top level it runs now: FailedImportGuard forgets it at the right place.
ImportsRun ==
  \A i \in DOMAIN stack : \A g \in stack[i].imported \ cache :
    \E k \in i + 1..Len(stack) :
      stack[k].top /\ stack[k].file = g /\ \A j \in i + 1..k - 1 : ~stack[j].top

\* A grain is cached when its top level has finished, and not while it loads.
CacheExact ==
  \A g \in Grains : /\ finished[g] = IF g \in cache THEN 1 ELSE 0
                    /\ g \in cache => ~IsLoading(g)

IInv == TypeOK /\ Shape /\ ImportsRun /\ CacheExact /\ LoadStackExact

-----------------------------------------------------------------------------
(* Counting the grains being loaded.                                         *)

LEMMA DepthType ==
  ASSUME NEW s, NEW k \in Nat
  PROVE  Depth(s, k) \in Nat /\ IsFiniteSet({j \in 2..k : s[j].top})
  <1>1. IsFiniteSet(2..k)
    BY FS_Interval
  <1>2. {j \in 2..k : s[j].top} \in SUBSET (2..k)
    OBVIOUS
  <1>3. IsFiniteSet({j \in 2..k : s[j].top})
    BY <1>1, <1>2, FS_Subset
  <1> QED BY <1>3, FS_CardinalityType DEF Depth

\* The count depends on which frames are top levels only ...
LEMMA DepthSame ==
  ASSUME NEW s, NEW t, NEW k \in Nat, \A j \in 2..k : s[j].top <=> t[j].top
  PROVE  Depth(s, k) = Depth(t, k)
  <1>1. {j \in 2..k : s[j].top} = {j \in 2..k : t[j].top}
    OBVIOUS
  <1> QED BY <1>1 DEF Depth

\* ... grows by one with every top level above the script ...
LEMMA DepthStep ==
  ASSUME NEW s, NEW k \in Nat, k > 1, s[k].top \in BOOLEAN
  PROVE  Depth(s, k) = IF s[k].top THEN Depth(s, k - 1) + 1 ELSE Depth(s, k - 1)
  <1> DEFINE A == {j \in 2..k - 1 : s[j].top}
             B == {j \in 2..k : s[j].top}
  <1>0. k - 1 \in Nat
    OBVIOUS
  <1>1. IsFiniteSet({j \in 2..k - 1 : s[j].top})
    BY <1>0, DepthType
  <1>4. k \notin A
    OBVIOUS
  <1>2. CASE s[k].top
    <2>1. B = A \cup {k}
      BY <1>2
    <2>2. Cardinality(A \cup {k}) = Cardinality(A) + 1
      BY <1>1, <1>4, FS_AddElement
    <2> QED BY <1>2, <2>1, <2>2 DEF Depth
  <1>3. CASE ~s[k].top
    <2>1. B = A
      BY <1>3
    <2> QED BY <1>3, <2>1 DEF Depth
  <1> QED BY <1>2, <1>3

\* ... and never shrinks with more frames.
LEMMA DepthMono ==
  ASSUME NEW s, NEW k \in Nat, NEW n \in Nat, k <= n
  PROVE  Depth(s, k) <= Depth(s, n)
  <1> DEFINE A == {j \in 2..k : s[j].top}
             B == {j \in 2..n : s[j].top}
  <1>1. A \in SUBSET B /\ IsFiniteSet(B)
    BY DepthType
  <1>2. Cardinality(A) <= Cardinality(B)
    BY <1>1, FS_Subset
  <1> QED BY <1>2 DEF Depth

LEMMA DepthOne == \A s : Depth(s, 1) = 0
  <1>1. \A s : {j \in 2..1 : s[j].top} = {}
    OBVIOUS
  <1> QED BY <1>1, FS_EmptySet DEF Depth

\* The grain of a top level has its place in the load stack.
LEMMA Placed ==
  ASSUME IInv, NEW k \in 2..Len(stack), stack[k].top
  PROVE  Depth(stack, k) \in DOMAIN loading /\ loading[Depth(stack, k)] = stack[k].file
  <1>1. Len(stack) \in Nat /\ k \in Nat /\ k - 1 \in Nat /\ k > 1 /\ k <= Len(stack)
    BY DEF IInv, TypeOK
  <1>2. Depth(stack, k) <= Depth(stack, Len(stack))
    BY <1>1, DepthMono
  <1>3. Depth(stack, k) = Depth(stack, k - 1) + 1
    BY <1>1, DepthStep
  <1>4. Depth(stack, k - 1) \in Nat
    BY <1>1, DepthType
  <1>5. loading \in Seq(Grains) /\ Len(loading) = Depth(stack, Len(stack))
    BY DEF IInv, TypeOK, LoadStackExact
  <1>6. loading[Depth(stack, k)] = stack[k].file
    BY DEF IInv, LoadStackExact
  <1> QED BY <1>2, <1>3, <1>4, <1>5, <1>6

\* The VM of a stack of frames is where it should be.
LEMMA VmIs ==
  ASSUME NEW s \in Seq(Frames), s # <<>>, \E k \in DOMAIN s : IsVm(s, k, Len(s))
  PROVE  Vm(s) \in DOMAIN s /\ IsVm(s, Vm(s), Len(s))
  <1>1. \E k \in DOMAIN s : s[k].top /\ \A j \in k + 1..Len(s) : ~s[j].top
    BY DEF IsVm
  <1>2. Vm(s) \in DOMAIN s /\ s[Vm(s)].top /\ \A j \in Vm(s) + 1..Len(s) : ~s[j].top
    BY <1>1 DEF Vm
  <1> QED BY <1>2 DEF IsVm

\* The last top level below frame n is the only VM of frame n.
LEMMA VmIsOne ==
  ASSUME NEW s, NEW n \in Nat, NEW k \in Nat, NEW l \in Nat, IsVm(s, k, n), IsVm(s, l, n)
  PROVE  k = l
  BY DEF IsVm

-----------------------------------------------------------------------------
(* The frames grow and shrink at the end.                                    *)

\* What later frames there may be, the first n frames stay what they were.
Keeps(n) ==
  /\ n <= Len(stack) /\ n <= Len(stack')
  /\ \A k \in 1..n : /\ stack'[k].top <=> stack[k].top
                     /\ stack'[k].file = stack[k].file
                     /\ ~stack'[k].top => stack'[k].imported = {}

LEMMA KeptDepth ==
  ASSUME NEW n \in Nat, Keeps(n)
  PROVE  \A k \in 1..n : Depth(stack', k) = Depth(stack, k)
  <1> SUFFICES ASSUME NEW k \in 1..n PROVE Depth(stack, k) = Depth(stack', k)
    OBVIOUS
  <1>1. \A j \in 2..k : stack[j].top <=> stack'[j].top
    BY DEF Keeps
  <1>2. k \in Nat
    OBVIOUS
  <1> QED BY <1>1, <1>2, DepthSame

LEMMA KeptVm ==
  ASSUME NEW n \in Nat, Keeps(n), IInv
  PROVE  \A m \in 1..n : \E k \in 1..n : IsVm(stack', k, m)
  <1> SUFFICES ASSUME NEW m \in 1..n PROVE \E k \in 1..n : IsVm(stack', k, m)
    OBVIOUS
  <1>1. m \in DOMAIN stack /\ Len(stack) \in Nat
    BY DEF Keeps, IInv, TypeOK
  <1>2. PICK k \in DOMAIN stack : IsVm(stack, k, m)
    BY <1>1 DEF IInv, Shape
  <1>3. k \in 1..n /\ IsVm(stack', k, m)
    BY <1>1, <1>2 DEF IsVm, Keeps
  <1> QED BY <1>3

\* The innermost frame is gone, and with a grain's top level its place in the
\* load stack.
LEMMA Popped ==
  ASSUME IInv, Len(stack) > 1, stack' \in Seq(Frames), Len(stack') = Len(stack) - 1,
         Keeps(Len(stack) - 1),
         loading' = IF Current.top THEN Front(loading) ELSE loading
  PROVE  Shape' /\ LoadStackExact'
  <1> DEFINE n == Len(stack)
  <1>0. /\ n \in Nat /\ n - 1 \in Nat /\ n - 1 >= 1 /\ stack \in Seq(Frames)
        /\ loading \in Seq(Grains) /\ Current = stack[n] /\ stack[n].top \in BOOLEAN
    <2>1. stack \in Seq(Frames) /\ loading \in Seq(Grains) /\ n \in Nat
      BY DEF IInv, TypeOK
    <2>2. n - 1 \in Nat /\ n - 1 >= 1 /\ n \in DOMAIN stack
      BY <2>1
    <2>3. stack[n] \in Frames
      BY <2>1, <2>2
    <2> QED BY <2>1, <2>2, <2>3 DEF Current, Last, Frames
  <1>1. \A k \in 1..n - 1 : Depth(stack', k) = Depth(stack, k)
    BY <1>0, KeptDepth
  <1>2. \A m \in 1..n - 1 : \E k \in 1..n - 1 : IsVm(stack', k, m)
    BY <1>0, KeptVm
  <1>3. Shape'
    <2>1. DOMAIN stack' = 1..n - 1 /\ stack' # <<>>
      BY <1>0
    <2>2. stack'[1].top /\ \A m \in 2..n - 1 : stack'[m].file \in Grains
      <3>1. stack[1].top /\ \A m \in 2..n : stack[m].file \in Grains
        BY DEF IInv, Shape
      <3>2. 1 \in 1..n - 1 /\ \A m \in 2..n - 1 : m \in 1..n - 1 /\ m \in 2..n
        BY <1>0
      <3> QED BY <3>1, <3>2 DEF Keeps
    <2>3. \A m \in 1..n - 1 : ~stack'[m].top => stack'[m].imported = {}
      BY DEF Keeps
    <2> QED BY <1>2, <2>1, <2>2, <2>3 DEF Shape
  <1>4. Depth(stack, n) = IF stack[n].top THEN Depth(stack, n - 1) + 1 ELSE Depth(stack, n - 1)
    BY <1>0, DepthStep
  <1>5. Len(loading) = Depth(stack, n) /\ Depth(stack, n - 1) \in Nat
    BY <1>0, DepthType DEF IInv, LoadStackExact
  <1>6. /\ loading' \in Seq(Grains) /\ Len(loading') = Depth(stack, n - 1)
        /\ \A i \in 1..Depth(stack, n - 1) : loading'[i] = loading[i]
    BY <1>0, <1>4, <1>5 DEF Front
  <1>7. ASSUME NEW k \in 2..n - 1, stack'[k].top
        PROVE  loading'[Depth(stack', k)] = stack'[k].file
    <2>1. k \in 1..n - 1 /\ k \in Nat /\ k <= n - 1 /\ k \in 2..Len(stack)
      BY <1>0
    <2>2. stack[k].top /\ stack'[k].file = stack[k].file
      BY <1>7, <2>1 DEF Keeps
    <2>3. Depth(stack, k) \in DOMAIN loading /\ loading[Depth(stack, k)] = stack[k].file
      BY <2>1, <2>2, Placed
    <2>4. Depth(stack, k) <= Depth(stack, n - 1)
      BY <1>0, <2>1, DepthMono
    <2>5. Depth(stack, k) \in 1..Depth(stack, n - 1)
      BY <1>0, <1>5, <2>3, <2>4
    <2> QED BY <1>1, <1>6, <2>1, <2>2, <2>3, <2>5
  <1>8. Depth(stack', n - 1) = Depth(stack, n - 1)
    BY <1>0, <1>1
  <1>9. \A i, j \in DOMAIN loading' : i # j => loading'[i] # loading'[j]
    <2>1. \A i, j \in DOMAIN loading : i # j => loading[i] # loading[j]
      BY DEF IInv, LoadStackExact
    <2>2. DOMAIN loading' = 1..Depth(stack, n - 1) /\ DOMAIN loading = 1..Depth(stack, n)
      BY <1>0, <1>5, <1>6
    <2> QED BY <1>4, <1>5, <1>6, <2>1, <2>2
  <1> QED BY <1>3, <1>6, <1>7, <1>8, <1>9 DEF LoadStackExact

\* A frame is added: a call, or the top level of a grain not being loaded.
LEMMA Pushed ==
  ASSUME IInv, NEW f \in Frames, stack' \in Seq(Frames), Len(stack') = Len(stack) + 1,
         Keeps(Len(stack)), stack'[Len(stack) + 1] = f, f.file \in Grains, f.imported = {},
         f.top => ~IsLoading(f.file),
         loading' = IF f.top THEN Append(loading, f.file) ELSE loading
  PROVE  Shape' /\ LoadStackExact'
  <1> DEFINE n == Len(stack)
  <1>0. /\ n \in Nat /\ n >= 1 /\ stack \in Seq(Frames) /\ loading \in Seq(Grains)
        /\ f.top \in BOOLEAN /\ DOMAIN stack' = 1..n + 1
    BY DEF IInv, TypeOK, Shape, Frames
  <1>1. \A k \in 1..n : Depth(stack', k) = Depth(stack, k)
    BY <1>0, KeptDepth
  <1>2. \A m \in 1..n : \E k \in 1..n : IsVm(stack', k, m)
    BY <1>0, KeptVm
  <1>3. Shape'
    <2>2. /\ stack' # <<>> /\ stack'[1].top
          /\ \A m \in 2..n : stack'[m].file \in Grains
      <3>1. stack[1].top /\ \A m \in 2..n : stack[m].file \in Grains
        BY DEF IInv, Shape
      <3>2. 1 \in 1..n /\ \A m \in 2..n : m \in 1..n
        BY <1>0
      <3>3. stack' # <<>>
        BY <1>0
      <3> QED BY <3>1, <3>2, <3>3 DEF Keeps
    <2>3. \A m \in 1..n : ~stack'[m].top => stack'[m].imported = {}
      BY DEF Keeps
    <2>4. \E k \in 1..n + 1 : IsVm(stack', k, n + 1)
      <3>1. CASE f.top
        BY <1>0, <3>1 DEF IsVm
      <3>2. CASE ~f.top
        <4>0. n \in 1..n
          BY <1>0
        <4>1. PICK k \in 1..n : IsVm(stack', k, n)
          BY <1>2, <4>0
        <4>2. IsVm(stack', k, n + 1)
          BY <1>0, <3>2, <4>1 DEF IsVm
        <4> QED BY <1>0, <4>2
      <3> QED BY <3>1, <3>2
    <2>5. /\ \A m \in 1..n + 1 : m \in 1..n \/ m = n + 1
          /\ \A m \in 1..n : m \in 1..n + 1
          /\ Len(stack') = n + 1
      BY <1>0
    <2>6. \A m \in DOMAIN stack' : \E k \in DOMAIN stack' : IsVm(stack', k, m)
      BY <1>0, <1>2, <2>4, <2>5
    <2>7. \A m \in 2..Len(stack') : stack'[m].file \in Grains
      BY <1>0, <2>2
    <2>8. \A m \in DOMAIN stack' : ~stack'[m].top => stack'[m].imported = {}
      BY <1>0, <2>3, <2>5
    <2> QED BY <2>2, <2>6, <2>7, <2>8 DEF Shape
  <1>4. Depth(stack', n + 1) = IF f.top THEN Depth(stack', n) + 1 ELSE Depth(stack', n)
    <2>1. n + 1 \in Nat /\ n + 1 > 1 /\ (n + 1) - 1 = n /\ stack'[n + 1].top \in BOOLEAN
      BY <1>0
    <2>2. Depth(stack', n + 1)
            = IF stack'[n + 1].top THEN Depth(stack', (n + 1) - 1) + 1 ELSE Depth(stack', (n + 1) - 1)
      BY <2>1, DepthStep
    <2> QED BY <2>1, <2>2
  <1>5. Len(loading) = Depth(stack, n) /\ Depth(stack, n) \in Nat /\ Depth(stack', n) = Depth(stack, n)
    BY <1>0, <1>1, DepthType DEF IInv, LoadStackExact
  <1>6. /\ loading' \in Seq(Grains) /\ Len(loading') = Depth(stack', n + 1)
        /\ \A i \in DOMAIN loading : loading'[i] = loading[i]
        /\ f.top => loading'[Len(loading) + 1] = f.file
    BY <1>0, <1>4, <1>5
  <1>7. ASSUME NEW k \in 2..n + 1, stack'[k].top
        PROVE  loading'[Depth(stack', k)] = stack'[k].file
    <2>1. CASE k = n + 1
      BY <1>4, <1>5, <1>6, <1>7, <2>1
    <2>2. CASE k # n + 1
      <3>1. k \in 1..n /\ k \in 2..Len(stack)
        BY <1>0, <2>2
      <3>2. stack[k].top /\ stack'[k].file = stack[k].file
        BY <1>7, <3>1 DEF Keeps
      <3>3. Depth(stack, k) \in DOMAIN loading /\ loading[Depth(stack, k)] = stack[k].file
        BY <3>1, <3>2, Placed
      <3> QED BY <1>1, <1>6, <3>1, <3>2, <3>3
    <2> QED BY <2>1, <2>2
  <1>8. \A i, j \in DOMAIN loading' : i # j => loading'[i] # loading'[j]
    <2>1. \A i, j \in DOMAIN loading : i # j => loading[i] # loading[j]
      BY DEF IInv, LoadStackExact
    <2>2. CASE ~f.top
      BY <2>1, <2>2
    <2>3. CASE f.top
      <3>1. DOMAIN loading' = DOMAIN loading \cup {Len(loading) + 1}
        BY <1>0, <1>6, <2>3
      <3>2. \A i \in DOMAIN loading : loading[i] # f.file
        BY <2>3 DEF IsLoading
      <3> QED BY <1>6, <2>1, <2>3, <3>1, <3>2
    <2> QED BY <2>2, <2>3
  <1> QED BY <1>0, <1>3, <1>6, <1>7, <1>8 DEF LoadStackExact

\* The frames stay, and what a VM counts as imported changes.
LEMMA Stayed ==
  ASSUME IInv, stack' \in Seq(Frames), Len(stack') = Len(stack), Keeps(Len(stack)),
         loading' = loading
  PROVE  Shape' /\ LoadStackExact'
  <1> DEFINE n == Len(stack)
  <1>0. n \in Nat /\ n >= 1 /\ DOMAIN stack = 1..n /\ DOMAIN stack' = 1..n /\ n \in 1..n
    BY DEF IInv, TypeOK, Shape
  <1>1. \A k \in 1..n : Depth(stack', k) = Depth(stack, k)
    BY <1>0, KeptDepth
  <1>2. \A m \in 1..n : \E k \in 1..n : IsVm(stack', k, m)
    BY <1>0, KeptVm
  <1>3. stack[1].top /\ \A m \in 2..n : stack[m].file \in Grains
    BY DEF IInv, Shape
  <1>4. 1 \in 1..n /\ (\A m \in 2..n : m \in 1..n) /\ stack' # <<>>
    BY <1>0
  <1>5. stack'[1].top /\ \A m \in 2..n : stack'[m].file \in Grains
    BY <1>3, <1>4 DEF Keeps
  <1>6. \A m \in 1..n : ~stack'[m].top => stack'[m].imported = {}
    BY DEF Keeps
  <1>7. Shape'
    BY <1>0, <1>2, <1>4, <1>5, <1>6 DEF Shape
  <1>8. \A k \in 2..n : stack'[k].top => loading'[Depth(stack', k)] = stack'[k].file
    BY <1>1, <1>4 DEF Keeps, IInv, LoadStackExact
  <1>9. Len(loading') = Depth(stack', n)
    BY <1>0, <1>1 DEF IInv, LoadStackExact
  <1>10. \A i, j \in DOMAIN loading' : i # j => loading'[i] # loading'[j]
    BY DEF IInv, LoadStackExact
  <1> QED BY <1>7, <1>8, <1>9, <1>10 DEF LoadStackExact

\* The frames as functions.
LEMMA Basics ==
  ASSUME IInv
  PROVE  /\ Len(stack) \in Nat /\ Len(stack) >= 1 /\ DOMAIN stack = 1..Len(stack)
         /\ stack \in Seq(Frames) /\ loading \in Seq(Grains) /\ cache \subseteq Grains
         /\ Current = stack[Len(stack)] /\ Current \in Frames
         /\ \A k \in DOMAIN stack : stack[k] \in Frames
         /\ VmFrame \in DOMAIN stack /\ IsVm(stack, VmFrame, Len(stack))
  <1>1. stack \in Seq(Frames) /\ loading \in Seq(Grains) /\ stack # <<>> /\ cache \subseteq Grains
    BY DEF IInv, TypeOK, Shape
  <1>2. /\ Len(stack) \in Nat /\ Len(stack) >= 1 /\ DOMAIN stack = 1..Len(stack)
        /\ \A k \in DOMAIN stack : stack[k] \in Frames
    BY <1>1
  <1>3. Current = stack[Len(stack)] /\ Len(stack) \in DOMAIN stack
    BY <1>2 DEF Current, Last
  <1>4. \E k \in DOMAIN stack : IsVm(stack, k, Len(stack))
    BY <1>3 DEF IInv, Shape
  <1>5. VmFrame \in DOMAIN stack /\ IsVm(stack, VmFrame, Len(stack))
    BY <1>1, <1>4, VmIs DEF VmFrame
  <1> QED BY <1>1, <1>2, <1>3, <1>5

\* Without its last frame.
LEMMA FrontIs ==
  ASSUME IInv, Len(stack) > 1
  PROVE  /\ Front(stack) \in Seq(Frames) /\ Len(Front(stack)) = Len(stack) - 1
         /\ \A k \in 1..Len(stack) - 1 : Front(stack)[k] = stack[k]
  BY Basics DEF Front

\* The VM of the importer, while a grain's top level is the innermost frame.
LEMMA ImporterVm ==
  ASSUME IInv, Len(stack) > 1
  PROVE  /\ Vm(Front(stack)) \in 1..Len(stack) - 1
         /\ IsVm(stack, Vm(Front(stack)), Len(stack) - 1)
  <1> DEFINE n == Len(stack) - 1
             s == Front(stack)
  <1>0. n \in Nat /\ n >= 1 /\ n \in DOMAIN stack /\ n < Len(stack) /\ Len(stack) \in Nat
    BY Basics
  <1>1. s \in Seq(Frames) /\ Len(s) = n /\ \A k \in 1..n : s[k] = stack[k]
    BY FrontIs
  <1> HIDE DEF s, n
  <1>2. PICK k \in DOMAIN stack : IsVm(stack, k, n)
    BY <1>0 DEF IInv, Shape
  <1>3. \A l \in 1..n : IsVm(stack, l, n) <=> IsVm(s, l, n)
    BY <1>0, <1>1 DEF IsVm
  <1>4. k \in 1..n /\ k \in DOMAIN s /\ s # <<>>
    BY <1>0, <1>1, <1>2 DEF IsVm
  <1>5. IsVm(s, k, Len(s))
    BY <1>1, <1>2, <1>3, <1>4
  <1>6. Vm(s) \in DOMAIN s /\ IsVm(s, Vm(s), Len(s))
    BY <1>1, <1>4, <1>5, VmIs
  <1>7. Vm(s) \in 1..n /\ IsVm(stack, Vm(s), n)
    BY <1>0, <1>1, <1>3, <1>6
  <1> QED BY <1>7 DEF s, n

-----------------------------------------------------------------------------
(* The invariant.                                                            *)

LEMMA InitHolds == Init => IInv
  <1> SUFFICES ASSUME Init PROVE IInv
    OBVIOUS
  <1>1. Len(stack) = 1 /\ stack[1] = [file |-> Script, top |-> TRUE, imported |-> {}]
    BY DEF Init
  <1>2. TypeOK
    BY DEF Init, TypeOK, Frames, Files, Errors
  <1>3. Shape /\ ImportsRun /\ CacheExact
    BY <1>1 DEF Init, Shape, IsVm, ImportsRun, CacheExact, IsLoading
  <1>4. LoadStackExact
    BY <1>1, DepthOne DEF Init, LoadStackExact
  <1> QED BY <1>2, <1>3, <1>4 DEF IInv

\* The current frame's VM counts g as imported.
Mark(g) == [stack EXCEPT ![VmFrame].imported = @ \cup {g}]

LEMMA Marked ==
  ASSUME IInv, NEW g \in Grains
  PROVE  /\ Mark(g) \in Seq(Frames) /\ Len(Mark(g)) = Len(stack)
         /\ \A k \in DOMAIN stack :
              /\ Mark(g)[k].file = stack[k].file /\ (Mark(g)[k].top <=> stack[k].top)
              /\ Mark(g)[k].imported = IF k = VmFrame THEN stack[k].imported \cup {g}
                                                     ELSE stack[k].imported
              /\ ~stack[k].top => Mark(g)[k].imported = {}
  <1> DEFINE n == Len(stack)
             v == VmFrame
             s == Mark(g)
             r == [stack[v] EXCEPT !.imported = @ \cup {g}]
  <1>0. /\ n \in Nat /\ DOMAIN stack = 1..n /\ stack \in Seq(Frames)
        /\ v \in 1..n /\ stack[v].top /\ stack[v] \in Frames
    BY Basics DEF IsVm
  <1>1. /\ r \in Frames /\ r.file = stack[v].file /\ r.top = stack[v].top
        /\ r.imported = stack[v].imported \cup {g}
    BY <1>0 DEF Frames
  <1>2. s = [stack EXCEPT ![v] = r]
    BY <1>0 DEF Mark
  <1> HIDE DEF s, r, v
  <1>3. Len(s) = n /\ s[v] = r /\ \A k \in 1..n : k # v => s[k] = stack[k]
    BY <1>0, <1>2
  <1>4. s \in Seq(Frames)
    BY <1>0, <1>1, <1>2, ExceptSeq
  <1>5. \A k \in 1..n : ~stack[k].top => stack[k].imported = {} /\ k # v
    BY <1>0 DEF IInv, Shape
  <1>6. ASSUME NEW k \in 1..n
        PROVE  /\ s[k].file = stack[k].file /\ (s[k].top <=> stack[k].top)
               /\ s[k].imported = IF k = v THEN stack[k].imported \cup {g} ELSE stack[k].imported
               /\ ~stack[k].top => s[k].imported = {}
    BY <1>1, <1>3, <1>5
  <1> QED BY <1>0, <1>3, <1>4, <1>6 DEF s, v

\* An import of a grain that is cached.
LEMMA StepUseCached ==
  ASSUME IInv, NEW g \in Grains, UseCached(g)
  PROVE  IInv'
  <1> DEFINE n == Len(stack)
             v == VmFrame
  <1>0. /\ n \in Nat /\ n >= 1 /\ DOMAIN stack = 1..n /\ stack \in Seq(Frames)
        /\ v \in 1..n /\ stack[v].top /\ \A k \in 1..n : stack[k] \in Frames
        /\ Current \in Frames
    BY Basics DEF IsVm
  <1>1. /\ stack' = [stack EXCEPT ![v].imported = @ \cup {g}] /\ g \in cache
        /\ uses' = [uses EXCEPT ![Current.file] = @ \cup {g}]
        /\ UNCHANGED <<cache, loading, error, failed, finished>>
    BY DEF UseCached
  <1>2. /\ Len(stack') = n /\ DOMAIN stack' = 1..n /\ stack' \in Seq(Frames)
        /\ \A k \in 1..n :
             /\ stack'[k].file = stack[k].file /\ (stack'[k].top <=> stack[k].top)
             /\ stack'[k].imported \subseteq stack[k].imported \cup {g}
             /\ ~stack[k].top => stack'[k].imported = {}
    <2>1. stack' = Mark(g)
      BY <1>1 DEF Mark, v
    <2>2. Len(Mark(g)) = n /\ Mark(g) \in Seq(Frames)
      BY Marked
    <2>3. ASSUME NEW k \in 1..n
          PROVE  /\ Mark(g)[k].file = stack[k].file /\ (Mark(g)[k].top <=> stack[k].top)
                 /\ Mark(g)[k].imported \subseteq stack[k].imported \cup {g}
                 /\ ~stack[k].top => Mark(g)[k].imported = {}
      BY <1>0, Marked
    <2>4. DOMAIN Mark(g) = 1..n
      BY <2>2
    <2> QED BY <2>1, <2>2, <2>3, <2>4
  <1>3. Keeps(n)
    BY <1>0, <1>2 DEF Keeps
  <1>4. Shape' /\ LoadStackExact'
    BY <1>1, <1>2, <1>3, Stayed
  <1>5. TypeOK'
    <2>1. uses' \in [Files -> SUBSET Grains]
      BY <1>0, <1>1 DEF IInv, TypeOK, Frames
    <2> QED BY <1>1, <1>2, <2>1 DEF IInv, TypeOK
  <1>6. ImportsRun'
    <2> SUFFICES ASSUME NEW i \in 1..n, NEW h \in stack'[i].imported \ cache
                 PROVE  \E k \in i + 1..n : /\ stack'[k].top /\ stack'[k].file = h
                                            /\ \A j \in i + 1..k - 1 : ~stack'[j].top
      BY <1>1, <1>2 DEF ImportsRun
    <2>1. h \in stack[i].imported \ cache
      BY <1>1, <1>2
    <2>2. PICK k \in i + 1..n : /\ stack[k].top /\ stack[k].file = h
                               /\ \A j \in i + 1..k - 1 : ~stack[j].top
      BY <1>0, <2>1 DEF IInv, ImportsRun
    <2>3. k \in 1..n /\ \A j \in i + 1..k - 1 : j \in 1..n
      BY <1>0
    <2> QED BY <1>2, <2>2, <2>3
  <1>7. CacheExact'
    BY <1>1 DEF IInv, CacheExact, IsLoading
  <1> QED BY <1>4, <1>5, <1>6, <1>7 DEF IInv

\* An import that runs the grain's top level.
LEMMA StepUseRuns ==
  ASSUME IInv, NEW g \in Grains, UseRuns(g)
  PROVE  IInv'
  <1> DEFINE n == Len(stack)
             v == VmFrame
             s == Mark(g)
             f == [file |-> g, top |-> TRUE, imported |-> {}]
  <1>0. /\ n \in Nat /\ n >= 1 /\ DOMAIN stack = 1..n /\ stack \in Seq(Frames)
        /\ v \in 1..n /\ stack[v].top /\ (\A j \in v + 1..n : ~stack[j].top)
        /\ \A k \in 1..n : stack[k] \in Frames
    BY Basics DEF IsVm
  <1>1. /\ stack' = Append(s, f) /\ g \notin cache /\ ~IsLoading(g)
        /\ loading' = Append(loading, g)
        /\ UNCHANGED <<cache, error, failed, finished, uses>>
    BY DEF UseRuns, Circular, Mark
  <1>f. f \in Frames /\ f.top /\ f.file = g /\ f.imported = {}
    BY DEF Frames, Files
  <1> HIDE DEF v, f
  <1>2. /\ Len(s) = n /\ s \in Seq(Frames)
        /\ \A k \in 1..n :
             /\ s[k].file = stack[k].file /\ (s[k].top <=> stack[k].top)
             /\ s[k].imported = IF k = v THEN stack[k].imported \cup {g} ELSE stack[k].imported
             /\ ~stack[k].top => s[k].imported = {}
    BY <1>0, Marked DEF v
  <1> HIDE DEF s
  <1>3. /\ Len(stack') = n + 1 /\ stack' \in Seq(Frames) /\ stack'[n + 1] = f
        /\ DOMAIN stack' = 1..n + 1 /\ \A k \in 1..n : stack'[k] = s[k]
    BY <1>0, <1>1, <1>2, <1>f
  <1>4. Keeps(n)
    <2>1. n <= Len(stack) /\ n <= Len(stack')
      BY <1>0, <1>3
    <2>2. ASSUME NEW k \in 1..n
          PROVE  /\ stack'[k].top <=> stack[k].top
                 /\ stack'[k].file = stack[k].file
                 /\ ~stack'[k].top => stack'[k].imported = {}
      <3>1. stack'[k] = s[k]
        BY <1>3
      <3> QED BY <1>2, <3>1
    <2> QED BY <2>1, <2>2 DEF Keeps
  <1>5. Shape' /\ LoadStackExact'
    BY <1>1, <1>3, <1>4, <1>f, Pushed
  <1>6. TypeOK'
    <2>1. loading' \in Seq(Grains)
      BY <1>1 DEF IInv, TypeOK
    <2> QED BY <1>1, <1>3, <2>1 DEF IInv, TypeOK
  <1>7. ImportsRun'
    <2> SUFFICES ASSUME NEW i \in 1..n + 1, NEW h \in stack'[i].imported \ cache
                 PROVE  \E k \in i + 1..n + 1 : /\ stack'[k].top /\ stack'[k].file = h
                                                /\ \A j \in i + 1..k - 1 : ~stack'[j].top
      BY <1>1, <1>3 DEF ImportsRun
    <2>1. i \in 1..n
      BY <1>0, <1>3, <1>f
    <2>2. CASE h \in stack[i].imported
      <3>1. PICK k \in i + 1..n : /\ stack[k].top /\ stack[k].file = h
                                 /\ \A j \in i + 1..k - 1 : ~stack[j].top
        BY <1>0, <2>1, <2>2 DEF IInv, ImportsRun
      <3>2. k \in 1..n /\ k \in i + 1..n + 1 /\ \A j \in i + 1..k - 1 : j \in 1..n
        BY <1>0, <2>1
      <3>3. /\ stack'[k].top /\ stack'[k].file = h
            /\ \A j \in i + 1..k - 1 : ~stack'[j].top
        BY <1>2, <1>3, <3>1, <3>2
      <3> QED BY <3>2, <3>3
    <2>3. CASE h \notin stack[i].imported
      <3>1. i = v /\ h = g
        BY <1>2, <1>3, <2>1, <2>3
      <3>2. n + 1 \in i + 1..n + 1 /\ stack'[n + 1].top /\ stack'[n + 1].file = h
        BY <1>0, <1>3, <1>f, <2>1, <3>1
      <3>3. \A j \in i + 1..(n + 1) - 1 : ~stack'[j].top
        <4>1. \A j \in i + 1..(n + 1) - 1 : j \in v + 1..n /\ j \in 1..n
          BY <1>0, <2>1, <3>1
        <4> QED BY <1>0, <1>2, <1>3, <4>1
      <3> QED BY <3>2, <3>3
    <2> QED BY <2>2, <2>3
  <1>8. CacheExact'
    <2>1. \A h \in Grains : h # g /\ IsLoading(h)' => IsLoading(h)
      BY <1>1 DEF IInv, TypeOK, IsLoading
    <2> QED BY <1>1, <2>1 DEF IInv, CacheExact
  <1> QED BY <1>5, <1>6, <1>7, <1>8 DEF IInv

\* A grain's top level has finished.
LEMMA StepFinish ==
  ASSUME IInv, Finish
  PROVE  IInv'
  <1> DEFINE n == Len(stack)
             d == Current.file
  <1>0. /\ n \in Nat /\ n > 1 /\ DOMAIN stack = 1..n /\ stack \in Seq(Frames)
        /\ loading \in Seq(Grains) /\ cache \subseteq Grains
        /\ Current = stack[n] /\ stack[n].top
        /\ \A k \in 1..n : stack[k] \in Frames
    BY Basics DEF Finish
  <1>1. /\ stack' = Front(stack) /\ loading' = Front(loading) /\ cache' = cache \cup {d}
        /\ finished' = [finished EXCEPT ![d] = @ + 1]
        /\ uses' = [uses EXCEPT ![Importer] = @ \cup {d}]
        /\ UNCHANGED <<error, failed>>
    BY DEF Finish, Cached
  <1>2. /\ stack' \in Seq(Frames) /\ Len(stack') = n - 1 /\ DOMAIN stack' = 1..n - 1
        /\ \A k \in 1..n - 1 : stack'[k] = stack[k] /\ k \in 1..n
    <2>1. /\ Front(stack) \in Seq(Frames) /\ Len(Front(stack)) = n - 1
          /\ \A k \in 1..n - 1 : Front(stack)[k] = stack[k]
      BY <1>0, FrontIs
    <2>2. DOMAIN Front(stack) = 1..n - 1 /\ \A k \in 1..n - 1 : k \in 1..n
      BY <1>0, <2>1
    <2> QED BY <1>1, <2>1, <2>2
  <1>3. /\ Depth(stack, n) \in DOMAIN loading /\ loading[Depth(stack, n)] = d
        /\ Len(loading) = Depth(stack, n) /\ d \in Grains
    <2>1. n \in 2..n
      BY <1>0
    <2>2. Depth(stack, n) \in DOMAIN loading /\ loading[Depth(stack, n)] = d
      BY <1>0, <2>1, Placed
    <2> QED BY <1>0, <2>1, <2>2 DEF IInv, LoadStackExact, Shape
  <1> HIDE DEF d
  <1>4. Keeps(n - 1)
    <2>1. n - 1 <= Len(stack) /\ n - 1 <= Len(stack')
      BY <1>0, <1>2
    <2>2. \A k \in 1..n : ~stack[k].top => stack[k].imported = {}
      BY <1>0 DEF IInv, Shape
    <2> QED BY <1>2, <2>1, <2>2 DEF Keeps
  <1>5. Shape' /\ LoadStackExact'
    BY <1>0, <1>1, <1>2, <1>4, Popped
  <1>6. CacheExact'
    <2>1. \A i, j \in DOMAIN loading : i # j => loading[i] # loading[j]
      BY DEF IInv, LoadStackExact
    <2>2. /\ DOMAIN loading' = 1..Len(loading) - 1
          /\ \A i \in 1..Len(loading) - 1 : loading'[i] = loading[i]
      BY <1>0, <1>1, <1>3 DEF Front
    <2>3. Len(loading) \in Nat /\ Len(loading) >= 1 /\ loading[Len(loading)] = d
      BY <1>0, <1>3
    <2>4. \A i \in DOMAIN loading' : loading'[i] # d
      <3>1. \A i \in 1..Len(loading) - 1 : i \in DOMAIN loading /\ i # Len(loading)
        BY <1>0, <2>3
      <3>2. Len(loading) \in DOMAIN loading
        BY <1>0, <2>3
      <3> QED BY <2>1, <2>2, <2>3, <3>1, <3>2
    <2>5. \A g \in Grains : IsLoading(g)' => IsLoading(g)
      BY <1>0, <2>2, <2>3 DEF IsLoading
    <2>6. IsLoading(d)
      BY <1>3 DEF IsLoading
    <2>7. \A g \in Grains : /\ finished[g] = IF g \in cache THEN 1 ELSE 0
                            /\ g \in cache => ~IsLoading(g)
      BY DEF IInv, CacheExact
    <2>8. finished \in [Grains -> 0..2]
      BY DEF IInv, TypeOK
    <2>9. d \notin cache /\ finished[d] = 0
      BY <1>3, <2>6, <2>7
    <2>10. ASSUME NEW g \in Grains
           PROVE  finished'[g] = IF g \in cache' THEN 1 ELSE 0
      BY <1>1, <1>3, <2>7, <2>8, <2>9
    <2>11. ASSUME NEW g \in Grains, g \in cache'
           PROVE  ~IsLoading(g)'
      <3>1. CASE g = d
        BY <2>4, <3>1 DEF IsLoading
      <3>2. CASE g # d
        BY <1>1, <2>5, <2>7, <2>11, <3>2
      <3> QED BY <3>1, <3>2
    <2> QED BY <2>10, <2>11 DEF CacheExact
  <1>7. TypeOK'
    <2>1. loading' \in Seq(Grains)
      BY <1>0, <1>1, <1>3 DEF Front
    <2>2. finished' \in [Grains -> 0..2]
      BY <1>1, <1>3, <1>6 DEF IInv, TypeOK, CacheExact
    <2>3. n - 1 \in 1..n
      BY <1>0
    <2>4. Importer \in Files
      BY <1>0, <2>3 DEF Importer, Frames
    <2>5. uses' \in [Files -> SUBSET Grains]
      BY <1>1, <1>3, <2>4 DEF IInv, TypeOK
    <2> QED BY <1>1, <1>2, <1>3, <2>1, <2>2, <2>5 DEF IInv, TypeOK
  <1>8. ImportsRun'
    <2> SUFFICES ASSUME NEW i \in 1..n - 1, NEW h \in stack'[i].imported \ cache'
                 PROVE  \E k \in i + 1..n - 1 : /\ stack'[k].top /\ stack'[k].file = h
                                                /\ \A j \in i + 1..k - 1 : ~stack'[j].top
      BY <1>2 DEF ImportsRun
    <2>1. h \in stack[i].imported \ cache /\ h # d /\ i \in 1..n
      BY <1>1, <1>2
    <2>2. PICK k \in i + 1..n : /\ stack[k].top /\ stack[k].file = h
                               /\ \A j \in i + 1..k - 1 : ~stack[j].top
      BY <1>0, <2>1 DEF IInv, ImportsRun
    <2>3. k # n
      BY <1>0, <2>1, <2>2 DEF d
    <2>4. k \in 1..n - 1 /\ k \in i + 1..n - 1 /\ \A j \in i + 1..k - 1 : j \in 1..n - 1
      <3>1. n \in Nat
        BY <1>0
      <3> HIDE DEF n
      <3> QED BY <2>3, <3>1
    <2>5. /\ stack'[k].top /\ stack'[k].file = h
          /\ \A j \in i + 1..k - 1 : ~stack'[j].top
      BY <1>2, <2>2, <2>4
    <2> QED BY <2>4, <2>5
  <1> QED BY <1>5, <1>6, <1>7, <1>8 DEF IInv

\* A call of a grain's function.
LEMMA StepCall ==
  ASSUME IInv, NEW g \in Grains, Call(g)
  PROVE  IInv'
  <1> DEFINE n == Len(stack)
             f == [file |-> g, top |-> FALSE, imported |-> {}]
  <1>0. /\ n \in Nat /\ n >= 1 /\ DOMAIN stack = 1..n /\ stack \in Seq(Frames)
        /\ \A k \in 1..n : stack[k] \in Frames
    BY Basics
  <1>1. /\ stack' = Append(stack, f)
        /\ UNCHANGED <<cache, loading, error, failed, finished, uses>>
    BY DEF Call
  <1>f. f \in Frames /\ ~f.top /\ f.file = g /\ f.imported = {}
    BY DEF Frames, Files
  <1> HIDE DEF f
  <1>2. /\ Len(stack') = n + 1 /\ stack' \in Seq(Frames) /\ stack'[n + 1] = f
        /\ DOMAIN stack' = 1..n + 1 /\ \A k \in 1..n : stack'[k] = stack[k]
    BY <1>0, <1>1, <1>f
  <1>3. Keeps(n)
    <2>1. n <= Len(stack) /\ n <= Len(stack')
      BY <1>0, <1>2
    <2>2. \A k \in 1..n : ~stack[k].top => stack[k].imported = {}
      BY <1>0 DEF IInv, Shape
    <2> QED BY <1>2, <2>1, <2>2 DEF Keeps
  <1>4. Shape' /\ LoadStackExact'
    BY <1>1, <1>2, <1>3, <1>f, Pushed
  <1>5. TypeOK' /\ CacheExact'
    BY <1>1, <1>2 DEF IInv, TypeOK, CacheExact, IsLoading
  <1>6. ImportsRun'
    <2> SUFFICES ASSUME NEW i \in 1..n + 1, NEW h \in stack'[i].imported \ cache
                 PROVE  \E k \in i + 1..n + 1 : /\ stack'[k].top /\ stack'[k].file = h
                                                /\ \A j \in i + 1..k - 1 : ~stack'[j].top
      BY <1>1, <1>2 DEF ImportsRun
    <2>1. i \in 1..n /\ h \in stack[i].imported \ cache
      BY <1>0, <1>2, <1>f
    <2>2. PICK k \in i + 1..n : /\ stack[k].top /\ stack[k].file = h
                               /\ \A j \in i + 1..k - 1 : ~stack[j].top
      BY <1>0, <2>1 DEF IInv, ImportsRun
    <2>3. k \in 1..n /\ k \in i + 1..n + 1 /\ \A j \in i + 1..k - 1 : j \in 1..n
      BY <1>0
    <2>4. /\ stack'[k].top /\ stack'[k].file = h
          /\ \A j \in i + 1..k - 1 : ~stack'[j].top
      BY <1>2, <2>2, <2>3
    <2> QED BY <2>3, <2>4
  <1> QED BY <1>4, <1>5, <1>6 DEF IInv

\* A call returns, or its error goes on to the caller.
LEMMA StepCallEnds ==
  ASSUME IInv, ~Current.top, stack' = Front(stack), error' \in Errors,
         UNCHANGED <<cache, loading, finished, uses>>
  PROVE  IInv'
  <1> DEFINE n == Len(stack)
  <1>0. /\ n \in Nat /\ n >= 1 /\ DOMAIN stack = 1..n /\ stack \in Seq(Frames)
        /\ Current = stack[n] /\ ~stack[n].top
    BY Basics
  <1>1. n > 1
    <2>1. stack[1].top
      BY DEF IInv, Shape
    <2> QED BY <1>0, <2>1
  <1>2. /\ stack' \in Seq(Frames) /\ Len(stack') = n - 1 /\ DOMAIN stack' = 1..n - 1
        /\ \A k \in 1..n - 1 : stack'[k] = stack[k] /\ k \in 1..n
    <2>1. /\ Front(stack) \in Seq(Frames) /\ Len(Front(stack)) = n - 1
          /\ \A k \in 1..n - 1 : Front(stack)[k] = stack[k]
      BY <1>1, FrontIs
    <2>2. DOMAIN Front(stack) = 1..n - 1 /\ \A k \in 1..n - 1 : k \in 1..n
      BY <1>0, <2>1
    <2> QED BY <2>1, <2>2
  <1>3. Keeps(n - 1)
    <2>1. n - 1 <= Len(stack) /\ n - 1 <= Len(stack')
      BY <1>0, <1>2
    <2>2. \A k \in 1..n : ~stack[k].top => stack[k].imported = {}
      BY <1>0 DEF IInv, Shape
    <2> QED BY <1>2, <2>1, <2>2 DEF Keeps
  <1>4. Shape' /\ LoadStackExact'
    BY <1>1, <1>2, <1>3, Popped
  <1>5. TypeOK' /\ CacheExact'
    BY <1>2 DEF IInv, TypeOK, CacheExact, IsLoading
  <1>6. ImportsRun'
    <2> SUFFICES ASSUME NEW i \in 1..n - 1, NEW h \in stack'[i].imported \ cache
                 PROVE  \E k \in i + 1..n - 1 : /\ stack'[k].top /\ stack'[k].file = h
                                                /\ \A j \in i + 1..k - 1 : ~stack'[j].top
      BY <1>2 DEF ImportsRun
    <2>1. h \in stack[i].imported \ cache /\ i \in 1..n
      BY <1>2
    <2>2. PICK k \in i + 1..n : /\ stack[k].top /\ stack[k].file = h
                               /\ \A j \in i + 1..k - 1 : ~stack[j].top
      BY <1>0, <2>1 DEF IInv, ImportsRun
    <2>3. k # n
      BY <1>0, <2>2
    <2>4. k \in 1..n - 1 /\ k \in i + 1..n - 1 /\ \A j \in i + 1..k - 1 : j \in 1..n - 1
      <3>1. n \in Nat
        BY <1>0
      <3> HIDE DEF n
      <3> QED BY <2>3, <3>1
    <2>5. /\ stack'[k].top /\ stack'[k].file = h
          /\ \A j \in i + 1..k - 1 : ~stack'[j].top
      BY <1>2, <2>2, <2>4
    <2> QED BY <2>4, <2>5
  <1> QED BY <1>4, <1>5, <1>6 DEF IInv

\* A grain's top level fails.  Its importer's VM is the nearest top level below
\* and the only one that counts the grain as imported because it runs it.
LEMMA StepGrainFails ==
  ASSUME IInv, GrainFails
  PROVE  IInv'
  <1> DEFINE n == Len(stack)
             d == Current.file
             s == Front(stack)
             v == Vm(s)
             r == [s[v] EXCEPT !.imported = @ \ {d}]
  <1>0. /\ n \in Nat /\ n > 1 /\ DOMAIN stack = 1..n /\ stack \in Seq(Frames)
        /\ loading \in Seq(Grains) /\ Current = stack[n] /\ stack[n].top
        /\ \A k \in 1..n : stack[k] \in Frames
    BY Basics DEF GrainFails
  <1>1. /\ stack' = [s EXCEPT ![v].imported = @ \ {d}] /\ loading' = Front(loading)
        /\ error' = "thrown" /\ UNCHANGED <<cache, finished, uses>>
    BY DEF GrainFails, Forget, LoadingAfterError
  <1>2. /\ s \in Seq(Frames) /\ Len(s) = n - 1
        /\ \A k \in 1..n - 1 : s[k] = stack[k]
    BY <1>0, FrontIs
  <1>3. DOMAIN s = 1..n - 1 /\ \A k \in 1..n - 1 : k \in 1..n
    BY <1>0, <1>2
  <1>4. v \in 1..n - 1 /\ IsVm(stack, v, n - 1)
    BY <1>0, ImporterVm
  <1>5. /\ r \in Frames /\ r.file = stack[v].file /\ (r.top <=> stack[v].top)
        /\ r.imported = stack[v].imported \ {d}
    <2>1. s[v] = stack[v] /\ stack[v] \in Frames
      BY <1>0, <1>2, <1>3, <1>4
    <2> QED BY <2>1 DEF Frames
  <1>6. stack' = [s EXCEPT ![v] = r]
    BY <1>1, <1>3, <1>4
  <1>7. /\ Depth(stack, n) \in DOMAIN loading /\ loading[Depth(stack, n)] = d
        /\ Len(loading) = Depth(stack, n) /\ d \in Grains
    <2>1. n \in 2..n
      BY <1>0
    <2>2. Depth(stack, n) \in DOMAIN loading /\ loading[Depth(stack, n)] = d
      BY <1>0, <2>1, Placed
    <2> QED BY <1>0, <2>1, <2>2 DEF IInv, LoadStackExact, Shape
  <1> HIDE DEF r, v, s
  <1>8. /\ stack' \in Seq(Frames) /\ Len(stack') = n - 1 /\ DOMAIN stack' = 1..n - 1
        /\ stack'[v] = r /\ \A k \in 1..n - 1 : k # v => stack'[k] = stack[k]
    <2>1. stack' \in Seq(Frames)
      BY <1>2, <1>3, <1>4, <1>5, <1>6, ExceptSeq
    <2>2. Len(stack') = n - 1 /\ DOMAIN stack' = 1..n - 1
      BY <1>2, <1>3, <1>4, <1>5, <1>6, ExceptSeq, <1>0
    <2>3. stack'[v] = r /\ \A k \in 1..n - 1 : k # v => stack'[k] = stack[k]
      BY <1>2, <1>3, <1>4, <1>6
    <2> QED BY <2>1, <2>2, <2>3
  <1>9. \A k \in 1..n - 1 :
          /\ stack'[k].file = stack[k].file
          /\ stack'[k].top <=> stack[k].top
          /\ stack'[k].imported = IF k = v THEN stack[k].imported \ {d} ELSE stack[k].imported
    BY <1>5, <1>8
  <1>10. Keeps(n - 1)
    <2>1. n - 1 <= Len(stack) /\ n - 1 <= Len(stack')
      BY <1>0, <1>8
    <2>2. \A k \in 1..n - 1 : ~stack[k].top => stack[k].imported = {} /\ k # v
      BY <1>0, <1>3, <1>4 DEF IInv, Shape, IsVm
    <2>3. ASSUME NEW k \in 1..n - 1
          PROVE  /\ stack'[k].top <=> stack[k].top
                 /\ stack'[k].file = stack[k].file
                 /\ ~stack'[k].top => stack'[k].imported = {}
      BY <1>9, <2>2
    <2> QED BY <2>1, <2>3 DEF Keeps
  <1>11. Shape' /\ LoadStackExact'
    BY <1>0, <1>1, <1>8, <1>10, Popped
  <1>12. loading' \in Seq(Grains) /\ \A g \in Grains : IsLoading(g)' => IsLoading(g)
    <2>1. Len(loading) \in Nat /\ Len(loading) >= 1
      BY <1>0, <1>7
    <2>2. /\ loading' \in Seq(Grains) /\ DOMAIN loading' = 1..Len(loading) - 1
          /\ \A i \in 1..Len(loading) - 1 : loading'[i] = loading[i]
      BY <1>0, <1>1, <2>1 DEF Front
    <2> QED BY <1>0, <2>1, <2>2 DEF IsLoading
  <1>13. TypeOK' /\ CacheExact'
    BY <1>1, <1>8, <1>12 DEF IInv, TypeOK, Errors, CacheExact
  <1>14. ImportsRun'
    <2>0. cache' = cache /\ Len(stack') = n - 1 /\ DOMAIN stack' = 1..n - 1
      BY <1>1, <1>8
    <2> SUFFICES ASSUME NEW i \in 1..n - 1, NEW h \in stack'[i].imported \ cache
                 PROVE  \E k \in i + 1..n - 1 : /\ stack'[k].top /\ stack'[k].file = h
                                                /\ \A j \in i + 1..k - 1 : ~stack'[j].top
      BY <2>0 DEF ImportsRun
    <2>1. h \in stack[i].imported \ cache /\ i \in 1..n /\ (i = v => h # d)
      BY <1>3, <1>9
    <2>2. PICK k \in i + 1..n : /\ stack[k].top /\ stack[k].file = h
                               /\ \A j \in i + 1..k - 1 : ~stack[j].top
      BY <1>0, <2>1 DEF IInv, ImportsRun
    <2>3. k # n
      <3> SUFFICES ASSUME k = n PROVE FALSE
        OBVIOUS
      <3>1. h = d /\ stack[i].top
        BY <1>0, <2>1, <2>2 DEF IInv, Shape
      <3>2. IsVm(stack, i, n - 1)
        BY <1>0, <2>2, <3>1 DEF IsVm
      <3>3. i \in Nat /\ v \in Nat /\ n - 1 \in Nat
        BY <1>0, <1>4
      <3> QED BY <1>4, <2>1, <3>1, <3>2, <3>3, VmIsOne
    <2>4. k \in 1..n - 1 /\ k \in i + 1..n - 1 /\ \A j \in i + 1..k - 1 : j \in 1..n - 1
      <3>1. n \in Nat
        BY <1>0
      <3> HIDE DEF n
      <3> QED BY <2>3, <3>1
    <2>5. /\ stack'[k].top /\ stack'[k].file = h
          /\ \A j \in i + 1..k - 1 : ~stack'[j].top
      BY <1>9, <2>2, <2>4
    <2> QED BY <2>4, <2>5
  <1> QED BY <1>11, <1>13, <1>14 DEF IInv

\* What only raises or catches an error leaves the invariant alone.
LEMMA StepError ==
  ASSUME IInv, UNCHANGED <<stack, cache, loading, finished, uses>>, error' \in Errors
  PROVE  IInv'
  <1>1. TypeOK' /\ Shape'
    BY DEF IInv, TypeOK, Shape, IsVm
  <1>3. ImportsRun'
    BY DEF IInv, ImportsRun
  <1>2. CacheExact' /\ LoadStackExact'
    BY DEF IInv, CacheExact, IsLoading, LoadStackExact, Depth
  <1> QED BY <1>1, <1>2, <1>3 DEF IInv

LEMMA StepKeeps == IInv /\ [Next]_vars => IInv'
  <1> SUFFICES ASSUME IInv, [Next]_vars PROVE IInv'
    OBVIOUS
  <1>1. ASSUME NEW g \in Grains, UseDuplicate(g) \/ UseFails(g) PROVE IInv'
    <2>1. UNCHANGED <<stack, cache, loading, finished, uses>> /\ error' \in Errors
      BY <1>1 DEF UseDuplicate, UseFails, Raise, Errors
    <2> QED BY <2>1, StepError
  <1>2. ASSUME NEW g \in Grains, UseCached(g) PROVE IInv'
    BY <1>2, StepUseCached
  <1>3. ASSUME NEW g \in Grains, UseRuns(g) PROVE IInv'
    BY <1>3, StepUseRuns
  <1>4. ASSUME NEW g \in Grains, Call(g) PROVE IInv'
    BY <1>4, StepCall
  <1>5. ASSUME Finish PROVE IInv'
    BY <1>5, StepFinish
  <1>6. ASSUME Throw \/ Catch PROVE IInv'
    <2>1. UNCHANGED <<stack, cache, loading, finished, uses>> /\ error' \in Errors
      BY <1>6 DEF Throw, Catch, Errors
    <2> QED BY <2>1, StepError
  <1>7. ASSUME GrainFails PROVE IInv'
    BY <1>7, StepGrainFails
  <1>8. ASSUME CallFails \/ Return PROVE IInv'
    <2>1. /\ ~Current.top /\ stack' = Front(stack) /\ error' \in Errors
          /\ UNCHANGED <<cache, loading, finished, uses>>
      BY <1>8 DEF CallFails, Return, IInv, TypeOK
    <2> QED BY <2>1, StepCallEnds
  <1>9. ASSUME UNCHANGED vars PROVE IInv'
    <2>1. UNCHANGED <<stack, cache, loading, finished, uses>> /\ error' \in Errors
      BY <1>9 DEF vars, IInv, TypeOK
    <2> QED BY <2>1, StepError
  <1> QED BY <1>1, <1>2, <1>3, <1>4, <1>5, <1>6, <1>7, <1>8, <1>9 DEF Next

-----------------------------------------------------------------------------
(* The theorems.                                                             *)

\* Every behaviour of the grain loader satisfies IInv.
THEOREM Invariant == Spec => []IInv
  <1> QED BY InitHolds, StepKeeps, PTL DEF Spec

\* TypeOK: frames, tables and counters keep their types; in particular the
\* bound on how often a grain finishes is never what stops a load.
THEOREM TypeCorrect == Spec => []TypeOK
  <1>1. IInv => TypeOK
    BY DEF IInv
  <1> QED BY Invariant, <1>1, PTL

\* LoadingExact: whatever is imported by whom, however deep, and whatever fails
\* and is caught on the way, a grain's top level finishes at most once, the load
\* stack is the chain of grains being loaded, no grain twice, and a grain counts
\* as imported only when it is cached or being loaded, so that a failed import
\* can be tried again (VM::loadGrain, FailedImportGuard).
THEOREM LoadingIsExact == Spec => []LoadingExact
  <1>1. IInv => LoadingExact
    <2> SUFFICES ASSUME IInv PROVE LoadingExact
      OBVIOUS
    <2>1. RunsOnce
      <3>1. \A g \in Grains : finished[g] = IF g \in cache THEN 1 ELSE 0
        BY DEF IInv, CacheExact
      <3> QED BY <3>1 DEF RunsOnce
    <2>2. LoadStackExact
      BY DEF IInv
    <2>3. FailedCanBeRetried
      <3> SUFFICES ASSUME NEW i \in DOMAIN stack, NEW g \in stack[i].imported, g \notin cache
                   PROVE  IsLoading(g)
        BY DEF FailedCanBeRetried
      <3>1. PICK k \in i + 1..Len(stack) : stack[k].top /\ stack[k].file = g
        BY DEF IInv, ImportsRun
      <3>2. k \in 2..Len(stack)
        BY Basics
      <3>3. Depth(stack, k) \in DOMAIN loading /\ loading[Depth(stack, k)] = g
        BY <3>1, <3>2, Placed
      <3> QED BY <3>3 DEF IsLoading
    <2> QED BY <2>1, <2>2, <2>3 DEF LoadingExact
  <1> QED BY Invariant, <1>1, PTL

\* No chain of imports is longer than there are grains.
ChainIsShort == Len(loading) <= Cardinality(Grains)

\* ChainIsShort: since a cycle is refused at its first repetition, imports nest
\* at most as deep as there are grains, each level being a VM of its own on the
\* C++ stack (VM::loadGrain).
THEOREM ImportsEnd ==
  ASSUME IsFiniteSet(Grains)
  PROVE  Spec => []ChainIsShort
  <1>1. ASSUME IInv PROVE ChainIsShort
    <2> DEFINE n == Len(loading)
               I == 1..n
    <2>1. n \in Nat /\ DOMAIN loading = I /\ loading \in [I -> Grains]
      BY <1>1, Basics
    <2>2. \A i, j \in I : loading[i] = loading[j] => i = j
      BY <1>1, <2>1 DEF IInv, LoadStackExact
    <2>3. IsFiniteSet(I) /\ Cardinality(I) = n
      BY <2>1, FS_Interval
    <2>4. loading \in Injection(I, Grains)
      BY <2>1, <2>2 DEF Injection, IsInjective
    <2> HIDE DEF I
    <2>5. Cardinality(I) <= Cardinality(Grains)
      BY <2>4, FS_Injection
    <2> QED BY <2>3, <2>5 DEF ChainIsShort
  <1>2. IInv => ChainIsShort
    BY <1>1
  <1> QED BY Invariant, <1>2, PTL
=============================================================================
