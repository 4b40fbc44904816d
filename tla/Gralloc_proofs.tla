--------------------------- MODULE Gralloc_proofs ---------------------------
(***************************************************************************)
(* Proofs about Gralloc.  A call under way is found at a place: a thread   *)
(* and a position in its queue.  The first part counts places and          *)
(* references and proves, whatever rules the guest keeps, that the host's  *)
(* count is the number of references.  The second part, for a guest that   *)
(* keeps both rules, looks at every cut of the queues, that is, at every   *)
(* set of calls the host may have executed next, and shows that a buffer   *)
(* in use exists on the host.  The third part is the refinement of         *)
(* HandleTables.                                                           *)
(***************************************************************************)
EXTENDS Gralloc, FiniteSetTheorems, FunctionTheorems, SequenceTheorems, TLAPS

\* where call c stands in the queues U of the threads of S
Places(S, U, c) ==
    {d \in S \X (1 .. MaxOut) : d[2] <= Len(U[d[1]]) /\ U[d[1]][d[2]] = c}

\* the calls of each thread that the host has not executed
Queues == [t \in Threads |-> Undelivered(t)]

\* queues of calls within the bound
Bounded(U) == U \in [Threads -> Seq(Calls)] /\ \A t \in Threads : Len(U[t]) <= MaxOut

\* V is U with e at the end of the queue of t
Extended(U, V, t, e) == Len(U[t]) < MaxOut /\ V = [U EXCEPT ![t] = Append(@, e)]

\* V is U without the first call of t
Shortened(U, V, t) == U[t] # <<>> /\ V = [U EXCEPT ![t] = Tail(@)]

\* the queues U are V followed by W, and X is U with only V left in the threads of S
Cut(U, V, W, X, S) ==
    /\ V \in [Threads -> Seq(Calls)] /\ W \in [Threads -> Seq(Calls)]
    /\ X \in [Threads -> Seq(Calls)] /\ S \subseteq Threads
    /\ \A t \in Threads : U[t] = V[t] \o W[t]
    /\ \A t \in S : X[t] = V[t]
    /\ \A t \in Threads \ S : X[t] = U[t]

-----------------------------------------------------------------------------
(* Places *)

\* call c is at position i of the queue of u
At(S, U, c, u, i) == u \in S /\ i \in 1 .. MaxOut /\ i <= Len(U[u]) /\ U[u][i] = c

\* The members of Places.
LEMMA PlaceIs ==
  /\ \A S, U, c, u, i : <<u, i>> \in Places(S, U, c) <=> At(S, U, c, u, i)
  /\ \A S, U, c : \A d \in Places(S, U, c) : d = <<d[1], d[2]>>
  BY DEF Places, At

\* A place is a thread and a position.
LEMMA PlaceOf ==
  ASSUME NEW S, NEW U, NEW c, NEW d \in Places(S, U, c)
  PROVE  /\ d = <<d[1], d[2]>> /\ At(S, U, c, d[1], d[2])
         /\ d[1] \in S /\ d[2] \in Int /\ d[2] >= 1 /\ d[2] <= MaxOut
  <1>1. d = <<d[1], d[2]>>
    BY PlaceIs
  <1>2. At(S, U, c, d[1], d[2])
    BY <1>1, PlaceIs
  <1> QED BY <1>1, <1>2, BoundsAssumption DEF At

\* There are finitely many places.
LEMMA PlacesFinite ==
  ASSUME NEW S, S \subseteq Threads, NEW U, NEW c
  PROVE  /\ IsFiniteSet(Places(S, U, c))
         /\ Cardinality(Places(S, U, c)) \in Nat
         /\ Cardinality(Places(S, U, c)) <= Cardinality(S \X (1 .. MaxOut))
         /\ IsFiniteSet(S \X (1 .. MaxOut)) /\ Cardinality(S \X (1 .. MaxOut)) \in Nat
  <1>1. IsFiniteSet(S)
    BY FiniteAssumption, FS_Subset
  <1>2. IsFiniteSet(1 .. MaxOut)
    BY BoundsAssumption, FS_Interval
  <1>3. IsFiniteSet(S \X (1 .. MaxOut))
    BY <1>1, <1>2, FS_Product
  <1>4. Places(S, U, c) \in SUBSET (S \X (1 .. MaxOut))
    BY DEF Places
  <1> QED BY <1>3, <1>4, FS_Subset, FS_CardinalityType

\* what an extension, a removal and a cut do to the places of c
PlaceAdded(U, V, t, e, c) ==
    /\ Bounded(V)
    /\ <<t, Len(U[t]) + 1>> \notin Places(Threads, U, c)
    /\ c = e => Places(Threads, V, c) = Places(Threads, U, c) \cup {<<t, Len(U[t]) + 1>>}
    /\ c # e => Places(Threads, V, c) = Places(Threads, U, c)
    /\ c = e => Cardinality(Places(Threads, V, c)) = Cardinality(Places(Threads, U, c)) + 1
    /\ \A u, i : At(Threads, V, c, u, i)
                   <=> At(Threads, U, c, u, i) \/ (c = e /\ u = t /\ i = Len(U[t]) + 1)

PlaceTaken(U, V, t, c) ==
    /\ Bounded(V)
    /\ At(Threads, U, c, t, 1) <=> U[t][1] = c
    /\ \A u, i : u # t => (At(Threads, V, c, u, i) <=> At(Threads, U, c, u, i))
    /\ \A i \in Int : At(Threads, V, c, t, i) <=> i >= 1 /\ At(Threads, U, c, t, i + 1)
    /\ U[t][1] = c => Cardinality(Places(Threads, U, c)) = Cardinality(Places(Threads, V, c)) + 1
    /\ U[t][1] # c => Cardinality(Places(Threads, U, c)) = Cardinality(Places(Threads, V, c))

PlacesCut(U, V, W, X, S, c) ==
    /\ Bounded(X)
    /\ \A u, i : At(Threads, X, c, u, i)
                   <=> At(Threads, U, c, u, i) /\ (u \in S => i <= Len(V[u]))
    /\ Cardinality(Places(Threads, U, c))
         = Cardinality(Places(Threads, X, c)) + Cardinality(Places(S, W, c))

\* A call put at the end of a queue has a place of its own.
LEMMA AppendPlaces ==
  ASSUME NEW U, Bounded(U), NEW t \in Threads, NEW e \in Calls,
         NEW V, Extended(U, V, t, e), NEW c
  PROVE  PlaceAdded(U, V, t, e, c)
  <1>0. Len(U[t]) < MaxOut /\ V = [U EXCEPT ![t] = Append(@, e)]
    BY DEF Extended
  <1>1. U[t] \in Seq(Calls) /\ Len(U[t]) \in Nat
    BY DEF Bounded
  <1>2. /\ V[t] \in Seq(Calls) /\ Len(V[t]) = Len(U[t]) + 1
        /\ \A i \in 1 .. Len(U[t]) : V[t][i] = U[t][i]
        /\ V[t][Len(U[t]) + 1] = e
    BY <1>0, <1>1, AppendProperties DEF Bounded
  <1>3. V \in [Threads -> Seq(Calls)] /\ \A u \in Threads \ {t} : V[u] = U[u]
    BY <1>0, <1>1, <1>2 DEF Bounded
  <1>4. Bounded(V)
    <2>1. Len(V[t]) <= MaxOut
      BY <1>0, <1>1, <1>2, BoundsAssumption
    <2> QED BY <1>3, <2>1 DEF Bounded
  <1>5. <<t, Len(U[t]) + 1>> \notin Places(Threads, U, c)
    <2>1. ~At(Threads, U, c, t, Len(U[t]) + 1)
      BY <1>1 DEF At
    <2> QED BY <2>1, PlaceIs
  <1>6. \A u, i : u # t => (<<u, i>> \in Places(Threads, V, c) <=> <<u, i>> \in Places(Threads, U, c))
    <2>1. \A u, i : u # t => (At(Threads, V, c, u, i) <=> At(Threads, U, c, u, i))
      BY <1>3 DEF At
    <2> QED BY <2>1, PlaceIs
  <1>7. \A i : <<t, i>> \in Places(Threads, V, c)
                 <=> <<t, i>> \in Places(Threads, U, c) \/ (i = Len(U[t]) + 1 /\ c = e)
    <2> SUFFICES ASSUME NEW i
                 PROVE  At(Threads, V, c, t, i)
                          <=> At(Threads, U, c, t, i) \/ (i = Len(U[t]) + 1 /\ c = e)
      BY PlaceIs
    <2>1. CASE i \in 1 .. Len(U[t])
      BY <1>0, <1>1, <1>2, <2>1, BoundsAssumption DEF At
    <2>2. CASE i = Len(U[t]) + 1
      BY <1>0, <1>1, <1>2, <2>2, BoundsAssumption DEF At
    <2>3. CASE i \notin 1 .. Len(U[t]) + 1
      <3>1. i \in 1 .. MaxOut => ~(i <= Len(U[t])) /\ ~(i <= Len(V[t])) /\ i # Len(U[t]) + 1
        BY <1>0, <1>1, <1>2, <2>3, BoundsAssumption
      <3>2. i # Len(U[t]) + 1
        BY <1>1, <2>3
      <3> QED BY <3>1, <3>2 DEF At
    <2> QED BY <1>1, <2>1, <2>2, <2>3
  <1>8. c = e => Places(Threads, V, c) = Places(Threads, U, c) \cup {<<t, Len(U[t]) + 1>>}
    <2> SUFFICES ASSUME c = e, NEW d
                 PROVE  d \in Places(Threads, V, c)
                          <=> d \in Places(Threads, U, c) \cup {<<t, Len(U[t]) + 1>>}
      OBVIOUS
    <2>1. CASE d = <<d[1], d[2]>>
      BY <2>1, <1>6, <1>7
    <2>2. CASE d # <<d[1], d[2]>>
      BY <2>2, PlaceIs
    <2> QED BY <2>1, <2>2
  <1>9. c # e => Places(Threads, V, c) = Places(Threads, U, c)
    <2> SUFFICES ASSUME c # e, NEW d
                 PROVE  d \in Places(Threads, V, c) <=> d \in Places(Threads, U, c)
      OBVIOUS
    <2>1. CASE d = <<d[1], d[2]>>
      BY <2>1, <1>6, <1>7
    <2>2. CASE d # <<d[1], d[2]>>
      BY <2>2, PlaceIs
    <2> QED BY <2>1, <2>2
  <1>10. c = e => Cardinality(Places(Threads, V, c)) = Cardinality(Places(Threads, U, c)) + 1
    BY <1>5, <1>8, PlacesFinite, FS_AddElement
  <1>11. ASSUME NEW u, NEW i
         PROVE  At(Threads, V, c, u, i)
                  <=> At(Threads, U, c, u, i) \/ (c = e /\ u = t /\ i = Len(U[t]) + 1)
    <2>1. CASE u = t
      BY <2>1, <1>7, PlaceIs
    <2>2. CASE u # t
      BY <2>2, <1>6, PlaceIs
    <2> QED BY <2>1, <2>2
  <1> QED BY <1>4, <1>5, <1>8, <1>9, <1>10, <1>11 DEF PlaceAdded

\* A function that is one-to-one and onto makes two sets equally large.
LEMMA CountedBy ==
  ASSUME NEW A, NEW B, IsFiniteSet(A), NEW f \in [A -> B],
         \A x, y \in A : f[x] = f[y] => x = y,
         \A y \in B : \E x \in A : f[x] = y
  PROVE  Cardinality(B) = Cardinality(A)
  <1>1. f \in Bijection(A, B)
    BY Fun_IsBij, Fun_IsInj, Fun_IsSurj
  <1>2. ExistsBijection(A, B)
    BY <1>1 DEF ExistsBijection
  <1> QED BY <1>2, FS_Bijection

\* The first call of a queue is taken away: the others move up.
LEMMA TailPlaces ==
  ASSUME NEW U, Bounded(U), NEW t \in Threads, NEW V, Shortened(U, V, t), NEW c
  PROVE  PlaceTaken(U, V, t, c)
  <1>0. U[t] # <<>> /\ V = [U EXCEPT ![t] = Tail(@)]
    BY DEF Shortened
  <1>1. U[t] \in Seq(Calls) /\ Len(U[t]) \in Nat /\ Len(U[t]) >= 1 /\ Len(U[t]) <= MaxOut
    BY <1>0, EmptySeq DEF Bounded
  <1>2. /\ V[t] \in Seq(Calls) /\ Len(V[t]) = Len(U[t]) - 1
        /\ \A i \in 1 .. Len(U[t]) - 1 : V[t][i] = U[t][i + 1]
    BY <1>0, <1>1, HeadTailProperties DEF Bounded
  <1>3. V \in [Threads -> Seq(Calls)] /\ \A u \in Threads \ {t} : V[u] = U[u]
    BY <1>0, <1>1, <1>2 DEF Bounded
  <1>4. Bounded(V)
    <2>1. Len(V[t]) <= MaxOut
      BY <1>1, <1>2, BoundsAssumption
    <2> QED BY <1>3, <2>1 DEF Bounded
  <1>5. At(Threads, U, c, t, 1) <=> U[t][1] = c
    BY <1>1, BoundsAssumption DEF At
  <1>6. \A u, i : u # t => (At(Threads, V, c, u, i) <=> At(Threads, U, c, u, i))
    BY <1>3 DEF At
  <1>7. \A i \in Int : At(Threads, V, c, t, i) <=> i >= 1 /\ At(Threads, U, c, t, i + 1)
    <2> SUFFICES ASSUME NEW i \in Int
                 PROVE  At(Threads, V, c, t, i) <=> i >= 1 /\ At(Threads, U, c, t, i + 1)
      OBVIOUS
    <2>1. CASE i \in 1 .. Len(U[t]) - 1
      BY <1>1, <1>2, <2>1, BoundsAssumption DEF At
    <2>2. CASE i \notin 1 .. Len(U[t]) - 1
      BY <1>1, <1>2, <2>2, BoundsAssumption DEF At
    <2> QED BY <2>1, <2>2
  <1> DEFINE A == Places(Threads, V, c)
             B == Places(Threads, U, c) \ {<<t, 1>>}
             f == [d \in A |-> IF d[1] = t THEN <<t, d[2] + 1>> ELSE d]
  <1>8. Cardinality(B) = Cardinality(A)
    <2>1. \A d \in A : /\ d = <<d[1], d[2]>> /\ d[1] \in Threads /\ d[2] \in Int /\ d[2] >= 1
                       /\ At(Threads, V, c, d[1], d[2])
      BY PlaceOf
    <2>2. \A d \in A : f[d] \in B
      <3> SUFFICES ASSUME NEW d \in A PROVE f[d] \in B
        OBVIOUS
      <3>1. CASE d[1] = t
        <4>0. d[2] \in Int /\ d[2] >= 1 /\ At(Threads, V, c, t, d[2])
          BY <2>1, <3>1
        <4>1. At(Threads, U, c, t, d[2] + 1)
          BY <4>0, <1>7
        <4>2. d[2] + 1 # 1
          BY <4>0
        <4> QED BY <3>1, <4>1, <4>2, PlaceIs
      <3>2. CASE d[1] # t
        <4>1. At(Threads, U, c, d[1], d[2])
          BY <2>1, <1>6, <3>2
        <4>2. d \in Places(Threads, U, c) /\ d # <<t, 1>>
          BY <2>1, <3>2, <4>1, PlaceIs
        <4> QED BY <3>2, <4>2
      <3> QED BY <3>1, <3>2
    <2>3. f \in [A -> B]
      BY <2>2
    <2>4. \A x, y \in A : f[x] = f[y] => x = y
      <3> SUFFICES ASSUME NEW x \in A, NEW y \in A, f[x] = f[y] PROVE x = y
        OBVIOUS
      <3>1. x = <<x[1], x[2]>> /\ y = <<y[1], y[2]>> /\ x[2] \in Int /\ y[2] \in Int
        BY <2>1
      <3>2. f[x][1] = x[1] /\ f[y][1] = y[1]
        BY <3>1
      <3>3. CASE x[1] = t
        <4>1. y[1] = t
          BY <3>2, <3>3
        <4>2. f[x] = <<t, x[2] + 1>> /\ f[y] = <<t, y[2] + 1>>
          BY <3>3, <4>1
        <4>3. x[2] = y[2]
          BY <3>1, <4>2
        <4> QED BY <3>1, <3>3, <4>1, <4>3
      <3>4. CASE x[1] # t
        <4>1. y[1] # t
          BY <3>2, <3>4
        <4> QED BY <3>4, <4>1
      <3> QED BY <3>3, <3>4
    <2>5. \A y \in B : \E x \in A : f[x] = y
      <3> SUFFICES ASSUME NEW y \in B PROVE \E x \in A : f[x] = y
        OBVIOUS
      <3>1. y = <<y[1], y[2]>> /\ At(Threads, U, c, y[1], y[2]) /\ y[2] \in Int /\ y[2] >= 1
        BY PlaceOf
      <3>2. CASE y[1] = t
        <4>1. y[2] # 1
          BY <3>1, <3>2
        <4>2. y[2] - 1 \in Int /\ y[2] - 1 >= 1 /\ (y[2] - 1) + 1 = y[2]
          BY <3>1, <4>1, BoundsAssumption
        <4>3. At(Threads, V, c, t, y[2] - 1)
          BY <3>1, <3>2, <4>2, <1>7
        <4>4. <<t, y[2] - 1>> \in A
          BY <4>3, PlaceIs
        <4>5. f[<<t, y[2] - 1>>] = y
          BY <3>1, <3>2, <4>2, <4>4
        <4> QED BY <4>4, <4>5
      <3>3. CASE y[1] # t
        <4>1. y \in A
          <5>1. At(Threads, V, c, y[1], y[2])
            BY <3>1, <3>3, <1>6, Zenon
          <5> QED BY <3>1, <5>1, PlaceIs
        <4> QED BY <3>3, <4>1
      <3> QED BY <3>2, <3>3
    <2> HIDE DEF f, A, B
    <2>6. IsFiniteSet(A)
      BY PlacesFinite DEF A
    <2> QED BY <2>3, <2>4, <2>5, <2>6, CountedBy
  <1>9. IsFiniteSet(Places(Threads, U, c)) /\ Cardinality(Places(Threads, U, c)) \in Nat
    BY PlacesFinite
  <1>10. U[t][1] = c => Cardinality(Places(Threads, U, c)) = Cardinality(Places(Threads, V, c)) + 1
    <2>1. U[t][1] = c => <<t, 1>> \in Places(Threads, U, c)
      BY <1>5, PlaceIs
    <2>2. U[t][1] = c => Cardinality(B) = Cardinality(Places(Threads, U, c)) - 1
      BY <1>9, <2>1, FS_RemoveElement
    <2> QED BY <1>8, <1>9, <2>2
  <1>11. U[t][1] # c => Cardinality(Places(Threads, U, c)) = Cardinality(Places(Threads, V, c))
    <2>1. U[t][1] # c => <<t, 1>> \notin Places(Threads, U, c)
      BY <1>5, PlaceIs
    <2>2. U[t][1] # c => Cardinality(B) = Cardinality(Places(Threads, U, c))
      BY <1>9, <2>1, FS_RemoveElement
    <2> QED BY <1>8, <1>9, <2>2
  <1> QED BY <1>4, <1>5, <1>6, <1>7, <1>10, <1>11 DEF PlaceTaken

\* The threads of S lose what they have not flushed, the ends W of their queues.
LEMMA DropPlaces ==
  ASSUME NEW U, Bounded(U), NEW V, NEW W, NEW X, NEW S, Cut(U, V, W, X, S), NEW c
  PROVE  PlacesCut(U, V, W, X, S, c)
  <1> USE DEF Cut
  <1>1. \A t \in Threads :
          /\ Len(V[t]) \in Nat /\ Len(W[t]) \in Nat
          /\ Len(U[t]) = Len(V[t]) + Len(W[t]) /\ Len(U[t]) <= MaxOut
          /\ \A i \in 1 .. Len(U[t]) :
                U[t][i] = IF i <= Len(V[t]) THEN V[t][i] ELSE W[t][i - Len(V[t])]
    <2> SUFFICES ASSUME NEW t \in Threads
                 PROVE  /\ Len(V[t]) \in Nat /\ Len(W[t]) \in Nat
                        /\ Len(U[t]) = Len(V[t]) + Len(W[t]) /\ Len(U[t]) <= MaxOut
                        /\ \A i \in 1 .. Len(U[t]) :
                              U[t][i] = IF i <= Len(V[t]) THEN V[t][i] ELSE W[t][i - Len(V[t])]
      OBVIOUS
    <2>1. V[t] \in Seq(Calls) /\ W[t] \in Seq(Calls) /\ U[t] = V[t] \o W[t]
      OBVIOUS
    <2>2. /\ Len(U[t]) = Len(V[t]) + Len(W[t])
          /\ \A i \in 1 .. Len(V[t]) + Len(W[t]) :
                U[t][i] = IF i <= Len(V[t]) THEN V[t][i] ELSE W[t][i - Len(V[t])]
      BY <2>1, ConcatProperties
    <2>3. Len(V[t]) \in Nat /\ Len(W[t]) \in Nat
      BY <2>1, LenProperties
    <2>4. Len(U[t]) <= MaxOut
      BY DEF Bounded
    <2> QED BY <2>2, <2>3, <2>4
  <1>2. Bounded(X)
    <2>1. \A t \in Threads : Len(X[t]) <= MaxOut
      <3> SUFFICES ASSUME NEW t \in Threads PROVE Len(X[t]) <= MaxOut
        OBVIOUS
      <3>1. CASE t \in S
        <4>1. X[t] = V[t]
          BY <3>1
        <4>2. Len(V[t]) <= MaxOut
          BY <1>1, BoundsAssumption
        <4> QED BY <4>1, <4>2
      <3>2. CASE t \notin S
        BY <3>2, <1>1
      <3> QED BY <3>1, <3>2
    <2> QED BY <2>1 DEF Bounded
  <1>3. ASSUME NEW u, NEW i
        PROVE  At(Threads, X, c, u, i)
                 <=> At(Threads, U, c, u, i) /\ (u \in S => i <= Len(V[u]))
    <2>1. CASE u \in S
      <3>1. X[u] = V[u] /\ u \in Threads
        BY <2>1
      <3>2. i \in 1 .. MaxOut /\ i <= Len(V[u]) => i \in 1 .. Len(U[u]) /\ i <= Len(U[u])
        BY <3>1, <1>1, BoundsAssumption
      <3>3. i \in 1 .. MaxOut /\ i <= Len(V[u]) => U[u][i] = V[u][i]
        BY <3>1, <3>2, <1>1
      <3> QED BY <2>1, <3>1, <3>2, <3>3 DEF At
    <2>2. CASE u \notin S
      BY <2>2 DEF At
    <2> QED BY <2>1, <2>2
  <1> DEFINE A == Places(S, W, c)
             B == Places(Threads, U, c) \ Places(Threads, X, c)
             f == [d \in A |-> <<d[1], Len(V[d[1]]) + d[2]>>]
  <1>4. Cardinality(B) = Cardinality(A)
    <2>1. \A d \in A : /\ d = <<d[1], d[2]>> /\ d[1] \in S /\ d[1] \in Threads
                       /\ d[2] \in Int /\ d[2] >= 1 /\ At(S, W, c, d[1], d[2])
      BY PlaceOf
    <2>2. \A d \in A : f[d] \in B
      <3> SUFFICES ASSUME NEW d \in A PROVE f[d] \in B
        OBVIOUS
      <3> DEFINE j == Len(V[d[1]]) + d[2]
      <3>1. /\ d[1] \in S /\ d[1] \in Threads /\ d[2] \in Int /\ d[2] >= 1
            /\ d[2] <= Len(W[d[1]]) /\ W[d[1]][d[2]] = c
        BY <2>1 DEF At
      <3>2. /\ Len(V[d[1]]) \in Nat /\ Len(U[d[1]]) = Len(V[d[1]]) + Len(W[d[1]])
            /\ Len(U[d[1]]) <= MaxOut /\ Len(W[d[1]]) \in Nat
        BY <3>1, <1>1
      <3>3. j \in 1 .. Len(U[d[1]]) /\ j \in 1 .. MaxOut /\ ~(j <= Len(V[d[1]]))
            /\ j - Len(V[d[1]]) = d[2]
        BY <3>1, <3>2, BoundsAssumption
      <3>4. U[d[1]][j] = c
        BY <3>1, <3>3, <1>1
      <3> HIDE DEF j
      <3>5. At(Threads, U, c, d[1], j) /\ ~At(Threads, X, c, d[1], j)
        BY <3>1, <3>3, <3>4, <1>3 DEF At
      <3>6. <<d[1], j>> \in B
        BY <3>5, PlaceIs
      <3> QED BY <3>6 DEF j
    <2>3. f \in [A -> B]
      BY <2>2
    <2>4. \A x, y \in A : f[x] = f[y] => x = y
      <3> SUFFICES ASSUME NEW x \in A, NEW y \in A, f[x] = f[y] PROVE x = y
        OBVIOUS
      <3>1. /\ x = <<x[1], x[2]>> /\ y = <<y[1], y[2]>> /\ x[2] \in Int /\ y[2] \in Int
            /\ x[1] \in Threads
        BY <2>1
      <3>2. x[1] = y[1] /\ Len(V[x[1]]) + x[2] = Len(V[y[1]]) + y[2]
        OBVIOUS
      <3>3. Len(V[x[1]]) \in Nat
        BY <3>1, <1>1
      <3>4. x[2] = y[2]
        BY <3>1, <3>2, <3>3
      <3> QED BY <3>1, <3>2, <3>4
    <2>5. \A y \in B : \E x \in A : f[x] = y
      <3> SUFFICES ASSUME NEW y \in B PROVE \E x \in A : f[x] = y
        OBVIOUS
      <3>1. /\ y = <<y[1], y[2]>> /\ At(Threads, U, c, y[1], y[2]) /\ y[1] \in Threads
            /\ y[2] \in Int /\ y[2] >= 1
        BY PlaceOf
      <3>2. ~At(Threads, X, c, y[1], y[2])
        BY <3>1, PlaceIs
      <3>3. y[1] \in S /\ ~(y[2] <= Len(V[y[1]]))
        BY <3>1, <3>2, <1>3
      <3>4. /\ Len(V[y[1]]) \in Nat /\ Len(U[y[1]]) = Len(V[y[1]]) + Len(W[y[1]])
            /\ Len(U[y[1]]) <= MaxOut /\ Len(W[y[1]]) \in Nat
        BY <3>1, <1>1
      <3>5. y[2] <= Len(U[y[1]]) /\ U[y[1]][y[2]] = c /\ y[2] \in 1 .. Len(U[y[1]])
        BY <3>1, <3>4 DEF At
      <3>6. PICK k \in Int : k = y[2] - Len(V[y[1]])
        BY <3>1, <3>4
      <3>7. k \in 1 .. MaxOut /\ k <= Len(W[y[1]]) /\ Len(V[y[1]]) + k = y[2]
        BY <3>1, <3>3, <3>4, <3>5, <3>6, BoundsAssumption
      <3>8. W[y[1]][k] = c
        BY <3>1, <3>3, <3>5, <3>6, <1>1
      <3>9. <<y[1], k>> \in A
        BY <3>3, <3>7, <3>8, PlaceIs DEF At
      <3>10. f[<<y[1], k>>] = y
        BY <3>1, <3>7, <3>9
      <3> QED BY <3>9, <3>10
    <2> HIDE DEF f, A, B
    <2>6. IsFiniteSet(A)
      BY PlacesFinite DEF A
    <2> QED BY <2>3, <2>4, <2>5, <2>6, CountedBy
  <1>5. Places(Threads, X, c) \subseteq Places(Threads, U, c)
    <2> SUFFICES ASSUME NEW d \in Places(Threads, X, c) PROVE d \in Places(Threads, U, c)
      OBVIOUS
    <2>1. d = <<d[1], d[2]>> /\ At(Threads, X, c, d[1], d[2])
      BY PlaceOf
    <2>2. At(Threads, U, c, d[1], d[2])
      BY <2>1, <1>3
    <2> QED BY <2>1, <2>2, PlaceIs
  <1>6. Cardinality(Places(Threads, U, c)) = Cardinality(Places(Threads, X, c)) + Cardinality(A)
    <2> HIDE DEF A
    <2>1. IsFiniteSet(Places(Threads, U, c)) /\ Cardinality(Places(Threads, U, c)) \in Nat
          /\ Cardinality(Places(Threads, X, c)) \in Nat
      BY PlacesFinite
    <2>2. Cardinality(B) = Cardinality(Places(Threads, U, c))
                             - Cardinality(Places(Threads, U, c) \cap Places(Threads, X, c))
      BY <2>1, FS_Difference
    <2>3. Places(Threads, U, c) \cap Places(Threads, X, c) = Places(Threads, X, c)
      BY <1>5
    <2>4. Cardinality(B) = Cardinality(Places(Threads, U, c)) - Cardinality(Places(Threads, X, c))
      BY <2>2, <2>3
    <2> HIDE DEF B
    <2> QED BY <1>4, <2>1, <2>4
  <1> QED BY <1>2, <1>3, <1>6 DEF PlacesCut

-----------------------------------------------------------------------------
(* References *)

\* the references to b of each process, and the single references of counts R
Refs(b) == [p \in Procs |-> RefsOf(p, b)]
Tokens(R) == {r \in Procs \X (1 .. MaxHeld + 1) : r[2] <= R[r[1]]}
RefCounts == [Procs -> 0 .. MaxHeld + 1]

\* p has an i-th reference
Has(R, p, i) == p \in Procs /\ i \in 1 .. MaxHeld + 1 /\ i <= R[p]

\* The members of Tokens.
LEMMA TokenIs ==
  /\ \A R, p, i : <<p, i>> \in Tokens(R) <=> Has(R, p, i)
  /\ \A R : \A r \in Tokens(R) : r = <<r[1], r[2]>>
  BY DEF Tokens, Has

\* There are finitely many references.
LEMMA TokensFinite ==
  ASSUME NEW R
  PROVE  /\ IsFiniteSet(Tokens(R)) /\ Cardinality(Tokens(R)) \in Nat
         /\ Cardinality(Tokens(R)) <= Cardinality(Procs \X (1 .. MaxHeld + 1))
         /\ Cardinality(Procs \X (1 .. MaxHeld + 1)) \in Nat
  <1>1. IsFiniteSet(1 .. MaxHeld + 1)
    BY BoundsAssumption, FS_Interval
  <1>2. IsFiniteSet(Procs \X (1 .. MaxHeld + 1))
    BY <1>1, FiniteAssumption, FS_Product
  <1>3. Tokens(R) \in SUBSET (Procs \X (1 .. MaxHeld + 1))
    BY DEF Tokens
  <1> QED BY <1>2, <1>3, FS_Subset, FS_CardinalityType

\* A process takes one more reference.
LEMMA RaiseTokens ==
  ASSUME NEW R \in RefCounts, NEW p \in Procs, R[p] <= MaxHeld,
         NEW Q, Q = [R EXCEPT ![p] = @ + 1]
  PROVE  /\ <<p, R[p] + 1>> \notin Tokens(R)
         /\ Tokens(Q) = Tokens(R) \cup {<<p, R[p] + 1>>}
         /\ Cardinality(Tokens(Q)) = Cardinality(Tokens(R)) + 1
  <1>1. R[p] \in Nat /\ Q[p] = R[p] + 1 /\ \A q \in Procs \ {p} : Q[q] = R[q]
    BY BoundsAssumption DEF RefCounts
  <1>2. <<p, R[p] + 1>> \notin Tokens(R)
    <2>1. ~Has(R, p, R[p] + 1)
      BY <1>1 DEF Has
    <2> QED BY <2>1, TokenIs
  <1>3. \A q, i : <<q, i>> \in Tokens(Q) <=> <<q, i>> \in Tokens(R) \/ (q = p /\ i = R[p] + 1)
    <2> SUFFICES ASSUME NEW q, NEW i
                 PROVE  <<q, i>> \in Tokens(Q) <=> <<q, i>> \in Tokens(R) \/ (q = p /\ i = R[p] + 1)
      OBVIOUS
    <2>1. CASE q # p
      <3>1. Has(Q, q, i) <=> Has(R, q, i)
        BY <2>1, <1>1 DEF Has
      <3> QED BY <2>1, <3>1, TokenIs
    <2>2. CASE q = p
      <3>1. i \in 1 .. MaxHeld + 1 /\ i <= Q[p]
              <=> (i \in 1 .. MaxHeld + 1 /\ i <= R[p]) \/ i = R[p] + 1
        BY <1>1, BoundsAssumption
      <3>2. Has(Q, p, i) <=> Has(R, p, i) \/ i = R[p] + 1
        BY <3>1 DEF Has
      <3> QED BY <2>2, <3>2, TokenIs
    <2> QED BY <2>1, <2>2
  <1>4. Tokens(Q) = Tokens(R) \cup {<<p, R[p] + 1>>}
    <2> SUFFICES ASSUME NEW r PROVE r \in Tokens(Q) <=> r \in Tokens(R) \cup {<<p, R[p] + 1>>}
      OBVIOUS
    <2>1. CASE r = <<r[1], r[2]>>
      BY <2>1, <1>3
    <2>2. CASE r # <<r[1], r[2]>>
      BY <2>2, TokenIs
    <2> QED BY <2>1, <2>2
  <1>5. Cardinality(Tokens(Q)) = Cardinality(Tokens(R)) + 1
    BY <1>2, <1>4, TokensFinite, FS_AddElement
  <1> QED BY <1>2, <1>4, <1>5

\* the references of one process
TokensOf(R, p) == {r \in Tokens(R) : r[1] = p}

\* A process has as many single references as its count says.
LEMMA TokensOfCount ==
  ASSUME NEW R \in RefCounts, NEW p \in Procs
  PROVE  Cardinality(TokensOf(R, p)) = R[p]
  <1>1. R[p] \in Nat /\ R[p] <= MaxHeld + 1
    BY BoundsAssumption DEF RefCounts
  <1> DEFINE f == [i \in 1 .. R[p] |-> <<p, i>>]
  <1>2. f \in [1 .. R[p] -> TokensOf(R, p)]
    <2> SUFFICES ASSUME NEW i \in 1 .. R[p] PROVE <<p, i>> \in TokensOf(R, p)
      OBVIOUS
    <2>1. Has(R, p, i)
      BY <1>1, BoundsAssumption DEF Has
    <2> QED BY <2>1, TokenIs DEF TokensOf
  <1>3. \A i, j \in 1 .. R[p] : f[i] = f[j] => i = j
    OBVIOUS
  <1>4. \A r \in TokensOf(R, p) : \E i \in 1 .. R[p] : f[i] = r
    <2> SUFFICES ASSUME NEW r \in TokensOf(R, p) PROVE \E i \in 1 .. R[p] : f[i] = r
      OBVIOUS
    <2>1. r = <<p, r[2]>> /\ r \in Tokens(R)
      BY TokenIs DEF TokensOf
    <2>2. r[2] \in 1 .. MaxHeld + 1 /\ r[2] <= R[p]
      BY <2>1, TokenIs DEF Has
    <2>3. r[2] \in 1 .. R[p]
      BY <2>2, <1>1, BoundsAssumption
    <2> QED BY <2>1, <2>3
  <1> HIDE DEF f
  <1>5. IsFiniteSet(1 .. R[p]) /\ Cardinality(1 .. R[p]) = R[p]
    BY <1>1, FS_Interval
  <1> QED BY <1>2, <1>3, <1>4, <1>5, CountedBy

\* A process loses all its references.
LEMMA ClearTokens ==
  ASSUME NEW R \in RefCounts, NEW p \in Procs, NEW Q, Q = [R EXCEPT ![p] = 0]
  PROVE  /\ \A r : r \in Tokens(Q) <=> r \in Tokens(R) /\ r[1] # p
         /\ Cardinality(Tokens(R)) = Cardinality(Tokens(Q)) + R[p]
  <1>1. R[p] \in Nat /\ Q[p] = 0 /\ \A q \in Procs \ {p} : Q[q] = R[q]
    BY BoundsAssumption DEF RefCounts
  <1>2. ASSUME NEW r PROVE r \in Tokens(Q) <=> r \in Tokens(R) /\ r[1] # p
    <2>1. \A i : <<p, i>> \notin Tokens(Q)
      <3>1. \A i : ~Has(Q, p, i)
        BY <1>1, BoundsAssumption DEF Has
      <3> QED BY <3>1, TokenIs
    <2>2. \A q, i : q # p => (<<q, i>> \in Tokens(Q) <=> <<q, i>> \in Tokens(R))
      <3>1. \A q, i : q # p => (Has(Q, q, i) <=> Has(R, q, i))
        BY <1>1 DEF Has
      <3> QED BY <3>1, TokenIs
    <2>3. CASE r = <<r[1], r[2]>>
      BY <2>1, <2>2, <2>3
    <2>4. CASE r # <<r[1], r[2]>>
      BY <2>4, TokenIs
    <2> QED BY <2>3, <2>4
  <1>3. Tokens(R) \ Tokens(Q) = TokensOf(R, p) /\ Tokens(R) \cap Tokens(Q) = Tokens(Q)
    BY <1>2 DEF TokensOf
  <1>4. Cardinality(Tokens(R) \ Tokens(Q))
          = Cardinality(Tokens(R)) - Cardinality(Tokens(R) \cap Tokens(Q))
    BY TokensFinite, FS_Difference
  <1>5. Cardinality(TokensOf(R, p)) = R[p]
    BY TokensOfCount
  <1>6. Cardinality(Tokens(R)) \in Nat /\ Cardinality(Tokens(Q)) \in Nat
    BY TokensFinite
  <1>7. Cardinality(Tokens(R)) = Cardinality(Tokens(Q)) + R[p]
    <2>1. Cardinality(TokensOf(R, p)) = Cardinality(Tokens(R)) - Cardinality(Tokens(Q))
      BY <1>3, <1>4
    <2> QED BY <1>1, <1>5, <1>6, <2>1
  <1> QED BY <1>2, <1>7

-----------------------------------------------------------------------------
(* What the steps do to the queues and to the references *)

Ops == {"open", "close", "post"}

\* The definitions of Gralloc count places and single references.
LEMMA Sums ==
  ASSUME NEW b, NEW op
  PROVE  /\ GuestRefs(b) = Cardinality(Tokens(Refs(b)))
         /\ GuestRefs(b)' = Cardinality(Tokens(Refs(b)'))
         /\ InTransit(op, b) = Cardinality(Places(Threads, Queues, Call(op, b)))
         /\ InTransit(op, b)' = Cardinality(Places(Threads, Queues', Call(op, b)))
  <1>1. {r \in Procs \X (1 .. MaxHeld + 1) : r[2] <= RefsOf(r[1], b)} = Tokens(Refs(b))
    BY DEF Tokens, Refs
  <1>2. {r \in Procs \X (1 .. MaxHeld + 1) : r[2] <= RefsOf(r[1], b)'} = Tokens(Refs(b)')
    BY DEF Tokens, Refs
  <1>3. {d \in Threads \X (1 .. MaxOut) :
           d[2] <= Len(Undelivered(d[1])) /\ Undelivered(d[1])[d[2]] = Call(op, b)}
          = Places(Threads, Queues, Call(op, b))
    BY DEF Places, Queues
  <1>4. {d \in Threads \X (1 .. MaxOut) :
           d[2] <= Len(Undelivered(d[1])') /\ (Undelivered(d[1])')[d[2]] = Call(op, b)}
          = Places(Threads, Queues', Call(op, b))
    BY DEF Places, Queues
  <1> QED BY <1>1, <1>2, <1>3, <1>4 DEF GuestRefs, InTransit

\* The counts are numbers within their bounds.
LEMMA SumTypes ==
  ASSUME NEW b, NEW op
  PROVE  /\ GuestRefs(b) \in Nat /\ InTransit(op, b) \in Nat
         /\ GuestRefs(b)' \in Nat /\ InTransit(op, b)' \in Nat
         /\ GuestRefs(b) <= Cardinality(Procs \X (1 .. MaxHeld + 1))
         /\ InTransit(op, b) <= Cardinality(Threads \X (1 .. MaxOut))
  BY Sums, TokensFinite, PlacesFinite

\* Calls are told apart by what they do and to which buffer.
LEMMA CallIs ==
  /\ \A op \in Ops, b \in Buffers : Call(op, b) \in Calls
  /\ \A op1, op2, b1, b2 : Call(op1, b1) = Call(op2, b2) <=> op1 = op2 /\ b1 = b2
  /\ \A op, b : Call(op, b).op = op /\ Call(op, b).buffer = b
  /\ \A c \in Calls : c = Call(c.op, c.buffer) /\ c.op \in Ops /\ c.buffer \in Buffers
  BY DEF Call, Calls, Ops

\* thread t has put call e at the end of its queue
Sent(t, e) == Extended(Queues, Queues', t, e)

\* process p has one more reference to b, or one less
RefsRaised(p, b) ==
    /\ Refs(b)[p] <= MaxHeld
    /\ Refs(b)' = [Refs(b) EXCEPT ![p] = @ + 1]
    /\ \A c \in Buffers \ {b} : Refs(c)' = Refs(c)
RefsLowered(p, b) ==
    /\ Refs(b)'[p] <= MaxHeld /\ Refs(b)' \in RefCounts
    /\ Refs(b) = [Refs(b)' EXCEPT ![p] = @ + 1]
    /\ \A c \in Buffers \ {b} : Refs(c)' = Refs(c)

\* The queues and the counts of references have their types.
LEMMA QueueTypes ==
  ASSUME TypeOK
  PROVE  /\ Queues \in [Threads -> Seq(Calls)]
         /\ \A t \in Threads : Queues[t] = wire[t] \o out[t] /\ Undelivered(t) = Queues[t]
         /\ \A b \in Buffers : Refs(b) \in RefCounts
  <1>1. \A t \in Threads : wire[t] \o out[t] \in Seq(Calls)
    <2> SUFFICES ASSUME NEW t \in Threads PROVE wire[t] \o out[t] \in Seq(Calls)
      OBVIOUS
    <2>1. wire[t] \in Seq(Calls) /\ out[t] \in Seq(Calls)
      BY DEF TypeOK
    <2> QED BY <2>1, ConcatProperties
  <1>2. Queues \in [Threads -> Seq(Calls)]
    BY <1>1 DEF Queues, Undelivered
  <1>3. \A t \in Threads : Queues[t] = wire[t] \o out[t] /\ Undelivered(t) = Queues[t]
    BY DEF Queues, Undelivered
  <1>4. ASSUME NEW b \in Buffers PROVE Refs(b) \in RefCounts
    <2> SUFFICES ASSUME NEW p \in Procs PROVE RefsOf(p, b) \in 0 .. MaxHeld + 1
      BY DEF Refs, RefCounts
    <2>1. held[p][b] \in 0 .. MaxHeld
      BY DEF TypeOK
    <2>2. CASE allocator[b] = p
      BY <2>1, <2>2, BoundsAssumption DEF RefsOf
    <2>3. CASE allocator[b] # p
      BY <2>1, <2>3, BoundsAssumption DEF RefsOf
    <2> QED BY <2>2, <2>3
  <1> QED BY <1>2, <1>3, <1>4

\* The elements of a concatenation and of an extended sequence.
LEMMA ConcatIs ==
  ASSUME NEW s \in Seq(Calls), NEW u \in Seq(Calls), NEW v, v = s \o u
  PROVE  /\ v \in Seq(Calls) /\ Len(v) = Len(s) + Len(u) /\ Len(s) \in Nat /\ Len(u) \in Nat
         /\ \A i \in 1 .. Len(s) + Len(u) : v[i] = IF i <= Len(s) THEN s[i] ELSE u[i - Len(s)]
  BY ConcatProperties

\* What Append does to a sequence.
LEMMA AppendIs ==
  ASSUME NEW s \in Seq(Calls), NEW e \in Calls, NEW v, v = Append(s, e)
  PROVE  /\ v \in Seq(Calls) /\ Len(v) = Len(s) + 1 /\ Len(s) \in Nat /\ v[Len(s) + 1] = e
         /\ \A i \in 1 .. Len(s) : v[i] = s[i]
  BY AppendProperties

\* What is put at the end of the second part is at the end of the whole.
LEMMA AppendLast ==
  ASSUME NEW s \in Seq(Calls), NEW u \in Seq(Calls), NEW e \in Calls
  PROVE  s \o Append(u, e) = Append(s \o u, e)
  <1>1. PICK x : x = Append(u, e)
    OBVIOUS
  <1>2. PICK y : y = s \o u
    OBVIOUS
  <1>3. PICK v : v = s \o x
    OBVIOUS
  <1>4. PICK w : w = Append(y, e)
    OBVIOUS
  <1>5. /\ x \in Seq(Calls) /\ Len(x) = Len(u) + 1 /\ x[Len(u) + 1] = e
        /\ \A i \in 1 .. Len(u) : x[i] = u[i]
    BY <1>1, AppendIs
  <1>6. /\ y \in Seq(Calls) /\ Len(y) = Len(s) + Len(u) /\ Len(s) \in Nat /\ Len(u) \in Nat
        /\ \A i \in 1 .. Len(s) + Len(u) : y[i] = IF i <= Len(s) THEN s[i] ELSE u[i - Len(s)]
    BY <1>2, ConcatIs
  <1>7. /\ v \in Seq(Calls) /\ Len(v) = Len(s) + Len(x)
        /\ \A i \in 1 .. Len(s) + Len(x) : v[i] = IF i <= Len(s) THEN s[i] ELSE x[i - Len(s)]
    BY <1>3, <1>5, ConcatIs
  <1>8. /\ w \in Seq(Calls) /\ Len(w) = Len(y) + 1 /\ w[Len(y) + 1] = e
        /\ \A i \in 1 .. Len(y) : w[i] = y[i]
    BY <1>4, <1>6, AppendIs
  <1>9. ASSUME NEW i \in 1 .. Len(v) PROVE v[i] = w[i]
    <2>0. i \in 1 .. Len(s) + Len(u) + 1 /\ i \in 1 .. Len(s) + Len(x)
      BY <1>5, <1>6, <1>7
    <2>1. CASE i <= Len(s)
      <3>1. i \in 1 .. Len(y) /\ i \in 1 .. Len(s) + Len(u)
        BY <2>0, <2>1, <1>6
      <3>2. v[i] = s[i] /\ w[i] = y[i] /\ y[i] = s[i]
        BY <2>0, <2>1, <3>1, <1>6, <1>7, <1>8
      <3> QED BY <3>2
    <2>2. CASE i > Len(s) /\ i <= Len(s) + Len(u)
      <3>1. i - Len(s) \in 1 .. Len(u) /\ ~(i <= Len(s)) /\ i \in 1 .. Len(s) + Len(u) /\ i \in 1 .. Len(y)
        BY <2>2, <1>6
      <3>2. v[i] = x[i - Len(s)] /\ w[i] = u[i - Len(s)]
        BY <2>0, <3>1, <1>6, <1>7, <1>8
      <3> QED BY <3>1, <3>2, <1>5
    <2>3. CASE i = Len(s) + Len(u) + 1
      <3>1. i - Len(s) = Len(u) + 1 /\ ~(i <= Len(s)) /\ i = Len(y) + 1
        BY <2>3, <1>6
      <3>2. v[i] = x[i - Len(s)]
        BY <2>0, <3>1, <1>7
      <3>3. x[i - Len(s)] = e
        BY <3>1, <1>5
      <3>4. w[i] = e
        BY <3>1, <1>8
      <3> QED BY <3>2, <3>3, <3>4
    <2> QED BY <2>0, <2>1, <2>2, <2>3, <1>6
  <1>10. Len(v) = Len(w)
    BY <1>5, <1>6, <1>7, <1>8
  <1>11. v = w
    BY <1>7, <1>8, <1>9, <1>10, SeqEqual
  <1> QED BY <1>1, <1>2, <1>3, <1>4, <1>11

\* Write: the packet goes to the end of the thread's queue.
LEMMA WriteSends ==
  ASSUME TypeOK, NEW t \in Threads, NEW e \in Calls, Write(t, e)
  PROVE  Sent(t, e)
  <1>1. wire[t] \in Seq(Calls) /\ out[t] \in Seq(Calls) /\ <<e>> \in Seq(Calls)
    BY DEF TypeOK
  <1>2. out'[t] = Append(out[t], e) /\ wire' = wire /\ \A u \in Threads \ {t} : out'[u] = out[u]
    BY DEF Write, TypeOK
  <1>3. wire[t] \o Append(out[t], e) = Append(wire[t] \o out[t], e)
    BY <1>1, AppendLast
  <1>4. Queues' = [u \in Threads |-> wire'[u] \o out'[u]] /\ Queues = [u \in Threads |-> wire[u] \o out[u]]
    BY DEF Queues, Undelivered
  <1>5. Queues' = [Queues EXCEPT ![t] = Append(@, e)]
    BY <1>2, <1>3, <1>4
  <1>6. Len(Queues[t]) < MaxOut
    BY QueueTypes DEF Write
  <1> QED BY <1>5, <1>6 DEF Sent, Extended

\* fb_post: the post goes to the end of the queue, and all of it is flushed.
LEMMA PostSends ==
  ASSUME TypeOK, NEW t \in Threads, NEW b \in Buffers, FbPost(t, b)
  PROVE  Sent(t, Call("post", b))
  <1> DEFINE e == Call("post", b)
  <1>1. e \in Calls
    BY CallIs DEF Ops
  <1> HIDE DEF e
  <1>2. wire[t] \in Seq(Calls) /\ out[t] \in Seq(Calls) /\ <<e>> \in Seq(Calls)
    BY <1>1 DEF TypeOK
  <1>3. /\ out'[t] = <<>> /\ wire'[t] = wire[t] \o Append(out[t], e)
        /\ \A u \in Threads \ {t} : out'[u] = out[u] /\ wire'[u] = wire[u]
    BY DEF FbPost, TypeOK, e
  <1>4. wire'[t] \o out'[t] = Append(wire[t] \o out[t], e)
    <2>1. Append(out[t], e) \in Seq(Calls)
      BY <1>1, <1>2, AppendProperties
    <2>2. wire[t] \o Append(out[t], e) = Append(wire[t] \o out[t], e)
      BY <1>1, <1>2, AppendLast
    <2>4. wire'[t] \in Seq(Calls)
      BY <1>2, <1>3, <2>1, ConcatProperties
    <2>5. wire'[t] \o <<>> = wire'[t]
      BY <2>4, ConcatEmptySeq
    <2> QED BY <1>3, <2>2, <2>5
  <1>5. Queues' = [u \in Threads |-> wire'[u] \o out'[u]] /\ Queues = [u \in Threads |-> wire[u] \o out[u]]
    BY DEF Queues, Undelivered
  <1>6. Queues' = [Queues EXCEPT ![t] = Append(@, e)]
    BY <1>3, <1>4, <1>5
  <1>7. Len(Queues[t]) < MaxOut
    BY QueueTypes DEF FbPost
  <1> QED BY <1>6, <1>7 DEF Sent, Extended, e

\* Flush moves calls within a thread's queue.
LEMMA FlushKeeps ==
  ASSUME TypeOK, NEW t \in Threads, Flush(t)
  PROVE  Queues' = Queues
  <1>1. wire[t] \in Seq(Calls) /\ out[t] \in Seq(Calls)
    BY DEF TypeOK
  <1>2. /\ wire'[t] = wire[t] \o out[t] /\ out'[t] = <<>>
        /\ \A u \in Threads \ {t} : wire'[u] = wire[u] /\ out'[u] = out[u]
    BY DEF Flush, TypeOK
  <1>3. wire'[t] \in Seq(Calls)
    BY <1>1, <1>2, ConcatIs
  <1>4. wire'[t] \o out'[t] = wire[t] \o out[t]
    BY <1>2, <1>3, ConcatEmptySeq
  <1>5. Queues' = [u \in Threads |-> wire'[u] \o out'[u]] /\ Queues = [u \in Threads |-> wire[u] \o out[u]]
    BY DEF Queues, Undelivered
  <1> QED BY <1>2, <1>4, <1>5

\* What is taken from the front of the first part is taken from the whole.
LEMMA TailFirst ==
  ASSUME NEW s \in Seq(Calls), s # <<>>, NEW u \in Seq(Calls)
  PROVE  Tail(s) \o u = Tail(s \o u) /\ s \o u # <<>> /\ (s \o u)[1] = s[1] /\ s[1] = Head(s)
  <1>1. PICK x : x = Tail(s)
    OBVIOUS
  <1>2. PICK y : y = s \o u
    OBVIOUS
  <1>3. PICK v : v = x \o u
    OBVIOUS
  <1>4. PICK w : w = Tail(y)
    OBVIOUS
  <1>5. /\ x \in Seq(Calls) /\ Len(x) = Len(s) - 1 /\ Len(s) \in Nat /\ Len(s) >= 1
        /\ \A i \in 1 .. Len(x) : x[i] = s[i + 1]
    BY <1>1, HeadTailProperties, EmptySeq, LenProperties
  <1>6. /\ y \in Seq(Calls) /\ Len(y) = Len(s) + Len(u) /\ Len(u) \in Nat
        /\ \A i \in 1 .. Len(s) + Len(u) : y[i] = IF i <= Len(s) THEN s[i] ELSE u[i - Len(s)]
    BY <1>2, ConcatIs
  <1>7. /\ v \in Seq(Calls) /\ Len(v) = Len(x) + Len(u)
        /\ \A i \in 1 .. Len(x) + Len(u) : v[i] = IF i <= Len(x) THEN x[i] ELSE u[i - Len(x)]
    BY <1>3, <1>5, ConcatIs
  <1>8. y # <<>> /\ y[1] = s[1]
    BY <1>5, <1>6
  <1>9. /\ w \in Seq(Calls) /\ Len(w) = Len(y) - 1
        /\ \A i \in 1 .. Len(w) : w[i] = y[i + 1]
    BY <1>4, <1>6, <1>8, HeadTailProperties
  <1>10. ASSUME NEW i \in 1 .. Len(v) PROVE v[i] = w[i]
    <2>1. /\ i \in 1 .. Len(x) + Len(u) /\ i \in 1 .. Len(w) /\ i + 1 \in 1 .. Len(s) + Len(u)
          /\ i \in Int
      BY <1>5, <1>6, <1>7, <1>9
    <2>2. CASE i <= Len(x)
      <3>1. i \in 1 .. Len(x) /\ i + 1 <= Len(s)
        BY <2>1, <2>2, <1>5
      <3>2. v[i] = x[i] /\ x[i] = s[i + 1] /\ w[i] = y[i + 1] /\ y[i + 1] = s[i + 1]
        BY <2>1, <2>2, <3>1, <1>5, <1>6, <1>7, <1>9
      <3> QED BY <3>2
    <2>3. CASE ~(i <= Len(x))
      <3>1. ~(i + 1 <= Len(s)) /\ i - Len(x) = (i + 1) - Len(s)
        BY <2>1, <2>3, <1>5
      <3>2. v[i] = u[i - Len(x)] /\ w[i] = y[i + 1] /\ y[i + 1] = u[(i + 1) - Len(s)]
        BY <2>1, <2>3, <3>1, <1>6, <1>7, <1>9
      <3> QED BY <3>1, <3>2
    <2> QED BY <2>2, <2>3
  <1>11. Len(v) = Len(w)
    BY <1>5, <1>6, <1>7, <1>9
  <1>12. v = w
    BY <1>7, <1>9, <1>10, <1>11, SeqEqual
  <1>13. s[1] = Head(s)
    BY <1>5
  <1> QED BY <1>1, <1>2, <1>3, <1>4, <1>8, <1>12, <1>13

\* The host takes the first call of a thread's queue.
Taken(t) == Shortened(Queues, Queues', t)

\* The host's execution takes the first call of one queue.
LEMMA HostTakes ==
  ASSUME TypeOK, NEW t \in Threads, HostExecutes(t)
  PROVE  Taken(t) /\ Queues[t][1] = Head(wire[t]) /\ Head(wire[t]) \in Calls
  <1>1. wire[t] \in Seq(Calls) /\ out[t] \in Seq(Calls) /\ wire[t] # <<>>
    BY DEF TypeOK, HostExecutes
  <1>2. /\ wire'[t] = Tail(wire[t]) /\ out' = out
        /\ \A u \in Threads \ {t} : wire'[u] = wire[u]
    BY DEF HostExecutes, TypeOK
  <1>3. /\ wire'[t] \o out'[t] = Tail(wire[t] \o out[t]) /\ wire[t] \o out[t] # <<>>
        /\ (wire[t] \o out[t])[1] = Head(wire[t])
    BY <1>1, <1>2, TailFirst
  <1>4. Queues' = [u \in Threads |-> wire'[u] \o out'[u]] /\ Queues = [u \in Threads |-> wire[u] \o out[u]]
    BY DEF Queues, Undelivered
  <1>5. Queues' = [Queues EXCEPT ![t] = Tail(@)]
    BY <1>2, <1>3, <1>4
  <1>6. Queues[t] = wire[t] \o out[t]
    BY <1>4
  <1>7. Head(wire[t]) \in Calls
    BY <1>1, HeadTailProperties
  <1> QED BY <1>3, <1>5, <1>6, <1>7 DEF Taken, Shortened

\* The threads of S are over: what they had not flushed is gone.
Ended(S) ==
    /\ S \subseteq Threads /\ wire' = wire
    /\ out' = [t \in Threads |-> IF t \in S THEN <<>> ELSE out[t]]

\* The end of threads cuts their queues back to what was flushed.
LEMMA EndDrops ==
  ASSUME TypeOK, NEW S, Ended(S)
  PROVE  /\ Queues' \in [Threads -> Seq(Calls)]
         /\ \A t \in S : Queues'[t] = wire[t]
         /\ \A t \in Threads \ S : Queues'[t] = Queues[t]
  <1>1. wire \in [Threads -> Seq(Calls)] /\ out \in [Threads -> Seq(Calls)]
    BY DEF TypeOK
  <1>2. Queues' = [u \in Threads |-> wire'[u] \o out'[u]] /\ Queues = [u \in Threads |-> wire[u] \o out[u]]
    BY DEF Queues, Undelivered
  <1>3. ASSUME NEW t \in S PROVE Queues'[t] = wire[t]
    <2>1. wire[t] \in Seq(Calls) /\ out'[t] = <<>> /\ Queues'[t] = wire[t] \o out'[t]
      BY <1>1, <1>2 DEF Ended
    <2> QED BY <2>1, ConcatEmptySeq
  <1>4. ASSUME NEW t \in Threads \ S PROVE Queues'[t] = Queues[t]
    BY <1>2 DEF Ended
  <1>5. Queues' \in [Threads -> Seq(Calls)]
    <2>1. \A t \in Threads : Queues'[t] \in Seq(Calls)
      BY <1>1, <1>3, <1>4, QueueTypes
    <2> QED BY <1>2, <2>1
  <1> QED BY <1>3, <1>4, <1>5

\* The references of the processes after a step of one of them.
LEMMA RefsFrame ==
  ASSUME UNCHANGED <<allocator, held>>
  PROVE  \A b \in Buffers : Refs(b)' = Refs(b)
  BY DEF Refs, RefsOf

\* A change of one process's references to one buffer, seen in the functions.
LEMMA RefsStep ==
  ASSUME TypeOK, NEW p \in Procs, NEW b \in Buffers,
         \A c \in Buffers, q \in Procs : c # b \/ q # p => RefsOf(q, c)' = RefsOf(q, c)
  PROVE  /\ RefsOf(p, b)' = RefsOf(p, b) + 1 /\ RefsOf(p, b) <= MaxHeld => RefsRaised(p, b)
         /\ RefsOf(p, b)' = RefsOf(p, b) - 1 /\ RefsOf(p, b)' >= 0 => RefsLowered(p, b)
  <1>1. Refs(b) \in RefCounts /\ Refs(b)[p] = RefsOf(p, b) /\ RefsOf(p, b) \in 0 .. MaxHeld + 1
    BY QueueTypes DEF Refs, RefCounts
  <1>2. \A c \in Buffers \ {b} : Refs(c)' = Refs(c)
    BY DEF Refs
  <1>3. /\ Refs(b)'[p] = RefsOf(p, b)' /\ \A q \in Procs \ {p} : Refs(b)'[q] = Refs(b)[q]
        /\ Refs(b)' = [q \in Procs |-> Refs(b)'[q]]
    BY DEF Refs
  <1>4. ASSUME RefsOf(p, b)' = RefsOf(p, b) + 1, RefsOf(p, b) <= MaxHeld
        PROVE  RefsRaised(p, b)
    <2>1. Refs(b)' = [Refs(b) EXCEPT ![p] = @ + 1]
      BY <1>1, <1>3, <1>4 DEF RefCounts
    <2> QED BY <1>1, <1>2, <1>4, <2>1 DEF RefsRaised
  <1>5. ASSUME RefsOf(p, b)' = RefsOf(p, b) - 1, RefsOf(p, b)' >= 0
        PROVE  RefsLowered(p, b)
    <2>1. RefsOf(p, b)' \in 0 .. MaxHeld + 1 /\ RefsOf(p, b)' <= MaxHeld
          /\ RefsOf(p, b) = RefsOf(p, b)' + 1
      BY <1>1, <1>5, BoundsAssumption
    <2>2. Refs(b)' \in RefCounts
      <3>1. \A q \in Procs : Refs(b)'[q] \in 0 .. MaxHeld + 1
        BY <1>1, <1>3, <2>1 DEF RefCounts
      <3> QED BY <1>3, <3>1 DEF RefCounts
    <2>3. Refs(b) = [Refs(b)' EXCEPT ![p] = @ + 1]
      <3>1. Refs(b) = [q \in Procs |-> Refs(b)[q]]
        BY <1>1 DEF RefCounts
      <3> QED BY <1>1, <1>3, <2>1, <2>2, <3>1 DEF RefCounts
    <2> QED BY <1>2, <1>3, <2>1, <2>2, <2>3 DEF RefsLowered
  <1> QED BY <1>4, <1>5

\* rcCreateColorBuffer returns: the first reference to the new buffer.
LEMMA AllocRaises ==
  ASSUME TypeOK, NEW t \in Threads, Alloc(t),
         \A p \in Procs : RefsOf(p, serial + 1) = 0
  PROVE  serial + 1 \in Buffers /\ RefsRaised(ProcOf[t], serial + 1)
  <1>1. PICK p \in Procs : p = ProcOf[t]
    BY ProcsAssumption
  <1>2. PICK n \in Buffers : n = serial + 1
    BY BoundsAssumption DEF TypeOK, Alloc, Buffers
  <1>3. /\ held' = held /\ allocator'[n] = p
        /\ \A c \in Buffers \ {n} : allocator'[c] = allocator[c]
    BY <1>1, <1>2 DEF Alloc, TypeOK
  <1>4. \A q \in Procs : allocator[n] # q /\ held[q][n] = 0
    <2> SUFFICES ASSUME NEW q \in Procs PROVE allocator[n] # q /\ held[q][n] = 0
      OBVIOUS
    <2>1. held[q][n] \in 0 .. MaxHeld
      BY DEF TypeOK
    <2>2. RefsOf(q, n) = 0
      BY <1>2
    <2>3. CASE allocator[n] = q
      BY <2>1, <2>2, <2>3, BoundsAssumption DEF RefsOf
    <2>4. CASE allocator[n] # q
      BY <2>1, <2>2, <2>4 DEF RefsOf
    <2> QED BY <2>3, <2>4
  <1>5. RefsOf(p, n)' = 1 /\ RefsOf(p, n) = 0
    BY <1>3, <1>4 DEF RefsOf
  <1>6. \A c \in Buffers, q \in Procs : c # n \/ q # p => RefsOf(q, c)' = RefsOf(q, c)
    <2> SUFFICES ASSUME NEW c \in Buffers, NEW q \in Procs, c # n \/ q # p
                 PROVE  RefsOf(q, c)' = RefsOf(q, c)
      OBVIOUS
    <2>1. CASE c # n
      BY <2>1, <1>3 DEF RefsOf
    <2>2. CASE c = n
      BY <2>2, <1>3, <1>4 DEF RefsOf
    <2> QED BY <2>1, <2>2
  <1>7. RefsRaised(p, n)
    BY <1>5, <1>6, RefsStep, BoundsAssumption
  <1> QED BY <1>1, <1>2, <1>7

\* gralloc_free returns the allocator's reference.
LEMMA FreeLowers ==
  ASSUME TypeOK, NEW t \in Threads, NEW b \in Buffers, Free(t, b)
  PROVE  RefsLowered(ProcOf[t], b) /\ RefsOf(ProcOf[t], b) > 0
  <1>1. PICK p \in Procs : p = ProcOf[t]
    BY ProcsAssumption
  <1>2. /\ held' = held /\ allocator[b] = p /\ allocator'[b] = NoProc
        /\ \A c \in Buffers \ {b} : allocator'[c] = allocator[c]
    BY <1>1 DEF Free, TypeOK
  <1>3. held[p][b] \in 0 .. MaxHeld /\ \A q \in Procs : q # NoProc
    BY ProcsAssumption DEF TypeOK
  <1>4. RefsOf(p, b)' = held[p][b] /\ RefsOf(p, b) = held[p][b] + 1
    BY <1>2, <1>3 DEF RefsOf
  <1>5. \A c \in Buffers, q \in Procs : c # b \/ q # p => RefsOf(q, c)' = RefsOf(q, c)
    <2> SUFFICES ASSUME NEW c \in Buffers, NEW q \in Procs, c # b \/ q # p
                 PROVE  RefsOf(q, c)' = RefsOf(q, c)
      OBVIOUS
    <2>1. CASE c # b
      BY <2>1, <1>2 DEF RefsOf
    <2>2. CASE c = b
      BY <2>2, <1>2, <1>3 DEF RefsOf
    <2> QED BY <2>1, <2>2
  <1>6. RefsOf(p, b)' = RefsOf(p, b) - 1 /\ RefsOf(p, b)' >= 0 /\ RefsOf(p, b) > 0
    BY <1>3, <1>4, BoundsAssumption
  <1> QED BY <1>1, <1>5, <1>6, RefsStep

\* gralloc_register_buffer takes a reference, gralloc_unregister_buffer returns one.
LEMMA RegisterRaises ==
  ASSUME TypeOK, NEW t \in Threads, NEW b \in Buffers, Register(t, b)
  PROVE  RefsRaised(ProcOf[t], b)
  <1>1. PICK p \in Procs : p = ProcOf[t]
    BY ProcsAssumption
  <1>2. /\ allocator' = allocator /\ held[p][b] \in 0 .. MaxHeld /\ held[p][b] < MaxHeld
        /\ held'[p][b] = held[p][b] + 1
    BY <1>1 DEF Register, TypeOK
  <1>3. \A c \in Buffers, q \in Procs : c # b \/ q # p => held'[q][c] = held[q][c]
    BY <1>1 DEF Register, TypeOK
  <1>4. \A c \in Buffers, q \in Procs : c # b \/ q # p => RefsOf(q, c)' = RefsOf(q, c)
    BY <1>2, <1>3 DEF RefsOf
  <1>5. RefsOf(p, b)' = RefsOf(p, b) + 1 /\ RefsOf(p, b) <= MaxHeld
    <2>1. CASE allocator[b] = p
      BY <2>1, <1>2, BoundsAssumption DEF RefsOf
    <2>2. CASE allocator[b] # p
      BY <2>2, <1>2, BoundsAssumption DEF RefsOf
    <2> QED BY <2>1, <2>2
  <1> QED BY <1>1, <1>4, <1>5, RefsStep

\* gralloc_unregister_buffer returns one reference of the process.
LEMMA UnregisterLowers ==
  ASSUME TypeOK, NEW t \in Threads, NEW b \in Buffers, Unregister(t, b)
  PROVE  RefsLowered(ProcOf[t], b) /\ RefsOf(ProcOf[t], b) > 0
  <1>1. PICK p \in Procs : p = ProcOf[t]
    BY ProcsAssumption
  <1>2. /\ allocator' = allocator /\ held[p][b] \in 0 .. MaxHeld /\ held[p][b] > 0
        /\ held'[p][b] = held[p][b] - 1
    BY <1>1 DEF Unregister, TypeOK
  <1>3. \A c \in Buffers, q \in Procs : c # b \/ q # p => held'[q][c] = held[q][c]
    BY <1>1 DEF Unregister, TypeOK
  <1>4. \A c \in Buffers, q \in Procs : c # b \/ q # p => RefsOf(q, c)' = RefsOf(q, c)
    BY <1>2, <1>3 DEF RefsOf
  <1>5. RefsOf(p, b)' = RefsOf(p, b) - 1 /\ RefsOf(p, b)' >= 0 /\ RefsOf(p, b) > 0
    <2>1. CASE allocator[b] = p
      BY <2>1, <1>2, BoundsAssumption DEF RefsOf
    <2>2. CASE allocator[b] # p
      BY <2>2, <1>2, BoundsAssumption DEF RefsOf
    <2> QED BY <2>1, <2>2
  <1> QED BY <1>1, <1>4, <1>5, RefsStep

\* The references of a process that dies are gone.
LEMMA DeathClears ==
  ASSUME TypeOK, NEW p \in Procs, ProcessDies(p)
  PROVE  \A b \in Buffers : Refs(b)' = [Refs(b) EXCEPT ![p] = 0]
  <1> SUFFICES ASSUME NEW b \in Buffers PROVE Refs(b)' = [Refs(b) EXCEPT ![p] = 0]
    OBVIOUS
  <1>1. allocator'[b] = IF allocator[b] = p THEN NoProc ELSE allocator[b]
    BY DEF ProcessDies
  <1>2. held'[p][b] = 0 /\ \A q \in Procs \ {p} : held'[q][b] = held[q][b]
    BY DEF ProcessDies, TypeOK
  <1>3. \A q \in Procs : q # NoProc
    BY ProcsAssumption
  <1>4. RefsOf(p, b)' = 0
    BY <1>1, <1>2, <1>3 DEF RefsOf
  <1>5. \A q \in Procs \ {p} : RefsOf(q, b)' = RefsOf(q, b)
    BY <1>1, <1>2, <1>3 DEF RefsOf
  <1> QED BY <1>4, <1>5 DEF Refs

-----------------------------------------------------------------------------
(* The balance: HostRefs changes only when the host executes a call *)

\* A call sent is one more under way.
LEMMA SentTransit ==
  ASSUME Bounded(Queues), NEW t \in Threads, NEW e \in Calls, Sent(t, e), NEW op, NEW b
  PROVE  /\ Bounded(Queues')
         /\ Call(op, b) = e => InTransit(op, b)' = InTransit(op, b) + 1
         /\ Call(op, b) # e => InTransit(op, b)' = InTransit(op, b)
  <1>1. PICK U : U = Queues
    OBVIOUS
  <1>2. PICK V : V = Queues'
    OBVIOUS
  <1>3. Bounded(U) /\ Extended(U, V, t, e)
    BY <1>1, <1>2 DEF Sent
  <1>4. PICK c : c = Call(op, b)
    OBVIOUS
  <1>5. PlaceAdded(U, V, t, e, c)
    BY <1>3, AppendPlaces
  <1> QED BY <1>1, <1>2, <1>4, <1>5, Sums DEF PlaceAdded

\* A call the host takes is one less.
LEMMA TakenTransit ==
  ASSUME Bounded(Queues), NEW t \in Threads, Taken(t), NEW op, NEW b
  PROVE  /\ Bounded(Queues')
         /\ Call(op, b) = Queues[t][1] => InTransit(op, b) = InTransit(op, b)' + 1
         /\ Call(op, b) # Queues[t][1] => InTransit(op, b)' = InTransit(op, b)
  <1>1. PICK U : U = Queues
    OBVIOUS
  <1>2. PICK V : V = Queues'
    OBVIOUS
  <1>3. Bounded(U) /\ Shortened(U, V, t)
    BY <1>1, <1>2 DEF Taken
  <1>4. PICK c : c = Call(op, b)
    OBVIOUS
  <1>5. PlaceTaken(U, V, t, c)
    BY <1>3, TailPlaces
  <1> QED BY <1>1, <1>2, <1>4, <1>5, Sums DEF PlaceTaken

\* The calls that threads take with them.
Dropped(S, op, b) == Cardinality(Places(S, out, Call(op, b)))

\* They are what Unsent counts, and no longer under way.
LEMMA EndedTransit ==
  ASSUME TypeOK, Bounded(Queues), NEW S, Ended(S), NEW op, NEW b
  PROVE  /\ Bounded(Queues')
         /\ InTransit(op, b) = InTransit(op, b)' + Dropped(S, op, b)
         /\ Dropped(S, op, b) \in Nat
         /\ Unsent(S, b) = Dropped(S, "close", b) - Dropped(S, "open", b)
         /\ Unsent(S, b) \in Int
         /\ \A u, i, c : At(Threads, Queues', c, u, i)
                           <=> At(Threads, Queues, c, u, i) /\ (u \in S => i <= Len(wire[u]))
  <1>1. PICK U : U = Queues
    OBVIOUS
  <1>2. PICK X : X = Queues'
    OBVIOUS
  <1>3. /\ Bounded(U) /\ \A t \in Threads : U[t] = wire[t] \o out[t]
        /\ X \in [Threads -> Seq(Calls)] /\ \A t \in S : X[t] = wire[t]
        /\ \A t \in Threads \ S : X[t] = U[t]
    BY <1>1, <1>2, EndDrops, QueueTypes
  <1>4. wire \in [Threads -> Seq(Calls)] /\ out \in [Threads -> Seq(Calls)] /\ S \subseteq Threads
    BY DEF TypeOK, Ended
  <1>5. ASSUME NEW c
        PROVE  /\ Bounded(X)
               /\ \A u, i : At(Threads, X, c, u, i)
                              <=> At(Threads, U, c, u, i) /\ (u \in S => i <= Len(wire[u]))
               /\ Cardinality(Places(Threads, U, c))
                    = Cardinality(Places(Threads, X, c)) + Cardinality(Places(S, out, c))
    <2>1. PICK V : V = wire
      OBVIOUS
    <2>2. PICK W : W = out
      OBVIOUS
    <2>3. Cut(U, V, W, X, S)
      BY <1>3, <1>4, <2>1, <2>2 DEF Cut
    <2>4. PlacesCut(U, V, W, X, S, c)
      BY <1>3, <2>3, DropPlaces
    <2> QED BY <2>1, <2>2, <2>4 DEF PlacesCut
  <1>6. InTransit(op, b) = InTransit(op, b)' + Dropped(S, op, b)
    BY <1>1, <1>2, <1>5, Sums DEF Dropped
  <1>7. \A o : Dropped(S, o, b) \in Nat
    BY <1>4, PlacesFinite DEF Dropped
  <1>8. Unsent(S, b) = Dropped(S, "close", b) - Dropped(S, "open", b)
    <2>1. \A o : {d \in S \X (1 .. MaxOut) : d[2] <= Len(out[d[1]]) /\ out[d[1]][d[2]] = Call(o, b)}
                   = Places(S, out, Call(o, b))
      BY DEF Places
    <2> QED BY <2>1 DEF Unsent, Dropped
  <1>9. Unsent(S, b) \in Int
    BY <1>7, <1>8
  <1> QED BY <1>1, <1>2, <1>5, <1>6, <1>7, <1>8, <1>9

\* A reference taken or returned, as GuestRefs counts it.
LEMMA RaisedRefs ==
  ASSUME TypeOK, NEW p \in Procs, NEW b \in Buffers, RefsRaised(p, b), NEW c \in Buffers
  PROVE  GuestRefs(c)' = IF c = b THEN GuestRefs(c) + 1 ELSE GuestRefs(c)
  <1>1. CASE c = b
    <2>1. PICK R : R = Refs(b)
      OBVIOUS
    <2>2. PICK Q : Q = Refs(b)'
      OBVIOUS
    <2>3. R \in RefCounts /\ R[p] <= MaxHeld /\ Q = [R EXCEPT ![p] = @ + 1]
      BY <2>1, <2>2, QueueTypes DEF RefsRaised
    <2>4. Cardinality(Tokens(Q)) = Cardinality(Tokens(R)) + 1
      BY <2>3, RaiseTokens
    <2> QED BY <1>1, <2>1, <2>2, <2>4, Sums
  <1>2. CASE c # b
    BY <1>2, Sums DEF RefsRaised
  <1> QED BY <1>1, <1>2

\* A returned reference is one less, and only of that buffer.
LEMMA LoweredRefs ==
  ASSUME TypeOK, NEW p \in Procs, NEW b \in Buffers, RefsLowered(p, b), NEW c \in Buffers
  PROVE  GuestRefs(c) = IF c = b THEN GuestRefs(c)' + 1 ELSE GuestRefs(c)'
  <1>1. CASE c = b
    <2>1. PICK R : R = Refs(b)
      OBVIOUS
    <2>2. PICK Q : Q = Refs(b)'
      OBVIOUS
    <2>3. Q \in RefCounts /\ Q[p] <= MaxHeld /\ R = [Q EXCEPT ![p] = @ + 1]
      BY <2>1, <2>2 DEF RefsLowered
    <2>4. Cardinality(Tokens(R)) = Cardinality(Tokens(Q)) + 1
      BY <2>3, RaiseTokens
    <2> QED BY <1>1, <2>1, <2>2, <2>4, Sums
  <1>2. CASE c # b
    BY <1>2, Sums DEF RefsLowered
  <1> QED BY <1>1, <1>2

\* A dead process holds nothing; the others hold what they held.
LEMMA ClearedRefs ==
  ASSUME TypeOK, NEW p \in Procs, ProcessDies(p), NEW b \in Buffers
  PROVE  GuestRefs(b) = GuestRefs(b)' + RefsOf(p, b)
  <1>1. PICK R : R = Refs(b)
    OBVIOUS
  <1>2. PICK Q : Q = Refs(b)'
    OBVIOUS
  <1>3. R \in RefCounts /\ Q = [R EXCEPT ![p] = 0] /\ R[p] = RefsOf(p, b)
    BY <1>1, <1>2, QueueTypes, DeathClears DEF Refs
  <1>4. Cardinality(Tokens(R)) = Cardinality(Tokens(Q)) + R[p]
    BY <1>3, ClearTokens
  <1> QED BY <1>1, <1>2, <1>3, <1>4, Sums

-----------------------------------------------------------------------------
(* Part 1: the count, whatever rules the guest keeps *)

\* nobody has heard of a buffer that does not exist yet
Unheard(b) ==
    /\ \A p \in Procs : RefsOf(p, b) = 0
    /\ refcount[b] = 0 /\ lost[b] = 0
    /\ \A op, u, i : ~At(Threads, Queues, Call(op, b), u, i)
Fresh == \A b \in Buffers : b > serial => Unheard(b)

\* the host executes only posts that were counted
PostsCounted == \A b \in Buffers : posted[b] + InTransit("post", b) <= posts[b]

CountInv ==
    TypeOK /\ Bounded(Queues) /\ Fresh /\ PostsCounted /\ CountIsClientReferences

\* the host's side of the ledger is as it was
Balanced == refcount' = refcount /\ \A b \in Buffers : HostRefs(b)' = HostRefs(b)

\* What an unheard buffer and a buffer in use have counted.
LEMMA RefsCounted ==
  ASSUME TypeOK, NEW b \in Buffers
  PROVE  /\ (\A p \in Procs : RefsOf(p, b) = 0) => GuestRefs(b) = 0
         /\ \A p \in Procs : RefsOf(p, b) > 0 => GuestRefs(b) > 0
         /\ \A p \in Procs : RefsOf(p, b) \in 0 .. MaxHeld + 1
         /\ \A op : (\A u, i : ~At(Threads, Queues, Call(op, b), u, i)) => InTransit(op, b) = 0
         /\ \A op, u, i : At(Threads, Queues, Call(op, b), u, i) => InTransit(op, b) > 0
  <1>1. ASSUME \A p \in Procs : RefsOf(p, b) = 0 PROVE GuestRefs(b) = 0
    <2>1. \A r \in Tokens(Refs(b)) : r = <<r[1], r[2]>> /\ Has(Refs(b), r[1], r[2])
      BY TokenIs
    <2>2. \A p, i : ~Has(Refs(b), p, i)
      BY <1>1, BoundsAssumption DEF Has, Refs
    <2>3. Tokens(Refs(b)) = {}
      BY <2>1, <2>2
    <2> QED BY <2>3, Sums, FS_EmptySet
  <1>2. \A p \in Procs : RefsOf(p, b) \in 0 .. MaxHeld + 1
    BY QueueTypes DEF Refs, RefCounts
  <1>3. ASSUME NEW p \in Procs, RefsOf(p, b) > 0 PROVE GuestRefs(b) > 0
    <2>1. Has(Refs(b), p, 1)
      BY <1>2, <1>3, BoundsAssumption DEF Has, Refs
    <2>2. Tokens(Refs(b)) # {}
      BY <2>1, TokenIs
    <2>3. IsFiniteSet(Tokens(Refs(b))) /\ Cardinality(Tokens(Refs(b))) \in Nat
      BY TokensFinite
    <2>4. Cardinality(Tokens(Refs(b))) # 0
      BY <2>2, <2>3, FS_EmptySet
    <2> QED BY <2>3, <2>4, Sums
  <1>4. ASSUME NEW op, \A u, i : ~At(Threads, Queues, Call(op, b), u, i) PROVE InTransit(op, b) = 0
    <2>1. \A d \in Places(Threads, Queues, Call(op, b)) :
            At(Threads, Queues, Call(op, b), d[1], d[2])
      BY PlaceOf
    <2>2. Places(Threads, Queues, Call(op, b)) = {}
      BY <1>4, <2>1
    <2> QED BY <2>2, Sums, FS_EmptySet
  <1>5. ASSUME NEW op, NEW u, NEW i, At(Threads, Queues, Call(op, b), u, i)
        PROVE  InTransit(op, b) > 0
    <2>1. PICK P : P = Places(Threads, Queues, Call(op, b))
      OBVIOUS
    <2>2. P # {}
      BY <1>5, <2>1, PlaceIs
    <2>3. IsFiniteSet(P) /\ Cardinality(P) \in Nat
      BY <2>1, PlacesFinite
    <2>4. Cardinality(P) # 0
      BY <2>2, <2>3, FS_EmptySet
    <2> QED BY <2>1, <2>3, <2>4, Sums
  <1> QED BY <1>1, <1>2, <1>3, <1>4, <1>5

\* A close returns a reference and is under way.
LEMMA CloseBalance ==
  ASSUME TypeOK, Bounded(Queues), NEW t \in Threads, NEW p \in Procs, NEW b \in Buffers,
         RefsLowered(p, b), Sent(t, Call("close", b)), UNCHANGED <<refcount, lost>>
  PROVE  Balanced
  <1> SUFFICES ASSUME NEW c \in Buffers PROVE HostRefs(c)' = HostRefs(c)
    BY DEF Balanced
  <1>1. Call("close", b) \in Calls
    BY CallIs DEF Ops
  <1>2. GuestRefs(c) = IF c = b THEN GuestRefs(c)' + 1 ELSE GuestRefs(c)'
    BY LoweredRefs
  <1>3. InTransit("open", c)' = InTransit("open", c)
    BY <1>1, SentTransit, CallIs
  <1>4. c = b => InTransit("close", c)' = InTransit("close", c) + 1
    BY <1>1, SentTransit
  <1>5. c # b => InTransit("close", c)' = InTransit("close", c)
    BY <1>1, SentTransit, CallIs
  <1>6. /\ GuestRefs(c) \in Nat /\ GuestRefs(c)' \in Nat /\ InTransit("close", c) \in Nat
        /\ InTransit("open", c) \in Nat /\ lost[c] \in Int
    BY SumTypes DEF TypeOK
  <1> QED BY <1>2, <1>3, <1>4, <1>5, <1>6 DEF HostRefs

\* An open takes a reference and is under way.
LEMMA OpenBalance ==
  ASSUME TypeOK, Bounded(Queues), NEW t \in Threads, NEW b \in Buffers,
         Sent(t, Call("open", b)), UNCHANGED refcount,
         \A c \in Buffers : GuestRefs(c)' + lost'[c]
                              = IF c = b THEN GuestRefs(c) + lost[c] + 1 ELSE GuestRefs(c) + lost[c],
         lost' \in [Buffers -> Int]
  PROVE  Balanced
  <1> SUFFICES ASSUME NEW c \in Buffers PROVE HostRefs(c)' = HostRefs(c)
    BY DEF Balanced
  <1>1. Call("open", b) \in Calls
    BY CallIs DEF Ops
  <1>2. InTransit("close", c)' = InTransit("close", c)
    BY <1>1, SentTransit, CallIs
  <1>3. c = b => InTransit("open", c)' = InTransit("open", c) + 1
    BY <1>1, SentTransit
  <1>4. c # b => InTransit("open", c)' = InTransit("open", c)
    BY <1>1, SentTransit, CallIs
  <1>5. /\ GuestRefs(c) \in Nat /\ GuestRefs(c)' \in Nat /\ InTransit("close", c) \in Nat
        /\ InTransit("open", c) \in Nat /\ lost[c] \in Int /\ lost'[c] \in Int
    BY SumTypes DEF TypeOK
  <1>6. GuestRefs(c)' + lost'[c] = IF c = b THEN GuestRefs(c) + lost[c] + 1 ELSE GuestRefs(c) + lost[c]
    OBVIOUS
  <1>7. CASE c = b
    BY <1>2, <1>3, <1>5, <1>6, <1>7 DEF HostRefs
  <1>8. CASE c # b
    BY <1>2, <1>4, <1>5, <1>6, <1>8 DEF HostRefs
  <1> QED BY <1>7, <1>8

\* Threads that end lose calls, which lost accounts for.
LEMMA EndBalance ==
  ASSUME TypeOK, Bounded(Queues), NEW S, Ended(S), UNCHANGED refcount,
         \A b \in Buffers : GuestRefs(b)' + lost'[b] = GuestRefs(b) + lost[b] + Unsent(S, b),
         lost' \in [Buffers -> Int]
  PROVE  Balanced
  <1> SUFFICES ASSUME NEW c \in Buffers PROVE HostRefs(c)' = HostRefs(c)
    BY DEF Balanced
  <1>1. /\ InTransit("close", c) = InTransit("close", c)' + Dropped(S, "close", c)
        /\ InTransit("open", c) = InTransit("open", c)' + Dropped(S, "open", c)
        /\ Dropped(S, "close", c) \in Nat /\ Dropped(S, "open", c) \in Nat
        /\ Unsent(S, c) = Dropped(S, "close", c) - Dropped(S, "open", c)
    BY EndedTransit
  <1>2. /\ GuestRefs(c) \in Nat /\ GuestRefs(c)' \in Nat /\ InTransit("close", c)' \in Nat
        /\ InTransit("open", c)' \in Nat /\ lost[c] \in Int /\ lost'[c] \in Int
    BY SumTypes DEF TypeOK
  <1>3. GuestRefs(c)' + lost'[c] = GuestRefs(c) + lost[c] + Unsent(S, c)
    OBVIOUS
  <1>4. /\ HostRefs(c)' = GuestRefs(c)' + InTransit("close", c)' - InTransit("open", c)' + lost'[c]
        /\ HostRefs(c) = GuestRefs(c) + InTransit("close", c) - InTransit("open", c) + lost[c]
    BY DEF HostRefs
  <1>5. PICK g \in Int : g = GuestRefs(c)
    BY <1>1, <1>2
  <1>6. PICK h \in Int : h = GuestRefs(c)'
    BY <1>1, <1>2
  <1>7. PICK k \in Int : k = lost[c]
    BY <1>1, <1>2
  <1>8. PICK l \in Int : l = lost'[c]
    BY <1>1, <1>2
  <1>9. PICK x \in Int : x = InTransit("close", c)'
    BY <1>1, <1>2
  <1>10. PICK y \in Int : y = InTransit("open", c)'
    BY <1>1, <1>2
  <1>11. PICK d \in Int : d = Dropped(S, "close", c)
    BY <1>1, <1>2
  <1>12. PICK e \in Int : e = Dropped(S, "open", c)
    BY <1>1, <1>2
  <1>13. h + l = g + k + (d - e)
    BY <1>1, <1>3, <1>5, <1>6, <1>7, <1>8, <1>9, <1>10, <1>11, <1>12
  <1>14. h + x - y + l = g + (x + d) - (y + e) + k
    BY <1>13
  <1> QED BY <1>1, <1>4, <1>14, <1>5, <1>6, <1>7, <1>8, <1>9, <1>10, <1>11, <1>12

\* In the beginning there is nothing to count.
LEMMA InitCount ==
  ASSUME Init
  PROVE  /\ CountInv /\ \A b \in Buffers : Unheard(b) /\ GuestRefs(b) = 0
         /\ \A c, u, i : ~At(Threads, Queues, c, u, i) /\ ~At(Threads, out, c, u, i)
  <1>1. TypeOK
    <2>1. <<>> \in Seq(Calls) /\ 0 \in 0 .. MaxHeld /\ 0 \in 0 .. MaxPosts /\ 0 \in 0 .. MaxBuffers
      BY BoundsAssumption
    <2>2. held \in [Procs -> [Buffers -> 0 .. MaxHeld]]
      BY <2>1 DEF Init
    <2> QED BY <2>1, <2>2 DEF Init, TypeOK
  <1>2. \A t \in Threads : Queues[t] = <<>> /\ Len(Queues[t]) = 0 /\ Len(out[t]) = 0
    <2>1. <<>> \o <<>> = <<>>
      OBVIOUS
    <2> QED BY <2>1 DEF Init, Queues, Undelivered
  <1>3. Bounded(Queues)
    BY <1>1, <1>2, QueueTypes, BoundsAssumption DEF Bounded
  <1>4. ASSUME NEW c, NEW u, NEW i
        PROVE  ~At(Threads, Queues, c, u, i) /\ ~At(Threads, out, c, u, i)
    BY <1>2, BoundsAssumption DEF At
  <1>5. ASSUME NEW b \in Buffers PROVE Unheard(b)
    <2>1. \A p \in Procs : RefsOf(p, b) = 0
      BY ProcsAssumption DEF Init, RefsOf
    <2> QED BY <1>4, <2>1 DEF Init, Unheard
  <1>6. ASSUME NEW b \in Buffers
        PROVE  GuestRefs(b) = 0 /\ \A op : InTransit(op, b) = 0
    BY <1>1, <1>4, <1>5, RefsCounted DEF Unheard
  <1>7. Fresh
    BY <1>5 DEF Fresh
  <1>8. PostsCounted
    BY <1>6 DEF PostsCounted, Init
  <1>9. CountIsClientReferences
    BY DEF CountIsClientReferences, Init
  <1> QED BY <1>1, <1>3, <1>4, <1>5, <1>6, <1>7, <1>8, <1>9 DEF CountInv

\* What Write leaves in the connection has its type.
LEMMA WriteTypes ==
  ASSUME TypeOK, NEW t \in Threads, NEW e \in Calls, Write(t, e)
  PROVE  out' \in [Threads -> Seq(Calls)] /\ wire' \in [Threads -> Seq(Calls)]
  <1>1. out[t] \in Seq(Calls)
    BY DEF TypeOK
  <1>2. Append(out[t], e) \in Seq(Calls)
    BY <1>1, AppendProperties
  <1> QED BY <1>2 DEF Write, TypeOK

\* the steps that leave the host's table and the number of buffers alone
LEMMA CountsKept ==
  ASSUME CountInv, Balanced
  PROVE  CountIsClientReferences'
  <1> SUFFICES ASSUME NEW b \in Buffers, refcount'[b] > 0 PROVE refcount'[b] = HostRefs(b)'
    BY DEF CountIsClientReferences
  <1>1. refcount[b] = refcount'[b] /\ HostRefs(b)' = HostRefs(b)
    BY DEF Balanced
  <1> QED BY <1>1 DEF CountInv, CountIsClientReferences

\* A step that sends a call about an existing buffer keeps what is counted.
LEMMA SendKeeps ==
  ASSUME CountInv, TypeOK', Balanced, NEW t \in Threads, NEW op \in Ops, NEW b \in Buffers,
         b <= serial, Sent(t, Call(op, b)), UNCHANGED <<serial, posted>>,
         \A c \in Buffers \ {b} : lost'[c] = lost[c] /\ \A p \in Procs : RefsOf(p, c)' = RefsOf(p, c),
         \A c \in Buffers : posts'[c] = IF op = "post" /\ c = b THEN posts[c] + 1 ELSE posts[c]
  PROVE  CountInv'
  <1>1. TypeOK /\ Bounded(Queues) /\ Fresh /\ PostsCounted /\ CountIsClientReferences
    BY DEF CountInv
  <1>2. Call(op, b) \in Calls
    BY CallIs
  <1>3. Bounded(Queues)'
    BY <1>1, <1>2, SentTransit
  <1>4. \A c, u, i : At(Threads, Queues', c, u, i)
                       => At(Threads, Queues, c, u, i) \/ c = Call(op, b)
    <2> SUFFICES ASSUME NEW c PROVE \A u, i : At(Threads, Queues', c, u, i)
                                        => At(Threads, Queues, c, u, i) \/ c = Call(op, b)
      OBVIOUS
    <2>1. PICK U : U = Queues
      OBVIOUS
    <2>2. PICK V : V = Queues'
      OBVIOUS
    <2>3. PlaceAdded(U, V, t, Call(op, b), c)
      BY <1>1, <1>2, <2>1, <2>2, AppendPlaces DEF Sent
    <2> QED BY <2>1, <2>2, <2>3 DEF PlaceAdded
  <1>5. Fresh'
    <2> SUFFICES ASSUME NEW c \in Buffers, c > serial PROVE Unheard(c)'
      BY DEF Fresh
    <2>1. c # b /\ Unheard(c)
      BY <1>1 DEF Fresh, TypeOK, Buffers
    <2>2. \A o : Call(o, c) # Call(op, b)
      BY <2>1, CallIs
    <2>3. refcount'[c] = 0 /\ lost'[c] = 0 /\ \A p \in Procs : RefsOf(p, c)' = 0
      BY <2>1 DEF Unheard, Balanced
    <2>4. \A o, u, i : ~At(Threads, Queues', Call(o, c), u, i)
      BY <2>1, <2>2, <1>4 DEF Unheard
    <2> QED BY <2>3, <2>4 DEF Unheard
  <1>6. PostsCounted'
    <2> SUFFICES ASSUME NEW c \in Buffers PROVE posted'[c] + InTransit("post", c)' <= posts'[c]
      BY DEF PostsCounted
    <2>1. /\ posted[c] + InTransit("post", c) <= posts[c] /\ posted[c] \in Nat /\ posts[c] \in Nat
          /\ InTransit("post", c) \in Nat /\ posted'[c] = posted[c]
      BY <1>1, SumTypes, BoundsAssumption DEF PostsCounted, TypeOK
    <2>2. CASE op = "post" /\ c = b
      <3>1. InTransit("post", c)' = InTransit("post", c) + 1 /\ posts'[c] = posts[c] + 1
        BY <1>1, <1>2, <2>2, SentTransit
      <3> QED BY <2>1, <3>1
    <2>3. CASE ~(op = "post" /\ c = b)
      <3>1. Call("post", c) # Call(op, b)
        BY <2>3, CallIs
      <3>2. InTransit("post", c)' = InTransit("post", c) /\ posts'[c] = posts[c]
        BY <1>1, <1>2, <2>3, <3>1, SentTransit
      <3> QED BY <2>1, <3>2
    <2> QED BY <2>2, <2>3
  <1> QED BY <1>3, <1>5, <1>6, CountsKept DEF CountInv

\* A buffer somebody has a reference to was allocated.
LEMMA HeldExists ==
  ASSUME CountInv, NEW b \in Buffers
  PROVE  /\ GuestRefs(b) > 0 => b <= serial
         /\ \A p \in Procs : RefsOf(p, b) > 0 => b <= serial
  <1>1. TypeOK /\ Fresh /\ serial \in Int /\ b \in Int
    BY DEF CountInv, TypeOK, Buffers
  <1>2. b > serial => GuestRefs(b) = 0 /\ \A p \in Procs : RefsOf(p, b) = 0
    BY <1>1, RefsCounted DEF Fresh, Unheard
  <1> QED BY <1>1, <1>2

\* RefsOf of the other buffers is left alone.
LEMMA OtherRefs ==
  ASSUME NEW p \in Procs, NEW b \in Buffers, RefsRaised(p, b) \/ RefsLowered(p, b)
  PROVE  \A c \in Buffers \ {b} : \A q \in Procs : RefsOf(q, c)' = RefsOf(q, c)
  <1> SUFFICES ASSUME NEW c \in Buffers \ {b}, NEW q \in Procs PROVE RefsOf(q, c)' = RefsOf(q, c)
    OBVIOUS
  <1>1. Refs(c)' = Refs(c)
    BY DEF RefsRaised, RefsLowered
  <1>2. Refs(c)[q] = RefsOf(q, c) /\ Refs(c)'[q] = RefsOf(q, c)'
    BY DEF Refs
  <1> QED BY <1>1, <1>2

\* gralloc_free keeps what is counted.
LEMMA FreeCount ==
  ASSUME CountInv, NEW t \in Threads, NEW b \in Buffers, Free(t, b)
  PROVE  CountInv' /\ Balanced
  <1>1. TypeOK /\ Bounded(Queues)
    BY DEF CountInv
  <1>2. PICK p \in Procs : p = ProcOf[t]
    BY ProcsAssumption
  <1>3. "close" \in Ops /\ Call("close", b) \in Calls /\ Write(t, Call("close", b))
    BY CallIs DEF Ops, Free
  <1>4. RefsLowered(p, b) /\ RefsOf(p, b) > 0 /\ Sent(t, Call("close", b))
    BY <1>1, <1>2, <1>3, FreeLowers, WriteSends
  <1>5. UNCHANGED <<serial, held, posts, locked, ended, refcount, posted, lost>>
    BY DEF Free, host
  <1>6. TypeOK'
    <2>1. allocator' \in [Buffers -> Procs \cup {NoProc}]
      BY <1>1 DEF Free, TypeOK
    <2> QED BY <1>1, <1>3, <1>5, <2>1, WriteTypes DEF TypeOK
  <1>7. Balanced
    BY <1>1, <1>4, <1>5, CloseBalance
  <1>8. CountInv'
    BY <1>3, <1>4, <1>5, <1>6, <1>7, HeldExists, OtherRefs, SendKeeps
  <1> QED BY <1>7, <1>8

\* gralloc_unregister_buffer keeps what is counted.
LEMMA UnregisterCount ==
  ASSUME CountInv, NEW t \in Threads, NEW b \in Buffers, Unregister(t, b)
  PROVE  CountInv' /\ Balanced
  <1>1. TypeOK /\ Bounded(Queues)
    BY DEF CountInv
  <1>2. PICK p \in Procs : p = ProcOf[t]
    BY ProcsAssumption
  <1>3. "close" \in Ops /\ Call("close", b) \in Calls /\ Write(t, Call("close", b))
    BY CallIs DEF Ops, Unregister
  <1>4. RefsLowered(p, b) /\ RefsOf(p, b) > 0 /\ Sent(t, Call("close", b))
    BY <1>1, <1>2, <1>3, UnregisterLowers, WriteSends
  <1>5. UNCHANGED <<serial, allocator, posts, locked, ended, refcount, posted, lost>>
    BY DEF Unregister, host
  <1>6. TypeOK'
    <2>1. held[p][b] \in 0 .. MaxHeld /\ held[p][b] > 0 /\ held' = [held EXCEPT ![p][b] = @ - 1]
      BY <1>1, <1>2 DEF Unregister, TypeOK
    <2>2. held[p][b] - 1 \in 0 .. MaxHeld
      BY <2>1, BoundsAssumption
    <2>3. held' \in [Procs -> [Buffers -> 0 .. MaxHeld]]
      BY <1>1, <2>1, <2>2 DEF TypeOK
    <2> QED BY <1>1, <1>3, <1>5, <2>3, WriteTypes DEF TypeOK
  <1>7. Balanced
    BY <1>1, <1>4, <1>5, CloseBalance
  <1>8. CountInv'
    BY <1>3, <1>4, <1>5, <1>6, <1>7, HeldExists, OtherRefs, SendKeeps
  <1> QED BY <1>7, <1>8

\* gralloc_register_buffer keeps what is counted.
LEMMA RegisterCount ==
  ASSUME CountInv, NEW t \in Threads, NEW b \in Buffers, Register(t, b)
  PROVE  CountInv' /\ Balanced
  <1>1. TypeOK /\ Bounded(Queues)
    BY DEF CountInv
  <1>2. PICK p \in Procs : p = ProcOf[t]
    BY ProcsAssumption
  <1>3. "open" \in Ops /\ Call("open", b) \in Calls /\ Write(t, Call("open", b)) /\ GuestRefs(b) > 0
    BY CallIs DEF Ops, Register
  <1>4. RefsRaised(p, b) /\ Sent(t, Call("open", b))
    BY <1>1, <1>2, <1>3, RegisterRaises, WriteSends
  <1>5. UNCHANGED <<serial, allocator, posts, locked, ended, refcount, posted, lost>>
    BY DEF Register, host
  <1>6. TypeOK'
    <2>1. held[p][b] \in 0 .. MaxHeld /\ held[p][b] < MaxHeld /\ held' = [held EXCEPT ![p][b] = @ + 1]
      BY <1>1, <1>2 DEF Register, TypeOK
    <2>2. held[p][b] + 1 \in 0 .. MaxHeld
      BY <2>1, BoundsAssumption
    <2>3. held' \in [Procs -> [Buffers -> 0 .. MaxHeld]]
      BY <1>1, <2>1, <2>2 DEF TypeOK
    <2> QED BY <1>1, <1>3, <1>5, <2>3, WriteTypes DEF TypeOK
  <1>7. ASSUME NEW c \in Buffers
        PROVE  GuestRefs(c)' + lost'[c] = IF c = b THEN GuestRefs(c) + lost[c] + 1 ELSE GuestRefs(c) + lost[c]
    <2>1. GuestRefs(c)' = IF c = b THEN GuestRefs(c) + 1 ELSE GuestRefs(c)
      BY <1>1, <1>4, RaisedRefs
    <2>2. GuestRefs(c) \in Nat /\ lost[c] \in Int /\ lost'[c] = lost[c]
      BY <1>1, <1>5, SumTypes DEF TypeOK
    <2> QED BY <2>1, <2>2
  <1>8. Balanced
    BY <1>1, <1>4, <1>5, <1>6, <1>7, OpenBalance DEF TypeOK
  <1>9. CountInv'
    BY <1>3, <1>4, <1>5, <1>6, <1>8, HeldExists, OtherRefs, SendKeeps
  <1> QED BY <1>8, <1>9

\* A registration that fails is counted among the lost references.
LEMMA RegisterFailsCount ==
  ASSUME CountInv, NEW t \in Threads, NEW b \in Buffers, RegisterFails(t, b)
  PROVE  CountInv' /\ Balanced
  <1>1. TypeOK /\ Bounded(Queues)
    BY DEF CountInv
  <1>2. "open" \in Ops /\ Call("open", b) \in Calls /\ Write(t, Call("open", b)) /\ GuestRefs(b) > 0
    BY CallIs DEF Ops, RegisterFails
  <1>3. Sent(t, Call("open", b))
    BY <1>1, <1>2, WriteSends
  <1>4. UNCHANGED <<serial, allocator, held, posts, locked, ended, refcount, posted>>
    BY DEF RegisterFails, host, guest
  <1>5. lost' \in [Buffers -> Int] /\ lost'[b] = lost[b] + 1 /\ \A c \in Buffers \ {b} : lost'[c] = lost[c]
    BY <1>1 DEF RegisterFails, TypeOK
  <1>6. TypeOK'
    BY <1>1, <1>2, <1>4, <1>5, WriteTypes DEF TypeOK
  <1>7. \A c \in Buffers : Refs(c)' = Refs(c) /\ \A p \in Procs : RefsOf(p, c)' = RefsOf(p, c)
    BY <1>4, RefsFrame DEF RefsOf
  <1>8. ASSUME NEW c \in Buffers
        PROVE  GuestRefs(c)' + lost'[c] = IF c = b THEN GuestRefs(c) + lost[c] + 1 ELSE GuestRefs(c) + lost[c]
    <2>1. GuestRefs(c)' = GuestRefs(c)
      BY <1>7, Sums
    <2>2. GuestRefs(c) \in Nat /\ lost[c] \in Int
      BY <1>1, SumTypes DEF TypeOK
    <2> QED BY <1>5, <2>1, <2>2
  <1>9. Balanced
    BY <1>1, <1>3, <1>4, <1>5, <1>8, OpenBalance
  <1>10. CountInv'
    BY <1>2, <1>3, <1>4, <1>5, <1>6, <1>7, <1>9, HeldExists, SendKeeps
  <1> QED BY <1>9, <1>10

\* fb_post keeps what is counted, and its post is counted.
LEMMA FbPostCount ==
  ASSUME CountInv, NEW t \in Threads, NEW b \in Buffers, FbPost(t, b)
  PROVE  CountInv' /\ Balanced
  <1>1. TypeOK /\ Bounded(Queues)
    BY DEF CountInv
  <1>2. PICK p \in Procs : p = ProcOf[t]
    BY ProcsAssumption
  <1>3. "post" \in Ops /\ Call("post", b) \in Calls /\ RefsOf(p, b) > 0
    BY <1>2, CallIs DEF Ops, FbPost
  <1>4. Sent(t, Call("post", b))
    BY <1>1, PostSends
  <1>5. UNCHANGED <<serial, allocator, held, locked, ended, refcount, posted, lost>>
    BY DEF FbPost, host, guest
  <1>6. /\ posts' \in [Buffers -> 0 .. MaxPosts] /\ posts'[b] = posts[b] + 1
        /\ \A c \in Buffers \ {b} : posts'[c] = posts[c]
    <2>1. posts[b] \in 0 .. MaxPosts /\ posts[b] < MaxPosts /\ posts' = [posts EXCEPT ![b] = @ + 1]
      BY <1>1 DEF FbPost, TypeOK
    <2>2. posts[b] + 1 \in 0 .. MaxPosts
      BY <2>1, BoundsAssumption
    <2> QED BY <1>1, <2>1, <2>2 DEF TypeOK
  <1>7. out' \in [Threads -> Seq(Calls)] /\ wire' \in [Threads -> Seq(Calls)]
    <2>1. wire[t] \in Seq(Calls) /\ out[t] \in Seq(Calls) /\ <<>> \in Seq(Calls)
      BY <1>1 DEF TypeOK
    <2>2. PICK x : x = Append(out[t], Call("post", b))
      OBVIOUS
    <2>3. x \in Seq(Calls)
      BY <1>3, <2>1, <2>2, AppendIs
    <2>4. wire[t] \o x \in Seq(Calls)
      BY <2>1, <2>3, ConcatIs
    <2>5. wire' = [wire EXCEPT ![t] = @ \o x] /\ out' = [out EXCEPT ![t] = <<>>]
      BY <2>2 DEF FbPost
    <2> QED BY <1>1, <2>1, <2>4, <2>5 DEF TypeOK
  <1>8. TypeOK'
    BY <1>1, <1>5, <1>6, <1>7 DEF TypeOK
  <1>9. \A c \in Buffers : Refs(c)' = Refs(c) /\ \A q \in Procs : RefsOf(q, c)' = RefsOf(q, c)
    BY <1>5, RefsFrame DEF RefsOf
  <1>10. Balanced
    <2> SUFFICES ASSUME NEW c \in Buffers PROVE HostRefs(c)' = HostRefs(c)
      BY <1>5 DEF Balanced
    <2>1. GuestRefs(c)' = GuestRefs(c)
      BY <1>9, Sums
    <2>2. Call("open", c) # Call("post", b) /\ Call("close", c) # Call("post", b)
      BY CallIs
    <2>3. InTransit("open", c)' = InTransit("open", c) /\ InTransit("close", c)' = InTransit("close", c)
      BY <1>1, <1>3, <1>4, <2>2, SentTransit
    <2> QED BY <1>5, <2>1, <2>3 DEF HostRefs
  <1>11. CountInv'
    BY <1>2, <1>3, <1>4, <1>5, <1>6, <1>8, <1>9, <1>10, HeldExists, SendKeeps
  <1> QED BY <1>10, <1>11

\* The steps that change neither the queues nor the references.
LEMMA QuietCount ==
  ASSUME CountInv, TypeOK', Queues' = Queues,
         UNCHANGED <<serial, allocator, held, posts, refcount, posted, lost>>
  PROVE  CountInv' /\ Balanced
  <1>1. TypeOK /\ Bounded(Queues) /\ Fresh /\ PostsCounted
    BY DEF CountInv
  <1>2. \A c \in Buffers : Refs(c)' = Refs(c) /\ \A q \in Procs : RefsOf(q, c)' = RefsOf(q, c)
    BY RefsFrame DEF RefsOf
  <1>3. \A c \in Buffers : \A op : GuestRefs(c)' = GuestRefs(c) /\ InTransit(op, c)' = InTransit(op, c)
    BY <1>2, Sums
  <1>4. Balanced
    BY <1>3 DEF Balanced, HostRefs
  <1>5. Fresh'
    BY <1>1, <1>2 DEF Fresh, Unheard
  <1>6. PostsCounted'
    BY <1>1, <1>3 DEF PostsCounted
  <1>7. Bounded(Queues)'
    BY <1>1 DEF Bounded
  <1> QED BY <1>4, <1>5, <1>6, <1>7, CountsKept DEF CountInv

\* Flushing, locking and unlocking, and doing nothing.
LEMMA OtherCount ==
  ASSUME CountInv,
         \/ UNCHANGED vars
         \/ \E t \in Threads : Flush(t) \/ Unlock(t) \/ \E b \in Buffers : Lock(t, b)
  PROVE  CountInv' /\ Balanced
  <1>1. TypeOK
    BY DEF CountInv
  <1>2. CASE UNCHANGED vars
    <2>1. TypeOK' /\ Queues' = Queues
      BY <1>1, <1>2 DEF TypeOK, vars, guest, conn, host, Queues, Undelivered
    <2> QED BY <1>2, <2>1, QuietCount DEF vars, guest, host
  <1>3. ASSUME NEW t \in Threads, Flush(t) PROVE CountInv' /\ Balanced
    <2>1. wire[t] \in Seq(Calls) /\ out[t] \in Seq(Calls) /\ <<>> \in Seq(Calls)
      BY <1>1 DEF TypeOK
    <2>2. wire[t] \o out[t] \in Seq(Calls)
      BY <2>1, ConcatIs
    <2>3. wire' \in [Threads -> Seq(Calls)] /\ out' \in [Threads -> Seq(Calls)]
      BY <1>1, <1>3, <2>1, <2>2 DEF Flush, TypeOK
    <2>4. TypeOK'
      BY <1>1, <1>3, <2>3 DEF Flush, TypeOK, guest, host
    <2> QED BY <1>1, <1>3, <2>4, FlushKeeps, QuietCount DEF Flush, guest, host
  <1>4. ASSUME NEW t \in Threads, Unlock(t) PROVE CountInv' /\ Balanced
    <2>1. TypeOK' /\ Queues' = Queues
      BY <1>1, <1>4 DEF Unlock, TypeOK, guest, conn, host, Queues, Undelivered
    <2> QED BY <1>4, <2>1, QuietCount DEF Unlock, guest, host
  <1>5. ASSUME NEW t \in Threads, NEW b \in Buffers, Lock(t, b) PROVE CountInv' /\ Balanced
    <2>1. TypeOK' /\ Queues' = Queues
      BY <1>1, <1>5 DEF Lock, TypeOK, guest, conn, host, Queues, Undelivered
    <2> QED BY <1>5, <2>1, QuietCount DEF Lock, guest, host
  <1> QED BY <1>2, <1>3, <1>4, <1>5

\* A step that ends threads keeps what is counted.
LEMMA EndKeeps ==
  ASSUME CountInv, TypeOK', Balanced, NEW S, Ended(S), UNCHANGED <<serial, posts, posted>>,
         \A b \in Buffers : Unheard(b) => lost'[b] = 0 /\ \A p \in Procs : RefsOf(p, b)' = 0
  PROVE  CountInv'
  <1>1. TypeOK /\ Bounded(Queues) /\ Fresh /\ PostsCounted
    BY DEF CountInv
  <1>2. Bounded(Queues)'
    BY <1>1, EndedTransit
  <1>3. \A c, u, i : At(Threads, Queues', c, u, i) => At(Threads, Queues, c, u, i)
    BY <1>1, EndedTransit
  <1>4. Fresh'
    <2> SUFFICES ASSUME NEW b \in Buffers, b > serial PROVE Unheard(b)'
      BY DEF Fresh
    <2>1. Unheard(b)
      BY <1>1 DEF Fresh
    <2>2. refcount'[b] = 0 /\ lost'[b] = 0 /\ \A p \in Procs : RefsOf(p, b)' = 0
      BY <2>1 DEF Unheard, Balanced
    <2>3. \A op, u, i : ~At(Threads, Queues', Call(op, b), u, i)
      BY <1>3, <2>1 DEF Unheard
    <2> QED BY <2>2, <2>3 DEF Unheard
  <1>5. PostsCounted'
    <2> SUFFICES ASSUME NEW b \in Buffers PROVE posted'[b] + InTransit("post", b)' <= posts'[b]
      BY DEF PostsCounted
    <2>1. /\ posted[b] + InTransit("post", b) <= posts[b] /\ posted[b] \in Nat /\ posts[b] \in Nat
          /\ InTransit("post", b)' \in Nat /\ InTransit("post", b) \in Nat
      BY <1>1, SumTypes, BoundsAssumption DEF PostsCounted, TypeOK
    <2>2. InTransit("post", b) = InTransit("post", b)' + Dropped(S, "post", b)
          /\ Dropped(S, "post", b) \in Nat
      BY <1>1, EndedTransit
    <2> QED BY <2>1, <2>2
  <1> QED BY <1>2, <1>4, <1>5, CountsKept DEF CountInv

\* No call about an unheard buffer is lost.
LEMMA UnheardUnsent ==
  ASSUME TypeOK, Bounded(Queues), NEW S, Ended(S), NEW b \in Buffers, Unheard(b)
  PROVE  Unsent(S, b) = 0
  <1>1. \A op : InTransit(op, b) = 0
    BY RefsCounted DEF Unheard
  <1>2. ASSUME NEW op PROVE Dropped(S, op, b) = 0
    <2>1. /\ InTransit(op, b) = InTransit(op, b)' + Dropped(S, op, b)
          /\ Dropped(S, op, b) \in Nat /\ InTransit(op, b)' \in Nat
      BY EndedTransit, SumTypes
    <2> QED BY <1>1, <2>1
  <1>3. Unsent(S, b) = Dropped(S, "close", b) - Dropped(S, "open", b)
    BY EndedTransit
  <1> QED BY <1>2, <1>3

\* tlsDestruct keeps what is counted.
LEMMA ThreadExitsCount ==
  ASSUME CountInv, NEW t \in Threads, ThreadExits(t)
  PROVE  CountInv' /\ Balanced
  <1>1. TypeOK /\ Bounded(Queues)
    BY DEF CountInv
  <1>2. PICK S : S = {t}
    OBVIOUS
  <1>3. Ended(S)
    BY <1>1, <1>2 DEF ThreadExits, Ended, TypeOK
  <1>4. UNCHANGED <<serial, allocator, held, posts, refcount, posted>>
    BY DEF ThreadExits, guest, host
  <1>5. \A b \in Buffers : lost'[b] = lost[b] + Unsent(S, b) /\ Unsent(S, b) \in Int /\ lost[b] \in Int
    BY <1>1, <1>2, <1>3, EndedTransit DEF ThreadExits, TypeOK
  <1>6. lost' \in [Buffers -> Int]
    <2>1. lost' = [b \in Buffers |-> lost'[b]]
      BY DEF ThreadExits
    <2>2. \A b \in Buffers : lost'[b] \in Int
      BY <1>5
    <2> QED BY <2>1, <2>2
  <1>7. TypeOK'
    <2>1. out' \in [Threads -> Seq(Calls)] /\ wire' = wire
      BY <1>1 DEF ThreadExits, TypeOK
    <2>2. locked' \in {<<>>} \cup (Threads \X Buffers)
      BY <1>1 DEF ThreadExits, TypeOK, Unlocked
    <2>3. ended' \subseteq Threads
      BY <1>1 DEF ThreadExits, TypeOK
    <2> QED BY <1>1, <1>4, <1>6, <2>1, <2>2, <2>3 DEF TypeOK
  <1>8. \A c \in Buffers : Refs(c)' = Refs(c) /\ \A q \in Procs : RefsOf(q, c)' = RefsOf(q, c)
    BY <1>4, RefsFrame DEF RefsOf
  <1>9. ASSUME NEW b \in Buffers
        PROVE  GuestRefs(b)' + lost'[b] = GuestRefs(b) + lost[b] + Unsent(S, b)
    <2>1. GuestRefs(b)' = GuestRefs(b) /\ GuestRefs(b) \in Nat
      BY <1>8, Sums, SumTypes
    <2> QED BY <1>5, <2>1
  <1>10. Balanced
    BY <1>1, <1>3, <1>4, <1>6, <1>9, EndBalance
  <1>11. ASSUME NEW b \in Buffers, Unheard(b)
         PROVE  lost'[b] = 0 /\ \A p \in Procs : RefsOf(p, b)' = 0
    <2>1. Unsent(S, b) = 0
      BY <1>1, <1>3, <1>11, UnheardUnsent
    <2> QED BY <1>5, <1>8, <1>11, <2>1 DEF Unheard
  <1>12. CountInv'
    BY <1>3, <1>4, <1>7, <1>10, <1>11, EndKeeps
  <1> QED BY <1>10, <1>12

\* The death of a process keeps what is counted: its references are lost.
LEMMA ProcessDiesCount ==
  ASSUME CountInv, NEW p \in Procs, ProcessDies(p)
  PROVE  CountInv' /\ Balanced
  <1>1. TypeOK /\ Bounded(Queues)
    BY DEF CountInv
  <1>2. PICK S : S = {t \in Threads \ ended : ProcOf[t] = p}
    OBVIOUS
  <1>3. Ended(S)
    BY <1>2 DEF ProcessDies, Ended
  <1>4. UNCHANGED <<serial, posts, refcount, posted>>
    BY DEF ProcessDies, host
  <1>5. \A b \in Buffers : /\ lost'[b] = lost[b] + Unsent(S, b) + RefsOf(p, b)
                           /\ Unsent(S, b) \in Int /\ lost[b] \in Int /\ RefsOf(p, b) \in Nat
    <2> SUFFICES ASSUME NEW b \in Buffers
                 PROVE  /\ lost'[b] = lost[b] + Unsent(S, b) + RefsOf(p, b)
                        /\ Unsent(S, b) \in Int /\ lost[b] \in Int /\ RefsOf(p, b) \in Nat
      OBVIOUS
    <2>1. lost'[b] = lost[b] + Unsent(S, b) + RefsOf(p, b)
      BY <1>2 DEF ProcessDies
    <2>2. RefsOf(p, b) \in 0 .. MaxHeld + 1
      BY <1>1, RefsCounted
    <2>3. Unsent(S, b) \in Int
      BY <1>1, <1>3, EndedTransit
    <2>4. lost[b] \in Int /\ RefsOf(p, b) \in Nat
      BY <1>1, <2>2, BoundsAssumption DEF TypeOK
    <2> QED BY <2>1, <2>3, <2>4
  <1>6. lost' \in [Buffers -> Int]
    <2>1. lost' = [b \in Buffers |-> lost'[b]]
      BY DEF ProcessDies
    <2>2. \A b \in Buffers : lost'[b] \in Int
      BY <1>5
    <2> QED BY <2>1, <2>2
  <1>7. TypeOK'
    <2>1. out' \in [Threads -> Seq(Calls)] /\ wire' = wire
      BY <1>1 DEF ProcessDies, TypeOK
    <2>2. locked' \in {<<>>} \cup (Threads \X Buffers)
      BY <1>1 DEF ProcessDies, TypeOK, Unlocked
    <2>3. ended' \subseteq Threads
      BY <1>1, <1>2 DEF ProcessDies, TypeOK
    <2>4. allocator' \in [Buffers -> Procs \cup {NoProc}]
      BY <1>1 DEF ProcessDies, TypeOK
    <2>5. held' \in [Procs -> [Buffers -> 0 .. MaxHeld]]
      <3>1. [b \in Buffers |-> 0] \in [Buffers -> 0 .. MaxHeld]
        BY BoundsAssumption
      <3> QED BY <1>1, <3>1 DEF ProcessDies, TypeOK
    <2> QED BY <1>1, <1>4, <1>6, <2>1, <2>2, <2>3, <2>4, <2>5 DEF TypeOK
  <1>8. ASSUME NEW b \in Buffers
        PROVE  GuestRefs(b)' + lost'[b] = GuestRefs(b) + lost[b] + Unsent(S, b)
    <2>1. GuestRefs(b) = GuestRefs(b)' + RefsOf(p, b) /\ GuestRefs(b)' \in Nat
      BY <1>1, ClearedRefs, SumTypes
    <2> QED BY <1>5, <2>1
  <1>9. Balanced
    BY <1>1, <1>3, <1>4, <1>6, <1>8, EndBalance
  <1>10. ASSUME NEW b \in Buffers, Unheard(b)
         PROVE  lost'[b] = 0 /\ \A q \in Procs : RefsOf(q, b)' = 0
    <2>1. Unsent(S, b) = 0
      BY <1>1, <1>3, <1>10, UnheardUnsent
    <2>2. Refs(b)' = [Refs(b) EXCEPT ![p] = 0]
      BY <1>1, DeathClears
    <2>3. \A q \in Procs : RefsOf(q, b)' = 0
      <3>1. \A q \in Procs : Refs(b)[q] = 0 /\ Refs(b)'[q] = RefsOf(q, b)'
        BY <1>10 DEF Refs, Unheard
      <3>2. Refs(b) \in RefCounts
        BY <1>1, QueueTypes
      <3> QED BY <2>2, <3>1, <3>2 DEF RefCounts
    <2> QED BY <1>5, <1>10, <2>1, <2>3 DEF Unheard
  <1>11. CountInv'
    BY <1>3, <1>4, <1>7, <1>9, <1>10, EndKeeps
  <1> QED BY <1>9, <1>11

\* what an allocation does to the host's table and to the references
Created(n) ==
    /\ n \in Buffers /\ serial' = n /\ serial = n - 1
    /\ refcount' = [refcount EXCEPT ![n] = 1] /\ refcount[n] = 0
    /\ HostRefs(n) = 0 /\ HostRefs(n)' = 1
    /\ \A b \in Buffers \ {n} : HostRefs(b)' = HostRefs(b)
    /\ Queues' = Queues

\* rcCreateColorBuffer starts a count, with the reference of its caller.
LEMMA AllocCount ==
  ASSUME CountInv, NEW t \in Threads, Alloc(t)
  PROVE  CountInv' /\ Created(serial + 1)
  <1>1. TypeOK /\ Bounded(Queues) /\ Fresh /\ PostsCounted /\ CountIsClientReferences
    BY DEF CountInv
  <1>2. serial \in 0 .. MaxBuffers /\ serial < MaxBuffers
    BY <1>1 DEF TypeOK, Alloc
  <1>3. PICK n \in Buffers : n = serial + 1
    BY <1>2, BoundsAssumption DEF Buffers
  <1>4. Unheard(n)
    BY <1>1, <1>2, <1>3 DEF Fresh
  <1>5. PICK p \in Procs : p = ProcOf[t]
    BY ProcsAssumption
  <1>6. RefsRaised(p, n)
    BY <1>1, <1>3, <1>4, <1>5, AllocRaises DEF Unheard
  <1>7. /\ UNCHANGED <<held, posts, locked, out, wire, ended, posted, lost>>
        /\ serial' = n /\ refcount' = [refcount EXCEPT ![n] = 1]
        /\ allocator' = [allocator EXCEPT ![n] = p]
    BY <1>3, <1>5 DEF Alloc, conn
  <1>8. TypeOK'
    <2>1. serial' \in 0 .. MaxBuffers /\ allocator' \in [Buffers -> Procs \cup {NoProc}]
          /\ refcount' \in [Buffers -> Nat]
      BY <1>1, <1>2, <1>3, <1>7, BoundsAssumption DEF TypeOK
    <2> QED BY <1>1, <1>7, <2>1 DEF TypeOK
  <1>9. Queues' = Queues
    BY <1>7 DEF Queues, Undelivered
  <1>10. \A b \in Buffers : \A op : InTransit(op, b)' = InTransit(op, b)
    BY <1>9, Sums
  <1>11. refcount[n] = 0 /\ lost[n] = 0 /\ GuestRefs(n) = 0 /\ \A op : InTransit(op, n) = 0
    BY <1>1, <1>4, RefsCounted DEF Unheard
  <1>12. HostRefs(n) = 0
    BY <1>11 DEF HostRefs
  <1>13. HostRefs(n)' = 1
    <2>1. GuestRefs(n)' = 1
      BY <1>1, <1>6, <1>11, RaisedRefs
    <2> QED BY <1>7, <1>10, <1>11, <2>1 DEF HostRefs
  <1>14. ASSUME NEW b \in Buffers \ {n} PROVE HostRefs(b)' = HostRefs(b) /\ refcount'[b] = refcount[b]
    <2>1. GuestRefs(b)' = GuestRefs(b)
      BY <1>1, <1>6, RaisedRefs
    <2> QED BY <1>1, <1>7, <1>10, <2>1 DEF HostRefs, TypeOK
  <1>15. Created(n)
    BY <1>2, <1>3, <1>7, <1>9, <1>11, <1>12, <1>13, <1>14 DEF Created
  <1>16. CountIsClientReferences'
    <2> SUFFICES ASSUME NEW b \in Buffers, refcount'[b] > 0 PROVE refcount'[b] = HostRefs(b)'
      BY DEF CountIsClientReferences
    <2>1. CASE b = n
      BY <1>1, <1>7, <1>13, <2>1 DEF TypeOK
    <2>2. CASE b # n
      BY <1>1, <1>14, <2>2 DEF CountIsClientReferences
    <2> QED BY <2>1, <2>2
  <1>17. Fresh'
    <2> SUFFICES ASSUME NEW b \in Buffers, b > serial' PROVE Unheard(b)'
      BY DEF Fresh
    <2>1. b # n /\ b > serial
      BY <1>2, <1>3, <1>7 DEF Buffers
    <2>2. Unheard(b)
      BY <1>1, <2>1 DEF Fresh
    <2>3. \A q \in Procs : RefsOf(q, b)' = RefsOf(q, b)
      BY <1>6, <2>1, OtherRefs
    <2> QED BY <1>7, <1>9, <1>14, <2>1, <2>2, <2>3 DEF Unheard
  <1>18. PostsCounted'
    BY <1>1, <1>7, <1>10 DEF PostsCounted
  <1>19. Bounded(Queues)'
    BY <1>1, <1>9 DEF Bounded
  <1> QED BY <1>3, <1>8, <1>15, <1>16, <1>17, <1>18, <1>19 DEF CountInv

\* what the host's execution of call e does to its table and to the references
Executed(e) ==
    /\ e \in Calls
    /\ e.op = "open" => refcount' = [refcount EXCEPT ![e.buffer] = Opened(@)]
    /\ e.op = "close" => refcount' = [refcount EXCEPT ![e.buffer] = Closed(@)]
    /\ e.op = "post" => refcount' = refcount
    /\ \A b \in Buffers :
         /\ e = Call("open", b) => HostRefs(b)' = HostRefs(b) + 1
         /\ e = Call("close", b) => HostRefs(b)' = HostRefs(b) - 1
         /\ e \notin {Call("open", b), Call("close", b)} => HostRefs(b)' = HostRefs(b)

\* openColorBuffer, closeColorBuffer and the post: the count follows the
\* references.
LEMMA HostCount ==
  ASSUME CountInv, NEW t \in Threads, HostExecutes(t)
  PROVE  CountInv' /\ Taken(t) /\ Executed(Queues[t][1])
  <1>1. TypeOK /\ Bounded(Queues) /\ Fresh /\ PostsCounted /\ CountIsClientReferences
    BY DEF CountInv
  <1>2. PICK e \in Calls : e = Head(wire[t]) /\ e = Queues[t][1]
    BY <1>1, HostTakes
  <1>3. Taken(t)
    BY <1>1, HostTakes
  <1>4. UNCHANGED <<serial, allocator, held, posts, locked, out, ended, lost>>
    BY DEF HostExecutes, guest
  <1>5. /\ e.op = "open" => refcount' = [refcount EXCEPT ![e.buffer] = Opened(@)] /\ posted' = posted
        /\ e.op = "close" => refcount' = [refcount EXCEPT ![e.buffer] = Closed(@)] /\ posted' = posted
        /\ e.op = "post" => refcount' = refcount /\ posted' = [posted EXCEPT ![e.buffer] = @ + 1]
    BY <1>2 DEF HostExecutes
  <1>6. e = Call(e.op, e.buffer) /\ e.op \in {"open", "close", "post"} /\ e.buffer \in Buffers
    BY CallIs DEF Ops
  <1>7. ASSUME NEW op, NEW b
        PROVE  /\ Bounded(Queues')
               /\ Call(op, b) = e => InTransit(op, b) = InTransit(op, b)' + 1
               /\ Call(op, b) # e => InTransit(op, b)' = InTransit(op, b)
    BY <1>1, <1>2, <1>3, TakenTransit
  <1>8. ASSUME NEW b \in Buffers
        PROVE  /\ e = Call("open", b) => HostRefs(b)' = HostRefs(b) + 1
               /\ e = Call("close", b) => HostRefs(b)' = HostRefs(b) - 1
               /\ e \notin {Call("open", b), Call("close", b)} => HostRefs(b)' = HostRefs(b)
    <2>1. GuestRefs(b)' = GuestRefs(b)
      BY <1>4, RefsFrame, Sums
    <2>2. /\ InTransit("open", b) \in Nat /\ InTransit("open", b)' \in Nat /\ InTransit("close", b) \in Nat
          /\ InTransit("close", b)' \in Nat /\ lost[b] \in Int /\ GuestRefs(b) \in Nat /\ lost' = lost
      BY <1>1, <1>4, SumTypes DEF TypeOK
    <2>3. CASE e = Call("open", b)
      <3>1. Call("close", b) # e
        BY <2>3, CallIs
      <3>2. InTransit("open", b) = InTransit("open", b)' + 1 /\ InTransit("close", b)' = InTransit("close", b)
        BY <1>7, <2>3, <3>1
      <3> QED BY <2>1, <2>2, <2>3, <3>1, <3>2 DEF HostRefs
    <2>4. CASE e = Call("close", b)
      <3>1. Call("open", b) # e
        BY <2>4, CallIs
      <3>2. InTransit("close", b) = InTransit("close", b)' + 1 /\ InTransit("open", b)' = InTransit("open", b)
        BY <1>7, <2>4, <3>1
      <3> QED BY <2>1, <2>2, <2>4, <3>1, <3>2 DEF HostRefs
    <2>5. CASE e \notin {Call("open", b), Call("close", b)}
      <3>1. InTransit("close", b)' = InTransit("close", b) /\ InTransit("open", b)' = InTransit("open", b)
        BY <1>7, <2>5
      <3> QED BY <2>1, <2>2, <2>5, <3>1 DEF HostRefs
    <2> QED BY <2>3, <2>4, <2>5
  <1>9. Executed(e)
    BY <1>5, <1>8 DEF Executed
  <1>10. PostsCounted'
    <2> SUFFICES ASSUME NEW b \in Buffers PROVE posted'[b] + InTransit("post", b)' <= posts'[b]
      BY DEF PostsCounted
    <2>1. /\ posted[b] + InTransit("post", b) <= posts[b] /\ posted[b] \in Nat /\ posts'[b] = posts[b]
          /\ InTransit("post", b)' \in Nat /\ InTransit("post", b) \in Nat /\ posts[b] \in Nat
      BY <1>1, <1>4, SumTypes, BoundsAssumption DEF PostsCounted, TypeOK
    <2>2. CASE e = Call("post", b)
      <3>1. e.op = "post" /\ e.buffer = b
        BY <2>2, CallIs
      <3>2. posted'[b] = posted[b] + 1 /\ InTransit("post", b) = InTransit("post", b)' + 1
        BY <1>1, <1>5, <1>7, <2>2, <3>1 DEF TypeOK
      <3> QED BY <2>1, <3>2
    <2>3. CASE e # Call("post", b)
      <3>1. posted'[b] = posted[b] /\ InTransit("post", b)' = InTransit("post", b)
        BY <1>1, <1>5, <1>6, <1>7, <2>3 DEF TypeOK
      <3> QED BY <2>1, <3>1
    <2> QED BY <2>2, <2>3
  <1>11. TypeOK'
    <2>1. wire' \in [Threads -> Seq(Calls)]
      <3>1. wire[t] \in Seq(Calls) /\ wire[t] # <<>>
        BY <1>1 DEF TypeOK, HostExecutes
      <3>2. Tail(wire[t]) \in Seq(Calls)
        BY <3>1, HeadTailProperties
      <3> QED BY <1>1, <3>2 DEF HostExecutes, TypeOK
    <2>2. refcount' \in [Buffers -> Nat]
      <3>1. \A k \in Nat : Opened(k) \in Nat /\ Closed(k) \in Nat
        BY DEF Opened, Closed
      <3>2. refcount \in [Buffers -> Nat] /\ refcount[e.buffer] \in Nat
        BY <1>1, <1>6 DEF TypeOK
      <3>3. Opened(refcount[e.buffer]) \in Nat /\ Closed(refcount[e.buffer]) \in Nat
        BY <3>1, <3>2
      <3>4. CASE e.op = "open"
        BY <1>5, <3>2, <3>3, <3>4
      <3>5. CASE e.op = "close"
        BY <1>5, <3>2, <3>3, <3>5
      <3>6. CASE e.op = "post"
        BY <1>5, <3>2, <3>6
      <3> QED BY <1>6, <3>4, <3>5, <3>6
    <2>3. posted' \in [Buffers -> 0 .. MaxPosts]
      <3>1. e.op # "post" => posted' = posted
        BY <1>5, <1>6
      <3>2. ASSUME e.op = "post" PROVE posted[e.buffer] + 1 \in 0 .. MaxPosts
        <4>1. PICK b \in Buffers : b = e.buffer
          BY <1>6
        <4>2. InTransit("post", b) = InTransit("post", b)' + 1
          BY <1>6, <1>7, <3>2, <4>1
        <4>3. /\ posted[b] + InTransit("post", b) <= posts[b] /\ posted[b] \in Nat
              /\ posts[b] \in 0 .. MaxPosts /\ InTransit("post", b)' \in Nat
          BY <1>1, SumTypes, BoundsAssumption DEF PostsCounted, TypeOK
        <4> QED BY <4>1, <4>2, <4>3, BoundsAssumption
      <3> QED BY <1>1, <1>5, <1>6, <3>1, <3>2 DEF TypeOK
    <2> QED BY <1>1, <1>4, <2>1, <2>2, <2>3 DEF TypeOK
  <1>12. CountIsClientReferences'
    <2> SUFFICES ASSUME NEW b \in Buffers, refcount'[b] > 0 PROVE refcount'[b] = HostRefs(b)'
      BY DEF CountIsClientReferences
    <2>1. refcount[b] \in Nat /\ (refcount[b] > 0 => refcount[b] = HostRefs(b))
      BY <1>1 DEF TypeOK, CountIsClientReferences
    <2>2. CASE e = Call("open", b)
      <3>1. refcount'[b] = Opened(refcount[b]) /\ HostRefs(b)' = HostRefs(b) + 1
        BY <1>1, <1>5, <1>8, <2>2, CallIs DEF TypeOK
      <3> QED BY <2>1, <3>1 DEF Opened
    <2>3. CASE e = Call("close", b)
      <3>1. refcount'[b] = Closed(refcount[b]) /\ HostRefs(b)' = HostRefs(b) - 1
        BY <1>1, <1>5, <1>8, <2>3, CallIs DEF TypeOK
      <3> QED BY <2>1, <3>1 DEF Closed
    <2>4. CASE e \notin {Call("open", b), Call("close", b)}
      <3>1. refcount'[b] = refcount[b] /\ HostRefs(b)' = HostRefs(b)
        BY <1>1, <1>5, <1>6, <1>8, <2>4 DEF TypeOK
      <3> QED BY <2>1, <3>1
    <2> QED BY <2>2, <2>3, <2>4
  <1>13. Fresh'
    <2> SUFFICES ASSUME NEW b \in Buffers, b > serial PROVE Unheard(b)'
      BY <1>4 DEF Fresh
    <2>1. Unheard(b)
      BY <1>1 DEF Fresh
    <2>2. PICK U : U = Queues
      OBVIOUS
    <2>3. PICK V : V = Queues'
      OBVIOUS
    <2>4. ASSUME NEW op PROVE PlaceTaken(U, V, t, Call(op, b))
      <3>1. PICK c : c = Call(op, b)
        OBVIOUS
      <3>2. PlaceTaken(U, V, t, c)
        BY <1>1, <1>3, <2>2, <2>3, TailPlaces DEF Taken
      <3> QED BY <3>1, <3>2
    <2>5. \A op, u, i : ~At(Threads, U, Call(op, b), u, i)
      BY <2>1, <2>2 DEF Unheard
    <2>6. \A op, u, i : ~At(Threads, V, Call(op, b), u, i)
      <3> SUFFICES ASSUME NEW op, NEW u, NEW i, At(Threads, V, Call(op, b), u, i) PROVE FALSE
        OBVIOUS
      <3>1. i \in Int
        BY DEF At
      <3>2. CASE u # t
        BY <2>4, <2>5, <3>2 DEF PlaceTaken
      <3>3. CASE u = t
        BY <2>4, <2>5, <3>1, <3>3 DEF PlaceTaken
      <3> QED BY <3>2, <3>3
    <2>7. \A op : e # Call(op, b)
      <3> SUFFICES ASSUME NEW op, e = Call(op, b) PROVE FALSE
        OBVIOUS
      <3>1. At(Threads, U, Call(op, b), t, 1)
        BY <1>2, <2>2, <2>4 DEF PlaceTaken
      <3> QED BY <2>5, <3>1
    <2>8. refcount'[b] = refcount[b]
      BY <1>1, <1>5, <1>6, <2>7 DEF TypeOK
    <2>9. \A q \in Procs : RefsOf(q, b)' = RefsOf(q, b)
      BY <1>4 DEF RefsOf
    <2> QED BY <1>4, <2>1, <2>3, <2>6, <2>8, <2>9 DEF Unheard
  <1>14. Bounded(Queues)'
    BY <1>7
  <1> QED BY <1>2, <1>3, <1>9, <1>10, <1>11, <1>12, <1>13, <1>14 DEF CountInv

\* The steps of Next, with what they do to the host's ledger.
LEMMA NextCount ==
  ASSUME CountInv, [Next]_vars
  PROVE  /\ CountInv'
         /\ \/ Balanced
            \/ Created(serial + 1)
            \/ \E t \in Threads : Taken(t) /\ Executed(Queues[t][1])
  <1>1. CASE UNCHANGED vars
    BY <1>1, OtherCount
  <1>2. ASSUME NEW t \in Threads, Alloc(t) PROVE CountInv' /\ Created(serial + 1)
    BY <1>2, AllocCount
  <1>3. ASSUME NEW t \in Threads, Flush(t) \/ Unlock(t) PROVE CountInv' /\ Balanced
    BY <1>3, OtherCount
  <1>4. ASSUME NEW t \in Threads, ThreadExits(t) PROVE CountInv' /\ Balanced
    BY <1>4, ThreadExitsCount
  <1>5. ASSUME NEW t \in Threads, NEW b \in Buffers,
               \/ Free(t, b) \/ Register(t, b) \/ RegisterFails(t, b)
               \/ Unregister(t, b) \/ Lock(t, b) \/ FbPost(t, b)
        PROVE  CountInv' /\ Balanced
    <2>1. CASE Free(t, b)
      BY <2>1, FreeCount
    <2>2. CASE Register(t, b)
      BY <2>2, RegisterCount
    <2>3. CASE RegisterFails(t, b)
      BY <2>3, RegisterFailsCount
    <2>4. CASE Unregister(t, b)
      BY <2>4, UnregisterCount
    <2>5. CASE Lock(t, b)
      BY <2>5, OtherCount
    <2>6. CASE FbPost(t, b)
      BY <2>6, FbPostCount
    <2> QED BY <1>5, <2>1, <2>2, <2>3, <2>4, <2>5, <2>6
  <1>6. ASSUME NEW p \in Procs, ProcessDies(p) PROVE CountInv' /\ Balanced
    BY <1>6, ProcessDiesCount
  <1>7. ASSUME NEW t \in Threads, HostExecutes(t)
        PROVE  CountInv' /\ Taken(t) /\ Executed(Queues[t][1])
    BY <1>7, HostCount
  <1> QED BY <1>1, <1>2, <1>3, <1>4, <1>5, <1>6, <1>7 DEF Next

\* The counts, the queues' bound and what is known of buffers that do not exist
\* yet hold in every state, whatever rules the guest keeps.
THEOREM CountInvariance == Spec => []CountInv
  <1>1. Init => CountInv
    BY InitCount
  <1>2. CountInv /\ [Next]_vars => CountInv'
    BY NextCount
  <1> QED BY <1>1, <1>2, PTL DEF Spec

\* Every variable keeps its type; in particular the host never executes more
\* posts than fb_post counted, and a buffer is never registered less than zero
\* times.
THEOREM TypeCorrectness == Spec => []TypeOK
  <1>1. CountInv => TypeOK
    BY DEF CountInv
  <1> QED BY <1>1, CountInvariance, PTL

\* The count of a buffer that exists on the host is the number of references
\* the guest holds, corrected by what is under way or lost: openColorBuffer and
\* closeColorBuffer (FrameBuffer.cpp:548-570) keep it so for any number of
\* threads, processes and connections.
THEOREM CountAlwaysReferences == Spec => []CountIsClientReferences
  <1>1. CountInv => CountIsClientReferences
    BY DEF CountInv
  <1> QED BY <1>1, CountInvariance, PTL

-----------------------------------------------------------------------------
(* Part 2: a guest that keeps both rules                                    *)
(*                                                                          *)
(* A cut says how many calls of each thread's queue the host will have      *)
(* executed at some later moment.  The count it will then have is the       *)
(* number of references, with the closes and without the opens beyond the   *)
(* cut.                                                                     *)

Cuts == [Threads -> Nat]

\* the places of c beyond cut k, and their number for a call about buffer b
Beyond(U, k, c) == {d \in Places(Threads, U, c) : d[2] > k[d[1]]}
Left(op, b, k) == Cardinality(Beyond(Queues, k, Call(op, b)))

\* The members of Beyond, and that they are finitely many.
LEMMA BeyondIs ==
  /\ \A U, k, c, u, i : <<u, i>> \in Beyond(U, k, c) <=> At(Threads, U, c, u, i) /\ i > k[u]
  /\ \A U, k, c : \A d \in Beyond(U, k, c) : d = <<d[1], d[2]>>
  /\ \A U, k, c : IsFiniteSet(Beyond(U, k, c)) /\ Cardinality(Beyond(U, k, c)) \in Nat
  <1>1. ASSUME NEW U, NEW k, NEW c, NEW u, NEW i
        PROVE  <<u, i>> \in Beyond(U, k, c) <=> At(Threads, U, c, u, i) /\ i > k[u]
    BY PlaceIs DEF Beyond
  <1>2. \A U, k, c : \A d \in Beyond(U, k, c) : d = <<d[1], d[2]>>
    BY PlaceIs DEF Beyond
  <1>3. ASSUME NEW U, NEW k, NEW c
        PROVE  IsFiniteSet(Beyond(U, k, c)) /\ Cardinality(Beyond(U, k, c)) \in Nat
    <2>1. Beyond(U, k, c) \in SUBSET Places(Threads, U, c)
      BY DEF Beyond
    <2>2. IsFiniteSet(Places(Threads, U, c))
      BY PlacesFinite
    <2> QED BY <2>1, <2>2, FS_Subset, FS_CardinalityType
  <1> QED BY <1>1, <1>2, <1>3

\* A place beyond the cut.
LEMMA BeyondOf ==
  ASSUME NEW U, NEW k, NEW c, NEW d \in Beyond(U, k, c)
  PROVE  /\ d = <<d[1], d[2]>> /\ At(Threads, U, c, d[1], d[2]) /\ d[2] > k[d[1]]
         /\ d[1] \in Threads /\ d[2] \in Int /\ d[2] >= 1
  <1>1. d \in Places(Threads, U, c) /\ d[2] > k[d[1]]
    BY DEF Beyond
  <1> QED BY <1>1, PlaceOf

\* A call put at the end of a queue is beyond the cuts that do not reach it.
LEMMA AppendBeyond ==
  ASSUME NEW U, Bounded(U), NEW t \in Threads, NEW e \in Calls,
         NEW V, Extended(U, V, t, e), NEW c, NEW k \in Cuts
  PROVE  /\ c = e /\ k[t] <= Len(U[t])
              => Cardinality(Beyond(V, k, c)) = Cardinality(Beyond(U, k, c)) + 1
         /\ c # e \/ k[t] > Len(U[t])
              => Cardinality(Beyond(V, k, c)) = Cardinality(Beyond(U, k, c))
  <1>1. PlaceAdded(U, V, t, e, c)
    BY AppendPlaces
  <1>2. k[t] \in Nat /\ Len(U[t]) \in Nat
    BY DEF Bounded, Cuts
  <1>3. PICK x : x = <<t, Len(U[t]) + 1>>
    OBVIOUS
  <1>4. x \notin Beyond(U, k, c)
    BY <1>1, <1>3 DEF PlaceAdded, Beyond
  <1>5. ASSUME c = e, k[t] <= Len(U[t])
        PROVE  Cardinality(Beyond(V, k, c)) = Cardinality(Beyond(U, k, c)) + 1
    <2>1. x[1] = t /\ x[2] = Len(U[t]) + 1 /\ x[2] > k[x[1]]
      BY <1>2, <1>3, <1>5
    <2>2. Places(Threads, V, c) = Places(Threads, U, c) \cup {x}
      BY <1>1, <1>3, <1>5 DEF PlaceAdded
    <2>3. Beyond(V, k, c) = Beyond(U, k, c) \cup {x}
      BY <2>1, <2>2 DEF Beyond
    <2> QED BY <1>4, <2>3, BeyondIs, FS_AddElement
  <1>6. ASSUME c # e PROVE Beyond(V, k, c) = Beyond(U, k, c)
    BY <1>1, <1>6 DEF PlaceAdded, Beyond
  <1>7. ASSUME c = e, k[t] > Len(U[t]) PROVE Beyond(V, k, c) = Beyond(U, k, c)
    <2>1. x[1] = t /\ x[2] = Len(U[t]) + 1 /\ ~(x[2] > k[x[1]])
      BY <1>2, <1>3, <1>7
    <2>2. Places(Threads, V, c) = Places(Threads, U, c) \cup {x}
      BY <1>1, <1>3, <1>7 DEF PlaceAdded
    <2> QED BY <2>1, <2>2 DEF Beyond
  <1> QED BY <1>5, <1>6, <1>7

\* j is cut k as it was before the host took a call of t
Earlier(k, j, t) == j = [k EXCEPT ![t] = @ + 1]

\* The host takes the first call of a queue: a cut of what is left was a cut,
\* with the same calls beyond it.
LEMMA TailBeyond ==
  ASSUME NEW U, Bounded(U), NEW t \in Threads, NEW V, Shortened(U, V, t), NEW c,
         NEW k \in Cuts, NEW j, Earlier(k, j, t)
  PROVE  j \in Cuts /\ Cardinality(Beyond(U, j, c)) = Cardinality(Beyond(V, k, c))
  <1>1. /\ j \in Cuts /\ j[t] = k[t] + 1 /\ k[t] \in Nat
        /\ \A u \in Threads \ {t} : j[u] = k[u] /\ k[u] \in Nat
    BY DEF Earlier, Cuts
  <1>2. /\ \A u, i : u # t => (At(Threads, V, c, u, i) <=> At(Threads, U, c, u, i))
        /\ \A i \in Int : At(Threads, V, c, t, i) <=> i >= 1 /\ At(Threads, U, c, t, i + 1)
    BY TailPlaces DEF PlaceTaken
  <1> DEFINE A == Beyond(V, k, c)
             B == Beyond(U, j, c)
             f == [d \in A |-> IF d[1] = t THEN <<t, d[2] + 1>> ELSE d]
  <1>3. \A d \in A : /\ d = <<d[1], d[2]>> /\ d[1] \in Threads /\ d[2] \in Int /\ d[2] >= 1
                     /\ At(Threads, V, c, d[1], d[2]) /\ d[2] > k[d[1]]
    BY BeyondOf
  <1>4. \A d \in A : f[d] \in B
    <2> SUFFICES ASSUME NEW d \in A PROVE f[d] \in B
      OBVIOUS
    <2>1. CASE d[1] = t
      <3>1. d[2] \in Int /\ d[2] >= 1 /\ At(Threads, V, c, t, d[2]) /\ d[2] > k[t]
        BY <1>3, <2>1
      <3>2. At(Threads, U, c, t, d[2] + 1) /\ d[2] + 1 > j[t]
        BY <1>1, <1>2, <3>1
      <3> QED BY <2>1, <3>2, BeyondIs
    <2>2. CASE d[1] # t
      <3>1. At(Threads, U, c, d[1], d[2]) /\ d[2] > j[d[1]]
        BY <1>1, <1>2, <1>3, <2>2
      <3>2. <<d[1], d[2]>> \in B
        BY <3>1, BeyondIs
      <3> QED BY <1>3, <2>2, <3>2
    <2> QED BY <2>1, <2>2
  <1>5. f \in [A -> B]
    BY <1>4
  <1>6. \A x, y \in A : f[x] = f[y] => x = y
    <2> SUFFICES ASSUME NEW x \in A, NEW y \in A, f[x] = f[y] PROVE x = y
      OBVIOUS
    <2>1. x = <<x[1], x[2]>> /\ y = <<y[1], y[2]>> /\ x[2] \in Int /\ y[2] \in Int
      BY <1>3
    <2>2. f[x][1] = x[1] /\ f[y][1] = y[1]
      BY <2>1
    <2>3. CASE x[1] = t
      <3>1. y[1] = t
        BY <2>2, <2>3
      <3>2. f[x] = <<t, x[2] + 1>> /\ f[y] = <<t, y[2] + 1>>
        BY <2>3, <3>1
      <3>3. x[2] = y[2]
        BY <2>1, <3>2
      <3> QED BY <2>1, <2>3, <3>1, <3>3
    <2>4. CASE x[1] # t
      <3>1. y[1] # t
        BY <2>2, <2>4
      <3> QED BY <2>4, <3>1
    <2> QED BY <2>3, <2>4
  <1>7. \A y \in B : \E x \in A : f[x] = y
    <2> SUFFICES ASSUME NEW y \in B PROVE \E x \in A : f[x] = y
      OBVIOUS
    <2>1. /\ y = <<y[1], y[2]>> /\ At(Threads, U, c, y[1], y[2]) /\ y[2] \in Int /\ y[2] >= 1
          /\ y[2] > j[y[1]] /\ y[1] \in Threads
      BY BeyondOf
    <2>2. CASE y[1] = t
      <3>1. y[2] - 1 \in Int /\ y[2] - 1 >= 1 /\ (y[2] - 1) + 1 = y[2] /\ y[2] - 1 > k[t]
        BY <1>1, <2>1, <2>2
      <3>2. At(Threads, V, c, t, y[2] - 1)
        BY <1>2, <2>1, <2>2, <3>1
      <3>3. <<t, y[2] - 1>> \in A
        BY <3>1, <3>2, BeyondIs
      <3>4. f[<<t, y[2] - 1>>] = y
        BY <2>1, <2>2, <3>1, <3>3
      <3> QED BY <3>3, <3>4
    <2>3. CASE y[1] # t
      <3>1. At(Threads, V, c, y[1], y[2]) /\ y[2] > k[y[1]]
        BY <1>1, <1>2, <2>1, <2>3
      <3>2. <<y[1], y[2]>> \in A
        BY <3>1, BeyondIs
      <3> QED BY <2>1, <2>3, <3>2
    <2> QED BY <2>2, <2>3
  <1> HIDE DEF f, A, B
  <1>8. IsFiniteSet(A)
    BY BeyondIs DEF A
  <1>9. Cardinality(B) = Cardinality(A)
    BY <1>5, <1>6, <1>7, <1>8, CountedBy
  <1> QED BY <1>1, <1>9 DEF A, B

\* j is cut k, reaching at most to what the threads of S have flushed
Within(k, j, V, S) ==
    j = [u \in Threads |-> IF u \in S /\ k[u] > Len(V[u]) THEN Len(V[u]) ELSE k[u]]

\* Threads lose the ends of their queues: beyond a cut of what is left there
\* are the calls that were beyond it, without the lost ones.
LEMMA DropBeyond ==
  ASSUME NEW U, Bounded(U), NEW V, NEW W, NEW X, NEW S, Cut(U, V, W, X, S), NEW c,
         NEW k \in Cuts, NEW j, Within(k, j, V, S)
  PROVE  /\ j \in Cuts
         /\ Cardinality(Beyond(U, j, c)) = Cardinality(Beyond(X, k, c)) + Cardinality(Places(S, W, c))
  <1>1. S \subseteq Threads /\ \A u \in Threads : Len(V[u]) \in Nat /\ k[u] \in Nat
    BY DEF Cut, Cuts
  <1>2. j \in Cuts
    BY <1>1 DEF Within, Cuts
  <1>3. /\ \A u \in Threads \ S : j[u] = k[u]
        /\ \A u \in S : j[u] <= Len(V[u]) /\ j[u] <= k[u] /\ (j[u] = k[u] \/ j[u] = Len(V[u]))
    BY <1>1 DEF Within
  <1>4. /\ \A u, i : At(Threads, X, c, u, i)
                       <=> At(Threads, U, c, u, i) /\ (u \in S => i <= Len(V[u]))
        /\ Cardinality(Places(Threads, U, c))
             = Cardinality(Places(Threads, X, c)) + Cardinality(Places(S, W, c))
    BY DropPlaces DEF PlacesCut
  <1> DEFINE D == Places(Threads, U, c) \ Places(Threads, X, c)
  <1>5. Cardinality(D) = Cardinality(Places(S, W, c))
    <2>1. Places(Threads, X, c) \subseteq Places(Threads, U, c)
      <3> SUFFICES ASSUME NEW d \in Places(Threads, X, c) PROVE d \in Places(Threads, U, c)
        OBVIOUS
      <3>1. d = <<d[1], d[2]>> /\ At(Threads, X, c, d[1], d[2])
        BY PlaceOf
      <3>2. At(Threads, U, c, d[1], d[2])
        BY <1>4, <3>1
      <3> QED BY <3>1, <3>2, PlaceIs
    <2>2. Places(Threads, U, c) \cap Places(Threads, X, c) = Places(Threads, X, c)
      BY <2>1
    <2>3. /\ IsFiniteSet(Places(Threads, U, c)) /\ Cardinality(Places(Threads, U, c)) \in Nat
          /\ Cardinality(Places(Threads, X, c)) \in Nat /\ Cardinality(Places(S, W, c)) \in Nat
      BY <1>1, PlacesFinite
    <2>4. Cardinality(D) = Cardinality(Places(Threads, U, c))
                             - Cardinality(Places(Threads, U, c) \cap Places(Threads, X, c))
      BY <2>3, FS_Difference
    <2>5. Cardinality(D) = Cardinality(Places(Threads, U, c)) - Cardinality(Places(Threads, X, c))
      BY <2>2, <2>4
    <2> HIDE DEF D
    <2> QED BY <1>4, <2>3, <2>5
  <1>6. Beyond(X, k, c) \cap D = {}
    BY DEF Beyond
  <1>7. ASSUME NEW u, NEW i
        PROVE  At(Threads, U, c, u, i) /\ i > j[u]
                 <=> \/ At(Threads, X, c, u, i) /\ i > k[u]
                     \/ At(Threads, U, c, u, i) /\ ~At(Threads, X, c, u, i)
    <2>1. CASE ~At(Threads, U, c, u, i)
      BY <1>4, <2>1
    <2>2. CASE At(Threads, U, c, u, i)
      <3>1. u \in Threads /\ i \in Int
        BY <2>2 DEF At
      <3>2. Len(V[u]) \in Int /\ k[u] \in Int /\ j[u] \in Int
        BY <1>1, <1>2, <3>1 DEF Cuts
      <3>3. CASE u \notin S
        BY <1>3, <1>4, <2>2, <3>1, <3>3
      <3>4. CASE u \in S
        <4>1. At(Threads, X, c, u, i) <=> i <= Len(V[u])
          BY <1>4, <2>2, <3>4
        <4>2. j[u] <= Len(V[u]) /\ j[u] <= k[u] /\ (j[u] = k[u] \/ j[u] = Len(V[u]))
          BY <1>3, <3>4
        <4>3. i > j[u] <=> (i <= Len(V[u]) /\ i > k[u]) \/ ~(i <= Len(V[u]))
          BY <3>1, <3>2, <4>2
        <4> QED BY <2>2, <4>1, <4>3
      <3> QED BY <3>3, <3>4
    <2> QED BY <2>1, <2>2
  <1>8. Beyond(U, j, c) = Beyond(X, k, c) \cup D
    <2>1. ASSUME NEW d \in Beyond(U, j, c) PROVE d \in Beyond(X, k, c) \cup D
      <3>1. d = <<d[1], d[2]>> /\ At(Threads, U, c, d[1], d[2]) /\ d[2] > j[d[1]]
        BY <2>1, BeyondOf
      <3>2. \/ At(Threads, X, c, d[1], d[2]) /\ d[2] > k[d[1]]
            \/ At(Threads, U, c, d[1], d[2]) /\ ~At(Threads, X, c, d[1], d[2])
        BY <1>7, <3>1
      <3> QED BY <3>1, <3>2, BeyondIs, PlaceIs
    <2>2. ASSUME NEW d \in Beyond(X, k, c) PROVE d \in Beyond(U, j, c)
      <3>1. d = <<d[1], d[2]>> /\ At(Threads, X, c, d[1], d[2]) /\ d[2] > k[d[1]]
        BY <2>2, BeyondOf
      <3> QED BY <1>7, <3>1, BeyondIs
    <2>3. ASSUME NEW d \in D PROVE d \in Beyond(U, j, c)
      <3>1. d = <<d[1], d[2]>> /\ At(Threads, U, c, d[1], d[2])
        BY <2>3, PlaceOf
      <3>2. ~At(Threads, X, c, d[1], d[2])
        BY <2>3, <3>1, PlaceIs
      <3> QED BY <1>7, <3>1, <3>2, BeyondIs
    <2> QED BY <2>1, <2>2, <2>3
  <1>9. Cardinality(Beyond(U, j, c)) = Cardinality(Beyond(X, k, c)) + Cardinality(D)
    <2>1. IsFiniteSet(D)
      BY PlacesFinite, FS_Subset
    <2>2. IsFiniteSet(Beyond(X, k, c)) /\ Cardinality(Beyond(X, k, c)) \in Nat
      BY BeyondIs
    <2>3. Cardinality(D) \in Nat
      BY <2>1, FS_CardinalityType
    <2> HIDE DEF D
    <2>4. Cardinality(Beyond(X, k, c) \cup D)
            = Cardinality(Beyond(X, k, c)) + Cardinality(D) - Cardinality(Beyond(X, k, c) \cap D)
      BY <2>1, <2>2, FS_Union
    <2>5. Cardinality(Beyond(X, k, c) \cap D) = 0
      BY <1>6, FS_EmptySet
    <2> QED BY <1>8, <2>2, <2>3, <2>4, <2>5
  <1> HIDE DEF D
  <1> QED BY <1>2, <1>5, <1>9

\* A call sent, a call taken by the host and calls lost, seen beyond a cut.
LEMMA SentLeft ==
  ASSUME Bounded(Queues), NEW t \in Threads, NEW e \in Calls, Sent(t, e), NEW op, NEW b, NEW k \in Cuts
  PROVE  /\ Call(op, b) = e /\ k[t] <= Len(Queues[t]) => Left(op, b, k)' = Left(op, b, k) + 1
         /\ Call(op, b) # e \/ k[t] > Len(Queues[t]) => Left(op, b, k)' = Left(op, b, k)
  <1>1. PICK U : U = Queues
    OBVIOUS
  <1>2. PICK V : V = Queues'
    OBVIOUS
  <1>3. Bounded(U) /\ Extended(U, V, t, e)
    BY <1>1, <1>2 DEF Sent
  <1>4. PICK c : c = Call(op, b)
    OBVIOUS
  <1>5. /\ c = e /\ k[t] <= Len(U[t])
              => Cardinality(Beyond(V, k, c)) = Cardinality(Beyond(U, k, c)) + 1
        /\ c # e \/ k[t] > Len(U[t])
              => Cardinality(Beyond(V, k, c)) = Cardinality(Beyond(U, k, c))
    BY <1>3, AppendBeyond
  <1> QED BY <1>1, <1>2, <1>4, <1>5 DEF Left

\* Once the first call of t is executed, a cut of the new queues is a cut of
\* the old ones that is one further in the queue of t.
LEMMA TakenLeft ==
  ASSUME Bounded(Queues), NEW t \in Threads, Taken(t), NEW k \in Cuts, NEW j, Earlier(k, j, t),
         NEW op, NEW b
  PROVE  j \in Cuts /\ Left(op, b, j) = Left(op, b, k)'
  <1>1. PICK U : U = Queues
    OBVIOUS
  <1>2. PICK V : V = Queues'
    OBVIOUS
  <1>3. Bounded(U) /\ Shortened(U, V, t)
    BY <1>1, <1>2 DEF Taken
  <1>4. PICK c : c = Call(op, b)
    OBVIOUS
  <1>5. j \in Cuts /\ Cardinality(Beyond(U, j, c)) = Cardinality(Beyond(V, k, c))
    BY <1>3, TailBeyond
  <1> QED BY <1>1, <1>2, <1>4, <1>5 DEF Left

\* What is left beyond a cut after threads ended, and what they dropped, was
\* beyond some cut before.
LEMMA EndedLeft ==
  ASSUME TypeOK, Bounded(Queues), NEW S, Ended(S), NEW k \in Cuts
  PROVE  \E j \in Cuts : \A op, b : Left(op, b, j) = Left(op, b, k)' + Dropped(S, op, b)
  <1>1. PICK U : U = Queues
    OBVIOUS
  <1>2. PICK X : X = Queues'
    OBVIOUS
  <1>3. PICK V : V = wire
    OBVIOUS
  <1>4. PICK W : W = out
    OBVIOUS
  <1>5. /\ Bounded(U) /\ \A t \in Threads : U[t] = V[t] \o W[t]
        /\ X \in [Threads -> Seq(Calls)] /\ \A t \in S : X[t] = V[t]
        /\ \A t \in Threads \ S : X[t] = U[t]
    BY <1>1, <1>2, <1>3, <1>4, EndDrops, QueueTypes
  <1>6. Cut(U, V, W, X, S)
    BY <1>3, <1>4, <1>5 DEF Cut, TypeOK, Ended
  <1>7. PICK j : Within(k, j, V, S)
    BY DEF Within
  <1>8. ASSUME NEW c
        PROVE  /\ j \in Cuts
               /\ Cardinality(Beyond(U, j, c)) = Cardinality(Beyond(X, k, c)) + Cardinality(Places(S, W, c))
    BY <1>5, <1>6, <1>7, DropBeyond
  <1>9. \A op, b : Left(op, b, j) = Left(op, b, k)' + Dropped(S, op, b)
    BY <1>1, <1>2, <1>4, <1>8 DEF Left, Dropped
  <1> QED BY <1>8, <1>9

\* Beyond the cut that reaches nothing is all that is under way; a cut beyond
\* which no call stands leaves nothing.
LEMMA LeftCounts ==
  /\ \A op, b, k : Left(op, b, k) \in Nat /\ Left(op, b, k)' \in Nat
  /\ \A op, b : Left(op, b, [t \in Threads |-> 0]) = InTransit(op, b)
  /\ \A op, b, k : (\A u, i : ~(At(Threads, Queues, Call(op, b), u, i) /\ i > k[u])) => Left(op, b, k) = 0
  /\ \A op, b, k, u, i : At(Threads, Queues, Call(op, b), u, i) /\ i > k[u] => Left(op, b, k) > 0
  <1>1. \A op, b, k : Left(op, b, k) \in Nat /\ Left(op, b, k)' \in Nat
    BY BeyondIs DEF Left
  <1>2. ASSUME NEW op, NEW b PROVE Left(op, b, [t \in Threads |-> 0]) = InTransit(op, b)
    <2>1. PICK z : z = [t \in Threads |-> 0]
      OBVIOUS
    <2>2. ASSUME NEW d \in Places(Threads, Queues, Call(op, b)) PROVE d[2] > z[d[1]]
      <3>1. d[1] \in Threads /\ d[2] \in Int /\ d[2] >= 1
        BY <2>2, PlaceOf
      <3> QED BY <2>1, <3>1
    <2>3. Beyond(Queues, z, Call(op, b)) = Places(Threads, Queues, Call(op, b))
      BY <2>2 DEF Beyond
    <2> QED BY <2>1, <2>3, Sums DEF Left
  <1>3. ASSUME NEW op, NEW b, NEW k,
               \A u, i : ~(At(Threads, Queues, Call(op, b), u, i) /\ i > k[u])
        PROVE  Left(op, b, k) = 0
    <2>1. ASSUME NEW d \in Beyond(Queues, k, Call(op, b)) PROVE FALSE
      <3>1. At(Threads, Queues, Call(op, b), d[1], d[2]) /\ d[2] > k[d[1]]
        BY <2>1, BeyondOf
      <3> QED BY <1>3, <3>1
    <2>2. Beyond(Queues, k, Call(op, b)) = {}
      BY <2>1
    <2> QED BY <2>2, FS_EmptySet DEF Left
  <1>4. ASSUME NEW op, NEW b, NEW k, NEW u, NEW i, At(Threads, Queues, Call(op, b), u, i), i > k[u]
        PROVE  Left(op, b, k) > 0
    <2>1. PICK P : P = Beyond(Queues, k, Call(op, b))
      OBVIOUS
    <2>2. P # {} /\ IsFiniteSet(P) /\ Cardinality(P) \in Nat
      BY <1>4, <2>1, BeyondIs
    <2>3. Cardinality(P) # 0
      BY <2>2, FS_EmptySet
    <2> QED BY <2>1, <2>2, <2>3 DEF Left
  <1> QED BY <1>1, <1>2, <1>3, <1>4

\* the count the host will have at cut k, if nothing else is sent
Worth(b, k) == GuestRefs(b) + lost[b] + Left("close", b, k) - Left("open", b, k)

\* It is never negative, and zero only when nobody holds the buffer and nobody
\* opens it after that: so whatever of the queues the host executes first, a
\* buffer in use exists, and so does one that is opened.
Covered(b, k) ==
    /\ Worth(b, k) >= 0
    /\ Worth(b, k) = 0 => GuestRefs(b) = 0 /\ Left("open", b, k) = 0
Kept == \A b \in Buffers, k \in Cuts : Covered(b, k)

\* The parts of Worth are numbers.
LEMMA WorthTypes ==
  ASSUME TypeOK, NEW b \in Buffers, NEW k
  PROVE  /\ GuestRefs(b) \in Nat /\ GuestRefs(b)' \in Nat /\ lost[b] \in Int
         /\ Left("close", b, k) \in Nat /\ Left("close", b, k)' \in Nat
         /\ Left("open", b, k) \in Nat /\ Left("open", b, k)' \in Nat
  BY SumTypes, LeftCounts DEF TypeOK

\* A buffer about which nothing changes stays covered.
LEMMA SameCovered ==
  ASSUME NEW b, NEW k, NEW j, Covered(b, j), GuestRefs(b)' = GuestRefs(b), lost'[b] = lost[b],
         Left("close", b, k)' = Left("close", b, j), Left("open", b, k)' = Left("open", b, j)
  PROVE  Covered(b, k)'
  <1>1. Worth(b, k)' = Worth(b, j)
    BY DEF Worth
  <1> QED BY <1>1 DEF Covered

\* no thread but t opens b
OnlyOpens(t, b) ==
    \A u \in Threads \ {t} : \A i : ~At(Threads, Queues, Call("open", b), u, i)

\* A close: before it is executed the reference it returns is still counted;
\* after it, every open that is under way was executed, too.
LEMMA CloseKept ==
  ASSUME TypeOK, Bounded(Queues), Kept, NEW t \in Threads, NEW p \in Procs, NEW b \in Buffers,
         RefsLowered(p, b), Sent(t, Call("close", b)), lost' = lost, lost[b] >= 0, OnlyOpens(t, b)
  PROVE  Kept'
  <1> SUFFICES ASSUME NEW c \in Buffers, NEW k \in Cuts PROVE Covered(c, k)'
    BY DEF Kept
  <1>1. Call("close", b) \in Calls
    BY CallIs DEF Ops
  <1>2. /\ Covered(c, k) /\ GuestRefs(c) \in Nat /\ GuestRefs(c)' \in Nat /\ lost[c] \in Int
        /\ Left("close", c, k) \in Nat /\ Left("close", c, k)' \in Nat
        /\ Left("open", c, k) \in Nat /\ Left("open", c, k)' \in Nat
    BY WorthTypes DEF Kept
  <1>3. Left("open", c, k)' = Left("open", c, k)
    BY <1>1, CallIs, SentLeft
  <1>4. CASE c # b
    <2>1. Left("close", c, k)' = Left("close", c, k)
      BY <1>1, <1>4, CallIs, SentLeft
    <2>2. GuestRefs(c)' = GuestRefs(c)
      BY <1>4, LoweredRefs
    <2> QED BY <1>2, <1>3, <2>1, <2>2, SameCovered
  <1>5. CASE c = b
    <2>1. GuestRefs(c) = GuestRefs(c)' + 1
      BY <1>5, LoweredRefs
    <2>2. k[t] \in Int /\ Len(Queues[t]) \in Int
      BY DEF Cuts, Bounded
    <2>3. CASE k[t] <= Len(Queues[t])
      <3>1. Left("close", c, k)' = Left("close", c, k) + 1
        BY <1>1, <1>5, <2>3, SentLeft
      <3>2. Worth(c, k)' = Worth(c, k) /\ Worth(c, k) \in Int
        BY <1>2, <1>3, <2>1, <3>1 DEF Worth
      <3>3. Worth(c, k) > 0
        BY <1>2, <2>1, <3>2 DEF Covered
      <3> QED BY <3>2, <3>3 DEF Covered
    <2>4. CASE k[t] > Len(Queues[t])
      <3>1. Left("open", c, k) = 0
        <4>1. ASSUME NEW u, NEW i, At(Threads, Queues, Call("open", c), u, i), i > k[u] PROVE FALSE
          <5>1. u = t
            BY <1>5, <4>1 DEF OnlyOpens, At
          <5>2. i \in Int /\ i <= Len(Queues[t])
            BY <4>1, <5>1 DEF At
          <5> QED BY <2>2, <2>4, <4>1, <5>1, <5>2
        <4> QED BY <4>1, LeftCounts
      <3>2. Worth(c, k)' = GuestRefs(c)' + lost[c] + Left("close", c, k)' - 0
        BY <1>3, <3>1 DEF Worth
      <3>3. Worth(c, k)' >= 0 /\ (Worth(c, k)' = 0 => GuestRefs(c)' = 0)
        BY <1>2, <1>5, <3>2
      <3> QED BY <1>3, <3>1, <3>3 DEF Covered
    <2> QED BY <2>2, <2>3, <2>4
  <1> QED BY <1>4, <1>5

\* An open of a buffer in use adds a reference, at the cuts that reach it.
LEMMA OpenKept ==
  ASSUME TypeOK, Bounded(Queues), Kept, NEW t \in Threads, NEW b \in Buffers,
         Sent(t, Call("open", b)), GuestRefs(b) > 0, lost' \in [Buffers -> Int],
         GuestRefs(b)' + lost'[b] = GuestRefs(b) + lost[b] + 1,
         \A c \in Buffers \ {b} : GuestRefs(c)' = GuestRefs(c) /\ lost'[c] = lost[c]
  PROVE  Kept'
  <1> SUFFICES ASSUME NEW c \in Buffers, NEW k \in Cuts PROVE Covered(c, k)'
    BY DEF Kept
  <1>1. Call("open", b) \in Calls
    BY CallIs DEF Ops
  <1>2. /\ Covered(c, k) /\ GuestRefs(c) \in Nat /\ GuestRefs(c)' \in Nat /\ lost[c] \in Int
        /\ Left("close", c, k) \in Nat /\ Left("close", c, k)' \in Nat /\ lost'[c] \in Int
        /\ Left("open", c, k) \in Nat /\ Left("open", c, k)' \in Nat
    BY WorthTypes DEF Kept
  <1>3. Left("close", c, k)' = Left("close", c, k)
    BY <1>1, CallIs, SentLeft
  <1>4. CASE c # b
    <2>1. Left("open", c, k)' = Left("open", c, k)
      BY <1>1, <1>4, CallIs, SentLeft
    <2> QED BY <1>2, <1>3, <1>4, <2>1, SameCovered
  <1>5. CASE c = b
    <2>1. Worth(c, k) \in Int /\ Worth(c, k) > 0
      BY <1>2, <1>5 DEF Covered, Worth
    <2>2. k[t] \in Int /\ Len(Queues[t]) \in Int
      BY DEF Cuts, Bounded
    <2>3. GuestRefs(c)' + lost'[c] = GuestRefs(c) + lost[c] + 1
      BY <1>5
    <2>4. Worth(c, k)' >= Worth(c, k)
      <3>1. CASE k[t] <= Len(Queues[t])
        <4>1. Left("open", c, k)' = Left("open", c, k) + 1
          BY <1>1, <1>5, <3>1, SentLeft
        <4> QED BY <1>2, <1>3, <2>3, <4>1 DEF Worth
      <3>2. CASE k[t] > Len(Queues[t])
        <4>1. Left("open", c, k)' = Left("open", c, k)
          BY <1>1, <1>5, <3>2, SentLeft
        <4> QED BY <1>2, <1>3, <2>3, <4>1 DEF Worth
      <3> QED BY <2>2, <3>1, <3>2
    <2>5. Worth(c, k)' \in Int
      BY <1>2 DEF Worth
    <2>6. Worth(c, k)' > 0
      BY <2>1, <2>4, <2>5
    <2> QED BY <2>5, <2>6 DEF Covered
  <1> QED BY <1>4, <1>5

\* Posts do not matter.
LEMMA PostKept ==
  ASSUME TypeOK, Bounded(Queues), Kept, NEW t \in Threads, NEW b \in Buffers,
         Sent(t, Call("post", b)), lost' = lost, UNCHANGED <<allocator, held>>
  PROVE  Kept'
  <1> SUFFICES ASSUME NEW c \in Buffers, NEW k \in Cuts PROVE Covered(c, k)'
    BY DEF Kept
  <1>1. Call("post", b) \in Calls
    BY CallIs DEF Ops
  <1>2. Call("open", c) # Call("post", b) /\ Call("close", c) # Call("post", b)
    BY CallIs
  <1>3. Left("close", c, k)' = Left("close", c, k) /\ Left("open", c, k)' = Left("open", c, k)
    BY <1>1, <1>2, SentLeft
  <1>4. GuestRefs(c)' = GuestRefs(c)
    BY RefsFrame, Sums
  <1>5. Covered(c, k)
    BY DEF Kept
  <1> QED BY <1>3, <1>4, <1>5, SameCovered

\* What the host executes, it had to come to.
LEMMA TakenKept ==
  ASSUME TypeOK, Bounded(Queues), Kept, NEW t \in Threads, Taken(t), UNCHANGED <<allocator, held, lost>>
  PROVE  Kept'
  <1> SUFFICES ASSUME NEW c \in Buffers, NEW k \in Cuts PROVE Covered(c, k)'
    BY DEF Kept
  <1>1. PICK j : Earlier(k, j, t)
    BY DEF Earlier
  <1>2. j \in Cuts /\ \A op : Left(op, c, k)' = Left(op, c, j)
    BY <1>1, TakenLeft
  <1>3. GuestRefs(c)' = GuestRefs(c)
    BY RefsFrame, Sums
  <1>4. Covered(c, j)
    BY <1>2 DEF Kept
  <1> QED BY <1>2, <1>3, <1>4, SameCovered

\* Calls that are lost, and references that are, are accounted for.
LEMMA EndedKept ==
  ASSUME TypeOK, Bounded(Queues), Kept, NEW S, Ended(S), lost' \in [Buffers -> Int],
         \A b \in Buffers : /\ GuestRefs(b)' + lost'[b] = GuestRefs(b) + lost[b] + Unsent(S, b)
                            /\ GuestRefs(b) = 0 => GuestRefs(b)' = 0
  PROVE  Kept'
  <1> SUFFICES ASSUME NEW c \in Buffers, NEW k \in Cuts PROVE Covered(c, k)'
    BY DEF Kept
  <1>1. PICK j \in Cuts : \A op, b : Left(op, b, j) = Left(op, b, k)' + Dropped(S, op, b)
    BY EndedLeft
  <1>2. Left("close", c, j) = Left("close", c, k)' + Dropped(S, "close", c)
        /\ Left("open", c, j) = Left("open", c, k)' + Dropped(S, "open", c)
    BY <1>1
  <1>3. /\ Unsent(S, c) = Dropped(S, "close", c) - Dropped(S, "open", c)
        /\ Dropped(S, "close", c) \in Nat /\ Dropped(S, "open", c) \in Nat
    BY EndedTransit
  <1>4. GuestRefs(c)' + lost'[c] = GuestRefs(c) + lost[c] + Unsent(S, c)
    OBVIOUS
  <1>5. /\ GuestRefs(c) \in Nat /\ GuestRefs(c)' \in Nat /\ lost[c] \in Int /\ lost'[c] \in Int
        /\ Left("close", c, k)' \in Nat /\ Left("open", c, k)' \in Nat
    BY WorthTypes
  <1>6. Worth(c, k)' = Worth(c, j)
    <2>1. PICK x \in Int : x = GuestRefs(c)' + lost'[c]
      BY <1>5
    <2>2. PICK y \in Int : y = GuestRefs(c) + lost[c]
      BY <1>5
    <2>3. Worth(c, k)' = x + Left("close", c, k)' - Left("open", c, k)'
      BY <2>1 DEF Worth
    <2>4. Worth(c, j) = y + Left("close", c, j) - Left("open", c, j)
      BY <2>2 DEF Worth
    <2>5. x = y + (Dropped(S, "close", c) - Dropped(S, "open", c))
      BY <1>3, <1>4, <2>1, <2>2
    <2> QED BY <1>2, <1>3, <1>5, <2>3, <2>4, <2>5
  <1>7. Covered(c, j)
    BY DEF Kept
  <1>8. Worth(c, k)' = 0 => GuestRefs(c)' = 0 /\ Left("open", c, k)' = 0
    BY <1>2, <1>3, <1>5, <1>6, <1>7 DEF Covered
  <1> QED BY <1>6, <1>7, <1>8 DEF Covered

\* A new buffer has its first reference.
LEMMA CreatedKept ==
  ASSUME CountInv, Kept, NEW t \in Threads, Alloc(t)
  PROVE  Kept'
  <1> SUFFICES ASSUME NEW c \in Buffers, NEW k \in Cuts PROVE Covered(c, k)'
    BY DEF Kept
  <1>1. TypeOK /\ Fresh
    BY DEF CountInv
  <1>2. serial \in Int /\ serial + 1 > serial
    BY <1>1 DEF TypeOK
  <1>3. Created(serial + 1)
    BY AllocCount
  <1>4. PICK n \in Buffers : n = serial + 1
    BY <1>3 DEF Created
  <1>5. Unheard(n)
    BY <1>1, <1>2, <1>4 DEF Fresh
  <1>6. PICK p \in Procs : p = ProcOf[t]
    BY ProcsAssumption
  <1>7. RefsRaised(p, n)
    BY <1>1, <1>4, <1>5, <1>6, AllocRaises DEF Unheard
  <1>8. lost' = lost /\ Queues' = Queues
    BY <1>3 DEF Alloc, Created
  <1>9. \A op : Left(op, c, k)' = Left(op, c, k)
    BY <1>8 DEF Left
  <1>10. CASE c # n
    <2>1. GuestRefs(c)' = GuestRefs(c)
      BY <1>1, <1>7, <1>10, RaisedRefs
    <2> QED BY <1>8, <1>9, <2>1, SameCovered DEF Kept
  <1>11. CASE c = n
    <2>1. GuestRefs(c) = 0 /\ lost[c] = 0
      BY <1>1, <1>5, <1>11, RefsCounted DEF Unheard
    <2>2. GuestRefs(c)' = 1
      BY <1>1, <1>7, <1>11, <2>1, RaisedRefs
    <2>3. \A op : Left(op, c, k) = 0
      BY <1>5, <1>11, LeftCounts DEF Unheard
    <2>4. Worth(c, k)' = 1
      BY <1>8, <1>9, <2>1, <2>2, <2>3 DEF Worth
    <2> QED BY <2>4 DEF Covered
  <1> QED BY <1>10, <1>11

-----------------------------------------------------------------------------
(* The references behind the opens that are not flushed yet.  If a process  *)
(* dies, its opens in the write buffers are lost, but so are references and *)
(* closes, and not fewer: what is lost never becomes negative.              *)

\* some thread of S belongs to p; the references of the processes of S
Serves(S, p) == \E t \in S : ProcOf[t] = p
RefsFor(R, S) == {r \in Tokens(R) : Serves(S, r[1])}
Backing(S, b) == Cardinality(RefsFor(Refs(b), S))

\* for all threads of S together
Backed(b, S) == Dropped(S, "open", b) <= lost[b] + Backing(S, b) + Dropped(S, "close", b)
AllBacked == \A b \in Buffers, S \in SUBSET Threads : Backed(b, S)

\* C falls into the parts A and B
Parts(C, A, B) == C = A \cup B /\ A \cap B = {}

\* The number of elements of two parts.
LEMMA PartsCount ==
  ASSUME NEW A, NEW B, NEW C, IsFiniteSet(A), IsFiniteSet(B), Parts(C, A, B)
  PROVE  Cardinality(C) = Cardinality(A) + Cardinality(B)
  <1>1. Cardinality(A \cup B) = Cardinality(A) + Cardinality(B) - Cardinality(A \cap B)
    BY FS_Union
  <1>2. Cardinality(A \cap B) = 0 /\ Cardinality(C) = Cardinality(A \cup B)
    BY FS_EmptySet DEF Parts
  <1>3. Cardinality(A) \in Nat /\ Cardinality(B) \in Nat
    BY FS_CardinalityType
  <1> QED BY <1>1, <1>2, <1>3

\* one more reference of p, and no more of p
OneMore(R, Q, p) == R \in RefCounts /\ R[p] <= MaxHeld /\ Q = [R EXCEPT ![p] = @ + 1]
NoMore(R, Q, p) == R \in RefCounts /\ Q = [R EXCEPT ![p] = 0]

\* threads of process p
ThreadsOf(T, p) == T \subseteq Threads /\ T # {} /\ \A t \in T : ProcOf[t] = p

\* The numbers in Backed.
LEMMA BackingTypes ==
  ASSUME NEW S, S \subseteq Threads
  PROVE  /\ \A R : IsFiniteSet(RefsFor(R, S)) /\ Cardinality(RefsFor(R, S)) \in Nat
         /\ \A b : Backing(S, b) \in Nat /\ Backing(S, b)' \in Nat
         /\ \A op, b : Dropped(S, op, b) \in Nat /\ Dropped(S, op, b)' \in Nat
  <1>1. ASSUME NEW R PROVE IsFiniteSet(RefsFor(R, S)) /\ Cardinality(RefsFor(R, S)) \in Nat
    <2>1. RefsFor(R, S) \in SUBSET Tokens(R)
      BY DEF RefsFor
    <2> QED BY <2>1, TokensFinite, FS_Subset, FS_CardinalityType
  <1>2. \A b : Backing(S, b) \in Nat /\ Backing(S, b)' \in Nat
    BY <1>1 DEF Backing
  <1>3. ASSUME NEW op, NEW b PROVE Dropped(S, op, b) \in Nat /\ Dropped(S, op, b)' \in Nat
    <2>1. \A U, c : Cardinality(Places(S, U, c)) \in Nat
      BY PlacesFinite
    <2> QED BY <2>1 DEF Dropped
  <1> QED BY <1>1, <1>2, <1>3

\* A process with one more reference backs its threads with one more.
LEMMA RaiseFor ==
  ASSUME NEW R, NEW p \in Procs, NEW Q, OneMore(R, Q, p), NEW S, S \subseteq Threads
  PROVE  /\ Serves(S, p) => Cardinality(RefsFor(Q, S)) = Cardinality(RefsFor(R, S)) + 1
         /\ ~Serves(S, p) => Cardinality(RefsFor(Q, S)) = Cardinality(RefsFor(R, S))
  <1>1. PICK x : x = <<p, R[p] + 1>>
    OBVIOUS
  <1>2. x \notin Tokens(R) /\ Tokens(Q) = Tokens(R) \cup {x} /\ x[1] = p
    BY <1>1, RaiseTokens DEF OneMore
  <1>3. CASE Serves(S, p)
    <2>1. RefsFor(Q, S) = RefsFor(R, S) \cup {x} /\ x \notin RefsFor(R, S)
      BY <1>2, <1>3 DEF RefsFor
    <2> QED BY <1>3, <2>1, BackingTypes, FS_AddElement
  <1>4. CASE ~Serves(S, p)
    <2>1. RefsFor(Q, S) = RefsFor(R, S)
      BY <1>2, <1>4 DEF RefsFor
    <2> QED BY <1>4, <2>1
  <1> QED BY <1>3, <1>4

\* The references of a process are lost with all of its threads.
LEMMA ClearFor ==
  ASSUME NEW R, NEW p \in Procs, NEW Q, NoMore(R, Q, p),
         NEW S, S \subseteq Threads, NEW T, ThreadsOf(T, p)
  PROVE  Cardinality(RefsFor(R, S \cup T)) = Cardinality(RefsFor(Q, S)) + R[p]
  <1>1. \A r : r \in Tokens(Q) <=> r \in Tokens(R) /\ r[1] # p
    BY ClearTokens DEF NoMore
  <1>2. Serves(S \cup T, p) /\ \A q : q # p => (Serves(S \cup T, q) <=> Serves(S, q))
    BY DEF Serves, ThreadsOf
  <1>3. RefsFor(R, S \cup T) = RefsFor(Q, S) \cup TokensOf(R, p)
    <2> SUFFICES ASSUME NEW r
                 PROVE  r \in RefsFor(R, S \cup T) <=> r \in RefsFor(Q, S) \/ r \in TokensOf(R, p)
      OBVIOUS
    <2>1. CASE r[1] = p
      BY <1>1, <1>2, <2>1 DEF RefsFor, TokensOf
    <2>2. CASE r[1] # p
      BY <1>1, <1>2, <2>2 DEF RefsFor, TokensOf
    <2> QED BY <2>1, <2>2
  <1>4. RefsFor(Q, S) \cap TokensOf(R, p) = {}
    BY <1>1 DEF RefsFor, TokensOf
  <1>5. IsFiniteSet(RefsFor(Q, S)) /\ Cardinality(RefsFor(Q, S)) \in Nat
    BY BackingTypes
  <1>6. Cardinality(TokensOf(R, p)) = R[p] /\ R[p] \in Nat
    BY TokensOfCount, BoundsAssumption DEF RefCounts, NoMore
  <1>7. IsFiniteSet(TokensOf(R, p))
    <2>1. TokensOf(R, p) \in SUBSET Tokens(R)
      BY DEF TokensOf
    <2> QED BY <2>1, TokensFinite, FS_Subset
  <1>8. Parts(RefsFor(R, S \cup T), RefsFor(Q, S), TokensOf(R, p))
    BY <1>3, <1>4 DEF Parts
  <1>9. Cardinality(RefsFor(R, S \cup T)) = Cardinality(RefsFor(Q, S)) + Cardinality(TokensOf(R, p))
    BY <1>5, <1>7, <1>8, PartsCount
  <1> QED BY <1>6, <1>9

\* More threads have no less references behind them.
LEMMA BackingGrows ==
  ASSUME NEW S, NEW T, S \subseteq T, T \subseteq Threads, NEW b
  PROVE  Backing(S, b) <= Backing(T, b)
  <1>1. RefsFor(Refs(b), S) \in SUBSET RefsFor(Refs(b), T)
    BY DEF RefsFor, Serves
  <1>2. IsFiniteSet(RefsFor(Refs(b), T))
    BY BackingTypes
  <1> QED BY <1>1, <1>2, FS_Subset DEF Backing

\* References taken, returned and lost with their process, as Backing counts them.
LEMMA BackingSteps ==
  ASSUME TypeOK, NEW p \in Procs, NEW b \in Buffers, NEW S, S \subseteq Threads
  PROVE  /\ RefsRaised(p, b) =>
              /\ Serves(S, p) => Backing(S, b)' = Backing(S, b) + 1
              /\ ~Serves(S, p) => Backing(S, b)' = Backing(S, b)
         /\ RefsLowered(p, b) =>
              /\ Serves(S, p) => Backing(S, b) = Backing(S, b)' + 1
              /\ ~Serves(S, p) => Backing(S, b) = Backing(S, b)'
         /\ Refs(b)' = Refs(b) => Backing(S, b)' = Backing(S, b)
  <1>1. PICK R : R = Refs(b)
    OBVIOUS
  <1>2. PICK Q : Q = Refs(b)'
    OBVIOUS
  <1>3. Backing(S, b) = Cardinality(RefsFor(R, S)) /\ Backing(S, b)' = Cardinality(RefsFor(Q, S))
    BY <1>1, <1>2 DEF Backing
  <1>4. ASSUME RefsRaised(p, b)
        PROVE  /\ Serves(S, p) => Backing(S, b)' = Backing(S, b) + 1
               /\ ~Serves(S, p) => Backing(S, b)' = Backing(S, b)
    <2>1. OneMore(R, Q, p)
      BY <1>1, <1>2, <1>4, QueueTypes DEF RefsRaised, OneMore
    <2>2. /\ Serves(S, p) => Cardinality(RefsFor(Q, S)) = Cardinality(RefsFor(R, S)) + 1
          /\ ~Serves(S, p) => Cardinality(RefsFor(Q, S)) = Cardinality(RefsFor(R, S))
      BY <2>1, RaiseFor
    <2> QED BY <1>3, <2>2
  <1>5. ASSUME RefsLowered(p, b)
        PROVE  /\ Serves(S, p) => Backing(S, b) = Backing(S, b)' + 1
               /\ ~Serves(S, p) => Backing(S, b) = Backing(S, b)'
    <2>1. OneMore(Q, R, p)
      BY <1>1, <1>2, <1>5 DEF RefsLowered, OneMore
    <2>2. /\ Serves(S, p) => Cardinality(RefsFor(R, S)) = Cardinality(RefsFor(Q, S)) + 1
          /\ ~Serves(S, p) => Cardinality(RefsFor(R, S)) = Cardinality(RefsFor(Q, S))
      BY <2>1, RaiseFor
    <2> QED BY <1>3, <2>2
  <1>6. Refs(b)' = Refs(b) => Backing(S, b)' = Backing(S, b)
    BY DEF Backing
  <1> QED BY <1>4, <1>5, <1>6

\* The death of p, seen by Backing.
LEMMA BackingDeath ==
  ASSUME TypeOK, NEW p \in Procs, ProcessDies(p), NEW b \in Buffers,
         NEW S, S \subseteq Threads, NEW T, ThreadsOf(T, p)
  PROVE  Backing(S \cup T, b) = Backing(S, b)' + RefsOf(p, b)
  <1>1. PICK R : R = Refs(b)
    OBVIOUS
  <1>2. PICK Q : Q = Refs(b)'
    OBVIOUS
  <1>3. NoMore(R, Q, p) /\ R[p] = RefsOf(p, b)
    BY <1>1, <1>2, QueueTypes, DeathClears DEF Refs, NoMore
  <1>4. Cardinality(RefsFor(R, S \cup T)) = Cardinality(RefsFor(Q, S)) + R[p]
    BY <1>3, ClearFor
  <1> QED BY <1>1, <1>2, <1>3, <1>4 DEF Backing

\* The places of some threads are among the places of all.
LEMMA SomePlaces ==
  ASSUME NEW S, S \subseteq Threads, NEW U, NEW c
  PROVE  Places(S, U, c) = {d \in Places(Threads, U, c) : d[1] \in S}
  BY DEF Places

\* The write buffers are parts of the queues.
LEMMA OutBounded ==
  ASSUME TypeOK, Bounded(Queues)
  PROVE  /\ Bounded(out)
         /\ \A t \in Threads : Len(Queues[t]) = Len(wire[t]) + Len(out[t]) /\ Len(wire[t]) \in Nat
         /\ \A t \in Threads : \A c, i : At(Threads, out, c, t, i)
                                       => At(Threads, Queues, c, t, Len(wire[t]) + i)
  <1>1. ASSUME NEW t \in Threads
        PROVE  /\ Len(Queues[t]) = Len(wire[t]) + Len(out[t]) /\ Len(wire[t]) \in Nat /\ Len(out[t]) \in Nat
               /\ Len(out[t]) <= MaxOut /\ Len(Queues[t]) <= MaxOut
               /\ \A i \in 1 .. Len(wire[t]) + Len(out[t]) :
                    Queues[t][i] = IF i <= Len(wire[t]) THEN wire[t][i] ELSE out[t][i - Len(wire[t])]
    <2>1. PICK x \in Seq(Calls) : x = wire[t]
      BY DEF TypeOK
    <2>2. PICK y \in Seq(Calls) : y = out[t]
      BY DEF TypeOK
    <2>3. PICK v : v = Queues[t]
      OBVIOUS
    <2>4. v = x \o y /\ Len(v) <= MaxOut
      BY <2>1, <2>2, <2>3, QueueTypes DEF Bounded
    <2>5. /\ Len(v) = Len(x) + Len(y) /\ Len(x) \in Nat /\ Len(y) \in Nat
          /\ \A i \in 1 .. Len(x) + Len(y) : v[i] = IF i <= Len(x) THEN x[i] ELSE y[i - Len(x)]
      BY <2>4, ConcatIs
    <2>6. Len(y) <= MaxOut
      BY <2>4, <2>5, BoundsAssumption
    <2>7. /\ Len(Queues[t]) = Len(wire[t]) + Len(out[t]) /\ Len(wire[t]) \in Nat /\ Len(out[t]) \in Nat
          /\ Len(out[t]) <= MaxOut /\ Len(Queues[t]) <= MaxOut
      BY <2>1, <2>2, <2>3, <2>4, <2>5, <2>6, Zenon
    <2>8. \A i \in 1 .. Len(wire[t]) + Len(out[t]) :
            Queues[t][i] = IF i <= Len(wire[t]) THEN wire[t][i] ELSE out[t][i - Len(wire[t])]
      BY <2>1, <2>2, <2>3, <2>5, Zenon
    <2> QED BY <2>7, <2>8, Zenon
  <1>2. Bounded(out)
    BY <1>1 DEF Bounded, TypeOK
  <1>3. ASSUME NEW t \in Threads, NEW c, NEW i, At(Threads, out, c, t, i)
        PROVE  At(Threads, Queues, c, t, Len(wire[t]) + i)
    <2>1. i \in 1 .. MaxOut /\ i <= Len(out[t]) /\ out[t][i] = c
      BY <1>3 DEF At
    <2>2. PICK m \in Nat : m = Len(wire[t])
      BY <1>1
    <2>3. PICK n \in Nat : n = Len(out[t])
      BY <1>1
    <2>6. Len(Queues[t]) = m + n /\ m + n <= MaxOut /\ i \in Int /\ i >= 1 /\ i <= n
      <3>1. Len(Queues[t]) = Len(wire[t]) + Len(out[t]) /\ Len(Queues[t]) <= MaxOut
        BY <1>1
      <3>2. Len(Queues[t]) = m + n /\ i <= n
        BY <2>1, <2>2, <2>3, <3>1, Zenon
      <3>3. m + n <= MaxOut
        BY <3>1, <3>2, Zenon
      <3>4. i \in Int /\ i >= 1
        BY <2>1, BoundsAssumption
      <3> QED BY <3>2, <3>3, <3>4
    <2>4. m + i \in 1 .. m + n /\ ~(m + i <= m) /\ (m + i) - m = i /\ m + i <= Len(Queues[t])
          /\ m + i \in 1 .. MaxOut
      BY <2>6, BoundsAssumption
    <2>5. Queues[t][m + i] = out[t][(m + i) - m]
      BY <1>1, <2>2, <2>3, <2>4
    <2> QED BY <2>1, <2>2, <2>4, <2>5 DEF At
  <1> QED BY <1>1, <1>2, <1>3

\* A call written, seen in the write buffers of the threads of S.
LEMMA WriteDropped ==
  ASSUME TypeOK, Bounded(Queues), NEW t \in Threads, NEW e \in Calls, Write(t, e),
         NEW S, S \subseteq Threads, NEW op, NEW b
  PROVE  /\ Call(op, b) = e /\ t \in S => Dropped(S, op, b)' = Dropped(S, op, b) + 1
         /\ Call(op, b) # e \/ t \notin S => Dropped(S, op, b)' = Dropped(S, op, b)
  <1>1. PICK U : U = out
    OBVIOUS
  <1>2. PICK V : V = out'
    OBVIOUS
  <1>3. PICK c : c = Call(op, b)
    OBVIOUS
  <1>4. Bounded(U)
    BY <1>1, OutBounded
  <1>5. Extended(U, V, t, e)
    <2>1. Len(Queues[t]) < MaxOut /\ V = [U EXCEPT ![t] = Append(@, e)]
      BY <1>1, <1>2, QueueTypes DEF Write
    <2>2. Len(Queues[t]) = Len(wire[t]) + Len(out[t]) /\ Len(wire[t]) \in Nat
      BY OutBounded
    <2>3. Len(U[t]) \in Nat
      BY <1>4 DEF Bounded
    <2>4. Len(U[t]) < MaxOut
      <3>1. PICK m \in Nat : m = Len(wire[t])
        BY <2>2
      <3>2. PICK n \in Nat : n = Len(U[t])
        BY <2>3
      <3>3. m + n < MaxOut
        BY <1>1, <2>1, <2>2, <3>1, <3>2
      <3> QED BY <3>2, <3>3, BoundsAssumption
    <2> QED BY <2>1, <2>4 DEF Extended
  <1>6. PlaceAdded(U, V, t, e, c)
    BY <1>4, <1>5, AppendPlaces
  <1>7. PICK x : x = <<t, Len(U[t]) + 1>>
    OBVIOUS
  <1>8. /\ x \notin Places(Threads, U, c) /\ x[1] = t
        /\ c = e => Places(Threads, V, c) = Places(Threads, U, c) \cup {x}
        /\ c # e => Places(Threads, V, c) = Places(Threads, U, c)
    BY <1>6, <1>7 DEF PlaceAdded
  <1>9. /\ Places(S, U, c) = {d \in Places(Threads, U, c) : d[1] \in S}
        /\ Places(S, V, c) = {d \in Places(Threads, V, c) : d[1] \in S}
        /\ IsFiniteSet(Places(S, U, c))
    BY SomePlaces, PlacesFinite
  <1>10. ASSUME c = e, t \in S PROVE Cardinality(Places(S, V, c)) = Cardinality(Places(S, U, c)) + 1
    <2>1. Places(S, V, c) = Places(S, U, c) \cup {x} /\ x \notin Places(S, U, c)
      BY <1>8, <1>9, <1>10
    <2> QED BY <1>9, <2>1, FS_AddElement
  <1>11. ASSUME c # e \/ t \notin S PROVE Places(S, V, c) = Places(S, U, c)
    BY <1>8, <1>9, <1>11
  <1> QED BY <1>1, <1>2, <1>3, <1>10, <1>11 DEF Dropped

\* the write buffers of the threads of T are empty, the others as they were
Emptied(T) == /\ T \subseteq Threads
              /\ \A t \in T : out'[t] = <<>>
              /\ \A t \in Threads \ T : out'[t] = out[t]

\* Write buffers emptied, and those of two sets of threads together.
LEMMA EmptiedDropped ==
  ASSUME NEW T, Emptied(T), NEW S, S \subseteq Threads, NEW op, NEW b
  PROVE  Dropped(S, op, b)' = Dropped(S \ T, op, b)
  <1>1. ASSUME NEW u, NEW i
        PROVE  At(S, out', Call(op, b), u, i) <=> At(S \ T, out, Call(op, b), u, i)
    <2>1. CASE u \in T
      <3>1. Len(out'[u]) = 0
        BY <2>1 DEF Emptied
      <3> QED BY <2>1, <3>1, BoundsAssumption DEF At
    <2>2. CASE u \notin T
      BY <2>2 DEF At, Emptied
    <2> QED BY <2>1, <2>2
  <1>2. \A d : d \in Places(S, out', Call(op, b)) <=> d \in Places(S \ T, out, Call(op, b))
    <2> SUFFICES ASSUME NEW d
                 PROVE  d \in Places(S, out', Call(op, b)) <=> d \in Places(S \ T, out, Call(op, b))
      OBVIOUS
    <2>1. CASE d = <<d[1], d[2]>>
      <3>1. <<d[1], d[2]>> \in Places(S, out', Call(op, b)) <=> At(S, out', Call(op, b), d[1], d[2])
        BY PlaceIs
      <3>2. <<d[1], d[2]>> \in Places(S \ T, out, Call(op, b)) <=> At(S \ T, out, Call(op, b), d[1], d[2])
        BY PlaceIs
      <3> QED BY <1>1, <2>1, <3>1, <3>2
    <2>2. CASE d # <<d[1], d[2]>>
      BY <2>2, PlaceIs
    <2> QED BY <2>1, <2>2
  <1>3. Places(S, out', Call(op, b)) = Places(S \ T, out, Call(op, b))
    BY <1>2
  <1> QED BY <1>3 DEF Dropped

\* The unflushed calls of a union of threads, counted once.
LEMMA UnionDropped ==
  ASSUME NEW S, S \subseteq Threads, NEW T, T \subseteq Threads, NEW op, NEW b
  PROVE  Dropped(S \cup T, op, b) = Dropped(S \ T, op, b) + Dropped(T, op, b)
  <1>1. PICK c : c = Call(op, b)
    OBVIOUS
  <1>2. /\ Places(S \cup T, out, c) = {d \in Places(Threads, out, c) : d[1] \in S \cup T}
        /\ Places(S \ T, out, c) = {d \in Places(Threads, out, c) : d[1] \in S \ T}
        /\ Places(T, out, c) = {d \in Places(Threads, out, c) : d[1] \in T}
    BY SomePlaces
  <1>3. Parts(Places(S \cup T, out, c), Places(S \ T, out, c), Places(T, out, c))
    BY <1>2 DEF Parts
  <1>4. IsFiniteSet(Places(S \ T, out, c)) /\ IsFiniteSet(Places(T, out, c))
    BY PlacesFinite
  <1>5. Cardinality(Places(S \cup T, out, c))
          = Cardinality(Places(S \ T, out, c)) + Cardinality(Places(T, out, c))
    BY <1>3, <1>4, PartsCount
  <1> QED BY <1>1, <1>5 DEF Dropped

\* What is lost is never negative.
LEMMA LostNat ==
  ASSUME TypeOK, AllBacked, NEW b \in Buffers
  PROVE  lost[b] >= 0 /\ lost[b] \in Int
  <1>1. PICK S : S = {}
    OBVIOUS
  <1>2. S \in SUBSET Threads /\ S \subseteq Threads
    BY <1>1
  <1>3. \A op : Dropped(S, op, b) = 0
    <2>1. \A c : Places(S, out, c) = {}
      BY <1>1 DEF Places
    <2> QED BY <2>1, FS_EmptySet DEF Dropped
  <1>4. Backing(S, b) = 0
    <2>1. RefsFor(Refs(b), S) = {}
      BY <1>1 DEF RefsFor, Serves
    <2> QED BY <2>1, FS_EmptySet DEF Backing
  <1>5. Backed(b, S) /\ lost[b] \in Int
    BY <1>2 DEF AllBacked, TypeOK
  <1> QED BY <1>3, <1>4, <1>5 DEF Backed

\* The numbers of Backed before and after a step.
LEMMA BackedTypes ==
  ASSUME TypeOK, TypeOK', AllBacked, NEW b \in Buffers, NEW S \in SUBSET Threads
  PROVE  /\ Backed(b, S) /\ lost[b] \in Int /\ lost'[b] \in Int
         /\ Backing(S, b) \in Nat /\ Backing(S, b)' \in Nat
         /\ Dropped(S, "open", b) \in Nat /\ Dropped(S, "open", b)' \in Nat
         /\ Dropped(S, "close", b) \in Nat /\ Dropped(S, "close", b)' \in Nat
  BY BackingTypes DEF AllBacked, TypeOK

\* A close, by the only thread that may have opens under way.
LEMMA CloseBacked ==
  ASSUME TypeOK, TypeOK', Bounded(Queues), AllBacked, NEW t \in Threads, NEW p \in Procs, p = ProcOf[t],
         NEW b \in Buffers, RefsLowered(p, b), Write(t, Call("close", b)), lost' = lost, OnlyOpens(t, b)
  PROVE  AllBacked'
  <1> SUFFICES ASSUME NEW c \in Buffers, NEW S \in SUBSET Threads PROVE Backed(c, S)'
    BY DEF AllBacked
  <1>1. Call("close", b) \in Calls /\ Call("open", c) # Call("close", b)
    BY CallIs DEF Ops
  <1>2. /\ Backed(c, S) /\ lost[c] \in Int /\ lost'[c] = lost[c]
        /\ Backing(S, c) \in Nat /\ Backing(S, c)' \in Nat
        /\ Dropped(S, "open", c) \in Nat /\ Dropped(S, "close", c) \in Nat /\ Dropped(S, "close", c)' \in Nat
    BY BackedTypes
  <1>3. Dropped(S, "open", c)' = Dropped(S, "open", c)
    BY <1>1, WriteDropped
  <1>4. CASE c # b
    <2>1. Call("close", c) # Call("close", b)
      BY <1>4, CallIs
    <2>2. Dropped(S, "close", c)' = Dropped(S, "close", c)
      BY <1>1, <2>1, WriteDropped
    <2>3. Backing(S, c)' = Backing(S, c)
      BY <1>4, BackingSteps DEF RefsLowered
    <2> QED BY <1>2, <1>3, <2>2, <2>3 DEF Backed
  <1>5. CASE c = b /\ t \in S
    <2>1. Dropped(S, "close", c)' = Dropped(S, "close", c) + 1
      BY <1>1, <1>5, WriteDropped
    <2>2. Serves(S, p)
      BY <1>5 DEF Serves
    <2>3. Backing(S, c) = Backing(S, c)' + 1
      BY <1>5, <2>2, BackingSteps
    <2> QED BY <1>2, <1>3, <2>1, <2>3 DEF Backed
  <1>6. CASE c = b /\ t \notin S
    <2>1. Dropped(S, "open", c) = 0
      <3>1. ASSUME NEW d \in Places(S, out, Call("open", c)) PROVE FALSE
        <4>1. PICK u \in Threads : u = d[1] /\ u \in S
          BY <3>1, PlaceOf
        <4>2. At(Threads, out, Call("open", c), u, d[2])
          BY <3>1, <4>1, PlaceOf DEF At
        <4>3. At(Threads, Queues, Call("open", c), u, Len(wire[u]) + d[2])
          BY <4>2, OutBounded
        <4> QED BY <1>6, <4>1, <4>3 DEF OnlyOpens
      <3>2. Places(S, out, Call("open", c)) = {}
        BY <3>1
      <3> QED BY <3>2, FS_EmptySet DEF Dropped
    <2>2. lost[c] >= 0
      BY LostNat
    <2> QED BY <1>2, <1>3, <2>1, <2>2 DEF Backed
  <1> QED BY <1>4, <1>5, <1>6

\* A registration brings the reference that backs its open.
LEMMA RegisterBacked ==
  ASSUME TypeOK, TypeOK', Bounded(Queues), AllBacked, NEW t \in Threads, NEW p \in Procs, p = ProcOf[t],
         NEW b \in Buffers, RefsRaised(p, b), Write(t, Call("open", b)), lost' = lost
  PROVE  AllBacked'
  <1> SUFFICES ASSUME NEW c \in Buffers, NEW S \in SUBSET Threads PROVE Backed(c, S)'
    BY DEF AllBacked
  <1>1. Call("open", b) \in Calls /\ Call("close", c) # Call("open", b)
    BY CallIs DEF Ops
  <1>2. /\ Backed(c, S) /\ lost[c] \in Int /\ lost'[c] = lost[c]
        /\ Backing(S, c) \in Nat /\ Backing(S, c)' \in Nat
        /\ Dropped(S, "open", c) \in Nat /\ Dropped(S, "close", c) \in Nat /\ Dropped(S, "open", c)' \in Nat
    BY BackedTypes
  <1>3. Dropped(S, "close", c)' = Dropped(S, "close", c)
    BY <1>1, WriteDropped
  <1>4. CASE c # b
    <2>1. Call("open", c) # Call("open", b)
      BY <1>4, CallIs
    <2>2. Dropped(S, "open", c)' = Dropped(S, "open", c)
      BY <1>1, <2>1, WriteDropped
    <2>3. Backing(S, c)' = Backing(S, c)
      BY <1>4, BackingSteps DEF RefsRaised
    <2> QED BY <1>2, <1>3, <2>2, <2>3 DEF Backed
  <1>5. CASE c = b /\ t \in S
    <2>1. Dropped(S, "open", c)' = Dropped(S, "open", c) + 1
      BY <1>1, <1>5, WriteDropped
    <2>2. Serves(S, p)
      BY <1>5 DEF Serves
    <2>3. Backing(S, c)' = Backing(S, c) + 1
      BY <1>5, <2>2, BackingSteps
    <2> QED BY <1>2, <1>3, <2>1, <2>3 DEF Backed
  <1>6. CASE c = b /\ t \notin S
    <2>1. Dropped(S, "open", c)' = Dropped(S, "open", c)
      BY <1>1, <1>6, WriteDropped
    <2>2. Backing(S, c)' >= Backing(S, c)
      BY <1>2, <1>6, BackingSteps
    <2> QED BY <1>2, <1>3, <2>1, <2>2 DEF Backed
  <1> QED BY <1>4, <1>5, <1>6

\* A registration that fails loses the reference of its open.
LEMMA FailBacked ==
  ASSUME TypeOK, TypeOK', Bounded(Queues), AllBacked, NEW t \in Threads, NEW b \in Buffers,
         Write(t, Call("open", b)), lost'[b] = lost[b] + 1, \A c \in Buffers \ {b} : lost'[c] = lost[c],
         UNCHANGED <<allocator, held>>
  PROVE  AllBacked'
  <1> SUFFICES ASSUME NEW c \in Buffers, NEW S \in SUBSET Threads PROVE Backed(c, S)'
    BY DEF AllBacked
  <1>1. Call("open", b) \in Calls /\ Call("close", c) # Call("open", b)
    BY CallIs DEF Ops
  <1>2. /\ Backed(c, S) /\ lost[c] \in Int /\ lost'[c] \in Int
        /\ Backing(S, c) \in Nat /\ Backing(S, c)' \in Nat
        /\ Dropped(S, "open", c) \in Nat /\ Dropped(S, "close", c) \in Nat /\ Dropped(S, "open", c)' \in Nat
    BY BackedTypes
  <1>3. Dropped(S, "close", c)' = Dropped(S, "close", c)
    BY <1>1, WriteDropped
  <1>4. Backing(S, c)' = Backing(S, c)
    BY RefsFrame DEF Backing
  <1>5. CASE c # b
    <2>1. Call("open", c) # Call("open", b)
      BY <1>5, CallIs
    <2>2. Dropped(S, "open", c)' = Dropped(S, "open", c) /\ lost'[c] = lost[c]
      BY <1>1, <1>5, <2>1, WriteDropped
    <2> QED BY <1>2, <1>3, <1>4, <2>2 DEF Backed
  <1>6. CASE c = b
    <2>1. Dropped(S, "open", c)' <= Dropped(S, "open", c) + 1
      <3>1. CASE t \in S
        BY <1>1, <1>2, <1>6, <3>1, WriteDropped
      <3>2. CASE t \notin S
        BY <1>1, <1>2, <1>6, <3>2, WriteDropped
      <3> QED BY <3>1, <3>2
    <2>2. lost'[c] = lost[c] + 1
      BY <1>6
    <2> QED BY <1>2, <1>3, <1>4, <2>1, <2>2 DEF Backed
  <1> QED BY <1>5, <1>6

\* Flushed calls need no backing any more, and references that come do no harm.
LEMMA EmptiedBacked ==
  ASSUME TypeOK, TypeOK', AllBacked, NEW T, Emptied(T), lost' = lost,
         \A b \in Buffers, S \in SUBSET Threads : Backing(S, b)' >= Backing(S, b)
  PROVE  AllBacked'
  <1> SUFFICES ASSUME NEW c \in Buffers, NEW S \in SUBSET Threads PROVE Backed(c, S)'
    BY DEF AllBacked
  <1>1. PICK Z \in SUBSET Threads : Z = S \ T
    OBVIOUS
  <1>2. /\ Backed(c, Z) /\ lost[c] \in Int /\ lost'[c] = lost[c] /\ Backing(Z, c) \in Nat
        /\ Dropped(Z, "open", c) \in Nat /\ Dropped(Z, "close", c) \in Nat
    BY BackedTypes
  <1>3. Backing(S, c) \in Nat /\ Backing(S, c)' \in Nat
    BY BackedTypes
  <1>4. Dropped(S, "open", c)' = Dropped(Z, "open", c) /\ Dropped(S, "close", c)' = Dropped(Z, "close", c)
    BY <1>1, EmptiedDropped
  <1>5. Backing(Z, c) <= Backing(S, c)
    BY <1>1, BackingGrows
  <1>6. Backing(S, c)' >= Backing(S, c)
    OBVIOUS
  <1> QED BY <1>2, <1>3, <1>4, <1>5, <1>6 DEF Backed

\* A process that dies: what backed its opens is lost with them.
LEMMA DeathBacked ==
  ASSUME TypeOK, TypeOK', AllBacked, NEW p \in Procs, ProcessDies(p)
  PROVE  AllBacked'
  <1> SUFFICES ASSUME NEW c \in Buffers, NEW S \in SUBSET Threads PROVE Backed(c, S)'
    BY DEF AllBacked
  <1>1. PICK T : T = {t \in Threads \ ended : ProcOf[t] = p}
    OBVIOUS
  <1>2. ThreadsOf(T, p) /\ T \subseteq Threads
    BY <1>1 DEF ThreadsOf, ProcessDies
  <1>3. Emptied(T)
    BY <1>1, <1>2 DEF Emptied, ProcessDies
  <1>4. lost'[c] = lost[c] + Unsent(T, c) + RefsOf(p, c)
    BY <1>1 DEF ProcessDies
  <1>5. Unsent(T, c) = Dropped(T, "close", c) - Dropped(T, "open", c)
    <2>1. \A o : {d \in T \X (1 .. MaxOut) : d[2] <= Len(out[d[1]]) /\ out[d[1]][d[2]] = Call(o, c)}
                   = Places(T, out, Call(o, c))
      BY DEF Places
    <2> QED BY <2>1 DEF Unsent, Dropped
  <1>6. PICK Z \in SUBSET Threads : Z = S \ T
    OBVIOUS
  <1>7. PICK Y \in SUBSET Threads : Y = S \cup T
    BY <1>2
  <1>8. /\ Backed(c, Y) /\ lost[c] \in Int /\ lost'[c] \in Int /\ Backing(Y, c) \in Nat
        /\ Dropped(Z, "open", c) \in Nat /\ Dropped(Z, "close", c) \in Nat
        /\ Dropped(T, "open", c) \in Nat /\ Dropped(T, "close", c) \in Nat /\ Backing(S, c)' \in Nat
    BY <1>2, BackedTypes
  <1>9. Dropped(S, "open", c)' = Dropped(Z, "open", c) /\ Dropped(S, "close", c)' = Dropped(Z, "close", c)
    BY <1>3, <1>6, EmptiedDropped
  <1>10. /\ Dropped(Y, "open", c) = Dropped(Z, "open", c) + Dropped(T, "open", c)
         /\ Dropped(Y, "close", c) = Dropped(Z, "close", c) + Dropped(T, "close", c)
    BY <1>2, <1>6, <1>7, UnionDropped
  <1>11. Backing(Y, c) = Backing(S, c)' + RefsOf(p, c)
    BY <1>2, <1>7, BackingDeath
  <1>12. RefsOf(p, c) \in Int
    BY RefsCounted
  <1>13. Dropped(Z, "open", c) + Dropped(T, "open", c)
           <= lost[c] + (Backing(S, c)' + RefsOf(p, c)) + (Dropped(Z, "close", c) + Dropped(T, "close", c))
    BY <1>8, <1>10, <1>11 DEF Backed
  <1>14. lost'[c] = lost[c] + (Dropped(T, "close", c) - Dropped(T, "open", c)) + RefsOf(p, c)
    BY <1>4, <1>5
  <1>15. Dropped(Z, "open", c) <= lost'[c] + Backing(S, c)' + Dropped(Z, "close", c)
    BY <1>8, <1>12, <1>13, <1>14
  <1> QED BY <1>9, <1>15 DEF Backed

\* With the rule "confirm", whoever returns a reference is the only one with
\* opens of the buffer under way.
LEMMA ConfirmedOpens ==
  ASSUME TypeOK, AllRules \subseteq Rules, NEW t \in Threads, NEW b \in Buffers, MayClose(t, b)
  PROVE  OnlyOpens(t, b)
  <1> SUFFICES ASSUME NEW u \in Threads \ {t}, NEW i, At(Threads, Queues, Call("open", b), u, i)
               PROVE  FALSE
    BY DEF OnlyOpens
  <1>1. Occurrences(Call("open", b), Undelivered(u)) = 0
    BY DEF MayClose, AllRules
  <1>2. Undelivered(u) = Queues[u] /\ Queues[u] \in Seq(Calls)
    BY QueueTypes
  <1>3. PICK q \in Seq(Calls) : q = Queues[u]
    BY <1>2
  <1> DEFINE I == {n \in DOMAIN q : q[n] = Call("open", b)}
  <1>4. Cardinality(I) = 0
    BY <1>1, <1>2, <1>3 DEF Occurrences
  <1>5. i \in Int /\ i >= 1 /\ i <= Len(q) /\ q[i] = Call("open", b)
    BY <1>3, BoundsAssumption DEF At
  <1>6. DOMAIN q = 1 .. Len(q) /\ Len(q) \in Nat
    BY LenProperties
  <1>7. i \in I
    BY <1>5, <1>6
  <1>8. IsFiniteSet(I)
    <2>1. IsFiniteSet(1 .. Len(q))
      BY <1>6, FS_Interval
    <2>2. I \in SUBSET (1 .. Len(q))
      BY <1>6
    <2> HIDE DEF I
    <2> QED BY <2>1, <2>2, FS_Subset
  <1> HIDE DEF I
  <1> QED BY <1>4, <1>7, <1>8, FS_EmptySet

-----------------------------------------------------------------------------
(* The invariant of a guest that keeps both rules *)

\* the host's count is exact, for buffers that are gone from its table, too
Exact == \A b \in Buffers : refcount[b] = HostRefs(b)

UseInv == CountInv /\ Kept /\ AllBacked /\ Exact

\* At the cut that reaches nothing, Worth is what the host should count now.
LEMMA WorthNow ==
  ASSUME TypeOK, Kept, NEW b \in Buffers
  PROVE  /\ HostRefs(b) \in Int /\ HostRefs(b) >= 0
         /\ HostRefs(b) = 0 => GuestRefs(b) = 0 /\ InTransit("open", b) = 0
  <1>1. PICK z \in Cuts : z = [t \in Threads |-> 0]
    BY DEF Cuts
  <1>2. Left("close", b, z) = InTransit("close", b) /\ Left("open", b, z) = InTransit("open", b)
    BY <1>1, LeftCounts
  <1>3. Covered(b, z)
    BY DEF Kept
  <1>4. /\ GuestRefs(b) \in Nat /\ lost[b] \in Int
        /\ InTransit("close", b) \in Nat /\ InTransit("open", b) \in Nat
    BY SumTypes DEF TypeOK
  <1>5. Worth(b, z) = HostRefs(b) /\ HostRefs(b) \in Int
    BY <1>2, <1>4 DEF Worth, HostRefs
  <1> QED BY <1>2, <1>3, <1>5 DEF Covered

\* The same in the next state.
LEMMA WorthNext ==
  ASSUME TypeOK', Kept', NEW b \in Buffers
  PROVE  HostRefs(b)' \in Int /\ HostRefs(b)' >= 0
  <1>1. PICK z \in Cuts : z = [t \in Threads |-> 0]
    BY DEF Cuts
  <1>2. ASSUME NEW op PROVE Left(op, b, z)' = InTransit(op, b)'
    <2>1. ASSUME NEW d \in Places(Threads, Queues', Call(op, b)) PROVE d[2] > z[d[1]]
      <3>1. d[1] \in Threads /\ d[2] \in Int /\ d[2] >= 1
        BY <2>1, PlaceOf
      <3> QED BY <1>1, <3>1
    <2>2. Beyond(Queues', z, Call(op, b)) = Places(Threads, Queues', Call(op, b))
      BY <2>1 DEF Beyond
    <2> QED BY <2>2, Sums DEF Left
  <1>3. Covered(b, z)'
    BY DEF Kept
  <1>4. /\ GuestRefs(b)' \in Nat /\ lost'[b] \in Int
        /\ InTransit("close", b)' \in Nat /\ InTransit("open", b)' \in Nat
    BY SumTypes DEF TypeOK
  <1>5. Worth(b, z)' = GuestRefs(b)' + lost'[b] + InTransit("close", b)' - InTransit("open", b)'
    BY <1>2 DEF Worth
  <1>6. HostRefs(b)' = GuestRefs(b)' + InTransit("close", b)' - InTransit("open", b)' + lost'[b]
    BY DEF HostRefs
  <1>7. Worth(b, z)' = HostRefs(b)' /\ HostRefs(b)' \in Int
    BY <1>4, <1>5, <1>6
  <1> QED BY <1>3, <1>7 DEF Covered

\* In the beginning.
LEMMA InitUse ==
  ASSUME Init
  PROVE  UseInv
  <1>1. CountInv /\ TypeOK
    BY InitCount DEF CountInv
  <1>2. ASSUME NEW b \in Buffers
        PROVE  /\ GuestRefs(b) = 0 /\ lost[b] = 0 /\ refcount[b] = 0
               /\ (\A op : InTransit(op, b) = 0) /\ (\A op, k : Left(op, b, k) = 0)
    <2>1. Unheard(b) /\ GuestRefs(b) = 0
      BY InitCount
    <2>2. \A op : InTransit(op, b) = 0
      BY <1>1, <2>1, RefsCounted DEF Unheard
    <2>3. \A op, k : Left(op, b, k) = 0
      BY <2>1, LeftCounts DEF Unheard
    <2> QED BY <2>1, <2>2, <2>3 DEF Unheard
  <1>3. Kept
    <2> SUFFICES ASSUME NEW b \in Buffers, NEW k \in Cuts PROVE Covered(b, k)
      BY DEF Kept
    <2>1. Worth(b, k) = 0
      BY <1>2 DEF Worth
    <2> QED BY <1>2, <2>1 DEF Covered
  <1>4. Exact
    BY <1>2 DEF Exact, HostRefs
  <1>5. AllBacked
    <2> SUFFICES ASSUME NEW b \in Buffers, NEW S \in SUBSET Threads PROVE Backed(b, S)
      BY DEF AllBacked
    <2>1. ASSUME NEW d \in Places(S, out, Call("open", b)) PROVE FALSE
      <3>1. At(Threads, out, Call("open", b), d[1], d[2])
        BY <2>1, PlaceOf DEF At
      <3> QED BY <3>1, InitCount
    <2>2. Places(S, out, Call("open", b)) = {}
      BY <2>1
    <2>3. Dropped(S, "open", b) = 0
      BY <2>2, FS_EmptySet DEF Dropped
    <2>4. Backing(S, b) \in Nat /\ Dropped(S, "close", b) \in Nat
      BY BackingTypes
    <2> QED BY <1>2, <2>3, <2>4 DEF Backed
  <1> QED BY <1>1, <1>3, <1>4, <1>5 DEF UseInv

\* gralloc_free and gralloc_unregister_buffer.
LEMMA ReturnUse ==
  ASSUME AllRules \subseteq Rules, UseInv, NEW t \in Threads, NEW b \in Buffers,
         Free(t, b) \/ Unregister(t, b)
  PROVE  Kept' /\ AllBacked'
  <1>1. CountInv /\ TypeOK /\ Bounded(Queues) /\ Kept /\ AllBacked
    BY DEF UseInv, CountInv
  <1>2. TypeOK'
    BY <1>1, FreeCount, UnregisterCount DEF CountInv
  <1>3. PICK p \in Procs : p = ProcOf[t]
    BY ProcsAssumption
  <1>4. MayClose(t, b) /\ Write(t, Call("close", b)) /\ lost' = lost
    BY DEF Free, Unregister
  <1>5. RefsLowered(p, b)
    BY <1>1, <1>3, FreeLowers, UnregisterLowers
  <1>6. Call("close", b) \in Calls
    BY CallIs DEF Ops
  <1>7. Sent(t, Call("close", b))
    BY <1>1, <1>4, <1>6, WriteSends
  <1>8. OnlyOpens(t, b)
    BY <1>1, <1>4, ConfirmedOpens
  <1>9. lost[b] >= 0
    BY <1>1, LostNat
  <1>10. Kept'
    BY <1>1, <1>4, <1>5, <1>7, <1>8, <1>9, CloseKept
  <1>11. AllBacked'
    BY <1>1, <1>2, <1>3, <1>4, <1>5, <1>8, CloseBacked
  <1> QED BY <1>10, <1>11

\* gralloc_register_buffer.
LEMMA RegisterUse ==
  ASSUME UseInv, NEW t \in Threads, NEW b \in Buffers, Register(t, b)
  PROVE  Kept' /\ AllBacked'
  <1>1. CountInv /\ TypeOK /\ Bounded(Queues) /\ Kept /\ AllBacked
    BY DEF UseInv, CountInv
  <1>2. TypeOK'
    BY <1>1, RegisterCount DEF CountInv
  <1>3. PICK p \in Procs : p = ProcOf[t]
    BY ProcsAssumption
  <1>4. GuestRefs(b) > 0 /\ Write(t, Call("open", b)) /\ lost' = lost
    BY DEF Register
  <1>5. RefsRaised(p, b)
    BY <1>1, <1>3, RegisterRaises
  <1>6. Call("open", b) \in Calls
    BY CallIs DEF Ops
  <1>7. Sent(t, Call("open", b))
    BY <1>1, <1>4, <1>6, WriteSends
  <1>8. GuestRefs(b)' = GuestRefs(b) + 1 /\ \A c \in Buffers \ {b} : GuestRefs(c)' = GuestRefs(c)
    BY <1>1, <1>5, RaisedRefs
  <1>9. GuestRefs(b) \in Nat /\ lost[b] \in Int /\ lost' \in [Buffers -> Int]
    BY <1>1, <1>2, SumTypes DEF TypeOK
  <1>10. GuestRefs(b)' + lost'[b] = GuestRefs(b) + lost[b] + 1
    BY <1>4, <1>8, <1>9
  <1>11. Kept'
    BY <1>1, <1>4, <1>7, <1>8, <1>9, <1>10, OpenKept
  <1>12. AllBacked'
    BY <1>1, <1>2, <1>3, <1>4, <1>5, RegisterBacked
  <1> QED BY <1>11, <1>12

\* A registration that fails.
LEMMA RegisterFailsUse ==
  ASSUME UseInv, NEW t \in Threads, NEW b \in Buffers, RegisterFails(t, b)
  PROVE  Kept' /\ AllBacked'
  <1>1. CountInv /\ TypeOK /\ Bounded(Queues) /\ Kept /\ AllBacked
    BY DEF UseInv, CountInv
  <1>2. TypeOK'
    BY <1>1, RegisterFailsCount DEF CountInv
  <1>3. GuestRefs(b) > 0 /\ Write(t, Call("open", b)) /\ UNCHANGED <<allocator, held>>
    BY DEF RegisterFails, guest
  <1>4. lost'[b] = lost[b] + 1 /\ \A c \in Buffers \ {b} : lost'[c] = lost[c]
    BY <1>1 DEF RegisterFails, TypeOK
  <1>5. Call("open", b) \in Calls
    BY CallIs DEF Ops
  <1>6. Sent(t, Call("open", b))
    BY <1>1, <1>3, <1>5, WriteSends
  <1>7. \A c \in Buffers : GuestRefs(c)' = GuestRefs(c)
    BY <1>3, RefsFrame, Sums
  <1>8. GuestRefs(b) \in Nat /\ lost[b] \in Int /\ lost' \in [Buffers -> Int]
    BY <1>1, <1>2, SumTypes DEF TypeOK
  <1>9. GuestRefs(b)' + lost'[b] = GuestRefs(b) + lost[b] + 1
    BY <1>4, <1>7, <1>8
  <1>10. Kept'
    BY <1>1, <1>3, <1>4, <1>6, <1>7, <1>8, <1>9, OpenKept
  <1>11. AllBacked'
    BY <1>1, <1>2, <1>3, <1>4, FailBacked
  <1> QED BY <1>10, <1>11

\* Steps that change no reference and no queue.
LEMMA QuietUse ==
  ASSUME UseInv, TypeOK', Queues' = Queues, NEW T, Emptied(T), UNCHANGED <<allocator, held, lost>>
  PROVE  Kept' /\ AllBacked'
  <1>1. TypeOK /\ Kept /\ AllBacked
    BY DEF UseInv, CountInv
  <1>2. \A b \in Buffers : Refs(b)' = Refs(b) /\ GuestRefs(b)' = GuestRefs(b)
    BY RefsFrame, Sums
  <1>3. \A op, b, k : Left(op, b, k)' = Left(op, b, k)
    BY DEF Left
  <1>4. Kept'
    <2> SUFFICES ASSUME NEW b \in Buffers, NEW k \in Cuts PROVE Covered(b, k)'
      BY DEF Kept
    <2>1. Covered(b, k)
      BY <1>1 DEF Kept
    <2> QED BY <1>2, <1>3, <2>1, SameCovered
  <1>5. \A b \in Buffers, S \in SUBSET Threads : Backing(S, b)' >= Backing(S, b)
    <2> SUFFICES ASSUME NEW b \in Buffers, NEW S \in SUBSET Threads PROVE Backing(S, b)' >= Backing(S, b)
      OBVIOUS
    <2>1. Backing(S, b)' = Backing(S, b) /\ Backing(S, b) \in Nat
      BY <1>2, BackingTypes DEF Backing
    <2> QED BY <2>1
  <1>6. AllBacked'
    BY <1>1, <1>5, EmptiedBacked
  <1> QED BY <1>4, <1>6

\* Flush, Lock, Unlock and stuttering.
LEMMA OtherUse ==
  ASSUME UseInv,
         \/ UNCHANGED vars
         \/ \E t \in Threads : Flush(t) \/ Unlock(t) \/ \E b \in Buffers : Lock(t, b)
  PROVE  Kept' /\ AllBacked'
  <1>1. CountInv /\ TypeOK
    BY DEF UseInv, CountInv
  <1>2. TypeOK'
    BY <1>1, OtherCount DEF CountInv
  <1>3. ASSUME NEW t \in Threads, Flush(t) PROVE Kept' /\ AllBacked'
    <2>1. PICK T : T = {t}
      OBVIOUS
    <2>2. Emptied(T)
      BY <1>1, <1>3, <2>1 DEF Emptied, Flush, TypeOK
    <2>3. Queues' = Queues /\ UNCHANGED <<allocator, held, lost>>
      BY <1>1, <1>3, FlushKeeps DEF Flush, guest
    <2> QED BY <1>2, <2>2, <2>3, QuietUse
  <1>4. ASSUME UNCHANGED <<wire, out, allocator, held, lost>> PROVE Kept' /\ AllBacked'
    <2>1. PICK T : T = {}
      OBVIOUS
    <2>2. Emptied(T)
      BY <1>4, <2>1 DEF Emptied
    <2>3. Queues' = Queues
      BY <1>4 DEF Queues, Undelivered
    <2> QED BY <1>2, <1>4, <2>2, <2>3, QuietUse
  <1>5. CASE UNCHANGED vars
    BY <1>4, <1>5 DEF vars, guest, conn
  <1>6. ASSUME NEW t \in Threads, Unlock(t) PROVE Kept' /\ AllBacked'
    BY <1>4, <1>6 DEF Unlock, guest, conn
  <1>7. ASSUME NEW t \in Threads, NEW b \in Buffers, Lock(t, b) PROVE Kept' /\ AllBacked'
    BY <1>4, <1>7 DEF Lock, guest, conn
  <1> QED BY <1>3, <1>5, <1>6, <1>7

\* fb_post, the host and rcCreateColorBuffer.
LEMMA PostUse ==
  ASSUME UseInv, NEW t \in Threads, NEW b \in Buffers, FbPost(t, b)
  PROVE  Kept' /\ AllBacked'
  <1>1. CountInv /\ TypeOK /\ Bounded(Queues) /\ Kept /\ AllBacked
    BY DEF UseInv, CountInv
  <1>2. TypeOK'
    BY <1>1, FbPostCount DEF CountInv
  <1>3. UNCHANGED <<allocator, held, lost>>
    BY DEF FbPost, guest
  <1>4. Sent(t, Call("post", b))
    BY <1>1, PostSends
  <1>5. Kept'
    BY <1>1, <1>3, <1>4, PostKept
  <1>6. PICK T : T = {t}
    OBVIOUS
  <1>7. Emptied(T)
    BY <1>1, <1>6 DEF Emptied, FbPost, TypeOK
  <1>8. \A c \in Buffers, S \in SUBSET Threads : Backing(S, c)' >= Backing(S, c)
    <2> SUFFICES ASSUME NEW c \in Buffers, NEW S \in SUBSET Threads PROVE Backing(S, c)' >= Backing(S, c)
      OBVIOUS
    <2>1. Backing(S, c)' = Backing(S, c) /\ Backing(S, c) \in Nat
      BY <1>3, RefsFrame, BackingTypes DEF Backing
    <2> QED BY <2>1
  <1>9. AllBacked'
    BY <1>1, <1>2, <1>3, <1>7, <1>8, EmptiedBacked
  <1> QED BY <1>5, <1>9

\* The host's execution keeps what is known of the cuts and of the opens.
LEMMA HostUse ==
  ASSUME UseInv, NEW t \in Threads, HostExecutes(t)
  PROVE  Kept' /\ AllBacked'
  <1>1. CountInv /\ TypeOK /\ Bounded(Queues) /\ Kept /\ AllBacked
    BY DEF UseInv, CountInv
  <1>2. TypeOK' /\ Taken(t)
    BY <1>1, HostCount DEF CountInv
  <1>3. UNCHANGED <<allocator, held, lost, out>>
    BY DEF HostExecutes, guest
  <1>4. Kept'
    BY <1>1, <1>2, <1>3, TakenKept
  <1>5. PICK T : T = {}
    OBVIOUS
  <1>6. Emptied(T)
    BY <1>3, <1>5 DEF Emptied
  <1>7. \A c \in Buffers, S \in SUBSET Threads : Backing(S, c)' >= Backing(S, c)
    <2> SUFFICES ASSUME NEW c \in Buffers, NEW S \in SUBSET Threads PROVE Backing(S, c)' >= Backing(S, c)
      OBVIOUS
    <2>1. Backing(S, c)' = Backing(S, c) /\ Backing(S, c) \in Nat
      BY <1>3, RefsFrame, BackingTypes DEF Backing
    <2> QED BY <2>1
  <1>8. AllBacked'
    BY <1>1, <1>2, <1>3, <1>6, <1>7, EmptiedBacked
  <1> QED BY <1>4, <1>8

\* rcCreateColorBuffer keeps them: the new buffer has no calls under way.
LEMMA AllocUse ==
  ASSUME UseInv, NEW t \in Threads, Alloc(t)
  PROVE  Kept' /\ AllBacked'
  <1>1. CountInv /\ TypeOK /\ Fresh /\ Kept /\ AllBacked
    BY DEF UseInv, CountInv
  <1>2. TypeOK' /\ Created(serial + 1)
    BY <1>1, AllocCount DEF CountInv
  <1>3. Kept'
    BY <1>1, CreatedKept
  <1>4. PICK T : T = {}
    OBVIOUS
  <1>5. Emptied(T) /\ lost' = lost
    BY <1>4 DEF Emptied, Alloc, conn
  <1>6. PICK p \in Procs : p = ProcOf[t]
    BY ProcsAssumption
  <1>7. PICK n \in Buffers : n = serial + 1
    BY <1>2 DEF Created
  <1>8. serial \in Int /\ n > serial
    BY <1>1, <1>7 DEF TypeOK
  <1>9. RefsRaised(p, n)
    BY <1>1, <1>6, <1>7, <1>8, AllocRaises DEF Fresh, Unheard
  <1>10. \A c \in Buffers, S \in SUBSET Threads : Backing(S, c)' >= Backing(S, c)
    <2> SUFFICES ASSUME NEW c \in Buffers, NEW S \in SUBSET Threads PROVE Backing(S, c)' >= Backing(S, c)
      OBVIOUS
    <2>1. Backing(S, c) \in Nat
      BY BackingTypes
    <2>2. CASE c = n
      BY <1>1, <1>9, <2>1, <2>2, BackingSteps
    <2>3. CASE c # n
      <3>1. Refs(c)' = Refs(c)
        BY <1>9, <2>3 DEF RefsRaised
      <3>2. Backing(S, c)' = Backing(S, c)
        BY <3>1 DEF Backing
      <3> QED BY <2>1, <3>2
    <2> QED BY <2>2, <2>3
  <1>11. AllBacked'
    BY <1>1, <1>2, <1>5, <1>10, EmptiedBacked
  <1> QED BY <1>3, <1>11

\* With the rule "exit", a thread that ends loses nothing.
LEMMA ExitLosesNothing ==
  ASSUME AllRules \subseteq Rules, TypeOK, NEW t \in Threads, ThreadExits(t)
  PROVE  UNCHANGED <<allocator, held, lost, out, wire>>
  <1>1. out[t] = <<>>
    BY DEF ThreadExits, AllRules
  <1>2. out' = out
    BY <1>1 DEF ThreadExits, TypeOK
  <1>3. ASSUME NEW b \in Buffers PROVE Unsent({t}, b) = 0
    <2>1. ASSUME NEW op
          PROVE  {d \in {t} \X (1 .. MaxOut) : d[2] <= Len(out[d[1]]) /\ out[d[1]][d[2]] = Call(op, b)} = {}
      BY <1>1, BoundsAssumption
    <2>2. ASSUME NEW op
          PROVE  Cardinality({d \in {t} \X (1 .. MaxOut) :
                                d[2] <= Len(out[d[1]]) /\ out[d[1]][d[2]] = Call(op, b)}) = 0
      BY <2>1, FS_EmptySet
    <2>3. /\ Cardinality({d \in {t} \X (1 .. MaxOut) :
                            d[2] <= Len(out[d[1]]) /\ out[d[1]][d[2]] = Call("open", b)}) = 0
          /\ Cardinality({d \in {t} \X (1 .. MaxOut) :
                            d[2] <= Len(out[d[1]]) /\ out[d[1]][d[2]] = Call("close", b)}) = 0
      BY <2>2
    <2> QED BY <2>3 DEF Unsent
  <1>4. lost' = lost
    <2>1. \A b \in Buffers : lost'[b] = lost[b] + 0 /\ lost[b] \in Int
      BY <1>3 DEF ThreadExits, TypeOK
    <2>2. lost' = [b \in Buffers |-> lost'[b]] /\ lost = [b \in Buffers |-> lost[b]]
      BY DEF ThreadExits, TypeOK
    <2>3. \A b \in Buffers : lost'[b] = lost[b]
      BY <2>1
    <2> QED BY <2>2, <2>3
  <1> QED BY <1>2, <1>4 DEF ThreadExits, guest

\* The end of a thread, and of a process.
LEMMA EndUse ==
  ASSUME AllRules \subseteq Rules, UseInv,
         (\E t \in Threads : ThreadExits(t)) \/ (\E p \in Procs : ProcessDies(p))
  PROVE  Kept' /\ AllBacked'
  <1>1. CountInv /\ TypeOK /\ Bounded(Queues) /\ Kept /\ AllBacked
    BY DEF UseInv, CountInv
  <1>2. TypeOK'
    BY <1>1, ThreadExitsCount, ProcessDiesCount DEF CountInv
  <1>3. ASSUME NEW t \in Threads, ThreadExits(t) PROVE Kept' /\ AllBacked'
    <2>1. UNCHANGED <<allocator, held, lost, out, wire>>
      BY <1>1, <1>3, ExitLosesNothing
    <2>2. PICK T : T = {}
      OBVIOUS
    <2>3. Emptied(T) /\ Queues' = Queues
      BY <2>1, <2>2 DEF Emptied, Queues, Undelivered
    <2> QED BY <1>2, <2>1, <2>3, QuietUse
  <1>4. ASSUME NEW p \in Procs, ProcessDies(p) PROVE Kept' /\ AllBacked'
    <2>1. PICK S : S = {t \in Threads \ ended : ProcOf[t] = p}
      OBVIOUS
    <2>2. Ended(S)
      BY <1>4, <2>1 DEF ProcessDies, Ended
    <2>3. ASSUME NEW b \in Buffers
          PROVE  /\ GuestRefs(b)' + lost'[b] = GuestRefs(b) + lost[b] + Unsent(S, b)
                 /\ GuestRefs(b) = 0 => GuestRefs(b)' = 0
      <3>1. lost'[b] = lost[b] + Unsent(S, b) + RefsOf(p, b)
        BY <1>4, <2>1 DEF ProcessDies
      <3>2. Unsent(S, b) \in Int
        BY <1>1, <2>2, EndedTransit
      <3>3. RefsOf(p, b) \in Nat
        BY <1>1, RefsCounted, BoundsAssumption
      <3>4. lost[b] \in Int /\ GuestRefs(b)' \in Nat /\ GuestRefs(b) \in Nat
        BY <1>1, SumTypes DEF TypeOK
      <3>5. GuestRefs(b) = GuestRefs(b)' + RefsOf(p, b)
        BY <1>1, <1>4, ClearedRefs
      <3> QED BY <3>1, <3>2, <3>3, <3>4, <3>5
    <2>4. lost' \in [Buffers -> Int]
      BY <1>2 DEF TypeOK
    <2>5. Kept'
      BY <1>1, <2>2, <2>3, <2>4, EndedKept
    <2>6. AllBacked'
      BY <1>1, <1>2, <1>4, DeathBacked
    <2> QED BY <2>5, <2>6
  <1> QED BY <1>3, <1>4

\* Every step keeps the cuts covered and the opens backed.
LEMMA NextUse ==
  ASSUME AllRules \subseteq Rules, UseInv, [Next]_vars
  PROVE  Kept' /\ AllBacked'
  <1>1. CASE UNCHANGED vars
    BY <1>1, OtherUse
  <1>2. ASSUME NEW t \in Threads, Alloc(t) PROVE Kept' /\ AllBacked'
    BY <1>2, AllocUse
  <1>3. ASSUME NEW t \in Threads, Flush(t) \/ Unlock(t) PROVE Kept' /\ AllBacked'
    BY <1>3, OtherUse
  <1>4. ASSUME NEW t \in Threads, ThreadExits(t) PROVE Kept' /\ AllBacked'
    BY <1>4, EndUse
  <1>5. ASSUME NEW t \in Threads, NEW b \in Buffers,
               \/ Free(t, b) \/ Register(t, b) \/ RegisterFails(t, b)
               \/ Unregister(t, b) \/ Lock(t, b) \/ FbPost(t, b)
        PROVE  Kept' /\ AllBacked'
    <2>1. CASE Free(t, b) \/ Unregister(t, b)
      BY <2>1, ReturnUse
    <2>2. CASE Register(t, b)
      BY <2>2, RegisterUse
    <2>3. CASE RegisterFails(t, b)
      BY <2>3, RegisterFailsUse
    <2>4. CASE Lock(t, b)
      BY <2>4, OtherUse
    <2>5. CASE FbPost(t, b)
      BY <2>5, PostUse
    <2> QED BY <1>5, <2>1, <2>2, <2>3, <2>4, <2>5
  <1>6. ASSUME NEW p \in Procs, ProcessDies(p) PROVE Kept' /\ AllBacked'
    BY <1>6, EndUse
  <1>7. ASSUME NEW t \in Threads, HostExecutes(t) PROVE Kept' /\ AllBacked'
    BY <1>7, HostUse
  <1> QED BY <1>1, <1>2, <1>3, <1>4, <1>5, <1>6, <1>7 DEF Next

\* what the host finds when it executes call e: an open and a close find the
\* buffer in its table
Found(e) ==
    \A b \in Buffers :
        /\ e = Call("open", b) => refcount[b] > 0 /\ refcount'[b] = refcount[b] + 1
        /\ e = Call("close", b) => refcount[b] > 0 /\ refcount'[b] = refcount[b] - 1
        /\ e \notin {Call("open", b), Call("close", b)} => refcount'[b] = refcount[b]

\* The host executes no call in vain, and its count stays exact.
LEMMA ExecutedExact ==
  ASSUME UseInv, TypeOK', Kept', NEW t \in Threads, Taken(t), Executed(Queues[t][1])
  PROVE  Exact' /\ Found(Queues[t][1])
  <1>1. TypeOK /\ Bounded(Queues) /\ Kept /\ Exact
    BY DEF UseInv, CountInv
  <1>2. PICK e \in Calls : e = Queues[t][1]
    BY DEF Executed
  <1>3. e = Call(e.op, e.buffer) /\ e.op \in {"open", "close", "post"} /\ e.buffer \in Buffers
    BY CallIs DEF Ops
  <1>4. Executed(e)
    BY <1>2
  <1>5. ASSUME NEW b \in Buffers
        PROVE  /\ refcount'[b] = HostRefs(b)'
               /\ e = Call("open", b) => refcount[b] > 0 /\ refcount'[b] = refcount[b] + 1
               /\ e = Call("close", b) => refcount[b] > 0 /\ refcount'[b] = refcount[b] - 1
               /\ e \notin {Call("open", b), Call("close", b)} => refcount'[b] = refcount[b]
    <2>1. refcount[b] \in Nat /\ refcount[b] = HostRefs(b) /\ refcount \in [Buffers -> Nat]
      BY <1>1 DEF TypeOK, Exact
    <2>2. HostRefs(b)' \in Int /\ HostRefs(b)' >= 0
      BY WorthNext
    <2>3. HostRefs(b) = 0 => InTransit("open", b) = 0
      BY <1>1, WorthNow
    <2>4. CASE e = Call("open", b)
      <3>1. refcount'[b] = Opened(refcount[b]) /\ HostRefs(b)' = HostRefs(b) + 1
        BY <1>4, <2>1, <2>4, CallIs DEF Executed
      <3>2. InTransit("open", b) = InTransit("open", b)' + 1 /\ InTransit("open", b)' \in Nat
        BY <1>1, <1>2, <2>4, TakenTransit, SumTypes
      <3>3. refcount[b] # 0
        BY <2>1, <2>3, <3>2
      <3>4. Call("open", b) # Call("close", b)
        BY CallIs
      <3> QED BY <2>1, <2>4, <3>1, <3>3, <3>4 DEF Opened
    <2>5. CASE e = Call("close", b)
      <3>1. refcount'[b] = Closed(refcount[b]) /\ HostRefs(b)' = HostRefs(b) - 1
        BY <1>4, <2>1, <2>5, CallIs DEF Executed
      <3>2. refcount[b] # 0
        BY <2>1, <2>2, <3>1
      <3>3. Call("open", b) # Call("close", b)
        BY CallIs
      <3> QED BY <2>1, <2>5, <3>1, <3>2, <3>3 DEF Closed
    <2>6. CASE e \notin {Call("open", b), Call("close", b)}
      <3>1. refcount'[b] = refcount[b]
        BY <1>3, <1>4, <2>1, <2>6 DEF Executed
      <3>2. HostRefs(b)' = HostRefs(b)
        BY <1>4, <2>6 DEF Executed
      <3> QED BY <2>1, <2>6, <3>1, <3>2
    <2> QED BY <2>4, <2>5, <2>6
  <1> QED BY <1>2, <1>5 DEF Exact, Found

\* what the steps do to the host's ledger
Ledger ==
    \/ Balanced
    \/ Created(serial + 1)
    \/ \E t \in Threads : Taken(t) /\ Found(Queues[t][1]) /\ Executed(Queues[t][1])

\* The invariant is inductive.
LEMMA UseStep ==
  ASSUME AllRules \subseteq Rules, UseInv, [Next]_vars
  PROVE  UseInv' /\ Ledger
  <1>1. CountInv /\ TypeOK /\ Exact
    BY DEF UseInv, CountInv
  <1>2. /\ CountInv'
        /\ \/ Balanced
           \/ Created(serial + 1)
           \/ \E t \in Threads : Taken(t) /\ Executed(Queues[t][1])
    BY <1>1, NextCount
  <1>3. Kept' /\ AllBacked' /\ TypeOK'
    BY <1>2, NextUse DEF CountInv
  <1>4. ASSUME Balanced PROVE Exact'
    BY <1>1, <1>4 DEF Balanced, Exact
  <1>5. ASSUME Created(serial + 1) PROVE Exact'
    <2>1. PICK n \in Buffers : n = serial + 1
      BY <1>5 DEF Created
    <2>2. Created(n)
      BY <1>5, <2>1
    <2>3. refcount'[n] = HostRefs(n)' /\ \A b \in Buffers \ {n} : refcount'[b] = HostRefs(b)'
      BY <1>1, <2>2 DEF Created, Exact, TypeOK
    <2> QED BY <2>3 DEF Exact
  <1>6. ASSUME NEW t \in Threads, Taken(t), Executed(Queues[t][1])
        PROVE  Exact' /\ Found(Queues[t][1])
    BY <1>3, <1>6, ExecutedExact
  <1>7. Exact' /\ Ledger
    BY <1>2, <1>4, <1>5, <1>6 DEF Ledger
  <1> QED BY <1>2, <1>3, <1>7 DEF UseInv

\* A buffer that somebody holds exists on the host.
LEMMA UseExists ==
  ASSUME UseInv
  PROVE  HeldBuffersExist
  <1> SUFFICES ASSUME NEW b \in Buffers, GuestRefs(b) > 0 PROVE refcount[b] > 0
    BY DEF HeldBuffersExist
  <1>1. TypeOK /\ Kept /\ refcount[b] = HostRefs(b)
    BY DEF UseInv, CountInv, Exact
  <1>2. HostRefs(b) \in Int /\ HostRefs(b) >= 0 /\ (HostRefs(b) = 0 => GuestRefs(b) = 0)
    BY <1>1, WorthNow
  <1>3. GuestRefs(b) # 0
    BY SumTypes
  <1> QED BY <1>1, <1>2, <1>3

\* The invariant holds for a guest that keeps both rules.
THEOREM UseInvariance ==
  ASSUME AllRules \subseteq Rules
  PROVE  Spec => []UseInv
  <1>1. Init => UseInv
    BY InitUse
  <1>2. UseInv /\ [Next]_vars => UseInv'
    BY UseStep
  <1> QED BY <1>1, <1>2, PTL DEF Spec

\* If the guest waits for its registrations before a buffer is returned by
\* another thread, and threads end only after a flush, then a buffer that some
\* process has allocated or registered exists on the host, with any number of
\* threads, processes, buffers and calls under way, and in whatever order the
\* host's render threads execute them (FrameBuffer.cpp:548-570).
THEOREM HeldBuffersAlwaysExist ==
  ASSUME AllRules \subseteq Rules
  PROVE  Spec => []HeldBuffersExist
  <1>1. UseInv => HeldBuffersExist
    BY UseExists
  <1>2. Spec => []UseInv
    BY UseInvariance
  <1> QED BY <1>1, <1>2, PTL

-----------------------------------------------------------------------------
(* Part 3: the host's table is used as HandleTables specifies it *)

\* processes without a live thread, and what can be lost by their death
Gone == {p \in Procs : \A t \in Threads : ProcOf[t] = p => t \in ended}
HeldOnce(S) == S \X (1 .. MaxHeld + 1)
SentOnce(S) == S \X (1 .. MaxOut)
LossBounded ==
    \A b \in Buffers : lost[b] <= MaxFailed + Cardinality(HeldOnce(Gone)) + Cardinality(SentOnce(ended))

\* The bounds are numbers, which grow with the sets.
LEMMA OnceCounts ==
  /\ \A S \in SUBSET Procs : IsFiniteSet(HeldOnce(S)) /\ Cardinality(HeldOnce(S)) \in Nat
  /\ \A S \in SUBSET Threads : IsFiniteSet(SentOnce(S)) /\ Cardinality(SentOnce(S)) \in Nat
  /\ \A S, T \in SUBSET Procs : S \subseteq T => Cardinality(HeldOnce(S)) <= Cardinality(HeldOnce(T))
  /\ \A S, T \in SUBSET Threads : S \subseteq T => Cardinality(SentOnce(S)) <= Cardinality(SentOnce(T))
  <1>0. IsFiniteSet(1 .. MaxHeld + 1) /\ IsFiniteSet(1 .. MaxOut)
    BY BoundsAssumption, FS_Interval
  <1>1. ASSUME NEW S \in SUBSET Procs
        PROVE  IsFiniteSet(HeldOnce(S)) /\ Cardinality(HeldOnce(S)) \in Nat
    <2>1. IsFiniteSet(S)
      BY FiniteAssumption, FS_Subset
    <2>2. IsFiniteSet(S \X (1 .. MaxHeld + 1))
      BY <1>0, <2>1, FS_Product
    <2> QED BY <2>2, FS_CardinalityType DEF HeldOnce
  <1>2. ASSUME NEW S \in SUBSET Threads
        PROVE  IsFiniteSet(SentOnce(S)) /\ Cardinality(SentOnce(S)) \in Nat
    <2>1. IsFiniteSet(S)
      BY FiniteAssumption, FS_Subset
    <2>2. IsFiniteSet(S \X (1 .. MaxOut))
      BY <1>0, <2>1, FS_Product
    <2> QED BY <2>2, FS_CardinalityType DEF SentOnce
  <1>3. ASSUME NEW S \in SUBSET Procs, NEW T \in SUBSET Procs, S \subseteq T
        PROVE  Cardinality(HeldOnce(S)) <= Cardinality(HeldOnce(T))
    <2>1. HeldOnce(S) \in SUBSET HeldOnce(T)
      BY <1>3 DEF HeldOnce
    <2> QED BY <1>1, <2>1, FS_Subset
  <1>4. ASSUME NEW S \in SUBSET Threads, NEW T \in SUBSET Threads, S \subseteq T
        PROVE  Cardinality(SentOnce(S)) <= Cardinality(SentOnce(T))
    <2>1. SentOnce(S) \in SUBSET SentOnce(T)
      BY <1>4 DEF SentOnce
    <2> QED BY <1>2, <2>1, FS_Subset
  <1> QED BY <1>1, <1>2, <1>3, <1>4

\* Steps that lose nothing, and failed registrations, stay within the bound.
LEMMA LossKept ==
  ASSUME TypeOK, TypeOK', LossBounded, ended \subseteq ended',
         \A b \in Buffers : lost'[b] = lost[b] \/ lost'[b] <= MaxFailed
  PROVE  LossBounded'
  <1> SUFFICES ASSUME NEW b \in Buffers
               PROVE  lost'[b] <= MaxFailed + Cardinality(HeldOnce(Gone')) + Cardinality(SentOnce(ended'))
    BY DEF LossBounded
  <1>1. Gone \in SUBSET Procs /\ Gone' \in SUBSET Procs /\ Gone \subseteq Gone'
    BY DEF Gone
  <1>2. ended \in SUBSET Threads /\ ended' \in SUBSET Threads
    BY DEF TypeOK
  <1>3. /\ Cardinality(HeldOnce(Gone)) <= Cardinality(HeldOnce(Gone'))
        /\ Cardinality(HeldOnce(Gone)) \in Nat /\ Cardinality(HeldOnce(Gone')) \in Nat
    BY <1>1, OnceCounts
  <1>4. /\ Cardinality(SentOnce(ended)) <= Cardinality(SentOnce(ended'))
        /\ Cardinality(SentOnce(ended)) \in Nat /\ Cardinality(SentOnce(ended')) \in Nat
    BY <1>2, OnceCounts
  <1>5. /\ lost[b] <= MaxFailed + Cardinality(HeldOnce(Gone)) + Cardinality(SentOnce(ended))
        /\ lost[b] \in Int /\ lost'[b] \in Int /\ (lost'[b] = lost[b] \/ lost'[b] <= MaxFailed)
    BY DEF LossBounded, TypeOK
  <1> QED BY <1>3, <1>4, <1>5, BoundsAssumption

\* A process dies once, and loses no more than it can hold and have unflushed.
LEMMA LossAtDeath ==
  ASSUME TypeOK, TypeOK', LossBounded, NEW p \in Procs, ProcessDies(p)
  PROVE  LossBounded'
  <1> SUFFICES ASSUME NEW b \in Buffers
               PROVE  lost'[b] <= MaxFailed + Cardinality(HeldOnce(Gone')) + Cardinality(SentOnce(ended'))
    BY DEF LossBounded
  <1>1. PICK T \in SUBSET Threads : T = {t \in Threads \ ended : ProcOf[t] = p}
    OBVIOUS
  <1>2. T # {} /\ ended' = ended \cup T /\ ended \cap T = {}
    BY <1>1 DEF ProcessDies
  <1>3. PICK E \in SUBSET Threads : E = ended
    BY DEF TypeOK
  <1>4. PICK F \in SUBSET Threads : F = ended'
    BY DEF TypeOK
  <1>5. PICK G \in SUBSET Procs : G = Gone
    BY DEF Gone
  <1>6. PICK H \in SUBSET Procs : H = Gone'
    BY DEF Gone
  <1>7. PICK P \in SUBSET Procs : P = {p}
    OBVIOUS
  <1>8. p \notin G /\ G \cup P \subseteq H
    <2>1. p \notin G
      BY <1>1, <1>2, <1>5 DEF Gone
    <2>2. p \in H /\ G \subseteq H
      BY <1>1, <1>2, <1>5, <1>6 DEF Gone
    <2> QED BY <1>7, <2>1, <2>2
  <1>9. Cardinality(SentOnce(F)) = Cardinality(SentOnce(E)) + Cardinality(SentOnce(T))
    <2>1. Parts(SentOnce(F), SentOnce(E), SentOnce(T))
      BY <1>2, <1>3, <1>4 DEF Parts, SentOnce
    <2> QED BY <2>1, OnceCounts, PartsCount
  <1>10. Cardinality(HeldOnce(H)) >= Cardinality(HeldOnce(G)) + Cardinality(HeldOnce(P))
    <2>1. PICK K \in SUBSET Procs : K = G \cup P
      OBVIOUS
    <2>2. Parts(HeldOnce(K), HeldOnce(G), HeldOnce(P))
      BY <1>7, <1>8, <2>1 DEF Parts, HeldOnce
    <2>3. Cardinality(HeldOnce(K)) = Cardinality(HeldOnce(G)) + Cardinality(HeldOnce(P))
      BY <2>2, OnceCounts, PartsCount
    <2>4. Cardinality(HeldOnce(K)) <= Cardinality(HeldOnce(H))
      BY <1>8, <2>1, OnceCounts
    <2>5. Cardinality(HeldOnce(K)) \in Nat /\ Cardinality(HeldOnce(H)) \in Nat
      BY OnceCounts
    <2> QED BY <2>3, <2>4, <2>5
  <1>11. RefsOf(p, b) <= Cardinality(HeldOnce(P)) /\ RefsOf(p, b) \in Int
    <2>1. PICK R \in RefCounts : R = Refs(b)
      BY QueueTypes
    <2>2. R[p] = RefsOf(p, b) /\ R[p] \in Int
      BY <2>1, BoundsAssumption DEF Refs, RefCounts
    <2>3. TokensOf(R, p) \in SUBSET HeldOnce(P)
      BY <1>7 DEF TokensOf, Tokens, HeldOnce
    <2>4. IsFiniteSet(HeldOnce(P))
      BY OnceCounts
    <2>5. Cardinality(TokensOf(R, p)) <= Cardinality(HeldOnce(P))
      BY <2>3, <2>4, FS_Subset
    <2>6. Cardinality(TokensOf(R, p)) = R[p]
      BY TokensOfCount
    <2> QED BY <2>2, <2>5, <2>6
  <1>12. lost'[b] = lost[b] + Unsent(T, b) + RefsOf(p, b)
    BY <1>1 DEF ProcessDies
  <1>13. Unsent(T, b) = Dropped(T, "close", b) - Dropped(T, "open", b)
    <2>1. \A o : {d \in T \X (1 .. MaxOut) : d[2] <= Len(out[d[1]]) /\ out[d[1]][d[2]] = Call(o, b)}
                   = Places(T, out, Call(o, b))
      BY DEF Places
    <2> QED BY <2>1 DEF Unsent, Dropped
  <1>14. /\ Dropped(T, "close", b) <= Cardinality(SentOnce(T))
         /\ Dropped(T, "close", b) \in Nat /\ Dropped(T, "open", b) \in Nat
    BY PlacesFinite DEF Dropped, SentOnce
  <1>15. /\ lost[b] <= MaxFailed + Cardinality(HeldOnce(G)) + Cardinality(SentOnce(E))
         /\ lost[b] \in Int /\ lost'[b] \in Int
    BY <1>3, <1>5 DEF LossBounded, TypeOK
  <1>16. /\ Cardinality(HeldOnce(G)) \in Nat /\ Cardinality(HeldOnce(H)) \in Nat /\ Cardinality(HeldOnce(P)) \in Nat
         /\ Cardinality(SentOnce(E)) \in Nat /\ Cardinality(SentOnce(F)) \in Nat /\ Cardinality(SentOnce(T)) \in Nat
    BY OnceCounts
  <1>17. lost'[b] <= lost[b] + Cardinality(SentOnce(T)) + Cardinality(HeldOnce(P))
    BY <1>11, <1>12, <1>13, <1>14, <1>15, <1>16
  <1>18. lost'[b] <= MaxFailed + Cardinality(HeldOnce(H)) + Cardinality(SentOnce(F))
    BY <1>9, <1>10, <1>15, <1>16, <1>17, BoundsAssumption
  <1> QED BY <1>4, <1>6, <1>18

\* Every step stays within the bound.
LEMMA LossStep ==
  ASSUME AllRules \subseteq Rules, UseInv, LossBounded, [Next]_vars
  PROVE  LossBounded'
  <1>1. TypeOK /\ TypeOK'
    BY UseStep DEF UseInv, CountInv
  <1>2. CASE \E p \in Procs : ProcessDies(p)
    BY <1>1, <1>2, LossAtDeath
  <1>3. ASSUME NEW t \in Threads, NEW b \in Buffers, RegisterFails(t, b) PROVE LossBounded'
    <2>1. lost' = [lost EXCEPT ![b] = @ + 1] /\ lost[b] < MaxFailed /\ ended' = ended
      BY <1>3 DEF RegisterFails
    <2>2. lost \in [Buffers -> Int]
      BY <1>1 DEF TypeOK
    <2>3. \A c \in Buffers : lost'[c] = lost[c] \/ lost'[c] <= MaxFailed
      BY <2>1, <2>2, BoundsAssumption
    <2> QED BY <1>1, <2>1, <2>3, LossKept
  <1>4. ASSUME lost' = lost, ended \subseteq ended' PROVE LossBounded'
    BY <1>1, <1>4, LossKept
  <1>5. ASSUME NEW t \in Threads, ThreadExits(t) PROVE LossBounded'
    <2>1. lost' = lost
      BY <1>1, <1>5, ExitLosesNothing
    <2> QED BY <1>4, <1>5, <2>1 DEF ThreadExits
  <1>6. ASSUME NEW t \in Threads,
               \/ Alloc(t) \/ Flush(t) \/ Unlock(t) \/ HostExecutes(t)
               \/ \E b \in Buffers : Free(t, b) \/ Register(t, b) \/ Unregister(t, b) \/ Lock(t, b) \/ FbPost(t, b)
        PROVE  LossBounded'
    <2>1. lost' = lost /\ ended' = ended
      BY <1>6 DEF Alloc, Flush, Unlock, HostExecutes, Free, Register, Unregister, Lock, FbPost, conn
    <2> QED BY <1>4, <2>1
  <1>7. CASE UNCHANGED vars
    BY <1>4, <1>7 DEF vars, conn
  <1> QED BY <1>2, <1>3, <1>5, <1>6, <1>7 DEF Next

\* the bound of the mapping on the references counted for a buffer
Room == MaxFailed + 2 * Cardinality(Procs \X (1 .. MaxHeld + 1))
                  + 2 * Cardinality(Threads \X (1 .. MaxOut))

\* Before the host executes an open, the count is below the bound.
LEMMA RoomLeft ==
  ASSUME UseInv, LossBounded, NEW b \in Buffers, InTransit("open", b) > 0
  PROVE  HostRefs(b) < Room
  <1>1. TypeOK
    BY DEF UseInv, CountInv
  <1>2. PICK h \in Nat : h = Cardinality(Procs \X (1 .. MaxHeld + 1))
    BY OnceCounts DEF HeldOnce
  <1>3. PICK s \in Nat : s = Cardinality(Threads \X (1 .. MaxOut))
    BY OnceCounts DEF SentOnce
  <1>4. Cardinality(HeldOnce(Gone)) <= h /\ Cardinality(HeldOnce(Gone)) \in Nat
    <2>1. Gone \in SUBSET Procs
      BY DEF Gone
    <2>2. Cardinality(HeldOnce(Gone)) <= Cardinality(HeldOnce(Procs))
      BY <2>1, OnceCounts
    <2> QED BY <1>2, <2>1, <2>2, OnceCounts DEF HeldOnce
  <1>5. Cardinality(SentOnce(ended)) <= s /\ Cardinality(SentOnce(ended)) \in Nat
    <2>1. ended \in SUBSET Threads
      BY <1>1 DEF TypeOK
    <2>2. Cardinality(SentOnce(ended)) <= Cardinality(SentOnce(Threads))
      BY <2>1, OnceCounts
    <2> QED BY <1>3, <2>1, <2>2, OnceCounts DEF SentOnce
  <1>6. lost[b] \in Int /\ lost[b] <= MaxFailed + h + s
    BY <1>1, <1>4, <1>5, BoundsAssumption DEF LossBounded, TypeOK
  <1>7. /\ GuestRefs(b) \in Nat /\ InTransit("open", b) \in Nat /\ InTransit("close", b) \in Nat
        /\ GuestRefs(b) <= h /\ InTransit("close", b) <= s
    BY <1>2, <1>3, SumTypes
  <1>8. Room = MaxFailed + 2 * h + 2 * s
    BY <1>2, <1>3 DEF Room
  <1>9. HostRefs(b) = GuestRefs(b) + InTransit("close", b) - InTransit("open", b) + lost[b]
    BY DEF HostRefs
  <1> QED BY <1>6, <1>7, <1>8, <1>9, BoundsAssumption

\* what the variables of HandleTables are mapped to
TableOf == [h \in 0 .. MaxBuffers |->
               IF h > 0 /\ h <= serial /\ refcount[h] > 0 THEN h ELSE 0]
CountOf == [h \in 0 .. MaxBuffers |-> IF h > 0 THEN refcount[h] ELSE 0]
KindOf == [s \in Buffers |-> IF s <= serial THEN "colorbuffer" ELSE "none"]
NumberOf == [s \in Buffers |-> IF s <= serial THEN s ELSE 0]
RefsCountedFor == [s \in Buffers |-> HostRefs(s)]
Nothing == [h \in 0 .. MaxBuffers |-> 0]

\* A step that leaves the ledger and the serial number alone is a stutter there.
LEMMA BalancedStutters ==
  ASSUME TypeOK, Balanced, serial' = serial
  PROVE  UNCHANGED Tables!vars
  <1>1. refcount' = refcount /\ \A b \in Buffers : HostRefs(b)' = HostRefs(b)
    BY DEF Balanced
  <1>2. TableOf' = TableOf /\ CountOf' = CountOf /\ KindOf' = KindOf /\ NumberOf' = NumberOf
    BY <1>1 DEF TableOf, CountOf, KindOf, NumberOf
  <1>3. RefsCountedFor' = RefsCountedFor
    BY <1>1, Zenon DEF RefsCountedFor
  <1> QED BY <1>2, <1>3, Zenon DEF Tables!vars, TableOf, CountOf, KindOf, NumberOf, RefsCountedFor

\* rcCreateColorBuffer issues the next handle, which genHandle finds at once.
LEMMA CreatedIssues ==
  ASSUME TypeOK, TypeOK', NEW n \in Buffers, Created(n)
  PROVE  n \in Tables!Handles /\ Tables!CreateColorBuffer(n)
  <1>1. /\ serial' = n /\ serial + 1 = n /\ serial \in 0 .. MaxBuffers /\ n \in 1 .. MaxBuffers
        /\ refcount' = [refcount EXCEPT ![n] = 1] /\ refcount \in [Buffers -> Nat]
        /\ HostRefs(n)' = 1 /\ \A b \in Buffers \ {n} : HostRefs(b)' = HostRefs(b)
    BY DEF Created, TypeOK, Buffers
  <1>2. n \in 0 .. MaxBuffers /\ n \in Int /\ n > 0 /\ serial < MaxBuffers /\ serial \in Int
    BY <1>1, BoundsAssumption
  <1>3. Tables!Handles = 0 .. MaxBuffers
    BY BoundsAssumption DEF Tables!Handles
  <1>4. Tables!GenHandle(n)
    <2>1. n = (serial + 1) % (MaxBuffers + 1)
      BY <1>1, BoundsAssumption
    <2>2. Tables!Free(n)
      BY <1>2 DEF Tables!Free
    <2>3. \A j \in 1 .. 1 - 1 : ~Tables!Free((serial + j) % (MaxBuffers + 1))
      OBVIOUS
    <2>4. 1 \in 1 .. MaxBuffers + 1
      BY BoundsAssumption
    <2> QED BY <2>1, <2>2, <2>3, <2>4, Zenon DEF Tables!GenHandle
  <1>5. TableOf' = [TableOf EXCEPT ![n] = serial + 1]
    <2>1. \A x \in 0 .. MaxBuffers : TableOf'[x] = IF x = n THEN serial + 1 ELSE TableOf[x]
      <3> SUFFICES ASSUME NEW x \in 0 .. MaxBuffers
                   PROVE  /\ x = n => TableOf'[x] = serial + 1
                          /\ x # n => TableOf'[x] = TableOf[x]
        OBVIOUS
      <3>1. x \in Int
        BY DEF Buffers
      <3>2. x > 0 /\ x <= MaxBuffers => x \in Buffers
        BY <3>1, BoundsAssumption DEF Buffers
      <3> QED BY <1>1, <1>2, <3>1, <3>2 DEF TableOf
    <2>2. /\ TableOf = [x \in 0 .. MaxBuffers |-> TableOf[x]]
          /\ TableOf' = [x \in 0 .. MaxBuffers |-> TableOf'[x]]
      BY DEF TableOf
    <2> QED BY <1>1, <1>2, <2>1, <2>2
  <1>6. CountOf' = [CountOf EXCEPT ![n] = 1]
    <2>1. \A x \in 0 .. MaxBuffers : CountOf'[x] = IF x = n THEN 1 ELSE CountOf[x]
      <3> SUFFICES ASSUME NEW x \in 0 .. MaxBuffers
                   PROVE  /\ x = n => CountOf'[x] = 1
                          /\ x # n => CountOf'[x] = CountOf[x]
        OBVIOUS
      <3>1. x \in Int
        BY DEF Buffers
      <3>2. x > 0 /\ x <= MaxBuffers => x \in Buffers
        BY <3>1, BoundsAssumption DEF Buffers
      <3> QED BY <1>1, <1>2, <3>1, <3>2 DEF CountOf
    <2>2. /\ CountOf = [x \in 0 .. MaxBuffers |-> CountOf[x]]
          /\ CountOf' = [x \in 0 .. MaxBuffers |-> CountOf'[x]]
      BY DEF CountOf
    <2> QED BY <1>1, <1>2, <2>1, <2>2
  <1>7. KindOf' = [KindOf EXCEPT ![serial + 1] = "colorbuffer"]
    <2>1. \A x \in Buffers : KindOf'[x] = IF x = n THEN "colorbuffer" ELSE KindOf[x]
      <3> SUFFICES ASSUME NEW x \in Buffers
                   PROVE  /\ x = n => KindOf'[x] = "colorbuffer"
                          /\ x # n => KindOf'[x] = KindOf[x]
        OBVIOUS
      <3>1. x \in Int
        BY DEF Buffers
      <3>2. x > 0 /\ x <= MaxBuffers => x \in Buffers
        BY <3>1, BoundsAssumption DEF Buffers
      <3> QED BY <1>1, <1>2, <3>1, <3>2 DEF KindOf
    <2>2. /\ KindOf = [x \in Buffers |-> KindOf[x]]
          /\ KindOf' = [x \in Buffers |-> KindOf'[x]]
      BY DEF KindOf
    <2> QED BY <1>1, <1>2, <2>1, <2>2
  <1>8. NumberOf' = [NumberOf EXCEPT ![serial + 1] = n]
    <2>1. \A x \in Buffers : NumberOf'[x] = IF x = n THEN n ELSE NumberOf[x]
      <3> SUFFICES ASSUME NEW x \in Buffers
                   PROVE  /\ x = n => NumberOf'[x] = n
                          /\ x # n => NumberOf'[x] = NumberOf[x]
        OBVIOUS
      <3>1. x \in Int
        BY DEF Buffers
      <3>2. x > 0 /\ x <= MaxBuffers => x \in Buffers
        BY <3>1, BoundsAssumption DEF Buffers
      <3> QED BY <1>1, <1>2, <3>1, <3>2 DEF NumberOf
    <2>2. /\ NumberOf = [x \in Buffers |-> NumberOf[x]]
          /\ NumberOf' = [x \in Buffers |-> NumberOf'[x]]
      BY DEF NumberOf
    <2> QED BY <1>1, <1>2, <2>1, <2>2
  <1>9. RefsCountedFor' = [RefsCountedFor EXCEPT ![serial + 1] = 1]
    <2>1. \A b \in Buffers : RefsCountedFor'[b] = IF b = n THEN 1 ELSE RefsCountedFor[b]
      BY <1>1 DEF RefsCountedFor
    <2>2. /\ RefsCountedFor = [b \in Buffers |-> RefsCountedFor[b]]
          /\ RefsCountedFor' = [b \in Buffers |-> RefsCountedFor'[b]]
      BY DEF RefsCountedFor
    <2> QED BY <1>1, <2>1, <2>2
  <1>10. ~(n <= serial)
    BY <1>1, <1>2
  <1>11. Tables!Issue("colorbuffer", n)
    BY <1>1, <1>2, <1>4, <1>7, <1>8, <1>9, <1>10, Zenon
    DEF Tables!Issue, KindOf, NumberOf, RefsCountedFor
  <1> QED BY <1>2, <1>3, <1>5, <1>6, <1>11, Zenon DEF Tables!CreateColorBuffer, TableOf, CountOf

\* the host's count of b goes to m, and nothing else of the ledger changes
Counted(b, m) ==
    /\ b <= serial /\ serial' = serial /\ refcount[b] > 0 /\ m \in Nat
    /\ refcount' = [refcount EXCEPT ![b] = m]
    /\ HostRefs(b)' = m /\ \A c \in Buffers \ {b} : HostRefs(c)' = HostRefs(c)
    /\ HostRefs(b) = refcount[b]

\* How the mapped variables change with the count of one buffer.
LEMMA CountedMaps ==
  ASSUME TypeOK, NEW b \in Buffers, NEW m, Counted(b, m)
  PROVE  /\ b \in Tables!Serials
         /\ NumberOf[b] = b /\ KindOf[b] = "colorbuffer"
         /\ TableOf[b] = b /\ b # 0 /\ CountOf[b] = refcount[b] /\ RefsCountedFor[b] = refcount[b]
         /\ CountOf' = [CountOf EXCEPT ![b] = m]
         /\ RefsCountedFor' = [RefsCountedFor EXCEPT ![b] = m]
         /\ TableOf' = IF m = 0 THEN [TableOf EXCEPT ![b] = 0] ELSE TableOf
         /\ NumberOf' = NumberOf /\ KindOf' = KindOf
  <1>1. /\ b \in Int /\ b > 0 /\ b <= MaxBuffers /\ b \in 0 .. MaxBuffers /\ serial \in Int
        /\ refcount \in [Buffers -> Nat]
    BY BoundsAssumption DEF TypeOK, Buffers
  <1>2. /\ b <= serial /\ serial' = serial /\ refcount[b] > 0 /\ m \in Nat
        /\ refcount' = [refcount EXCEPT ![b] = m]
    BY DEF Counted
  <1>3. b \in Tables!Serials
    BY DEF Tables!Serials, Buffers
  <1>4. NumberOf[b] = b /\ KindOf[b] = "colorbuffer" /\ NumberOf' = NumberOf /\ KindOf' = KindOf
    BY <1>1, <1>2 DEF NumberOf, KindOf
  <1>5. TableOf[b] = b /\ CountOf[b] = refcount[b]
    BY <1>1, <1>2 DEF TableOf, CountOf
  <1>6. CountOf' = [CountOf EXCEPT ![b] = m]
    <2>1. \A x \in 0 .. MaxBuffers : CountOf'[x] = IF x = b THEN m ELSE CountOf[x]
      <3> SUFFICES ASSUME NEW x \in 0 .. MaxBuffers
                   PROVE  /\ x = b => CountOf'[x] = m
                          /\ x # b => CountOf'[x] = CountOf[x]
        OBVIOUS
      <3>1. x \in Int
        BY DEF Buffers
      <3>2. x > 0 /\ x <= MaxBuffers => x \in Buffers
        BY <3>1, BoundsAssumption DEF Buffers
      <3> QED BY <1>1, <1>2, <3>1, <3>2 DEF CountOf
    <2>2. /\ CountOf = [x \in 0 .. MaxBuffers |-> CountOf[x]]
          /\ CountOf' = [x \in 0 .. MaxBuffers |-> CountOf'[x]]
      BY DEF CountOf
    <2> QED BY <1>1, <1>2, <2>1, <2>2
  <1>7. TableOf' = IF m = 0 THEN [TableOf EXCEPT ![b] = 0] ELSE TableOf
    <2>1. ASSUME m = 0 PROVE TableOf' = [TableOf EXCEPT ![b] = 0]
      <3>1. \A x \in 0 .. MaxBuffers : TableOf'[x] = IF x = b THEN 0 ELSE TableOf[x]
        <4> SUFFICES ASSUME NEW x \in 0 .. MaxBuffers
                     PROVE  /\ x = b => TableOf'[x] = 0
                            /\ x # b => TableOf'[x] = TableOf[x]
          OBVIOUS
        <4>1. x \in Int /\ (x > 0 => x \in Buffers)
          BY BoundsAssumption DEF Buffers
        <4> QED BY <1>1, <1>2, <2>1, <4>1 DEF TableOf
      <3>2. /\ TableOf = [x \in 0 .. MaxBuffers |-> TableOf[x]]
            /\ TableOf' = [x \in 0 .. MaxBuffers |-> TableOf'[x]]
        BY DEF TableOf
      <3> QED BY <1>1, <3>1, <3>2
    <2>2. CASE m # 0
      BY <1>1, <1>2, <2>2, BoundsAssumption DEF TableOf, Buffers
    <2> QED BY <2>1, <2>2
  <1>8. RefsCountedFor' = [RefsCountedFor EXCEPT ![b] = m] /\ RefsCountedFor[b] = refcount[b]
    <2>1. \A c \in Buffers : RefsCountedFor'[c] = IF c = b THEN m ELSE RefsCountedFor[c]
      BY DEF RefsCountedFor, Counted
    <2>2. /\ RefsCountedFor = [c \in Buffers |-> RefsCountedFor[c]]
          /\ RefsCountedFor' = [c \in Buffers |-> RefsCountedFor'[c]]
      BY DEF RefsCountedFor
    <2>3. RefsCountedFor[b] = refcount[b]
      BY DEF RefsCountedFor, Counted
    <2> QED BY <2>1, <2>2, <2>3
  <1> QED BY <1>1, <1>3, <1>4, <1>5, <1>6, <1>7, <1>8

\* openColorBuffer of a buffer whose count has room.
LEMMA OpenedMaps ==
  ASSUME TypeOK, NEW b \in Buffers, Counted(b, refcount[b] + 1), refcount[b] < Room
  PROVE  b \in Tables!Serials /\ Tables!OpenColorBuffer(b)
  <1>1. PICK m : m = refcount[b] + 1
    OBVIOUS
  <1>2. Counted(b, m)
    BY <1>1
  <1>3. /\ b \in Tables!Serials
        /\ NumberOf[b] = b /\ KindOf[b] = "colorbuffer"
        /\ TableOf[b] = b /\ b # 0 /\ CountOf[b] = refcount[b] /\ RefsCountedFor[b] = refcount[b]
        /\ CountOf' = [CountOf EXCEPT ![b] = m]
        /\ RefsCountedFor' = [RefsCountedFor EXCEPT ![b] = m]
        /\ TableOf' = IF m = 0 THEN [TableOf EXCEPT ![b] = 0] ELSE TableOf
        /\ NumberOf' = NumberOf /\ KindOf' = KindOf
    BY <1>2, CountedMaps
  <1>4. refcount[b] \in Nat /\ refcount[b] > 0 /\ serial' = serial /\ m # 0
    BY <1>1, <1>2 DEF TypeOK, Counted
  <1>5. TableOf' = TableOf
    BY <1>3, <1>4
  <1>6. RefsCountedFor' = [RefsCountedFor EXCEPT ![b] = RefsCountedFor[b] + 1]
    BY <1>1, <1>3
  <1>7. CountOf' = IF TableOf[NumberOf[b]] = 0 THEN CountOf
                   ELSE [CountOf EXCEPT ![NumberOf[b]] = CountOf[NumberOf[b]] + 1]
    BY <1>1, <1>3
  <1>8. RefsCountedFor[b] > 0 /\ RefsCountedFor[b] < Room /\ CountOf[NumberOf[b]] < Room
    BY <1>3, <1>4
  <1>9. Nothing' = Nothing
    BY DEF Nothing
  <1> QED BY <1>3, <1>4, <1>5, <1>6, <1>7, <1>8, <1>9, Zenon
          DEF Tables!OpenColorBuffer, Tables!objects, TableOf, CountOf, KindOf, NumberOf,
              RefsCountedFor, Nothing, Room

\* closeColorBuffer of a buffer that exists.
LEMMA ClosedMaps ==
  ASSUME TypeOK, NEW b \in Buffers, Counted(b, refcount[b] - 1)
  PROVE  b \in Tables!Serials /\ Tables!CloseColorBuffer(b)
  <1>1. PICK m : m = refcount[b] - 1
    OBVIOUS
  <1>2. Counted(b, m)
    BY <1>1
  <1>3. /\ b \in Tables!Serials
        /\ NumberOf[b] = b /\ KindOf[b] = "colorbuffer"
        /\ TableOf[b] = b /\ b # 0 /\ CountOf[b] = refcount[b] /\ RefsCountedFor[b] = refcount[b]
        /\ CountOf' = [CountOf EXCEPT ![b] = m]
        /\ RefsCountedFor' = [RefsCountedFor EXCEPT ![b] = m]
        /\ TableOf' = IF m = 0 THEN [TableOf EXCEPT ![b] = 0] ELSE TableOf
        /\ NumberOf' = NumberOf /\ KindOf' = KindOf
    BY <1>2, CountedMaps
  <1>4. refcount[b] \in Nat /\ refcount[b] > 0 /\ serial' = serial
    BY <1>2 DEF TypeOK, Counted
  <1>5. TableOf' = IF CountOf[NumberOf[b]] = 1 THEN [TableOf EXCEPT ![NumberOf[b]] = 0] ELSE TableOf
    BY <1>1, <1>3, <1>4
  <1>6. RefsCountedFor' = [RefsCountedFor EXCEPT ![b] = RefsCountedFor[b] - 1]
    BY <1>1, <1>3
  <1>7. /\ TableOf[NumberOf[b]] # 0
        /\ CountOf' = [CountOf EXCEPT ![NumberOf[b]] = CountOf[NumberOf[b]] - 1]
    BY <1>1, <1>3
  <1>8. RefsCountedFor[b] > 0
    BY <1>3, <1>4
  <1>9. Nothing' = Nothing
    BY DEF Nothing
  <1> QED BY <1>3, <1>4, <1>5, <1>6, <1>7, <1>8, <1>9, Zenon
          DEF Tables!CloseColorBuffer, Tables!objects, TableOf, CountOf, KindOf, NumberOf,
              RefsCountedFor, Nothing

\* What the host executes is an open or a close of the table, or a stutter.
LEMMA ExecutedMaps ==
  ASSUME UseInv, LossBounded, serial' = serial, TypeOK',
         NEW t \in Threads, Taken(t), Found(Queues[t][1]), Executed(Queues[t][1])
  PROVE  \/ UNCHANGED Tables!vars
         \/ \E b \in Tables!Serials : Tables!OpenColorBuffer(b) \/ Tables!CloseColorBuffer(b)
  <1>1. TypeOK /\ Bounded(Queues) /\ Fresh /\ Exact
    BY DEF UseInv, CountInv
  <1>2. PICK e \in Calls : e = Queues[t][1]
    BY DEF Executed
  <1>3. PICK b \in Buffers : e = Call(e.op, b) /\ e.op \in {"open", "close", "post"} /\ b = e.buffer
    BY CallIs DEF Ops
  <1>4. Executed(e) /\ Found(e)
    BY <1>2
  <1>5. /\ refcount \in [Buffers -> Nat] /\ refcount' \in [Buffers -> Nat]
        /\ refcount[b] = HostRefs(b) /\ serial \in Int /\ b \in Int
    BY <1>1 DEF TypeOK, Exact, Buffers
  <1>6. ASSUME NEW m, refcount'[b] = m, refcount[b] > 0, HostRefs(b)' = m, e.op # "post"
        PROVE  Counted(b, m)
    <2>1. m \in Nat
      BY <1>5, <1>6
    <2>2. b <= serial
      BY <1>1, <1>5, <1>6 DEF Fresh, Unheard
    <2>3. \A c \in Buffers \ {b} : e \notin {Call("open", c), Call("close", c)}
      BY <1>3, CallIs
    <2>4. \A c \in Buffers \ {b} : refcount'[c] = refcount[c] /\ HostRefs(c)' = HostRefs(c)
      BY <1>4, <2>3 DEF Executed, Found
    <2>5. refcount' = [refcount EXCEPT ![b] = m]
      BY <1>5, <1>6, <2>4
    <2> QED BY <1>5, <1>6, <2>1, <2>2, <2>4, <2>5 DEF Counted
  <1>7. CASE e.op = "open"
    <2>1. e = Call("open", b)
      BY <1>3, <1>7
    <2>2. refcount[b] > 0 /\ refcount'[b] = refcount[b] + 1 /\ HostRefs(b)' = HostRefs(b) + 1
      BY <1>4, <2>1 DEF Executed, Found
    <2>3. Counted(b, refcount[b] + 1)
      BY <1>5, <1>6, <1>7, <2>2
    <2>4. InTransit("open", b) > 0
      <3>1. InTransit("open", b) = InTransit("open", b)' + 1 /\ InTransit("open", b)' \in Nat
        BY <1>1, <1>2, <2>1, TakenTransit, SumTypes
      <3> QED BY <3>1
    <2>5. refcount[b] < Room
      BY <1>5, <2>4, RoomLeft
    <2> QED BY <1>1, <2>3, <2>5, OpenedMaps
  <1>8. CASE e.op = "close"
    <2>1. e = Call("close", b)
      BY <1>3, <1>8
    <2>2. refcount[b] > 0 /\ refcount'[b] = refcount[b] - 1 /\ HostRefs(b)' = HostRefs(b) - 1
      BY <1>4, <2>1 DEF Executed, Found
    <2>3. Counted(b, refcount[b] - 1)
      BY <1>5, <1>6, <1>8, <2>2
    <2> QED BY <1>1, <2>3, ClosedMaps
  <1>9. CASE e.op = "post"
    <2>1. \A c \in Buffers : e \notin {Call("open", c), Call("close", c)}
      BY <1>3, <1>9, CallIs
    <2>2. Balanced
      BY <1>4, <1>9, <2>1 DEF Executed, Balanced
    <2> QED BY <1>1, <2>2, BalancedStutters
  <1> QED BY <1>3, <1>7, <1>8, <1>9

\* Only an allocation changes the serial number.
LEMMA SerialSteps ==
  ASSUME [Next]_vars
  PROVE  serial' = serial \/ \E t \in Threads : Alloc(t)
  BY DEF Next, vars, guest, Flush, Unlock, ThreadExits, Free, Register, RegisterFails,
         Unregister, Lock, FbPost, ProcessDies, HostExecutes

\* The initial state of the table, and of the bound on losses.
LEMMA InitMaps ==
  ASSUME Init
  PROVE  Tables!Init /\ LossBounded
  <1>1. /\ serial = 0 /\ refcount = [b \in Buffers |-> 0]
        /\ lost = [b \in Buffers |-> 0] /\ ended = {}
    BY DEF Init
  <1>2. UseInv
    BY InitUse
  <1>3. \A b \in Buffers : HostRefs(b) = 0
    BY <1>1, <1>2 DEF UseInv, Exact
  <1>4. Tables!Handles = 0 .. MaxBuffers /\ Tables!Serials = Buffers
    BY BoundsAssumption DEF Tables!Handles, Tables!Serials, Buffers
  <1>5. /\ TableOf = [h \in Tables!Handles |-> 0] /\ CountOf = [h \in Tables!Handles |-> 0]
        /\ Nothing = [h \in Tables!Handles |-> 0]
    BY <1>1, <1>4, BoundsAssumption DEF TableOf, CountOf, Nothing, Buffers
  <1>6. KindOf = [s \in Tables!Serials |-> "none"] /\ NumberOf = [s \in Tables!Serials |-> 0]
    BY <1>1, <1>4, BoundsAssumption DEF KindOf, NumberOf, Buffers
  <1>7. RefsCountedFor = [s \in Tables!Serials |-> 0]
    BY <1>3, <1>4 DEF RefsCountedFor
  <1>8. Tables!Init
    BY <1>1, <1>5, <1>6, <1>7, Zenon
    DEF Tables!Init, TableOf, CountOf, Nothing, KindOf, NumberOf, RefsCountedFor
  <1>9. LossBounded
    <2>1. Gone \in SUBSET Procs /\ ended \in SUBSET Threads
      BY <1>1 DEF Gone
    <2>2. Cardinality(HeldOnce(Gone)) \in Nat /\ Cardinality(SentOnce(ended)) \in Nat
      BY <2>1, OnceCounts
    <2> QED BY <1>1, <2>2, BoundsAssumption DEF LossBounded
  <1> QED BY <1>8, <1>9

\* Every step is a step of the table or a stutter.
LEMMA StepMaps ==
  ASSUME AllRules \subseteq Rules, UseInv, LossBounded, [Next]_vars
  PROVE  [Tables!Next]_(Tables!vars)
  <1>1. UseInv' /\ Ledger /\ TypeOK /\ TypeOK' /\ CountInv
    BY UseStep DEF UseInv, CountInv
  <1>2. ASSUME NEW t \in Threads, Alloc(t) PROVE Tables!Next
    <2>1. Created(serial + 1)
      BY <1>1, <1>2, AllocCount
    <2>2. PICK n \in Buffers : n = serial + 1
      BY <2>1 DEF Created
    <2>3. n \in Tables!Handles /\ Tables!CreateColorBuffer(n)
      BY <1>1, <2>1, <2>2, CreatedIssues
    <2> QED BY <2>3, Zenon DEF Tables!Next
  <1>3. ASSUME serial' = serial PROVE Tables!Next \/ UNCHANGED Tables!vars
    <2>1. CASE Balanced
      BY <1>1, <1>3, <2>1, BalancedStutters
    <2>2. CASE Created(serial + 1)
      <3>1. PICK n \in Buffers : n = serial + 1
        BY <2>2 DEF Created
      <3> QED BY <1>3, <2>2, <3>1 DEF Created, Buffers
    <2>3. CASE \E t \in Threads : Taken(t) /\ Found(Queues[t][1]) /\ Executed(Queues[t][1])
      <3>1. \/ UNCHANGED Tables!vars
            \/ \E b \in Tables!Serials : Tables!OpenColorBuffer(b) \/ Tables!CloseColorBuffer(b)
        BY <1>1, <1>3, <2>3, ExecutedMaps
      <3> QED BY <3>1, Zenon DEF Tables!Next
    <2> QED BY <1>1, <2>1, <2>2, <2>3 DEF Ledger
  <1> QED BY <1>2, <1>3, SerialSteps

\* A guest that keeps both rules uses the host's color buffer table as
\* HandleTables specifies it, over any number of connections: each open comes
\* while a reference is counted, each close returns one, and both find the
\* buffer (FrameBuffer.cpp:548-570).
THEOREM TablesRefinement ==
  ASSUME AllRules \subseteq Rules
  PROVE  Spec => ImplementsHandleTables
  <1>1. Init => UseInv /\ LossBounded /\ Tables!Init
    BY InitUse, InitMaps
  <1>2. UseInv /\ LossBounded /\ [Next]_vars
          => UseInv' /\ LossBounded' /\ [Tables!Next]_(Tables!vars)
    BY UseStep, LossStep, StepMaps
  <1> QED BY <1>1, <1>2, PTL DEF Spec, ImplementsHandleTables, Tables!Spec
=============================================================================
