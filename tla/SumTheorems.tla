---------------------------- MODULE SumTheorems ----------------------------
(***************************************************************************)
(* Facts about SumFunction of the community modules: the sum of the values *)
(* of a function with a finite domain.  The models use it to count frames, *)
(* buffers and bytes, one ring, burst or row at a time.                    *)
(*                                                                         *)
(* The sum is defined by recursion on the set of arguments.  Everything    *)
(* here follows from one fact, that a non-empty set of subsets of a finite *)
(* set has a minimal element, used to refute a minimal counterexample.     *)
(***************************************************************************)
EXTENDS FiniteSetsExt, FiniteSetTheorems, SequenceTheorems, TLAPS

\* The argument that the recursion takes out of s.
Pick(s) == CHOOSE x \in s : TRUE

\* g is the sum of f over each subset of S.
SumsOf(g, f, S) ==
  g = [s \in SUBSET S |-> IF s = {} THEN 0 ELSE f[Pick(s)] + g[s \ {Pick(s)}]]

Sums(f, S) == CHOOSE g : SumsOf(g, f, S)

\* The community modules sum with a recursive operator; the sum of all of S is
\* the last value of that recursion.
LEMMA SumIsSums ==
  ASSUME NEW f, NEW S
  PROVE  SumFunctionOnSet(f, S) = Sums(f, S)[S]
  BY DEF SumFunctionOnSet, FoldFunctionOnSet, MapThenFoldSet, Sums, SumsOf, Pick

\* A set of subsets of a finite set has a minimal element.
LEMMA MinimalSubset ==
  ASSUME NEW S, IsFiniteSet(S), NEW B \in SUBSET SUBSET S, B # {}
  PROVE  \E U \in B : \A V \in B : V \subseteq U => V = U
<1>1. IsWellFoundedOn(StrictSubsetOrdering(S), SUBSET S)
  BY FS_StrictSubsetOrderingWellFounded, FS_FiniteSubsetsOfFinite
<1>2. PICK U \in B : \A V \in B : ~(<<V, U>> \in StrictSubsetOrdering(S))
  BY <1>1, WFMin
<1> QED
  BY <1>2 DEF StrictSubsetOrdering

\* Two functions that satisfy the recursion agree where both are defined.
LEMMA SumsAgree ==
  ASSUME NEW f, NEW S, NEW T, NEW g, NEW h, SumsOf(g, f, S), SumsOf(h, f, T),
         NEW U, U \subseteq S, U \subseteq T, IsFiniteSet(U)
  PROVE  g[U] = h[U]
<1> DEFINE B == {V \in SUBSET U : g[V] # h[V]}
<1>1. SUFFICES ASSUME B # {} PROVE FALSE
  OBVIOUS
<1>2. PICK V \in B : \A W \in B : W \subseteq V => W = V
  <2>1. B \in SUBSET SUBSET U
    OBVIOUS
  <2> HIDE DEF B
  <2> QED
    BY <1>1, <2>1, MinimalSubset
<1>3. V \in SUBSET U /\ g[V] # h[V]
  BY <1>2
<1>4. CASE V = {}
  BY <1>3, <1>4 DEF SumsOf
<1>5. CASE V # {}
  <2> DEFINE x == Pick(V)
  <2>1. x \in V
    BY <1>5 DEF Pick
  <2>2. g[V \ {x}] = h[V \ {x}]
    BY <1>2, <1>3, <2>1
  <2>3. g[V] = f[x] + g[V \ {x}] /\ h[V] = f[x] + h[V \ {x}]
    BY <1>3, <1>5 DEF SumsOf
  <2> QED
    BY <1>3, <2>2, <2>3
<1> QED
  BY <1>4, <1>5

\* The recursion has a solution.
LEMMA SumsExist ==
  ASSUME NEW f, NEW S, IsFiniteSet(S)
  PROVE  SumsOf(Sums(f, S), f, S)
<1> DEFINE B == {T \in SUBSET S : ~ \E g : SumsOf(g, f, T)}
<1>1. SUFFICES B = {}
  BY DEF Sums
<1>2. SUFFICES ASSUME NEW T \in B, \A V \in B : V \subseteq T => V = T PROVE FALSE
  <2>1. B \in SUBSET SUBSET S
    OBVIOUS
  <2> HIDE DEF B
  <2> QED
    BY <2>1, MinimalSubset
<1>3. T \in SUBSET S /\ IsFiniteSet(T)
  BY FS_Subset
<1> DEFINE part(U) == Sums(f, U)
           G == [U \in SUBSET T |->
                   IF U = {} THEN 0 ELSE f[Pick(U)] + part(U \ {Pick(U)})[U \ {Pick(U)}]]
<1>4. ASSUME NEW U, U \subseteq T, U # T PROVE SumsOf(part(U), f, U) /\ IsFiniteSet(U)
  <2>1. U \in SUBSET S /\ U \notin B
    BY <1>2, <1>3, <1>4
  <2> QED
    BY <1>3, <1>4, <2>1, FS_Subset DEF Sums
<1> HIDE DEF part
<1>5. ASSUME NEW U, U \subseteq T, U # {} PROVE G[U \ {Pick(U)}] = part(U \ {Pick(U)})[U \ {Pick(U)}]
  <2> DEFINE V == U \ {Pick(U)}
             W == V \ {Pick(V)}
  <2>1. Pick(U) \in U
    BY <1>5 DEF Pick
  <2>2. V \subseteq T /\ V # T /\ W \subseteq T /\ W # T /\ W \subseteq V
    BY <1>5, <2>1
  <2>3. SumsOf(part(V), f, V) /\ SumsOf(part(W), f, W) /\ IsFiniteSet(W)
    BY <1>4, <2>2
  <2>4. part(V)[W] = part(W)[W]
    <3> HIDE DEF V, W
    <3> QED
      BY <2>2, <2>3, SumsAgree
  <2>5. part(V)[V] = IF V = {} THEN 0 ELSE f[Pick(V)] + part(V)[W]
    BY <2>3 DEF SumsOf
  <2>6. G[V] = IF V = {} THEN 0 ELSE f[Pick(V)] + part(W)[W]
    BY <2>2
  <2> QED
    BY <2>4, <2>5, <2>6
<1>6. SumsOf(G, f, T)
  <2>1. ASSUME NEW U \in SUBSET T
        PROVE  G[U] = IF U = {} THEN 0 ELSE f[Pick(U)] + G[U \ {Pick(U)}]
    BY <1>5
  <2> HIDE DEF G
  <2>2. G = [U \in SUBSET T |-> IF U = {} THEN 0 ELSE f[Pick(U)] + G[U \ {Pick(U)}]]
    <3>1. G = [U \in SUBSET T |-> G[U]]
      BY DEF G
    <3> QED
      BY <2>1, <3>1
  <2> QED
    BY <2>2 DEF SumsOf
<1> QED
  BY <1>2, <1>6

-----------------------------------------------------------------------------
\* The sum over a finite set of naturals, one subset at a time.
LEMMA SumsStep ==
  ASSUME NEW f, NEW S, IsFiniteSet(S), NEW T, T \subseteq S
  PROVE  /\ Sums(f, S)[T] = SumFunctionOnSet(f, T)
         /\ T = {} => Sums(f, S)[T] = 0
         /\ T # {} => /\ Pick(T) \in T
                     /\ Sums(f, S)[T] = f[Pick(T)] + Sums(f, S)[T \ {Pick(T)}]
<1>1. IsFiniteSet(T)
  BY FS_Subset
<1>2. SumsOf(Sums(f, S), f, S) /\ SumsOf(Sums(f, T), f, T)
  BY <1>1, SumsExist
<1>3. Sums(f, S)[T] = Sums(f, T)[T]
  BY <1>1, <1>2, SumsAgree
<1>4. T # {} => Pick(T) \in T
  BY DEF Pick
<1> QED
  BY <1>2, <1>3, <1>4, SumIsSums DEF SumsOf

\* The sum of naturals is a natural, that of integers an integer.
LEMMA SumClosed ==
  ASSUME NEW C, C = Nat \/ C = Int, NEW S, IsFiniteSet(S), NEW f, \A x \in S : f[x] \in C
  PROVE  SumFunctionOnSet(f, S) \in C
<1> DEFINE B == {T \in SUBSET S : Sums(f, S)[T] \notin C}
<1>1. SUFFICES B = {}
  BY SumIsSums
<1>2. SUFFICES ASSUME NEW T \in B, \A V \in B : V \subseteq T => V = T PROVE FALSE
  <2>1. B \in SUBSET SUBSET S
    OBVIOUS
  <2> HIDE DEF B
  <2> QED
    BY <2>1, MinimalSubset
<1>3. T \subseteq S /\ T # {}
  <2>1. T \subseteq S
    OBVIOUS
  <2>2. CASE T = {}
    <3>1. Sums(f, S)[T] \notin C
      OBVIOUS
    <3> HIDE DEF B
    <3>2. Sums(f, S)[T] = 0
      BY <2>1, <2>2, SumsStep
    <3> QED
      BY <3>1, <3>2
  <2> QED
    BY <2>1, <2>2
<1>4. Pick(T) \in T /\ Sums(f, S)[T] = f[Pick(T)] + Sums(f, S)[T \ {Pick(T)}]
  BY <1>3, SumsStep
<1>5. Sums(f, S)[T \ {Pick(T)}] \in C
  BY <1>2, <1>4
<1> QED
  BY <1>4, <1>5

LEMMA SumType ==
  ASSUME NEW S, IsFiniteSet(S), NEW f, \A x \in S : f[x] \in Nat
  PROVE  SumFunctionOnSet(f, S) \in Nat
  BY SumClosed

\* Two functions that differ at one argument.
LEMMA SumChange ==
  ASSUME NEW S, IsFiniteSet(S), NEW f, NEW g, NEW x \in S,
         \A y \in S : f[y] \in Nat /\ g[y] \in Nat,
         \A y \in S \ {x} : g[y] = f[y]
  PROVE  SumFunctionOnSet(g, S) + f[x] = SumFunctionOnSet(f, S) + g[x]
<1> DEFINE F(T) == Sums(f, S)[T]
           G(T) == Sums(g, S)[T]
           Same(T) == IF x \in T THEN G(T) + f[x] = F(T) + g[x] ELSE G(T) = F(T)
           B == {T \in SUBSET S : ~Same(T)}
<1>1. SUFFICES B = {}
  BY SumIsSums
<1>2. SUFFICES ASSUME NEW T \in B, \A V \in B : V \subseteq T => V = T PROVE FALSE
  <2>1. B \in SUBSET SUBSET S
    OBVIOUS
  <2> HIDE DEF B
  <2> QED
    BY <2>1, MinimalSubset
<1>3. T \subseteq S /\ T # {}
  <2>1. T \subseteq S
    OBVIOUS
  <2>2. CASE T = {}
    BY <2>1, <2>2, SumsStep
  <2> QED
    BY <2>1, <2>2
<1> DEFINE p == Pick(T)
           U == T \ {p}
<1>4. p \in T /\ F(T) = f[p] + F(U) /\ G(T) = g[p] + G(U)
  BY <1>3, SumsStep
<1>5. Same(U)
  BY <1>2, <1>3, <1>4
<1>6. F(U) \in Nat /\ G(U) \in Nat
  <2>1. U \subseteq S /\ IsFiniteSet(U)
    BY <1>3, FS_Subset
  <2>2. F(U) = SumFunctionOnSet(f, U) /\ G(U) = SumFunctionOnSet(g, U)
    <3> HIDE DEF U, B
    <3>1. F(U) = SumFunctionOnSet(f, U)
      BY <2>1, SumsStep
    <3>2. G(U) = SumFunctionOnSet(g, U)
      BY <2>1, SumsStep
    <3> QED
      BY <3>1, <3>2
  <2>3. \A y \in U : f[y] \in Nat /\ g[y] \in Nat
    BY <2>1
  <2> QED
    BY <2>1, <2>2, <2>3, SumType
<1>7. ~Same(T)
  BY <1>2
<1> HIDE DEF F, G
<1> QED
  BY <1>3, <1>4, <1>5, <1>6, <1>7

\* Two functions that do not differ.
LEMMA SumEqual ==
  ASSUME NEW S, IsFiniteSet(S), NEW f, NEW g, \A y \in S : g[y] = f[y]
  PROVE  SumFunctionOnSet(g, S) = SumFunctionOnSet(f, S)
<1> DEFINE B == {T \in SUBSET S : Sums(g, S)[T] # Sums(f, S)[T]}
<1>1. SUFFICES B = {}
  BY SumIsSums
<1>2. SUFFICES ASSUME NEW T \in B, \A V \in B : V \subseteq T => V = T PROVE FALSE
  <2>1. B \in SUBSET SUBSET S
    OBVIOUS
  <2> HIDE DEF B
  <2> QED
    BY <2>1, MinimalSubset
<1>3. T \subseteq S
  OBVIOUS
<1>4. Sums(g, S)[T] # Sums(f, S)[T]
  OBVIOUS
<1> HIDE DEF B
<1> DEFINE U == T \ {Pick(T)}
<1>5. ASSUME NEW h
      PROVE  /\ T = {} => Sums(h, S)[T] = 0
             /\ T # {} => Pick(T) \in T /\ Sums(h, S)[T] = h[Pick(T)] + Sums(h, S)[U]
  BY <1>3, SumsStep
<1>6. T # {}
  BY <1>5, <1>4
<1>7. Sums(g, S)[U] = Sums(f, S)[U]
  BY <1>2, <1>3, <1>5, <1>6 DEF B
<1> QED
  BY <1>3, <1>5, <1>6, <1>7, <1>4

\* One more argument; in which order the recursion takes them does not matter.
LEMMA SumAdd ==
  ASSUME NEW S, IsFiniteSet(S), NEW f, \A y \in S : f[y] \in Int, NEW x \in S
  PROVE  SumFunctionOnSet(f, S) = f[x] + SumFunctionOnSet(f, S \ {x})
<1> DEFINE F(T) == Sums(f, S)[T]
           B == {T \in SUBSET S : \E y \in T : F(T) # f[y] + F(T \ {y})}
<1>1. SUFFICES B = {}
  <2>1. B = {} => F(S) = f[x] + F(S \ {x})
    OBVIOUS
  <2> HIDE DEF B
  <2>2. F(S) = SumFunctionOnSet(f, S) /\ F(S \ {x}) = SumFunctionOnSet(f, S \ {x})
    BY SumsStep
  <2> QED
    BY <2>1, <2>2
<1>2. SUFFICES ASSUME NEW T \in B, \A V \in B : V \subseteq T => V = T PROVE FALSE
  <2>1. B \in SUBSET SUBSET S
    OBVIOUS
  <2> HIDE DEF B
  <2> QED
    BY <2>1, MinimalSubset
<1>3. PICK y \in T : F(T) # f[y] + F(T \ {y})
  OBVIOUS
<1>4. T \subseteq S
  OBVIOUS
<1> DEFINE p == Pick(T)
           U == T \ {p}
           V == T \ {y}
           W == U \ {y}
<1>5. p \in T /\ F(T) = f[p] + F(U)
  <2> HIDE DEF B
  <2>1. T # {}
    BY <1>3
  <2> QED
    BY <1>4, <2>1, SumsStep
<1>6. p # y
  BY <1>3, <1>5
<1>7. F(U) = f[y] + F(W)
  BY <1>2, <1>4, <1>5, <1>6, <1>3
<1>8. F(V) = f[p] + F(V \ {p})
  BY <1>2, <1>4, <1>5, <1>6, <1>3
<1>9. V \ {p} = W
  OBVIOUS
<1>10. F(W) \in Int
  <2>1. W \subseteq S /\ IsFiniteSet(W)
    BY <1>4, FS_Subset
  <2>2. F(W) = SumFunctionOnSet(f, W)
    <3> HIDE DEF W, B
    <3> QED
      BY <2>1, SumsStep
  <2>3. \A z \in W : f[z] \in Int
    BY <2>1
  <2> QED
    BY <2>1, <2>2, <2>3, SumClosed
<1>11. f[y] \in Int /\ f[p] \in Int
  BY <1>3, <1>4, <1>5
<1> HIDE DEF F, B, p, U, V, W
<1>12. F(T) = f[y] + F(V)
  <2>1. F(V) = f[p] + F(W)
    BY <1>8, <1>9
  <2>2. PICK a \in Int, b \in Int, c \in Int : a = f[y] /\ b = f[p] /\ c = F(W)
    BY <1>10, <1>11
  <2>3. F(T) = b + (a + c) /\ F(V) = b + c
    BY <1>5, <1>7, <2>1, <2>2
  <2>4. b + (a + c) = a + (b + c)
    OBVIOUS
  <2> QED
    BY <2>2, <2>3, <2>4
<1> QED
  BY <1>3, <1>12 DEF V

\* A sum of values that are at most b, and 0 outside T.
LEMMA SumBound ==
  ASSUME NEW S, IsFiniteSet(S), NEW T, T \subseteq S, NEW b \in Nat, NEW f,
         \A y \in S : f[y] \in 0 .. b, \A y \in S \ T : f[y] = 0
  PROVE  SumFunctionOnSet(f, S) <= Cardinality(T) * b
<1> DEFINE F(W) == Sums(f, S)[W]
           B == {W \in SUBSET S : ~(F(W) <= Cardinality(W \cap T) * b)}
<1>1. SUFFICES B = {}
  <2>1. S \cap T = T
    OBVIOUS
  <2> QED
    BY <2>1, SumIsSums
<1>2. SUFFICES ASSUME NEW W \in B, \A V \in B : V \subseteq W => V = W PROVE FALSE
  <2>1. B \in SUBSET SUBSET S
    OBVIOUS
  <2> HIDE DEF B
  <2> QED
    BY <2>1, MinimalSubset
<1>3. W \subseteq S /\ IsFiniteSet(W) /\ IsFiniteSet(W \cap T)
  <2>1. W \subseteq S /\ W \cap T \subseteq S
    OBVIOUS
  <2> HIDE DEF B
  <2> QED
    BY <2>1, FS_Subset
<1>4. W # {}
  <2>1. CASE W = {}
    <3>1. F(W) = 0
      BY <1>3, <2>1, SumsStep
    <3>2. Cardinality(W \cap T) = 0
      <4>1. W \cap T = {}
        BY <2>1
      <4> QED
        BY <4>1, FS_EmptySet
    <3> QED
      BY <3>1, <3>2
  <2> QED
    BY <2>1
<1> DEFINE p == Pick(W)
           U == W \ {p}
<1>5. p \in W /\ F(W) = f[p] + F(U)
  BY <1>3, <1>4, SumsStep
<1>6. F(U) <= Cardinality(U \cap T) * b
  BY <1>2, <1>3, <1>5
<1>7. Cardinality(W \cap T) \in Nat
  BY <1>3, FS_CardinalityType
<1>8. F(U) \in Nat
  <2>1. U \subseteq S /\ IsFiniteSet(U)
    BY <1>3, FS_Subset
  <2>2. F(U) = SumFunctionOnSet(f, U)
    BY <2>1, SumsStep
  <2>3. \A z \in U : f[z] \in Nat
    BY <2>1
  <2> QED
    BY <2>1, <2>2, <2>3, SumType
<1>9. f[p] \in Nat /\ f[p] <= b /\ (p \notin T => f[p] = 0)
  BY <1>3, <1>5
<1>10. ~(F(W) <= Cardinality(W \cap T) * b)
  OBVIOUS
<1>11. CASE p \in T
  <2>1. p \in W \cap T /\ U \cap T = (W \cap T) \ {p}
    BY <1>5, <1>11
  <2>2. Cardinality(U \cap T) = Cardinality(W \cap T) - 1
    <3> HIDE DEF F, B, p, U
    <3> QED
      BY <1>3, <2>1, FS_RemoveElement
  <2> HIDE DEF F, B, p, U
  <2>3. (Cardinality(W \cap T) - 1) * b + b = Cardinality(W \cap T) * b
    BY <1>7
  <2> QED
    BY <1>5, <1>6, <1>7, <1>8, <1>9, <1>10, <2>2, <2>3
<1>12. CASE p \notin T
  <2>1. U \cap T = W \cap T
    BY <1>12
  <2>2. F(U) <= Cardinality(W \cap T) * b
    BY <1>6, <2>1
  <2> HIDE DEF F, B, p, U
  <2>3. F(W) = F(U)
    BY <1>5, <1>8, <1>9, <1>12
  <2> QED
    BY <1>10, <2>2, <2>3
<1> QED
  BY <1>11, <1>12

\* A sum of ones counts.
LEMMA SumOnes ==
  ASSUME NEW S, IsFiniteSet(S), NEW f, \A y \in S : f[y] = 1
  PROVE  SumFunctionOnSet(f, S) = Cardinality(S)
<1> DEFINE F(W) == Sums(f, S)[W]
           B == {W \in SUBSET S : F(W) # Cardinality(W)}
<1>1. SUFFICES B = {}
  BY SumIsSums
<1>2. SUFFICES ASSUME NEW W \in B, \A V \in B : V \subseteq W => V = W PROVE FALSE
  <2>1. B \in SUBSET SUBSET S
    OBVIOUS
  <2> HIDE DEF B
  <2> QED
    BY <2>1, MinimalSubset
<1>3. W \subseteq S /\ IsFiniteSet(W)
  BY FS_Subset
<1>4. W # {}
  <2>1. CASE W = {}
    <3>1. F(W) = 0 /\ Cardinality(W) = 0
      BY <1>3, <2>1, SumsStep, FS_EmptySet
    <3> QED
      BY <3>1
  <2> QED
    BY <2>1
<1> DEFINE p == Pick(W)
           U == W \ {p}
<1>5. p \in W /\ F(W) = f[p] + F(U)
  BY <1>3, <1>4, SumsStep
<1>6. F(U) = Cardinality(U)
  BY <1>2, <1>3, <1>5
<1>7. Cardinality(W) \in Nat /\ Cardinality(U) = Cardinality(W) - 1
  BY <1>3, <1>5, FS_RemoveElement, FS_CardinalityType
<1>8. f[p] = 1
  BY <1>3, <1>5
<1>9. F(W) # Cardinality(W)
  OBVIOUS
<1> HIDE DEF F, B, p, U
<1> QED
  BY <1>5, <1>6, <1>7, <1>8, <1>9

-----------------------------------------------------------------------------
\* The sum of a function whose values are naturals is a natural.
THEOREM TotalType ==
  ASSUME NEW S, IsFiniteSet(S), NEW f \in [S -> Nat]
  PROVE  SumFunction(f) \in Nat
  BY SumType DEF SumFunction

\* A sum moves by as much as the one value that changes.
THEOREM TotalChange ==
  ASSUME NEW S, IsFiniteSet(S), NEW f \in [S -> Nat], NEW x \in S, NEW v \in Nat
  PROVE  /\ SumFunction([f EXCEPT ![x] = v]) + f[x] = SumFunction(f) + v
         /\ SumFunction([f EXCEPT ![x] = v]) \in Nat /\ SumFunction(f) \in Nat
<1> DEFINE g == [f EXCEPT ![x] = v]
<1>1. g \in [S -> Nat] /\ g[x] = v /\ \A y \in S \ {x} : g[y] = f[y]
  OBVIOUS
<1> HIDE DEF g
<1>2. SumFunctionOnSet(g, S) + f[x] = SumFunctionOnSet(f, S) + g[x]
  BY <1>1, SumChange
<1>3. DOMAIN g = S /\ DOMAIN f = S
  BY <1>1
<1>4. SumFunction(g) + f[x] = SumFunction(f) + v
  BY <1>1, <1>2, <1>3 DEF SumFunction
<1>5. SumFunction(g) \in Nat /\ SumFunction(f) \in Nat
  BY <1>1, TotalType
<1> QED
  BY <1>4, <1>5 DEF g

\* A function with one more argument.
THEOREM TotalGrowInt ==
  ASSUME NEW S, IsFiniteSet(S), NEW f \in [S -> Int], NEW x, x \notin S, NEW v \in Int,
         NEW g, g = [y \in S \cup {x} |-> IF y = x THEN v ELSE f[y]]
  PROVE  SumFunction(g) = SumFunction(f) + v
<1> DEFINE T == S \cup {x}
<1>1. IsFiniteSet(T) /\ x \in T /\ T \ {x} = S
  BY FS_AddElement
<1>2. g[x] = v /\ (\A y \in T : g[y] \in Int) /\ \A y \in S : g[y] = f[y]
  OBVIOUS
<1>3. DOMAIN g = T /\ DOMAIN f = S
  OBVIOUS
<1> HIDE DEF T
<1>4. SumFunctionOnSet(g, T) = g[x] + SumFunctionOnSet(g, S)
  BY <1>1, <1>2, SumAdd
<1>5. SumFunctionOnSet(g, S) = SumFunctionOnSet(f, S)
  BY <1>2, SumEqual
<1>6. SumFunctionOnSet(f, S) \in Int
  BY SumClosed
<1>7. v + SumFunctionOnSet(f, S) = SumFunctionOnSet(f, S) + v
  BY <1>6
<1> QED
  BY <1>2, <1>3, <1>4, <1>5, <1>7 DEF SumFunction

THEOREM TotalGrow ==
  ASSUME NEW S, IsFiniteSet(S), NEW f \in [S -> Nat], NEW x, x \notin S, NEW v \in Nat,
         NEW g, g = [y \in S \cup {x} |-> IF y = x THEN v ELSE f[y]]
  PROVE  SumFunction(g) = SumFunction(f) + v
<1>1. f \in [S -> Int]
  OBVIOUS
<1> QED
  BY <1>1, TotalGrowInt

\* A function that is 1 everywhere.
THEOREM TotalOnes ==
  ASSUME NEW S, IsFiniteSet(S), NEW f, f = [x \in S |-> 1]
  PROVE  SumFunction(f) = Cardinality(S)
  BY SumOnes DEF SumFunction

\* Values that are at most b, and 0 outside T.
THEOREM TotalBoundOn ==
  ASSUME NEW S, IsFiniteSet(S), NEW T, T \subseteq S, NEW b \in Nat, NEW f \in [S -> 0 .. b],
         \A x \in S \ T : f[x] = 0
  PROVE  SumFunction(f) <= Cardinality(T) * b
  BY SumBound DEF SumFunction

\* Values that are at most b.
THEOREM TotalBound ==
  ASSUME NEW S, IsFiniteSet(S), NEW b \in Nat, NEW f \in [S -> 0 .. b]
  PROVE  SumFunction(f) <= Cardinality(S) * b
  BY TotalBoundOn

\* A function that is 0 everywhere, or everywhere but at one argument.
THEOREM TotalZero ==
  ASSUME NEW S, IsFiniteSet(S), NEW f, f = [x \in S |-> 0]
  PROVE  SumFunction(f) = 0
<1>1. f \in [S -> 0 .. 0] /\ f \in [S -> Nat]
  OBVIOUS
<1>2. SumFunction(f) <= Cardinality(S) * 0 /\ SumFunction(f) \in Nat
  BY <1>1, TotalBound, TotalType
<1>3. Cardinality(S) \in Nat
  BY FS_CardinalityType
<1> QED
  BY <1>2, <1>3

\* No value is more than the sum.
THEOREM TotalPart ==
  ASSUME NEW S, IsFiniteSet(S), NEW f \in [S -> Nat], NEW x \in S
  PROVE  f[x] <= SumFunction(f)
<1>1. SumFunctionOnSet(f, S) = f[x] + SumFunctionOnSet(f, S \ {x})
  BY SumAdd
<1>2. SumFunctionOnSet(f, S \ {x}) \in Nat
  <2>1. IsFiniteSet(S \ {x}) /\ \A y \in S \ {x} : f[y] \in Nat
    BY FS_RemoveElement
  <2> QED
    BY <2>1, SumType
<1> QED
  BY <1>1, <1>2 DEF SumFunction
-----------------------------------------------------------------------------
\* What finitely many lists contain is a finite set.
THEOREM ListedFinite ==
  ASSUME NEW L, IsFiniteSet(L), NEW lists, NEW Q, \A l \in L : lists[l] \in Seq(Q)
  PROVE  IsFiniteSet(UNION {{lists[l][i] : i \in DOMAIN lists[l]} : l \in L})
<1> DEFINE listed(l) == {lists[l][i] : i \in DOMAIN lists[l]}
           all == {listed(l) : l \in L}
<1>1. ASSUME NEW l \in L PROVE IsFiniteSet(listed(l))
  <2>1. lists[l] \in Seq(Q)
    OBVIOUS
  <2>2. Len(lists[l]) \in Nat /\ DOMAIN lists[l] = 1 .. Len(lists[l])
    BY <2>1, LenProperties
  <2>3. IsFiniteSet(DOMAIN lists[l])
    BY <2>2, FS_Interval
  <2>4. lists[l] \in Surjection(DOMAIN lists[l], listed(l))
    BY <2>1 DEF Surjection
  <2> QED
    BY <2>3, <2>4, FS_Surjection
<1>2. IsFiniteSet(all)
  <2> DEFINE f == [l \in L |-> listed(l)]
  <2>1. f \in Surjection(L, all)
    BY DEF Surjection
  <2> HIDE DEF all, f
  <2> QED
    BY <2>1, FS_Surjection
<1>3. \A s \in all : IsFiniteSet(s)
  BY <1>1
<1> HIDE DEF all
<1>4. IsFiniteSet(UNION all)
  BY <1>2, <1>3, FS_UNION
<1> QED
  BY <1>4 DEF all
=============================================================================
