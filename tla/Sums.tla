-------------------------------- MODULE Sums ---------------------------------
(***************************************************************************)
(* Lemmas about the sums of the community modules, SumFunctionOnSet(g, S). *)
(* A fold is a CHOOSE of a recursive function on the subsets of S.  That   *)
(* there is one, that it is the same for every order of the elements, and  *)
(* how a sum changes with one of its elements follows from the finiteness  *)
(* of S alone: among the subsets that would refute a lemma there is one    *)
(* that has no smaller one inside (Smallest).                              *)
(***************************************************************************)
EXTENDS Integers, FiniteSets, FiniteSetsExt, Functions, FiniteSetTheorems, TLAPS

\* The element a fold takes next.
Chosen(s) == CHOOSE x \in s : TRUE

\* f adds up the values of g over every subset of S, one element after the other.
AddsUp(f, g, S) ==
    f = [s \in SUBSET S |-> IF s = {} THEN 0 ELSE g[Chosen(s)] + f[s \ {Chosen(s)}]]

\* What the fold of the community modules is.
LEMMA SumUnfolds == \A g, S : SumFunctionOnSet(g, S) = (CHOOSE f : AddsUp(f, g, S))[S]
BY DEF SumFunctionOnSet, FoldFunctionOnSet, MapThenFoldSet, AddsUp, Chosen

\* Of the subsets of a finite set that have a property, one has no smaller one inside.
LEMMA Smallest ==
    ASSUME NEW S, IsFiniteSet(S), NEW B \in SUBSET SUBSET S, B # {}
    PROVE  \E T \in B : \A U \in B : U \subseteq T => U = T
<1>1. IsWellFoundedOn(StrictSubsetOrdering(S), SUBSET S)
  BY FS_StrictSubsetOrderingWellFounded, FS_FiniteSubsetsOfFinite
<1>2. PICK T \in B : \A U \in B : ~(<<U, T>> \in StrictSubsetOrdering(S))
  BY <1>1, WFMin
<1>3. ASSUME NEW U \in B, U \subseteq T
      PROVE  U = T
  BY <1>2, <1>3 DEF StrictSubsetOrdering
<1>4. QED
  BY <1>3

\* It is one of the set.
LEMMA ChosenIn == ASSUME NEW s, s # {} PROVE Chosen(s) \in s
BY DEF Chosen

\* Where two functions add up the same values they agree.
LEMMA AddUpAlike ==
    ASSUME NEW S, IsFiniteSet(S), NEW T \in SUBSET S, NEW U \in SUBSET S, NEW g, NEW h,
           \A x \in S : g[x] = h[x], NEW e, NEW f, AddsUp(e, g, T), AddsUp(f, h, U)
    PROVE  \A s : s \subseteq T /\ s \subseteq U => e[s] = f[s]
<1>. SUFFICES ASSUME {s \in SUBSET (T \cap U) : e[s] # f[s]} # {}
              PROVE  FALSE
  OBVIOUS
<1>. DEFINE B == {s \in SUBSET (T \cap U) : e[s] # f[s]}
<1>1. PICK s \in B : \A r \in B : r \subseteq s => r = s
  <2>1. B \in SUBSET SUBSET S /\ B # {}
    OBVIOUS
  <2>. HIDE DEF B
  <2>2. QED
    BY <2>1, Smallest
<1>2. s # {}
  BY <1>1 DEF AddsUp
<1>3. Chosen(s) \in s
  BY <1>2, ChosenIn
<1>4. e[s \ {Chosen(s)}] = f[s \ {Chosen(s)}]
  BY <1>1, <1>3
<1>5. e[s] = g[Chosen(s)] + e[s \ {Chosen(s)}]
  BY <1>1, <1>2 DEF AddsUp
<1>6. f[s] = h[Chosen(s)] + f[s \ {Chosen(s)}]
  BY <1>1, <1>2 DEF AddsUp
<1>7. QED
  BY <1>1, <1>3, <1>4, <1>5, <1>6

\* There is a function that adds up.
LEMMA AddsUpOnce ==
    ASSUME NEW S, IsFiniteSet(S), NEW g
    PROVE  \E f : AddsUp(f, g, S)
<1>. DEFINE B == {T \in SUBSET S : ~\E f : AddsUp(f, g, T)}
<1>. SUFFICES ASSUME B # {} PROVE FALSE
  OBVIOUS
<1>1. PICK T \in B : \A U \in B : U \subseteq T => U = T
  <2>1. B \in SUBSET SUBSET S
    OBVIOUS
  <2>. HIDE DEF B
  <2>2. QED
    BY <2>1, Smallest
<1>2. \A U \in SUBSET T : U # T => AddsUp(CHOOSE f : AddsUp(f, g, U), g, U)
  <2>1. ASSUME NEW U \in SUBSET T, U # T
        PROVE  \E f : AddsUp(f, g, U)
    BY <1>1, <2>1
  <2>2. ASSUME NEW U \in SUBSET T, U # T
        PROVE  AddsUp(CHOOSE f : AddsUp(f, g, U), g, U)
    BY <2>1, <2>2, Zenon
  <2>3. QED
    BY <2>2
<1>. DEFINE D(s) == SumFunctionOnSet(g, s)
            f == [s \in SUBSET T |-> IF s = {} THEN 0 ELSE g[Chosen(s)] + D(s \ {Chosen(s)})]
<1>3. ASSUME NEW U \in SUBSET T, U # T
      PROVE  f[U] = D(U)
  <2>. DEFINE F == CHOOSE e : AddsUp(e, g, U)
  <2>1. AddsUp(F, g, U) /\ D(U) = F[U]
    BY <1>2, <1>3, SumUnfolds
  <2>. HIDE DEF F
  <2>2. CASE U = {}
    BY <2>1, <2>2 DEF AddsUp
  <2>3. CASE U # {}
    <3>. DEFINE V == U \ {Chosen(U)}
                H == CHOOSE e : AddsUp(e, g, V)
    <3>1. Chosen(U) \in U /\ V \in SUBSET U /\ V # T
      BY <2>3, ChosenIn
    <3>2. AddsUp(H, g, V) /\ D(V) = H[V]
      BY <1>2, <3>1, SumUnfolds
    <3>. HIDE DEF H
    <3>3. F[V] = H[V]
      <4>1. U \in SUBSET S /\ V \in SUBSET S /\ V \in SUBSET (U \cap V)
        BY <1>1, <3>1
      <4>. HIDE DEF V
      <4>2. QED
        BY <2>1, <3>2, <4>1, AddUpAlike
    <3>4. F[U] = g[Chosen(U)] + F[V]
      BY <2>1, <2>3 DEF AddsUp
    <3>5. QED
      BY <2>1, <2>3, <3>2, <3>3, <3>4
  <2>4. QED
    BY <2>2, <2>3
<1>. HIDE DEF D
<1>4. ASSUME NEW s \in SUBSET T, s # {}
      PROVE  f[s \ {Chosen(s)}] = D(s \ {Chosen(s)})
  <2>1. Chosen(s) \in s
    BY <1>4, ChosenIn
  <2>. HIDE DEF f
  <2>2. s \ {Chosen(s)} \in SUBSET T /\ s \ {Chosen(s)} # T
    BY <2>1
  <2>3. QED
    BY <1>3, <2>2
<1>5. AddsUp(f, g, T)
  BY <1>4 DEF AddsUp
<1>6. QED
  BY <1>1, <1>5

\* The sum is what any function that adds up says.
LEMMA SumIs ==
    ASSUME NEW S, IsFiniteSet(S), NEW g, NEW h, \A x \in S : g[x] = h[x],
           NEW f, AddsUp(f, h, S)
    PROVE  f[S] = SumFunctionOnSet(g, S)
<1>1. AddsUp(CHOOSE e : AddsUp(e, g, S), g, S)
  BY AddsUpOnce, Zenon
<1>2. PICK e : AddsUp(e, g, S) /\ SumFunctionOnSet(g, S) = e[S]
  BY <1>1, SumUnfolds
<1>3. S \in SUBSET S
  OBVIOUS
<1>4. QED
  BY <1>2, <1>3, AddUpAlike

\* The sum over nothing.
LEMMA SumNone == \A g : SumFunctionOnSet(g, {}) = 0
<1>1. TAKE g
<1>2. IsFiniteSet({}) 
  BY FS_EmptySet
<1>3. PICK f : AddsUp(f, g, {})
  BY <1>2, AddsUpOnce
<1>4. f[{}] = 0
  BY <1>3 DEF AddsUp
<1>5. QED
  BY <1>2, <1>3, <1>4, SumIs

\* The sum by the element the fold takes next.
LEMMA SumStep ==
    ASSUME NEW S, IsFiniteSet(S), NEW g, S # {}
    PROVE  SumFunctionOnSet(g, S) = g[Chosen(S)] + SumFunctionOnSet(g, S \ {Chosen(S)})
<1>1. PICK f : AddsUp(f, g, S)
  BY AddsUpOnce
<1>2. f[S] = SumFunctionOnSet(g, S)
  BY <1>1, SumIs
<1>. DEFINE T == S \ {Chosen(S)}
<1>3. T \in SUBSET S /\ IsFiniteSet(T)
  BY FS_Subset
<1>. HIDE DEF T
<1>. DEFINE e == [s \in SUBSET T |-> f[s]]
<1>4. AddsUp(e, g, T)
  <2>1. \A s \in SUBSET T : s # {} => Chosen(s) \in s
    BY ChosenIn
  <2>2. \A s \in SUBSET T : f[s] = IF s = {} THEN 0 ELSE g[Chosen(s)] + f[s \ {Chosen(s)}]
    BY <1>1, <1>3 DEF AddsUp
  <2>3. \A s \in SUBSET T : s # {} => e[s \ {Chosen(s)}] = f[s \ {Chosen(s)}]
    BY <2>1
  <2>4. QED
    BY <2>2, <2>3 DEF AddsUp
<1>5. e[T] = f[T]
  OBVIOUS
<1>. HIDE DEF e
<1>6. e[T] = SumFunctionOnSet(g, T)
  BY <1>3, <1>4, SumIs
<1>7. f[S] = g[Chosen(S)] + f[T]
  BY <1>1 DEF AddsUp, T
<1>8. QED
  BY <1>2, <1>5, <1>6, <1>7 DEF T

\* A sum of integers is an integer.
LEMMA SumType ==
    ASSUME NEW S, IsFiniteSet(S), NEW g, \A x \in S : g[x] \in Int
    PROVE  SumFunctionOnSet(g, S) \in Int
<1>. DEFINE B == {T \in SUBSET S : SumFunctionOnSet(g, T) \notin Int}
<1>. SUFFICES ASSUME B # {} PROVE FALSE
  OBVIOUS
<1>1. PICK T \in B : \A U \in B : U \subseteq T => U = T
  <2>1. B \in SUBSET SUBSET S
    OBVIOUS
  <2>. HIDE DEF B
  <2>2. QED
    BY <2>1, Smallest
<1>2. T \in SUBSET S /\ SumFunctionOnSet(g, T) \notin Int
  OBVIOUS
<1>3. \A U \in SUBSET T : U # T => SumFunctionOnSet(g, U) \in Int
  BY <1>1, <1>2
<1>. HIDE DEF B
<1>4. T # {}
  BY <1>2, SumNone
<1>5. Chosen(T) \in T
  BY <1>4, ChosenIn
<1>6. SumFunctionOnSet(g, T \ {Chosen(T)}) \in Int
  BY <1>3, <1>5
<1>7. IsFiniteSet(T)
  BY <1>2, FS_Subset
<1>8. SumFunctionOnSet(g, T) = g[Chosen(T)] + SumFunctionOnSet(g, T \ {Chosen(T)})
  BY <1>4, <1>7, SumStep
<1>9. QED
  BY <1>2, <1>5, <1>6, <1>8

\* An element more is its value more.
LEMMA SumAdd ==
    ASSUME NEW S, IsFiniteSet(S), NEW g, \A x \in S : g[x] \in Int, NEW a \in S
    PROVE  SumFunctionOnSet(g, S) = g[a] + SumFunctionOnSet(g, S \ {a})
<1>. DEFINE B == {T \in SUBSET S : \E b \in T :
                     SumFunctionOnSet(g, T) # g[b] + SumFunctionOnSet(g, T \ {b})}
<1>. SUFFICES ASSUME B # {} PROVE FALSE
  OBVIOUS
<1>1. PICK T \in B : \A U \in B : U \subseteq T => U = T
  <2>1. B \in SUBSET SUBSET S
    OBVIOUS
  <2>. HIDE DEF B
  <2>2. QED
    BY <2>1, Smallest
<1>2. PICK b \in T : SumFunctionOnSet(g, T) # g[b] + SumFunctionOnSet(g, T \ {b})
  OBVIOUS
<1>20. T \in SUBSET S
  OBVIOUS
<1>21. \A U \in SUBSET T : U # T =>
           \A d \in U : SumFunctionOnSet(g, U) = g[d] + SumFunctionOnSet(g, U \ {d})
  BY <1>1, <1>20
<1>. HIDE DEF B
<1>. DEFINE c == Chosen(T)
<1>3. c \in T /\ T \in SUBSET S
  BY <1>2, <1>20, ChosenIn
<1>. HIDE DEF c
<1>4. /\ IsFiniteSet(T) /\ IsFiniteSet(T \ {b}) /\ IsFiniteSet(T \ {c})
      /\ IsFiniteSet((T \ {b}) \ {c})
  BY <1>3, FS_Subset
<1>5. SumFunctionOnSet(g, T) = g[c] + SumFunctionOnSet(g, T \ {c})
  BY <1>3, <1>4, SumStep DEF c
<1>6. b # c
  BY <1>2, <1>5
<1>7. SumFunctionOnSet(g, T \ {c}) = g[b] + SumFunctionOnSet(g, (T \ {c}) \ {b})
  BY <1>2, <1>21, <1>3, <1>6
<1>8. SumFunctionOnSet(g, T \ {b}) = g[c] + SumFunctionOnSet(g, (T \ {b}) \ {c})
  BY <1>2, <1>21, <1>3, <1>6
<1>9. (T \ {c}) \ {b} = (T \ {b}) \ {c}
  OBVIOUS
<1>10. SumFunctionOnSet(g, (T \ {b}) \ {c}) \in Int
  BY <1>3, <1>4, SumType
<1>11. g[b] \in Int /\ g[c] \in Int
  BY <1>2, <1>3
<1>12. SumFunctionOnSet(g, (T \ {c}) \ {b}) = SumFunctionOnSet(g, (T \ {b}) \ {c})
  BY <1>9, Zenon
<1>13. \A x, y, z : x \in Int /\ y \in Int /\ z \in Int => x + (y + z) = y + (x + z)
  OBVIOUS
<1>14. QED
  BY <1>2, <1>5, <1>7, <1>8, <1>12, <1>10, <1>11, <1>13

\* Sums of the same values are the same.
LEMMA SumSame ==
    ASSUME NEW S, IsFiniteSet(S), NEW g, NEW h, \A x \in S : g[x] = h[x]
    PROVE  SumFunctionOnSet(g, S) = SumFunctionOnSet(h, S)
<1>1. PICK f : AddsUp(f, h, S)
  BY AddsUpOnce
<1>2. QED
  BY <1>1, SumIs

\* What an element adds to a sum.
Share(g, T, a) == IF a \in T THEN g[a] ELSE 0

\* A sum over other elements and values than before, but for one element a.
LEMMA SumChange ==
    ASSUME NEW S, IsFiniteSet(S), NEW T \in SUBSET S, NEW U \in SUBSET S,
           NEW g, \A x \in T : g[x] \in Int, NEW h, \A x \in U : h[x] \in Int,
           NEW a \in S, \A x \in S \ {a} : x \in T <=> x \in U,
           \A x \in T \ {a} : h[x] = g[x]
    PROVE  SumFunctionOnSet(h, U) =
               SumFunctionOnSet(g, T) - Share(g, T, a) + Share(h, U, a)
<1>. DEFINE rest == T \ {a}
<1>1. /\ IsFiniteSet(T) /\ IsFiniteSet(U) /\ IsFiniteSet(rest)
      /\ rest \subseteq T /\ \A x \in rest : h[x] = g[x]
  BY FS_Subset
<1>2. /\ a \notin T => T = rest
      /\ a \notin U => U = rest
      /\ a \in T => rest = T \ {a}
      /\ a \in U => rest = U \ {a}
  OBVIOUS
<1>. HIDE DEF rest
<1>3. SumFunctionOnSet(h, rest) = SumFunctionOnSet(g, rest)
  BY <1>1, SumSame
<1>4. SumFunctionOnSet(g, rest) \in Int
  BY <1>1, SumType
<1>5. SumFunctionOnSet(g, T) = SumFunctionOnSet(g, rest) + Share(g, T, a)
  <2>1. CASE a \in T
    BY <1>1, <1>2, <1>4, <2>1, SumAdd DEF Share
  <2>2. CASE a \notin T
    BY <1>2, <1>4, <2>2 DEF Share
  <2>3. QED
    BY <2>1, <2>2
<1>6. SumFunctionOnSet(h, U) = SumFunctionOnSet(h, rest) + Share(h, U, a)
  <2>1. CASE a \in U
    BY <1>1, <1>2, <1>3, <1>4, <2>1, SumAdd DEF Share
  <2>2. CASE a \notin U
    BY <1>2, <1>3, <1>4, <2>2 DEF Share
  <2>3. QED
    BY <2>1, <2>2
<1>7. Share(g, T, a) \in Int /\ Share(h, U, a) \in Int
  BY DEF Share
<1>8. QED
  BY <1>3, <1>4, <1>5, <1>6, <1>7

\* Zeros add up to zero.
LEMMA SumZero ==
    ASSUME NEW S, IsFiniteSet(S), NEW g, \A x \in S : g[x] = 0
    PROVE  SumFunctionOnSet(g, S) = 0
<1>. DEFINE B == {T \in SUBSET S : SumFunctionOnSet(g, T) # 0}
<1>. SUFFICES ASSUME B # {} PROVE FALSE
  OBVIOUS
<1>1. PICK T \in B : \A U \in B : U \subseteq T => U = T
  <2>1. B \in SUBSET SUBSET S
    OBVIOUS
  <2>. HIDE DEF B
  <2>2. QED
    BY <2>1, Smallest
<1>2. T \in SUBSET S /\ SumFunctionOnSet(g, T) # 0
  OBVIOUS
<1>3. \A U \in SUBSET T : U # T => SumFunctionOnSet(g, U) = 0
  BY <1>1, <1>2
<1>. HIDE DEF B
<1>4. PICK x \in T : TRUE
  BY <1>2, SumNone
<1>5. SumFunctionOnSet(g, T \ {x}) = 0 /\ g[x] = 0
  BY <1>2, <1>3, <1>4
<1>6. IsFiniteSet(T) /\ \A y \in T : g[y] \in Int
  BY <1>2, FS_Subset
<1>7. SumFunctionOnSet(g, T) = g[x] + SumFunctionOnSet(g, T \ {x})
  BY <1>6, SumAdd
<1>8. QED
  BY <1>2, <1>5, <1>7

\* The same for the rows of a table, of which one changes: the sum over some.
LEMMA SumRows ==
    ASSUME NEW S, IsFiniteSet(S), NEW g \in [S -> Int], NEW h \in [S -> Int],
           NEW a \in S, \A x \in S \ {a} : h[x] = g[x],
           NEW T \in SUBSET S, NEW U \in SUBSET S, \A x \in S \ {a} : x \in T <=> x \in U
    PROVE  /\ SumFunctionOnSet(h, U) =
                  SumFunctionOnSet(g, T) - Share(g, T, a) + Share(h, U, a)
           /\ SumFunctionOnSet(g, T) \in Int
<1>1. /\ IsFiniteSet(T) /\ \A x \in T : g[x] \in Int
      /\ \A x \in U : h[x] \in Int
      /\ \A x \in T \ {a} : h[x] = g[x]
  BY FS_Subset
<1>2. QED
  BY <1>1, SumChange, SumType

\* And the sum over all.
LEMMA SumTable ==
    ASSUME NEW S, IsFiniteSet(S), NEW g \in [S -> Int], NEW h \in [S -> Int],
           NEW a \in S, \A x \in S \ {a} : h[x] = g[x]
    PROVE  /\ SumFunction(h) = SumFunction(g) - g[a] + h[a]
           /\ SumFunction(g) \in Int
<1>1. SumFunction(g) = SumFunctionOnSet(g, S) /\ SumFunction(h) = SumFunctionOnSet(h, S)
  BY DEF SumFunction
<1>2. QED
  BY <1>1, SumRows DEF Share
===============================================================================
